--------------------------- MODULE ServiceProofs ---------------------------
(***************************************************************************)
(* Theorems about Service, for any calls, requests and rate card, however  *)
(* the calls overlap with settlements, evictions, restarts and revocations *)
(* on the chain: a usageId is served once, at the price of the card; a     *)
(* rotated key stays out; and what is served fits the budget as long as    *)
(* the gate is not outrun.                                                 *)
(***************************************************************************)
EXTENDS Service, SumTheorems, TLAPS

-----------------------------------------------------------------------------
(* The invariants.                                                         *)

Ver == {NoVer} \cup DOMAIN CertUntil
Serving == {"admit", "bind", "prove", "record", "count"}

CallState ==
    [pc : {"new", "session", "admit", "bind", "prove", "record", "count", "done", "lost"},
     status : {0, 200, 400, 401, 402, 403, 404, 409, 500},
     s : Nat, durable : Ver, floor : Ver]
SessionState ==
    [serviceable : BOOLEAN, pending : Int, remaining : Int, foreign : BOOLEAN,
     agent : Ver, until : Nat]

\* The session of the map is the latest; while there is none there is room
\* for it, and only then a validation is in flight.  A call holds a session
\* from the gate to its answer.
Typed ==
    /\ req \in Scenarios
    /\ call \in [Calls -> CallState]
    /\ sessions \in Seq(SessionState) /\ Len(sessions) <= MaxSessions
    /\ current \in {NoSession, Len(sessions)}
    /\ current = NoSession => Len(sessions) < MaxSessions
    /\ validating \in [at : {"no", "reading", "read"}, ok : BOOLEAN, spent : 0..Budget]
    /\ validating.at # "no" => current = NoSession
    /\ usage \in [Ids -> Nat] /\ billed \subseteq {u \in Ids : usage[u] > 0}
    /\ maxVer \in Ver
    /\ chain \in [ours : BOOLEAN, active : BOOLEAN, spent : 0..Budget,
                  balance : 0..MaxBalance]
    /\ now \in 0..MaxTime /\ faults \in 0..MaxFaults
    /\ \A c \in Calls :
          IF call[c].pc \in Serving THEN call[c].s \in DOMAIN sessions
                                    ELSE call[c].s = NoSession

\* Past the door a call asks for something.
AsksSomething ==
    \A c \in Calls : call[c].pc \in Serving \cup {"session"} =>
        amountOf(c) > 0 /\ req[c].price # "no_card"

\* Recorded usage is that of one call, which was served or lost its answer.
Served(c) == call[c].pc = "count" \/ Status(c, {200})
BooksInv ==
    /\ \A c \in Calls : Served(c) => usage[req[c].id] = amountOf(c) /\ amountOf(c) > 0
    /\ \A c, d \in Calls : c # d /\ req[c].id = req[d].id => ~(Served(c) /\ Served(d))
    /\ \A u \in Ids : usage[u] > 0 =>
          \E d \in Calls : req[d].id = u /\ (Served(d) \/ call[d].pc = "lost")

\* The store never forgets a certificate, and a call that passed the floor is
\* not below what the store knew when it came in.
KeysInv ==
    \A c \in Calls :
        /\ call[c].floor <= maxVer
        /\ call[c].pc = "bind" => req[c].cert # NoVer /\ call[c].floor <= call[c].durable
        /\ call[c].pc \in {"prove", "record", "count"} /\ req[c].cert # NoVer
           /\ authMode(req[c]) = "enforce" => req[c].cert >= call[c].floor

\* While the gate is not outrun, the calls hold the latest session, one of
\* them at most is between its ingest and its count, and what that session has
\* left fits the budget with all that is spent or will be.
Promise == chain.spent + Sum(unbilled)
Left == sessions[Len(sessions)].remaining
Alive == current # NoSession \/ \E c \in Calls : call[c].s # NoSession
BudgetInv ==
    gaps = {} =>
        /\ Promise <= Budget
        /\ \A c \in Calls : call[c].s \in {NoSession, Len(sessions)}
        /\ \A c, d \in Calls : call[c].pc = "count" /\ call[d].pc = "count" => c = d
        /\ Alive /\ (\A c \in Calls : call[c].pc # "count") => Promise + Left <= Budget
        /\ \A c \in Calls : call[c].pc = "count" => Promise + Left - amountOf(c) <= Budget

ServiceInv == Typed /\ AsksSomething /\ BooksInv /\ KeysInv /\ BudgetInv

-----------------------------------------------------------------------------
(* Prices.                                                                 *)

\* Products of amounts.
LEMMA Products ==
    /\ \A a, b \in Int : a * b \in Int
    /\ \A a, b \in Nat : a * b \in Nat
    /\ \A a, b \in Nat : a > 0 /\ b > 0 => a * b > 0
    /\ \A a, b \in Int : (a + 1) * b = a * b + b /\ (a - 1) * b = a * b - b
    /\ \A a, b \in Int : (2 * a) * b = 2 * (a * b) /\ a * (2 * b) = 2 * (a * b)
    /\ \A a, b \in Int, d \in Nat : a <= b => a * d <= b * d
<1>1. \A a, b \in Int : (a + 1) * b = a * b + b /\ (a - 1) * b = a * b - b
  OBVIOUS
<1>2. \A a, b \in Int : (2 * a) * b = 2 * (a * b) /\ a * (2 * b) = 2 * (a * b)
  OBVIOUS
<1>3. \A a, b \in Nat : a > 0 /\ b > 0 => a * b > 0
  OBVIOUS
<1>4. \A a, b \in Int, d \in Nat : a <= b => a * d <= b * d
  OBVIOUS
<1> QED BY <1>1, <1>2, <1>3, <1>4

\* Division rounds down.
LEMMA Division ==
    ASSUME NEW a \in Int, NEW b \in Nat, b > 0
    PROVE  a \div b \in Int /\ (a \div b) * b <= a /\ a < (a \div b) * b + b
OBVIOUS

\* A quotient rounds as its mode says, and by less than one coin.
LEMMA RoundDivRounds ==
    ASSUME NEW num \in Nat, NEW den \in Nat, den > 0, NEW mode \in Rounding
    PROVE  /\ roundDiv(num, den, mode) \in Int
           /\ RoundsTo(roundDiv(num, den, mode), num, den, mode)
           /\ num < roundDiv(num, den, mode) * den + den
<1> PICK q : q = roundDiv(num, den, mode)
  OBVIOUS
<1>1. CASE mode = "floor"
  <2>1. q = num \div den
    BY <1>1 DEF roundDiv
  <2>2. q \in Int /\ q * den <= num /\ num < q * den + den
    BY <2>1, Division
  <2> QED BY <1>1, <2>2, Products DEF RoundsTo
<1>2. CASE mode = "ceil"
  <2>1. q = (num + den - 1) \div den
    BY <1>2 DEF roundDiv
  <2>2. q \in Int /\ q * den <= num + den - 1 /\ num + den - 1 < q * den + den
    BY <2>1, Division
  <2>3. q * den \in Int /\ (q - 1) * den = q * den - den
    BY <2>2, Products
  <2>4. num <= q * den /\ (q - 1) * den < num /\ num < q * den + den
    BY <2>2, <2>3
  <2> QED BY <1>2, <2>2, <2>4 DEF RoundsTo
<1>3. CASE mode = "half_up"
  <2>1. q = (2 * num + den) \div (2 * den)
    BY <1>3 DEF roundDiv
  <2>2. q \in Int /\ q * (2 * den) <= 2 * num + den
        /\ 2 * num + den < q * (2 * den) + 2 * den
    BY <2>1, Division
  <2>3. q * den \in Int /\ q * (2 * den) = 2 * (q * den)
        /\ (2 * q) * den = 2 * (q * den)
    BY <2>2, Products
  <2>4. 2 * q \in Int
    BY <2>2
  <2>5. (2 * q - 1) * den = (2 * q) * den - den
        /\ (2 * q + 1) * den = (2 * q) * den + den
    BY <2>4, Products
  <2>6. (2 * q - 1) * den <= 2 * num /\ 2 * num < (2 * q + 1) * den
        /\ num < q * den + den
    BY <2>2, <2>3, <2>5
  <2> QED BY <1>3, <2>2, <2>6 DEF RoundsTo
<1> QED BY <1>1, <1>2, <1>3 DEF Rounding

\* A line is priced as the card says, or not at all.
LEMMA PriceUsageIsFair ==
    ASSUME NEW card, validRateCard(card), NEW item, item.qty \in Int
    PROVE  LET p == priceUsage(card, item.key, item.qty) IN
           p # Unpriced => p \in Nat /\ FairLine(card, item, p)
<1> DEFINE p == priceUsage(card, item.key, item.qty)
<1> SUFFICES ASSUME p # Unpriced PROVE p \in Nat /\ FairLine(card, item, p)
  OBVIOUS
<1>1. item.key \in DOMAIN card /\ item.qty >= 0
  BY DEF priceUsage
<1> PICK m : m = card[item.key]
  OBVIOUS
<1>2. /\ m.priceNum \in Nat /\ m.priceDen \in Nat /\ m.priceDen > 0
      /\ m.units \in Nat /\ m.units > 0 /\ m.includedQty \in Nat
      /\ m.minCharge \in Nat /\ m.rounding \in Rounding
  BY <1>1 DEF validRateCard, Meter
<1>3. CASE item.qty <= m.includedQty
  <2>1. p = 0
    BY <1>1, <1>3 DEF priceUsage
  <2> QED BY <1>3, <2>1 DEF FairLine
<1>4. CASE item.qty > m.includedQty
  <2> PICK num, den : /\ num = (item.qty - m.includedQty) * m.priceNum
                      /\ den = m.priceDen * m.units
    OBVIOUS
  <2> PICK raw : raw = roundDiv(num, den, m.rounding)
    OBVIOUS
  <2>1. num \in Nat /\ den \in Nat /\ den > 0
    <3>1. item.qty - m.includedQty \in Nat
      BY <1>2, <1>4
    <3> QED BY <1>2, <3>1, Products
  <2>2. raw \in Int /\ RoundsTo(raw, num, den, m.rounding) /\ num < raw * den + den
    BY <1>2, <2>1, RoundDivRounds
  <2>3. p = IF raw > m.minCharge THEN raw ELSE m.minCharge
    BY <1>1, <1>2, <1>4 DEF priceUsage
  <2>4. p \in Nat /\ p >= m.minCharge /\ raw <= p /\ (p = m.minCharge \/ p = raw)
    <3> PICK q, c : q = p /\ c = m.minCharge
      OBVIOUS
    <3>1. raw \in Int /\ c \in Nat /\ q = IF raw > c THEN raw ELSE c
      BY <1>2, <2>2, <2>3
    <3>2. q \in Nat /\ q >= c /\ raw <= q /\ (q = c \/ q = raw)
      BY <3>1
    <3> QED BY <3>2
  <2>5. raw * den <= p * den /\ raw * den \in Int /\ p * den \in Int
        /\ (p + 1) * den = p * den + den
    BY <2>1, <2>2, <2>4, Products, SMTT(20)
  <2>6. num < (p + 1) * den
    BY <2>1, <2>2, <2>5
  <2> HIDE DEF p
  <2> QED BY <1>2, <1>4, <2>2, <2>4, <2>6 DEF FairLine
<1> QED BY <1>1, <1>2, <1>3, <1>4

\* The bill of a call is the sum of its lines, each priced as the card says.
LEMMA PriceUsageMultiIsFair ==
    ASSUME NEW card, validRateCard(card), NEW items,
           items \in Seq([key : STRING, qty : Int])
    PROVE  LET p == priceUsageMulti(card, items) IN
           /\ p \in Int
           /\ p # Unpriced =>
                \E lines \in [DOMAIN items -> 0..p] :
                    /\ p = SumFunction(lines)
                    /\ \A i \in DOMAIN lines : FairLine(card, items[i], lines[i])
<1> DEFINE prices == [i \in DOMAIN items |-> priceUsage(card, items[i].key, items[i].qty)]
           total == SumFunction(prices)
           p == priceUsageMulti(card, items)
<1>1. p = IF (\E i \in DOMAIN items : prices[i] = Unpriced) \/ total > U64_MAX
             THEN Unpriced ELSE total
  BY DEF priceUsageMulti
<1>2. CASE p = Unpriced
  BY <1>2 DEF Unpriced
<1>3. CASE p # Unpriced
  <2>1. p = total /\ \A i \in DOMAIN items : prices[i] # Unpriced
    BY <1>1, <1>3
  <2>2. \A i \in DOMAIN items : items[i].qty \in Int
    <3> DEFINE Item == [key : STRING, qty : Int]
    <3>1. items \in Seq(Item)
      OBVIOUS
    <3>2. \A i \in DOMAIN items : items[i] \in Item
      <4> HIDE DEF Item
      <4> QED BY <3>1
    <3> QED BY <3>2
  <2>3. \A i \in DOMAIN items : prices[i] \in Nat /\ FairLine(card, items[i], prices[i])
    BY <2>1, <2>2, PriceUsageIsFair
  <2>4. DOMAIN prices = DOMAIN items /\ IsFiniteSet(DOMAIN items)
    <3>1. Len(items) \in Nat /\ DOMAIN items = 1..Len(items)
      OBVIOUS
    <3> QED BY <3>1, FS_Interval
  <2>5. total = SumFunctionOnSet(prices, DOMAIN items)
    BY <2>4 DEF SumFunction
  <2>6. prices = [i \in DOMAIN items |-> prices[i]]
    OBVIOUS
  <2> HIDE DEF prices, total, p
  <2>7. total \in Nat /\ \A i \in DOMAIN items : prices[i] <= total
    BY <2>3, <2>4, <2>5, SumNat, SumMember
  <2>8. prices \in [DOMAIN items -> 0..p]
    <3>1. \A i \in DOMAIN items : prices[i] \in 0..p
      BY <2>1, <2>3, <2>7
    <3> QED BY <2>6, <3>1
  <2>9. p = SumFunction(prices)
    BY <2>1 DEF total
  <2>10. p \in Int /\ \A i \in DOMAIN prices : FairLine(card, items[i], prices[i])
    BY <2>1, <2>3, <2>4, <2>7
  <2>11. \E lines \in [DOMAIN items -> 0..p] :
            /\ p = SumFunction(lines)
            /\ \A i \in DOMAIN lines : FairLine(card, items[i], lines[i])
    BY <2>8, <2>9, <2>10
  <2> QED BY <2>10, <2>11 DEF p
<1> QED BY <1>2, <1>3

\* What the calls ask is priced as the card says.
THEOREM PricesFair == PricesAreFair
<1> SUFFICES ASSUME NEW r \in Requests, r.price = "metered", Priced[r] # Unpriced
             PROVE  \E lines \in [DOMAIN r.items -> 0..Priced[r]] :
                        /\ Priced[r] = SumFunction(lines)
                        /\ \A i \in DOMAIN lines : FairLine(Card, r.items[i], lines[i])
  BY DEF PricesAreFair
<1>1. Priced[r] = priceUsageMulti(Card, r.items)
  BY DEF Priced
<1>2. r.items \in Seq([key : STRING, qty : Int]) /\ validRateCard(Card)
  BY ServiceAssumption DEF Requests, Request
<1> QED BY <1>1, <1>2, PriceUsageMultiIsFair

-----------------------------------------------------------------------------
(* Types.                                                                  *)

\* The greater of two numbers.
LEMMA Greater ==
    ASSUME NEW a \in Int, NEW b \in Int
    PROVE  /\ Max({a, b}) \in {a, b}
           /\ Max({a, b}) >= a /\ Max({a, b}) >= b
<1>1. \E x \in {a, b} : \A y \in {a, b} : x >= y
  <2>1. CASE a >= b
    BY <2>1
  <2>2. CASE b >= a
    BY <2>2
  <2> QED BY <2>1, <2>2
<1>2. Max({a, b}) \in {a, b} /\ \A y \in {a, b} : Max({a, b}) >= y
  BY <1>1 DEF Max
<1> QED BY <1>2

\* The certificates are numbered, and have an expiry.
LEMMA Versions ==
    /\ Ver \subseteq Nat /\ NoVer \in Ver
    /\ \A v \in Ver : v # NoVer => CertUntil[v] \in Nat
BY ServiceAssumption, SMTT(20) DEF Ver, NoVer

\* The bounds and the terms are numbers.
LEMMA Bounds ==
    /\ Budget \in Nat /\ MaxPerCharge \in Nat /\ MandateExpiry \in Nat
    /\ Threshold \in Nat /\ MaxTime \in Nat /\ MaxBalance \in Nat
    /\ MaxSessions \in Nat /\ MaxSessions > 0 /\ MaxFaults \in Nat
BY ServiceAssumption

\* What a request holds.
LEMMA Asking ==
    ASSUME req \in Scenarios, NEW c \in Calls
    PROVE  /\ req[c].id \in Ids /\ Ids \subseteq Nat
           /\ req[c].cert \in Ver /\ req[c].signer \in Nat
           /\ amountOf(c) \in Int
           /\ amountOf(c) = IF req[c].price = "flat" THEN req[c].amount
                            ELSE priceUsageMulti(Card, req[c].items)
<1>1. \A r \in Requests : r \in Request
  BY ServiceAssumption DEF Requests
<1>2. req[c] \in Requests /\ req[c].id \in Ids
  BY DEF Requests, Ids
<1>3. Ids \subseteq Nat
  <2>1. \A r \in Scenarios, d \in Calls : r[d] \in Request
    BY ServiceAssumption
  <2> QED BY <2>1 DEF Ids, Request
<1>4. /\ req[c].cert \in Ver /\ req[c].signer \in Nat /\ req[c].amount \in Int
      /\ req[c].items \in Seq([key : STRING, qty : Int])
  BY <1>1, <1>2 DEF Request, Ver
<1>5. amountOf(c) = IF req[c].price = "flat" THEN req[c].amount
                    ELSE priceUsageMulti(Card, req[c].items)
  BY <1>2 DEF amountOf, Priced
<1>6. priceUsageMulti(Card, req[c].items) \in Int
  BY <1>4, PriceUsageMultiIsFair, ServiceAssumption
<1> QED BY <1>2, <1>3, <1>4, <1>5, <1>6

\* What a call holds.
LEMMA Calling ==
    ASSUME Typed, NEW c \in Calls
    PROVE  /\ call[c] \in CallState
           /\ call[c].pc \in {"new", "session", "admit", "bind", "prove",
                              "record", "count", "done", "lost"}
           /\ call[c].s \in Nat /\ call[c].durable \in Ver /\ call[c].floor \in Ver
           /\ call[c].pc \in Serving => call[c].s \in DOMAIN sessions /\ call[c].s # NoSession
           /\ call[c].pc \notin Serving => call[c].s = NoSession
<1>1. call[c] \in CallState
  BY DEF Typed
<1>2. \A i \in DOMAIN sessions : i # NoSession
  <2>1. DOMAIN sessions = 1..Len(sessions) /\ Len(sessions) \in Nat
    BY DEF Typed
  <2> QED BY <2>1 DEF NoSession
<1>3. IF call[c].pc \in Serving THEN call[c].s \in DOMAIN sessions
                                ELSE call[c].s = NoSession
  BY DEF Typed
<1>4. /\ call[c].pc \in {"new", "session", "admit", "bind", "prove",
                         "record", "count", "done", "lost"}
      /\ call[c].s \in Nat /\ call[c].durable \in Ver /\ call[c].floor \in Ver
  BY <1>1 DEF CallState
<1> QED BY <1>1, <1>2, <1>3, <1>4

\* What a session holds.
LEMMA Holding ==
    ASSUME Typed
    PROVE  /\ Len(sessions) \in Nat /\ DOMAIN sessions = 1..Len(sessions)
           /\ \A i \in DOMAIN sessions : sessions[i] \in SessionState
           /\ \A z \in SessionState : z.remaining \in Int /\ z.pending \in Int
                                      /\ z.agent \in Ver /\ z.until \in Nat
           /\ current # NoSession => current \in DOMAIN sessions /\ current = Len(sessions)
<1>1. sessions \in Seq(SessionState)
  BY DEF Typed
<1>2. /\ Len(sessions) \in Nat /\ DOMAIN sessions = 1..Len(sessions)
      /\ \A i \in DOMAIN sessions : sessions[i] \in SessionState
  BY <1>1
<1>3. \A z \in SessionState : z.remaining \in Int /\ z.pending \in Int
                              /\ z.agent \in Ver /\ z.until \in Nat
  BY DEF SessionState
<1>4. ASSUME current # NoSession
      PROVE  current \in DOMAIN sessions /\ current = Len(sessions)
  <2>1. current = Len(sessions) /\ Len(sessions) # 0
    BY <1>4 DEF Typed, NoSession
  <2>2. Len(sessions) \in 1..Len(sessions)
    BY <1>2, <2>1
  <2> QED BY <1>2, <2>1, <2>2, Zenon
<1> QED BY <1>2, <1>3, <1>4, Zenon

\* What an answered call holds.
LEMMA Answering ==
    ASSUME NEW st
    PROVE  [Asked EXCEPT !.pc = "done", !.status = st]
             = [pc |-> "done", status |-> st, s |-> 0, durable |-> 0, floor |-> 0]
<1> DEFINE b == [Asked EXCEPT !.pc = "done"]
<1>1. b = [pc |-> "done", status |-> 0, s |-> 0, durable |-> 0, floor |-> 0]
  BY DEF Asked, NoSession, NoVer
<1>2. [Asked EXCEPT !.pc = "done", !.status = st] = [b EXCEPT !.status = st]
  BY Zenon
<1> HIDE DEF b
<1>3. [b EXCEPT !.status = st]
        = [pc |-> "done", status |-> st, s |-> 0, durable |-> 0, floor |-> 0]
  BY <1>1
<1> QED BY <1>2, <1>3, Zenon

\* What a request asks does not change.
LEMMA SameAmounts ==
    ASSUME UNCHANGED req
    PROVE  \A c : amountOf(c)' = amountOf(c)
BY DEF amountOf

\* What is spent or will be depends on the books and the chain.
LEMMA SamePromise ==
    ASSUME UNCHANGED <<usage, billed>>, chain'.spent = chain.spent
    PROVE  Promise' = Promise
<1>1. unbilled' = unbilled
  BY DEF unbilled
<1> QED BY <1>1 DEF Promise, Sum

\* The unbilled usage is that of finitely many calls.
LEMMA UnbilledIsFinite ==
    ASSUME Typed, BooksInv
    PROVE  /\ IsFiniteSet(unbilled) /\ unbilled \subseteq Ids /\ unbilled \subseteq Nat
           /\ \A u \in unbilled : usage[u] \in Nat /\ usage[u] > 0
           /\ Sum(unbilled) \in Nat /\ Promise \in Nat
<1> DEFINE idOf == [c \in Calls |-> req[c].id]
           asked == {idOf[c] : c \in Calls}
<1>1. IsFiniteSet(asked)
  <2> HIDE DEF idOf
  <2>1. IsFiniteSet(Calls)
    BY ServiceAssumption
  <2>2. idOf \in Surjection(Calls, asked)
    <3>1. idOf = [c \in Calls |-> idOf[c]]
      BY DEF idOf
    <3> QED BY <3>1 DEF Surjection, Range
  <2> QED BY <2>1, <2>2, FS_Surjection
<1>2. unbilled \subseteq asked
  BY DEF unbilled, BooksInv
<1>3. IsFiniteSet(unbilled)
  BY <1>1, <1>2, FS_Subset
<1>4. unbilled \subseteq Ids /\ \A u \in unbilled : usage[u] \in Nat /\ usage[u] > 0
  BY DEF unbilled, Typed
<1>5. unbilled \subseteq Nat
  BY <1>2, Asking DEF Typed
<1>6. Sum(unbilled) \in Nat
  BY <1>3, <1>4, SumNat DEF Sum
<1>7. chain.spent \in Nat
  BY Bounds DEF Typed
<1> QED BY <1>3, <1>4, <1>5, <1>6, <1>7 DEF Promise

-----------------------------------------------------------------------------
(* Steps of one call.                                                      *)

\* At the start nobody has asked.
LEMMA ServiceInit == Init => ServiceInv
<1> SUFFICES ASSUME Init PROVE ServiceInv
  OBVIOUS
<1>1. \A c \in Calls : call[c] = Asked
  BY DEF Init
<1>2. Asked \in CallState /\ Asked.pc = "new" /\ Asked.s = NoSession /\ Asked.floor = NoVer
  BY Versions DEF Asked, CallState, NoSession
<1>3. call \in [Calls -> CallState]
  BY <1>2 DEF Init
<1>4. usage \in [Ids -> Nat] /\ \A u \in Ids : usage[u] = 0
  BY DEF Init
<1>5. /\ chain \in [ours : BOOLEAN, active : BOOLEAN, spent : 0..Budget,
                    balance : 0..MaxBalance]
      /\ chain.spent = 0
  <2>1. chain \in [ours : BOOLEAN, active : {TRUE}, spent : {0}, balance : {MaxBalance}]
    BY DEF Init
  <2>2. 0 \in 0..Budget /\ MaxBalance \in 0..MaxBalance
    BY Bounds
  <2> QED BY <2>1, <2>2
<1>6. validating \in [at : {"no", "reading", "read"}, ok : BOOLEAN, spent : 0..Budget]
      /\ validating.at = "no"
  BY Bounds DEF Init, NotReading
<1>7. Typed
  <2>1. sessions \in Seq(SessionState) /\ Len(sessions) = 0
    BY DEF Init
  <2>2. now \in 0..MaxTime /\ faults \in 0..MaxFaults /\ Len(sessions) < MaxSessions
    BY <2>1, Bounds DEF Init
  <2>3. \A c \in Calls : call[c].pc \notin Serving /\ call[c].s = NoSession
    BY <1>1, <1>2 DEF Serving
  <2>4. current = NoSession /\ NoSession = Len(sessions) /\ maxVer \in Ver
        /\ billed = {} /\ req \in Scenarios
    BY <2>1, Versions DEF Init, NoSession
  <2>5. billed \subseteq {u \in Ids : usage[u] > 0}
        /\ current \in {NoSession, Len(sessions)}
        /\ Len(sessions) <= MaxSessions
    BY <2>1, <2>4, Bounds
  <2> QED BY <1>3, <1>4, <1>5, <1>6, <2>1, <2>2, <2>3, <2>4, <2>5 DEF Typed
<1>8. AsksSomething /\ BooksInv /\ KeysInv
  BY <1>1, <1>2, <1>4, Versions
     DEF AsksSomething, BooksInv, KeysInv, Served, Status, Serving, Init, NoVer
<1>9. BudgetInv
  <2>1. unbilled = {}
    BY <1>4 DEF unbilled, Init
  <2>2. Promise = 0
    BY <1>5, <2>1, SumEmpty DEF Promise, Sum
  <2>3. ~Alive
    BY <1>1, <1>2 DEF Alive, Init
  <2> QED BY <1>1, <1>2, <2>2, <2>3, Bounds DEF BudgetInv
<1> QED BY <1>7, <1>8, <1>9 DEF ServiceInv

-----------------------------------------------------------------------------
(* Steps of one call.                                                      *)

\* One call goes on, and the others stay.
Goes(c, pc) ==
    /\ call' \in [Calls -> CallState]
    /\ \A d \in Calls : d # c => call'[d] = call[d]
    /\ call'[c].pc = pc

\* A call moves,
LEMMA SetPc ==
    ASSUME NEW r \in CallState, NEW p \in Serving \cup {"session"}
    PROVE  /\ [r EXCEPT !.pc = p] \in CallState
           /\ [r EXCEPT !.pc = p].pc = p
           /\ [r EXCEPT !.pc = p].s = r.s
           /\ [r EXCEPT !.pc = p].durable = r.durable
           /\ [r EXCEPT !.pc = p].floor = r.floor
BY DEF CallState, Serving

\* gets its session,
LEMMA SetS ==
    ASSUME NEW r \in CallState, NEW s \in Nat
    PROVE  /\ [r EXCEPT !.s = s] \in CallState
           /\ [r EXCEPT !.s = s].pc = r.pc
           /\ [r EXCEPT !.s = s].s = s
           /\ [r EXCEPT !.s = s].durable = r.durable
           /\ [r EXCEPT !.s = s].floor = r.floor
BY DEF CallState

\* notes what the store knows when it comes in,
LEMMA SetFloor ==
    ASSUME NEW r \in CallState, NEW v \in Ver
    PROVE  /\ [r EXCEPT !.floor = v] \in CallState
           /\ [r EXCEPT !.floor = v].pc = r.pc
           /\ [r EXCEPT !.floor = v].s = r.s
           /\ [r EXCEPT !.floor = v].durable = r.durable
           /\ [r EXCEPT !.floor = v].floor = v
BY DEF CallState

\* and what it knows when the certificate is checked.
LEMMA SetDurable ==
    ASSUME NEW r \in CallState, NEW v \in Ver
    PROVE  /\ [r EXCEPT !.durable = v] \in CallState
           /\ [r EXCEPT !.durable = v].pc = r.pc
           /\ [r EXCEPT !.durable = v].s = r.s
           /\ [r EXCEPT !.durable = v].durable = v
           /\ [r EXCEPT !.durable = v].floor = r.floor
BY DEF CallState

\* A call goes on with what it knows.
LEMMA GoGoes ==
    ASSUME Typed, NEW c \in Calls, NEW p, p \in Serving, Go(c, p)
    PROVE  /\ Goes(c, p) /\ call'[c].s = call[c].s
           /\ call'[c].durable = call[c].durable /\ call'[c].floor = call[c].floor
<1> PICK r : r = [call[c] EXCEPT !.pc = p]
  OBVIOUS
<1>1. call[c] \in CallState
  BY DEF Typed
<1>2. /\ r \in CallState /\ r.pc = p /\ r.s = call[c].s
      /\ r.durable = call[c].durable /\ r.floor = call[c].floor
  BY <1>1 DEF CallState, Serving
<1>3. call' = [call EXCEPT ![c] = r]
  BY DEF Go
<1> QED BY <1>2, <1>3 DEF Goes, Typed

\* An answer ends a call.
LEMMA AnswerGoes ==
    ASSUME Typed, NEW c \in Calls,
           NEW st \in {0, 200, 400, 401, 402, 403, 404, 409, 500}, Answer(c, st)
    PROVE  /\ Goes(c, "done") /\ call'[c].status = st
           /\ call'[c].s = NoSession /\ call'[c].floor = NoVer
<1> DEFINE r == [pc |-> "done", status |-> st, s |-> 0, durable |-> 0, floor |-> 0]
<1>1. 0 \in Ver /\ 0 \in Nat
  BY Versions DEF NoVer
<1>2. r \in CallState /\ r.pc = "done" /\ r.status = st /\ r.s = 0 /\ r.floor = 0
  BY <1>1 DEF CallState
<1>3. call' = [call EXCEPT ![c] = r]
  BY Answering, ZenonT(30) DEF Answer
<1> HIDE DEF r
<1> QED BY <1>2, <1>3 DEF Goes, Typed, NoSession, NoVer

\* A validation begins, and a failed one reads nothing.
LEMMA Reading ==
    ASSUME NEW at \in {"no", "reading", "read"}
    PROVE  /\ [NotReading EXCEPT !.at = at]
                \in [at : {"no", "reading", "read"}, ok : BOOLEAN, spent : 0..Budget]
           /\ [NotReading EXCEPT !.at = at].at = at
           /\ ~[NotReading EXCEPT !.at = at].ok
<1> DEFINE Validation == [at : {"no", "reading", "read"}, ok : BOOLEAN, spent : 0..Budget]
<1>1. NotReading \in Validation /\ ~NotReading.ok
  <2>1. 0 \in 0..Budget
    BY Bounds
  <2> QED BY <2>1 DEF NotReading
<1>2. \A n \in Validation : ~n.ok =>
        /\ [n EXCEPT !.at = at] \in Validation
        /\ [n EXCEPT !.at = at].at = at /\ ~[n EXCEPT !.at = at].ok
  OBVIOUS
<1> QED BY <1>1, <1>2

\* A call that finds a session holds it; one that does not waits for it.
LEMMA SessionGoes ==
    ASSUME Typed, NEW c \in Calls, session(c)
    PROVE  /\ call'[c].floor = maxVer
           /\ validating' \in [at : {"no", "reading", "read"}, ok : BOOLEAN, spent : 0..Budget]
           /\ IF current # NoSession
                 THEN Goes(c, "admit") /\ call'[c].s = current /\ validating' = validating
                 ELSE Goes(c, "session") /\ call'[c].s = call[c].s
<1>1. call[c] \in CallState /\ call \in [Calls -> CallState] /\ maxVer \in Ver
  BY DEF Typed
<1>2. CASE current # NoSession
  <2> DEFINE r == [call[c] EXCEPT !.pc = "admit"]
             q == [r EXCEPT !.s = current]
             z == [q EXCEPT !.floor = maxVer]
             x == [call EXCEPT ![c] = r]
             y == [call EXCEPT ![c] = q]
  <2>1. current \in Nat
    BY <1>2, Holding
  <2>2. r \in CallState /\ r.pc = "admit"
    BY <1>1, SetPc DEF Serving
  <2>3. q \in CallState /\ q.pc = "admit" /\ q.s = current
    <3> HIDE DEF r
    <3> QED BY <2>1, <2>2, SetS
  <2>4. z \in CallState /\ z.pc = "admit" /\ z.s = current /\ z.floor = maxVer
    <3> HIDE DEF q
    <3> QED BY <1>1, <2>3, SetFloor
  <2>5. call' = [call EXCEPT ![c] = z]
    <3>1. call' = [[[call EXCEPT ![c].pc = "admit"] EXCEPT ![c].s = current]
                     EXCEPT ![c].floor = maxVer]
      BY <1>2, Zenon DEF session
    <3>2. [call EXCEPT ![c].pc = "admit"] = x /\ x[c] = r
      BY <1>1
    <3>3. [x EXCEPT ![c].s = current] = y /\ y[c] = q
      <4> HIDE DEF r
      <4> QED BY <1>1, <3>2
    <3>4. [y EXCEPT ![c].floor = maxVer] = [call EXCEPT ![c] = z]
      <4> HIDE DEF q
      <4> QED BY <1>1, <3>3
    <3> HIDE DEF x, y, z
    <3> QED BY <3>1, <3>2, <3>3, <3>4, Zenon
  <2> HIDE DEF z
  <2> QED BY <1>1, <1>2, <2>4, <2>5 DEF Goes, session, Typed
<1>3. CASE current = NoSession
  <2> DEFINE r == [call[c] EXCEPT !.pc = "session"]
             z == [r EXCEPT !.floor = maxVer]
             x == [call EXCEPT ![c] = r]
  <2>1. r \in CallState /\ r.pc = "session" /\ r.s = call[c].s
    BY <1>1, SetPc
  <2>2. z \in CallState /\ z.pc = "session" /\ z.s = call[c].s /\ z.floor = maxVer
    <3> HIDE DEF r
    <3> QED BY <1>1, <2>1, SetFloor
  <2>3. call' = [call EXCEPT ![c] = z]
    <3>1. call' = [[call EXCEPT ![c].pc = "session"] EXCEPT ![c].floor = maxVer]
      BY <1>3, Zenon DEF session
    <3>2. [call EXCEPT ![c].pc = "session"] = x /\ x[c] = r
      BY <1>1
    <3>3. [x EXCEPT ![c].floor = maxVer] = [call EXCEPT ![c] = z]
      <4> HIDE DEF r
      <4> QED BY <1>1, <3>2
    <3> HIDE DEF x, z
    <3> QED BY <3>1, <3>2, <3>3, Zenon
  <2>4. validating' \in [at : {"no", "reading", "read"}, ok : BOOLEAN, spent : 0..Budget]
    <3> QED BY <1>3, Reading DEF session, Typed
  <2> HIDE DEF z
  <2> QED BY <1>1, <1>3, <2>2, <2>3, <2>4 DEF Goes
<1> QED BY <1>2, <1>3

\* A call moves, and is neither recorded nor served: nothing is promised.
LEMMA CallMoves ==
    ASSUME ServiceInv, NEW c \in Calls, NEW p, Goes(c, p),
           UNCHANGED <<req, current, usage, billed, chain, now, faults, gaps>>,
           sessions' \in Seq(SessionState), Len(sessions') = Len(sessions),
           \A i \in DOMAIN sessions : sessions'[i].remaining = sessions[i].remaining,
           validating' \in [at : {"no", "reading", "read"}, ok : BOOLEAN, spent : 0..Budget],
           validating'.at # "no" => current = NoSession,
           maxVer' \in Ver, maxVer' >= maxVer,
           ~Served(c), call[c].pc # "lost",
           p # "count", p = "done" => call'[c].status # 200,
           IF p \in Serving THEN call'[c].s \in DOMAIN sessions ELSE call'[c].s = NoSession,
           call'[c].s \in {NoSession, call[c].s, current},
           p \in Serving \cup {"session"} => amountOf(c) > 0 /\ req[c].price # "no_card",
           call'[c].floor <= maxVer',
           p = "bind" => req[c].cert # NoVer /\ call'[c].floor <= call'[c].durable,
           p \in {"prove", "record"} /\ req[c].cert # NoVer
              /\ authMode(req[c]) = "enforce" => req[c].cert >= call'[c].floor
    PROVE  ServiceInv'
<1>1. /\ Typed /\ AsksSomething /\ BooksInv /\ KeysInv /\ BudgetInv
      /\ call'[c].pc = p /\ \A d \in Calls : d # c => call'[d] = call[d]
  BY DEF ServiceInv, Goes
<1>2. DOMAIN sessions' = DOMAIN sessions
  <2>1. DOMAIN sessions' = 1..Len(sessions') /\ DOMAIN sessions = 1..Len(sessions)
    BY <1>1 DEF Typed
  <2> QED BY <2>1
<1>3. Typed'
  <2>1. \A d \in Calls : IF call'[d].pc \in Serving THEN call'[d].s \in DOMAIN sessions'
                                                    ELSE call'[d].s = NoSession
    <3> PICK D : D = DOMAIN sessions
      OBVIOUS
    <3> SUFFICES ASSUME NEW d \in Calls
                 PROVE  IF call'[d].pc \in Serving THEN call'[d].s \in D
                                                   ELSE call'[d].s = NoSession
      BY <1>2
    <3>1. CASE d = c
      BY <1>1, <3>1
    <3>2. CASE d # c
      BY <1>1, <3>2 DEF Typed
    <3> QED BY <3>1, <3>2
  <2> QED BY <1>1, <2>1 DEF Typed, Goes
<1>4. \A d : amountOf(d)' = amountOf(d)
  BY SameAmounts
<1>5. AsksSomething'
  BY <1>1, <1>4 DEF AsksSomething
<1>6. BooksInv'
  <2>1. \A d \in Calls : Served(d)' <=> Served(d)
    BY <1>1 DEF Served, Status
  <2> QED BY <1>1, <1>4, <2>1 DEF BooksInv
<1>7. KeysInv'
  <2>1. \A d \in Calls : call[d].floor <= maxVer => call[d].floor <= maxVer'
    BY <1>1, Calling, Versions DEF Typed
  <2> QED BY <1>1, <2>1 DEF KeysInv
<1>8. BudgetInv'
  <2> SUFFICES ASSUME gaps = {} PROVE BudgetInv'
    BY DEF BudgetInv
  <2>1. Promise' = Promise
    BY SamePromise
  <2>2. Len(sessions) > 0 => Left' = Left
    BY <1>1, Holding DEF Left
  <2>3. \A d \in Calls : call'[d].s \in {NoSession, Len(sessions)}
    BY <1>1, SMTT(20) DEF BudgetInv, Typed
  <2>4. Alive' => Alive
    BY <1>1 DEF Alive
  <2>5. \A d \in Calls : call'[d].pc = "count" <=> call[d].pc = "count"
    BY <1>1 DEF Served
  <2>6. Alive => Len(sessions) > 0
    BY <1>1, Holding, Calling DEF Alive, BudgetInv
  <2>7. \A d \in Calls : call[d].pc = "count" => Len(sessions) > 0
    BY <1>1, Holding, Calling DEF Serving
  <2> QED BY <1>1, <1>4, <2>1, <2>2, <2>3, <2>4, <2>5, <2>6, <2>7 DEF BudgetInv
<1> QED BY <1>3, <1>5, <1>6, <1>7, <1>8 DEF ServiceInv

\* A refused call leaves no trace.
LEMMA Refuses ==
    ASSUME ServiceInv, NEW c \in Calls, NEW st \in {400, 401, 402, 403, 404, 409, 500},
           Answer(c, st), ~Served(c), call[c].pc # "lost",
           UNCHANGED <<req, current, usage, billed, chain, now, faults, gaps,
                       sessions, validating, maxVer>>
    PROVE  ServiceInv'
<1>1. Typed
  BY DEF ServiceInv
<1>2. /\ Goes(c, "done") /\ call'[c].status = st
      /\ call'[c].s = NoSession /\ call'[c].floor = NoVer
  BY <1>1, AnswerGoes
<1>3. maxVer \in Nat /\ maxVer \in Ver /\ NoVer <= maxVer
  BY <1>1, Versions DEF Typed, NoVer
<1>4. maxVer <= maxVer
  BY <1>3
<1>5. /\ sessions \in Seq(SessionState)
      /\ validating \in [at : {"no", "reading", "read"}, ok : BOOLEAN, spent : 0..Budget]
      /\ validating.at # "no" => current = NoSession
  BY <1>1 DEF Typed
<1> QED BY <1>2, <1>3, <1>4, <1>5, CallMoves DEF Serving

\* A call comes in by a door.
LEMMA ServiceEnters ==
    ASSUME ServiceInv, NEW c \in Calls, use(c) \/ useMetered(c)
    PROVE  ServiceInv'
<1>1. Typed /\ call[c].pc = "new"
  BY DEF ServiceInv, use, useMetered
<1>2. PICK refusal \in {0, 400, 500} :
         /\ Enter(c, refusal)
         /\ refusal = 0 => amountOf(c) > 0 /\ req[c].price # "no_card"
  <2>1. amountOf(c) \in Int /\ (req[c].price = "flat" => amountOf(c) = req[c].amount)
    BY <1>1, Asking DEF Typed
  <2>2. CASE use(c)
    BY <2>1, <2>2 DEF use
  <2>3. CASE useMetered(c)
    BY <2>1, <2>3 DEF useMetered
  <2> QED BY <2>2, <2>3
<1>3. ~Served(c) /\ call[c].s = NoSession
  BY <1>1, Calling DEF Served, Status, Serving
<1>4. UNCHANGED <<req, current, usage, billed, chain, now, faults, gaps, sessions, maxVer>>
  BY <1>2 DEF Enter, Others, store
<1> DEFINE door == Refusal(req[c])
           st == IF door # 0 THEN door ELSE refusal
<1>5. door \in {0, 400, 401, 404}
  BY DEF Refusal, gatewayRefusal, listenRefusal
<1>6. CASE st # 0
  <2>1. Answer(c, st) /\ validating' = validating
    BY <1>2, <1>6 DEF Enter
  <2>2. st \in {400, 401, 402, 403, 404, 409, 500}
    BY <1>2, <1>5, <1>6
  <2> QED BY <1>1, <1>3, <1>4, <2>1, <2>2, Refuses
<1>7. CASE st = 0
  <2>1. session(c) /\ amountOf(c) > 0 /\ req[c].price # "no_card"
    BY <1>2, <1>7 DEF Enter
  <2>2. /\ call'[c].floor = maxVer
        /\ validating' \in [at : {"no", "reading", "read"}, ok : BOOLEAN, spent : 0..Budget]
        /\ IF current # NoSession
              THEN Goes(c, "admit") /\ call'[c].s = current /\ validating' = validating
              ELSE Goes(c, "session") /\ call'[c].s = call[c].s
    BY <1>1, <2>1, SessionGoes
  <2>3. maxVer \in Ver /\ maxVer \in Nat
    BY <1>1, Versions DEF Typed
  <2>4. maxVer <= maxVer /\ sessions \in Seq(SessionState)
        /\ (validating'.at # "no" => current = NoSession)
    BY <1>1, <2>2, <2>3 DEF Typed
  <2>5. CASE current # NoSession
    <3>1. current \in DOMAIN sessions
      BY <1>1, <2>5, Holding
    <3> QED BY <1>1, <1>3, <1>4, <2>1, <2>2, <2>3, <2>4, <2>5, <3>1, CallMoves DEF Serving
  <2>6. CASE current = NoSession
    BY <1>1, <1>3, <1>4, <2>1, <2>2, <2>3, <2>4, <2>6, CallMoves DEF Serving
  <2> QED BY <2>5, <2>6
<1> QED BY <1>6, <1>7

\* A call takes a step in its proof and changes nothing else.
LEMMA Proceeds ==
    ASSUME ServiceInv, NEW c \in Calls, NEW p \in {"prove", "record"}, Go(c, p),
           call[c].pc \in {"admit", "bind", "prove"},
           sessions' \in Seq(SessionState), Len(sessions') = Len(sessions),
           \A i \in DOMAIN sessions : sessions'[i].remaining = sessions[i].remaining,
           maxVer' \in Ver, maxVer' >= maxVer,
           req[c].cert # NoVer /\ authMode(req[c]) = "enforce"
              => req[c].cert >= call[c].floor,
           UNCHANGED <<req, current, usage, billed, chain, now, faults, gaps, validating>>
    PROVE  ServiceInv'
<1>1. Typed /\ AsksSomething /\ KeysInv
  BY DEF ServiceInv
<1>2. /\ Goes(c, p) /\ call'[c].s = call[c].s
      /\ call'[c].durable = call[c].durable /\ call'[c].floor = call[c].floor
  BY <1>1, GoGoes DEF Serving
<1>3. call[c].s \in DOMAIN sessions /\ amountOf(c) > 0 /\ req[c].price # "no_card"
  BY <1>1, Calling DEF Serving, AsksSomething
<1>4. call[c].floor <= maxVer'
  <2>1. call[c].floor \in Nat /\ maxVer \in Nat /\ maxVer' \in Nat
        /\ call[c].floor <= maxVer
    BY <1>1, Calling, Versions DEF Typed, KeysInv
  <2> QED BY <2>1
<1>5. /\ validating \in [at : {"no", "reading", "read"}, ok : BOOLEAN, spent : 0..Budget]
      /\ validating.at # "no" => current = NoSession
  BY <1>1 DEF Typed
<1>6. ~Served(c)
  BY DEF Served, Status
<1> QED BY <1>2, <1>3, <1>4, <1>5, <1>6, CallMoves DEF Serving

\* Nothing but the call changes.
LEMMA Stays ==
    ASSUME Typed, UNCHANGED <<sessions, maxVer>>
    PROVE  /\ sessions' \in Seq(SessionState) /\ Len(sessions') = Len(sessions)
           /\ \A i \in DOMAIN sessions : sessions'[i].remaining = sessions[i].remaining
           /\ maxVer' \in Ver /\ maxVer' >= maxVer
<1>1. maxVer \in Ver /\ maxVer \in Nat /\ sessions \in Seq(SessionState)
  BY Versions DEF Typed
<1> QED BY <1>1

\* The gate lets a call in, sends it to prove itself, or refuses it.
LEMMA ServiceAdmits ==
    ASSUME ServiceInv, NEW c \in Calls, Admit(c)
    PROVE  ServiceInv'
<1>1. Typed /\ AsksSomething /\ KeysInv /\ call[c].pc = "admit"
  BY DEF ServiceInv, Admit
<1>2. UNCHANGED <<req, current, usage, billed, chain, now, faults, gaps, sessions,
                  validating, maxVer>>
  BY DEF Admit, Locally, Others, store
<1>3. ~Served(c)
  BY <1>1 DEF Served, Status
<1>4. CASE \E st \in {402, 403} : Answer(c, st)
  BY <1>1, <1>2, <1>3, <1>4, Refuses
<1>5. CASE Go(c, "record") /\ authMode(req[c]) = "off"
  BY <1>1, <1>2, <1>5, Stays, Proceeds
<1>6. CASE Go(c, "prove") /\ req[c].cert = NoVer
  BY <1>1, <1>2, <1>6, Stays, Proceeds
<1>7. CASE /\ call' = [call EXCEPT ![c].pc = "bind", ![c].durable = getMaxCertVer]
           /\ req[c].cert # NoVer
  <2> DEFINE r == [call[c] EXCEPT !.pc = "bind"]
             z == [r EXCEPT !.durable = maxVer]
             x == [call EXCEPT ![c] = r]
  <2>1. call[c] \in CallState /\ call \in [Calls -> CallState]
        /\ maxVer \in Ver /\ maxVer \in Nat
    BY <1>1, Versions DEF Typed
  <2>2. r \in CallState /\ r.pc = "bind" /\ r.s = call[c].s /\ r.floor = call[c].floor
    BY <2>1, SetPc DEF Serving
  <2>3. /\ z \in CallState /\ z.pc = "bind" /\ z.s = call[c].s
        /\ z.floor = call[c].floor /\ z.durable = maxVer
    <3> HIDE DEF r
    <3> QED BY <2>1, <2>2, SetDurable
  <2>4. call' = [call EXCEPT ![c] = z]
    <3>1. call' = [[call EXCEPT ![c].pc = "bind"] EXCEPT ![c].durable = maxVer]
      BY <1>7, Zenon DEF getMaxCertVer
    <3>2. [call EXCEPT ![c].pc = "bind"] = x /\ x[c] = r
      BY <2>1
    <3>3. [x EXCEPT ![c].durable = maxVer] = [call EXCEPT ![c] = z]
      <4> HIDE DEF r
      <4> QED BY <2>1, <3>2
    <3> HIDE DEF x, z
    <3> QED BY <3>1, <3>2, <3>3, Zenon
  <2> HIDE DEF z
  <2>5. /\ Goes(c, "bind") /\ call'[c].s = call[c].s
        /\ call'[c].durable = maxVer /\ call'[c].floor = call[c].floor
    BY <2>1, <2>3, <2>4 DEF Goes
  <2>6. /\ call[c].s \in DOMAIN sessions /\ call[c].floor <= maxVer
        /\ amountOf(c) > 0 /\ req[c].price # "no_card"
    BY <1>1, Calling DEF Serving, AsksSomething, KeysInv
  <2>7. maxVer <= maxVer /\ sessions \in Seq(SessionState)
        /\ validating \in [at : {"no", "reading", "read"}, ok : BOOLEAN, spent : 0..Budget]
        /\ (validating.at # "no" => current = NoSession)
    BY <1>1, <2>1 DEF Typed
  <2> QED BY <1>1, <1>2, <1>3, <1>7, <2>1, <2>5, <2>6, <2>7, CallMoves DEF Serving
<1> QED BY <1>4, <1>5, <1>6, <1>7 DEF Admit, authMode

\* The certificate is bound to the session, and the store is told of it.
LEMMA ServiceBinds ==
    ASSUME ServiceInv, NEW c \in Calls, Bind(c)
    PROVE  ServiceInv'
<1>1. /\ Typed /\ KeysInv /\ call[c].pc = "bind"
      /\ req[c].cert # NoVer /\ call[c].floor <= call[c].durable
  BY DEF ServiceInv, Bind, KeysInv
<1> PICK i, v, k : i = call[c].s /\ v = req[c].cert /\ k = CertUntil[v]
  OBVIOUS
<1>2. /\ i \in DOMAIN sessions /\ sessions[i] \in SessionState /\ v \in Ver /\ v \in Nat
      /\ k \in Nat /\ call[c].durable \in Nat /\ call[c].floor \in Nat
      /\ maxVer \in Ver /\ maxVer \in Nat /\ sessions \in Seq(SessionState)
      /\ sessions[i].agent \in Nat /\ sessions[i].until \in Nat
  BY <1>1, Calling, Holding, Asking, Versions DEF Typed, Serving
<1>3. CASE v < certFloor(c)
  <2>1. Answer(c, 403) /\ Locally
    BY <1>3 DEF Bind
  <2> QED BY <1>1, <2>1, Refuses DEF Locally, Others, store, Served, Status
<1>4. CASE ~(v < certFloor(c))
  <2>1. /\ Go(c, "prove")
        /\ sessions' = [sessions EXCEPT ![i].agent = v,
                          ![i].until = IF S(c).agent = NoVer THEN k ELSE Later(@, k)]
        /\ IF v > call[c].durable THEN recordCertVer(v) ELSE maxVer' = maxVer
        /\ UNCHANGED <<req, current, usage, billed, chain, now, faults, gaps, validating>>
    BY <1>4 DEF Bind, Others
  <2>2. v >= call[c].floor
    <3>1. certFloor(c) \in Nat /\ certFloor(c) >= call[c].durable
      <4> PICK d, g : d = call[c].durable /\ g = sessions[i].agent
        OBVIOUS
      <4>0. d \in Nat /\ g \in Nat /\ d \in Int /\ g \in Int
        BY <1>2
      <4>1. Max({d, g}) \in {d, g} /\ Max({d, g}) >= d
        BY <4>0, Greater, Zenon
      <4>2. certFloor(c) = Max({d, g})
        BY DEF certFloor, S
      <4> QED BY <4>0, <4>1, <4>2
    <3> QED BY <1>1, <1>2, <1>4, <3>1
  <2>3. maxVer' \in Ver /\ maxVer' >= maxVer
    <3>0. maxVer \in Int /\ v \in Int
      BY <1>2
    <3>1. Max({maxVer, v}) \in {maxVer, v} /\ Max({maxVer, v}) >= maxVer
      BY <3>0, Greater, Zenon
    <3>2. maxVer' \in {maxVer, Max({maxVer, v})}
      BY <2>1 DEF recordCertVer
    <3> QED BY <1>2, <3>1, <3>2
  <2> DEFINE t == IF S(c).agent = NoVer THEN k ELSE Later(sessions[i].until, k)
             r == [sessions[i] EXCEPT !.agent = v]
             z == [r EXCEPT !.until = t]
             x == [sessions EXCEPT ![i] = r]
  <2>4. t \in Nat
    <3> PICK u : u = sessions[i].until
      OBVIOUS
    <3>0. u \in Nat /\ k \in Nat /\ u \in Int /\ k \in Int
      BY <1>2
    <3>1. Max({u, k}) \in {u, k}
      BY <3>0, Greater, Zenon
    <3>2. Later(u, k) \in {0, Max({u, k})}
      BY DEF Later, Never
    <3>3. Later(u, k) \in Nat
      BY <3>0, <3>1, <3>2
    <3> QED BY <1>2, <3>3
  <2>5. r \in SessionState /\ r.remaining = sessions[i].remaining
        /\ r.until = sessions[i].until
    BY <1>2 DEF SessionState
  <2>6. z \in SessionState /\ z.remaining = sessions[i].remaining
    <3> HIDE DEF r, t
    <3> QED BY <2>4, <2>5 DEF SessionState
  <2>7. sessions' = [sessions EXCEPT ![i] = z]
    <3>1. sessions' = [[sessions EXCEPT ![i].agent = v]
             EXCEPT ![i].until = IF S(c).agent = NoVer THEN k ELSE Later(@, k)]
      BY <2>1, ZenonT(30)
    <3>2. [sessions EXCEPT ![i].agent = v] = x /\ x[i] = r
      BY <1>2
    <3>3. [x EXCEPT ![i].until = IF S(c).agent = NoVer THEN k ELSE Later(@, k)]
            = [sessions EXCEPT ![i] = z]
      <4> HIDE DEF r
      <4> QED BY <1>2, <2>5, <3>2
    <3> HIDE DEF x, z
    <3> QED BY <3>1, <3>2, <3>3, ZenonT(30)
  <2> HIDE DEF z
  <2>8. /\ sessions' \in Seq(SessionState) /\ Len(sessions') = Len(sessions)
        /\ \A j \in DOMAIN sessions : sessions'[j].remaining = sessions[j].remaining
    BY <1>2, <2>6, <2>7
  <2> QED BY <1>1, <2>1, <2>2, <2>3, <2>8, Proceeds
<1> QED BY <1>3, <1>4

\* A proof is accepted or refused.
LEMMA ServiceProves ==
    ASSUME ServiceInv, NEW c \in Calls, Prove(c)
    PROVE  ServiceInv'
<1>1. Typed /\ KeysInv /\ call[c].pc = "prove" /\ ~Served(c)
  BY DEF ServiceInv, Prove, Served, Status
<1>2. UNCHANGED <<req, current, usage, billed, chain, now, faults, gaps, sessions,
                  validating, maxVer>>
  BY DEF Prove, Locally, Others, store
<1>3. CASE Answer(c, 403)
  BY <1>1, <1>2, <1>3, Refuses
<1>4. CASE Go(c, "record")
  BY <1>1, <1>2, <1>4, Stays, Proceeds DEF KeysInv
<1> QED BY <1>3, <1>4 DEF Prove

\* Usage that is recorded is promised.
LEMMA PromiseGrows ==
    ASSUME Typed, BooksInv, NEW u \in Ids, usage[u] = 0, NEW a \in Nat, a > 0,
           usage' = [usage EXCEPT ![u] = a], UNCHANGED <<billed, chain>>
    PROVE  Promise' = Promise + a
<1>1. usage \in [Ids -> Nat] /\ u \notin billed /\ u \notin unbilled
  BY DEF Typed, unbilled
<1>2. IsFiniteSet(unbilled) /\ unbilled \subseteq Ids /\ Sum(unbilled) \in Nat
  BY UnbilledIsFinite
<1>3. unbilled' = unbilled \cup {u}
  BY <1>1 DEF unbilled
<1> PICK g, R : g = usage' /\ R = unbilled
  OBVIOUS
<1>4. g[u] = a /\ \A x \in R : g[x] = usage[x] /\ g[x] \in Int
  BY <1>1, <1>2
<1>5. SumFunctionOnSet(g, R \cup {u}) = g[u] + SumFunctionOnSet(g, R)
  <2>1. IsFiniteSet(R) /\ u \notin R
    BY <1>1, <1>2
  <2>2. g[u] \in Int /\ \A x \in R : g[x] \in Int
    BY <1>4
  <2> QED BY <2>1, <2>2, SumAdd, Zenon
<1>6. SumFunctionOnSet(g, R) = SumFunctionOnSet(usage, R)
  BY <1>2, <1>4, SumSame, ZenonT(40)
<1>7. Sum(unbilled)' = SumFunctionOnSet(g, R \cup {u})
  BY <1>3 DEF Sum
<1>8. Sum(unbilled)' = a + Sum(unbilled)
  BY <1>4, <1>5, <1>6, <1>7 DEF Sum
<1>9. chain.spent \in Int
  BY Bounds DEF Typed
<1> QED BY <1>2, <1>8, <1>9 DEF Promise

\* A call passes the budget gate and its usage is ingested.
LEMMA ServiceRecords ==
    ASSUME ServiceInv, NEW c \in Calls, Record(c)
    PROVE  ServiceInv'
<1>1. /\ Typed /\ AsksSomething /\ BooksInv /\ KeysInv /\ BudgetInv
      /\ call[c].pc = "record" /\ ~Served(c)
  BY DEF ServiceInv, Record, Served, Status
<1>2. CASE \E st \in {402, 409} : Answer(c, st) /\ Locally
  BY <1>1, <1>2, Refuses DEF Locally, Others, store
<1>3. CASE /\ ~(S(c).remaining < amountOf(c)) /\ ~Duplicate(req[c].id)
           /\ IF req[c].price = "metered" THEN recordMeteredUsage(req[c])
                                          ELSE recordUsage(req[c].id, req[c].amount)
           /\ Go(c, "count")
           /\ gaps' = IF \E d \in Calls : call[d].pc = "count"
                         THEN gaps \cup {"overlap"} ELSE gaps
           /\ UNCHANGED <<sessions, current, validating, billed, maxVer, faults>> /\ Others
  <2> PICK u, a, i, n : u = req[c].id /\ a = amountOf(c) /\ i = call[c].s /\ n = Len(sessions)
    OBVIOUS
  <2>1. /\ u \in Ids /\ a \in Int /\ a > 0 /\ usage[u] = 0 /\ usage \in [Ids -> Nat]
        /\ i \in DOMAIN sessions /\ i # NoSession
        /\ sessions[i].remaining \in Int /\ sessions[i].remaining >= a
        /\ req[c].price \in {"flat", "metered"}
    <3>1. req[c].price \in {"flat", "metered", "no_card"}
      BY <1>1, ServiceAssumption DEF Typed, Request
    <3>2. sessions[i].remaining \in Int /\ i \in DOMAIN sessions /\ i # NoSession
      BY <1>1, Calling, Holding DEF Serving
    <3>3. u \in Ids /\ a \in Int /\ a > 0 /\ req[c].price # "no_card"
      BY <1>1, Asking DEF Typed, AsksSomething, Serving
    <3> QED BY <1>1, <1>3, <3>1, <3>2, <3>3 DEF S, Duplicate, Typed
  <2>2. usage' = [usage EXCEPT ![u] = a]
    <3>1. CASE req[c].price = "metered"
      BY <1>3, <3>1 DEF recordMeteredUsage, recordUsage, amountOf
    <3>2. CASE req[c].price = "flat"
      BY <1>1, <1>3, <3>2, Asking DEF recordUsage, Typed
    <3> QED BY <2>1, <3>1, <3>2
  <2>3. UNCHANGED <<req, chain, now, sessions, current, validating, billed, maxVer, faults>>
    BY <1>3 DEF Others
  <2>4. /\ call' \in [Calls -> CallState] /\ call'[c].pc = "count" /\ call'[c].s = i
        /\ call'[c].floor = call[c].floor
        /\ \A d \in Calls : d # c => call'[d] = call[d]
    BY <1>1, <1>3, GoGoes DEF Goes, Serving
  <2>5. usage'[u] = a /\ \A w \in Ids : w # u => usage'[w] = usage[w]
    BY <2>1, <2>2
  <2>6. \A d : amountOf(d)' = amountOf(d)
    BY <2>3, SameAmounts
  <2>7. Typed'
    <3>1. usage' \in [Ids -> Nat] /\ billed \subseteq {w \in Ids : usage'[w] > 0}
      BY <1>1, <2>1, <2>2, <2>5 DEF Typed
    <3>2. \A d \in Calls : IF call'[d].pc \in Serving THEN call'[d].s \in DOMAIN sessions
                                                      ELSE call'[d].s = NoSession
      BY <1>1, <2>1, <2>4 DEF Typed, Serving
    <3> QED BY <1>1, <2>3, <2>4, <3>1, <3>2 DEF Typed
  <2>8. AsksSomething'
    BY <1>1, <2>3, <2>4, <2>6 DEF AsksSomething, Serving
  <2>9. BooksInv'
    <3>1. \A d \in Calls : d # c => (Served(d)' <=> Served(d))
      BY <2>4 DEF Served, Status
    <3>2. \A d \in Calls : Served(d) => req[d].id # u /\ usage'[req[d].id] = usage[req[d].id]
      <4> SUFFICES ASSUME NEW d \in Calls, Served(d)
                   PROVE  req[d].id # u /\ usage'[req[d].id] = usage[req[d].id]
        OBVIOUS
      <4>1. usage[req[d].id] = amountOf(d) /\ amountOf(d) > 0
        BY <1>1 DEF BooksInv
      <4>2. amountOf(d) \in Int /\ req[d].id \in Ids
        BY <1>1, Asking DEF Typed
      <4>3. req[d].id # u
        BY <2>1, <4>1, <4>2
      <4> QED BY <2>5, <4>2, <4>3
    <3>3. Served(c)' /\ usage'[req[c].id] = a
      BY <2>4, <2>5 DEF Served
    <3>4. \A w \in Ids : usage'[w] > 0 =>
            \E d \in Calls : req[d].id = w /\ (Served(d)' \/ call'[d].pc = "lost")
      <4> SUFFICES ASSUME NEW w \in Ids, usage'[w] > 0, w # u
                   PROVE  \E d \in Calls : req[d].id = w /\ (Served(d)' \/ call'[d].pc = "lost")
        BY <3>3
      <4>1. PICK d \in Calls : req[d].id = w /\ (Served(d) \/ call[d].pc = "lost")
        BY <1>1, <2>5 DEF BooksInv
      <4> QED BY <2>4, <3>1, <4>1
    <3> QED BY <1>1, <2>1, <2>3, <2>6, <3>1, <3>2, <3>3, <3>4 DEF BooksInv
  <2>10. KeysInv'
    BY <1>1, <2>3, <2>4 DEF KeysInv
  <2>11. BudgetInv'
    <3> SUFFICES ASSUME gaps' = {} PROVE BudgetInv'
      BY DEF BudgetInv
    <3>1. gaps = {} /\ \A d \in Calls : call[d].pc # "count"
      BY <1>3
    <3>2. i = n /\ n = Len(sessions') /\ Left = sessions[i].remaining /\ Left' = Left
      BY <1>1, <2>1, <2>3, <3>1 DEF BudgetInv, Left
    <3>3. Promise' = Promise + a /\ Promise \in Nat
      <4>1. a \in Nat /\ UNCHANGED <<billed, chain>>
        BY <2>1, <2>3
      <4>2. Promise' = Promise + a
        BY <1>1, <2>1, <2>2, <4>1, PromiseGrows
      <4> QED BY <1>1, <4>2, UnbilledIsFinite
    <3>4. Promise + Left <= Budget
      BY <1>1, <2>1, <3>1 DEF BudgetInv, Alive
    <3>5. \A d \in Calls : call'[d].pc = "count" => d = c
      BY <2>4, <3>1
    <3>6. \A d \in Calls : call'[d].s \in {NoSession, n}
      BY <1>1, <2>4, <3>1, <3>2 DEF BudgetInv
    <3>7. Promise' <= Budget /\ Promise' + Left' - a <= Budget
      <4> PICK p, l, b, q, m : p = Promise /\ l = Left /\ b = Budget
                               /\ q = Promise' /\ m = Left'
        OBVIOUS
      <4>1. b \in Int /\ p \in Int
        BY <3>3, Bounds
      <4>2. l \in Int /\ l >= a /\ m = l
        BY <2>1, <3>2, Zenon
      <4>3. q = p + a /\ p + l <= b
        BY <3>3, <3>4, Zenon
      <4>4. q <= b /\ q + m - a <= b
        BY <2>1, <4>1, <4>2, <4>3
      <4> QED BY <4>4
    <3>8. amountOf(c)' = a /\ call'[c].pc = "count"
      BY <2>4, <2>6
    <3> QED BY <3>2, <3>5, <3>6, <3>7, <3>8 DEF BudgetInv
  <2> QED BY <2>7, <2>8, <2>9, <2>10, <2>11 DEF ServiceInv
<1> QED BY <1>2, <1>3 DEF Record

\* What a session has left goes down.
LEMMA TakeAway ==
    ASSUME NEW z \in SessionState, NEW a \in Int
    PROVE  /\ [z EXCEPT !.remaining = @ - a] \in SessionState
           /\ [z EXCEPT !.remaining = @ - a].remaining = z.remaining - a
<1>1. z.remaining \in Int
  BY DEF SessionState
<1> PICK m : m = z.remaining - a
  OBVIOUS
<1>2. m \in Int
  BY <1>1
<1>3. [z EXCEPT !.remaining = m] \in SessionState
      /\ [z EXCEPT !.remaining = m].remaining = m
  BY <1>2 DEF SessionState
<1> QED BY <1>3, Zenon

\* The session counts what was ingested, and the call is answered.
LEMMA ServiceCounts ==
    ASSUME ServiceInv, NEW c \in Calls, Count(c)
    PROVE  ServiceInv'
<1>1. /\ Typed /\ AsksSomething /\ BooksInv /\ KeysInv /\ BudgetInv
      /\ call[c].pc = "count"
  BY DEF ServiceInv, Count
<1> PICK a, i, n : a = amountOf(c) /\ i = call[c].s /\ n = Len(sessions)
  OBVIOUS
<1>2. /\ i \in DOMAIN sessions /\ i # NoSession /\ sessions[i] \in SessionState
      /\ sessions \in Seq(SessionState) /\ n \in Nat /\ a \in Int
      /\ sessions[i].remaining \in Int /\ sessions[i].pending \in Int
  BY <1>1, Calling, Holding, Asking DEF Serving, Typed
<1>3. /\ call' \in [Calls -> CallState] /\ call'[c].pc = "done" /\ call'[c].status = 200
      /\ call'[c].s = NoSession /\ call'[c].floor = NoVer
      /\ \A d \in Calls : d # c => call'[d] = call[d]
  BY <1>1, AnswerGoes DEF Count, Goes
<1>4. UNCHANGED <<req, current, validating, usage, billed, maxVer, chain, now, faults, gaps>>
  BY DEF Count, Others, store
<1> DEFINE pending == sessions[i].pending + a
           r == [sessions[i] EXCEPT !.remaining = @ - a]
           q == IF Threshold > 0 /\ pending >= Threshold THEN 0 ELSE pending
           z == [r EXCEPT !.pending = q]
           x == [sessions EXCEPT ![i] = r]
<1>5. q \in Int
  BY <1>2
<1>6. r \in SessionState /\ r.remaining = sessions[i].remaining - a
  BY <1>2, TakeAway
<1>7. z \in SessionState /\ z.remaining = sessions[i].remaining - a
  <2> HIDE DEF r, q
  <2> QED BY <1>5, <1>6 DEF SessionState
<1>8. sessions' = [sessions EXCEPT ![i] = z]
  <2>1. sessions' = [[sessions EXCEPT ![i].remaining = @ - a] EXCEPT ![i].pending = q]
    <3> HIDE DEF r, z, x
    <3> QED BY Zenon DEF Count, S
  <2>2. [sessions EXCEPT ![i].remaining = @ - a] = x /\ x[i] = r
    BY <1>2
  <2>3. [x EXCEPT ![i].pending = q] = [sessions EXCEPT ![i] = z]
    <3> HIDE DEF r, q
    <3> QED BY <1>2, <2>2
  <2> HIDE DEF x, z, q
  <2> QED BY <2>1, <2>2, <2>3, Zenon
<1> HIDE DEF z, r, q, x
<1>9. /\ sessions' \in Seq(SessionState) /\ Len(sessions') = n
      /\ sessions'[i].remaining = sessions[i].remaining - a
      /\ DOMAIN sessions' = DOMAIN sessions
  BY <1>2, <1>7, <1>8
<1>10. \A d : amountOf(d)' = amountOf(d)
  BY <1>4, SameAmounts
<1>11. Typed'
  <2>1. \A d \in Calls : IF call'[d].pc \in Serving THEN call'[d].s \in DOMAIN sessions
                                                    ELSE call'[d].s = NoSession
    BY <1>1, <1>3 DEF Typed, Serving
  <2> QED BY <1>1, <1>3, <1>4, <1>9, <2>1 DEF Typed
<1>12. AsksSomething'
  BY <1>1, <1>3, <1>4, <1>10 DEF AsksSomething, Serving
<1>13. BooksInv'
  <2>1. \A d \in Calls : Served(d)' <=> Served(d)
    BY <1>1, <1>3 DEF Served, Status
  <2>2. \A d \in Calls : call'[d].pc = "lost" <=> call[d].pc = "lost"
    BY <1>1, <1>3
  <2> QED BY <1>1, <1>4, <1>10, <2>1, <2>2 DEF BooksInv
<1>14. KeysInv'
  <2>1. NoVer <= maxVer
    BY <1>1, Versions DEF Typed, NoVer
  <2> QED BY <1>1, <1>3, <1>4, <2>1 DEF KeysInv
<1>15. BudgetInv'
  <2> SUFFICES ASSUME gaps = {} PROVE BudgetInv'
    BY <1>4 DEF BudgetInv
  <2>1. /\ i = n /\ Left = sessions[i].remaining /\ Left' = sessions[i].remaining - a
        /\ \A d \in Calls : call[d].pc = "count" => d = c
        /\ Promise + Left - a <= Budget /\ Promise <= Budget
        /\ \A d \in Calls : call[d].s \in {NoSession, n}
    BY <1>1, <1>2, <1>9 DEF BudgetInv, Left
  <2>2. Promise' = Promise /\ Promise \in Nat
    BY <1>1, <1>4, SamePromise, UnbilledIsFinite
  <2>3. Promise' + Left' <= Budget /\ Promise' <= Budget
    BY <1>2, <2>1, <2>2, Bounds
  <2>4. \A d \in Calls : call'[d].pc # "count" /\ call'[d].s \in {NoSession, n}
    BY <1>3, <2>1
  <2> QED BY <1>9, <2>3, <2>4 DEF BudgetInv
<1> QED BY <1>11, <1>12, <1>13, <1>14, <1>15 DEF ServiceInv


-----------------------------------------------------------------------------
(* The other steps.                                                        *)

\* The books and the keys change only with a call or the store.
LEMMA BooksStay ==
    ASSUME ServiceInv, UNCHANGED <<req, call, usage, maxVer>>
    PROVE  AsksSomething' /\ BooksInv' /\ KeysInv'
<1>1. \A d : amountOf(d)' = amountOf(d)
  BY SameAmounts
<1>2. \A d : Served(d)' <=> Served(d)
  BY DEF Served, Status
<1> QED BY <1>1, <1>2 DEF ServiceInv, AsksSomething, BooksInv, KeysInv

\* What is promised and what is left change only with ingests, settlements
\* and counts.
LEMMA BudgetStays ==
    ASSUME Typed, BudgetInv, gaps' = {} => gaps = {}, UNCHANGED req,
           Promise' = Promise, Len(sessions') = Len(sessions),
           \A i \in DOMAIN sessions : sessions'[i].remaining = sessions[i].remaining,
           \A c \in Calls : /\ call'[c].s \in {NoSession, call[c].s}
                            /\ call'[c].pc = "count" => call[c].pc = "count",
           Alive' => Alive /\ \A c \in Calls : call[c].pc = "count" => call'[c].pc = "count"
    PROVE  BudgetInv'
<1> SUFFICES ASSUME gaps' = {} PROVE BudgetInv'
  BY DEF BudgetInv
<1>1. gaps = {}
  OBVIOUS
<1>2. \A d : amountOf(d)' = amountOf(d)
  BY SameAmounts
<1>3. Len(sessions) > 0 => Left' = Left
  BY Holding DEF Left
<1>4. Alive => Len(sessions) > 0
  BY <1>1, Holding, Calling DEF Alive, BudgetInv
<1>5. \A d \in Calls : call[d].pc = "count" => Len(sessions) > 0
  BY Holding, Calling DEF Serving
<1> PICK n, P, L : n = Len(sessions) /\ P = Promise /\ L = Left
  OBVIOUS
<1>6. \A d \in Calls : call'[d].s \in {NoSession, n}
  BY <1>1 DEF BudgetInv
<1>7. \A c, d \in Calls : call'[c].pc = "count" /\ call'[d].pc = "count" => c = d
  BY <1>1 DEF BudgetInv
<1>8. P <= Budget
  BY <1>1 DEF BudgetInv
<1>9. ASSUME Alive', \A d \in Calls : call'[d].pc # "count"
      PROVE  P + Left' <= Budget
  BY <1>1, <1>3, <1>4, <1>9 DEF BudgetInv
<1>10. ASSUME NEW d \in Calls, call'[d].pc = "count"
       PROVE  P + Left' - amountOf(d)' <= Budget
  BY <1>1, <1>2, <1>3, <1>5, <1>10 DEF BudgetInv
<1> QED BY <1>6, <1>7, <1>8, <1>9, <1>10 DEF BudgetInv

\* The chain is read, or fails.
LEMMA ServiceReads == ServiceInv /\ ReadChain => ServiceInv'
<1> SUFFICES ASSUME ServiceInv, ReadChain PROVE ServiceInv'
  OBVIOUS
<1>1. Typed /\ BudgetInv /\ validating.at = "reading" /\ current = NoSession
  BY DEF ServiceInv, ReadChain, Typed
<1>2. UNCHANGED <<req, call, sessions, current, usage, billed, maxVer, chain, now>>
  BY DEF ReadChain, Others, store
<1>3. /\ validating' \in [at : {"no", "reading", "read"}, ok : BOOLEAN, spent : 0..Budget]
      /\ faults' \in 0..MaxFaults
  <2>1. CASE /\ validating' = [at |-> "read", spent |-> chain.spent,
                               ok |-> chain.ours /\ chain.active /\ now < MandateExpiry]
             /\ faults' = faults
    <3>1. chain.spent \in 0..Budget /\ faults \in 0..MaxFaults
      BY <1>1 DEF Typed
    <3> QED BY <2>1, <3>1
  <2>2. CASE validating' = [NotReading EXCEPT !.at = "read"] /\ Fault
    <3>1. faults' \in 0..MaxFaults
      BY <1>1, <2>2, Bounds, SMTT(20) DEF Fault, Typed
    <3> QED BY <2>2, <3>1, Reading
  <2> QED BY <2>1, <2>2 DEF ReadChain
<1>4. Typed'
  BY <1>1, <1>2, <1>3 DEF Typed
<1>5. gaps' = {} => gaps = {}
  BY DEF ReadChain
<1>6. BudgetInv'
  <2>1. Promise' = Promise
    BY <1>2, SamePromise
  <2>2. Alive' => Alive
    BY <1>2 DEF Alive
  <2> QED BY <1>1, <1>2, <1>5, <2>1, <2>2, BudgetStays
<1> QED BY <1>2, <1>4, <1>6, BooksStay DEF ServiceInv

\* A session begins with nothing ingested and what the chain has left.
LEMMA Beginning ==
    ASSUME Typed
    PROVE  /\ remainingBudget \in Int
           /\ remainingBudget <= Budget - validating.spent
<1> PICK b, s : b = Budget /\ s = validating.spent
  OBVIOUS
<1>1. b \in Int /\ s \in Int /\ 0 <= b - s /\ b - s \in Int
  BY Bounds, SMTT(20) DEF Typed
<1>2. Max({0, b - s}) \in {0, b - s}
  <2>1. 0 \in Int
    OBVIOUS
  <2> QED BY <1>1, <2>1, Greater, Zenon
<1>3. remainingBudget \in {0, b - s}
  BY <1>2 DEF remainingBudget
<1> QED BY <1>1, <1>3

\* A call that waited is admitted.
LEMMA Wakes ==
    ASSUME NEW r \in CallState, NEW s \in Nat
    PROVE  \E q \in CallState :
               /\ q = [r EXCEPT !.pc = "admit", !.s = s]
               /\ q.pc = "admit" /\ q.s = s /\ q.floor = r.floor
<1> DEFINE q == [r EXCEPT !.pc = "admit"]
<1>1. q \in CallState /\ q.floor = r.floor /\ q.pc = "admit"
  BY SetPc DEF Serving
<1>2. [r EXCEPT !.pc = "admit", !.s = s] = [q EXCEPT !.s = s]
  BY Zenon
<1> HIDE DEF q
<1>3. /\ [q EXCEPT !.s = s] \in CallState
      /\ [q EXCEPT !.s = s].pc = "admit"
      /\ [q EXCEPT !.s = s].s = s
      /\ [q EXCEPT !.s = s].floor = r.floor
  BY <1>1, SetS
<1> DEFINE p == [q EXCEPT !.s = s]
<1>4. p \in CallState /\ p.pc = "admit" /\ p.s = s /\ p.floor = r.floor
  BY <1>3
<1>5. p = [r EXCEPT !.pc = "admit", !.s = s]
  BY <1>2, Zenon
<1> HIDE DEF p
<1> QED BY <1>4, <1>5

\* The session is set, and everybody who waits for it goes on.
LEMMA ServiceSets == ServiceInv /\ SetSession => ServiceInv'
<1> SUFFICES ASSUME ServiceInv, SetSession PROVE ServiceInv'
  OBVIOUS
<1>1. /\ Typed /\ AsksSomething /\ BooksInv /\ KeysInv /\ BudgetInv
      /\ current = NoSession
  BY DEF ServiceInv, SetSession, Typed
<1> PICK n, z : /\ n = Len(sessions)
                /\ z = [serviceable |-> validating.ok, pending |-> 0,
                        remaining |-> remainingBudget, foreign |-> ~chain.ours,
                        agent |-> NoVer, until |-> Never]
  OBVIOUS
<1>2. /\ n \in Nat /\ n < MaxSessions /\ sessions \in Seq(SessionState)
      /\ z \in SessionState /\ z.remaining = remainingBudget
  <2>1. remainingBudget \in Int /\ NoVer \in Ver /\ Never \in Nat
        /\ validating.ok \in BOOLEAN
    BY <1>1, Beginning, Versions DEF Never, Typed
  <2>2. n \in Nat /\ n < MaxSessions /\ sessions \in Seq(SessionState)
    BY <1>1 DEF Typed
  <2> QED BY <2>1, <2>2 DEF SessionState
<1>3. /\ sessions' = Append(sessions, z)
      /\ sessions' \in Seq(SessionState) /\ Len(sessions') = n + 1
      /\ DOMAIN sessions \subseteq DOMAIN sessions'
      /\ n + 1 \in DOMAIN sessions' /\ sessions'[n + 1] = z
      /\ n + 1 # NoSession /\ n + 1 \in Nat
  <2>1. sessions' = Append(sessions, z)
    BY DEF SetSession
  <2> QED BY <1>2, <2>1 DEF NoSession
<1>4. /\ current' = n + 1 /\ validating' = NotReading
      /\ UNCHANGED <<req, usage, billed, maxVer, faults, chain, now>>
  BY <1>3 DEF SetSession, Others, store
<1> DEFINE w(c) == IF call[c].pc # "session" THEN call[c]
                   ELSE [call[c] EXCEPT !.pc = "admit", !.s = n + 1]
<1>5. call' = [c \in Calls |-> w(c)]
  BY <1>3 DEF SetSession, Woken
<1>6. \A c \in Calls : /\ call'[c] \in CallState /\ call'[c].floor = call[c].floor
                       /\ call[c].pc # "session" => call'[c] = call[c]
                       /\ call[c].pc = "session" => /\ call'[c].pc = "admit"
                                                    /\ call'[c].s = n + 1
  <2> SUFFICES ASSUME NEW c \in Calls
               PROVE  /\ w(c) \in CallState /\ w(c).floor = call[c].floor
                      /\ call[c].pc # "session" => w(c) = call[c]
                      /\ call[c].pc = "session" => w(c).pc = "admit" /\ w(c).s = n + 1
    BY <1>5
  <2>1. call[c] \in CallState
    BY <1>1 DEF Typed
  <2> PICK s, r : s = n + 1 /\ r = call[c]
    OBVIOUS
  <2>2. PICK q \in CallState :
          /\ q = [r EXCEPT !.pc = "admit", !.s = s]
          /\ q.pc = "admit" /\ q.s = s /\ q.floor = r.floor
    <3>1. s \in Nat /\ r \in CallState
      BY <1>3, <2>1
    <3> QED BY <3>1, Wakes
  <2>3. w(c) = IF r.pc # "session" THEN r ELSE q
    BY <2>2, Zenon
  <2> HIDE DEF w
  <2> QED BY <2>1, <2>2, <2>3, Zenon
<1> HIDE DEF w
<1>7. Typed'
  <2>1. call' \in [Calls -> CallState]
    <3>1. call' = [c \in Calls |-> call'[c]]
      BY <1>5
    <3> QED BY <1>6, <3>1
  <2>2. \A c \in Calls : IF call'[c].pc \in Serving THEN call'[c].s \in DOMAIN sessions'
                                                    ELSE call'[c].s = NoSession
    BY <1>1, <1>3, <1>6, SMTT(20) DEF Typed, Serving
  <2>3. NotReading \in [at : {"no", "reading", "read"}, ok : BOOLEAN, spent : 0..Budget]
        /\ NotReading.at = "no"
    <3>1. 0 \in 0..Budget
      BY Bounds
    <3> QED BY <3>1 DEF NotReading
  <2>4. Len(sessions') <= MaxSessions /\ current' \in {NoSession, Len(sessions')}
        /\ current' # NoSession
    BY <1>2, <1>3, <1>4, Bounds
  <2> QED BY <1>1, <1>3, <1>4, <2>1, <2>2, <2>3, <2>4 DEF Typed
<1>8. \A d : amountOf(d)' = amountOf(d)
  BY <1>4, SameAmounts
<1>9. AsksSomething'
  BY <1>1, <1>4, <1>6, <1>8 DEF AsksSomething, Serving
<1>10. BooksInv'
  <2>1. \A d \in Calls : Served(d)' <=> Served(d)
    BY <1>6 DEF Served, Status
  <2>2. \A d \in Calls : call'[d].pc = "lost" <=> call[d].pc = "lost"
    BY <1>6
  <2> QED BY <1>1, <1>4, <1>8, <2>1, <2>2 DEF BooksInv
<1>11. KeysInv'
  BY <1>1, <1>4, <1>6 DEF KeysInv
<1>12. BudgetInv'
  <2> SUFFICES ASSUME gaps' = {} PROVE BudgetInv'
    BY DEF BudgetInv
  <2>1. /\ gaps = {} /\ ~(Sum(unbilled) > 0) /\ chain.spent = validating.spent
        /\ \A c \in Calls : call[c].s = NoSession
    BY DEF SetSession
  <2>2. \A c \in Calls : call'[c].pc # "count" /\ call'[c].s \in {NoSession, n + 1}
    <3>1. \A c \in Calls : call[c].pc # "count"
      BY <1>1, <2>1, Calling DEF Serving
    <3> QED BY <1>6, <2>1, <3>1
  <2>3. Promise' = Promise /\ Promise = chain.spent /\ Promise <= Budget
    <3>1. Promise' = Promise
      BY <1>4, SamePromise
    <3>2. Sum(unbilled) \in Nat /\ chain.spent \in Nat /\ chain.spent <= Budget
      BY <1>1, UnbilledIsFinite, Bounds DEF Typed
    <3>3. Sum(unbilled) = 0
      BY <2>1, <3>2
    <3> QED BY <3>1, <3>2, <3>3 DEF Promise
  <2>4. Left' = remainingBudget
    BY <1>2, <1>3 DEF Left
  <2>5. Promise' + Left' <= Budget
    <3> PICK s, l, b : s = chain.spent /\ l = remainingBudget /\ b = Budget
      OBVIOUS
    <3>1. s \in Int /\ b \in Int
      BY <1>1, Bounds DEF Typed
    <3>2. l \in Int /\ l <= b - s
      BY <1>1, <2>1, Beginning
    <3>3. s + l <= b
      BY <3>1, <3>2
    <3> QED BY <2>3, <2>4, <3>3
  <2> QED BY <1>3, <2>2, <2>3, <2>5 DEF BudgetInv
<1> QED BY <1>7, <1>9, <1>10, <1>11, <1>12 DEF ServiceInv

\* The least of three numbers.
LEMMA LeastOfThree ==
    ASSUME NEW a \in Int, NEW b \in Int, NEW d \in Int
    PROVE  Min({a, b, d}) \in Int /\ Min({a, b, d}) <= a /\ Min({a, b, d}) <= d
<1>1. \E x \in {a, b, d} : \A y \in {a, b, d} : x <= y
  <2>1. CASE a <= b /\ a <= d
    BY <2>1
  <2>2. CASE b <= a /\ b <= d
    BY <2>2
  <2>3. CASE d <= a /\ d <= b
    BY <2>3
  <2> QED BY <2>1, <2>2, <2>3
<1>2. Min({a, b, d}) \in {a, b, d} /\ \A y \in {a, b, d} : Min({a, b, d}) <= y
  BY <1>1 DEF Min
<1> QED BY <1>2

\* A batch is unbilled usage, and the mandate and the account can pay it.
LEMMA BatchFits ==
    ASSUME Typed, BooksInv, Batch # {}
    PROVE  /\ Batch \subseteq unbilled /\ Sum(Batch) \in Nat
           /\ Sum(Batch) <= Budget - chain.spent /\ Sum(Batch) <= chain.balance
<1> DEFINE fits == {n \in unbilled : Sum({u \in unbilled : u <= n}) <= spendableNow}
<1>1. IsFiniteSet(unbilled) /\ unbilled \subseteq Nat
      /\ \A u \in unbilled : usage[u] \in Nat
  BY UnbilledIsFinite
<1>2. fits # {} /\ Batch = {u \in unbilled : u <= Max(fits)}
  BY DEF Batch
<1>3. Max(fits) \in fits
  <2>1. IsFiniteSet(fits) /\ fits \subseteq Nat
    BY <1>1, FS_Subset
  <2> HIDE DEF fits
  <2>2. \E n \in fits : \A k \in fits : n >= k
    BY <1>2, <2>1, GreatestNumber
  <2> QED BY <2>2 DEF Max
<1>4. Sum(Batch) <= spendableNow
  BY <1>2, <1>3
<1>5. Batch \subseteq unbilled /\ Sum(Batch) \in Nat
  <2>1. Batch \subseteq unbilled
    BY <1>2
  <2>2. IsFiniteSet(Batch) /\ \A u \in Batch : usage[u] \in Nat
    BY <1>1, <2>1, FS_Subset
  <2> QED BY <2>1, <2>2, SumNat DEF Sum
<1> PICK x, y, z : x = Budget - chain.spent /\ y = MaxPerCharge /\ z = chain.balance
  OBVIOUS
<1>6. x \in Int /\ y \in Int /\ z \in Int
  BY Bounds DEF Typed
<1>7. spendableNow \in Int /\ spendableNow <= x /\ spendableNow <= z
  BY <1>6, LeastOfThree DEF spendableNow
<1> HIDE DEF fits
<1> PICK s, p : s = Sum(Batch) /\ p = spendableNow
  OBVIOUS
<1>8. s <= x /\ s <= z
  <2>1. s \in Int /\ p \in Int /\ s <= p /\ p <= x /\ p <= z
    BY <1>4, <1>5, <1>7
  <2> QED BY <1>6, <2>1
<1> QED BY <1>5, <1>8

\* The service stops serving, or the mandate pays.
LEMMA ServiceSettles == ServiceInv /\ Settle => ServiceInv'
<1> SUFFICES ASSUME ServiceInv, Settle PROVE ServiceInv'
  OBVIOUS
<1>1. Typed /\ BooksInv /\ BudgetInv
  BY DEF ServiceInv
<1>2. UNCHANGED <<req, call, current, validating, usage, maxVer, now, faults, gaps>>
  BY DEF Settle
<1>3. Alive' <=> Alive
  BY <1>2 DEF Alive
<1>4. CASE (\E e : applyEvent(e)) /\ UNCHANGED <<billed, chain>>
  <2>1. /\ sessions' \in Seq(SessionState) /\ Len(sessions') = Len(sessions)
        /\ \A i \in DOMAIN sessions : sessions'[i].remaining = sessions[i].remaining
    <3>1. sessions \in Seq(SessionState)
      BY <1>1 DEF Typed
    <3>2. CASE current # NoSession /\ sessions' = [sessions EXCEPT ![current].serviceable = FALSE]
      <4> PICK i, r : i = current /\ r = [sessions[i] EXCEPT !.serviceable = FALSE]
        OBVIOUS
      <4>1. i \in DOMAIN sessions /\ sessions[i] \in SessionState
        BY <1>1, <3>2, Holding
      <4>2. r \in SessionState /\ r.remaining = sessions[i].remaining
        BY <4>1 DEF SessionState
      <4>3. sessions' = [sessions EXCEPT ![i] = r]
        BY <3>2
      <4> QED BY <3>1, <4>1, <4>2, <4>3
    <3>3. CASE sessions' = sessions
      BY <3>1, <3>3
    <3> QED BY <1>4, <3>2, <3>3 DEF applyEvent
  <2>2. DOMAIN sessions' = DOMAIN sessions
    <3>1. sessions \in Seq(SessionState)
      BY <1>1 DEF Typed
    <3> QED BY <2>1, <3>1
  <2>3. Typed'
    BY <1>1, <1>2, <1>4, <2>1, <2>2 DEF Typed
  <2>4. BudgetInv'
    BY <1>1, <1>2, <1>3, <1>4, <2>1, SamePromise, BudgetStays
  <2> QED BY <1>2, <2>3, <2>4, BooksStay DEF ServiceInv
<1>5. CASE /\ Batch # {}
           /\ chain' = [chain EXCEPT !.spent = @ + Sum(Batch), !.balance = @ - Sum(Batch)]
           /\ billed' = billed \cup Batch
           /\ UNCHANGED sessions
  <2> PICK B, b, s, l : B = Batch /\ b = Sum(Batch) /\ s = chain.spent /\ l = chain.balance
    OBVIOUS
  <2>1. /\ B \subseteq unbilled /\ b \in Nat /\ s \in Nat /\ l \in Nat
        /\ b <= Budget - s /\ b <= l /\ s <= Budget /\ l <= MaxBalance
    BY <1>1, <1>5, BatchFits, Bounds, SMTT(20) DEF Typed
  <2>2. s + b \in 0..Budget /\ l - b \in 0..MaxBalance
    BY <2>1, Bounds
  <2> DEFINE Chains == [ours : BOOLEAN, active : BOOLEAN, spent : 0..Budget,
                        balance : 0..MaxBalance]
             x == [chain EXCEPT !.spent = s + b]
             y == [x EXCEPT !.balance = l - b]
  <2>3. chain \in Chains
    BY <1>1 DEF Typed
  <2>4. x \in Chains /\ x.spent = s + b /\ x.balance = l
    BY <2>2, <2>3
  <2>5. y \in Chains /\ y.spent = s + b
    <3> HIDE DEF x
    <3> QED BY <2>2, <2>4
  <2>6. chain' = y
    <3>1. chain' = [[chain EXCEPT !.spent = @ + Sum(Batch)] EXCEPT !.balance = @ - Sum(Batch)]
      BY <1>5, Zenon
    <3>2. [chain EXCEPT !.spent = @ + Sum(Batch)] = x
      OBVIOUS
    <3>3. [x EXCEPT !.balance = @ - Sum(Batch)] = y
      <4> HIDE DEF x
      <4> QED BY <2>4
    <3> HIDE DEF x, y
    <3> QED BY <3>1, <3>2, <3>3, Zenon
  <2> HIDE DEF x, y
  <2>7. Typed'
    <3>1. billed' \subseteq {u \in Ids : usage[u] > 0}
      BY <1>1, <1>5, <2>1, UnbilledIsFinite DEF Typed
    <3>2. chain' \in Chains
      BY <2>5, <2>6
    <3> QED BY <1>1, <1>2, <1>5, <3>1, <3>2 DEF Typed
  <2>8. Promise' = Promise
    <3>1. unbilled' = unbilled \ B
      BY <1>2, <1>5 DEF unbilled
    <3> PICK f, U : f = usage /\ U = unbilled
      OBVIOUS
    <3>2. IsFiniteSet(U) /\ B \in SUBSET U /\ \A u \in U : f[u] \in Int
      BY <1>1, <2>1, UnbilledIsFinite
    <3>3. SumFunctionOnSet(f, U) = SumFunctionOnSet(f, B) + SumFunctionOnSet(f, U \ B)
      BY <3>2, SumSplit
    <3>4. SumFunctionOnSet(f, U \ B) \in Int
      <4>1. IsFiniteSet(U \ B) /\ \A u \in U \ B : f[u] \in Int
        BY <3>2, FS_Subset
      <4> QED BY <4>1, SumInt
    <3>5. SumFunctionOnSet(f, B) = b
      BY DEF Sum
    <3>6. Sum(unbilled)' = SumFunctionOnSet(f, U \ B)
      BY <1>2, <3>1 DEF Sum
    <3>7. Promise = s + SumFunctionOnSet(f, U)
      BY DEF Promise, Sum
    <3>8. Promise' = (s + b) + SumFunctionOnSet(f, U \ B)
      BY <2>5, <2>6, <3>6 DEF Promise
    <3> QED BY <2>1, <3>3, <3>4, <3>5, <3>7, <3>8
  <2>9. BudgetInv'
    BY <1>1, <1>2, <1>3, <1>5, <2>8, BudgetStays
  <2> QED BY <1>2, <2>7, <2>9, BooksStay DEF ServiceInv
<1> QED BY <1>4, <1>5 DEF Settle

\* An evicted session stays with the calls that hold it.
LEMMA ServiceEvicts == ServiceInv /\ evict => ServiceInv'
<1> SUFFICES ASSUME ServiceInv, evict PROVE ServiceInv'
  OBVIOUS
<1>1. Typed /\ BudgetInv
  BY DEF ServiceInv
<1>2. /\ current # NoSession /\ current' = NoSession /\ Len(sessions) < MaxSessions
      /\ UNCHANGED <<req, call, sessions, validating, usage, billed, maxVer, chain,
                     now, faults, gaps>>
  BY DEF evict, Others, store
<1>3. Typed'
  BY <1>1, <1>2 DEF Typed
<1>4. BudgetInv'
  <2>1. Alive' => Alive
    BY <1>2 DEF Alive
  <2> QED BY <1>1, <1>2, <2>1, SamePromise, BudgetStays
<1> QED BY <1>2, <1>3, <1>4, BooksStay DEF ServiceInv

\* A restart loses the calls it had taken, and no usage.
LEMMA ServiceRestarts == ServiceInv /\ Restart => ServiceInv'
<1> SUFFICES ASSUME ServiceInv, Restart PROVE ServiceInv'
  OBVIOUS
<1>1. Typed /\ AsksSomething /\ BooksInv /\ KeysInv /\ BudgetInv
  BY DEF ServiceInv
<1>2. /\ current' = NoSession /\ validating' = NotReading /\ Len(sessions) < MaxSessions
      /\ UNCHANGED <<req, sessions, usage, billed, maxVer, chain, now, gaps>>
  BY DEF Restart, Others, store
<1> DEFINE r == [Asked EXCEPT !.pc = "lost"]
<1>3. /\ r \in CallState /\ r.pc = "lost" /\ r.s = NoSession /\ r.floor = NoVer
  <2>1. 0 \in Ver /\ 0 \in Nat
    BY Versions DEF NoVer
  <2> QED BY <2>1 DEF Asked, CallState, NoSession, NoVer
<1> HIDE DEF r
<1>4. call' = [c \in Calls |-> IF call[c].pc \in {"new", "done"} THEN call[c] ELSE r]
  BY DEF Restart, r
<1>5. \A c \in Calls : call'[c] \in CallState
                       /\ IF call[c].pc \in {"new", "done"} THEN call'[c] = call[c]
                                                            ELSE call'[c] = r
  BY <1>1, <1>3, <1>4 DEF Typed
<1>6. \A c \in Calls : call'[c].pc \notin Serving \cup {"session"} /\ call'[c].s = NoSession
  BY <1>1, <1>3, <1>5, Calling DEF Serving
<1>7. Typed'
  <2>1. call' \in [Calls -> CallState]
    BY <1>4, <1>5
  <2>2. NotReading \in [at : {"no", "reading", "read"}, ok : BOOLEAN, spent : 0..Budget]
        /\ NotReading.at = "no"
    <3>1. 0 \in 0..Budget
      BY Bounds
    <3> QED BY <3>1 DEF NotReading
  <2>3. faults' \in 0..MaxFaults
    BY <1>1, Bounds DEF Restart, Fault, Typed
  <2> QED BY <1>1, <1>2, <1>6, <2>1, <2>2, <2>3 DEF Typed
<1>8. \A d : amountOf(d)' = amountOf(d)
  BY <1>2, SameAmounts
<1>9. AsksSomething'
  BY <1>6 DEF AsksSomething
<1>10. BooksInv'
  <2>1. \A d \in Calls : Served(d)' => Served(d)
    BY <1>3, <1>5 DEF Served, Status
  <2>2. \A d \in Calls : Served(d) \/ call[d].pc = "lost" => Served(d)' \/ call'[d].pc = "lost"
    BY <1>3, <1>5 DEF Served, Status
  <2> QED BY <1>1, <1>2, <1>8, <2>1, <2>2 DEF BooksInv
<1>11. KeysInv'
  <2>1. NoVer <= maxVer
    BY <1>1, Versions DEF Typed, NoVer
  <2> QED BY <1>1, <1>2, <1>3, <1>5, <1>6, <2>1 DEF KeysInv, Serving
<1>12. BudgetInv'
  <2>1. ~Alive'
    BY <1>2, <1>6 DEF Alive
  <2>2. \A c \in Calls : call'[c].s \in {NoSession, call[c].s} /\ call'[c].pc # "count"
    BY <1>6 DEF Serving
  <2>3. Promise' = Promise
    BY <1>2, SamePromise
  <2> QED BY <1>1, <1>2, <2>1, <2>2, <2>3, BudgetStays
<1> QED BY <1>7, <1>9, <1>10, <1>11, <1>12 DEF ServiceInv

\* The subscriber revokes, tops up or withdraws; time passes; or nothing happens.
LEMMA ServiceWaits ==
    ServiceInv /\ (Subscriber \/ Elapse \/ UNCHANGED vars) => ServiceInv'
<1> SUFFICES ASSUME ServiceInv, Subscriber \/ Elapse \/ UNCHANGED vars PROVE ServiceInv'
  OBVIOUS
<1>1. Typed /\ BudgetInv
  BY DEF ServiceInv
<1>2. UNCHANGED <<req, call, sessions, current, validating, usage, billed, maxVer, faults, gaps>>
  BY DEF Subscriber, Elapse, vars, process, store
<1>3. /\ chain' \in [ours : BOOLEAN, active : BOOLEAN, spent : 0..Budget,
                     balance : 0..MaxBalance]
      /\ chain'.spent = chain.spent
  <2>1. CASE Subscriber
    <3>1. 0 \in 0..MaxBalance /\ MaxBalance \in 0..MaxBalance
      BY Bounds
    <3> QED BY <1>1, <2>1, <3>1 DEF Subscriber, Typed
  <2>2. CASE UNCHANGED chain
    BY <1>1, <2>2 DEF Typed
  <2> QED BY <2>1, <2>2 DEF Elapse, vars
<1>4. now' \in 0..MaxTime
  <2>1. now \in 0..MaxTime
    BY <1>1 DEF Typed
  <2> QED BY <2>1, Bounds DEF Subscriber, Elapse, vars
<1>5. Typed'
  BY <1>1, <1>2, <1>3, <1>4 DEF Typed
<1>6. BudgetInv'
  <2>1. Alive' => Alive
    BY <1>2 DEF Alive
  <2> QED BY <1>1, <1>2, <1>3, <2>1, SamePromise, BudgetStays
<1> QED BY <1>2, <1>5, <1>6, BooksStay DEF ServiceInv

-----------------------------------------------------------------------------
(* The theorems.                                                           *)

\* The invariant holds.
LEMMA ServiceInvHolds == Spec => []ServiceInv
<1>1. ServiceInv /\ [Next]_vars => ServiceInv'
  <2> SUFFICES ASSUME ServiceInv, [Next]_vars PROVE ServiceInv'
    OBVIOUS
  <2>1. ASSUME NEW c \in Calls, use(c) \/ useMetered(c) PROVE ServiceInv'
    BY <2>1, ServiceEnters
  <2>2. ASSUME NEW c \in Calls, CallStep(c) PROVE ServiceInv'
    BY <2>2, ServiceAdmits, ServiceBinds, ServiceProves, ServiceRecords, ServiceCounts
       DEF CallStep
  <2>3. ReadChain => ServiceInv'
    BY ServiceReads
  <2>4. SetSession => ServiceInv'
    BY ServiceSets
  <2>5. Settle => ServiceInv'
    BY ServiceSettles
  <2>6. evict => ServiceInv'
    BY ServiceEvicts
  <2>7. Restart => ServiceInv'
    BY ServiceRestarts
  <2>8. Subscriber \/ Elapse \/ UNCHANGED vars => ServiceInv'
    BY ServiceWaits
  <2> QED BY <2>1, <2>2, <2>3, <2>4, <2>5, <2>6, <2>7, <2>8 DEF Next
<1> QED BY <1>1, ServiceInit, PTL DEF Spec

\* A usageId is served once, at the price of the card, and what a served call
\* asked is what the books hold; a call refused for another reason than a
\* replay put nothing there (F1).
THEOREM AnswersAreBooked == Spec => []AnswersMatchTheBooks
<1>1. ServiceInv => AnswersMatchTheBooks
  <2> SUFFICES ASSUME ServiceInv PROVE AnswersMatchTheBooks
    OBVIOUS
  <2>1. Typed /\ BooksInv
    BY DEF ServiceInv
  <2>2. TypeOK
    <3>1. \A c \in Calls :
            /\ call[c].pc \in {"new", "session", "admit", "bind", "prove",
                               "record", "count", "done", "lost"}
            /\ call[c].status \in {0, 200, 400, 401, 402, 403, 404, 409, 500}
            /\ call[c].s \in 0..Len(sessions)
      <4> SUFFICES ASSUME NEW c \in Calls
                   PROVE  /\ call[c].pc \in {"new", "session", "admit", "bind", "prove",
                                             "record", "count", "done", "lost"}
                          /\ call[c].status \in {0, 200, 400, 401, 402, 403, 404, 409, 500}
                          /\ call[c].s \in 0..Len(sessions)
        OBVIOUS
      <4>1. call[c] \in CallState /\ Len(sessions) \in Nat /\ DOMAIN sessions = 1..Len(sessions)
        BY <2>1, Calling, Holding
      <4>2. call[c].s \in DOMAIN sessions \/ call[c].s = NoSession
        BY <2>1 DEF Typed
      <4>3. call[c].s \in 0..Len(sessions)
        BY <4>1, <4>2 DEF NoSession
      <4> QED BY <4>1, <4>3 DEF CallState
    <3>2. current \in 0..Len(sessions)
      BY <2>1, Holding DEF Typed, NoSession
    <3> QED BY <2>1, <3>1, <3>2 DEF TypeOK, Typed, Ver
  <2>3. ServedOnce
    BY <2>1 DEF BooksInv, ServedOnce, Served
  <2>4. \A c \in Calls : Status(c, {200}) => usage[req[c].id] = amountOf(c)
    BY <2>1 DEF BooksInv, Served
  <2>5. ASSUME NEW c \in Calls, usage[req[c].id] > 0
        PROVE  \E d \in Calls : req[d].id = req[c].id /\ call[d].pc # "new"
                                /\ ~Status(d, {400, 401, 402, 403, 404})
    <3>1. req[c].id \in Ids
      BY <2>1, Asking DEF Typed
    <3>2. PICK d \in Calls : req[d].id = req[c].id /\ (Served(d) \/ call[d].pc = "lost")
      BY <2>1, <2>5, <3>1 DEF BooksInv
    <3> QED BY <3>2 DEF Served, Status
  <2> QED BY <2>2, <2>3, <2>4, <2>5, PricesFair DEF AnswersMatchTheBooks
<1> QED BY <1>1, ServiceInvHolds, PTL

\* The certificate of a served call is at least as new as any the store knew
\* when the call came in, whatever sessions and restarts lie between (F5).
THEOREM RotatedKeysStayOut == Spec => []RotatedKeyStaysOut
<1>1. ServiceInv => RotatedKeyStaysOut
  BY DEF ServiceInv, KeysInv, RotatedKeyStaysOut
<1> QED BY <1>1, ServiceInvHolds, PTL

\* What is served fits the budget, while no ingests overlap and no session
\* starts over unbilled usage (D3).
THEOREM ServedValueFits == Spec => []ServedFitsTheBudget
<1>1. ServiceInv => ServedFitsTheBudget
  BY DEF ServiceInv, BudgetInv, Promise, ServedFitsTheBudget
<1> QED BY <1>1, ServiceInvHolds, PTL
============================================================================
