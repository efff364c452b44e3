------------------------------ MODULE Service ------------------------------
(***************************************************************************)
(* IsubService behind its doors (the gateway, listen, the x402 facilitator *)
(* and in-process callers), for one mandate of one merchant.               *)
(*                                                                         *)
(* A call finds or makes the mandate's session, proves that its agent may  *)
(* use the mandate, passes the budget gate, and is recorded under its      *)
(* usageId; one step per await, so calls overlap.  A call keeps the        *)
(* session object it found, although evict or a restart replaces it.  The  *)
(* store (sqlBillerStore) and the chain survive a crash.  The biller's     *)
(* attempts are single steps here; Biller.tla has them in detail.          *)
(*                                                                         *)
(* An agent key is the version of the certificate that names it.           *)
(***************************************************************************)
EXTENDS Pricing

CONSTANTS
    Calls,
    Scenarios,      \* what the calls ask: a set of functions on Calls
    Card,           \* the service's rate card
    CertUntil,      \* expiry of each certificate version; 0: never
    Budget, MaxPerCharge, MandateExpiry,    \* the mandate's terms
    Threshold,      \* flushThresholdAmount; 0: none
    MaxTime,        \* bound: the clock
    MaxBalance,     \* bound: the account's balance after a top-up
    MaxSessions,    \* bound: session objects made by evict and restart
    MaxFaults       \* bound: crashes and failing chain reads

Never == 0
NoVer == 0
NoSession == 0

Request ==
    [door : {"gateway", "listen", "x402", "merchant"}, sound : BOOLEAN,
     key : {"ok", "unknown", "unrouted"},
     price : {"flat", "metered", "no_card"}, amount : Int,
     items : Seq([key : STRING, qty : Int]),
     id : Nat, signer : Nat, until : Nat, cert : {NoVer} \cup DOMAIN CertUntil]

ASSUME ServiceAssumption ==
    /\ IsFiniteSet(Calls) /\ Scenarios \subseteq [Calls -> Request]
    /\ validRateCard(Card)
    /\ CertUntil \in Seq(Nat)
    /\ {Budget, MaxPerCharge, MandateExpiry, Threshold, MaxTime, MaxBalance,
        MaxSessions, MaxFaults} \subseteq Nat
    /\ MaxSessions > 0

VARIABLES
    req,        \* what each call asks
    call,       \* where it is, and its local variables
    sessions,   \* the session objects made so far
    current,    \* the one in the sessions map
    validating, \* the validation in flight
    usage,      \* store: recorded usage, id to amount (0: none)
    billed,     \* store: the ids marked billed
    maxVer,     \* store: agent_cert_vers
    chain,      \* the mandate and its account
    now,
    faults,
    gaps        \* history: ways the budget gate has been outrun

process == <<call, sessions, current, validating>>
store == <<usage, billed, maxVer>>
vars == <<req, process, store, chain, now, faults, gaps>>

Ids == {r[c].id : r \in Scenarios, c \in Calls}
NotReading == [at |-> "no", ok |-> FALSE, spent |-> 0]
Asked == [pc |-> "new", status |-> 0, s |-> NoSession, durable |-> NoVer, floor |-> NoVer]

TypeOK ==
    /\ req \in Scenarios
    /\ \A c \in Calls :
          /\ call[c].pc \in {"new", "session", "admit", "bind", "prove",
                             "record", "count", "done", "lost"}
          /\ call[c].status \in {0, 200, 400, 401, 402, 403, 404, 409, 500}
          /\ call[c].s \in 0..Len(sessions)
    /\ Len(sessions) <= MaxSessions /\ current \in 0..Len(sessions)
    /\ usage \in [Ids -> Nat] /\ billed \subseteq {u \in Ids : usage[u] > 0}
    /\ maxVer \in {NoVer} \cup DOMAIN CertUntil
    /\ chain.spent \in 0..Budget /\ chain.balance \in 0..MaxBalance
    /\ now \in 0..MaxTime /\ faults \in 0..MaxFaults

Init ==
    /\ req \in Scenarios
    /\ call = [c \in Calls |-> Asked]
    /\ sessions = <<>> /\ current = NoSession /\ validating = NotReading
    /\ usage = [u \in Ids |-> 0] /\ billed = {} /\ maxVer = NoVer
    /\ chain \in [ours : BOOLEAN, active : {TRUE}, spent : {0}, balance : {MaxBalance}]
    /\ now = 0 /\ faults = 0 /\ gaps = {}

Sum(ids) == SumFunctionOnSet(usage, ids)
unbilled == {u \in Ids : usage[u] > 0} \ billed
Fault == faults < MaxFaults /\ faults' = faults + 1
Others == UNCHANGED <<req, chain, now>>

-----------------------------------------------------------------------------
(* The doors.                                                              *)

\* What a door answers before it asks the service; 0: it asks.
gatewayRefusal(r) ==
    IF ~r.sound THEN 400 ELSE CASE r.key = "unknown" -> 401
                                [] r.key = "unrouted" -> 404 [] OTHER -> 0
listenRefusal(r) == IF ~r.sound THEN 400 ELSE 0
Refusal(r) == CASE r.door = "gateway" -> gatewayRefusal(r)
                [] r.door = "listen" -> listenRefusal(r) [] OTHER -> 0

\* The x402 route and the network door always enforce the proof.
authMode(r) == IF r.door = "merchant" THEN "off" ELSE "enforce"

\* What the gate counts.
Requests == {r[c] : r \in Scenarios, c \in Calls}
Priced == [r \in Requests |-> IF r.price = "flat" THEN r.amount
                              ELSE priceUsageMulti(Card, r.items)]
amountOf(c) == Priced[req[c]]

Go(c, pc) == call' = [call EXCEPT ![c].pc = pc]
Answer(c, status) == call' = [call EXCEPT ![c] = [Asked EXCEPT !.pc = "done", !.status = status]]
Locally == UNCHANGED <<sessions, current, validating, store, faults, gaps>> /\ Others

\* The session of the map, or the validation in flight, or a new validation.
session(c) ==
    IF current # NoSession
       THEN /\ call' = [call EXCEPT ![c].pc = "admit", ![c].s = current, ![c].floor = maxVer]
            /\ validating' = validating
       ELSE /\ call' = [call EXCEPT ![c].pc = "session", ![c].floor = maxVer]
            /\ validating' = IF validating = NotReading
                                THEN [NotReading EXCEPT !.at = "reading"] ELSE validating

Enter(c, refusal) ==
    LET door == Refusal(req[c])
        status == IF door # 0 THEN door ELSE refusal
    IN  /\ IF status # 0 THEN Answer(c, status) /\ validating' = validating ELSE session(c)
        /\ UNCHANGED <<sessions, current, store, faults, gaps>> /\ Others

use(c) ==
    /\ call[c].pc = "new" /\ req[c].price = "flat"
    /\ Enter(c, IF req[c].amount <= 0 THEN 400 ELSE 0)

\* The rate card prices the items; Unpriced and a price of nothing are refused.
useMetered(c) ==
    /\ call[c].pc = "new" /\ req[c].price # "flat"
    /\ Enter(c, CASE req[c].price = "no_card" -> 500
                  [] amountOf(c) <= 0 -> 400
                  [] OTHER -> 0)

-----------------------------------------------------------------------------
(* First sight of the mandate: the chain is read, then the session is set. *)

ReadChain ==
    /\ validating.at = "reading"
    /\ \/ /\ validating' = [at |-> "read", spent |-> chain.spent,
                            ok |-> chain.ours /\ chain.active /\ now < MandateExpiry]
          /\ faults' = faults
       \/ validating' = [NotReading EXCEPT !.at = "read"] /\ Fault
    /\ gaps' = IF Sum(unbilled) > 0 THEN gaps \cup {"forgot"} ELSE gaps
    /\ UNCHANGED <<call, sessions, current, store>> /\ Others

remainingBudget_Signed == IF validating.ok THEN Budget ELSE 0
remainingBudget == IF validating.ok THEN Max({0, Budget - validating.spent}) ELSE 0

\* Everyone who waits for the validation gets its session.
Woken_First(s) == \E c \in Calls : call[c].pc = "session"
                    /\ call' = [call EXCEPT ![c].pc = "admit", ![c].s = s]
Woken(s) == call' = [c \in Calls |-> IF call[c].pc # "session" THEN call[c]
                                     ELSE [call[c] EXCEPT !.pc = "admit", !.s = s]]
\* A failed read leaves a session too, one that never serves.
SetSession ==
    /\ validating.at = "read"
    /\ sessions' = Append(sessions,
         [serviceable |-> validating.ok, pending |-> 0, remaining |-> remainingBudget,
          foreign |-> ~chain.ours, agent |-> NoVer, until |-> Never])
    /\ current' = Len(sessions')
    /\ Woken(Len(sessions'))
    /\ validating' = NotReading
    /\ gaps' = IF \/ Sum(unbilled) > 0 \/ chain.spent # validating.spent
                  \/ \E c \in Calls : call[c].s # NoSession
                  THEN gaps \cup {"forgot"} ELSE gaps
    /\ UNCHANGED <<store, faults>> /\ Others

-----------------------------------------------------------------------------
(* The proof of possession.                                                *)

S(c) == sessions[call[c].s]
Expired(until) == until # Never /\ now >= until
verifyBinding(v) == ~Expired(CertUntil[v])
getMaxCertVer == maxVer

Admit(c) ==
    /\ call[c].pc = "admit"
    /\ IF ~S(c).serviceable THEN Answer(c, IF S(c).foreign THEN 403 ELSE 402)
       ELSE IF authMode(req[c]) = "off" THEN Go(c, "record")
       ELSE IF req[c].signer = NoVer THEN Answer(c, 403)
       ELSE IF req[c].cert = NoVer THEN Go(c, "prove")
       ELSE IF ~verifyBinding(req[c].cert) THEN Answer(c, 403)
       ELSE call' = [call EXCEPT ![c].pc = "bind", ![c].durable = getMaxCertVer]
    /\ Locally

certFloor_SessionOnly(c) == S(c).agent
\* The floor is the higher of what the store said and what the session knows;
\* the later of two expiries is kept.
certFloor(c) == Max({call[c].durable, S(c).agent})
Later(a, b) == IF a = Never \/ b = Never THEN Never ELSE Max({a, b})
recordCertVer(v) == maxVer' = Max({maxVer, v})

Bind(c) ==
    /\ call[c].pc = "bind"
    /\ LET v == req[c].cert IN
       IF v < certFloor(c) THEN Answer(c, 403) /\ Locally
       ELSE /\ Go(c, "prove")
            /\ sessions' = [sessions EXCEPT ![call[c].s].agent = v,
                              ![call[c].s].until = IF S(c).agent = NoVer THEN CertUntil[v]
                                                   ELSE Later(@, CertUntil[v])]
            /\ IF v > call[c].durable THEN recordCertVer(v) ELSE maxVer' = maxVer
            /\ UNCHANGED <<current, validating, usage, billed, faults, gaps>> /\ Others

verifyCallProof(c) == now < req[c].until /\ req[c].signer = S(c).agent
Prove(c) ==
    /\ call[c].pc = "prove"
    /\ IF S(c).agent # NoVer /\ ~Expired(S(c).until) /\ verifyCallProof(c)
          THEN Go(c, "record") ELSE Answer(c, 403)
    /\ Locally

-----------------------------------------------------------------------------
(* The budget gate and the ingest are one step; the estimate follows it.   *)

Duplicate(id) == usage[id] # 0
recordUsage(id, amount) == usage' = [usage EXCEPT ![id] = amount]
recordMeteredUsage(r) == recordUsage(r.id, Priced[r])

Record_IngestFirst(c) ==
    /\ call[c].pc = "record"
    /\ IF Duplicate(req[c].id) THEN Answer(c, 409) /\ usage' = usage
       ELSE /\ recordUsage(req[c].id, amountOf(c))
            /\ IF S(c).remaining < amountOf(c) THEN Answer(c, 402) ELSE Go(c, "count")
    /\ UNCHANGED <<sessions, current, validating, billed, maxVer, faults, gaps>> /\ Others
Record(c) ==
    /\ call[c].pc = "record"
    /\ LET r == req[c] IN
       IF S(c).remaining < amountOf(c) THEN Answer(c, 402) /\ Locally
       ELSE IF Duplicate(r.id) THEN Answer(c, 409) /\ Locally
       ELSE /\ IF r.price = "metered" THEN recordMeteredUsage(r)
                                      ELSE recordUsage(r.id, r.amount)
            /\ Go(c, "count")
            /\ gaps' = IF \E d \in Calls : call[d].pc = "count"
                          THEN gaps \cup {"overlap"} ELSE gaps
            /\ UNCHANGED <<sessions, current, validating, billed, maxVer, faults>> /\ Others

\* An early flush is only a wish; the biller settles when it gets to it.
Count(c) ==
    /\ call[c].pc = "count"
    /\ LET pending == S(c).pending + amountOf(c) IN
       sessions' = [sessions EXCEPT ![call[c].s].remaining = @ - amountOf(c),
                      ![call[c].s].pending =
                          IF Threshold > 0 /\ pending >= Threshold THEN 0 ELSE pending]
    /\ Answer(c, 200)
    /\ UNCHANGED <<current, validating, store, faults, gaps>> /\ Others

-----------------------------------------------------------------------------
(* The biller, an attempt at a time, and the events the service hears.     *)

applyEvent_NoCarry(e) ==
    sessions' = IF current # NoSession /\ e \in {"budget.exhausted", "mandate.expired"}
                THEN [sessions EXCEPT ![current].serviceable = FALSE] ELSE sessions
applyEvent(e) ==
    sessions' = IF current # NoSession
                   /\ e \in {"budget.exhausted", "mandate.expired", "insufficient_balance",
                             "budget_exhausted", "not_billable"}
                THEN [sessions EXCEPT ![current].serviceable = FALSE] ELSE sessions

spendableNow == Min({Budget - chain.spent, MaxPerCharge, chain.balance})

\* Whole records, oldest first, as long as they fit.
Batch == LET fits == {n \in unbilled : Sum({u \in unbilled : u <= n}) <= spendableNow}
         IN  IF fits = {} THEN {} ELSE {u \in unbilled : u <= Max(fits)}

carryReason == IF chain.spent >= Budget THEN "budget_exhausted"
               ELSE IF chain.balance < usage[Min(unbilled)] THEN "insufficient_balance"
               ELSE IF usage[Min(unbilled)] > MaxPerCharge THEN "per_charge_too_small"
               ELSE "rate_limited"

Settle ==
    /\ unbilled # {}
    /\ IF now >= MandateExpiry \/ ~chain.active \/ Batch = {}
          THEN /\ applyEvent(IF now >= MandateExpiry THEN "mandate.expired"
                             ELSE IF ~chain.active THEN "not_billable" ELSE carryReason)
               /\ UNCHANGED <<billed, chain>>
          ELSE /\ chain' = [chain EXCEPT !.spent = @ + Sum(Batch), !.balance = @ - Sum(Batch)]
               /\ billed' = billed \cup Batch
               /\ UNCHANGED sessions
    /\ UNCHANGED <<req, call, current, validating, usage, maxVer, now, faults, gaps>>

-----------------------------------------------------------------------------
(* The merchant, the subscriber, time and crashes.                         *)

evict ==
    /\ current # NoSession /\ Len(sessions) < MaxSessions
    /\ current' = NoSession
    /\ UNCHANGED <<call, sessions, validating, store, faults, gaps>> /\ Others

Restart ==
    /\ Len(sessions) < MaxSessions /\ Fault
    /\ current' = NoSession /\ validating' = NotReading
    /\ call' = [c \in Calls |-> IF call[c].pc \in {"new", "done"} THEN call[c]
                                ELSE [Asked EXCEPT !.pc = "lost"]]
    /\ UNCHANGED <<sessions, store, gaps>> /\ Others

Subscriber ==
    /\ \/ chain.active /\ chain' = [chain EXCEPT !.active = FALSE]
       \/ chain.balance < MaxBalance /\ chain' = [chain EXCEPT !.balance = MaxBalance]
       \/ chain.balance > 0 /\ chain' = [chain EXCEPT !.balance = 0]
    /\ UNCHANGED <<req, process, store, now, faults, gaps>>

Elapse ==
    /\ now < MaxTime /\ now' = now + 1
    /\ UNCHANGED <<req, process, store, chain, faults, gaps>>

CallStep(c) ==
    Admit(c) \/ Bind(c) \/ Prove(c) \/ Record(c) \/ Count(c)

Next ==
    \/ \E c \in Calls : use(c) \/ useMetered(c) \/ CallStep(c)
    \/ ReadChain \/ SetSession \/ Settle \/ evict \/ Restart \/ Subscriber \/ Elapse

Spec == Init /\ [][Next]_vars

\* Awaits end, and the poll loop comes to every mandate with unbilled usage.
FairSpec ==
    /\ Spec
    /\ \A c \in Calls : WF_vars(CallStep(c))
    /\ WF_vars(ReadChain) /\ WF_vars(SetSession) /\ WF_vars(Settle)

-----------------------------------------------------------------------------
(* Properties.                                                             *)

Status(c, codes) == call[c].pc = "done" /\ call[c].status \in codes

\* A usageId is served at most once (F1), whatever calls carry it, at the same
\* time, after an evict or after a restart.  What was served is on the
\* subscriber's bill at the price of its card, each line rounded as its meter
\* says; a call refused for another reason than a replay put nothing there.
ServedOnce ==
    \A c, d \in Calls : c # d /\ req[c].id = req[d].id => ~(Status(c, {200}) /\ Status(d, {200}))

PricesAreFair ==
    \A r \in Requests : r.price = "metered" /\ Priced[r] # Unpriced =>
        \E lines \in [DOMAIN r.items -> 0..Priced[r]] :
            /\ Priced[r] = SumFunction(lines)
            /\ \A i \in DOMAIN lines : FairLine(Card, r.items[i], lines[i])

AnswersMatchTheBooks ==
    /\ TypeOK /\ ServedOnce /\ PricesAreFair
    /\ \A c \in Calls :
        /\ Status(c, {200}) => usage[req[c].id] = amountOf(c)
        /\ Status(c, {400, 401, 402, 403, 404}) /\ usage[req[c].id] > 0
              => \E d \in Calls : req[d].id = req[c].id /\ call[d].pc # "new"
                                  /\ ~Status(d, {400, 401, 402, 403, 404})

\* The certificate of a served call is at least as new as any the store knew
\* when the call came in: a rotated-out key stays out after a restart (F5).
RotatedKeyStaysOut ==
    \A c \in Calls : call[c].pc = "count" /\ req[c].cert # NoVer /\ authMode(req[c]) = "enforce"
                      => req[c].cert >= call[c].floor

\* Served value can be billed: it stays within the budget, as long as no two
\* ingests overlap and no session starts while usage is unbilled (D3).
ServedFitsTheBudget == gaps = {} => chain.spent + Sum(unbilled) <= Budget

\* The process answers every call it has taken, also those that wait for
\* somebody else's validation.
CallsAreAnswered ==
    \A c \in Calls : call[c].pc \notin {"new", "done", "lost"} ~> call[c].pc \in {"done", "lost"}

\* Usage that passed the gate is settled, or the session stops serving (D2,
\* D3: "don't serve value you can't bill").
UnpaidStopsService ==
    (gaps = {} /\ unbilled # {} /\ current # NoSession)
        ~> \/ gaps # {} \/ unbilled = {}
           \/ current = NoSession \/ ~sessions[current].serviceable
=============================================================================
