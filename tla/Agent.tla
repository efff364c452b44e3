------------------------------- MODULE Agent -------------------------------
(***************************************************************************)
(* Who signs a mandate, and what is known of it afterwards: IsubAgent      *)
(* (sdk/src/agent.ts), whose tools (mcp.ts) a model calls at any time and  *)
(* at once, and a person at a trusted display (consent.ts).  Both sign     *)
(* through IsubClient (client.ts), with accounts of their own.             *)
(*                                                                         *)
(* Terms are what authorize compares: price stands for the rate and its    *)
(* period, keeper is compared for metered plans only.  An answer may be    *)
(* lost: the transaction has landed, lands later or never does.            *)
(***************************************************************************)
EXTENDS Integers, Sequences, FiniteSets

CONSTANTS
    Plans,            \* plan ids
    AllowedPlans,     \* those of policy.allowed
    Terms,            \* what a plan may ask: [mode, price, keeper]
    Budgets,          \* what a model or a person asks for
    maxTotalBudget,   \* of every allowed service
    maxPerCharge,     \* of every allowed service, or Unset
    Tools, People,    \* calls of a tool, persons
    MaxSigned,        \* bound: mandates
    MaxUnanswered     \* bound: lost answers

ASSUME AgentAssumption ==
    /\ AllowedPlans \subseteq Plans /\ Tools \cap People = {}
    /\ Terms \subseteq [mode : {"fixed", "payg"}, price : Nat \ {0}, keeper : {t.keeper : t \in Terms}]
    /\ Budgets \cup {maxTotalBudget} \subseteq Nat \ {0}

VARIABLES
    policy,      \* what the human approved: terms per allowed plan, allowOpen
    plans,       \* the chain's plans: terms, state
    signed,      \* the chain's mandates, by id
    unanswered,  \* transactions whose answer was lost and which may land
    call,        \* what a tool call or a person is doing
    watched,     \* of the agent: ids
    known        \* history: ids the agent was given since it started

agent == <<policy, plans, signed, unanswered, call, watched, known>>

Prices == {t.price : t \in Terms}
Unset == 0
Nobody == "not bound"
NoCall == [at |-> "idle"]

AgentInit ==
    /\ policy \in [allowed : [AllowedPlans -> Terms], allowOpen : BOOLEAN]
    /\ plans \in [Plans -> [terms : Terms, state : {"on sale"}]]
    /\ signed = <<>> /\ unanswered = {}
    /\ call = [c \in Tools \cup People |-> NoCall]
    /\ watched = {} /\ known = {}

-----------------------------------------------------------------------------
(* The chain.                                                              *)

Echo(terms) == IF terms.mode = "payg" THEN terms ELSE [terms EXCEPT !.keeper = Nobody]

Throttle(max, terms) == IF max = Unset THEN terms.price ELSE max
\* The plan, not the signer, sets the ceiling of a FIXED charge.
Ceiling(terms, max) == IF terms.mode = "fixed" THEN terms.price ELSE Throttle(max, terms)

Accepts(tx) ==
    IF tx.kind = "revoke" THEN signed[tx.id].state # "closed"
    ELSE /\ plans[tx.plan].state = "on sale"
         /\ Echo(plans[tx.plan].terms) = Echo(tx.expected)

SignMandate(tx) ==
    LET terms == plans[tx.plan].terms
    IN  /\ Len(signed) < MaxSigned
        /\ signed' = Append(signed,
              [by |-> tx.by, plan |-> tx.plan, terms |-> terms, budget |-> tx.budget,
               max |-> Ceiling(terms, tx.max),
               state |-> "active", message |-> tx.message])

\* revoke does not ask for the status.
Revoke(id) == signed' = [signed EXCEPT ![id].state = "revoked"]

Executes(tx) ==
    Accepts(tx) /\ IF tx.kind = "authorize" THEN SignMandate(tx) ELSE Revoke(tx.id)

\* The merchant, and the account's owner with a wallet.
MerchantActs ==
    /\ \E p \in Plans : \E s \in {"off sale", "closed"} \ {plans[p].state} :
          plans[p].state # "closed" /\ plans' = [plans EXCEPT ![p].state = s]
    /\ UNCHANGED <<policy, signed, unanswered, call, watched, known>>

\* A status call does not owe what was paused while it read.
OwnerActs ==
    /\ \E id \in DOMAIN signed : \E step \in {<<"active", "paused">>, <<"paused", "active">>,
          <<"active", "revoked">>, <<"paused", "revoked">>, <<"revoked", "closed">>} :
          /\ signed[id].state = step[1]
          /\ signed' = [signed EXCEPT ![id].state = step[2]]
          /\ call' = [c \in DOMAIN call |->
                IF call[c].at \in {"reading", "reported"}
                THEN [call[c] EXCEPT !.must = @ \ {id}] ELSE call[c]]
    /\ UNCHANGED <<policy, plans, unanswered, watched, known>>

\* A transaction without an answer lands after all.
LandsUnanswered ==
    /\ \E tx \in unanswered : Executes(tx) /\ unanswered' = unanswered \ {tx}
    /\ UNCHANGED <<policy, plans, call, watched, known>>

-----------------------------------------------------------------------------
(* The agent: subscribe, unsubscribe, budgetStatus.                        *)

Goes(c, to) == call' = [call EXCEPT ![c] = to]
NothingSigned == UNCHANGED <<policy, plans, signed, unanswered>>
Free(c) == call[c] = NoCall

AuthorizeTx(by, p, terms, budget, max, message) ==
    [kind |-> "authorize", by |-> by, plan |-> p, expected |-> terms,
     budget |-> budget, max |-> max, message |-> message]
Signing(tx) == [at |-> "sign", tx |-> tx]
ByAgent(p, terms, budget, max) ==
    Signing(AuthorizeTx("agent", p, terms, budget, Throttle(max, terms), Nobody))

\* What it refuses leaves no trace.
subscribe(c) ==
    /\ Free(c)
    /\ \E p \in Plans : \E budget \in Budgets :
        \/ /\ p \in AllowedPlans /\ budget <= maxTotalBudget
           /\ Goes(c, ByAgent(p, policy.allowed[p], budget, maxPerCharge))
        \/ /\ p \notin AllowedPlans /\ policy.allowOpen
           /\ Goes(c, [at |-> "resolve", plan |-> p, budget |-> budget])
    /\ NothingSigned /\ UNCHANGED <<watched, known>>

\* A plan that is off sale can be read; one that was closed throws.
resolveOpen(c) ==
    /\ call[c].at = "resolve"
    /\ LET p == call[c].plan
       IN  Goes(c, IF plans[p].state = "closed" THEN NoCall
                   ELSE ByAgent(p, plans[p].terms, call[c].budget, Unset))
    /\ NothingSigned /\ UNCHANGED <<watched, known>>

\* A plausible slip: the id is forgotten before the chain has answered.
unsubscribe_ForgetFirst(c) ==
    /\ Free(c)
    /\ \E id \in DOMAIN signed :
          /\ signed[id].by = "agent" /\ Goes(c, Signing([kind |-> "revoke", id |-> id]))
          /\ watched' = watched \ {id}
    /\ NothingSigned /\ UNCHANGED known

\* The model passes any id, also one from before a restart.
unsubscribe(c) ==
    /\ Free(c)
    /\ \E id \in DOMAIN signed :
          signed[id].by = "agent" /\ Goes(c, Signing([kind |-> "revoke", id |-> id]))
    /\ NothingSigned /\ UNCHANGED <<watched, known>>

\* The ids are taken at once, then each mandate is read on its own.
budgetStatus(c) ==
    /\ Free(c)
    /\ Goes(c, [at |-> "reading", ids |-> watched, listed |-> {},
                must |-> {id \in known : signed[id].state = "active"}])
    /\ NothingSigned /\ UNCHANGED <<watched, known>>

\* All or throw: one mandate that is gone fails the status.
getMandate(c) ==
    /\ call[c].at = "reading"
    /\ \E id \in call[c].ids :
          Goes(c, IF signed[id].state = "closed" THEN NoCall
                  ELSE [call[c] EXCEPT !.ids = @ \ {id},
                           !.listed = IF signed[id].state = "active" THEN @ \cup {id} ELSE @])
    /\ NothingSigned /\ UNCHANGED <<watched, known>>

Report(c) ==
    /\ call[c].at = "reading" /\ call[c].ids = {}
    /\ Goes(c, [at |-> "reported", listed |-> call[c].listed, must |-> call[c].must])
    /\ NothingSigned /\ UNCHANGED <<watched, known>>

Done(c) ==
    /\ call[c].at = "reported" /\ Goes(c, NoCall)
    /\ NothingSigned /\ UNCHANGED <<watched, known>>

-----------------------------------------------------------------------------
(* A person: the quote, the consent, the signature.                        *)

quoteFromPlan(c, p) ==
    /\ Free(c) /\ plans[p].state # "closed"
    /\ Goes(c, [at |-> "quoted", plan |-> p, quote |-> plans[p]])
    /\ NothingSigned /\ UNCHANGED <<watched, known>>

\* What the person signs, as much of it as can differ.
consentMessage(p, quote, budget, max) ==
    [plan |-> p, echo |-> Echo(quote.terms), budget |-> budget, max |-> Ceiling(quote.terms, max)]

\* It refuses a plan that was off sale in the quote, however old that is.
buildConsent(c) ==
    /\ call[c].at = "quoted"
    /\ LET p == call[c].plan
           quote == call[c].quote
       IN  \/ /\ quote.state = "on sale"
              /\ \E budget \in Budgets : \E max \in Prices \cup {Unset} :
                    Goes(c, Signing(AuthorizeTx("person", p, quote.terms, budget, Throttle(max, quote.terms),
                                                consentMessage(p, quote, budget, max))))
           \/ quote.state # "on sale" /\ Goes(c, NoCall)
    /\ NothingSigned /\ UNCHANGED <<watched, known>>

-----------------------------------------------------------------------------
(* IsubClient.exec, and what the callers do with its answer.               *)

exec(c) ==
    /\ call[c].at = "sign"
    /\ LET tx == call[c].tx
       IN  /\ Executes(tx)
           /\ Goes(c, [at |-> "answer", kind |-> tx.kind,
                       id |-> IF tx.kind = "authorize" THEN Len(signed) + 1 ELSE tx.id])
    /\ UNCHANGED <<policy, plans, unanswered, watched, known>>

\* An abort: the caller is told, and nothing was signed.
ExecAborts(c) ==
    /\ call[c].at = "sign"
    /\ ~Accepts(call[c].tx)
    /\ Goes(c, NoCall)
    /\ NothingSigned /\ UNCHANGED <<watched, known>>

ExecLost(c) ==
    /\ call[c].at = "sign" /\ Cardinality(unanswered) < MaxUnanswered
    /\ unanswered' = unanswered \cup {call[c].tx}
    /\ Goes(c, NoCall)
    /\ UNCHANGED <<policy, plans, signed, watched, known>>

\* The id is in an event of the answer; only an answer changes watched.
Answer(c) ==
    /\ call[c].at = "answer"
    /\ LET id == call[c].id
           mine == c \in Tools
       IN  /\ watched' = IF ~mine THEN watched
                         ELSE IF call[c].kind = "authorize" THEN watched \cup {id} ELSE watched \ {id}
           /\ known' = IF mine /\ call[c].kind = "authorize" THEN known \cup {id} ELSE known
    /\ Goes(c, NoCall)
    /\ NothingSigned

\* The agent's process ends: watched is memory, transactions in flight are not.
RestartAgent ==
    /\ watched' = {} /\ known' = {}
    /\ LET inFlight == {call[c].tx : c \in {d \in Tools : call[d].at = "sign"}}
       IN  /\ Cardinality(unanswered \cup inFlight) <= MaxUnanswered
           /\ unanswered' = unanswered \cup inFlight
    /\ call' = [c \in DOMAIN call |-> IF c \in Tools THEN NoCall ELSE call[c]]
    /\ UNCHANGED <<policy, plans, signed>>

AgentNext ==
    \/ \E c \in Tools :
        \/ subscribe(c) \/ resolveOpen(c) \/ unsubscribe(c)
        \/ budgetStatus(c) \/ getMandate(c) \/ Report(c) \/ Done(c)
    \/ \E c \in People : (\E p \in Plans : quoteFromPlan(c, p)) \/ buildConsent(c)
    \/ \E c \in Tools \cup People : exec(c) \/ ExecAborts(c) \/ ExecLost(c) \/ Answer(c)
    \/ MerchantActs \/ OwnerActs \/ LandsUnanswered \/ RestartAgent

AgentSpec == AgentInit /\ [][AgentNext]_agent
-----------------------------------------------------------------------------
(* Properties.                                                             *)

\* What the human approved, or the message the person signed, is what the
\* mandate has: no plan, however it is named and whatever became of it since,
\* brings other terms, another ceiling or a larger budget.
ReviewedTermsBind ==
    \A id \in DOMAIN signed :
        LET m == signed[id]
        IN  IF m.by = "person"
            THEN m.message = [plan |-> m.plan, echo |-> Echo(m.terms), budget |-> m.budget, max |-> m.max]
            ELSE IF m.plan \in AllowedPlans
            THEN /\ Echo(m.terms) = Echo(policy.allowed[m.plan])
                 /\ m.budget <= maxTotalBudget /\ m.max = Ceiling(m.terms, maxPerCharge)
            ELSE policy.allowOpen

\* A status that answers lists every mandate whose id the agent was given
\* since it started and which was in force all the while.
StatusIsComplete ==
    \A c \in Tools : call[c].at = "reported" =>
        {id \in call[c].must : signed[id].state = "active"} \subseteq call[c].listed

\* agent.ts 4-10 and 182: the agent spends within its policy and can tell
\* what it may still spend, with calls that overlap, answers that are lost,
\* cancellations that fail, and an owner and merchants who act in between.
AgentKeepsToItsPolicy == ReviewedTermsBind /\ StatusIsComplete
=============================================================================
