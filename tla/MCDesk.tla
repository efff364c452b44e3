------------------------------- MODULE MCDesk -------------------------------
(***************************************************************************)
(* Six components that share no state, checked in one run: which of them  *)
(* moves is chosen at the start.                                           *)
(***************************************************************************)
EXTENDS TLC, Records, Probes, X402, Webhook, Agent, Dashboard

VARIABLE part

Rate == [mode |-> "payg", price |-> 1, keeper |-> "k1"]
SomeTerms == {Rate, [mode |-> "fixed", price |-> 2, keeper |-> "k2"]}

AllInit == RecordsInit /\ ProbesInit /\ X402Init /\ WebhookInit /\ AgentInit
           /\ DashboardInit
Init == /\ part \in {"records", "probes", "x402", "webhook", "agent", "web"}
        /\ AllInit
        /\ part # "probes" => trial = 0 /\ account = 0
        /\ \A p \in Plans : IF p \in AllowedPlans THEN policy.allowed[p] = Rate ELSE plans[p].terms = Rate
        /\ part # "agent" => ~policy.allowOpen /\ \A p \in Plans : plans[p].terms = Rate

Next ==
    \/ part = "records" /\ RecordsNext /\ UNCHANGED <<part, probes, x402, webhook, agent, dashboard>>
    \/ part = "probes" /\ ProbesNext /\ UNCHANGED <<part, records, x402, webhook, agent, dashboard>>
    \/ part = "x402" /\ X402Next /\ UNCHANGED <<part, records, probes, webhook, agent, dashboard>>
    \/ part = "webhook" /\ WebhookNext /\ UNCHANGED <<part, records, probes, x402, agent, dashboard>>
    \/ part = "agent" /\ AgentNext /\ UNCHANGED <<part, records, probes, x402, webhook, dashboard>>
    \/ part = "web" /\ DashboardNext /\ UNCHANGED <<part, records, probes, x402, webhook, agent>>

Spec == Init /\ [][Next]_<<part, records, probes, x402, webhook, agent, dashboard>>

\* With no mandate in force there is nothing to probe.
BoundedProbes == \E m \in All : InForce(m)

\* Few things of a person or of the agent at once, not of both (a person's
\* call counts twice), and of two calls of the agent one only asks for the
\* status.
BoundedAgent ==
    LET busyCalls == {c \in Tools \cup People : call[c] # NoCall}
        gone == {p \in Plans : plans[p].state # "on sale"}
    IN  /\ \/ busyCalls \subseteq Tools /\ \A id \in DOMAIN signed : signed[id].by = "agent"
           \/ busyCalls \subseteq People /\ \A id \in DOMAIN signed : signed[id].by = "person"
        /\ call["status"].at \in {"idle", "reading", "reported"}
        /\ Cardinality(busyCalls) + Cardinality(busyCalls \cap People)
              + Cardinality(gone) + Cardinality(unanswered) + Len(signed) <= 3

\* Of the load, the read and the user's action two at once, one id in the
\* lists; the second wallet has nothing and is there to be switched to.
BoundedDashboard ==
    LET run == IF busy.do \in {"nothing", "read"} THEN 0 ELSE 1
        moving == Cardinality(loads) + Cardinality(reads) + run
        hidden == UNION {storage[w].dismissed : w \in Wallets}
    IN  /\ moving <= 2 /\ moving + Len(mandates) + Cardinality(hidden) <= 4
        /\ Cardinality(hidden \cup storage["u"].mandates) <= 1 /\ storage["v"].mandates = {}
        /\ accounts \in {<<>>, <<"u">>} /\ \A id \in DOMAIN mandates : mandates[id].by = "u"

\* Charges and scans in every order, the histories of a charge run short.
BoundedRecords == settled = <<>> \/ (Len(history) <= 2 /\ scan.at = "idle")

Bounded == BoundedRecords /\ BoundedProbes /\ BoundedAgent /\ BoundedDashboard

\* The mandates of the records are alike.
Alike == Permutations(Mandates)
=============================================================================
