--------------------------- MODULE UsageBilling ---------------------------
(***************************************************************************)
(* What metered billing promises (G1: bill each record at most once, even  *)
(* across lost acks and crashes).  A usage record is accepted once; a      *)
(* charge covers accepted records that no charge covered before, within    *)
(* the budget the subscriber signed; and a record is booked as billed only *)
(* after a charge covered it.                                              *)
(***************************************************************************)
EXTENDS Integers, FiniteSets, FiniteSetsExt

CONSTANTS
    Usage,          \* usage records
    AmountOf,       \* the frozen price of each record
    Budget          \* total_budget of the mandate

Sum(ids) == MapThenSumSet(LAMBDA u : AmountOf[u], ids)

VARIABLES
    accepted,       \* records taken in
    charged,        \* records some charge covered
    booked,         \* records the books call billed
    paid            \* what the merchant has received

vars == <<accepted, charged, booked, paid>>

Init ==
    /\ accepted = {}
    /\ charged = {}
    /\ booked = {}
    /\ paid = 0

Accept(u) ==
    /\ accepted' = accepted \cup {u}
    /\ UNCHANGED <<charged, booked, paid>>

Charge(ids) ==
    /\ ids # {}
    /\ ids \subseteq accepted \ charged
    /\ paid + Sum(ids) <= Budget
    /\ charged' = charged \cup ids
    /\ paid' = paid + Sum(ids)
    /\ UNCHANGED <<accepted, booked>>

Book(ids) ==
    /\ ids \subseteq charged
    /\ booked' = booked \cup ids
    /\ UNCHANGED <<accepted, charged, paid>>

Next ==
    \/ \E u \in Usage : Accept(u)
    \/ \E ids \in SUBSET Usage : Charge(ids) \/ Book(ids)

Spec == Init /\ [][Next]_vars
=============================================================================
