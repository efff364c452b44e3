-------------------------------- MODULE X402 --------------------------------
(***************************************************************************)
(* The `exact' scheme of x402 (sdk/src/x402.ts): a buyer signs a transfer  *)
(* of a coin, the facilitator simulates the bytes, broadcasts them and     *)
(* confirms what has landed.  Settles of the same bytes overlap, answers   *)
(* are lost, the buyer spends the coin elsewhere or sends the bytes too.   *)
(*                                                                         *)
(* createExactPayment's bytes pay the merchant exactly; a third party's    *)
(* may be a program whose effect is only known when it runs.  The chain    *)
(* executes bytes once (the version of the coin is part of them), answers  *)
(* the same effects to the same bytes, and fails to simulate spent inputs. *)
(***************************************************************************)
EXTENDS FiniteSets

CONSTANTS
    Payments,     \* signed bytes
    Coins,        \* the buyer's coins of the asset
    Settles       \* calls of settle

VARIABLES
    payment,      \* the coin and the maker of the bytes, once signed
    whole,        \* the coins not spent
    landed,       \* what the bytes did on the chain, by payment
    late,         \* bytes submitted without an answer, which may land yet
    settle        \* the calls: at, payment, again

x402 == <<payment, whole, landed, late, settle>>

NotSigned == [coin |-> "none", maker |-> "none"]
NotLanded == "not landed"
Idle == [at |-> "idle", payment |-> "none", again |-> FALSE]

X402Init ==
    /\ payment = [p \in Payments |-> NotSigned]
    /\ whole = Coins
    /\ landed = [p \in Payments |-> NotLanded]
    /\ late = {}
    /\ settle = [t \in Settles |-> Idle]

-----------------------------------------------------------------------------
(* The buyer and the chain.                                                *)

\* Coins are selected when the transfer is built: two payments built one after
\* the other may select the same one.
createExactPayment(p) ==
    /\ payment[p] = NotSigned
    /\ \E coin \in whole, maker \in {"helper", "third party"} :
        payment' = [payment EXCEPT ![p] = [coin |-> coin, maker |-> maker]]
    /\ UNCHANGED <<whole, landed, late, settle>>

\* The merchant's net change, as simulated or as landed.
Credits(p) == IF payment[p].maker = "helper" THEN {"exact"} ELSE {"exact", "inexact", "none"}
Executable(p) == landed[p] = NotLanded /\ payment[p].coin \in whole

Land(p, effect) ==
    /\ Executable(p)
    /\ landed' = [landed EXCEPT ![p] = effect]
    /\ whole' = whole \ {payment[p].coin}
    /\ late' = late \ {p}

\* The buyer sends the bytes, or those of a broken connection land after all.
\* An aborted program uses its inputs up too.
BytesLand(p) ==
    /\ payment[p] # NotSigned
    /\ \E effect \in Credits(p) \cup {"aborted"} : Land(p, effect)
    /\ UNCHANGED <<payment, settle>>

SpendElsewhere ==
    /\ \E coin \in whole : whole' = whole \ {coin}
    /\ UNCHANGED <<payment, landed, late, settle>>

-----------------------------------------------------------------------------
(* ExactFacilitator.settle.                                                *)

Final(t) == settle[t].at = "final"
At(t, at) == settle' = [settle EXCEPT ![t].at = at]

Ask(t, p) ==
    /\ settle[t].at = "idle" /\ payment[p] # NotSigned
    /\ settle' = [settle EXCEPT ![t] = [at |-> "verify", payment |-> p,
                     again |-> \E u \in Settles : Final(u) /\ settle[u].payment = p]]
    /\ UNCHANGED <<payment, whole, landed, late>>

merchantCredit(credit) == credit = "exact"

verify(t) ==
    /\ settle[t].at = "verify"
    /\ LET p == settle[t].payment IN
        \/ At(t, "refused")       \* simulation_error
        \/ ~Executable(p) /\ At(t, "refused")
        \/ /\ Executable(p)
           /\ \E credit \in Credits(p) : At(t, IF merchantCredit(credit) THEN "execute" ELSE "refused")
    /\ UNCHANGED <<payment, whole, landed, late>>

Confirmed_StatusOnly(effect) == IF effect = "aborted" THEN "failed" ELSE "final"
Confirmed(effect) == CASE effect = "aborted"     -> "failed"
                       [] merchantCredit(effect) -> "final"
                       [] OTHER                  -> "not exact"

\* executeTransaction: the bytes land, have landed before, or are refused; an
\* error answers neither whether they have landed nor whether they will.
execute(t) ==
    /\ settle[t].at = "execute"
    /\ LET p == settle[t].payment IN
        \/ \E effect \in Credits(p) \cup {"aborted"} :
            Land(p, effect) /\ (At(t, Confirmed(effect)) \/ At(t, "error"))
        \/ /\ landed[p] # NotLanded /\ At(t, Confirmed(landed[p]))
           /\ UNCHANGED <<whole, landed, late>>
        \/ /\ landed[p] = NotLanded /\ ~Executable(p) /\ At(t, "failed")
           /\ UNCHANGED <<whole, landed, late>>
        \/ At(t, "error") /\ late' = late \cup {p} /\ UNCHANGED <<whole, landed>>
    /\ UNCHANGED payment

X402Next ==
    \/ \E p \in Payments : createExactPayment(p) \/ BytesLand(p)
    \/ SpendElsewhere
    \/ \E t \in Settles : verify(t) \/ execute(t) \/ \E p \in Payments : Ask(t, p)

X402Spec == X402Init /\ [][X402Next]_x402

-----------------------------------------------------------------------------
(* Properties.                                                             *)

\* x402.ts 349-356: `final' is what the chain says.  A success means the bytes
\* have paid exactly, whatever the simulation promised, and no two payments
\* answered with it spent the same coin; `failed' and `not exact' mean that the
\* bytes have not paid and never will; and a settle asked after a success for
\* the same bytes is no second success.
FinalMeansPaid ==
    \A t \in Settles :
        LET p == settle[t].payment IN
        /\ Final(t) => /\ landed[p] = "exact" /\ ~settle[t].again
                       /\ \A u \in Settles : Final(u) /\ settle[u].payment # p
                              => payment[settle[u].payment].coin # payment[p].coin
        /\ settle[t].at \in {"failed", "not exact"} => landed[p] # "exact" /\ ~Executable(p)
=============================================================================
