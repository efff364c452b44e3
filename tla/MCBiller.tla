----------------------------- MODULE MCBiller -----------------------------
(***************************************************************************)
(* Small instances of Biller.  Two records with different prices and a     *)
(* rate cap below their sum: batches shrink and grow, and a charge takes   *)
(* some of the records or all.                                             *)
(***************************************************************************)
EXTENDS Biller

Prices == <<1, 2>>
Penny == <<1>>

\* Whatever happens after the outage may happen during it: a run that looks
\* for safety need not go beyond its end.
InOutage == outage
=============================================================================
