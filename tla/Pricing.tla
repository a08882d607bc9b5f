------------------------------- MODULE Pricing -------------------------------
(***************************************************************************)
(* The arithmetic of invoice.service.ts: what a promotion takes off and    *)
(* what remains to be paid.  Amounts are whole dong.  A promotion is       *)
(* [kind, value, cap, min, scope]; a cap of 0 is no cap.                   *)
(***************************************************************************)
EXTENDS Integers, FiniteSetsExt

Lesser(a, b) == IF a < b THEN a ELSE b
NotNegative(a) == IF a < 0 THEN 0 ELSE a

Capped(d, cap) == IF cap > 0 THEN Lesser(d, cap) ELSE d

\* calcDiscount: the cap holds for percentages only, the base for both kinds.
CalcDiscount(base, promo) ==
  Lesser(base, IF promo.kind = "PERCENT"
               THEN Capped((base * promo.value) \div 100, promo.cap)
               ELSE promo.value)

\* computeDiscount (automatic promotions): the cap holds for both kinds, the
\* base for neither.
ComputeDiscount(base, promo) ==
  Capped(IF promo.kind = "PERCENT" THEN (base * promo.value) \div 100 ELSE promo.value,
         promo.cap)

\* The base of a promotion on an invoice of `total' over lines worth `worth'.
\* (A CATEGORY or ITEM promotion is taken to match every line.)
BaseOf(promo, total, worth) == IF promo.scope = "ORDER" THEN total ELSE worth

Applies(base, promo) == base > 0 /\ (promo.min > 0 => base >= promo.min)

\* recomputeInvoiceTotals: lines worth `worth' at the prices they were ordered
\* at, `hidden' below the prices the menu lists now, `off' taken off by
\* promotions.
TotalsOf(worth, hidden, off) ==
  LET discount == Lesser(worth, off + hidden)
  IN [total |-> worth, discount |-> discount, final |-> NotNegative(worth - discount)]

\* addPayment: what an invoice asks for.
ToPay(totals) ==
  NotNegative(IF totals.final # 0 THEN totals.final ELSE totals.total - totals.discount)

=============================================================================
