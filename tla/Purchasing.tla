----------------------------- MODULE Purchasing -----------------------------
(***************************************************************************)
(* Purchase receipts: purchasereceipt.service.ts.  A receipt is drafted,   *)
(* edited, posted (the goods enter the stock, what is paid now is          *)
(* vouchered), and its debt is paid off in parts.                          *)
(***************************************************************************)
EXTENDS Stockroom

CONSTANT Bills   \* what a receipt may list: [supplier, day, lines, disc, ship]

ReceiptLine ==
  [item : Items, qty : Nat \ {0}, factor : Nat \ {0}, price : Nat, disc : DiscountTerms]

ASSUME BillsAssumption ==
  \A b \in Bills :
    b.ship \in Nat /\ b.day \in Nat /\ b.disc \in DiscountTerms /\ b.lines \in Seq(ReceiptLine)

VARIABLE receipts

ReceiptStatus == {"DRAFT", "PAID", "OWING", "CANCELLED"}

Receipt == [status : ReceiptStatus, bill : Bills, paid : Nat, debt : Nat]

ASSUME ReceiptAssumption == NoDoc \notin Receipt

LineTotal(l) == NotNegative(l.qty * l.price - Discount(l.disc, l.qty * l.price))

SubTotal(b) == SumOf(b.lines, LineTotal)

ReceiptTotal(b) == NotNegative(SubTotal(b) - Discount(b.disc, SubTotal(b)) + b.ship)

\* A receipt of which `paid' has been paid.
Settled(b, paid) ==
  LET debt == NotNegative(ReceiptTotal(b) - paid)
  IN [status |-> IF debt = 0 THEN "PAID" ELSE "OWING",
      bill |-> b, paid |-> paid, debt |-> debt]

Draft(b, paid) == [status |-> "DRAFT", bill |-> b, paid |-> paid, debt |-> 0]

\* Posting: every line enters the stock and is logged, what is paid now is
\* vouchered and must not exceed the total.
Post(r, b, paid) ==
  /\ HasRoom
  /\ paid <= ReceiptTotal(b)
  /\ stock' = ImportedAll(b.lines)
  /\ moved' = Logged(r, b.lines, 1)
  /\ cashbook' = Vouched("PAYMENT", r, paid)
  /\ receipts' = [receipts EXCEPT ![r] = Settled(b, paid)]

HasStatus(r, status) == receipts[r] # NoDoc /\ receipts[r].status = status

CreateDraft(r, b, paid) ==
  /\ receipts[r] = NoDoc
  /\ receipts' = [receipts EXCEPT ![r] = Draft(b, paid)]
  /\ UNCHANGED <<stock, moved, cashbook, drift, call>>

CreateAndPost(r, b, paid) ==
  /\ receipts[r] = NoDoc
  /\ Post(r, b, paid)
  /\ UNCHANGED <<drift, call>>

\* The header and the lines are replaced; an amount paid is kept as entered.
SaveDraft(r, b, paid) ==
  /\ HasStatus(r, "DRAFT")
  /\ receipts' = [receipts EXCEPT ![r] = Draft(b, paid)]
  /\ UNCHANGED <<stock, moved, cashbook, drift, call>>

PostDraft(r, b, paid) ==
  /\ HasStatus(r, "DRAFT")
  /\ Post(r, b, paid)
  /\ UNCHANGED <<drift, call>>

PayReceipt(r, amount) ==
  /\ HasStatus(r, "OWING") /\ HasRoom
  /\ amount \in 1..NotNegative(ReceiptTotal(receipts[r].bill) - receipts[r].paid)
  /\ cashbook' = Vouched("PAYMENT", r, amount)
  /\ receipts' = [receipts EXCEPT ![r] = Settled(@.bill, @.paid + amount)]
  /\ UNCHANGED <<stock, moved, drift, call>>

CancelReceipt(r) ==
  /\ HasStatus(r, "DRAFT")
  /\ receipts' = [receipts EXCEPT ![r].status = "CANCELLED"]
  /\ UNCHANGED <<stock, moved, cashbook, drift, call>>

PurchasingInit == receipts = [r \in Receipts |-> NoDoc]

PurchasingNext ==
  \E r \in Receipts :
    \/ \E b \in Bills, paid \in Payments :
         \/ CreateDraft(r, b, paid)
         \/ CreateAndPost(r, b, paid)
         \/ SaveDraft(r, b, paid)
         \/ PostDraft(r, b, paid)
    \/ \E amount \in Payments : PayReceipt(r, amount)
    \/ CancelReceipt(r)

=============================================================================
