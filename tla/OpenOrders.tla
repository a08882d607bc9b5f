----------------------------- MODULE OpenOrders -----------------------------
(***************************************************************************)
(* What the order desk promises of the portions on its orders: each        *)
(* request changes them in one step, and none is lost on the way.          *)
(* The liberties are the code's: an addition may land on an order that was *)
(* merged or paid meanwhile, and reopen it; the source of a merge may have *)
(* any status and keeps a copy of what it handed on; a payment asks for no *)
(* status.                                                                 *)
(***************************************************************************)
EXTENDS Naturals

CONSTANTS Orders, Start

VARIABLES portions, status

Init == portions = [o \in Orders |-> Start] /\ status = [o \in Orders |-> "SERVED"]

Editable == {"SERVED", "PENDING"}

\* A line lands on an order, which is PENDING then; a paid one may stay paid.
Add(o) ==
  /\ portions' = [portions EXCEPT ![o] = @ + 1]
  /\ \/ status' = [status EXCEPT ![o] = "PENDING"]
     \/ status[o] = "PAID" /\ UNCHANGED status

Split(from, to, qty) ==
  /\ {status[from], status[to]} \subseteq Editable /\ qty < portions[from]
  /\ portions' = [portions EXCEPT ![from] = @ - qty, ![to] = @ + qty]
  /\ UNCHANGED status

Merge(from, to) ==
  /\ status[to] \in Editable
  /\ portions' = [portions EXCEPT ![to] = @ + portions[from]]
  /\ status' = [status EXCEPT ![from] = "MERGED"]

Pay(o) == status' = [status EXCEPT ![o] = "PAID"] /\ UNCHANGED portions

Next ==
  \/ \E o \in Orders : Add(o) \/ Pay(o)
  \/ \E from, to \in Orders : from # to /\ (Split(from, to, 1) \/ Merge(from, to))

Spec == Init /\ [][Next]_<<portions, status>>

=============================================================================
