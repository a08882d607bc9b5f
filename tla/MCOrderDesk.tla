---------------------------- MODULE MCOrderDesk ----------------------------
(***************************************************************************)
(* Values for the instances of OrderDesk that TLC checks.                  *)
(***************************************************************************)
EXTENDS OrderDesk, TLC

CONSTANTS o1, o2, i1, i2, i3, t1, t2, pho, tea, beef

\* Ids are alike.  NewRow and NewTicket choose among free ids that nothing
\* points at: swapping the chosen one with another leaves the state as it is, so
\* the choice only picks one of several symmetric successors.
Symmetry == Permutations(Orders) \cup Permutations(Rows) \cup Permutations(Tickets)

\* A portion of pho takes two units of beef, tea takes none.
TwoDishes == (pho :> (beef :> 2)) @@ (tea :> (beef :> 0))

NoRecipe == pho :> [g \in {} |-> 0]

FiveBeef == beef :> 5

EmptyStore == [g \in {} |-> 0]

\* The cashier's endpoints: everything that takes or gives back stock and that
\* the desk does not undo elsewhere.
TillEndpoints ==
  {"create", "addItems", "setItemQty", "updateStatus", "cancel", "itemsStatus",
   "cancelItems", "cancelPartial", "moveOne", "pay"}

\* Status targets of the till: it cancels through cancel and cancelItems.
TillOrderTargets == OrderStatus \ {"CANCELLED"}
TillItemTargets == ItemStatus \ {"CANCELLED"}

\* Every endpoint that touches orders and lines, for the closing rules.
FloorEndpoints == TillEndpoints \cup {"removeItem", "merge", "split"}

\* The endpoints that touch tickets, and those that move or delete the rows
\* the tickets point at.
KitchenEndpoints ==
  {"create", "addItems", "removeItem", "cancel", "cancelItems",
   "cancelPartial", "merge", "split", "notify",
   "ticketStatus", "voidTickets", "deleteTicket", "kitchenCancel"}

=============================================================================
