----------------------------- MODULE OrderDesk -----------------------------
(***************************************************************************)
(* The order desk: order.service.ts, orderitems.service.ts and             *)
(* kitchen.service.ts over the tables they share -- orders, order_items,   *)
(* kitchen_tickets and inventory_items -- and the status of the order's    *)
(* invoice, which cancelling reads and paying writes.                      *)
(*                                                                         *)
(* One action is one call of an endpoint and everything its database       *)
(* transaction does; a call the code rejects is a call that is not         *)
(* enabled.  The exception is KitchenService's work inside `cancel': it    *)
(* goes through its own repository, so it survives a transaction that      *)
(* fails afterwards (CancelInterrupted).                                   *)
(***************************************************************************)
EXTENDS OrderStatuses, Naturals, FiniteSets, FiniteSetsExt

CONSTANTS
  Orders,        \* order ids; an id is used for one order
  Rows,          \* ids of order_items rows
  Tickets,       \* ids of kitchen_tickets rows
  Menu,          \* dishes (rows are grouped by dish; all notes are blank)
  Ingredients,   \* inventory items
  Recipe,        \* Recipe[m][g]: base units of g in one portion of m
  InitialStock,  \* inventory_items.quantity at the start
  MaxQty,        \* bound on the quantity in one request
  QtyCap,        \* bound on the quantity of a row
  Endpoints,     \* the endpoints the clients of this instance call
  OrderTargets,  \* statuses they send to PATCH /orders/:id/status
  ItemTargets,   \* statuses they send to PATCH /orderitems/status, /move-one
  TicketTargets, \* statuses they send to PATCH /kitchen/tickets/status
  NoRow, NoTicket, NoItem

\* Both tables have a CHECK that a quantity is positive.
Quantity == Nat \ {0}

Item == [order : Orders, menu : Menu, qty : Quantity, status : ItemStatus]

Ticket == [order : Orders, menu : Menu, qty : Quantity, status : ItemStatus,
           item : Rows \cup {NoItem}]

InvoiceStatus == {"NONE", "UNPAID", "PARTIAL", "PAID"}

ASSUME RecipeAssumption ==
  /\ Recipe \in [Menu -> [Ingredients -> Nat]]
  /\ InitialStock \in [Ingredients -> Nat]

ASSUME FiniteAssumption == IsFiniteSet(Rows)

ASSUME BoundsAssumption == MaxQty \in Nat /\ QtyCap \in Nat

ASSUME TargetsAssumption ==
  /\ OrderTargets \subseteq OrderStatus
  /\ ItemTargets \subseteq ItemStatus
  /\ TicketTargets \subseteq ItemStatus

ASSUME NullsAssumption == NoRow \notin Item /\ NoTicket \notin Ticket /\ NoItem \notin Rows

VARIABLES
  status,   \* orders.status, "NONE" before the order exists
  row,      \* order_items
  ticket,   \* kitchen_tickets that are not (soft-)deleted
  stock,    \* inventory_items.quantity
  invoice   \* invoices.status of the order's invoice, "NONE" without one

vars == <<status, row, ticket, stock, invoice>>

\* Every column holds a value of its type; in particular no step stores a row
\* or a ticket whose quantity ran out instead of deleting it, and stock stays
\* at or above zero.
TypeOK ==
  /\ status \in [Orders -> OrderStatus \cup {"NONE"}]
  /\ row \in [Rows -> Item \cup {NoRow}]
  /\ ticket \in [Tickets -> Ticket \cup {NoTicket}]
  /\ stock \in [Ingredients -> Nat]
  /\ invoice \in [Orders -> InvoiceStatus]

Init ==
  /\ status = [o \in Orders |-> "NONE"]
  /\ row = [r \in Rows |-> NoRow]
  /\ ticket = [t \in Tickets |-> NoTicket]
  /\ stock = InitialStock
  /\ invoice = [o \in Orders |-> "NONE"]

----------------------------------------------------------------------------
(* Rows, tickets and stock                                                 *)

RowsOf(rows, o) == {r \in Rows : rows[r] # NoRow /\ rows[r].order = o}

TicketsOf(o) == {t \in Tickets : ticket[t] # NoTicket /\ ticket[t].order = o}

\* A fresh uuid: an id that neither a row nor a ticket's order_item_id holds.
FreeRows ==
  {r \in Rows : /\ row[r] = NoRow
                /\ \A t \in Tickets : ticket[t] # NoTicket => ticket[t].item # r}

FreeTickets == {t \in Tickets : ticket[t] = NoTicket}

NewRow == CHOOSE r \in FreeRows : TRUE
NewTicket == CHOOSE t \in FreeTickets : TRUE

\* Portions in a set of rows.
Portions(S) == SumFunction([r \in S |-> row[r].qty])

\* needMap / backMap: what S's rows consume of each ingredient.
Usage(S) ==
  [g \in Ingredients |->
     SumFunction([r \in S |-> Recipe[row[r].menu][g] * row[r].qty])]

\* The same for q portions of dish m.
UsageOf(m, q) == [g \in Ingredients |-> Recipe[m][g] * q]

\* applyInventoryDelta, OUT: every ingredient is validated before one is taken.
TakeStock(need) ==
  /\ \A g \in Ingredients : stock[g] >= need[g]
  /\ stock' = [g \in Ingredients |-> stock[g] - need[g]]

\* applyInventoryDelta, IN.
GiveBack(back) == stock' = [g \in Ingredients |-> stock[g] + back[g]]

\* Seeded fault: recompute without its early return for PAID and CANCELLED.
RecomputedAlways(st, rows, S) ==
  [o \in Orders |->
     IF o \in S THEN Derive({rows[r].status : r \in RowsOf(rows, o)}, "PENDING")
                ELSE st[o]]

\* Seeded fault: a SERVED order counts as finished and is not recomputed.
RecomputedUnlessServed(st, rows, S) ==
  [o \in Orders |->
     IF o \in S /\ st[o] # "SERVED"
     THEN Derive({rows[r].status : r \in RowsOf(rows, o)}, st[o]) ELSE st[o]]

\* recomputeOrderStatus of the orders in S, from their rows after the step.
Recomputed(st, rows, S) ==
  [o \in Orders |->
     IF o \in S THEN Derive({rows[r].status : r \in RowsOf(rows, o)}, st[o])
                ELSE st[o]]

\* Order.items cascades (order.entity.ts): saving an order writes back every
\* row it was loaded with, as the loaded object holds it -- a row changed
\* through another object is changed back, a deleted row is inserted again.
CascadeSave(rows, loaded, S) ==
  [r \in Rows |-> IF r \in S THEN loaded[r] ELSE rows[r]]

WithStatus(rows, S, to) ==
  [r \in Rows |-> IF r \in S THEN [rows[r] EXCEPT !.status = to] ELSE rows[r]]

----------------------------------------------------------------------------
(* order.service.ts                                                        *)

\* create, one line (a request is bounded to one line).
Create(o, m, q) ==
  /\ "create" \in Endpoints
  /\ status[o] = "NONE" /\ FreeRows # {}
  /\ TakeStock(UsageOf(m, q))
  /\ row' = [row EXCEPT ![NewRow] =
               [order |-> o, menu |-> m, qty |-> q, status |-> "PENDING"]]
  /\ status' = Recomputed([status EXCEPT ![o] = "PENDING"], row', {o})
  /\ UNCHANGED <<ticket, invoice>>

\* create with an empty list, which the DTO lets through: recompute finds no
\* active line and closes the order at once.
CreateEmpty(o) ==
  /\ "create" \in Endpoints
  /\ status[o] = "NONE"
  /\ status' = Recomputed([status EXCEPT ![o] = "PENDING"], row, {o})
  /\ UNCHANGED <<row, ticket, stock, invoice>>

AddItems(o, m, q) ==
  /\ "addItems" \in Endpoints
  /\ status[o] \in Editable /\ FreeRows # {}
  /\ TakeStock(UsageOf(m, q))
  /\ row' = [row EXCEPT ![NewRow] =
               [order |-> o, menu |-> m, qty |-> q, status |-> "PENDING"]]
  /\ status' = Recomputed(status, row', {o})
  /\ UNCHANGED <<ticket, invoice>>

\* removeItem: the order must be editable; the line's own status is not read.
RemoveItem(r) ==
  /\ "removeItem" \in Endpoints
  /\ row[r] # NoRow /\ status[row[r].order] \in Editable
  /\ GiveBack(UsageOf(row[r].menu, row[r].qty))
  /\ row' = [row EXCEPT ![r] = NoRow]
  /\ status' = Recomputed(status, row', {row[r].order})
  /\ UNCHANGED <<ticket, invoice>>

\* Seeded fault: a smaller quantity gives no stock back.
SetItemQtyKeepingStock(r, q) ==
  /\ "setItemQty" \in Endpoints
  /\ row[r] # NoRow
  /\ status[row[r].order] \notin {"PAID", "CANCELLED"}
  /\ row[r].status \in {"PENDING", "CONFIRMED"}
  /\ IF q > row[r].qty THEN TakeStock(UsageOf(row[r].menu, q - row[r].qty))
                       ELSE UNCHANGED stock
  /\ row' = [row EXCEPT ![r] = IF q = 0 THEN NoRow
                                         ELSE [row[r] EXCEPT !.qty = q]]
  /\ status' = Recomputed(status, row', {row[r].order})
  /\ UNCHANGED <<ticket, invoice>>

\* setItemQty: accepts every order that is not PAID or CANCELLED; 0 deletes the
\* line.  The ticket for an increase is saved without its qty, violates
\* NOT NULL and is rolled back to the savepoint: no ticket appears.
SetItemQty(r, q) ==
  /\ "setItemQty" \in Endpoints
  /\ row[r] # NoRow
  /\ status[row[r].order] \notin {"PAID", "CANCELLED"}
  /\ row[r].status \in {"PENDING", "CONFIRMED"}
  /\ IF q > row[r].qty THEN TakeStock(UsageOf(row[r].menu, q - row[r].qty))
                       ELSE GiveBack(UsageOf(row[r].menu, row[r].qty - q))
  /\ row' = [row EXCEPT ![r] = IF q = 0 THEN NoRow
                                         ELSE [row[r] EXCEPT !.qty = q]]
  /\ status' = Recomputed(status, row', {row[r].order})
  /\ UNCHANGED <<ticket, invoice>>

\* updateStatus to anything but CONFIRMED or CANCELLED.  (CONFIRMED on an order
\* that is not PAID or CANCELLED only writes history, and changes nothing here.)
\* The recompute that follows derives the status again unless it is PAID.
UpdateStatus(o, to) ==
  /\ "updateStatus" \in Endpoints
  /\ to \notin {"CONFIRMED", "CANCELLED"}
  /\ <<status[o], to>> \in AllowedTransitions
  /\ status' = Recomputed([status EXCEPT ![o] = to], row, {o})
  /\ UNCHANGED <<row, ticket, stock, invoice>>

\* updateStatus to CANCELLED: restores every line of the order, whatever its
\* status, and marks the lines CANCELLED through a second load; saving the
\* order then writes the first load's statuses back.
UpdateStatusCancelled(o) ==
  /\ "updateStatus" \in Endpoints /\ "CANCELLED" \in OrderTargets
  /\ <<status[o], "CANCELLED">> \in AllowedTransitions
  /\ GiveBack(Usage(RowsOf(row, o)))
  /\ row' = LET S == RowsOf(row, o)
            IN CascadeSave(WithStatus(row, S, "CANCELLED"), row, S)
  /\ status' = Recomputed([status EXCEPT ![o] = "CANCELLED"], row', {o})
  /\ UNCHANGED <<ticket, invoice>>

\* Seeded fault: cancel checks the invoice but not the order.
MayCancelPaid(o) ==
  /\ "cancel" \in Endpoints
  /\ status[o] # "NONE"
  /\ invoice[o] # "PAID"

\* cancel: only a PAID order or a PAID invoice stops it.  InvoiceStatus has
\* neither CANCELLED nor VOID, so the invoice falls back to UNPAID.
MayCancel(o) ==
  /\ "cancel" \in Endpoints
  /\ status[o] \notin {"NONE", "PAID"}
  /\ invoice[o] # "PAID"

\* voidAllByOrder.
VoidAllByOrder(o) ==
  ticket' = [t \in Tickets |->
               IF t \in TicketsOf(o) /\ ticket[t].status \in LiveItem
               THEN [ticket[t] EXCEPT !.status = "CANCELLED"] ELSE ticket[t]]

\* Seeded fault: a line that waits at the pass (READY) is not cancelled.
CancelButReady(o) ==
  /\ MayCancel(o)
  /\ LET live == {r \in RowsOf(row, o) : row[r].status \in LiveItem \ {"READY"}}
     IN /\ GiveBack(Usage(live))
        /\ row' = WithStatus(row, live, "CANCELLED")
  /\ status' = [status EXCEPT ![o] = "CANCELLED"]
  /\ invoice' = [invoice EXCEPT ![o] = IF @ = "NONE" THEN @ ELSE "UNPAID"]
  /\ VoidAllByOrder(o)

Cancel(o) ==
  /\ MayCancel(o)
  /\ LET live == {r \in RowsOf(row, o) : row[r].status \in LiveItem}
     IN /\ GiveBack(Usage(live))
        /\ row' = WithStatus(row, live, "CANCELLED")
  /\ status' = [status EXCEPT ![o] = "CANCELLED"]
  /\ invoice' = [invoice EXCEPT ![o] = IF @ = "NONE" THEN @ ELSE "UNPAID"]
  /\ VoidAllByOrder(o)

\* cancel whose transaction fails after the kitchen's tickets were voided.
CancelInterrupted(o) ==
  /\ MayCancel(o)
  /\ VoidAllByOrder(o)
  /\ UNCHANGED <<status, row, stock, invoice>>

----------------------------------------------------------------------------
(* mergeOrders and splitOrder                                              *)

Dishes(o) == {row[r].menu : r \in RowsOf(row, o)}

DishRows(o, m) == {r \in RowsOf(row, o) : row[r].menu = m}

\* targetMap: the target's row of a dish, or the first source row of a dish
\* that the target does not have, which moves over and takes the others in.
Keepers(from, to) ==
  {keep \in [Dishes(from) -> Rows] :
     \A m \in Dishes(from) :
        keep[m] \in IF DishRows(to, m) # {} THEN DishRows(to, m)
                                           ELSE DishRows(from, m)}

\* The rows that were added to another row are deleted, but the source order,
\* saved afterwards, still lists them: the cascade inserts them again.
MergedRows(from, to, keep) ==
  LET source == RowsOf(row, from)
      kept == {keep[m] : m \in Dishes(from)}
      Gain(r) == Portions({s \in source \ {r} : row[s].menu = row[r].menu})
      afterLoop ==
        [r \in Rows |->
           IF r \in kept
           THEN [row[r] EXCEPT !.order = to, !.qty = @ + Gain(r)]
           ELSE IF r \in source THEN NoRow ELSE row[r]]
  IN CascadeSave(afterLoop, row, source \ kept)

\* Seeded fault: the tickets change order but keep pointing at the source's row.
MergedTicketsKeepItem(from, to, keep) ==
  [t \in Tickets |->
     IF t \in TicketsOf(from) THEN [ticket[t] EXCEPT !.order = to] ELSE ticket[t]]

\* Tickets follow their row; the source's tickets without a row follow too.
MergedTickets(from, to, keep) ==
  [t \in Tickets |->
     IF t \notin TicketsOf(from) THEN ticket[t]
     ELSE IF ticket[t].item = NoItem THEN [ticket[t] EXCEPT !.order = to]
     ELSE IF ticket[t].item \in RowsOf(row, from)
     THEN [ticket[t] EXCEPT !.order = to,
                            !.item = keep[row[ticket[t].item].menu]]
     ELSE ticket[t]]

\* mergeOrders: the target must be open, the source's status is not read; no
\* recompute.
Merge(from, to) ==
  /\ "merge" \in Endpoints
  /\ from # to
  /\ status[from] # "NONE"
  /\ status[to] \in Editable
  /\ \E keep \in Keepers(from, to) :
       /\ row' = MergedRows(from, to, keep)
       /\ \A r \in Rows : row'[r] # NoRow => row'[r].qty <= QtyCap
       /\ ticket' = MergedTickets(from, to, keep)
  /\ status' = [status EXCEPT ![from] = "MERGED"]
  /\ UNCHANGED <<stock, invoice>>

\* The part of row r's live tickets that moves with q portions: whole tickets
\* first, at most one of them cut in two.  (The code takes them oldest first.)
TicketMoves(r, q) ==
  LET mine == {t \in TicketsOf(row[r].order) :
                 ticket[t].item = r /\ ticket[t].status \in LiveItem}
      total == SumFunction([t \in mine |-> ticket[t].qty])
  IN {moved \in [mine -> 0..QtyCap] :
        /\ \A t \in mine : moved[t] <= ticket[t].qty
        /\ SumFunction(moved) = IF total < q THEN total ELSE q
        /\ Cardinality({t \in mine : moved[t] \notin {0, ticket[t].qty}}) <= 1}

CutBy(moved) == {t \in DOMAIN moved : moved[t] \notin {0, ticket[t].qty}}

\* Row r gives q portions to row `target' of order `to'.
SplitTickets(to, target, moved) ==
  /\ CutBy(moved) # {} => FreeTickets # {}
  /\ ticket' = [t \in Tickets |->
       IF t \in DOMAIN moved \ CutBy(moved) /\ moved[t] > 0
       THEN [ticket[t] EXCEPT !.order = to, !.item = target]
       ELSE IF t \in CutBy(moved) THEN [ticket[t] EXCEPT !.qty = @ - moved[t]]
       ELSE IF CutBy(moved) # {} /\ t = NewTicket
       THEN LET cut == CHOOSE c \in CutBy(moved) : TRUE
            IN [ticket[cut] EXCEPT !.order = to, !.item = target, !.qty = moved[cut]]
       ELSE ticket[t]]

\* splitOrder of q portions of row r (a request is bounded to one line) into a
\* new order or an open one, which may be the source itself: the target row is
\* then updated from a quantity read before the source row was reduced.
Split(r, q, to) ==
  /\ "split" \in Endpoints
  /\ row[r] # NoRow
  /\ LET from == row[r].order
         same == DishRows(to, row[r].menu)
         reduced == [row EXCEPT ![r] =
                       IF q = row[r].qty THEN NoRow
                       ELSE [row[r] EXCEPT !.qty = @ - q]]
     IN /\ status[from] \in Editable
        /\ q <= row[r].qty
        /\ q < row[r].qty \/ RowsOf(row, from) # {r}
        /\ status[to] \in Editable \cup {"NONE"}
        /\ \E target \in IF same # {} THEN same ELSE FreeRows :
             /\ same = {} => target = NewRow
             /\ row' = IF same = {}
                       THEN [reduced EXCEPT ![target] =
                               [row[r] EXCEPT !.order = to, !.qty = q]]
                       ELSE IF reduced[target] = NoRow THEN reduced
                       ELSE [reduced EXCEPT ![target].qty = row[target].qty + q]
             /\ row'[target] # NoRow => row'[target].qty <= QtyCap
             /\ \E moved \in TicketMoves(r, q) : SplitTickets(to, target, moved)
  /\ status' = [status EXCEPT ![to] = IF @ = "NONE" THEN "PENDING" ELSE @]
  /\ UNCHANGED <<stock, invoice>>

----------------------------------------------------------------------------
(* orderitems.service.ts                                                   *)

\* Seeded fault: the bulk endpoint does not consult the transition map.
UpdateItemsStatusUnchecked(S, to) ==
  /\ "itemsStatus" \in Endpoints
  /\ \A r \in S : row[r] # NoRow
  /\ row' = WithStatus(row, S, to)
  /\ status' = Recomputed(status, row', {row[r].order : r \in S})
  /\ UNCHANGED <<ticket, stock, invoice>>

\* updateStatusBulk: lines already in `to' are skipped; CANCELLED through this
\* endpoint restores no stock.
UpdateItemsStatus(S, to) ==
  /\ "itemsStatus" \in Endpoints
  /\ \A r \in S : /\ row[r] # NoRow
                  /\ \/ row[r].status = to
                     \/ <<row[r].status, to>> \in AllowedItemTransitions
  /\ row' = WithStatus(row, S, to)
  /\ status' = Recomputed(status, row', {row[r].order : r \in S})
  /\ UNCHANGED <<ticket, stock, invoice>>

\* cancelItems: the lines decide, the order's status is not read.
CancelItems(S) ==
  /\ "cancelItems" \in Endpoints
  /\ \A r \in S : row[r] # NoRow /\ row[r].status \in {"PENDING", "CONFIRMED"}
  /\ GiveBack(Usage(S))
  /\ row' = WithStatus(row, S, "CANCELLED")
  /\ ticket' = [t \in Tickets |->
                  IF ticket[t] # NoTicket /\ ticket[t].item \in S
                  THEN NoTicket ELSE ticket[t]]
  /\ status' = Recomputed(status, row', {row[r].order : r \in S})
  /\ UNCHANGED invoice

\* voidTicketsByMenu: at most q portions of the dish's tickets that the kitchen
\* has not started, whole tickets first (the code takes the newest first);
\* asking for more than there is voids what there is.
VoidTicketsByMenu(o, m, q) ==
  LET victims == {t \in TicketsOf(o) : /\ ticket[t].menu = m
                                       /\ ticket[t].status \in {"PENDING", "CONFIRMED"}}
      total == SumFunction([t \in victims |-> ticket[t].qty])
  IN \E left \in [victims -> 0..QtyCap] :
       /\ \A t \in victims : left[t] <= ticket[t].qty
       /\ SumFunction(left) = IF total < q THEN 0 ELSE total - q
       /\ Cardinality({t \in victims : left[t] \notin {0, ticket[t].qty}}) <= 1
       /\ ticket' = [t \in Tickets |->
                       IF t \notin victims THEN ticket[t]
                       ELSE IF left[t] = 0 THEN NoTicket
                       ELSE [ticket[t] EXCEPT !.qty = left[t]]]

MayCancelPartial(r, q) ==
  /\ "cancelPartial" \in Endpoints
  /\ row[r] # NoRow /\ row[r].status \in {"PENDING", "CONFIRMED"}
  /\ q <= row[r].qty

\* cancelPartial: the cancelled portions become a CANCELLED line of their own.
CancelPartial(r, q) ==
  /\ MayCancelPartial(r, q)
  /\ GiveBack(UsageOf(row[r].menu, q))
  /\ \/ /\ q = row[r].qty
        /\ row' = WithStatus(row, {r}, "CANCELLED")
     \/ /\ q < row[r].qty /\ FreeRows # {}
        /\ row' = [row EXCEPT ![r].qty = @ - q,
                              ![NewRow] = [row[r] EXCEPT !.qty = q, !.status = "CANCELLED"]]
  /\ VoidTicketsByMenu(row[r].order, row[r].menu, q)
  /\ status' = Recomputed(status, row', {row[r].order})
  /\ UNCHANGED invoice

\* cancelPartial whose transaction fails after the kitchen's tickets were voided.
CancelPartialInterrupted(r, q) ==
  /\ MayCancelPartial(r, q)
  /\ VoidTicketsByMenu(row[r].order, row[r].menu, q)
  /\ UNCHANGED <<status, row, stock, invoice>>

\* moveOne: one portion of the line goes to `to'; the rest stays behind.
MoveOne(r, to) ==
  /\ "moveOne" \in Endpoints
  /\ row[r] # NoRow
  /\ <<row[r].status, to>> \in AllowedItemTransitions
  /\ \/ /\ row[r].qty > 1 /\ FreeRows # {}
        /\ row' = [row EXCEPT ![r].qty = @ - 1,
                              ![NewRow] = [row[r] EXCEPT !.qty = 1, !.status = to]]
     \/ /\ row[r].qty <= 1
        /\ row' = WithStatus(row, {r}, to)
  /\ status' = Recomputed(status, row', {row[r].order})
  /\ UNCHANGED <<ticket, stock, invoice>>

----------------------------------------------------------------------------
(* kitchen.service.ts                                                      *)

\* notifyItems, one dish: any order, any quantity; the ticket is tied to a row
\* of that dish (the last one loaded), or to none.
NotifyItems(o, m, q) ==
  /\ "notify" \in Endpoints
  /\ status[o] # "NONE" /\ FreeTickets # {}
  /\ \E i \in IF DishRows(o, m) # {} THEN DishRows(o, m) ELSE {NoItem} :
       ticket' = [ticket EXCEPT ![NewTicket] =
                    [order |-> o, menu |-> m, qty |-> q, status |-> "PENDING", item |-> i]]
  /\ UNCHANGED <<status, row, stock, invoice>>

\* KitchenService.updateStatusBulk: any status to any other; no row changes.
UpdateTicketStatus(S, to) ==
  /\ "ticketStatus" \in Endpoints
  /\ \A t \in S : ticket[t] # NoTicket
  /\ ticket' = [t \in Tickets |->
                  IF t \in S THEN [ticket[t] EXCEPT !.status = to] ELSE ticket[t]]
  /\ UNCHANGED <<status, row, stock, invoice>>

\* POST /kitchen/orders/:id/cancel-items.
VoidAfterNotify(o, m, q) ==
  /\ "voidTickets" \in Endpoints
  /\ TicketsOf(o) # {}
  /\ VoidTicketsByMenu(o, m, q)
  /\ UNCHANGED <<status, row, stock, invoice>>

\* PATCH /kitchen/tickets/:id/delete.
DeleteTicket(t) ==
  /\ "deleteTicket" \in Endpoints
  /\ ticket[t] # NoTicket /\ ticket[t].status = "CANCELLED"
  /\ ticket' = [ticket EXCEPT ![t] = NoTicket]
  /\ UNCHANGED <<status, row, stock, invoice>>

\* Seeded fault: a row that just runs out is kept with quantity zero.
CancelFromKitchenOffByOne(t, q) ==
  /\ "kitchenCancel" \in Endpoints
  /\ ticket[t] # NoTicket /\ ticket[t].status \in {"PENDING", "CONFIRMED"}
  /\ q <= ticket[t].qty
  /\ row' = [r \in Rows |->
       IF r # ticket[t].item \/ row[r] = NoRow THEN row[r]
       ELSE IF row[r].qty < q THEN NoRow
       ELSE [row[r] EXCEPT !.qty = @ - q]]
  /\ ticket' = [ticket EXCEPT ![t] =
                  IF q = ticket[t].qty THEN [ticket[t] EXCEPT !.status = "CANCELLED"]
                  ELSE [ticket[t] EXCEPT !.qty = @ - q]]
  /\ status' = Recomputed(status, row', {ticket[t].order})
  /\ UNCHANGED <<stock, invoice>>

\* cancelFromKitchen: takes q portions off the ticket and off its row, deletes
\* a row that runs out, restores no stock; recomputes the ticket's order.
CancelFromKitchen(t, q) ==
  /\ "kitchenCancel" \in Endpoints
  /\ ticket[t] # NoTicket /\ ticket[t].status \in {"PENDING", "CONFIRMED"}
  /\ q <= ticket[t].qty
  /\ row' = [r \in Rows |->
       IF r # ticket[t].item \/ row[r] = NoRow THEN row[r]
       ELSE IF row[r].qty <= q THEN NoRow
       ELSE [row[r] EXCEPT !.qty = @ - q]]
  /\ ticket' = [ticket EXCEPT ![t] =
                  IF q = ticket[t].qty THEN [ticket[t] EXCEPT !.status = "CANCELLED"]
                  ELSE [ticket[t] EXCEPT !.qty = @ - q]]
  /\ status' = Recomputed(status, row', {ticket[t].order})
  /\ UNCHANGED <<stock, invoice>>

----------------------------------------------------------------------------
(* invoice.service.ts, as far as the order desk sees it (Settlement has the *)
(* amounts)                                                                *)

CreateInvoice(o) ==
  /\ "pay" \in Endpoints
  /\ status[o] # "NONE" /\ invoice[o] = "NONE"
  /\ invoice' = [invoice EXCEPT ![o] = "UNPAID"]
  /\ UNCHANGED <<status, row, ticket, stock>>

\* addPayment that leaves a remainder.  It asks for what is left to pay, not for
\* the status: an invoice that markPaid closed unpaid becomes PARTIAL again.
PayPart(o) ==
  /\ "pay" \in Endpoints
  /\ invoice[o] # "NONE"
  /\ invoice' = [invoice EXCEPT ![o] = "PARTIAL"]
  /\ UNCHANGED <<status, row, ticket, stock>>

\* addPayment of the remainder, or markPaid: the order is PAID whatever it was.
PayRest(o) ==
  /\ "pay" \in Endpoints
  /\ invoice[o] # "NONE"
  /\ invoice' = [invoice EXCEPT ![o] = "PAID"]
  /\ status' = [status EXCEPT ![o] = "PAID"]
  /\ UNCHANGED <<row, ticket, stock>>

----------------------------------------------------------------------------

OrderNext ==
  \E o \in Orders :
    \/ CreateEmpty(o)
    \/ \E m \in Menu, q \in 1..MaxQty : Create(o, m, q) \/ AddItems(o, m, q)
    \/ \E to \in OrderTargets : UpdateStatus(o, to)
    \/ UpdateStatusCancelled(o)
    \/ Cancel(o)
    \/ CancelInterrupted(o)
    \/ \E to \in Orders : Merge(o, to)
    \/ \E r \in Rows, q \in 1..QtyCap : Split(r, q, o)

ItemNext ==
  \/ \E r \in Rows :
       \/ RemoveItem(r)
       \/ \E q \in 0..MaxQty : SetItemQty(r, q)
       \/ \E q \in 1..QtyCap : CancelPartial(r, q) \/ CancelPartialInterrupted(r, q)
       \/ \E to \in ItemTargets : MoveOne(r, to)
  \/ \E S \in SUBSET Rows \ {{}} :
       \/ CancelItems(S)
       \/ \E to \in ItemTargets : UpdateItemsStatus(S, to)

KitchenNext ==
  \/ \E o \in Orders, m \in Menu, q \in 1..MaxQty :
       NotifyItems(o, m, q) \/ VoidAfterNotify(o, m, q)
  \/ \E t \in Tickets :
       DeleteTicket(t) \/ \E q \in 1..QtyCap : CancelFromKitchen(t, q)
  \/ \E S \in SUBSET Tickets \ {{}}, to \in TicketTargets : UpdateTicketStatus(S, to)

PayNext == \E o \in Orders : CreateInvoice(o) \/ PayPart(o) \/ PayRest(o)

Next == OrderNext \/ ItemNext \/ KitchenNext \/ PayNext

Spec == Init /\ [][Next]_vars

----------------------------------------------------------------------------
(* What the desk promises                                                  *)

\* The order's lines decide its status: unless it is closed, an order has the
\* status deriveOrderStatusFromItems gives for its lines.  Every handler has to
\* end with a recompute for this (order.service.ts, orderitems.service.ts).
StatusDerived ==
  \A o \in Orders :
    status[o] \in {"NONE", "PAID", "CANCELLED"}
      \/ status[o] = Derive({row[r].status : r \in RowsOf(row, o)}, status[o])

\* Stock is conserved: what is on hand and what the lines that are not
\* cancelled have consumed add up to the initial stock, whatever was added,
\* resized, partly cancelled or cancelled in between.
StockConserved ==
  LET consumed == Usage({r \in Rows : row[r] # NoRow /\ row[r].status # "CANCELLED"})
  IN \A g \in Ingredients : stock[g] + consumed[g] = InitialStock[g]

\* A cancelled order has no line that could still be cooked or carried.
CancelledHasNoLiveLines ==
  \A o \in Orders : status[o] = "CANCELLED" =>
    \A r \in RowsOf(row, o) : row[r].status \notin LiveItem

\* A paid invoice's order is PAID: no later call on its lines reopens it.
PaidInvoiceClosesOrder == \A o \in Orders : invoice[o] = "PAID" => status[o] = "PAID"

\* A ticket that points at a row belongs to that row's order and dish: merges
\* and splits move both or neither.
TicketFollowsItem ==
  \A t \in Tickets :
    ticket[t] # NoTicket /\ ticket[t].item # NoItem =>
      \/ row[ticket[t].item] = NoRow
      \/ /\ row[ticket[t].item].order = ticket[t].order
         /\ row[ticket[t].item].menu = ticket[t].menu

\* A closed order is not worked on again: a PAID order can only be merged away,
\* a CANCELLED one only be merged away or paid.
ClosedStaysClosed ==
  [][\A o \in Orders :
       /\ status[o] = "PAID" => status'[o] \in {"PAID", "MERGED"}
       /\ status[o] = "CANCELLED" => status'[o] \in {"CANCELLED", "PAID", "MERGED"}]_vars

\* Every handler moves a line along ALLOWED_ITEM_TRANSITIONS, also those that
\* do not consult it (cancel, cancelItems, merges, splits).
ItemStatusSteps ==
  [][\A r \in Rows :
       row[r] # NoRow /\ row'[r] # NoRow =>
         \/ row'[r].status = row[r].status
         \/ <<row[r].status, row'[r].status>> \in AllowedItemTransitions]_vars

=============================================================================
