-------------------------- MODULE OrderDesk_proofs --------------------------
(***************************************************************************)
(* Theorems about OrderDesk, for every set of orders, rows, tickets,       *)
(* dishes and ingredients: the types, that closed orders stay closed,      *)
(* lines follow their map and tickets their rows whatever endpoints are    *)
(* called; and, where the endpoints that break it are not called, what     *)
(* closing an order means, that its status is the one its lines give, and  *)
(* that the stock follows the lines.                                       *)
(***************************************************************************)
EXTENDS OrderDesk, SumTheorems

Statuses == OrderStatus \cup {"NONE"}

----------------------------------------------------------------------------
(* What the helpers return                                                 *)

\* deriveOrderStatusFromItems returns an order status, or keeps the current one.
LEMMA DeriveType ==
  ASSUME NEW S, NEW current \in Statuses
  PROVE  Derive(S, current) \in Statuses
BY DEF Derive, Statuses, OrderStatus, Editable

\* A recompute leaves every order with a status.
LEMMA RecomputedType ==
  ASSUME NEW st \in [Orders -> Statuses], NEW rows, NEW S
  PROVE  Recomputed(st, rows, S) \in [Orders -> Statuses]
BY DeriveType DEF Recomputed

\* A fresh row id is an id, and no row or ticket holds it.
LEMMA NewRowType ==
  ASSUME FreeRows # {}
  PROVE  /\ NewRow \in Rows
         /\ row[NewRow] = NoRow
         /\ \A t \in Tickets : ticket[t] # NoTicket => ticket[t].item # NewRow
<1>1. NewRow \in FreeRows
  BY DEF NewRow
<1> QED
  BY <1>1 DEF FreeRows

\* A fresh ticket id is the id of no ticket.
LEMMA NewTicketType ==
  ASSUME FreeTickets # {}
  PROVE  NewTicket \in Tickets /\ ticket[NewTicket] = NoTicket
<1>1. NewTicket \in FreeTickets
  BY DEF NewTicket
<1> QED
  BY <1>1 DEF FreeTickets

\* Portions and needs are natural numbers.
LEMMA ProductType == \A a, b \in Nat : a * b \in Nat
OBVIOUS

LEMMA PortionsType ==
  ASSUME NEW S \in SUBSET Rows, \A r \in S : row[r] \in Item
  PROVE  Portions(S) \in Nat
<1> DEFINE f == [r \in S |-> row[r].qty]
<1>1. IsFiniteSet(S) /\ \A r \in S : f[r] \in Nat
  BY FiniteAssumption, FS_Subset DEF Item, Quantity
<1>2. Portions(S) = SumFunctionOnSet(f, S)
  BY DEF Portions, SumFunction
<1> HIDE DEF f
<1> QED
  BY <1>1, <1>2, SumNat

LEMMA UsageType ==
  ASSUME NEW S \in SUBSET Rows, \A r \in S : row[r] \in Item
  PROVE  Usage(S) \in [Ingredients -> Nat]
<1> SUFFICES ASSUME NEW g \in Ingredients
             PROVE  SumFunction([r \in S |-> Recipe[row[r].menu][g] * row[r].qty]) \in Nat
  BY DEF Usage
<1> DEFINE f == [r \in S |-> Recipe[row[r].menu][g] * row[r].qty]
<1>1. ASSUME NEW r \in S PROVE f[r] \in Nat
  <2>1. row[r].menu \in Menu /\ row[r].qty \in Nat
    BY DEF Item, Quantity
  <2>2. Recipe[row[r].menu][g] \in Nat
    BY <2>1, RecipeAssumption
  <2> QED
    BY <2>1, <2>2, ProductType
<1>2. IsFiniteSet(S) /\ SumFunction(f) = SumFunctionOnSet(f, S)
  BY FiniteAssumption, FS_Subset DEF SumFunction
<1> HIDE DEF f
<1>3. SumFunction(f) \in Nat
  BY <1>1, <1>2, SumNat
<1> QED
  BY <1>3 DEF f

LEMMA UsageOfType ==
  ASSUME NEW m \in Menu, NEW q \in Nat
  PROVE  UsageOf(m, q) \in [Ingredients -> Nat]
<1>1. \A g \in Ingredients : Recipe[m][g] \in Nat
  BY RecipeAssumption
<1> QED
  BY <1>1 DEF UsageOf

\* Taking what is there and giving back keep stock a natural number.
LEMMA TakeStockType ==
  ASSUME stock \in [Ingredients -> Nat], NEW need \in [Ingredients -> Nat], TakeStock(need)
  PROVE  stock' \in [Ingredients -> Nat]
BY DEF TakeStock

LEMMA GiveBackType ==
  ASSUME stock \in [Ingredients -> Nat], NEW back \in [Ingredients -> Nat], GiveBack(back)
  PROVE  stock' \in [Ingredients -> Nat]
BY DEF GiveBack

LEMMA WithStatusType ==
  ASSUME NEW rows \in [Rows -> Item \cup {NoRow}], NEW to \in ItemStatus,
         NEW S, \A r \in S : r \in Rows => rows[r] # NoRow
  PROVE  WithStatus(rows, S, to) \in [Rows -> Item \cup {NoRow}]
BY DEF WithStatus, Item

----------------------------------------------------------------------------
(* Every operation keeps the types                                         *)

LEMMA CreateKeepsTypes ==
  ASSUME TypeOK, NEW o \in Orders, NEW m \in Menu, NEW q \in 1..MaxQty,
         Create(o, m, q) \/ AddItems(o, m, q)
  PROVE  TypeOK'
<1>1. q \in Quantity /\ q \in Nat
  BY BoundsAssumption DEF Quantity
<1>2. NewRow \in Rows
  BY NewRowType DEF Create, AddItems
<1>3. row' \in [Rows -> Item \cup {NoRow}]
  BY <1>1, <1>2 DEF Create, AddItems, TypeOK, Item, ItemStatus, LiveItem
<1>4. stock' \in [Ingredients -> Nat]
  BY <1>1, UsageOfType, TakeStockType DEF Create, AddItems, TypeOK
<1>5. [status EXCEPT ![o] = "PENDING"] \in [Orders -> Statuses]
  BY DEF TypeOK, Statuses, OrderStatus, Editable
<1>6. status' \in [Orders -> Statuses]
  <2>1. CASE Create(o, m, q)
    BY <1>5, <2>1, RecomputedType DEF Create
  <2>2. CASE AddItems(o, m, q)
    <3>1. status \in [Orders -> Statuses]
      BY DEF TypeOK, Statuses
    <3> QED
      BY <3>1, <2>2, RecomputedType DEF AddItems
  <2> QED
    BY <2>1, <2>2
<1> QED
  BY <1>3, <1>4, <1>6 DEF Create, AddItems, TypeOK, Statuses

LEMMA UpdateStatusKeepsTypes ==
  ASSUME TypeOK, NEW o \in Orders, NEW to \in OrderTargets, UpdateStatus(o, to)
  PROVE  TypeOK'
<1>1. [status EXCEPT ![o] = to] \in [Orders -> Statuses]
  BY TargetsAssumption DEF TypeOK, Statuses
<1>2. status' \in [Orders -> Statuses]
  BY <1>1, RecomputedType DEF UpdateStatus
<1> QED
  BY <1>2 DEF UpdateStatus, TypeOK, Statuses

LEMMA CreateEmptyKeepsTypes ==
  ASSUME TypeOK, NEW o \in Orders, CreateEmpty(o)
  PROVE  TypeOK'
<1>1. [status EXCEPT ![o] = "PENDING"] \in [Orders -> Statuses]
  BY DEF TypeOK, Statuses, OrderStatus, Editable
<1>2. status' \in [Orders -> Statuses]
  BY <1>1, RecomputedType DEF CreateEmpty
<1> QED
  BY <1>2 DEF CreateEmpty, TypeOK, Statuses

LEMMA RemoveItemKeepsTypes ==
  ASSUME TypeOK, NEW r \in Rows, RemoveItem(r)
  PROVE  TypeOK'
<1>1. row[r] \in Item
  BY DEF RemoveItem, TypeOK
<1>2. UsageOf(row[r].menu, row[r].qty) \in [Ingredients -> Nat]
  BY <1>1, UsageOfType DEF Item, Quantity
<1>3. stock' \in [Ingredients -> Nat]
  BY <1>2, GiveBackType DEF RemoveItem, TypeOK
<1>4. status' \in [Orders -> Statuses]
  <2>1. status \in [Orders -> Statuses]
    BY DEF TypeOK, Statuses
  <2> QED
    BY <2>1, RecomputedType DEF RemoveItem
<1>5. row' \in [Rows -> Item \cup {NoRow}]
  BY DEF RemoveItem, TypeOK
<1> QED
  BY <1>3, <1>4, <1>5 DEF RemoveItem, TypeOK, Statuses

LEMMA SetItemQtyKeepsTypes ==
  ASSUME TypeOK, NEW r \in Rows, NEW q \in 0..MaxQty, SetItemQty(r, q)
  PROVE  TypeOK'
<1>1. row[r] \in Item /\ row[r].menu \in Menu /\ row[r].qty \in Nat /\ q \in Nat
  BY BoundsAssumption DEF SetItemQty, TypeOK, Item, Quantity
<1>2. stock' \in [Ingredients -> Nat]
  <2>1. CASE q > row[r].qty
    <3>1. q - row[r].qty \in Nat
      BY <1>1, <2>1
    <3> QED
      BY <1>1, <2>1, <3>1, UsageOfType, TakeStockType DEF SetItemQty, TypeOK
  <2>2. CASE ~(q > row[r].qty)
    <3>1. row[r].qty - q \in Nat
      BY <1>1, <2>2
    <3> QED
      BY <1>1, <2>2, <3>1, UsageOfType, GiveBackType DEF SetItemQty, TypeOK
  <2> QED
    BY <2>1, <2>2
<1>3. status' \in [Orders -> Statuses]
  <2>1. status \in [Orders -> Statuses]
    BY DEF TypeOK, Statuses
  <2> QED
    BY <2>1, RecomputedType DEF SetItemQty
<1>4. row' \in [Rows -> Item \cup {NoRow}]
  BY <1>1 DEF SetItemQty, TypeOK, Item, Quantity
<1> QED
  BY <1>2, <1>3, <1>4 DEF SetItemQty, TypeOK, Statuses

LEMMA UpdateStatusCancelledKeepsTypes ==
  ASSUME TypeOK, NEW o \in Orders, UpdateStatusCancelled(o)
  PROVE  TypeOK'
<1>1. stock' \in [Ingredients -> Nat]
  <2>1. RowsOf(row, o) \in SUBSET Rows /\ \A r \in RowsOf(row, o) : row[r] \in Item
    BY DEF RowsOf, TypeOK
  <2> QED
    BY <2>1, UsageType, GiveBackType DEF UpdateStatusCancelled, TypeOK
<1>2. row' = row
  BY DEF UpdateStatusCancelled, CascadeSave, WithStatus, TypeOK
<1>3. [status EXCEPT ![o] = "CANCELLED"] \in [Orders -> Statuses]
  BY DEF TypeOK, Statuses, OrderStatus
<1>4. status' \in [Orders -> Statuses]
  BY <1>3, RecomputedType DEF UpdateStatusCancelled
<1> QED
  BY <1>1, <1>2, <1>4 DEF UpdateStatusCancelled, TypeOK, Statuses

LEMMA VoidAllByOrderType ==
  ASSUME TypeOK, NEW o \in Orders, VoidAllByOrder(o)
  PROVE  ticket' \in [Tickets -> Ticket \cup {NoTicket}]
<1>1. \A t \in TicketsOf(o) : [ticket[t] EXCEPT !.status = "CANCELLED"] \in Ticket
  BY DEF TypeOK, TicketsOf, Ticket, ItemStatus
<1> QED
  BY <1>1 DEF VoidAllByOrder, TypeOK

LEMMA CancelKeepsTypes ==
  ASSUME TypeOK, NEW o \in Orders, Cancel(o) \/ CancelInterrupted(o)
  PROVE  TypeOK'
<1>1. CASE Cancel(o)
  <2> DEFINE live == {r \in RowsOf(row, o) : row[r].status \in LiveItem}
  <2>1. stock' \in [Ingredients -> Nat]
    <3>1. live \in SUBSET Rows /\ \A r \in live : row[r] \in Item
      BY DEF RowsOf, TypeOK
    <3> QED
      BY <1>1, <3>1, UsageType, GiveBackType DEF Cancel, TypeOK
  <2>2. row' = WithStatus(row, live, "CANCELLED")
    BY <1>1 DEF Cancel
  <2>3. row' \in [Rows -> Item \cup {NoRow}]
    BY <2>2 DEF WithStatus, TypeOK, Item, RowsOf, ItemStatus
  <2>4. status' \in [Orders -> Statuses] /\ invoice' \in [Orders -> InvoiceStatus]
    BY <1>1 DEF Cancel, TypeOK, Statuses, OrderStatus, InvoiceStatus
  <2>5. ticket' \in [Tickets -> Ticket \cup {NoTicket}]
    BY <1>1, VoidAllByOrderType DEF Cancel
  <2> QED
    BY <2>1, <2>3, <2>4, <2>5 DEF TypeOK, Statuses
<1>2. CASE CancelInterrupted(o)
  BY <1>2, VoidAllByOrderType DEF CancelInterrupted, TypeOK
<1> QED
  BY <1>1, <1>2

\* mergeOrders: quantities only grow, and a resurrected row is the row it was.
LEMMA MergedRowsType ==
  ASSUME TypeOK, NEW from \in Orders, NEW to \in Orders, NEW keep \in Keepers(from, to)
  PROVE  MergedRows(from, to, keep) \in [Rows -> Item \cup {NoRow}]
<1> DEFINE source == RowsOf(row, from)
           kept == {keep[m] : m \in Dishes(from)}
           Gain(r) == Portions({s \in source \ {r} : row[s].menu = row[r].menu})
           afterLoop ==
             [r \in Rows |->
                IF r \in kept THEN [row[r] EXCEPT !.order = to, !.qty = @ + Gain(r)]
                ELSE IF r \in source THEN NoRow ELSE row[r]]
<1>1. \A r \in kept : r \in Rows /\ row[r] \in Item
  <2> SUFFICES ASSUME NEW m \in Dishes(from)
               PROVE  keep[m] \in Rows /\ row[keep[m]] \in Item
    OBVIOUS
  <2>1. keep[m] \in DishRows(to, m) \cup DishRows(from, m)
    BY DEF Keepers
  <2> QED
    BY <2>1 DEF DishRows, RowsOf, TypeOK
<1>2. \A r \in kept : [row[r] EXCEPT !.order = to, !.qty = @ + Gain(r)] \in Item
  <2> SUFFICES ASSUME NEW r \in kept
               PROVE  [row[r] EXCEPT !.order = to, !.qty = @ + Gain(r)] \in Item
    OBVIOUS
  <2>1. Gain(r) \in Nat
    BY PortionsType DEF RowsOf, TypeOK
  <2> HIDE DEF Gain
  <2>2. row[r].qty + Gain(r) \in Quantity
    BY <1>1, <2>1 DEF Item, Quantity
  <2> QED
    BY <1>1, <2>2 DEF Item
<1> HIDE DEF Gain, kept
<1>3. afterLoop \in [Rows -> Item \cup {NoRow}]
  BY <1>2 DEF TypeOK
<1>4. MergedRows(from, to, keep) = CascadeSave(afterLoop, row, source \ kept)
  BY DEF MergedRows, Gain, kept
<1> HIDE DEF afterLoop
<1> QED
  BY <1>3, <1>4 DEF CascadeSave, TypeOK

LEMMA MergedTicketsType ==
  ASSUME TypeOK, NEW from \in Orders, NEW to \in Orders, NEW keep \in Keepers(from, to)
  PROVE  MergedTickets(from, to, keep) \in [Tickets -> Ticket \cup {NoTicket}]
<1> SUFFICES ASSUME NEW t \in TicketsOf(from)
             PROVE  /\ [ticket[t] EXCEPT !.order = to] \in Ticket
                    /\ ticket[t].item \in RowsOf(row, from) =>
                         [ticket[t] EXCEPT !.order = to,
                                           !.item = keep[row[ticket[t].item].menu]] \in Ticket
  BY DEF MergedTickets, TypeOK, TicketsOf
<1>1. ticket[t] \in Ticket
  BY DEF TypeOK, TicketsOf
<1>2. ASSUME ticket[t].item \in RowsOf(row, from)
      PROVE  keep[row[ticket[t].item].menu] \in Rows
  BY <1>2 DEF Keepers, Dishes
<1> QED
  BY <1>1, <1>2 DEF Ticket

LEMMA MergeKeepsTypes ==
  ASSUME TypeOK, NEW from \in Orders, NEW to \in Orders, Merge(from, to)
  PROVE  TypeOK'
<1>1. PICK keep \in Keepers(from, to) :
        row' = MergedRows(from, to, keep) /\ ticket' = MergedTickets(from, to, keep)
  BY DEF Merge
<1>2. status' \in [Orders -> Statuses]
  BY DEF Merge, TypeOK, Statuses, OrderStatus
<1> QED
  BY <1>1, <1>2, MergedRowsType, MergedTicketsType DEF Merge, TypeOK, Statuses

\* splitOrder: neither half of a cut ticket is empty.
LEMMA SplitTicketsType ==
  ASSUME TypeOK, NEW r \in Rows, row[r] # NoRow, NEW q, NEW to \in Orders,
         NEW target \in Rows, NEW moved \in TicketMoves(r, q), SplitTickets(to, target, moved)
  PROVE  ticket' \in [Tickets -> Ticket \cup {NoTicket}]
<1>1. \A t \in DOMAIN moved :
        /\ t \in Tickets /\ ticket[t] \in Ticket
        /\ moved[t] \in Nat /\ moved[t] <= ticket[t].qty
  BY BoundsAssumption DEF TicketMoves, TicketsOf, TypeOK
<1>2. \A t \in CutBy(moved) :
        /\ t \in DOMAIN moved
        /\ moved[t] \in Quantity /\ ticket[t].qty - moved[t] \in Quantity
  BY <1>1 DEF CutBy, Ticket, Quantity
<1>3. \A t \in DOMAIN moved : [ticket[t] EXCEPT !.order = to, !.item = target] \in Ticket
  BY <1>1 DEF Ticket
<1>4. \A t \in CutBy(moved) :
        /\ [ticket[t] EXCEPT !.qty = @ - moved[t]] \in Ticket
        /\ [ticket[t] EXCEPT !.order = to, !.item = target, !.qty = moved[t]] \in Ticket
  BY <1>1, <1>2 DEF Ticket
<1>5. ASSUME CutBy(moved) # {}
      PROVE  LET cut == CHOOSE c \in CutBy(moved) : TRUE
             IN [ticket[cut] EXCEPT !.order = to, !.item = target, !.qty = moved[cut]] \in Ticket
  BY <1>4, <1>5
<1> QED
  BY <1>3, <1>4, <1>5 DEF SplitTickets, TypeOK

LEMMA SplitKeepsTypes ==
  ASSUME TypeOK, NEW r \in Rows, NEW q \in 1..QtyCap, NEW to \in Orders, Split(r, q, to)
  PROVE  TypeOK'
<1> DEFINE same == DishRows(to, row[r].menu)
           reduced == [row EXCEPT ![r] =
                         IF q = row[r].qty THEN NoRow
                         ELSE [row[r] EXCEPT !.qty = @ - q]]
<1>1. /\ row[r] \in Item /\ row[r].qty \in Quantity
      /\ q \in Quantity /\ q <= row[r].qty
  BY BoundsAssumption DEF Split, TypeOK, Item, Quantity
<1>2. reduced \in [Rows -> Item \cup {NoRow}]
  BY <1>1 DEF TypeOK, Item, Quantity
<1>3. PICK target \in IF same # {} THEN same ELSE FreeRows :
        /\ row' = IF same = {}
                  THEN [reduced EXCEPT ![target] = [row[r] EXCEPT !.order = to, !.qty = q]]
                  ELSE IF reduced[target] = NoRow THEN reduced
                  ELSE [reduced EXCEPT ![target].qty = row[target].qty + q]
        /\ \E moved \in TicketMoves(r, q) : SplitTickets(to, target, moved)
  BY DEF Split
<1>4. target \in Rows
  BY <1>3 DEF DishRows, RowsOf, FreeRows
<1>5. row' \in [Rows -> Item \cup {NoRow}]
  <2> HIDE DEF reduced
  <2>1. CASE same = {}
    <3>1. [row[r] EXCEPT !.order = to, !.qty = q] \in Item
      BY <1>1 DEF Item
    <3> QED
      BY <1>2, <1>3, <1>4, <2>1, <3>1
  <2>2. CASE same # {}
    <3>1. row[target] \in Item
      BY <1>3, <2>2 DEF DishRows, RowsOf, TypeOK
    <3>2. row[target].qty + q \in Quantity
      BY <1>1, <3>1 DEF Item, Quantity
    <3>3. reduced[target] # NoRow => [reduced[target] EXCEPT !.qty = row[target].qty + q] \in Item
      BY <1>2, <1>4, <3>2 DEF Item
    <3> QED
      BY <1>2, <1>3, <1>4, <2>2, <3>3
  <2> QED
    BY <2>1, <2>2
<1>6. ticket' \in [Tickets -> Ticket \cup {NoTicket}]
  BY <1>3, <1>4, SplitTicketsType DEF Split
<1>7. status' \in [Orders -> Statuses]
  BY DEF Split, TypeOK, Statuses, OrderStatus, Editable
<1> QED
  BY <1>5, <1>6, <1>7 DEF Split, TypeOK, Statuses

LEMMA ItemsStatusKeepsTypes ==
  ASSUME TypeOK, NEW S \in SUBSET Rows, NEW to \in ItemTargets, UpdateItemsStatus(S, to)
  PROVE  TypeOK'
<1>1. row' \in [Rows -> Item \cup {NoRow}]
  BY TargetsAssumption, WithStatusType DEF UpdateItemsStatus, TypeOK
<1>2. status' \in [Orders -> Statuses]
  <2>1. status \in [Orders -> Statuses]
    BY DEF TypeOK, Statuses
  <2> QED
    BY <2>1, RecomputedType DEF UpdateItemsStatus
<1> QED
  BY <1>1, <1>2 DEF UpdateItemsStatus, TypeOK, Statuses

LEMMA CancelItemsKeepsTypes ==
  ASSUME TypeOK, NEW S \in SUBSET Rows, CancelItems(S)
  PROVE  TypeOK'
<1>1. row' \in [Rows -> Item \cup {NoRow}]
  BY WithStatusType DEF CancelItems, TypeOK, ItemStatus
<1>2. status' \in [Orders -> Statuses]
  <2>1. status \in [Orders -> Statuses]
    BY DEF TypeOK, Statuses
  <2> QED
    BY <2>1, RecomputedType DEF CancelItems
<1>3. stock' \in [Ingredients -> Nat]
  <2>1. \A r \in S : row[r] \in Item
    BY DEF CancelItems, TypeOK
  <2> QED
    BY <2>1, UsageType, GiveBackType DEF CancelItems, TypeOK
<1>4. ticket' \in [Tickets -> Ticket \cup {NoTicket}]
  BY DEF CancelItems, TypeOK
<1> QED
  BY <1>1, <1>2, <1>3, <1>4 DEF CancelItems, TypeOK, Statuses

\* voidTicketsByMenu: what is left of a ticket is never empty.
LEMMA VoidTicketsByMenuType ==
  ASSUME TypeOK, NEW o, NEW m, NEW q, VoidTicketsByMenu(o, m, q)
  PROVE  ticket' \in [Tickets -> Ticket \cup {NoTicket}]
<1> DEFINE victims == {t \in TicketsOf(o) : /\ ticket[t].menu = m
                                            /\ ticket[t].status \in {"PENDING", "CONFIRMED"}}
<1>1. PICK left \in [victims -> 0..QtyCap] :
        ticket' = [t \in Tickets |->
                     IF t \notin victims THEN ticket[t]
                     ELSE IF left[t] = 0 THEN NoTicket
                     ELSE [ticket[t] EXCEPT !.qty = left[t]]]
  BY Zenon DEF VoidTicketsByMenu
<1>2. \A t \in victims : left[t] # 0 => [ticket[t] EXCEPT !.qty = left[t]] \in Ticket
  BY BoundsAssumption DEF TicketsOf, TypeOK, Ticket, Quantity
<1> HIDE DEF victims
<1> QED
  BY <1>1, <1>2 DEF TypeOK

LEMMA CancelPartialKeepsTypes ==
  ASSUME TypeOK, NEW r \in Rows, NEW q \in 1..QtyCap,
         CancelPartial(r, q) \/ CancelPartialInterrupted(r, q)
  PROVE  TypeOK'
<1>1. /\ row[r] \in Item /\ row[r] # NoRow
      /\ row[r].menu \in Menu /\ row[r].qty \in Quantity /\ q \in Quantity
  BY BoundsAssumption
  DEF CancelPartial, CancelPartialInterrupted, MayCancelPartial, TypeOK, Item, Quantity
<1>2. ticket' \in [Tickets -> Ticket \cup {NoTicket}]
  BY VoidTicketsByMenuType DEF CancelPartial, CancelPartialInterrupted
<1>3. CASE CancelPartialInterrupted(r, q)
  BY <1>2, <1>3 DEF CancelPartialInterrupted, TypeOK
<1>4. CASE CancelPartial(r, q)
  <2>1. row' \in [Rows -> Item \cup {NoRow}]
    <3>1. CASE q = row[r].qty /\ row' = WithStatus(row, {r}, "CANCELLED")
      <4>1. "CANCELLED" \in ItemStatus
        BY DEF ItemStatus
      <4> QED
        BY <1>1, <3>1, <4>1, WithStatusType DEF TypeOK
    <3>2. CASE /\ q < row[r].qty /\ FreeRows # {}
               /\ row' = [row EXCEPT ![r].qty = @ - q,
                            ![NewRow] = [row[r] EXCEPT !.qty = q, !.status = "CANCELLED"]]
      <4>1. [row[r] EXCEPT !.qty = @ - q] \in Item
        BY <1>1, <3>2 DEF Item, Quantity
      <4>2. [row[r] EXCEPT !.qty = q, !.status = "CANCELLED"] \in Item
        BY <1>1 DEF Item, ItemStatus
      <4>3. NewRow \in Rows
        BY <3>2, NewRowType
      <4>4. [row EXCEPT ![r] = [row[r] EXCEPT !.qty = @ - q]] \in [Rows -> Item \cup {NoRow}]
        BY <4>1 DEF TypeOK
      <4>5. row' = [[row EXCEPT ![r] = [row[r] EXCEPT !.qty = @ - q]]
                      EXCEPT ![NewRow] = [row[r] EXCEPT !.qty = q, !.status = "CANCELLED"]]
        BY <3>2
      <4> QED
        BY <4>2, <4>3, <4>4, <4>5
    <3> QED
      BY <1>4, <3>1, <3>2 DEF CancelPartial
  <2>2. stock' \in [Ingredients -> Nat]
    BY <1>1, <1>4, UsageOfType, GiveBackType DEF CancelPartial, TypeOK, Quantity
  <2>3. status' \in [Orders -> Statuses]
    <3>1. status \in [Orders -> Statuses]
      BY DEF TypeOK, Statuses
    <3> QED
      BY <1>4, <3>1, RecomputedType DEF CancelPartial
  <2> QED
    BY <1>2, <1>4, <2>1, <2>2, <2>3 DEF CancelPartial, TypeOK, Statuses
<1> QED
  BY <1>3, <1>4

LEMMA MoveOneKeepsTypes ==
  ASSUME TypeOK, NEW r \in Rows, NEW to \in ItemTargets, MoveOne(r, to)
  PROVE  TypeOK'
<1>1. row[r] \in Item /\ row[r].qty \in Quantity /\ to \in ItemStatus
  BY TargetsAssumption DEF MoveOne, TypeOK, Item
<1>2. row' \in [Rows -> Item \cup {NoRow}]
  <2>1. CASE /\ row[r].qty > 1 /\ FreeRows # {}
             /\ row' = [row EXCEPT ![r].qty = @ - 1,
                          ![NewRow] = [row[r] EXCEPT !.qty = 1, !.status = to]]
    <3>1. [row[r] EXCEPT !.qty = @ - 1] \in Item
      BY <1>1, <2>1 DEF Item, Quantity
    <3>2. 1 \in Quantity
      BY DEF Quantity
    <3>3. [row[r] EXCEPT !.qty = 1, !.status = to] \in Item
      BY <1>1, <3>2 DEF Item
    <3>4. NewRow \in Rows
      BY <2>1, NewRowType
    <3> QED
      BY <2>1, <3>1, <3>3, <3>4 DEF TypeOK
  <2>2. CASE row' = WithStatus(row, {r}, to)
    BY <1>1, <2>2, WithStatusType DEF MoveOne, TypeOK
  <2> QED
    BY <2>1, <2>2 DEF MoveOne
<1>3. status' \in [Orders -> Statuses]
  <2>1. status \in [Orders -> Statuses]
    BY DEF TypeOK, Statuses
  <2> QED
    BY <2>1, RecomputedType DEF MoveOne
<1> QED
  BY <1>2, <1>3 DEF MoveOne, TypeOK, Statuses

LEMMA TicketActionsKeepTypes ==
  ASSUME TypeOK, NEW o \in Orders, NEW m \in Menu, NEW q \in 1..MaxQty,
         NotifyItems(o, m, q) \/ VoidAfterNotify(o, m, q)
  PROVE  TypeOK'
<1>1. CASE NotifyItems(o, m, q)
  <2>1. PICK i \in IF DishRows(o, m) # {} THEN DishRows(o, m) ELSE {NoItem} :
          ticket' = [ticket EXCEPT ![NewTicket] =
            [order |-> o, menu |-> m, qty |-> q, status |-> "PENDING", item |-> i]]
    BY <1>1 DEF NotifyItems
  <2>2. i \in Rows \cup {NoItem}
    BY <2>1 DEF DishRows, RowsOf
  <2>3. [order |-> o, menu |-> m, qty |-> q, status |-> "PENDING", item |-> i] \in Ticket
    BY <2>2, BoundsAssumption DEF Ticket, Quantity, ItemStatus, LiveItem
  <2>4. NewTicket \in Tickets
    BY <1>1, NewTicketType DEF NotifyItems
  <2> QED
    BY <1>1, <2>1, <2>3, <2>4 DEF NotifyItems, TypeOK
<1>2. CASE VoidAfterNotify(o, m, q)
  BY <1>2, VoidTicketsByMenuType DEF VoidAfterNotify, TypeOK
<1> QED
  BY <1>1, <1>2

LEMMA TicketStatusKeepsTypes ==
  ASSUME TypeOK, NEW S \in SUBSET Tickets, NEW to \in TicketTargets, UpdateTicketStatus(S, to)
  PROVE  TypeOK'
<1>1. \A t \in S : [ticket[t] EXCEPT !.status = to] \in Ticket
  BY TargetsAssumption DEF UpdateTicketStatus, TypeOK, Ticket
<1> QED
  BY <1>1 DEF UpdateTicketStatus, TypeOK

LEMMA CancelFromKitchenKeepsTypes ==
  ASSUME TypeOK, NEW t \in Tickets, NEW q \in 1..QtyCap, CancelFromKitchen(t, q)
  PROVE  TypeOK'
<1>1. ticket[t] \in Ticket /\ ticket[t].qty \in Quantity /\ q \in Quantity /\ q <= ticket[t].qty
  BY BoundsAssumption DEF CancelFromKitchen, TypeOK, Ticket, Quantity
<1>2. \A r \in Rows : row[r] # NoRow /\ ~(row[r].qty <= q) =>
                       [row[r] EXCEPT !.qty = @ - q] \in Item
  BY <1>1 DEF TypeOK, Item, Quantity
<1>3. row' \in [Rows -> Item \cup {NoRow}]
  BY <1>2 DEF CancelFromKitchen, TypeOK
<1>4. /\ [ticket[t] EXCEPT !.status = "CANCELLED"] \in Ticket
      /\ q # ticket[t].qty => [ticket[t] EXCEPT !.qty = @ - q] \in Ticket
  BY <1>1 DEF Ticket, Quantity, ItemStatus
<1>5. ticket' \in [Tickets -> Ticket \cup {NoTicket}]
  BY <1>4 DEF CancelFromKitchen, TypeOK
<1>6. status' \in [Orders -> Statuses]
  <2>1. status \in [Orders -> Statuses]
    BY DEF TypeOK, Statuses
  <2> QED
    BY <2>1, RecomputedType DEF CancelFromKitchen
<1> QED
  BY <1>3, <1>5, <1>6 DEF CancelFromKitchen, TypeOK, Statuses

LEMMA PayKeepsTypes ==
  ASSUME TypeOK, NEW o \in Orders, CreateInvoice(o) \/ PayPart(o) \/ PayRest(o)
  PROVE  TypeOK'
BY DEF CreateInvoice, PayPart, PayRest, TypeOK, InvoiceStatus, OrderStatus

----------------------------------------------------------------------------

\* Every column holds a value of its type in every reachable state; no row or
\* ticket is ever stored with quantity zero and stock never goes below zero.
THEOREM TypeCorrect == Spec => []TypeOK
<1>1. Init => TypeOK
  BY RecipeAssumption DEF Init, TypeOK, InvoiceStatus
<1>2. TypeOK /\ [Next]_vars => TypeOK'
  <2> SUFFICES ASSUME TypeOK, [Next]_vars PROVE TypeOK'
    OBVIOUS
  <2>1. CASE OrderNext
    BY <2>1, CreateKeepsTypes, CreateEmptyKeepsTypes, UpdateStatusKeepsTypes,
       UpdateStatusCancelledKeepsTypes, CancelKeepsTypes, MergeKeepsTypes, SplitKeepsTypes
    DEF OrderNext
  <2>2. CASE ItemNext
    BY <2>2, RemoveItemKeepsTypes, SetItemQtyKeepsTypes, CancelPartialKeepsTypes,
       MoveOneKeepsTypes, CancelItemsKeepsTypes, ItemsStatusKeepsTypes
    DEF ItemNext
  <2>3. CASE KitchenNext
    <3>1. ASSUME NEW t \in Tickets, DeleteTicket(t) PROVE TypeOK'
      BY <3>1 DEF DeleteTicket, TypeOK
    <3> QED
      BY <2>3, <3>1, TicketActionsKeepTypes, CancelFromKitchenKeepsTypes, TicketStatusKeepsTypes
      DEF KitchenNext
  <2>4. CASE PayNext
    BY <2>4, PayKeepsTypes DEF PayNext
  <2>5. CASE UNCHANGED vars
    BY <2>5 DEF vars, TypeOK
  <2> QED
    BY <2>1, <2>2, <2>3, <2>4, <2>5 DEF Next
<1> QED
  BY <1>1, <1>2, PTL DEF Spec


----------------------------------------------------------------------------
(* Closed orders                                                           *)

\* The order's part of ClosedStaysClosed.
StaysClosed(o) ==
  /\ status[o] = "PAID" => status'[o] \in {"PAID", "MERGED"}
  /\ status[o] = "CANCELLED" => status'[o] \in {"CANCELLED", "PAID", "MERGED"}

\* recomputeOrderStatus returns early for PAID and CANCELLED orders.
LEMMA RecomputedKeepsClosed ==
  ASSUME NEW st, NEW rows, NEW S, NEW o \in Orders, st[o] \in {"PAID", "CANCELLED"}
  PROVE  Recomputed(st, rows, S)[o] = st[o]
BY DEF Recomputed, Derive

\* A step that only recomputes leaves closed orders closed.
LEMMA RecomputeStaysClosed ==
  ASSUME NEW rows, NEW S, status' = Recomputed(status, rows, S)
  PROVE  \A o \in Orders : StaysClosed(o)
BY RecomputedKeepsClosed DEF StaysClosed

\* A step that writes the status of an order that is not closed, and then
\* recomputes, leaves the other orders as they are.
LEMMA WriteStaysClosed ==
  ASSUME TypeOK, NEW o \in Orders, NEW to, NEW rows, NEW S,
         status[o] \notin {"PAID", "CANCELLED"},
         status' = Recomputed([status EXCEPT ![o] = to], rows, S)
  PROVE  \A p \in Orders : StaysClosed(p)
<1> SUFFICES ASSUME NEW p \in Orders, status[p] \in {"PAID", "CANCELLED"}
             PROVE  status'[p] = status[p]
  BY DEF StaysClosed
<1> DEFINE written == [status EXCEPT ![o] = to]
<1>1. written[p] = status[p]
  BY DEF TypeOK
<1>2. status' = Recomputed(written, rows, S)
  OBVIOUS
<1> HIDE DEF written
<1>3. written[p] \in {"PAID", "CANCELLED"}
  BY <1>1
<1> QED
  BY <1>1, <1>2, <1>3, RecomputedKeepsClosed

LEMMA OrderNextStaysClosed ==
  ASSUME TypeOK, OrderNext
  PROVE  \A p \in Orders : StaysClosed(p)
<1>1. PICK o \in Orders :
        \/ CreateEmpty(o)
        \/ \E m \in Menu, q \in 1..MaxQty : Create(o, m, q) \/ AddItems(o, m, q)
        \/ \E to \in OrderTargets : UpdateStatus(o, to)
        \/ UpdateStatusCancelled(o)
        \/ Cancel(o)
        \/ CancelInterrupted(o)
        \/ \E to \in Orders : Merge(o, to)
        \/ \E r \in Rows, q \in 1..QtyCap : Split(r, q, o)
  BY DEF OrderNext
<1>2. CASE CreateEmpty(o) \/ \E m \in Menu, q \in 1..MaxQty : Create(o, m, q)
  <2>1. status[o] \notin {"PAID", "CANCELLED"}
    BY <1>2 DEF CreateEmpty, Create
  <2>2. \E rows : status' = Recomputed([status EXCEPT ![o] = "PENDING"], rows, {o})
    BY <1>2 DEF CreateEmpty, Create
  <2> QED
    BY <2>1, <2>2, WriteStaysClosed
<1>3. CASE \E m \in Menu, q \in 1..MaxQty : AddItems(o, m, q)
  BY <1>3, RecomputeStaysClosed DEF AddItems
<1>4. CASE \E to \in OrderTargets : UpdateStatus(o, to)
  <2>1. PICK to \in OrderTargets : UpdateStatus(o, to)
    BY <1>4
  <2>2. status[o] \notin {"PAID", "CANCELLED"}
    BY <2>1 DEF UpdateStatus, AllowedTransitions, Editable
  <2> QED
    BY <2>1, <2>2, WriteStaysClosed DEF UpdateStatus
<1>5. CASE UpdateStatusCancelled(o)
  <2>1. status[o] \notin {"PAID", "CANCELLED"}
    BY <1>5 DEF UpdateStatusCancelled, AllowedTransitions, Editable
  <2> QED
    BY <1>5, <2>1, WriteStaysClosed DEF UpdateStatusCancelled
<1>6. CASE Cancel(o) \/ CancelInterrupted(o)
  BY <1>6 DEF Cancel, CancelInterrupted, MayCancel, StaysClosed, TypeOK
<1>7. CASE \E to \in Orders : Merge(o, to)
  BY <1>7 DEF Merge, StaysClosed, TypeOK
<1>8. CASE \E r \in Rows, q \in 1..QtyCap : Split(r, q, o)
  <2>1. status' = [status EXCEPT ![o] = IF @ = "NONE" THEN "PENDING" ELSE @]
    BY <1>8 DEF Split
  <2> QED
    BY <2>1 DEF StaysClosed, TypeOK
<1> QED
  BY <1>1, <1>2, <1>3, <1>4, <1>5, <1>6, <1>7, <1>8

LEMMA NextStaysClosed ==
  ASSUME TypeOK, [Next]_vars
  PROVE  \A o \in Orders : StaysClosed(o)
<1>1. CASE OrderNext
  BY <1>1, OrderNextStaysClosed
<1>2. CASE ItemNext
  <2>1. \/ UNCHANGED status
        \/ \E rows, S : status' = Recomputed(status, rows, S)
    BY <1>2 DEF ItemNext, RemoveItem, SetItemQty, CancelPartial, CancelPartialInterrupted,
                MoveOne, CancelItems, UpdateItemsStatus
  <2> QED
    BY <2>1, RecomputeStaysClosed DEF StaysClosed
<1>3. CASE KitchenNext
  <2>1. \/ UNCHANGED status
        \/ \E rows, S : status' = Recomputed(status, rows, S)
    BY <1>3 DEF KitchenNext, NotifyItems, VoidAfterNotify, DeleteTicket, CancelFromKitchen,
                UpdateTicketStatus
  <2> QED
    BY <2>1, RecomputeStaysClosed DEF StaysClosed
<1>4. CASE PayNext
  BY <1>4 DEF PayNext, CreateInvoice, PayPart, PayRest, StaysClosed, TypeOK
<1>5. CASE UNCHANGED vars
  BY <1>5 DEF vars, StaysClosed
<1> QED
  BY <1>1, <1>2, <1>3, <1>4, <1>5 DEF Next

\* No step of any handler works on a closed order again: PAID can only be
\* merged away, CANCELLED only be merged away or paid.
THEOREM ClosedOrdersStayClosed == Spec => ClosedStaysClosed
<1>1. TypeOK /\ [Next]_vars =>
        [\A o \in Orders :
           /\ status[o] = "PAID" => status'[o] \in {"PAID", "MERGED"}
           /\ status[o] = "CANCELLED" => status'[o] \in {"CANCELLED", "PAID", "MERGED"}]_vars
  BY NextStaysClosed DEF StaysClosed
<1> QED
  BY <1>1, TypeCorrect, PTL DEF Spec, ClosedStaysClosed

----------------------------------------------------------------------------
(* The lines' transition map                                               *)

\* The line's part of ItemStatusSteps.
Allowed(r) ==
  row[r] # NoRow /\ row'[r] # NoRow =>
    \/ row'[r].status = row[r].status
    \/ <<row[r].status, row'[r].status>> \in AllowedItemTransitions

\* Setting the status of rows from which it may be set.
LEMMA WithStatusAllowed ==
  ASSUME TypeOK, NEW S \in SUBSET Rows, NEW to,
         \A r \in S : /\ row[r] # NoRow
                      /\ \/ row[r].status = to
                         \/ <<row[r].status, to>> \in AllowedItemTransitions,
         row' = WithStatus(row, S, to)
  PROVE  \A r \in Rows : Allowed(r)
<1>1. \A r \in S : row[r] \in Item
  BY DEF TypeOK
<1> QED
  BY <1>1 DEF WithStatus, Allowed, Item

\* One portion (or several) of a row goes to a new row; the rest stays.
LEMMA NewRowAllowed ==
  ASSUME TypeOK, NEW r \in Rows, row[r] # NoRow, NEW n, NEW new, FreeRows # {},
         row' = [row EXCEPT ![r].qty = n, ![NewRow] = new]
  PROVE  \A s \in Rows : Allowed(s)
<1>1. row[NewRow] = NoRow /\ NewRow \in Rows /\ row[r] \in Item
  BY NewRowType DEF TypeOK
<1>2. row' = [[row EXCEPT ![r] = [row[r] EXCEPT !.qty = n]] EXCEPT ![NewRow] = new]
  OBVIOUS
<1>3. \A s \in Rows \ {NewRow} : row'[s] = IF s = r THEN [row[r] EXCEPT !.qty = n] ELSE row[s]
  BY <1>1, <1>2 DEF TypeOK
<1>4. [row[r] EXCEPT !.qty = n].status = row[r].status
  BY <1>1 DEF Item
<1> QED
  BY <1>1, <1>3, <1>4 DEF Allowed

LEMMA MergeAllowed ==
  ASSUME TypeOK, NEW from \in Orders, NEW to \in Orders, Merge(from, to)
  PROVE  \A r \in Rows : Allowed(r)
<1>1. PICK keep \in Keepers(from, to) : row' = MergedRows(from, to, keep)
  BY DEF Merge
<1> SUFFICES ASSUME NEW r \in Rows, row[r] # NoRow, row'[r] # NoRow
             PROVE  row'[r].status = row[r].status
  BY DEF Allowed
<1>2. row'[r] = row[r] \/ \E n : row'[r] = [row[r] EXCEPT !.order = to, !.qty = n]
  BY <1>1 DEF MergedRows, CascadeSave
<1>3. row[r] \in Item
  BY DEF TypeOK
<1> QED
  BY <1>2, <1>3 DEF Item

LEMMA SplitAllowed ==
  ASSUME TypeOK, NEW r \in Rows, NEW q \in 1..QtyCap, NEW to \in Orders, Split(r, q, to)
  PROVE  \A s \in Rows : Allowed(s)
<1> DEFINE same == DishRows(to, row[r].menu)
           reduced == [row EXCEPT ![r] =
                         IF q = row[r].qty THEN NoRow
                         ELSE [row[r] EXCEPT !.qty = @ - q]]
<1>1. row[r] \in Item /\ row[r] # NoRow
  BY DEF Split, TypeOK
<1>2. PICK target \in IF same # {} THEN same ELSE FreeRows :
        row' = IF same = {}
               THEN [reduced EXCEPT ![target] = [row[r] EXCEPT !.order = to, !.qty = q]]
               ELSE IF reduced[target] = NoRow THEN reduced
               ELSE [reduced EXCEPT ![target].qty = row[target].qty + q]
  BY DEF Split
<1>3. target \in Rows /\ (same = {} => row[target] = NoRow)
  BY <1>2 DEF DishRows, RowsOf, FreeRows
<1>4. /\ DOMAIN reduced = Rows
      /\ \A s \in Rows : reduced[s] # NoRow =>
           /\ reduced[s].status = row[s].status
           /\ \A n : [reduced[s] EXCEPT !.qty = n].status = row[s].status
  BY <1>1 DEF TypeOK, Item
<1> HIDE DEF reduced, same
<1> SUFFICES ASSUME NEW s \in Rows, row[s] # NoRow, row'[s] # NoRow
             PROVE  row'[s].status = row[s].status
  BY DEF Allowed
<1>5. CASE s = target
  <2>1. same # {}
    BY <1>3, <1>5
  <2>2. CASE reduced[target] = NoRow
    BY <1>2, <1>4, <1>5, <2>1, <2>2
  <2>3. CASE reduced[target] # NoRow
    <3>1. row'[target] = [reduced[target] EXCEPT !.qty = row[target].qty + q]
      BY <1>2, <1>3, <1>4, <2>1, <2>3
    <3> QED
      BY <1>3, <1>4, <1>5, <2>3, <3>1
  <2> QED
    BY <2>2, <2>3
<1>6. CASE s # target
  <2>1. row'[s] = reduced[s]
    <3>1. \A x : [reduced EXCEPT ![target] = x][s] = reduced[s]
      BY <1>4, <1>6
    <3>2. \E x : row' \in {reduced, [reduced EXCEPT ![target] = x]}
      BY <1>2
    <3> QED
      BY <3>1, <3>2
  <2> QED
    BY <1>4, <2>1
<1> QED
  BY <1>5, <1>6

LEMMA OrderNextAllowed ==
  ASSUME TypeOK, OrderNext
  PROVE  \A r \in Rows : Allowed(r)
<1>1. CASE \E o \in Orders, m \in Menu, q \in 1..MaxQty : Create(o, m, q) \/ AddItems(o, m, q)
  <2>1. /\ FreeRows # {}
        /\ \E new : row' = [row EXCEPT ![NewRow] = new]
    BY <1>1 DEF Create, AddItems
  <2>2. row[NewRow] = NoRow /\ NewRow \in Rows
    BY <2>1, NewRowType
  <2> QED
    BY <2>1, <2>2 DEF Allowed, TypeOK
<1>2. CASE \E o \in Orders : \/ CreateEmpty(o)
                             \/ \E to \in OrderTargets : UpdateStatus(o, to)
                             \/ CancelInterrupted(o)
  BY <1>2 DEF CreateEmpty, UpdateStatus, CancelInterrupted, Allowed
<1>3. CASE \E o \in Orders : UpdateStatusCancelled(o)
  <2>1. row' = row
    BY <1>3 DEF UpdateStatusCancelled, CascadeSave, WithStatus, TypeOK
  <2> QED
    BY <2>1 DEF Allowed
<1>4. CASE \E o \in Orders : Cancel(o)
  <2>1. PICK o \in Orders : Cancel(o)
    BY <1>4
  <2> DEFINE live == {r \in RowsOf(row, o) : row[r].status \in LiveItem}
  <2>2. row' = WithStatus(row, live, "CANCELLED")
    BY <2>1 DEF Cancel
  <2>3. /\ live \in SUBSET Rows
        /\ \A r \in live : /\ row[r] # NoRow
                           /\ <<row[r].status, "CANCELLED">> \in AllowedItemTransitions
    BY DEF RowsOf, AllowedItemTransitions
  <2> HIDE DEF live
  <2> QED
    BY <2>2, <2>3, WithStatusAllowed
<1> QED
  BY <1>1, <1>2, <1>3, <1>4, MergeAllowed, SplitAllowed DEF OrderNext

LEMMA ItemNextAllowed ==
  ASSUME TypeOK, ItemNext
  PROVE  \A r \in Rows : Allowed(r)
<1>1. ASSUME NEW r \in Rows, RemoveItem(r) PROVE \A s \in Rows : Allowed(s)
  BY <1>1 DEF RemoveItem, Allowed, TypeOK
<1>2. ASSUME NEW r \in Rows, NEW q \in 0..MaxQty, SetItemQty(r, q)
      PROVE  \A s \in Rows : Allowed(s)
  <2>1. row[r] \in Item /\ row[r] # NoRow
    BY <1>2 DEF SetItemQty, TypeOK
  <2>2. row' = [row EXCEPT ![r] = IF q = 0 THEN NoRow ELSE [row[r] EXCEPT !.qty = q]]
    BY <1>2 DEF SetItemQty
  <2>3. row'[r] # NoRow => row'[r].status = row[r].status
    BY <2>1, <2>2 DEF TypeOK, Item
  <2>4. \A s \in Rows \ {r} : row'[s] = row[s]
    BY <2>2 DEF TypeOK
  <2> QED
    BY <2>3, <2>4 DEF Allowed
<1>3. ASSUME NEW r \in Rows, NEW q \in 1..QtyCap, CancelPartial(r, q)
      PROVE  \A s \in Rows : Allowed(s)
  <2>1. /\ row[r] # NoRow
        /\ <<row[r].status, "CANCELLED">> \in AllowedItemTransitions
    BY <1>3 DEF CancelPartial, MayCancelPartial, AllowedItemTransitions, LiveItem
  <2>2. CASE row' = WithStatus(row, {r}, "CANCELLED")
    BY <2>1, <2>2, WithStatusAllowed
  <2>3. CASE /\ FreeRows # {}
             /\ row' = [row EXCEPT ![r].qty = @ - q,
                          ![NewRow] = [row[r] EXCEPT !.qty = q, !.status = "CANCELLED"]]
    <3>1. \E n, new : row' = [row EXCEPT ![r].qty = n, ![NewRow] = new]
      BY <2>3
    <3> QED
      BY <2>1, <2>3, <3>1, NewRowAllowed
  <2> QED
    BY <1>3, <2>2, <2>3 DEF CancelPartial
<1>4. ASSUME NEW r \in Rows, NEW to \in ItemTargets, MoveOne(r, to)
      PROVE  \A s \in Rows : Allowed(s)
  <2>1. row[r] # NoRow /\ <<row[r].status, to>> \in AllowedItemTransitions
    BY <1>4 DEF MoveOne
  <2>2. CASE row' = WithStatus(row, {r}, to)
    BY <2>1, <2>2, WithStatusAllowed
  <2>3. CASE /\ FreeRows # {}
             /\ row' = [row EXCEPT ![r].qty = @ - 1,
                          ![NewRow] = [row[r] EXCEPT !.qty = 1, !.status = to]]
    <3>1. \E n, new : row' = [row EXCEPT ![r].qty = n, ![NewRow] = new]
      BY <2>3
    <3> QED
      BY <2>1, <2>3, <3>1, NewRowAllowed
  <2> QED
    BY <1>4, <2>2, <2>3 DEF MoveOne
<1>5. ASSUME NEW S \in SUBSET Rows, CancelItems(S)
      PROVE  \A s \in Rows : Allowed(s)
  <2>1. \A r \in S : /\ row[r] # NoRow
                     /\ <<row[r].status, "CANCELLED">> \in AllowedItemTransitions
    BY <1>5 DEF CancelItems, AllowedItemTransitions, LiveItem
  <2> QED
    BY <1>5, <2>1, WithStatusAllowed DEF CancelItems
<1>6. ASSUME NEW S \in SUBSET Rows, NEW to \in ItemTargets, UpdateItemsStatus(S, to)
      PROVE  \A s \in Rows : Allowed(s)
  BY <1>6, WithStatusAllowed DEF UpdateItemsStatus
<1>7. ASSUME NEW r \in Rows, NEW q \in 1..QtyCap, CancelPartialInterrupted(r, q)
      PROVE  \A s \in Rows : Allowed(s)
  BY <1>7 DEF CancelPartialInterrupted, Allowed
<1> QED
  BY <1>1, <1>2, <1>3, <1>4, <1>5, <1>6, <1>7 DEF ItemNext

LEMMA NextAllowed ==
  ASSUME TypeOK, [Next]_vars
  PROVE  \A r \in Rows : Allowed(r)
<1>1. CASE KitchenNext
  <2>1. ASSUME NEW t \in Tickets, NEW q \in 1..QtyCap, CancelFromKitchen(t, q)
        PROVE  \A r \in Rows : Allowed(r)
    BY <2>1 DEF CancelFromKitchen, Allowed, TypeOK, Item
  <2> QED
    BY <1>1, <2>1
    DEF KitchenNext, NotifyItems, VoidAfterNotify, DeleteTicket, UpdateTicketStatus, Allowed
<1>2. CASE PayNext \/ UNCHANGED vars
  BY <1>2 DEF PayNext, CreateInvoice, PayPart, PayRest, vars, Allowed
<1> QED
  BY <1>1, <1>2, OrderNextAllowed, ItemNextAllowed DEF Next

\* Whatever a handler does to a line that exists before and after it, the
\* line's status stays or moves along ALLOWED_ITEM_TRANSITIONS.
THEOREM LinesFollowTheMap == Spec => ItemStatusSteps
<1>1. TypeOK /\ [Next]_vars =>
        [\A r \in Rows :
           row[r] # NoRow /\ row'[r] # NoRow =>
             \/ row'[r].status = row[r].status
             \/ <<row[r].status, row'[r].status>> \in AllowedItemTransitions]_vars
  BY NextAllowed DEF Allowed
<1> QED
  BY <1>1, TypeCorrect, PTL DEF Spec, ItemStatusSteps

----------------------------------------------------------------------------
(* Paid invoices                                                           *)

\* Only mergeOrders gives an order the status MERGED.
LEMMA RecomputedNotMerged ==
  ASSUME NEW st, NEW rows, NEW S, NEW o \in Orders, Recomputed(st, rows, S)[o] = "MERGED"
  PROVE  st[o] = "MERGED"
BY DEF Recomputed, Derive

LEMMA OnlyMergeMerges ==
  ASSUME TypeOK, [Next]_vars, "merge" \notin Endpoints,
         NEW p \in Orders, status'[p] = "MERGED"
  PROVE  status[p] = "MERGED"
<1>1. ASSUME NEW o \in Orders, NEW to, to # "MERGED", NEW rows,
             status' = Recomputed([status EXCEPT ![o] = to], rows, {o})
      PROVE  status[p] = "MERGED"
  <2> DEFINE st == [status EXCEPT ![o] = to]
  <2>1. st[p] = "MERGED" => status[p] = "MERGED"
    BY <1>1 DEF TypeOK
  <2>2. status' = Recomputed(st, rows, {o})
    BY <1>1
  <2> HIDE DEF st
  <2> QED
    BY <2>1, <2>2, RecomputedNotMerged
<1>2. ASSUME NEW rows, NEW S, status' = Recomputed(status, rows, S)
      PROVE  status[p] = "MERGED"
  BY <1>2, RecomputedNotMerged
<1>3. CASE OrderNext
  <2>1. PICK o \in Orders :
          \/ CreateEmpty(o)
          \/ \E m \in Menu, q \in 1..MaxQty : Create(o, m, q) \/ AddItems(o, m, q)
          \/ \E to \in OrderTargets : UpdateStatus(o, to)
          \/ UpdateStatusCancelled(o)
          \/ Cancel(o)
          \/ CancelInterrupted(o)
          \/ \E r \in Rows, q \in 1..QtyCap : Split(r, q, o)
    BY <1>3 DEF OrderNext, Merge
  <2>2. CASE CreateEmpty(o) \/ \E m \in Menu, q \in 1..MaxQty : Create(o, m, q)
    BY <1>1, <2>2 DEF CreateEmpty, Create
  <2>3. CASE \E m \in Menu, q \in 1..MaxQty : AddItems(o, m, q)
    BY <1>2, <2>3 DEF AddItems
  <2>4. CASE \E to \in OrderTargets : UpdateStatus(o, to)
    BY <1>1, <2>4 DEF UpdateStatus, AllowedTransitions
  <2>5. CASE UpdateStatusCancelled(o)
    BY <1>1, <2>5 DEF UpdateStatusCancelled
  <2>6. CASE Cancel(o) \/ CancelInterrupted(o)
    BY <2>6 DEF Cancel, CancelInterrupted, TypeOK
  <2>7. CASE \E r \in Rows, q \in 1..QtyCap : Split(r, q, o)
    <3>1. status' = [status EXCEPT ![o] = IF @ = "NONE" THEN "PENDING" ELSE @]
      BY <2>7 DEF Split
    <3> QED
      BY <3>1 DEF TypeOK
  <2> QED
    BY <2>1, <2>2, <2>3, <2>4, <2>5, <2>6, <2>7
<1>4. CASE ItemNext \/ KitchenNext
  <2>1. \/ UNCHANGED status
        \/ \E rows, S : status' = Recomputed(status, rows, S)
    BY <1>4 DEF ItemNext, RemoveItem, SetItemQty, CancelPartial, CancelPartialInterrupted,
                MoveOne, CancelItems, UpdateItemsStatus, KitchenNext, NotifyItems,
                VoidAfterNotify, DeleteTicket, CancelFromKitchen, UpdateTicketStatus
  <2> QED
    BY <1>2, <2>1
<1>5. CASE PayNext \/ UNCHANGED vars
  BY <1>5 DEF PayNext, CreateInvoice, PayPart, PayRest, vars, TypeOK
<1> QED
  BY <1>3, <1>4, <1>5 DEF Next

\* An invoice becomes PAID together with its order.
LEMMA InvoicePaidWithOrder ==
  ASSUME TypeOK, [Next]_vars, NEW p \in Orders, invoice'[p] = "PAID", invoice[p] # "PAID"
  PROVE  status'[p] = "PAID"
<1>1. CASE PayNext
  BY <1>1 DEF PayNext, CreateInvoice, PayPart, PayRest, TypeOK
<1>2. CASE \E o \in Orders : Cancel(o)
  BY <1>2 DEF Cancel, TypeOK
<1>3. CASE UNCHANGED invoice
  BY <1>3
<1>4. CASE KitchenNext \/ ItemNext \/ UNCHANGED vars
  BY <1>3, <1>4
  DEF ItemNext, RemoveItem, SetItemQty, CancelPartial, CancelPartialInterrupted, MoveOne,
      CancelItems, UpdateItemsStatus, KitchenNext, NotifyItems, VoidAfterNotify, DeleteTicket,
      CancelFromKitchen, UpdateTicketStatus, vars
<1>5. CASE OrderNext
  <2>1. ASSUME NEW o \in Orders, NEW m, NEW q, Create(o, m, q) \/ AddItems(o, m, q)
        PROVE  UNCHANGED invoice
    BY <2>1 DEF Create, AddItems
  <2>2. ASSUME NEW o \in Orders, NEW to,
               \/ CreateEmpty(o) \/ UpdateStatus(o, to) \/ UpdateStatusCancelled(o)
               \/ CancelInterrupted(o) \/ Merge(o, to)
        PROVE  UNCHANGED invoice
    BY <2>2
    DEF CreateEmpty, UpdateStatus, UpdateStatusCancelled, CancelInterrupted, Merge
  <2>3. ASSUME NEW o \in Orders, NEW r, NEW q, Split(r, q, o)
        PROVE  UNCHANGED invoice
    BY <2>3 DEF Split
  <2> QED
    BY <1>2, <1>3, <1>5, <2>1, <2>2, <2>3 DEF OrderNext
<1> QED
  BY <1>1, <1>4, <1>5 DEF Next

\* Unless orders are merged away, the order of a paid invoice is PAID and no
\* endpoint on its lines, its status or its tickets reopens it.
THEOREM PaidInvoicesCloseOrders ==
  ASSUME "merge" \notin Endpoints
  PROVE  Spec => []PaidInvoiceClosesOrder
<1>1. Init => PaidInvoiceClosesOrder
  BY DEF Init, PaidInvoiceClosesOrder
<1>2. TypeOK /\ PaidInvoiceClosesOrder /\ [Next]_vars => PaidInvoiceClosesOrder'
  <2> SUFFICES ASSUME TypeOK, PaidInvoiceClosesOrder, [Next]_vars,
                      NEW o \in Orders, invoice'[o] = "PAID"
               PROVE  status'[o] = "PAID"
    BY DEF PaidInvoiceClosesOrder
  <2>1. CASE invoice[o] = "PAID"
    <3>1. status[o] = "PAID"
      BY <2>1 DEF PaidInvoiceClosesOrder
    <3>2. status'[o] \in {"PAID", "MERGED"}
      BY <3>1, NextStaysClosed DEF StaysClosed
    <3> QED
      BY <3>1, <3>2, OnlyMergeMerges
  <2>2. CASE invoice[o] # "PAID"
    BY <2>2, InvoicePaidWithOrder
  <2> QED
    BY <2>1, <2>2
<1> QED
  BY <1>1, <1>2, TypeCorrect, PTL DEF Spec

----------------------------------------------------------------------------
(* Cancelled orders                                                        *)

Dead(o) == \A r \in RowsOf(row, o) : row[r].status \notin LiveItem

\* recomputeOrderStatus cancels an order only when all its lines are.
LEMMA RecomputedCancels ==
  ASSUME NEW st, NEW rows, NEW S, NEW o \in Orders,
         Recomputed(st, rows, S)[o] = "CANCELLED"
  PROVE  st[o] = "CANCELLED" \/ \A r \in RowsOf(rows, o) : rows[r].status = "CANCELLED"
BY DEF Recomputed, Derive

\* No step brings a live line to a cancelled order.
NothingRevived ==
  \A r \in Rows : row'[r] # NoRow /\ status[row'[r].order] = "CANCELLED" =>
    \/ row[r] # NoRow /\ row'[r].order = row[r].order
    \/ row'[r].status \notin LiveItem

\* No step cancels an order that keeps a live line.
CancelsDead ==
  \A o \in Orders : status'[o] = "CANCELLED" => status[o] = "CANCELLED" \/ Dead(o)'

LEMMA CancelledStep ==
  ASSUME TypeOK, TypeOK', CancelledHasNoLiveLines, [Next]_vars, NothingRevived, CancelsDead
  PROVE  CancelledHasNoLiveLines'
<1> SUFFICES ASSUME NEW o \in Orders, status'[o] = "CANCELLED",
                    NEW r \in Rows, row'[r] # NoRow, row'[r].order = o
             PROVE  row'[r].status \notin LiveItem
  BY DEF CancelledHasNoLiveLines, RowsOf
<1>1. CASE Dead(o)'
  BY <1>1 DEF Dead, RowsOf
<1>2. CASE status[o] = "CANCELLED" /\ row[r] # NoRow /\ row[r].order = o
  <2>1. row[r].status \notin LiveItem
    BY <1>2 DEF CancelledHasNoLiveLines, RowsOf
  <2>2. \/ row'[r].status = row[r].status
        \/ <<row[r].status, row'[r].status>> \in AllowedItemTransitions
    BY <1>2, NextAllowed DEF Allowed
  <2> QED
    BY <2>1, <2>2 DEF AllowedItemTransitions, LiveItem
<1> QED
  BY <1>1, <1>2 DEF CancelsDead, NothingRevived

\* Writing a status other than CANCELLED, or none, and recomputing.
LEMMA RecomputeCancelsDead ==
  ASSUME TypeOK, NEW S, status' = Recomputed(status, row', S)
  PROVE  CancelsDead
BY RecomputedCancels DEF CancelsDead, Dead, LiveItem

LEMMA WriteCancelsDead ==
  ASSUME TypeOK, NEW o \in Orders, NEW to, to # "CANCELLED", NEW S,
         status' = Recomputed([status EXCEPT ![o] = to], row', S)
  PROVE  CancelsDead
<1> DEFINE st == [status EXCEPT ![o] = to]
<1>1. \A p \in Orders : st[p] = "CANCELLED" => status[p] = "CANCELLED"
  BY DEF TypeOK
<1>2. status' = Recomputed(st, row', S)
  OBVIOUS
<1> HIDE DEF st
<1> QED
  BY <1>1, <1>2, RecomputedCancels DEF CancelsDead, Dead, LiveItem

\* Rows that exist stay with their order; nothing is added.
RowsStayPut ==
  \A r \in Rows : row'[r] # NoRow => row[r] # NoRow /\ row'[r].order = row[r].order

LEMMA StayingRevivesNothing == ASSUME RowsStayPut PROVE NothingRevived
BY DEF RowsStayPut, NothingRevived

LEMMA WithStatusStaysPut ==
  ASSUME TypeOK, NEW S, \A r \in S : row[r] # NoRow, NEW to, row' = WithStatus(row, S, to)
  PROVE  RowsStayPut
<1> SUFFICES ASSUME NEW r \in Rows, row'[r] # NoRow
             PROVE  row[r] # NoRow /\ row'[r].order = row[r].order
  BY DEF RowsStayPut
<1>1. row'[r] \in {row[r], [row[r] EXCEPT !.status = to]} /\ row[r] # NoRow
  BY DEF WithStatus
<1> QED
  BY <1>1 DEF TypeOK, Item

\* A row is added to an order that is not CANCELLED.
LEMMA NewRowRevivesNothing ==
  ASSUME TypeOK, NEW o \in Orders, status[o] # "CANCELLED", NEW new, new.order = o,
         FreeRows # {}, row' = [row EXCEPT ![NewRow] = new]
  PROVE  NothingRevived
BY NewRowType DEF NothingRevived, TypeOK

\* ... or split off from a line that is still live, if at all.
LEMMA SplitOffRevivesNothing ==
  ASSUME TypeOK, CancelledHasNoLiveLines, NEW r \in Rows, row[r] # NoRow,
         row[r].status \in LiveItem, NEW n, NEW new, new.order = row[r].order,
         FreeRows # {}, row' = [row EXCEPT ![r].qty = n, ![NewRow] = new]
  PROVE  NothingRevived
<1>1. row[NewRow] = NoRow /\ NewRow \in Rows /\ row[r] \in Item
  BY NewRowType DEF TypeOK
<1>2. row' = [[row EXCEPT ![r] = [row[r] EXCEPT !.qty = n]] EXCEPT ![NewRow] = new]
  OBVIOUS
<1>3. /\ row'[NewRow] = new
      /\ \A s \in Rows \ {NewRow} : row'[s] = IF s = r THEN [row[r] EXCEPT !.qty = n] ELSE row[s]
  BY <1>1, <1>2 DEF TypeOK
<1>4. [row[r] EXCEPT !.qty = n].order = row[r].order
  BY <1>1 DEF Item
<1>5. status[row[r].order] # "CANCELLED"
  BY <1>1 DEF CancelledHasNoLiveLines, RowsOf, Item
<1> QED
  BY <1>1, <1>3, <1>4, <1>5 DEF NothingRevived

LEMMA OrderNextCancels ==
  ASSUME TypeOK, TypeOK', CancelledHasNoLiveLines, "CANCELLED" \notin OrderTargets, OrderNext
  PROVE  NothingRevived /\ CancelsDead
<1>1. PICK o \in Orders :
        \/ CreateEmpty(o)
        \/ \E m \in Menu, q \in 1..MaxQty : Create(o, m, q) \/ AddItems(o, m, q)
        \/ \E to \in OrderTargets : UpdateStatus(o, to)
        \/ Cancel(o)
        \/ CancelInterrupted(o)
        \/ \E to \in Orders : Merge(o, to)
        \/ \E r \in Rows, q \in 1..QtyCap : Split(r, q, o)
  BY DEF OrderNext, UpdateStatusCancelled
<1>2. ASSUME UNCHANGED row PROVE RowsStayPut
  BY <1>2 DEF RowsStayPut
<1>3. CASE \/ CreateEmpty(o)
           \/ \E to \in OrderTargets : UpdateStatus(o, to)
  <2>1. UNCHANGED row
    BY <1>3 DEF CreateEmpty, UpdateStatus
  <2>2. PICK to : /\ to # "CANCELLED"
                  /\ status' = Recomputed([status EXCEPT ![o] = to], row, {o})
    BY <1>3 DEF CreateEmpty, UpdateStatus
  <2>3. CancelsDead
    BY <2>1, <2>2, WriteCancelsDead
  <2> QED
    BY <1>2, <2>1, <2>3, StayingRevivesNothing
<1>4. CASE \E m \in Menu, q \in 1..MaxQty : Create(o, m, q) \/ AddItems(o, m, q)
  <2>1. PICK m \in Menu, q \in 1..MaxQty : Create(o, m, q) \/ AddItems(o, m, q)
    BY <1>4
  <2> DEFINE new == [order |-> o, menu |-> m, qty |-> q, status |-> "PENDING"]
  <2>2. /\ status[o] # "CANCELLED" /\ FreeRows # {}
        /\ row' = [row EXCEPT ![NewRow] = new] /\ new.order = o
    BY <2>1 DEF Create, AddItems, Editable
  <2> HIDE DEF new
  <2>3. NothingRevived
    BY <2>2, NewRowRevivesNothing
  <2>4. CASE Create(o, m, q)
    BY <2>3, <2>4, WriteCancelsDead DEF Create
  <2>5. CASE AddItems(o, m, q)
    BY <2>3, <2>5, RecomputeCancelsDead DEF AddItems
  <2> QED
    BY <2>1, <2>4, <2>5
<1>5. CASE Cancel(o)
  <2> DEFINE live == {r \in RowsOf(row, o) : row[r].status \in LiveItem}
  <2>1. row' = WithStatus(row, live, "CANCELLED") /\ status' = [status EXCEPT ![o] = "CANCELLED"]
    BY <1>5 DEF Cancel
  <2>2. RowsStayPut
    <3>1. \A r \in live : row[r] # NoRow
      BY DEF RowsOf
    <3> HIDE DEF live
    <3> QED
      BY <2>1, <3>1, WithStatusStaysPut
  <2>3. Dead(o)'
    <3> SUFFICES ASSUME NEW r \in Rows, row'[r] # NoRow, row'[r].order = o
                 PROVE  row'[r].status \notin LiveItem
      BY DEF Dead, RowsOf
    <3>1. row[r] # NoRow /\ row[r].order = o /\ row[r] \in Item
      BY <2>2 DEF RowsStayPut, TypeOK
    <3>2. CASE r \in live
      <4>1. row'[r].status = "CANCELLED"
        BY <2>1, <3>1, <3>2 DEF WithStatus, Item
      <4> QED
        BY <4>1 DEF LiveItem
    <3>3. CASE r \notin live
      BY <2>1, <3>1, <3>3 DEF WithStatus, RowsOf
    <3> QED
      BY <3>2, <3>3
  <2>4. CancelsDead
    BY <2>1, <2>3 DEF CancelsDead, TypeOK
  <2> QED
    BY <2>2, <2>4, StayingRevivesNothing
<1>6. CASE CancelInterrupted(o)
  BY <1>2, <1>6, StayingRevivesNothing DEF CancelInterrupted, CancelsDead
<1>7. CASE \E to \in Orders : Merge(o, to)
  <2>1. PICK to \in Orders : Merge(o, to)
    BY <1>7
  <2>2. CancelsDead
    BY <2>1 DEF Merge, CancelsDead, TypeOK
  <2>3. NothingRevived
    <3>1. PICK keep \in Keepers(o, to) : row' = MergedRows(o, to, keep)
      BY <2>1 DEF Merge
    <3> SUFFICES ASSUME NEW r \in Rows, row'[r] # NoRow, row'[r].order # to
                 PROVE  row[r] # NoRow /\ row'[r].order = row[r].order
      BY <2>1 DEF NothingRevived, Merge, Editable
    <3>2. \/ row'[r] = row[r]
          \/ r \in {keep[m] : m \in Dishes(o)} /\ \E n : row'[r] = [row[r] EXCEPT !.order = to, !.qty = n]
      BY <3>1 DEF MergedRows, CascadeSave
    <3>3. CASE row'[r] # row[r]
      <4>1. PICK m \in Dishes(o) : r = keep[m]
        BY <3>2, <3>3
      <4>2. row[r] \in Item
        BY <4>1 DEF Keepers, DishRows, RowsOf, TypeOK
      <4> QED
        BY <3>2, <3>3, <4>2 DEF Item
    <3> QED
      BY <3>3
  <2> QED
    BY <2>2, <2>3
<1>8. CASE \E r \in Rows, q \in 1..QtyCap : Split(r, q, o)
  <2>1. PICK r \in Rows, q \in 1..QtyCap : Split(r, q, o)
    BY <1>8
  <2>2. CancelsDead
    <3>1. status' = [status EXCEPT ![o] = IF @ = "NONE" THEN "PENDING" ELSE @]
      BY <2>1 DEF Split
    <3> QED
      BY <3>1 DEF CancelsDead, TypeOK
  <2>3. NothingRevived
    <3> DEFINE same == DishRows(o, row[r].menu)
               reduced == [row EXCEPT ![r] =
                             IF q = row[r].qty THEN NoRow
                             ELSE [row[r] EXCEPT !.qty = @ - q]]
    <3>1. row[r] \in Item /\ row[r] # NoRow /\ status[o] # "CANCELLED"
      BY <2>1 DEF Split, TypeOK, Editable
    <3>2. PICK target \in IF same # {} THEN same ELSE FreeRows :
            row' = IF same = {}
                   THEN [reduced EXCEPT ![target] = [row[r] EXCEPT !.order = o, !.qty = q]]
                   ELSE IF reduced[target] = NoRow THEN reduced
                   ELSE [reduced EXCEPT ![target].qty = row[target].qty + q]
      BY <2>1 DEF Split
    <3>3. target \in Rows /\ (same # {} => row[target] # NoRow /\ row[target].order = o)
      BY <3>2 DEF DishRows, RowsOf, FreeRows
    <3>4. /\ DOMAIN reduced = Rows
          /\ \A s \in Rows : reduced[s] # NoRow => row[s] # NoRow /\ reduced[s].order = row[s].order
          /\ \A s \in Rows : \A n : reduced[s] # NoRow => [reduced[s] EXCEPT !.qty = n].order = row[s].order
      BY <3>1 DEF TypeOK, Item
    <3>5. [row[r] EXCEPT !.order = o, !.qty = q].order = o
      BY <3>1 DEF Item
    <3> HIDE DEF reduced, same
    <3> SUFFICES ASSUME NEW s \in Rows, row'[s] # NoRow, row'[s].order # o
                 PROVE  row[s] # NoRow /\ row'[s].order = row[s].order
      BY <3>1 DEF NothingRevived
    <3>6. CASE same = {}
      BY <3>2, <3>3, <3>4, <3>5, <3>6
    <3>7. CASE same # {} /\ reduced[target] = NoRow
      BY <3>2, <3>4, <3>7
    <3>8. CASE same # {} /\ reduced[target] # NoRow
      <4>1. row' = [reduced EXCEPT ![target] = [reduced[target] EXCEPT !.qty = row[target].qty + q]]
        BY <3>2, <3>8
      <4>2. row'[target].order = o
        BY <3>3, <3>4, <3>8, <4>1
      <4>3. row'[s] = reduced[s]
        BY <3>4, <4>1, <4>2
      <4> QED
        BY <3>4, <4>3
    <3> QED
      BY <3>6, <3>7, <3>8
  <2> QED
    BY <2>2, <2>3
<1> QED
  BY <1>1, <1>3, <1>4, <1>5, <1>6, <1>7, <1>8

LEMMA ItemNextCancels ==
  ASSUME TypeOK, TypeOK', CancelledHasNoLiveLines, ItemNext
  PROVE  NothingRevived /\ CancelsDead
<1>1. CancelsDead
  <2>1. \/ UNCHANGED <<status, row>>
        \/ \E S : status' = Recomputed(status, row', S)
    BY DEF ItemNext, RemoveItem, SetItemQty, CancelPartial, CancelPartialInterrupted, MoveOne,
           CancelItems, UpdateItemsStatus
  <2> QED
    BY <2>1, RecomputeCancelsDead DEF CancelsDead
<1>2. ASSUME NEW r \in Rows, RemoveItem(r) PROVE RowsStayPut
  BY <1>2 DEF RemoveItem, RowsStayPut, TypeOK
<1>3. ASSUME NEW r \in Rows, NEW q \in 0..MaxQty, SetItemQty(r, q) PROVE RowsStayPut
  <2>1. row[r] \in Item /\ row[r] # NoRow
    BY <1>3 DEF SetItemQty, TypeOK
  <2>2. row' = [row EXCEPT ![r] = IF q = 0 THEN NoRow ELSE [row[r] EXCEPT !.qty = q]]
    BY <1>3 DEF SetItemQty
  <2>3. [row[r] EXCEPT !.qty = q].order = row[r].order
    BY <2>1 DEF Item
  <2> QED
    BY <2>1, <2>2, <2>3 DEF RowsStayPut, TypeOK
<1>4. ASSUME NEW S \in SUBSET Rows, CancelItems(S) \/ \E to \in ItemTargets : UpdateItemsStatus(S, to)
      PROVE  RowsStayPut
  BY <1>4, WithStatusStaysPut DEF CancelItems, UpdateItemsStatus
<1>5. ASSUME NEW r \in Rows, NEW q \in 1..QtyCap, CancelPartialInterrupted(r, q) PROVE RowsStayPut
  BY <1>5 DEF CancelPartialInterrupted, RowsStayPut
<1>6. ASSUME NEW r \in Rows,
             \/ \E q \in 1..QtyCap : CancelPartial(r, q)
             \/ \E to \in ItemTargets : MoveOne(r, to)
      PROVE  NothingRevived
  <2>1. row[r] # NoRow /\ row[r] \in Item /\ row[r].status \in LiveItem
    BY <1>6 DEF CancelPartial, MayCancelPartial, MoveOne, AllowedItemTransitions, LiveItem, TypeOK
  <2>2. CASE \E s : row' = WithStatus(row, {r}, s)
    BY <2>1, <2>2, WithStatusStaysPut, StayingRevivesNothing
  <2>3. CASE /\ FreeRows # {}
             /\ \E n, k, s : row' = [row EXCEPT ![r].qty = n,
                                ![NewRow] = [row[r] EXCEPT !.qty = k, !.status = s]]
    <3>1. PICK n, k, s : row' = [row EXCEPT ![r].qty = n,
                                ![NewRow] = [row[r] EXCEPT !.qty = k, !.status = s]]
      BY <2>3
    <3> DEFINE new == [row[r] EXCEPT !.qty = k, !.status = s]
    <3>2. new.order = row[r].order /\ row' = [row EXCEPT ![r].qty = n, ![NewRow] = new]
      BY <2>1, <3>1 DEF Item
    <3> HIDE DEF new
    <3> QED
      BY <2>1, <2>3, <3>2, SplitOffRevivesNothing
  <2> QED
    BY <1>6, <2>2, <2>3 DEF CancelPartial, MoveOne
<1> QED
  BY <1>1, <1>2, <1>3, <1>4, <1>5, <1>6, StayingRevivesNothing DEF ItemNext

LEMMA KitchenNextCancels ==
  ASSUME TypeOK, TypeOK', KitchenNext
  PROVE  NothingRevived /\ CancelsDead
<1>1. CASE UNCHANGED <<status, row>>
  BY <1>1 DEF NothingRevived, CancelsDead
<1>2. ASSUME NEW t \in Tickets, NEW q \in 1..QtyCap, CancelFromKitchen(t, q)
      PROVE  NothingRevived /\ CancelsDead
  <2>1. RowsStayPut
    <3> SUFFICES ASSUME NEW r \in Rows, row'[r] # NoRow
                 PROVE  row[r] # NoRow /\ row'[r].order = row[r].order
      BY DEF RowsStayPut
    <3>1. row'[r] = row[r] \/ (row[r] # NoRow /\ row'[r] = [row[r] EXCEPT !.qty = @ - q])
      BY <1>2 DEF CancelFromKitchen
    <3> QED
      BY <3>1 DEF TypeOK, Item
  <2>2. CancelsDead
    BY <1>2, RecomputeCancelsDead DEF CancelFromKitchen
  <2> QED
    BY <2>1, <2>2, StayingRevivesNothing
<1> QED
  BY <1>1, <1>2 DEF KitchenNext, NotifyItems, VoidAfterNotify, DeleteTicket, UpdateTicketStatus

\* Unless PATCH /orders/:id/status is used to cancel, a cancelled order has no
\* line that could still be cooked or carried: lines are cancelled with it, and
\* no merge, split or edit brings a live one to it.
THEOREM CancelledOrdersAreDead ==
  ASSUME "CANCELLED" \notin OrderTargets
  PROVE  Spec => []CancelledHasNoLiveLines
<1>1. Init => CancelledHasNoLiveLines
  BY DEF Init, CancelledHasNoLiveLines
<1>2. TypeOK /\ TypeOK' /\ CancelledHasNoLiveLines /\ [Next]_vars => CancelledHasNoLiveLines'
  <2> SUFFICES ASSUME TypeOK, TypeOK', CancelledHasNoLiveLines, [Next]_vars
               PROVE  NothingRevived /\ CancelsDead
    BY CancelledStep
  <2>1. CASE PayNext \/ UNCHANGED vars
    BY <2>1
    DEF PayNext, CreateInvoice, PayPart, PayRest, vars, NothingRevived, CancelsDead, TypeOK
  <2> QED
    BY <2>1, OrderNextCancels, ItemNextCancels, KitchenNextCancels DEF Next
<1> QED
  BY <1>1, <1>2, TypeCorrect, PTL DEF Spec

----------------------------------------------------------------------------
(***************************************************************************)
(* Between the tables                                                      *)
(*                                                                         *)
(* A kitchen ticket belongs to the order and the dish of its row in every  *)
(* instance; an order's status is the one its lines give, and stock and    *)
(* lines add up, where the endpoints that break it are not called.  Most   *)
(* handlers neither relink a ticket nor move a row another ticket points   *)
(* at (TicketsStay, RowsStay); merging, splitting and notifying are the    *)
(* ones with an argument of their own.                                     *)
(***************************************************************************)

\* The tickets of the next state are tickets of this one, linked as before.
TicketsStay ==
  \A t \in Tickets : ticket'[t] # NoTicket =>
    /\ ticket[t] # NoTicket
    /\ ticket'[t].order = ticket[t].order
    /\ ticket'[t].menu = ticket[t].menu
    /\ ticket'[t].item = ticket[t].item

Unlinked(r) == \A t \in Tickets : ticket[t] # NoTicket => ticket[t].item # r

\* Every row of the next state is where it was, unless no ticket knows its id.
RowsStay ==
  \A r \in Rows : row'[r] # NoRow =>
    \/ /\ row[r] # NoRow
       /\ row'[r].order = row[r].order
       /\ row'[r].menu = row[r].menu
    \/ Unlinked(r)

LEMMA StayingKeepsLinks ==
  ASSUME TypeOK, TicketFollowsItem, TicketsStay, RowsStay
  PROVE  TicketFollowsItem'
<1> SUFFICES ASSUME NEW t \in Tickets, ticket'[t] # NoTicket, ticket'[t].item # NoItem,
                    row'[ticket'[t].item] # NoRow
             PROVE  /\ row'[ticket'[t].item].order = ticket'[t].order
                    /\ row'[ticket'[t].item].menu = ticket'[t].menu
  BY DEF TicketFollowsItem
<1>1. /\ ticket[t] # NoTicket
      /\ ticket'[t].order = ticket[t].order
      /\ ticket'[t].menu = ticket[t].menu
      /\ ticket'[t].item = ticket[t].item
  BY DEF TicketsStay
<1>2. ticket[t].item \in Rows
  BY <1>1 DEF TypeOK, Ticket
<1>3. /\ row[ticket[t].item] # NoRow
      /\ row'[ticket[t].item].order = row[ticket[t].item].order
      /\ row'[ticket[t].item].menu = row[ticket[t].item].menu
  BY <1>1, <1>2 DEF RowsStay, Unlinked
<1> QED
  BY <1>1, <1>3 DEF TicketFollowsItem

LEMMA UnchangedTicketsStay == ASSUME UNCHANGED ticket PROVE TicketsStay
BY DEF TicketsStay

LEMMA UnchangedRowsStay == ASSUME UNCHANGED row PROVE RowsStay
BY DEF RowsStay

LEMMA NewRowUnlinked == ASSUME FreeRows # {} PROVE NewRow \in Rows /\ Unlinked(NewRow)
BY NewRowType DEF Unlinked

LEMMA WithStatusStays ==
  ASSUME TypeOK, NEW S \in SUBSET Rows, NEW to, \A r \in S : row[r] # NoRow,
         row' = WithStatus(row, S, to)
  PROVE  RowsStay
<1>1. \A r \in S : row[r] \in Item
  BY DEF TypeOK
<1> QED
  BY <1>1 DEF WithStatus, RowsStay, TypeOK, Item

----------------------------------------------------------------------------
(* Handlers that move neither rows nor tickets                             *)

LEMMA DeskRowsStay ==
  ASSUME TypeOK, NEW o \in Orders, NEW m \in Menu, NEW q \in 1..MaxQty,
         Create(o, m, q) \/ AddItems(o, m, q)
  PROVE  RowsStay /\ TicketsStay
<1>1. NewRow \in Rows /\ Unlinked(NewRow)
  BY NewRowUnlinked DEF Create, AddItems
<1>2. row' = [row EXCEPT ![NewRow] =
                [order |-> o, menu |-> m, qty |-> q, status |-> "PENDING"]]
  BY DEF Create, AddItems
<1>3. TicketsStay
  BY UnchangedTicketsStay DEF Create, AddItems
<1> QED
  BY <1>1, <1>2, <1>3 DEF RowsStay, TypeOK

LEMMA RemoveItemStays ==
  ASSUME TypeOK, NEW r \in Rows, RemoveItem(r)
  PROVE  RowsStay /\ TicketsStay
BY UnchangedTicketsStay DEF RemoveItem, RowsStay, TypeOK

LEMMA SetItemQtyStays ==
  ASSUME TypeOK, NEW r \in Rows, NEW q \in 0..MaxQty, SetItemQty(r, q)
  PROVE  RowsStay /\ TicketsStay
<1>1. row[r] \in Item /\ row[r] # NoRow
  BY DEF SetItemQty, TypeOK
<1>2. row' = [row EXCEPT ![r] = IF q = 0 THEN NoRow ELSE [row[r] EXCEPT !.qty = q]]
  BY DEF SetItemQty
<1>3. row'[r] # NoRow => row'[r].order = row[r].order /\ row'[r].menu = row[r].menu
  BY <1>1, <1>2 DEF TypeOK, Item
<1>4. \A s \in Rows \ {r} : row'[s] = row[s]
  BY <1>2 DEF TypeOK
<1>5. TicketsStay
  BY UnchangedTicketsStay DEF SetItemQty
<1> QED
  BY <1>1, <1>3, <1>4, <1>5 DEF RowsStay

LEMMA UpdateStatusCancelledStays ==
  ASSUME TypeOK, NEW o \in Orders, UpdateStatusCancelled(o)
  PROVE  RowsStay /\ TicketsStay
<1>1. row' = row
  BY DEF UpdateStatusCancelled, CascadeSave, WithStatus, TypeOK
<1> QED
  BY <1>1, UnchangedRowsStay, UnchangedTicketsStay DEF UpdateStatusCancelled

LEMMA VoidAllByOrderStays ==
  ASSUME TypeOK, NEW o \in Orders, VoidAllByOrder(o)
  PROVE  TicketsStay
<1>1. \A t \in TicketsOf(o) : ticket[t] \in Ticket /\ ticket[t] # NoTicket
  BY DEF TypeOK, TicketsOf
<1> QED
  BY <1>1 DEF VoidAllByOrder, TicketsStay, TypeOK, Ticket

LEMMA CancelStays ==
  ASSUME TypeOK, NEW o \in Orders, Cancel(o) \/ CancelInterrupted(o)
  PROVE  RowsStay /\ TicketsStay
<1>1. CASE Cancel(o)
  <2> DEFINE live == {r \in RowsOf(row, o) : row[r].status \in LiveItem}
  <2>1. row' = WithStatus(row, live, "CANCELLED")
    BY <1>1 DEF Cancel
  <2>2. live \in SUBSET Rows /\ \A r \in live : row[r] # NoRow
    BY DEF RowsOf
  <2> HIDE DEF live
  <2> QED
    BY <1>1, <2>1, <2>2, WithStatusStays, VoidAllByOrderStays DEF Cancel
<1>2. CASE CancelInterrupted(o)
  BY <1>2, UnchangedRowsStay, VoidAllByOrderStays DEF CancelInterrupted
<1> QED
  BY <1>1, <1>2

LEMMA CancelItemsStays ==
  ASSUME TypeOK, NEW S \in SUBSET Rows, CancelItems(S)
  PROVE  RowsStay /\ TicketsStay
<1>1. RowsStay
  BY WithStatusStays DEF CancelItems
<1>2. TicketsStay
  BY DEF CancelItems, TicketsStay
<1> QED
  BY <1>1, <1>2

LEMMA VoidTicketsByMenuStays ==
  ASSUME TypeOK, NEW o, NEW m, NEW q, VoidTicketsByMenu(o, m, q)
  PROVE  TicketsStay
<1> DEFINE victims == {t \in TicketsOf(o) : /\ ticket[t].menu = m
                                            /\ ticket[t].status \in {"PENDING", "CONFIRMED"}}
<1>1. PICK left \in [victims -> 0..QtyCap] :
        ticket' = [t \in Tickets |->
                     IF t \notin victims THEN ticket[t]
                     ELSE IF left[t] = 0 THEN NoTicket
                     ELSE [ticket[t] EXCEPT !.qty = left[t]]]
  BY Zenon DEF VoidTicketsByMenu
<1>2. \A t \in victims : t \in Tickets /\ ticket[t] # NoTicket /\ ticket[t] \in Ticket
  BY DEF TicketsOf, TypeOK
<1> HIDE DEF victims
<1> QED
  BY <1>1, <1>2 DEF TicketsStay, Ticket

LEMMA CancelPartialStays ==
  ASSUME TypeOK, NEW r \in Rows, NEW q \in 1..QtyCap,
         CancelPartial(r, q) \/ CancelPartialInterrupted(r, q)
  PROVE  RowsStay /\ TicketsStay
<1>1. row[r] \in Item /\ row[r] # NoRow
  BY DEF CancelPartial, CancelPartialInterrupted, MayCancelPartial, TypeOK
<1>2. TicketsStay
  BY VoidTicketsByMenuStays DEF CancelPartial, CancelPartialInterrupted
<1>3. CASE CancelPartialInterrupted(r, q)
  BY <1>2, <1>3, UnchangedRowsStay DEF CancelPartialInterrupted
<1>4. CASE q = row[r].qty /\ row' = WithStatus(row, {r}, "CANCELLED")
  BY <1>1, <1>2, <1>4, WithStatusStays
<1>5. CASE /\ q < row[r].qty /\ FreeRows # {}
           /\ row' = [row EXCEPT ![r].qty = @ - q,
                        ![NewRow] = [row[r] EXCEPT !.qty = q, !.status = "CANCELLED"]]
  <2>1. row' = [[row EXCEPT ![r] = [row[r] EXCEPT !.qty = @ - q]]
                  EXCEPT ![NewRow] = [row[r] EXCEPT !.qty = q, !.status = "CANCELLED"]]
    BY <1>5
  <2> QED
    BY <1>1, <1>2, <1>5, <2>1, NewRowUnlinked DEF RowsStay, TypeOK, Item
<1> QED
  BY <1>3, <1>4, <1>5 DEF CancelPartial

LEMMA MoveOneStays ==
  ASSUME TypeOK, NEW r \in Rows, NEW to \in ItemTargets, MoveOne(r, to)
  PROVE  RowsStay /\ TicketsStay
<1>1. row[r] \in Item /\ row[r] # NoRow
  BY DEF MoveOne, TypeOK
<1>2. TicketsStay
  BY UnchangedTicketsStay DEF MoveOne
<1>3. CASE /\ row[r].qty > 1 /\ FreeRows # {}
           /\ row' = [row EXCEPT ![r].qty = @ - 1,
                        ![NewRow] = [row[r] EXCEPT !.qty = 1, !.status = to]]
  <2>1. row' = [[row EXCEPT ![r] = [row[r] EXCEPT !.qty = @ - 1]]
                  EXCEPT ![NewRow] = [row[r] EXCEPT !.qty = 1, !.status = to]]
    BY <1>3
  <2> QED
    BY <1>1, <1>2, <1>3, <2>1, NewRowUnlinked DEF RowsStay, TypeOK, Item
<1>4. CASE row' = WithStatus(row, {r}, to)
  BY <1>1, <1>2, <1>4, WithStatusStays
<1> QED
  BY <1>3, <1>4 DEF MoveOne

LEMMA UpdateTicketStatusStays ==
  ASSUME TypeOK, NEW S \in SUBSET Tickets, NEW to, UpdateTicketStatus(S, to)
  PROVE  RowsStay /\ TicketsStay
<1>1. \A t \in S : ticket[t] \in Ticket /\ ticket[t] # NoTicket
  BY DEF UpdateTicketStatus, TypeOK
<1>2. TicketsStay
  BY <1>1 DEF UpdateTicketStatus, TicketsStay, Ticket
<1> QED
  BY <1>2, UnchangedRowsStay DEF UpdateTicketStatus

LEMMA DeleteTicketStays ==
  ASSUME TypeOK, NEW t \in Tickets, DeleteTicket(t)
  PROVE  RowsStay /\ TicketsStay
BY UnchangedRowsStay DEF DeleteTicket, TicketsStay, TypeOK

LEMMA CancelFromKitchenStays ==
  ASSUME TypeOK, NEW t \in Tickets, NEW q \in 1..QtyCap, CancelFromKitchen(t, q)
  PROVE  RowsStay /\ TicketsStay
<1>1. ticket[t] \in Ticket /\ ticket[t] # NoTicket
  BY DEF CancelFromKitchen, TypeOK
<1>2. TicketsStay
  BY <1>1 DEF CancelFromKitchen, TicketsStay, TypeOK, Ticket
<1>3. RowsStay
  BY DEF CancelFromKitchen, RowsStay, TypeOK, Item
<1> QED
  BY <1>2, <1>3

----------------------------------------------------------------------------
(* Handlers that link tickets anew                                         *)

\* notifyItems ties the new ticket to a row of its own order and dish.
LEMMA NotifyItemsKeepsLinks ==
  ASSUME TypeOK, TicketFollowsItem, NEW o \in Orders, NEW m \in Menu, NEW q \in 1..MaxQty,
         NotifyItems(o, m, q)
  PROVE  TicketFollowsItem'
<1>1. PICK i \in IF DishRows(o, m) # {} THEN DishRows(o, m) ELSE {NoItem} :
        ticket' = [ticket EXCEPT ![NewTicket] =
          [order |-> o, menu |-> m, qty |-> q, status |-> "PENDING", item |-> i]]
  BY DEF NotifyItems
<1>2. i # NoItem => row[i].order = o /\ row[i].menu = m
  BY <1>1 DEF DishRows, RowsOf
<1>3. NewTicket \in Tickets /\ row' = row
  BY NewTicketType DEF NotifyItems
<1> QED
  BY <1>1, <1>2, <1>3 DEF TicketFollowsItem, TypeOK

\* mergeOrders: a dish's keeper stands in the target afterwards; the source's
\* tickets point at keepers or at rows that do not exist.
LEMMA MergeKeepsLinks ==
  ASSUME TypeOK, TicketFollowsItem, NEW from \in Orders, NEW to \in Orders, Merge(from, to)
  PROVE  TicketFollowsItem'
<1>1. PICK keep \in Keepers(from, to) :
        row' = MergedRows(from, to, keep) /\ ticket' = MergedTickets(from, to, keep)
  BY DEF Merge
<1> DEFINE kept == {keep[m] : m \in Dishes(from)}
<1>2. \A m \in Dishes(from) :
        /\ keep[m] \in Rows /\ row[keep[m]] # NoRow /\ row[keep[m]].menu = m
        /\ row[keep[m]].order \in {from, to}
  BY DEF Keepers, DishRows, RowsOf
<1>3. \A r \in kept : row'[r].order = to /\ row'[r].menu = row[r].menu
  <2> SUFFICES ASSUME NEW r \in kept
               PROVE  row'[r].order = to /\ row'[r].menu = row[r].menu
    OBVIOUS
  <2>1. r \in Rows /\ row[r] \in Item
    BY <1>2 DEF TypeOK
  <2>2. \E n : row'[r] = [row[r] EXCEPT !.order = to, !.qty = n]
    BY <1>1, <2>1 DEF MergedRows, CascadeSave
  <2> QED
    BY <2>1, <2>2 DEF Item
<1>4. \A r \in Rows \ kept : row'[r] = row[r]
  BY <1>1 DEF MergedRows, CascadeSave, RowsOf
<1>5. SUFFICES ASSUME NEW t \in Tickets, ticket'[t] # NoTicket, ticket'[t].item # NoItem,
                      row'[ticket'[t].item] # NoRow
               PROVE  /\ row'[ticket'[t].item].order = ticket'[t].order
                      /\ row'[ticket'[t].item].menu = ticket'[t].menu
  BY DEF TicketFollowsItem
<1> DEFINE i == ticket[t].item
<1>6. ticket[t] \in Ticket /\ ticket[t] # NoTicket
  BY <1>1, <1>5 DEF MergedTickets, TypeOK, TicketsOf
<1>7. CASE t \notin TicketsOf(from)
  <2>1. ticket'[t] = ticket[t] /\ ticket[t].order # from
    BY <1>1, <1>6, <1>7 DEF MergedTickets, TicketsOf
  <2>2. i \in Rows /\ i # NoItem
    BY <1>5, <1>6, <2>1 DEF Ticket
  <2>3. CASE i \in kept
    <3>1. row[i] # NoRow /\ row[i].order \in {from, to}
      BY <1>2, <2>3
    <3>2. row[i].order = ticket[t].order /\ row[i].menu = ticket[t].menu
      BY <1>6, <2>2, <3>1 DEF TicketFollowsItem
    <3> QED
      BY <1>3, <2>1, <2>3, <3>1, <3>2
  <2>4. CASE i \notin kept
    BY <1>4, <1>5, <1>6, <2>1, <2>2, <2>4 DEF TicketFollowsItem
  <2> QED
    BY <2>3, <2>4
<1>8. CASE t \in TicketsOf(from) /\ i \in RowsOf(row, from)
  <2>1. /\ i \in Rows /\ row[i] # NoRow /\ row[i].menu \in Dishes(from)
        /\ i # NoItem
    BY <1>8, NullsAssumption DEF RowsOf, Dishes
  <2>2. row[i].menu = ticket[t].menu
    BY <1>6, <2>1 DEF TicketFollowsItem
  <2>3. ticket'[t] = [ticket[t] EXCEPT !.order = to, !.item = keep[row[i].menu]]
    BY <1>1, <1>8, <2>1 DEF MergedTickets
  <2>4. /\ ticket'[t].order = to /\ ticket'[t].menu = ticket[t].menu
        /\ ticket'[t].item = keep[row[i].menu]
    BY <1>6, <2>3 DEF Ticket
  <2> QED
    BY <1>2, <1>3, <2>1, <2>2, <2>4
<1>9. CASE t \in TicketsOf(from) /\ i \notin RowsOf(row, from)
  <2>1. ticket'[t].item = i /\ i # NoItem
    BY <1>1, <1>5, <1>6, <1>9 DEF MergedTickets, Ticket
  <2>2. i \in Rows
    BY <1>6, <2>1 DEF Ticket
  <2>3. row[i] = NoRow
    BY <1>6, <1>9, <2>1, <2>2 DEF TicketFollowsItem, RowsOf, TicketsOf
  <2>4. row'[i] = NoRow
    BY <1>2, <1>4, <2>2, <2>3
  <2> QED
    BY <1>5, <2>1, <2>4
<1> QED
  BY <1>7, <1>8, <1>9

\* splitOrder: what moves points at the target row, which is of the same dish
\* and of the order it moves to.
LEMMA SplitKeepsLinks ==
  ASSUME TypeOK, TicketFollowsItem, NEW r \in Rows, NEW q \in 1..QtyCap, NEW to \in Orders,
         Split(r, q, to)
  PROVE  TicketFollowsItem'
<1> DEFINE same == DishRows(to, row[r].menu)
           from == row[r].order
           reduced == [row EXCEPT ![r] =
                         IF q = row[r].qty THEN NoRow
                         ELSE [row[r] EXCEPT !.qty = @ - q]]
<1>1. row[r] \in Item /\ row[r] # NoRow
  BY DEF Split, TypeOK
<1>2. PICK target \in IF same # {} THEN same ELSE FreeRows :
        /\ same = {} => target = NewRow
        /\ row' = IF same = {}
                  THEN [reduced EXCEPT ![target] = [row[r] EXCEPT !.order = to, !.qty = q]]
                  ELSE IF reduced[target] = NoRow THEN reduced
                  ELSE [reduced EXCEPT ![target].qty = row[target].qty + q]
        /\ \E moved \in TicketMoves(r, q) : SplitTickets(to, target, moved)
  BY DEF Split
<1>3. target \in Rows
  BY <1>2 DEF DishRows, RowsOf, FreeRows
<1>4. /\ reduced \in [Rows -> Item \cup {NoRow, reduced[r]}]
      /\ \A s \in Rows : reduced[s] # NoRow =>
           /\ row[s] # NoRow /\ reduced[s].order = row[s].order /\ reduced[s].menu = row[s].menu
  BY <1>1 DEF TypeOK, Item
<1>5. row'[target] # NoRow => row'[target].order = to /\ row'[target].menu = row[r].menu
  <2>1. CASE same = {}
    BY <1>1, <1>2, <1>3, <1>4, <2>1 DEF Item
  <2>2. CASE same # {}
    BY <1>1, <1>2, <1>3, <1>4, <2>2 DEF DishRows, RowsOf, Item
  <2> QED
    BY <2>1, <2>2
<1>6. RowsStay
  <2>1. \A s \in Rows \ {target} : row'[s] = reduced[s]
    <3> HIDE DEF same, reduced
    <3>1. \A x : \A s \in Rows \ {target} : [reduced EXCEPT ![target] = x][s] = reduced[s]
      BY <1>4
    <3>2. \E x : row' \in {reduced, [reduced EXCEPT ![target] = x]}
      BY <1>2
    <3> QED
      BY <3>1, <3>2
  <2>2. CASE same = {}
    <3>1. Unlinked(target)
      BY <1>2, <2>2 DEF FreeRows, Unlinked
    <3> QED
      BY <1>4, <2>1, <3>1 DEF RowsStay
  <2>3. CASE same # {}
    <3>1. row[target] # NoRow /\ row[target].order = to /\ row[target].menu = row[r].menu
      BY <1>2, <2>3 DEF DishRows, RowsOf
    <3> HIDE DEF reduced, same
    <3> QED
      BY <1>4, <1>5, <2>1, <3>1 DEF RowsStay
  <2> QED
    BY <2>2, <2>3
<1>7. PICK moved \in TicketMoves(r, q) : SplitTickets(to, target, moved)
  BY <1>2
<1>8. \A t \in DOMAIN moved :
        /\ t \in Tickets /\ ticket[t] \in Ticket /\ ticket[t] # NoTicket
        /\ ticket[t].item = r /\ ticket[t].menu = row[r].menu
  <2>1. \A t \in DOMAIN moved :
          /\ t \in Tickets /\ ticket[t] \in Ticket /\ ticket[t] # NoTicket /\ ticket[t].item = r
    BY DEF TicketMoves, TicketsOf, TypeOK
  <2> QED
    BY <1>1, <2>1, NullsAssumption DEF TicketFollowsItem
<1>9. \A t \in Tickets : ticket'[t] # NoTicket =>
        \/ /\ ticket[t] # NoTicket /\ ticket'[t].order = ticket[t].order
           /\ ticket'[t].menu = ticket[t].menu /\ ticket'[t].item = ticket[t].item
        \/ /\ ticket'[t].order = to
           /\ ticket'[t].menu = row[r].menu /\ ticket'[t].item = target
  <2> SUFFICES ASSUME NEW t \in Tickets, ticket'[t] # NoTicket
               PROVE  \/ /\ ticket[t] # NoTicket /\ ticket'[t].order = ticket[t].order
                         /\ ticket'[t].menu = ticket[t].menu /\ ticket'[t].item = ticket[t].item
                      \/ /\ ticket'[t].order = to
                         /\ ticket'[t].menu = row[r].menu /\ ticket'[t].item = target
    OBVIOUS
  <2>1. CASE t \in DOMAIN moved \ CutBy(moved) /\ moved[t] > 0
    <3>1. ticket'[t] = [ticket[t] EXCEPT !.order = to, !.item = target]
      BY <1>7, <2>1 DEF SplitTickets
    <3> QED
      BY <1>8, <2>1, <3>1 DEF Ticket
  <2>2. CASE t \in CutBy(moved)
    <3>1. ticket'[t] = [ticket[t] EXCEPT !.qty = @ - moved[t]] /\ t \in DOMAIN moved
      BY <1>7, <2>2 DEF SplitTickets, CutBy
    <3> QED
      BY <1>8, <3>1 DEF Ticket
  <2>3. CASE /\ ~(t \in DOMAIN moved \ CutBy(moved) /\ moved[t] > 0)
             /\ t \notin CutBy(moved) /\ CutBy(moved) # {} /\ t = NewTicket
    <3>1. PICK cut \in CutBy(moved) :
            ticket'[t] = [ticket[cut] EXCEPT !.order = to, !.item = target, !.qty = moved[cut]]
      BY <1>7, <2>3 DEF SplitTickets
    <3>2. cut \in DOMAIN moved
      BY DEF CutBy
    <3> QED
      BY <1>8, <3>1, <3>2 DEF Ticket
  <2>4. CASE /\ ~(t \in DOMAIN moved \ CutBy(moved) /\ moved[t] > 0)
             /\ t \notin CutBy(moved) /\ ~(CutBy(moved) # {} /\ t = NewTicket)
    BY <1>7, <2>4 DEF SplitTickets
  <2> QED
    BY <2>1, <2>2, <2>3, <2>4
<1>10. SUFFICES ASSUME NEW t \in Tickets, ticket'[t] # NoTicket, ticket'[t].item # NoItem,
                       row'[ticket'[t].item] # NoRow
                PROVE  /\ row'[ticket'[t].item].order = ticket'[t].order
                       /\ row'[ticket'[t].item].menu = ticket'[t].menu
  BY DEF TicketFollowsItem
<1>11. CASE /\ ticket'[t].order = to
            /\ ticket'[t].menu = row[r].menu /\ ticket'[t].item = target
  BY <1>5, <1>10, <1>11
<1>12. CASE /\ ticket[t] # NoTicket /\ ticket'[t].order = ticket[t].order
            /\ ticket'[t].menu = ticket[t].menu /\ ticket'[t].item = ticket[t].item
  <2>1. ticket[t].item \in Rows
    BY <1>10, <1>12 DEF TypeOK, Ticket
  <2>2. /\ row[ticket[t].item] # NoRow
        /\ row'[ticket[t].item].order = row[ticket[t].item].order
        /\ row'[ticket[t].item].menu = row[ticket[t].item].menu
    BY <1>6, <1>10, <1>12, <2>1 DEF RowsStay, Unlinked
  <2> QED
    BY <1>10, <1>12, <2>1, <2>2 DEF TicketFollowsItem
<1> QED
  BY <1>9, <1>10, <1>11, <1>12

----------------------------------------------------------------------------

\* In every reachable state a ticket that points at a row is a ticket of the
\* row's order and dish, whatever is merged, split, cancelled or removed.
THEOREM TicketsFollow == Spec => []TicketFollowsItem
<1>1. Init => TicketFollowsItem
  BY DEF Init, TicketFollowsItem
<1>2. TypeOK /\ TicketFollowsItem /\ [Next]_vars => TicketFollowsItem'
  <2> SUFFICES ASSUME TypeOK, TicketFollowsItem, [Next]_vars PROVE TicketFollowsItem'
    OBVIOUS
  <2>1. CASE OrderNext
    <3>1. ASSUME NEW o \in Orders,
                 CreateEmpty(o) \/ \E to \in OrderTargets : UpdateStatus(o, to)
          PROVE  RowsStay /\ TicketsStay
      BY <3>1, UnchangedRowsStay, UnchangedTicketsStay DEF CreateEmpty, UpdateStatus
    <3> QED
      BY <2>1, <3>1, StayingKeepsLinks, DeskRowsStay, UpdateStatusCancelledStays,
         CancelStays, MergeKeepsLinks, SplitKeepsLinks DEF OrderNext
  <2>2. CASE ItemNext
    <3>1. ASSUME NEW S \in SUBSET Rows, NEW to \in ItemTargets, UpdateItemsStatus(S, to)
          PROVE  RowsStay /\ TicketsStay
      BY <3>1, WithStatusStays, UnchangedTicketsStay DEF UpdateItemsStatus
    <3> QED
      BY <2>2, <3>1, StayingKeepsLinks, RemoveItemStays, SetItemQtyStays, CancelPartialStays,
         MoveOneStays, CancelItemsStays DEF ItemNext
  <2>3. CASE KitchenNext
    <3>1. ASSUME NEW o \in Orders, NEW m \in Menu, NEW q \in 1..MaxQty, VoidAfterNotify(o, m, q)
          PROVE  RowsStay /\ TicketsStay
      BY <3>1, UnchangedRowsStay, VoidTicketsByMenuStays DEF VoidAfterNotify
    <3> QED
      BY <2>3, <3>1, StayingKeepsLinks, NotifyItemsKeepsLinks, UpdateTicketStatusStays,
         DeleteTicketStays, CancelFromKitchenStays DEF KitchenNext
  <2>4. CASE PayNext
    <3>1. UNCHANGED <<row, ticket>>
      BY <2>4 DEF PayNext, CreateInvoice, PayPart, PayRest
    <3> QED
      BY <3>1, StayingKeepsLinks, UnchangedRowsStay, UnchangedTicketsStay
  <2>5. CASE UNCHANGED vars
    BY <2>5, StayingKeepsLinks, UnchangedRowsStay, UnchangedTicketsStay DEF vars
  <2> QED
    BY <2>1, <2>2, <2>3, <2>4, <2>5 DEF Next
<1> QED
  BY <1>1, <1>2, TypeCorrect, PTL DEF Spec

----------------------------------------------------------------------------
(* An order has the status of its lines                                    *)

StatusesOf(o) == {row[r].status : r \in RowsOf(row, o)}

\* A step that touches lines of the orders in S only.
TouchesOnly(S) ==
  \A r \in Rows :
    \/ row'[r] = row[r]
    \/ /\ row[r] = NoRow \/ row[r].order \in S
       /\ row'[r] = NoRow \/ row'[r].order \in S

LEMMA StatusesOutside ==
  ASSUME NEW S, TouchesOnly(S), NEW o \in Orders \ S
  PROVE  StatusesOf(o)' = StatusesOf(o)
<1>1. RowsOf(row', o) = RowsOf(row, o)
  BY DEF TouchesOnly, RowsOf
<1>2. \A r \in RowsOf(row, o) : row'[r] = row[r]
  BY DEF TouchesOnly, RowsOf
<1> QED
  BY <1>1, <1>2 DEF StatusesOf

\* Deriving a status from the same lines again changes nothing.
LEMMA DeriveTwice ==
  ASSUME NEW S, NEW current
  PROVE  LET d == Derive(S, current)
         IN d \in {"PAID", "CANCELLED"} \/ d = Derive(S, d)
BY DEF Derive

LEMMA DerivedOf ==
  StatusDerived <=> \A o \in Orders : \/ status[o] \in {"NONE", "PAID", "CANCELLED"}
                                      \/ status[o] = Derive(StatusesOf(o), status[o])
BY DEF StatusDerived, StatusesOf

\* A handler that recomputes the orders whose lines or status it changed.
LEMMA RecomputeDerives ==
  ASSUME StatusDerived, NEW S, TouchesOnly(S),
         NEW st, \A o \in Orders \ S : st[o] = status[o], status' = Recomputed(st, row', S)
  PROVE  StatusDerived'
<1> SUFFICES ASSUME NEW o \in Orders
             PROVE  \/ status'[o] \in {"NONE", "PAID", "CANCELLED"}
                    \/ status'[o] = Derive(StatusesOf(o)', status'[o])
  BY DEF StatusDerived, StatusesOf
<1>1. CASE o \in S
  <2>1. status'[o] = Derive(StatusesOf(o)', st[o])
    BY <1>1 DEF Recomputed, StatusesOf
  <2> QED
    BY <2>1, DeriveTwice
<1>2. CASE o \notin S
  <2>1. status'[o] = status[o] /\ StatusesOf(o)' = StatusesOf(o)
    BY <1>2, StatusesOutside DEF Recomputed
  <2> QED
    BY <2>1, DerivedOf
<1> QED
  BY <1>1, <1>2

\* The handlers that recompute after what they did to lines of their order.
LEMMA EditDerives ==
  ASSUME StatusDerived, NEW S, TouchesOnly(S), status' = Recomputed(status, row', S)
  PROVE  StatusDerived'
BY RecomputeDerives

LEMMA WriteDerives ==
  ASSUME TypeOK, StatusDerived, NEW o \in Orders, TouchesOnly({o}), NEW to,
         status' = Recomputed([status EXCEPT ![o] = to], row', {o})
  PROVE  StatusDerived'
<1> DEFINE st == [status EXCEPT ![o] = to]
<1>1. \A p \in Orders \ {o} : st[p] = status[p]
  BY DEF TypeOK
<1>2. status' = Recomputed(st, row', {o})
  OBVIOUS
<1> HIDE DEF st
<1> QED
  BY <1>1, <1>2, RecomputeDerives

LEMMA WithStatusTouches ==
  ASSUME TypeOK, NEW S \in SUBSET Rows, \A r \in S : row[r] # NoRow, NEW to,
         row' = WithStatus(row, S, to)
  PROVE  TouchesOnly({row[r].order : r \in S})
<1> SUFFICES ASSUME NEW r \in S
             PROVE  row[r].order \in {row[s].order : s \in S} /\ row'[r].order = row[r].order
  BY DEF TouchesOnly, WithStatus
<1>1. row[r] \in Item
  BY DEF TypeOK
<1> QED
  BY <1>1 DEF WithStatus, Item

\* Orders other than o, whose status is left or written as CANCELLED or PAID.
LEMMA CloseDerives ==
  ASSUME TypeOK, StatusDerived, NEW o \in Orders, TouchesOnly({o}),
         NEW to \in {"PAID", "CANCELLED"}, status' = [status EXCEPT ![o] = to]
  PROVE  StatusDerived'
<1> SUFFICES ASSUME NEW p \in Orders \ {o}
             PROVE  \/ status'[p] \in {"NONE", "PAID", "CANCELLED"}
                    \/ status'[p] = Derive(StatusesOf(p)', status'[p])
  BY DEF StatusDerived, StatusesOf, TypeOK
<1>1. status'[p] = status[p] /\ StatusesOf(p)' = StatusesOf(p)
  BY StatusesOutside DEF TypeOK
<1> QED
  BY <1>1, DerivedOf

LEMMA OrderNextDerives ==
  ASSUME TypeOK, StatusDerived, {"merge", "split"} \cap Endpoints = {}, OrderNext
  PROVE  StatusDerived'
<1>0. "merge" \notin Endpoints /\ "split" \notin Endpoints
  OBVIOUS
<1>1. PICK o \in Orders :
        \/ CreateEmpty(o)
        \/ \E m \in Menu, q \in 1..MaxQty : Create(o, m, q) \/ AddItems(o, m, q)
        \/ \E to \in OrderTargets : UpdateStatus(o, to)
        \/ UpdateStatusCancelled(o)
        \/ Cancel(o)
        \/ CancelInterrupted(o)
  <2>1. ASSUME NEW p, NEW to PROVE ~Merge(p, to)
    BY <1>0 DEF Merge
  <2>2. ASSUME NEW r, NEW q, NEW to PROVE ~Split(r, q, to)
    BY <1>0 DEF Split
  <2> QED
    BY <2>1, <2>2 DEF OrderNext
<1>2. CASE \/ CreateEmpty(o)
           \/ \E to \in OrderTargets : UpdateStatus(o, to)
           \/ UpdateStatusCancelled(o)
  <2>1. row' = row
    BY <1>2
    DEF CreateEmpty, UpdateStatus, UpdateStatusCancelled, CascadeSave, WithStatus, TypeOK
  <2>2. \E to : status' = Recomputed([status EXCEPT ![o] = to], row', {o})
    BY <1>2, <2>1 DEF CreateEmpty, UpdateStatus, UpdateStatusCancelled
  <2> QED
    BY <2>1, <2>2, WriteDerives DEF TouchesOnly
<1>3. CASE \E m \in Menu, q \in 1..MaxQty : Create(o, m, q) \/ AddItems(o, m, q)
  <2>1. PICK m \in Menu, q \in 1..MaxQty : Create(o, m, q) \/ AddItems(o, m, q)
    BY <1>3
  <2>2. TouchesOnly({o})
    BY <2>1, NewRowType DEF Create, AddItems, TouchesOnly, TypeOK
  <2>3. CASE Create(o, m, q)
    BY <2>2, <2>3, WriteDerives DEF Create
  <2>4. CASE AddItems(o, m, q)
    BY <2>2, <2>4, EditDerives DEF AddItems
  <2> QED
    BY <2>1, <2>3, <2>4
<1>4. CASE Cancel(o)
  <2> DEFINE live == {r \in RowsOf(row, o) : row[r].status \in LiveItem}
  <2>1. row' = WithStatus(row, live, "CANCELLED") /\ status' = [status EXCEPT ![o] = "CANCELLED"]
    BY <1>4 DEF Cancel
  <2>2. live \in SUBSET Rows /\ \A r \in live : row[r] # NoRow /\ row[r].order = o
    BY DEF RowsOf
  <2> HIDE DEF live
  <2>3. TouchesOnly({o})
    BY <2>1, <2>2, WithStatusTouches DEF TouchesOnly
  <2> QED
    BY <2>1, <2>3, CloseDerives
<1>5. CASE CancelInterrupted(o)
  BY <1>5 DEF CancelInterrupted, StatusDerived
<1> QED
  BY <1>1, <1>2, <1>3, <1>4, <1>5

LEMMA ItemNextDerives ==
  ASSUME TypeOK, StatusDerived, ItemNext
  PROVE  StatusDerived'
<1>1. ASSUME NEW r \in Rows, RemoveItem(r) \/ \E q \in 0..MaxQty : SetItemQty(r, q)
      PROVE  StatusDerived'
  <2>1. row[r] # NoRow /\ row[r] \in Item
    BY <1>1 DEF RemoveItem, SetItemQty, TypeOK
  <2>2. \E new : /\ row' = [row EXCEPT ![r] = new]
                 /\ new = NoRow \/ new.order = row[r].order
    <3>1. \A q : [row[r] EXCEPT !.qty = q].order = row[r].order
      BY <2>1 DEF Item
    <3> QED
      BY <1>1, <3>1 DEF RemoveItem, SetItemQty
  <2>3. TouchesOnly({row[r].order})
    BY <2>1, <2>2 DEF TouchesOnly, TypeOK
  <2> QED
    BY <1>1, <2>3, EditDerives DEF RemoveItem, SetItemQty
<1>2. ASSUME NEW S \in SUBSET Rows, CancelItems(S) \/ \E to \in ItemTargets : UpdateItemsStatus(S, to)
      PROVE  StatusDerived'
  <2>1. \A r \in S : row[r] # NoRow
    BY <1>2 DEF CancelItems, UpdateItemsStatus
  <2>2. PICK to : row' = WithStatus(row, S, to)
    BY <1>2 DEF CancelItems, UpdateItemsStatus
  <2>3. TouchesOnly({row[r].order : r \in S})
    BY <2>1, <2>2, WithStatusTouches
  <2> QED
    BY <1>2, <2>3, EditDerives DEF CancelItems, UpdateItemsStatus
<1>3. ASSUME NEW r \in Rows,
             \/ \E q \in 1..QtyCap : CancelPartial(r, q)
             \/ \E to \in ItemTargets : MoveOne(r, to)
      PROVE  StatusDerived'
  <2>1. row[r] # NoRow /\ row[r] \in Item
    BY <1>3 DEF CancelPartial, MayCancelPartial, MoveOne, TypeOK
  <2>2. ASSUME \E to : row' = WithStatus(row, {r}, to)
        PROVE  TouchesOnly({row[r].order})
    <3>1. PICK to : row' = WithStatus(row, {r}, to)
      BY <2>2
    <3>2. \A s \in {r} : row[s] # NoRow
      BY <2>1
    <3>3. TouchesOnly({row[s].order : s \in {r}})
      BY <3>1, <3>2, WithStatusTouches
    <3>4. {row[s].order : s \in {r}} = {row[r].order}
      OBVIOUS
    <3> QED
      BY <3>3, <3>4
  <2>3. ASSUME /\ FreeRows # {}
               /\ \E n, k, to : row' = [row EXCEPT ![r].qty = n,
                                  ![NewRow] = [row[r] EXCEPT !.qty = k, !.status = to]]
        PROVE  TouchesOnly({row[r].order})
    <3>1. PICK n, k, to : row' = [row EXCEPT ![r].qty = n,
                                    ![NewRow] = [row[r] EXCEPT !.qty = k, !.status = to]]
      BY <2>3
    <3> DEFINE rest == [row[r] EXCEPT !.qty = n]
               new == [row[r] EXCEPT !.qty = k, !.status = to]
    <3>2. rest.order = row[r].order /\ new.order = row[r].order
      BY <2>1 DEF Item
    <3>3. row' = [[row EXCEPT ![r] = rest] EXCEPT ![NewRow] = new]
      BY <3>1
    <3>4. NewRow \in Rows /\ row[NewRow] = NoRow
      BY <2>3, NewRowType
    <3> HIDE DEF rest, new
    <3>5. /\ row'[r] = NoRow \/ row'[r].order = row[r].order
          /\ row'[NewRow].order = row[r].order
          /\ \A s \in Rows \ {r, NewRow} : row'[s] = row[s]
      BY <2>1, <3>2, <3>3, <3>4 DEF TypeOK
    <3> QED
      BY <2>1, <3>4, <3>5 DEF TouchesOnly
  <2>4. ASSUME NEW q \in 1..QtyCap, CancelPartial(r, q)
        PROVE  TouchesOnly({row[r].order})
    <3>1. CASE row' = WithStatus(row, {r}, "CANCELLED")
      BY <2>2, <3>1
    <3>2. CASE /\ FreeRows # {}
               /\ row' = [row EXCEPT ![r].qty = row[r].qty - q,
                            ![NewRow] = [row[r] EXCEPT !.qty = q, !.status = "CANCELLED"]]
      <4>1. \E n, k, to : row' = [row EXCEPT ![r].qty = n,
                                     ![NewRow] = [row[r] EXCEPT !.qty = k, !.status = to]]
        BY <3>2, Zenon
      <4> QED
        BY <2>3, <3>2, <4>1
    <3> QED
      BY <2>4, <3>1, <3>2 DEF CancelPartial
  <2>5. ASSUME NEW to \in ItemTargets, MoveOne(r, to)
        PROVE  TouchesOnly({row[r].order})
    <3>1. CASE row' = WithStatus(row, {r}, to)
      BY <2>2, <3>1
    <3>2. CASE /\ FreeRows # {}
               /\ row' = [row EXCEPT ![r].qty = row[r].qty - 1,
                            ![NewRow] = [row[r] EXCEPT !.qty = 1, !.status = to]]
      <4>1. \E n, k, st : row' = [row EXCEPT ![r].qty = n,
                                     ![NewRow] = [row[r] EXCEPT !.qty = k, !.status = st]]
        BY <3>2, Zenon
      <4> QED
        BY <2>3, <3>2, <4>1
    <3> QED
      BY <2>5, <3>1, <3>2 DEF MoveOne
  <2> QED
    BY <1>3, <2>4, <2>5, EditDerives DEF CancelPartial, MoveOne
<1>4. ASSUME NEW r \in Rows, NEW q \in 1..QtyCap, CancelPartialInterrupted(r, q)
      PROVE  StatusDerived'
  BY <1>4 DEF CancelPartialInterrupted, StatusDerived
<1> QED
  BY <1>1, <1>2, <1>3, <1>4 DEF ItemNext

\* The kitchen recomputes its ticket's order, which is its row's.
LEMMA KitchenNextDerives ==
  ASSUME TypeOK, StatusDerived, TicketFollowsItem, KitchenNext
  PROVE  StatusDerived'
<1>1. CASE UNCHANGED <<status, row>>
  BY <1>1 DEF StatusDerived
<1>2. ASSUME NEW t \in Tickets, NEW q \in 1..QtyCap, CancelFromKitchen(t, q)
      PROVE  StatusDerived'
  <2>1. TouchesOnly({ticket[t].order})
    <3> SUFFICES ASSUME NEW r \in Rows, row'[r] # row[r]
                 PROVE  /\ row[r].order = ticket[t].order
                        /\ row'[r] = NoRow \/ row'[r].order = ticket[t].order
      BY DEF TouchesOnly
    <3>1. /\ r = ticket[t].item /\ row[r] # NoRow /\ row[r] \in Item
          /\ row'[r] = NoRow \/ row'[r] = [row[r] EXCEPT !.qty = @ - q]
      BY <1>2 DEF CancelFromKitchen, TypeOK
    <3>2. row[r].order = ticket[t].order
      BY <1>2, <3>1, NullsAssumption DEF TicketFollowsItem, CancelFromKitchen
    <3> QED
      BY <3>1, <3>2 DEF Item
  <2> QED
    BY <1>2, <2>1, EditDerives DEF CancelFromKitchen
<1> QED
  BY <1>1, <1>2 DEF KitchenNext, NotifyItems, VoidAfterNotify, DeleteTicket, UpdateTicketStatus

\* Where orders are neither merged nor split, an order that is not closed has
\* the status its lines give it: every other handler, also the kitchen's, ends
\* with a recompute of just the orders whose lines it touched.
THEOREM StatusIsDerived ==
  ASSUME {"merge", "split"} \cap Endpoints = {}
  PROVE  Spec => []StatusDerived
<1>1. Init => StatusDerived
  BY DEF Init, StatusDerived
<1>2. TypeOK /\ TicketFollowsItem /\ StatusDerived /\ [Next]_vars => StatusDerived'
  <2> SUFFICES ASSUME TypeOK, TicketFollowsItem, StatusDerived, [Next]_vars
               PROVE  StatusDerived'
    OBVIOUS
  <2>1. ASSUME NEW o \in Orders, PayRest(o) PROVE StatusDerived'
    <3>1. TouchesOnly({o}) /\ status' = [status EXCEPT ![o] = "PAID"]
      BY <2>1 DEF PayRest, TouchesOnly
    <3> QED
      BY <3>1, CloseDerives
  <2>2. CASE PayNext
    <3>1. ASSUME NEW o \in Orders, CreateInvoice(o) \/ PayPart(o) PROVE StatusDerived'
      <4>1. status' = status /\ row' = row
        BY <3>1 DEF CreateInvoice, PayPart
      <4> QED
        BY <4>1 DEF StatusDerived, RowsOf
    <3> QED
      BY <2>1, <2>2, <3>1 DEF PayNext
  <2>3. CASE UNCHANGED vars
    BY <2>3 DEF vars, StatusDerived
  <2> QED
    BY <2>2, <2>3, OrderNextDerives, ItemNextDerives, KitchenNextDerives DEF Next
<1> QED
  BY <1>1, <1>2, TypeCorrect, TicketsFollow, PTL DEF Spec

----------------------------------------------------------------------------
(* Stock and the lines that consumed it add up                             *)

Rowset == [Rows -> Item \cup {NoRow}]

\* What a line has taken of an ingredient and not given back.
Uses(item, g) ==
  IF item # NoRow /\ item.status # "CANCELLED" THEN Recipe[item.menu][g] * item.qty ELSE 0

Consumed(rows, g) == SumFunctionOnSet([r \in Rows |-> Uses(rows[r], g)], Rows)

LEMMA UsesType ==
  ASSUME NEW item \in Item \cup {NoRow}, NEW g \in Ingredients
  PROVE  Uses(item, g) \in Nat
<1>1. CASE item \in Item
  <2>1. Recipe[item.menu][g] \in Nat /\ item.qty \in Nat
    BY <1>1, RecipeAssumption DEF Item, Quantity
  <2> QED
    BY <2>1, ProductType DEF Uses
<1>2. CASE item = NoRow
  BY <1>2 DEF Uses
<1> QED
  BY <1>1, <1>2

LEMMA ConsumedType ==
  ASSUME NEW rows \in Rowset, NEW g \in Ingredients
  PROVE  Consumed(rows, g) \in Nat
<1> DEFINE f == [r \in Rows |-> Uses(rows[r], g)]
<1>1. \A r \in Rows : f[r] \in Nat
  BY UsesType DEF Rowset
<1> HIDE DEF f
<1>2. SumFunctionOnSet(f, Rows) \in Nat
  BY <1>1, SumNat, FiniteAssumption
<1> QED
  BY <1>2 DEF f, Consumed

\* The sum over the lines that are not cancelled is the sum over all ids.
LEMMA UsageIsConsumed ==
  ASSUME NEW rows \in Rowset, NEW g \in Ingredients,
         NEW S \in SUBSET Rows, \A r \in S : rows[r] # NoRow /\ rows[r].status # "CANCELLED",
         NEW rest \in Rowset,
         \A r \in Rows : Uses(rest[r], g) = IF r \in S THEN 0 ELSE Uses(rows[r], g)
  PROVE  LET h == [r \in S |-> Recipe[rows[r].menu][g] * rows[r].qty]
         IN  SumFunction(h) = Consumed(rows, g) - Consumed(rest, g)
<1> DEFINE f == [r \in Rows |-> Uses(rows[r], g)]
           left == [r \in Rows |-> Uses(rest[r], g)]
           gone == [r \in Rows |-> IF r \in S THEN Uses(rows[r], g) ELSE 0]
           h == [r \in S |-> Recipe[rows[r].menu][g] * rows[r].qty]
<1>1. IsFiniteSet(Rows) /\ IsFiniteSet(S)
  BY FiniteAssumption, FS_Subset
<1>2. \A r \in Rows : f[r] \in Nat /\ left[r] \in Nat /\ gone[r] \in Nat
  BY UsesType DEF Rowset
<1>3. \A r \in Rows : f[r] = left[r] + gone[r]
  BY <1>2
<1>4. \A r \in S : gone[r] = h[r]
  BY DEF Uses
<1>5. \A r \in Rows \ S : gone[r] = 0
  OBVIOUS
<1>6. SumFunction(h) = SumFunctionOnSet(h, S)
  BY DEF SumFunction
<1>7. Consumed(rows, g) = SumFunctionOnSet(f, Rows) /\ Consumed(rest, g) = SumFunctionOnSet(left, Rows)
  BY DEF Consumed
<1> HIDE DEF f, left, gone, h
<1>8. SumFunctionOnSet(f, Rows) = SumFunctionOnSet(left, Rows) + SumFunctionOnSet(gone, Rows)
  BY <1>1, <1>2, <1>3, SumPlus
<1>9. SumFunctionOnSet(gone, Rows) = SumFunctionOnSet(gone, S)
  BY <1>1, <1>2, <1>5, SumPart
<1>10. SumFunctionOnSet(gone, S) = SumFunctionOnSet(h, S)
  BY <1>1, <1>2, <1>4, SumSame
<1>11. SumFunctionOnSet(left, Rows) \in Nat /\ SumFunctionOnSet(gone, Rows) \in Nat
  BY <1>1, <1>2, SumNat
<1> QED
  BY <1>6, <1>7, <1>8, <1>9, <1>10, <1>11 DEF h

\* Replacing one row changes the sum by what the old and the new row use.
LEMMA OneRow ==
  ASSUME NEW rows \in Rowset, NEW r \in Rows, NEW new \in Item \cup {NoRow},
         NEW g \in Ingredients
  PROVE  /\ [rows EXCEPT ![r] = new] \in Rowset
         /\ Consumed([rows EXCEPT ![r] = new], g)
              = Consumed(rows, g) - Uses(rows[r], g) + Uses(new, g)
<1> DEFINE next == [rows EXCEPT ![r] = new]
           f == [s \in Rows |-> Uses(rows[s], g)]
           h == [s \in Rows |-> Uses(next[s], g)]
<1>1. next \in Rowset
  BY DEF Rowset
<1>2. \A s \in Rows : f[s] \in Int /\ h[s] \in Int
  <2>1. \A s \in Rows : f[s] \in Nat /\ h[s] \in Nat
    BY <1>1, UsesType DEF Rowset
  <2> QED
    BY <2>1
<1>3. \A s \in Rows \ {r} : f[s] = h[s]
  BY DEF Rowset
<1>4. f[r] = Uses(rows[r], g) /\ h[r] = Uses(new, g)
  BY DEF Rowset
<1>5. Consumed(rows, g) = SumFunctionOnSet(f, Rows) /\ Consumed(next, g) = SumFunctionOnSet(h, Rows)
  BY DEF Consumed
<1> HIDE DEF f, h, next
<1>6. SumFunctionOnSet(h, Rows) = SumFunctionOnSet(f, Rows) - f[r] + h[r]
  BY <1>2, <1>3, SumReplace, FiniteAssumption
<1>7. Consumed(next, g) = Consumed(rows, g) - Uses(rows[r], g) + Uses(new, g)
  BY <1>4, <1>5, <1>6
<1> QED
  BY <1>1, <1>7 DEF next

\* StockConserved in terms of Consumed.
Balanced == \A g \in Ingredients : stock[g] + Consumed(row, g) = InitialStock[g]

LEMMA ConservedIsBalanced == TypeOK => (StockConserved <=> Balanced)
<1> SUFFICES ASSUME TypeOK PROVE StockConserved <=> Balanced
  OBVIOUS
<1> DEFINE live == {r \in Rows : row[r] # NoRow /\ row[r].status # "CANCELLED"}
           none == [r \in Rows |-> NoRow]
<1>1. ASSUME NEW g \in Ingredients PROVE Usage(live)[g] = Consumed(row, g)
  <2>1. row \in Rowset /\ none \in Rowset
    BY DEF TypeOK, Rowset
  <2>2. live \in SUBSET Rows /\ \A r \in live : row[r] # NoRow /\ row[r].status # "CANCELLED"
    OBVIOUS
  <2>3. \A r \in Rows : Uses(none[r], g) = IF r \in live THEN 0 ELSE Uses(row[r], g)
    BY DEF Uses
  <2>4. Consumed(none, g) = 0
    <3> DEFINE f == [r \in Rows |-> Uses(none[r], g)]
    <3>1. \A r \in Rows : f[r] = 0
      BY DEF Uses
    <3>2. Consumed(none, g) = SumFunctionOnSet(f, Rows)
      BY DEF Consumed
    <3> HIDE DEF f
    <3> QED
      BY <3>1, <3>2, SumZero, FiniteAssumption
  <2> HIDE DEF live, none
  <2>5. Usage(live)[g] = SumFunction([r \in live |-> Recipe[row[r].menu][g] * row[r].qty])
    BY DEF Usage
  <2>6. Usage(live)[g] = Consumed(row, g) - Consumed(none, g)
    BY <2>1, <2>2, <2>3, <2>5, UsageIsConsumed
  <2> QED
    BY <2>1, <2>4, <2>6, ConsumedType
<1>2. StockConserved <=> \A g \in Ingredients : stock[g] + Usage(live)[g] = InitialStock[g]
  BY DEF StockConserved
<1> HIDE DEF live
<1> QED
  BY <1>1, <1>2 DEF Balanced

\* A step that keeps the sum of stock and lines.
StockSteps ==
  \A g \in Ingredients : stock'[g] + Consumed(row', g) = stock[g] + Consumed(row, g)

LEMMA StockStepsBalance == ASSUME Balanced, StockSteps PROVE Balanced'
BY DEF Balanced, StockSteps

\* A line that is left out of the sum on one side: new lines, resized lines.
LEMMA OneRowSteps ==
  ASSUME TypeOK, TypeOK', NEW r \in Rows, NEW new \in Item \cup {NoRow},
         row' = [row EXCEPT ![r] = new],
         \A g \in Ingredients : stock'[g] + Uses(new, g) = stock[g] + Uses(row[r], g)
  PROVE  StockSteps
<1> SUFFICES ASSUME NEW g \in Ingredients
             PROVE  stock'[g] + Consumed(row', g) = stock[g] + Consumed(row, g)
  BY DEF StockSteps
<1>1. row \in Rowset /\ row[r] \in Item \cup {NoRow}
  BY DEF TypeOK, Rowset
<1>2. Consumed(row', g) = Consumed(row, g) - Uses(row[r], g) + Uses(new, g)
  BY <1>1, OneRow
<1>3. /\ Uses(row[r], g) \in Nat /\ Uses(new, g) \in Nat /\ Consumed(row, g) \in Nat
      /\ stock[g] \in Nat /\ stock'[g] \in Nat
  BY <1>1, UsesType, ConsumedType DEF TypeOK
<1> QED
  BY <1>2, <1>3

LEMMA SameUseSteps ==
  ASSUME TypeOK, UNCHANGED stock,
         \A r \in Rows, g \in Ingredients : Uses(row'[r], g) = Uses(row[r], g)
  PROVE  StockSteps
<1> SUFFICES ASSUME NEW g \in Ingredients PROVE Consumed(row', g) = Consumed(row, g)
  BY DEF StockSteps
<1>1. [r \in Rows |-> Uses(row'[r], g)] = [r \in Rows |-> Uses(row[r], g)]
  OBVIOUS
<1> QED
  BY <1>1 DEF Consumed

\* cancel, cancelItems: the lines give back what they use.
LEMMA CancelledLinesSteps ==
  ASSUME TypeOK, TypeOK', NEW S \in SUBSET Rows,
         \A r \in S : row[r] # NoRow /\ row[r].status # "CANCELLED",
         GiveBack(Usage(S)), row' = WithStatus(row, S, "CANCELLED")
  PROVE  StockSteps
<1> SUFFICES ASSUME NEW g \in Ingredients
             PROVE  stock'[g] + Consumed(row', g) = stock[g] + Consumed(row, g)
  BY DEF StockSteps
<1>1. row \in Rowset /\ row' \in Rowset
  BY DEF TypeOK, Rowset
<1>2. ASSUME NEW r \in Rows
      PROVE  Uses(row'[r], g) = IF r \in S THEN 0 ELSE Uses(row[r], g)
  <2>1. CASE r \in S
    <3>1. row[r] \in Item
      BY <2>1 DEF TypeOK
    <3>2. row'[r].status = "CANCELLED"
      BY <2>1, <3>1 DEF WithStatus, Item
    <3> QED
      BY <2>1, <3>2 DEF Uses
  <2>2. CASE r \notin S
    BY <2>2 DEF WithStatus
  <2> QED
    BY <2>1, <2>2
<1>3. Usage(S)[g] = SumFunction([r \in S |-> Recipe[row[r].menu][g] * row[r].qty])
  BY DEF Usage
<1>4. Usage(S)[g] = Consumed(row, g) - Consumed(row', g)
  BY <1>1, <1>2, <1>3, UsageIsConsumed
<1>5. stock'[g] = stock[g] + Usage(S)[g]
  BY DEF GiveBack
<1>6. Consumed(row, g) \in Nat /\ Consumed(row', g) \in Nat /\ stock[g] \in Nat
  BY <1>1, ConsumedType DEF TypeOK
<1> QED
  BY <1>4, <1>5, <1>6

LEMMA Distributes == \A a, b, c \in Nat : b <= c => a * c = a * b + a * (c - b)
OBVIOUS

LEMMA NewLineSteps ==
  ASSUME TypeOK, TypeOK', FreeRows # {}, NEW o \in Orders, NEW m \in Menu,
         NEW q \in 1..MaxQty,
         TakeStock(UsageOf(m, q)),
         row' = [row EXCEPT ![NewRow] =
                   [order |-> o, menu |-> m, qty |-> q, status |-> "PENDING"]]
  PROVE  StockSteps
<1> DEFINE new == [order |-> o, menu |-> m, qty |-> q, status |-> "PENDING"]
<1>1. NewRow \in Rows /\ row[NewRow] = NoRow
  BY NewRowType
<1>2. q \in Nat /\ q \in Quantity
  BY BoundsAssumption DEF Quantity
<1>3. new \in Item
  BY <1>2 DEF Item, ItemStatus, LiveItem
<1>4. new # NoRow
  BY <1>3, NullsAssumption
<1>5. \A g \in Ingredients : stock'[g] + Uses(new, g) = stock[g] + Uses(row[NewRow], g)
  <2> SUFFICES ASSUME NEW g \in Ingredients
               PROVE  stock'[g] + Uses(new, g) = stock[g] + Uses(row[NewRow], g)
    OBVIOUS
  <2>1. Recipe[m][g] * q \in Nat
    BY <1>2, ProductType, RecipeAssumption
  <2>2. stock'[g] = stock[g] - Recipe[m][g] * q
    BY DEF TakeStock, UsageOf
  <2>3. Uses(row[NewRow], g) = 0
    BY <1>1 DEF Uses
  <2>4. Uses(new, g) = Recipe[m][g] * q
    BY <1>4 DEF Uses
  <2>5. stock[g] \in Nat
    BY DEF TypeOK
  <2> QED
    BY <2>1, <2>2, <2>3, <2>4, <2>5
<1> HIDE DEF new
<1>6. row' = [row EXCEPT ![NewRow] = new]
  BY DEF new
<1> QED
  BY <1>1, <1>3, <1>5, <1>6, OneRowSteps

\* A line gives k of its portions to a new line in status `to', and gives back
\* what they use if that is CANCELLED.
LEMMA SplitOffSteps ==
  ASSUME TypeOK, TypeOK', NEW r \in Rows, row[r] # NoRow, row[r].status # "CANCELLED",
         FreeRows # {}, NEW k \in Nat, 0 < k, k < row[r].qty, NEW to \in ItemStatus,
         row' = [row EXCEPT ![r].qty = row[r].qty - k,
                            ![NewRow] = [row[r] EXCEPT !.qty = k, !.status = to]],
         \A g \in Ingredients :
            stock'[g] = stock[g] + (IF to = "CANCELLED" THEN Recipe[row[r].menu][g] * k ELSE 0)
  PROVE  StockSteps
<1> DEFINE rest == [row[r] EXCEPT !.qty = row[r].qty - k]
           new == [row[r] EXCEPT !.qty = k, !.status = to]
           mid == [row EXCEPT ![r] = rest]
<1>1. /\ row \in Rowset /\ row[r] \in Item /\ row[r].qty \in Nat
      /\ NewRow \in Rows /\ row[NewRow] = NoRow /\ NewRow # r
  BY NewRowType DEF TypeOK, Rowset, Item, Quantity
<1>2. /\ rest \in Item /\ rest.menu = row[r].menu /\ rest.qty = row[r].qty - k
      /\ rest.status = row[r].status
  BY <1>1 DEF Item, Quantity
<1>3. new \in Item /\ new.menu = row[r].menu /\ new.qty = k /\ new.status = to
  <2>1. k \in Quantity
    BY DEF Quantity
  <2> QED
    BY <1>1, <2>1 DEF Item
<1>4. row' = [mid EXCEPT ![NewRow] = new] /\ mid[NewRow] = NoRow
  BY <1>1 DEF Rowset
<1> HIDE DEF rest, new
<1>5. mid \in Rowset
  BY <1>1, <1>2 DEF Rowset
<1> SUFFICES ASSUME NEW g \in Ingredients
             PROVE  stock'[g] + Consumed(row', g) = stock[g] + Consumed(row, g)
  BY DEF StockSteps
<1>6. Consumed(mid, g) = Consumed(row, g) - Uses(row[r], g) + Uses(rest, g)
  BY <1>1, <1>2, OneRow
<1> HIDE DEF mid
<1>7. Consumed(row', g) = Consumed(mid, g) - Uses(NoRow, g) + Uses(new, g)
  <2>1. Consumed([mid EXCEPT ![NewRow] = new], g)
          = Consumed(mid, g) - Uses(mid[NewRow], g) + Uses(new, g)
    BY <1>1, <1>3, <1>5, OneRow
  <2> QED
    BY <1>4, <2>1
<1> DEFINE a == Recipe[row[r].menu][g]
<1>8. a \in Nat
  BY <1>1, RecipeAssumption DEF Item
<1>9. /\ Uses(row[r], g) = a * row[r].qty /\ Uses(rest, g) = a * (row[r].qty - k)
      /\ Uses(NoRow, g) = 0 /\ Uses(new, g) = IF to = "CANCELLED" THEN 0 ELSE a * k
  BY <1>1, <1>2, <1>3, NullsAssumption DEF Uses
<1>10. stock'[g] = stock[g] + (IF to = "CANCELLED" THEN a * k ELSE 0)
  OBVIOUS
<1> HIDE DEF a
<1>11. /\ a * row[r].qty = a * k + a * (row[r].qty - k)
       /\ a * k \in Nat /\ a * (row[r].qty - k) \in Nat
  <2>1. row[r].qty - k \in Nat /\ k <= row[r].qty
    BY <1>1
  <2> QED
    BY <1>1, <1>8, <2>1, Distributes, ProductType
<1>12. Consumed(row, g) \in Nat /\ stock[g] \in Nat
  BY <1>1, ConsumedType DEF TypeOK
<1> QED
  BY <1>6, <1>7, <1>9, <1>10, <1>11, <1>12

LEMMA OrderNextConserves ==
  ASSUME TypeOK, TypeOK', "merge" \notin Endpoints, "split" \notin Endpoints,
         "CANCELLED" \notin OrderTargets, OrderNext
  PROVE  StockSteps
<1>1. ASSUME NEW o \in Orders, NEW m \in Menu, NEW q \in 1..MaxQty,
             Create(o, m, q) \/ AddItems(o, m, q)
      PROVE  StockSteps
  BY <1>1, NewLineSteps DEF Create, AddItems
<1>2. ASSUME NEW o \in Orders,
             \/ CreateEmpty(o) \/ CancelInterrupted(o)
             \/ \E to \in OrderTargets : UpdateStatus(o, to)
      PROVE  StockSteps
  BY <1>2 DEF CreateEmpty, CancelInterrupted, UpdateStatus, StockSteps
<1>3. ASSUME NEW o \in Orders, Cancel(o)
      PROVE  StockSteps
  <2> DEFINE live == {r \in RowsOf(row, o) : row[r].status \in LiveItem}
  <2>1. GiveBack(Usage(live)) /\ row' = WithStatus(row, live, "CANCELLED")
    BY <1>3 DEF Cancel
  <2>2. /\ live \in SUBSET Rows
        /\ \A r \in live : row[r] # NoRow /\ row[r].status # "CANCELLED"
    BY DEF RowsOf, LiveItem
  <2> HIDE DEF live
  <2> QED
    BY <2>1, <2>2, CancelledLinesSteps
<1>4. ASSUME NEW o \in Orders
      PROVE  /\ ~UpdateStatusCancelled(o)
             /\ \A to \in Orders : ~Merge(o, to)
             /\ \A r \in Rows, q \in 1..QtyCap : ~Split(r, q, o)
  <2>1. ~UpdateStatusCancelled(o)
    BY DEF UpdateStatusCancelled
  <2>2. ASSUME NEW to PROVE ~Merge(o, to)
    BY DEF Merge
  <2>3. ASSUME NEW r, NEW q PROVE ~Split(r, q, o)
    BY DEF Split
  <2> QED
    BY <2>1, <2>2, <2>3
<1> QED
  BY <1>1, <1>2, <1>3, <1>4 DEF OrderNext

\* setItemQty takes or gives back the difference.
LEMMA SetItemQtyConserves ==
  ASSUME TypeOK, TypeOK', NEW r \in Rows, NEW q \in 0..MaxQty, SetItemQty(r, q)
  PROVE  StockSteps
<1> DEFINE new == IF q = 0 THEN NoRow ELSE [row[r] EXCEPT !.qty = q]
<1>1. /\ row[r] # NoRow /\ row[r] \in Item /\ row[r].status # "CANCELLED"
      /\ row[r].qty \in Nat /\ q \in Nat
  BY BoundsAssumption DEF SetItemQty, TypeOK, Item, Quantity
<1>2. row' = [row EXCEPT ![r] = new]
  BY DEF SetItemQty
<1>3. q # 0 => new \in Item /\ new.menu = row[r].menu /\ new.qty = q /\ new.status = row[r].status
  BY <1>1 DEF Item, Quantity
<1>4. q = 0 => new = NoRow
  OBVIOUS
<1> HIDE DEF new
<1>5. ASSUME NEW g \in Ingredients
      PROVE  stock'[g] + Uses(new, g) = stock[g] + Uses(row[r], g)
  <2> DEFINE a == Recipe[row[r].menu][g]
             n == row[r].qty
  <2>1. a \in Nat /\ n \in Nat /\ stock[g] \in Nat
    BY <1>1, RecipeAssumption DEF Item, TypeOK
  <2>2. Uses(row[r], g) = a * n
    BY <1>1 DEF Uses
  <2>3. Uses(new, g) = a * q
    <3>1. CASE q = 0
      BY <1>4, <2>1, <3>1 DEF Uses
    <3>2. CASE q # 0
      BY <1>1, <1>3, <3>2, NullsAssumption DEF Uses
    <3> QED
      BY <3>1, <3>2
  <2>4. stock'[g] = IF q > n THEN stock[g] - a * (q - n) ELSE stock[g] + a * (n - q)
    BY DEF SetItemQty, TakeStock, GiveBack, UsageOf
  <2> HIDE DEF a, n
  <2>5. CASE q > n
    <3>1. a * q = a * n + a * (q - n)
      BY <1>1, <2>1, <2>5, Distributes
    <3>2. a * n \in Nat /\ a * (q - n) \in Nat
      BY <1>1, <2>1, <2>5, ProductType
    <3> QED
      BY <2>1, <2>2, <2>3, <2>4, <2>5, <3>1, <3>2
  <2>6. CASE q <= n
    <3>1. a * n = a * q + a * (n - q)
      BY <1>1, <2>1, <2>6, Distributes
    <3>2. a * q \in Nat /\ a * (n - q) \in Nat
      BY <1>1, <2>1, <2>6, ProductType
    <3>3. ~(q > n)
      BY <1>1, <2>1, <2>6
    <3> QED
      BY <2>1, <2>2, <2>3, <2>4, <3>1, <3>2, <3>3
  <2> QED
    BY <1>1, <2>1, <2>5, <2>6
<1>6. new \in Item \cup {NoRow}
  BY <1>3, <1>4
<1> QED
  BY <1>2, <1>5, <1>6, OneRowSteps

LEMMA CancelPartialConserves ==
  ASSUME TypeOK, TypeOK', NEW r \in Rows, NEW q \in 1..QtyCap, CancelPartial(r, q)
  PROVE  StockSteps
<1>1. /\ row[r] # NoRow /\ row[r] \in Item /\ row[r].status # "CANCELLED"
      /\ row[r].qty \in Nat /\ q \in Nat /\ 0 < q
  BY BoundsAssumption DEF CancelPartial, MayCancelPartial, TypeOK, Item, Quantity
<1>2. \A g \in Ingredients : stock'[g] = stock[g] + Recipe[row[r].menu][g] * q
  BY DEF CancelPartial, GiveBack, UsageOf
<1>3. CASE /\ q = row[r].qty
           /\ row' = WithStatus(row, {r}, "CANCELLED")
  <2> DEFINE new == [row[r] EXCEPT !.status = "CANCELLED"]
  <2>1. new \in Item /\ new.status = "CANCELLED"
    BY <1>1 DEF Item, ItemStatus
  <2>2. row' = [row EXCEPT ![r] = new]
    BY <1>3 DEF WithStatus, TypeOK
  <2> HIDE DEF new
  <2>3. ASSUME NEW g \in Ingredients
        PROVE  stock'[g] + Uses(new, g) = stock[g] + Uses(row[r], g)
    <3>1. Uses(new, g) = 0 /\ Uses(row[r], g) = Recipe[row[r].menu][g] * q
      BY <1>1, <1>3, <2>1 DEF Uses
    <3>2. stock'[g] \in Nat /\ stock'[g] = stock[g] + Uses(row[r], g)
      BY <1>2, <3>1 DEF TypeOK
    <3> QED
      BY <3>1, <3>2
  <2>4. new \in Item \cup {NoRow}
    BY <2>1
  <2> QED
    BY <2>2, <2>3, <2>4, OneRowSteps
<1>4. CASE /\ q < row[r].qty /\ FreeRows # {}
           /\ row' = [row EXCEPT ![r].qty = row[r].qty - q,
                        ![NewRow] = [row[r] EXCEPT !.qty = q, !.status = "CANCELLED"]]
  <2>1. "CANCELLED" \in ItemStatus
    BY DEF ItemStatus
  <2> QED
    BY <1>1, <1>2, <1>4, <2>1, SplitOffSteps
<1> QED
  BY <1>3, <1>4 DEF CancelPartial

\* A line that may move to `to' is not cancelled.
LEMMA MovesAreLive == \A to : <<"CANCELLED", to>> \notin AllowedItemTransitions
BY DEF AllowedItemTransitions, LiveItem

LEMMA MoveOneConserves ==
  ASSUME TypeOK, TypeOK', NEW r \in Rows, NEW to \in ItemTargets, to # "CANCELLED",
         MoveOne(r, to)
  PROVE  StockSteps
<1>1. /\ row[r] # NoRow /\ row[r] \in Item /\ row[r].status # "CANCELLED"
      /\ row[r].qty \in Nat /\ to \in ItemStatus /\ stock' = stock
  BY MovesAreLive, TargetsAssumption DEF MoveOne, TypeOK, Item, Quantity
<1>2. CASE row' = WithStatus(row, {r}, to)
  <2>1. \A s \in Rows, g \in Ingredients : Uses(row'[s], g) = Uses(row[s], g)
    <3> SUFFICES ASSUME NEW g \in Ingredients
                 PROVE  Uses(row'[r], g) = Uses(row[r], g)
      BY <1>2 DEF WithStatus
    <3> DEFINE new == [row[r] EXCEPT !.status = to]
    <3>1. new \in Item /\ new.menu = row[r].menu /\ new.qty = row[r].qty /\ new.status = to
      BY <1>1 DEF Item
    <3>2. row'[r] = new
      BY <1>2 DEF WithStatus
    <3> HIDE DEF new
    <3> QED
      BY <1>1, <3>1, <3>2, NullsAssumption DEF Uses
  <2> QED
    BY <1>1, <2>1, SameUseSteps
<1>3. CASE /\ row[r].qty > 1 /\ FreeRows # {}
           /\ row' = [row EXCEPT ![r].qty = row[r].qty - 1,
                        ![NewRow] = [row[r] EXCEPT !.qty = 1, !.status = to]]
  <2>1. \A g \in Ingredients : stock'[g] = stock[g]
          + (IF to = "CANCELLED" THEN Recipe[row[r].menu][g] * 1 ELSE 0)
    BY <1>1 DEF TypeOK
  <2>2. 1 \in Nat /\ 0 < 1 /\ 1 < row[r].qty
    BY <1>1, <1>3
  <2> QED
    BY <1>1, <1>3, <2>1, <2>2, SplitOffSteps
<1> QED
  BY <1>2, <1>3 DEF MoveOne

LEMMA ItemsStatusConserves ==
  ASSUME TypeOK, TypeOK', NEW S \in SUBSET Rows, NEW to \in ItemTargets, to # "CANCELLED",
         UpdateItemsStatus(S, to)
  PROVE  StockSteps
<1>1. ASSUME NEW r \in Rows, NEW g \in Ingredients
      PROVE  Uses(row'[r], g) = Uses(row[r], g)
  <2>1. CASE r \in S
    <3> DEFINE new == [row[r] EXCEPT !.status = to]
    <3>1. row[r] \in Item /\ row[r].status # "CANCELLED" /\ to \in ItemStatus
      BY <2>1, MovesAreLive, TargetsAssumption DEF UpdateItemsStatus, TypeOK
    <3>2. new \in Item /\ new.menu = row[r].menu /\ new.qty = row[r].qty /\ new.status = to
      BY <3>1 DEF Item
    <3>3. row'[r] = new
      BY <2>1 DEF UpdateItemsStatus, WithStatus
    <3> HIDE DEF new
    <3> QED
      BY <3>1, <3>2, <3>3, NullsAssumption DEF Uses
  <2>2. CASE r \notin S
    BY <2>2 DEF UpdateItemsStatus, WithStatus
  <2> QED
    BY <2>1, <2>2
<1> QED
  BY <1>1, SameUseSteps DEF UpdateItemsStatus

LEMMA ItemNextConserves ==
  ASSUME TypeOK, TypeOK', "removeItem" \notin Endpoints, "CANCELLED" \notin ItemTargets, ItemNext
  PROVE  StockSteps
<1>1. ASSUME NEW S \in SUBSET Rows, CancelItems(S)
      PROVE  StockSteps
  <2>1. GiveBack(Usage(S)) /\ row' = WithStatus(row, S, "CANCELLED")
    BY <1>1 DEF CancelItems
  <2>2. \A r \in S : row[r] # NoRow /\ row[r].status # "CANCELLED"
    BY <1>1 DEF CancelItems
  <2> QED
    BY <2>1, <2>2, CancelledLinesSteps
<1>2. ASSUME NEW r \in Rows, NEW q \in 1..QtyCap, CancelPartialInterrupted(r, q)
      PROVE  StockSteps
  BY <1>2 DEF CancelPartialInterrupted, StockSteps
<1>3. \A r \in Rows : ~RemoveItem(r)
  BY DEF RemoveItem
<1> QED
  BY <1>1, <1>2, <1>3, SetItemQtyConserves, CancelPartialConserves, MoveOneConserves,
     ItemsStatusConserves
  DEF ItemNext

\* Kitchen and till leave rows and stock alone, but for cancelFromKitchen.
LEMMA OtherStepsConserve ==
  ASSUME "kitchenCancel" \notin Endpoints, KitchenNext \/ PayNext \/ UNCHANGED vars
  PROVE  StockSteps
<1>1. ASSUME UNCHANGED <<row, stock>> PROVE StockSteps
  BY <1>1 DEF StockSteps
<1>2. CASE KitchenNext
  <2>1. \A t \in Tickets, q \in 1..QtyCap : ~CancelFromKitchen(t, q)
    BY DEF CancelFromKitchen
  <2> QED
    BY <1>1, <1>2, <2>1
    DEF KitchenNext, NotifyItems, VoidAfterNotify, DeleteTicket, UpdateTicketStatus
<1>3. CASE PayNext
  BY <1>1, <1>3 DEF PayNext, CreateInvoice, PayPart, PayRest
<1>4. CASE UNCHANGED vars
  BY <1>1, <1>4 DEF vars
<1> QED
  BY <1>2, <1>3, <1>4

\* Where lines are only cancelled through cancel, cancelItems and
\* cancelPartial, and neither removed, merged nor split, stock on hand and the
\* lines that are not cancelled account for the initial stock.  Each handler
\* this excludes breaks the sum: the others that cancel restore twice or not
\* at all, removeItem restores a cancelled line again, cancelFromKitchen
\* restores nothing, and merging and self-splitting add portions nobody took.
THEOREM StockIsConserved ==
  ASSUME {"removeItem", "merge", "split", "kitchenCancel"} \cap Endpoints = {},
         "CANCELLED" \notin OrderTargets \cup ItemTargets
  PROVE  Spec => []StockConserved
<1>1. Init => Balanced
  <2> SUFFICES ASSUME Init, NEW g \in Ingredients
               PROVE  stock[g] + Consumed(row, g) = InitialStock[g]
    BY DEF Balanced
  <2> DEFINE f == [r \in Rows |-> Uses(row[r], g)]
  <2>1. \A r \in Rows : f[r] = 0
    BY DEF Init, Uses
  <2>2. Consumed(row, g) = SumFunctionOnSet(f, Rows)
    BY DEF Consumed
  <2> HIDE DEF f
  <2>3. Consumed(row, g) = 0
    BY <2>1, <2>2, SumZero, FiniteAssumption
  <2> QED
    BY <2>3, RecipeAssumption DEF Init
<1>2. TypeOK /\ TypeOK' /\ Balanced /\ [Next]_vars => Balanced'
  <2> SUFFICES ASSUME TypeOK, TypeOK', Balanced, [Next]_vars PROVE Balanced'
    OBVIOUS
  <2>1. /\ "removeItem" \notin Endpoints /\ "merge" \notin Endpoints
        /\ "split" \notin Endpoints /\ "kitchenCancel" \notin Endpoints
        /\ "CANCELLED" \notin OrderTargets /\ "CANCELLED" \notin ItemTargets
    OBVIOUS
  <2>2. StockSteps
    BY <2>1, OrderNextConserves, ItemNextConserves, OtherStepsConserve DEF Next
  <2> QED
    BY <2>2, StockStepsBalance
<1>3. TypeOK /\ Balanced => StockConserved
  BY ConservedIsBalanced
<1> QED
  BY <1>1, <1>2, <1>3, TypeCorrect, PTL DEF Spec

=============================================================================
