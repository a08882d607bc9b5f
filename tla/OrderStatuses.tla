--------------------------- MODULE OrderStatuses ---------------------------
(***************************************************************************)
(* The status vocabulary of orders and order lines, the two transition     *)
(* maps and the function that derives an order's status from its lines.    *)
(* There is no state here: the order desk and the settlement modules share *)
(* these definitions.                                                      *)
(***************************************************************************)

\* Line statuses an order line can still be cooked, carried or cancelled in.
LiveItem == {"PENDING", "CONFIRMED", "PREPARING", "READY"}

ItemStatus == LiveItem \cup {"SERVED", "CANCELLED"}

\* EDITABLE_STATUSES: addItems and removeItem accept only these.
Editable == {"PENDING", "CONFIRMED", "PREPARING", "READY", "SERVED"}

OrderStatus == Editable \cup {"PAID", "CANCELLED", "MERGED"}

\* ALLOWED_TRANSITIONS, as a set of <<from, to>> pairs.
AllowedTransitions ==
  {<<"PENDING", "CONFIRMED">>, <<"CONFIRMED", "PREPARING">>,
   <<"PREPARING", "READY">>, <<"READY", "SERVED">>, <<"SERVED", "PAID">>}
    \cup (Editable \X {"CANCELLED"})

\* ALLOWED_ITEM_TRANSITIONS: the kitchen may start a line that nobody confirmed.
AllowedItemTransitions ==
  {<<"PENDING", "CONFIRMED">>, <<"PENDING", "PREPARING">>,
   <<"CONFIRMED", "PREPARING">>, <<"PREPARING", "READY">>,
   <<"READY", "SERVED">>} \cup (LiveItem \X {"CANCELLED"})

----------------------------------------------------------------------------

\* deriveOrderStatusFromItems: `current` is kept when it is PAID or CANCELLED
\* (MERGED is not in that list), otherwise the lines that are not cancelled
\* decide.  The code's tests only ask which statuses occur.
Derive(itemStatuses, current) ==
  LET active == itemStatuses \ {"CANCELLED"}
  IN IF current \in {"PAID", "CANCELLED"} THEN current
     ELSE CASE active = {}                -> "CANCELLED"
            [] active = {"SERVED"}        -> "SERVED"
            [] /\ active \subseteq {"READY", "SERVED"}
               /\ "READY" \in active      -> "READY"
            [] "PREPARING" \in active     -> "PREPARING"
            [] /\ "PREPARING" \notin active
               /\ "CONFIRMED" \in active  -> "CONFIRMED"
            [] OTHER                      -> "PENDING"

=============================================================================
