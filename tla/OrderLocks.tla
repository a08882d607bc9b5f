----------------------------- MODULE OrderLocks -----------------------------
(***************************************************************************)
(* Requests on orders that overlap: addItems, splitOrder, mergeOrders and  *)
(* the payment that closes an order, each a transaction at READ COMMITTED  *)
(* (order.service.ts, invoice.service.ts).  A request reads, takes row     *)
(* locks one by one, writes, and commits or is rolled back.                *)
(*                                                                         *)
(* mergeOrders and splitOrder lock orders FOR UPDATE.  Nothing locks the   *)
(* stock before reading it, but every UPDATE locks its row to the end of   *)
(* the transaction, and inserting a line locks its order against FOR       *)
(* UPDATE through the foreign key.  A cycle of waiting transactions is     *)
(* broken by the database, which fails one of them.                        *)
(***************************************************************************)
EXTENDS Naturals, Sequences, SequencesExt, FiniteSets, Functions, Relation

CONSTANTS
  Sessions,    \* requests in flight at once
  Orders,      \* open orders of one dish
  Start,       \* portions on each of them, all served
  Items,       \* ingredients, one unit of each in a portion
  Opening,     \* units of each ingredient
  Endpoints,   \* kinds of request that are made
  MaxRequests, \* requests made in a behaviour
  None         \* no request, nothing read

\* A lock taken or planned.  A line's foreign key shares its order, an UPDATE
\* excludes other updates, FOR UPDATE excludes all three.
Modes == {"key", "update", "forUpdate"}
LockSet == [row : Orders \cup Items, mode : Modes]

\* SERVED: every line was brought to the table; PENDING: one was added since.
Statuses == {"SERVED", "PENDING", "PAID", "MERGED"}
Editable == {"SERVED", "PENDING"}

\* A request: the orders it is about, the locks it has still to take, what it
\* has read of the stock or of the orders, and how far an addition has come
\* with the order's status.
Requests ==
  [kind : {"add", "pay", "split", "merge"}, from : Orders, to : Orders, plan : Seq(LockSet),
   before : {None} \cup [Orders -> Nat] \cup [Items -> Nat],
   recompute : {"due", "differs", "same", "write"}]

ASSUME OrderLocksAssumption ==
  /\ Start \in Nat \ {0} /\ Opening \in Nat /\ MaxRequests \in Nat
  /\ IsFiniteSet(Items) /\ IsFiniteSet(Orders) /\ Orders \cap Items = {} /\ None \notin Requests

VARIABLES
  portions,    \* committed portions of every order
  status,      \* committed status of every order
  stock,       \* committed units of every ingredient
  session,     \* Sessions -> the request, or None
  locks,       \* Sessions -> the locks held: [row, mode]
  made         \* requests made so far

vars == <<portions, status, stock, session, locks, made>>

(***************************************************************************)
(* Locks.                                                                  *)
(***************************************************************************)
\* Seeded fault: orders are locked FOR SHARE.
ConflictShared(m, n) ==
  <<m, n>> \notin {<<"key", "key">>, <<"key", "update">>, <<"update", "key">>, <<"forUpdate", "forUpdate">>}

Conflict(m, n) == <<m, n>> \notin {<<"key", "key">>, <<"key", "update">>, <<"update", "key">>}

\* The sessions that hold what s wants next.
WaitsFor(s) ==
  IF session[s] = None \/ session[s].plan = <<>> THEN {}
  ELSE LET want == Head(session[s].plan)
       IN {t \in Sessions \ {s} :
             \E held \in locks[t] : held.row = want.row /\ Conflict(held.mode, want.mode)}

\* The database finds s on a cycle of sessions that wait for each other.
InDeadlock(s) ==
  LET waits == [t, u \in Sessions |-> u \in WaitsFor(t)]
  IN WaitsFor(s) # {} /\ TransitiveClosure(waits, Sessions)[s, s]

Plan(rows, mode) == [k \in DOMAIN rows |-> [row |-> rows[k], mode |-> mode]]

Request(kind, from, to, plan) ==
  [kind |-> kind, from |-> from, to |-> to, plan |-> plan, before |-> None,
   recompute |-> "due"]

Ask(s, request) ==
  /\ session[s] = None /\ made < MaxRequests /\ request.kind \in Endpoints
  /\ session' = [session EXCEPT ![s] = request]
  /\ made' = made + 1
  /\ UNCHANGED <<portions, status, stock, locks>>

\* The end of a transaction, committed or not: all its locks are released.
Release(s) ==
  /\ session' = [session EXCEPT ![s] = None]
  /\ locks' = [locks EXCEPT ![s] = {}]
  /\ UNCHANGED made

\* Seeded fault: a request that is turned down leaves its transaction open.
RollbackWithoutRelease(s) ==
  /\ session' = [session EXCEPT ![s] = None]
  /\ UNCHANGED <<portions, status, stock, locks, made>>

Rollback(s) == Release(s) /\ UNCHANGED <<portions, status, stock>>

(***************************************************************************)
(* The requests.  The stock rows of addItems come in any order, as do the  *)
(* two orders of mergeOrders: one SELECT locks both, and names no order.   *)
(***************************************************************************)
AskAdd(s, o, rows) ==
  /\ status[o] \in Editable
  /\ Ask(s, Request("add", o, o, Plan(<<o>>, "key") \o Plan(rows, "update")))

AskSplit(s, from, to) == Ask(s, Request("split", from, to, Plan(<<from, to>>, "forUpdate")))

AskMerge(s, from, to, rows) == Ask(s, Request("merge", from, to, Plan(rows, "forUpdate")))

\* addPayment asks nothing of the order, only of its invoice.
AskPay(s, o) == Ask(s, Request("pay", o, o, Plan(<<o>>, "update")))

\* splitOrder checks an order once it is locked; mergeOrders the target only,
\* with both locked.
Refused(s, row) ==
  LET r == session[s]
  IN \/ r.kind = "split" /\ status[row] \notin Editable
     \/ r.kind = "split" /\ row = r.from /\ portions[row] < 2
     \/ r.kind = "merge" /\ Len(r.plan) = 1 /\ status[r.to] \notin Editable

\* With its last lock a split or a merge loads the lines of both orders.
Onward(r) ==
  [r EXCEPT !.plan = Tail(@),
            !.before = IF r.kind \in {"split", "merge"} /\ Len(r.plan) = 1 THEN portions ELSE @]

\* Seeded fault: no lock is taken on the orders of a split or a merge.
LockNothing(s) ==
  /\ session[s] # None /\ session[s].plan # <<>>
  /\ session[s].kind = "add" /\ Len(session[s].plan) <= Cardinality(Items) => session[s].before # None
  /\ IF Refused(s, Head(session[s].plan).row) THEN Rollback(s)
     ELSE /\ session' = [session EXCEPT ![s] = Onward(@)]
          /\ UNCHANGED <<portions, status, stock, locks, made>>

Lock(s) ==
  /\ session[s] # None /\ session[s].plan # <<>> /\ WaitsFor(s) = {}
  /\ session[s].kind = "add" /\ Len(session[s].plan) <= Cardinality(Items) => session[s].before # None
  /\ IF Refused(s, Head(session[s].plan).row) THEN Rollback(s)
     ELSE /\ session' = [session EXCEPT ![s] = Onward(@)]
          /\ locks' = [locks EXCEPT ![s] = @ \cup {Head(session[s].plan)}]
          /\ UNCHANGED <<portions, status, stock, made>>

\* applyInventoryDelta reads and checks the stock, after the line is inserted.
ReadStock(s) ==
  /\ session[s] # None /\ session[s].kind = "add" /\ session[s].before = None
  /\ Len(session[s].plan) = Cardinality(Items)
  /\ IF \E x \in Items : stock[x] < 1 THEN Rollback(s)
     ELSE /\ session' = [session EXCEPT ![s].before = stock]
          /\ UNCHANGED <<portions, status, stock, locks, made>>

\* With its line stored and the stock written, an addition is at recompute.
AtRecompute(s, step) ==
  /\ session[s] # None /\ session[s].kind = "add" /\ session[s].plan = <<>>
  /\ session[s].before # None /\ session[s].recompute = step

\* Seeded fault: a merged order stays as it is, too.
RecomputeKeepsMerged(s) ==
  /\ AtRecompute(s, "due")
  /\ session' = [session EXCEPT ![s].recompute =
                   IF status[session[s].from] \in {"PAID", "PENDING", "MERGED"} THEN "same" ELSE "differs"]
  /\ UNCHANGED <<portions, status, stock, locks, made>>

\* recomputeOrderStatus reads the order without a lock.  A paid order stays as
\* it is; the new line makes any other PENDING.
Recompute(s) ==
  /\ AtRecompute(s, "due")
  /\ session' = [session EXCEPT ![s].recompute =
                   IF status[session[s].from] \in {"PAID", "PENDING"} THEN "same" ELSE "differs"]
  /\ UNCHANGED <<portions, status, stock, locks, made>>

\* save reads the order again and sends an UPDATE if its status is still another.
Reselect(s) ==
  LET o == session[s].from
  IN /\ AtRecompute(s, "differs")
     /\ session' = [session EXCEPT ![s] =
          IF status[o] = "PENDING" THEN [@ EXCEPT !.recompute = "same"]
          ELSE [@ EXCEPT !.recompute = "write", !.plan = Plan(<<o>>, "update")]]
     /\ UNCHANGED <<portions, status, stock, locks, made>>

Ready(s, kind) == session[s] # None /\ session[s].kind = kind /\ session[s].plan = <<>>

\* The stock is written from what was read, the status whatever it is by now.
CommitAdd(s) ==
  LET r == session[s]
  IN /\ Ready(s, "add") /\ r.recompute \in {"same", "write"}
     /\ portions' = [portions EXCEPT ![r.from] = @ + 1]
     /\ status' = [status EXCEPT ![r.from] = IF r.recompute = "write" THEN "PENDING" ELSE @]
     /\ stock' = [x \in Items |-> r.before[x] - 1]
     /\ Release(s)

CommitSplit(s) ==
  LET r == session[s]
  IN /\ Ready(s, "split")
     /\ portions' = [portions EXCEPT ![r.from] = r.before[r.from] - 1,
                                         ![r.to] = r.before[r.to] + 1]
     /\ UNCHANGED <<status, stock>>
     /\ Release(s)

\* The target's line takes the quantity of the source's, which is deleted; the
\* cascade of save(from) inserts it again, under the MERGED order.
CommitMerge(s) ==
  LET r == session[s]
  IN /\ Ready(s, "merge")
     /\ portions' = [portions EXCEPT ![r.from] = r.before[r.from],
                                         ![r.to] = r.before[r.to] + r.before[r.from]]
     /\ status' = [status EXCEPT ![r.from] = "MERGED"]
     /\ UNCHANGED stock
     /\ Release(s)

\* An UPDATE by id, whatever the status.
CommitPay(s) ==
  /\ Ready(s, "pay")
  /\ status' = [status EXCEPT ![session[s].from] = "PAID"]
  /\ UNCHANGED <<portions, stock>>
  /\ Release(s)

\* deadlock detected: the transaction is rolled back, the request fails.
Victim(s) == InDeadlock(s) /\ Rollback(s)

(***************************************************************************)
(* Specification.                                                          *)
(***************************************************************************)
Init ==
  /\ portions = [o \in Orders |-> Start] /\ status = [o \in Orders |-> "SERVED"]
  /\ stock = [x \in Items |-> Opening]
  /\ session = [s \in Sessions |-> None] /\ locks = [s \in Sessions |-> {}] /\ made = 0

Commit(s) == CommitAdd(s) \/ CommitSplit(s) \/ CommitMerge(s) \/ CommitPay(s)

Next ==
  \E s \in Sessions :
    \/ \E o \in Orders : (\E rows \in SetToSeqs(Items) : AskAdd(s, o, rows)) \/ AskPay(s, o)
    \/ \E from \in Orders : \E to \in Orders \ {from} :
         AskSplit(s, from, to) \/ \E rows \in {<<from, to>>, <<to, from>>} : AskMerge(s, from, to, rows)
    \/ Lock(s) \/ ReadStock(s) \/ Recompute(s) \/ Reselect(s) \/ Commit(s) \/ Victim(s)

\* A transaction that can go on goes on, and the database looks for deadlocks.
Fairness == \A s \in Sessions :
  /\ WF_vars(Lock(s)) /\ WF_vars(ReadStock(s)) /\ WF_vars(Recompute(s)) /\ WF_vars(Reselect(s))
  /\ WF_vars(Commit(s)) /\ WF_vars(Victim(s))

Spec == Init /\ [][Next]_vars /\ Fairness

IdleHoldNothing == \A s \in Sessions : session[s] = None => locks[s] = {}

TypeOK ==
  /\ portions \in [Orders -> Nat] /\ status \in [Orders -> Statuses]
  /\ stock \in [Items -> Nat] /\ made \in 0..MaxRequests
  /\ session \in [Sessions -> Requests \cup {None}] /\ IdleHoldNothing
  /\ \A s \in Sessions : \A t \in Sessions \ {s} : \A held \in locks[s], other \in locks[t] :
       held.row = other.row => "key" \in {held.mode, other.mode} /\ "forUpdate" \notin {held.mode, other.mode}

(***************************************************************************)
(* What was taken from the stock is on a bill: with a merge, a split, a    *)
(* payment or a second addition under way, no portion ends up on a merged  *)
(* order only.  (A merge leaves a copy behind and two additions may hide   *)
(* each other's stock, so there may be more on the bills, never less.)     *)
(***************************************************************************)
Billed == SumFunction([o \in Orders |-> IF status[o] = "MERGED" THEN 0 ELSE portions[o]])
TakenIsBilled == \A x \in Items : SumFunction([o \in Orders |-> Start]) + Opening <= Billed + stock[x]

(***************************************************************************)
(* However the requests overlap, the orders change as if each request were *)
(* one step: a portion that moves between two orders is not lost, and what *)
(* a merge or a payment closed is not split or merged into.                *)
(***************************************************************************)
Desk == INSTANCE OpenOrders
DeskSpec == Desk!Spec

(***************************************************************************)
(* Every request ends, committed or failed: opposite splits and merges and *)
(* two additions that take the stock rows crosswise do not wait for ever.  *)
(***************************************************************************)
EveryRequestEnds == \A s \in Sessions : session[s] # None ~> session[s] = None

(***************************************************************************)
(* applyInventoryDelta, "validate ton khi OUT": what is ordered was in     *)
(* stock.                                                                  *)
(***************************************************************************)
NeverOversold ==
  SumFunction(portions) <= Start * Cardinality(Orders) + Opening

=============================================================================
