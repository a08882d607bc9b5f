-------------------------- MODULE OrderLocks_proofs --------------------------
(***************************************************************************)
(* Theorems about overlapping requests, for any number of sessions,        *)
(* orders, ingredients and requests: what left the stock is on a bill, and *)
(* the requests change the orders as if each were one step of OpenOrders.  *)
(*                                                                         *)
(* The invariant says of every request which locks it holds or has still   *)
(* to take, and what a lock in hand guarantees: nobody else writes the     *)
(* row, so what was read after locking it is still there at the commit.    *)
(* A line under way shares its order, which cannot be merged meanwhile.    *)
(***************************************************************************)
EXTENDS OrderLocks, SumTheorems, SequenceTheorems

ForUpdate(o) == [row |-> o, mode |-> "forUpdate"]
Key(o) == [row |-> o, mode |-> "key"]

\* The locks on orders a request must hold when it commits.
Needed(r) ==
  CASE r.kind = "add" -> {Key(r.from)}
    [] r.kind = "pay" -> {[row |-> r.from, mode |-> "update"]}
    [] OTHER          -> {ForUpdate(r.from), ForUpdate(r.to)}

\* What is needed is held, or still planned.
Covered(r, held) == \A w \in Needed(r) : w \in held \/ \E k \in DOMAIN r.plan : r.plan[k] = w

\* An addition that leaves the status alone found the order paid or PENDING.
AddOK(r, st) ==
  /\ r.before # None => r.before \in [Items -> Nat \ {0}]
  /\ r.plan = <<>> /\ Items # {} => r.before # None
  /\ r.recompute = "same" => r.plan = <<>> /\ st[r.from] \in {"PAID", "PENDING"}

SplitOK(r, held, ps, st) ==
  /\ ForUpdate(r.from) \in held => st[r.from] \in Editable /\ 2 <= ps[r.from]
  /\ ForUpdate(r.to) \in held => st[r.to] \in Editable

\* With both orders locked, what was read of them is what they hold.
Current(r, ps, st) ==
  /\ r.before \in [Orders -> Nat]
  /\ r.before[r.from] = ps[r.from] /\ r.before[r.to] = ps[r.to]
  /\ st[r.to] \in Editable

RequestOK(r, held, ps, st) ==
  /\ r \in Requests
  /\ Covered(r, held)
  /\ r.kind = "add" => AddOK(r, st)
  /\ r.kind = "split" => SplitOK(r, held, ps, st)
  /\ r.kind \in {"split", "merge"} => r.from # r.to
  /\ r.kind \in {"split", "merge"} /\ r.plan = <<>> => Current(r, ps, st)

Types ==
  /\ portions \in [Orders -> Nat] /\ status \in [Orders -> Statuses]
  /\ stock \in [Items -> Nat] /\ made \in 0..MaxRequests
  /\ session \in [Sessions -> Requests \cup {None}]
  /\ locks \in [Sessions -> SUBSET LockSet]

\* No two sessions hold locks that conflict.
Exclusive ==
  \A s \in Sessions : \A t \in Sessions \ {s} : \A held \in locks[s], other \in locks[t] :
    held.row = other.row => ~Conflict(held.mode, other.mode)

RequestsOK == \A s \in Sessions : session[s] # None => RequestOK(session[s], locks[s], portions, status)

\* What is billed makes up for the stock an addition has read, too: it will
\* write from that, and bill one portion more.
Brought == SumFunction([o \in Orders |-> Start]) + Opening
ReadIsBilled ==
  \A s \in Sessions : session[s] # None /\ session[s].kind = "add" /\ session[s].before # None =>
    \A x \in Items : Brought <= Billed + session[s].before[x]

LocksInv == Types /\ IdleHoldNothing /\ Exclusive /\ RequestsOK /\ TakenIsBilled /\ ReadIsBilled

----------------------------------------------------------------------------
(* The bills.                                                              *)

Bill(ps, st) == [o \in Orders |-> IF st[o] = "MERGED" THEN 0 ELSE ps[o]]

LEMMA BillType ==
  ASSUME NEW ps \in [Orders -> Nat], NEW st
  PROVE  Bill(ps, st) \in [Orders -> Nat] /\ SumFunctionOnSet(Bill(ps, st), Orders) \in Nat
<1>1. Bill(ps, st) \in [Orders -> Nat]
  BY DEF Bill
<1> QED
  BY <1>1, SumNat, OrderLocksAssumption

LEMMA BilledIs ==
  /\ Billed = SumFunctionOnSet(Bill(portions, status), Orders)
  /\ Billed' = SumFunctionOnSet(Bill(portions', status'), Orders)
BY DEF Billed, Bill, SumFunction

LEMMA BroughtType == Brought \in Nat
<1> DEFINE f == [o \in Orders |-> Start]
<1>1. SumFunctionOnSet(f, Orders) \in Nat
  BY SumNat, OrderLocksAssumption
<1> QED
  BY <1>1, OrderLocksAssumption DEF Brought, SumFunction

\* A sum in which two summands change.
LEMMA TwoChange ==
  ASSUME NEW f \in [Orders -> Nat], NEW g \in [Orders -> Nat],
         NEW a \in Orders, NEW b \in Orders, a # b, \A o \in Orders \ {a, b} : g[o] = f[o]
  PROVE  SumFunctionOnSet(g, Orders) = SumFunctionOnSet(f, Orders) - f[a] - f[b] + g[a] + g[b]
<1> DEFINE h == [f EXCEPT ![a] = g[a]]
<1>1. h \in [Orders -> Nat] /\ h[a] = g[a] /\ h[b] = f[b] /\ \A o \in Orders \ {a} : h[o] = f[o]
  OBVIOUS
<1>2. \A o \in Orders \ {b} : g[o] = h[o]
  BY <1>1
<1> HIDE DEF h
<1>3. SumFunctionOnSet(h, Orders) = SumFunctionOnSet(f, Orders) - f[a] + h[a]
  BY <1>1, SumReplace, OrderLocksAssumption
<1>4. SumFunctionOnSet(g, Orders) = SumFunctionOnSet(h, Orders) - h[b] + g[b]
  BY <1>1, <1>2, SumReplace, OrderLocksAssumption
<1>5. SumFunctionOnSet(f, Orders) \in Nat
  BY SumNat, OrderLocksAssumption
<1> QED
  BY <1>1, <1>3, <1>4, <1>5

----------------------------------------------------------------------------
(* Plans.                                                                  *)

LEMMA TailFacts ==
  ASSUME NEW S, NEW p \in Seq(S), p # <<>>
  PROVE  /\ Tail(p) \in Seq(S) /\ Head(p) \in S /\ Len(p) \in Nat /\ 1 <= Len(p)
         /\ \A k \in DOMAIN p : p[k] = Head(p) \/ \E j \in DOMAIN Tail(p) : Tail(p)[j] = p[k]
         /\ Tail(p) = <<>> => Len(p) = 1
<1>1. Tail(p) \in Seq(S) /\ Head(p) \in S /\ Len(Tail(p)) = Len(p) - 1
  BY HeadTailProperties
<1>2. Len(p) \in Nat \ {0} /\ DOMAIN p = 1..Len(p) /\ DOMAIN Tail(p) = 1..Len(Tail(p))
  BY <1>1, EmptySeq, LenProperties
<1>3. ASSUME NEW k \in DOMAIN p, k # 1
      PROVE  \E j \in DOMAIN Tail(p) : Tail(p)[j] = p[k]
  <2>1. k - 1 \in DOMAIN Tail(p) /\ Tail(p)[k - 1] = p[k]
    BY <1>1, <1>2, <1>3
  <2> QED
    BY <2>1
<1>4. p[1] = Head(p)
  OBVIOUS
<1>5. ASSUME Tail(p) = <<>> PROVE Len(p) = 1
  <2>1. Len(Tail(p)) = 0
    BY <1>5, EmptySeq
  <2>2. Len(p) - 1 = 0 /\ Len(p) \in Nat
    BY <1>1, <1>2, <2>1
  <2> QED
    BY <2>2
<1> QED
  BY <1>1, <1>2, <1>3, <1>4, <1>5

LEMMA PlanType ==
  ASSUME NEW rows \in Seq(Orders \cup Items), NEW mode \in Modes
  PROVE  /\ Plan(rows, mode) \in Seq(LockSet) /\ Len(Plan(rows, mode)) = Len(rows)
         /\ \A k \in 1..Len(rows) : Plan(rows, mode)[k] = [row |-> rows[k], mode |-> mode]
<1>1. Len(rows) \in Nat /\ DOMAIN rows = 1..Len(rows) /\ \A k \in 1..Len(rows) : rows[k] \in Orders \cup Items
  BY LenProperties, ElementOfSeq
<1>2. Plan(rows, mode) \in [1..Len(rows) -> LockSet]
  BY <1>1 DEF Plan, LockSet
<1> QED
  BY <1>1, <1>2, SeqDef DEF Plan

----------------------------------------------------------------------------
(* Locks in hand.                                                          *)

\* A lock that excludes the others keeps them from the order.
LEMMA LockedAlone ==
  ASSUME LocksInv, NEW s \in Sessions, NEW t \in Sessions, s # t, NEW o \in Orders,
         ForUpdate(o) \in locks[t], NEW mode \in Modes, [row |-> o, mode |-> mode] \in locks[s]
  PROVE  FALSE
BY DEF LocksInv, Exclusive, Conflict, ForUpdate, Modes

\* At its commit a request holds what it needs.
LEMMA NothingPlanned ==
  ASSUME NEW r, NEW held, NEW ps, NEW st, RequestOK(r, held, ps, st), r.plan = <<>>
  PROVE  Needed(r) \subseteq held
<1>1. \A k \in DOMAIN r.plan : FALSE
  OBVIOUS
<1> QED
  BY <1>1 DEF RequestOK, Covered

LEMMA ReadyHolds ==
  ASSUME LocksInv, NEW s \in Sessions, NEW kind, Ready(s, kind)
  PROVE  /\ session[s] \in Requests /\ session[s].from \in Orders /\ session[s].to \in Orders
         /\ RequestOK(session[s], locks[s], portions, status)
         /\ Needed(session[s]) \subseteq locks[s]
<1>1. RequestOK(session[s], locks[s], portions, status) /\ session[s].plan = <<>>
  BY DEF Ready, LocksInv, RequestsOK
<1>2. session[s] \in Requests
  BY <1>1 DEF RequestOK
<1> QED
  BY <1>1, <1>2, NothingPlanned DEF Requests

\* An order is left as it is by those who have not locked it; one a line is
\* about to land on may be paid or reopened, and is not merged.
Respected(held, ps, st, ps2, st2) ==
  \A o \in Orders :
    /\ ForUpdate(o) \in held => ps2[o] = ps[o] /\ st2[o] = st[o]
    /\ Key(o) \in held /\ st[o] \in {"PAID", "PENDING"} => st2[o] \in {"PAID", "PENDING"}

LEMMA Undisturbed ==
  ASSUME NEW r, NEW held, NEW ps, NEW st, NEW ps2, NEW st2, RequestOK(r, held, ps, st),
         Respected(held, ps, st, ps2, st2)
  PROVE  RequestOK(r, held, ps2, st2)
<1> USE DEF Respected
<1>1. r \in Requests /\ r.from \in Orders /\ r.to \in Orders
  BY DEF RequestOK, Requests
<1>4. r.kind = "add" => AddOK(r, st2)
  <2>1. SUFFICES ASSUME r.kind = "add", r.recompute = "same" PROVE st2[r.from] \in {"PAID", "PENDING"}
    BY DEF RequestOK, AddOK
  <2>2. r.plan = <<>> /\ st[r.from] \in {"PAID", "PENDING"}
    BY <2>1 DEF RequestOK, AddOK
  <2>3. Key(r.from) \in held
    BY <2>1, <2>2, NothingPlanned DEF Needed
  <2> QED
    BY <1>1, <2>2, <2>3
<1>2. r.kind = "split" => SplitOK(r, held, ps2, st2)
  BY <1>1 DEF RequestOK, SplitOK
<1>3. ASSUME r.kind \in {"split", "merge"}, r.plan = <<>>
      PROVE  Current(r, ps2, st2)
  <2>1. Needed(r) = {ForUpdate(r.from), ForUpdate(r.to)}
    BY <1>3 DEF Needed
  <2>2. ForUpdate(r.from) \in held /\ ForUpdate(r.to) \in held
    BY <1>3, <2>1, NothingPlanned
  <2> QED
    BY <1>1, <1>3, <2>2 DEF RequestOK, Current
<1> QED
  BY <1>2, <1>3, <1>4 DEF RequestOK

\* The end of a transaction that writes only orders nobody else has locked.
LEMMA ReleaseKeeps ==
  ASSUME LocksInv, NEW s \in Sessions, Release(s),
         portions' \in [Orders -> Nat], status' \in [Orders -> Statuses],
         stock' \in [Items -> Nat], TakenIsBilled', Billed <= Billed',
         \A t \in Sessions \ {s} : Respected(locks[t], portions, status, portions', status')
  PROVE  LocksInv'
<1>1. Types'
  BY DEF LocksInv, Types, Release
<1>2. IdleHoldNothing' /\ Exclusive'
  BY DEF LocksInv, IdleHoldNothing, Exclusive, Release, Types
<1>3. ASSUME NEW t \in Sessions, session'[t] # None
      PROVE  RequestOK(session'[t], locks'[t], portions', status')
  <2>1. t # s /\ session'[t] = session[t] /\ locks'[t] = locks[t]
    BY <1>3 DEF Release, LocksInv, Types
  <2>2. RequestOK(session[t], locks[t], portions, status)
    BY <1>3, <2>1 DEF LocksInv, RequestsOK
  <2> QED
    BY <2>1, <2>2, Undisturbed
<1>4. ReadIsBilled'
  <2> SUFFICES ASSUME NEW t \in Sessions, session'[t] # None, session'[t].kind = "add",
                      session'[t].before # None, NEW x \in Items
               PROVE  Brought <= Billed' + session'[t].before[x]
    BY DEF ReadIsBilled, Brought
  <2>1. t # s /\ session'[t] = session[t]
    BY DEF Release, LocksInv, Types
  <2>2. RequestOK(session[t], locks[t], portions, status) /\ Brought <= Billed + session[t].before[x]
    BY <2>1 DEF LocksInv, RequestsOK, ReadIsBilled
  <2>3. session[t].before[x] \in Nat
    BY <2>1, <2>2 DEF RequestOK, AddOK
  <2>4. Billed \in Nat /\ Billed' \in Nat /\ Brought \in Nat
    BY BilledIs, BillType, BroughtType DEF LocksInv, Types
  <2> QED
    BY <2>1, <2>2, <2>3, <2>4
<1> QED
  BY <1>1, <1>2, <1>3, <1>4 DEF LocksInv, RequestsOK

\* The transactions of others are open while one request goes on.
LEMMA StepKeeps ==
  ASSUME LocksInv, NEW s \in Sessions, NEW r, r \in Requests, NEW held, held \subseteq LockSet,
         session' = [session EXCEPT ![s] = r], locks' = [locks EXCEPT ![s] = held],
         UNCHANGED <<portions, status, stock>>, made' \in 0..MaxRequests, Exclusive',
         RequestOK(r, held, portions, status),
         r.kind = "add" /\ r.before # None => \A x \in Items : Brought <= Billed + r.before[x]
  PROVE  LocksInv'
<1>1. Types' /\ IdleHoldNothing'
  <2>1. r # None
    BY OrderLocksAssumption
  <2> QED
    BY <2>1 DEF LocksInv, Types, IdleHoldNothing
<1>2. RequestsOK'
  BY DEF LocksInv, RequestsOK, Types
<1>3. Billed' = Billed
  BY DEF Billed
<1>4. TakenIsBilled'
  BY <1>3 DEF LocksInv, TakenIsBilled
<1>5. ReadIsBilled'
  <2>1. \A t \in Sessions : session'[t] = IF t = s THEN r ELSE session[t]
    BY DEF LocksInv, Types
  <2> QED
    BY <1>3, <2>1 DEF LocksInv, ReadIsBilled, Brought
<1> QED
  BY <1>1, <1>2, <1>4, <1>5 DEF LocksInv

\* A step that takes no lock.
LEMMA PlainStepKeeps ==
  ASSUME LocksInv, NEW s \in Sessions, NEW r, r \in Requests,
         session' = [session EXCEPT ![s] = r], UNCHANGED <<portions, status, stock, locks>>,
         made' \in 0..MaxRequests, RequestOK(r, locks[s], portions, status),
         r.kind = "add" /\ r.before # None => \A x \in Items : Brought <= Billed + r.before[x]
  PROVE  LocksInv'
<1>1. locks' = [locks EXCEPT ![s] = locks[s]] /\ locks[s] \subseteq LockSet
  BY DEF LocksInv, Types
<1>2. Exclusive'
  BY DEF LocksInv, Exclusive
<1> QED
  BY <1>1, <1>2, StepKeeps

----------------------------------------------------------------------------
(* The steps of a request.                                                 *)

LEMMA AskKeeps ==
  ASSUME LocksInv, NEW s \in Sessions, NEW r, Ask(s, r), r \in Requests, Covered(r, {}),
         r.before = None, r.recompute = "due", r.plan # <<>>,
         r.kind \in {"split", "merge"} => r.from # r.to
  PROVE  LocksInv'
<1>1. locks[s] = {}
  BY DEF Ask, LocksInv, IdleHoldNothing
<1>2. RequestOK(r, {}, portions, status)
  BY DEF RequestOK, AddOK, SplitOK
<1>3. made' \in 0..MaxRequests
  BY OrderLocksAssumption DEF Ask, LocksInv, Types
<1> QED
  BY <1>1, <1>2, <1>3, PlainStepKeeps DEF Ask

LEMMA AskAddKeeps ==
  ASSUME LocksInv, NEW s \in Sessions, NEW o \in Orders, NEW rows \in SetToSeqs(Items), AskAdd(s, o, rows)
  PROVE  LocksInv'
<1> DEFINE keys == Plan(<<o>>, "key")  updates == Plan(rows, "update")
           r == Request("add", o, o, keys \o updates)
<1>1. <<o>> \in Seq(Orders \cup Items) /\ rows \in Seq(Orders \cup Items)
  <2>1. Cardinality(Items) \in Nat
    BY OrderLocksAssumption, FS_CardinalityType
  <2>2. rows \in [1..Cardinality(Items) -> Orders \cup Items]
    BY DEF SetToSeqs
  <2> QED
    BY <2>1, <2>2, SeqDef
<1>2. /\ keys \in Seq(LockSet) /\ Len(keys) = 1 /\ keys[1] = Key(o)
      /\ updates \in Seq(LockSet)
  <2>1. "key" \in Modes /\ "update" \in Modes /\ Len(<<o>>) = 1 /\ 1 \in 1..1 /\ <<o>>[1] = o
    BY DEF Modes
  <2>2. keys \in Seq(LockSet) /\ updates \in Seq(LockSet)
    BY <1>1, <2>1, PlanType
  <2>3. Len(keys) = Len(<<o>>) /\ \A k \in 1..Len(<<o>>) : keys[k] = [row |-> <<o>>[k], mode |-> "key"]
    BY <1>1, <2>1, PlanType
  <2> QED
    BY <2>1, <2>2, <2>3 DEF Key
<1>3. keys \o updates \in Seq(LockSet) /\ (keys \o updates)[1] = Key(o) /\ 1 \in DOMAIN (keys \o updates)
  <2>1. Len(updates) \in Nat
    BY <1>2, LenProperties
  <2>2. Len(keys \o updates) = 1 + Len(updates) /\ keys \o updates \in Seq(LockSet)
        /\ \A i \in 1..(1 + Len(updates)) : (keys \o updates)[i] = IF i <= 1 THEN keys[i] ELSE updates[i - 1]
    <3> HIDE DEF keys, updates
    <3>1. /\ keys \o updates \in Seq(LockSet) /\ Len(keys \o updates) = Len(keys) + Len(updates)
          /\ \A i \in 1..Len(keys) + Len(updates) :
               (keys \o updates)[i] = IF i <= Len(keys) THEN keys[i] ELSE updates[i - Len(keys)]
      BY <1>2, ConcatProperties, Zenon
    <3> QED
      BY <1>2, <3>1
  <2> HIDE DEF keys, updates
  <2> QED
    BY <1>2, <2>1, <2>2, LenProperties
<1> HIDE DEF keys, updates
<1>4. r \in Requests /\ Covered(r, {}) /\ r.before = None /\ r.recompute = "due" /\ r.plan # <<>>
  BY <1>3 DEF Request, Requests, Covered, Needed
<1> QED
  BY <1>4, AskKeeps DEF AskAdd, keys, updates, Request

LEMMA AskPayKeeps ==
  ASSUME LocksInv, NEW s \in Sessions, NEW o \in Orders, AskPay(s, o)
  PROVE  LocksInv'
<1> DEFINE plan == Plan(<<o>>, "update")  r == Request("pay", o, o, plan)
<1>1. plan \in Seq(LockSet) /\ plan[1] = [row |-> o, mode |-> "update"] /\ 1 \in DOMAIN plan
  <2>1. "update" \in Modes /\ <<o>> \in Seq(Orders \cup Items) /\ Len(<<o>>) = 1 /\ 1 \in 1..1 /\ <<o>>[1] = o
    BY DEF Modes
  <2>2. /\ plan \in Seq(LockSet) /\ Len(plan) = Len(<<o>>)
        /\ \A k \in 1..Len(<<o>>) : plan[k] = [row |-> <<o>>[k], mode |-> "update"]
    BY <2>1, PlanType
  <2>3. DOMAIN plan = 1..Len(plan)
    BY <2>2, LenProperties
  <2> HIDE DEF plan
  <2> QED
    BY <2>1, <2>2, <2>3
<1> HIDE DEF plan
<1>2. r \in Requests /\ Covered(r, {}) /\ r.before = None /\ r.recompute = "due" /\ r.plan # <<>>
  BY <1>1 DEF Request, Requests, Covered, Needed
<1> QED
  BY <1>2, AskKeeps DEF AskPay, plan, Request

LEMMA AskTwoKeeps ==
  ASSUME LocksInv, NEW s \in Sessions, NEW from \in Orders, NEW to \in Orders, from # to,
         NEW kind \in {"split", "merge"}, NEW rows \in {<<from, to>>, <<to, from>>},
         Ask(s, Request(kind, from, to, Plan(rows, "forUpdate")))
  PROVE  LocksInv'
<1> DEFINE plan == Plan(rows, "forUpdate")  r == Request(kind, from, to, plan)
<1>1. rows \in Seq(Orders \cup Items) /\ Len(rows) = 2 /\ {rows[1], rows[2]} = {from, to}
  <2>1. CASE rows = <<from, to>>
    BY <2>1
  <2>2. CASE rows = <<to, from>>
    BY <2>2
  <2> QED
    BY <2>1, <2>2
<1>2. /\ plan \in Seq(LockSet) /\ 1 \in DOMAIN plan /\ 2 \in DOMAIN plan
      /\ plan[1] = ForUpdate(rows[1]) /\ plan[2] = ForUpdate(rows[2])
  <2>1. "forUpdate" \in Modes
    BY DEF Modes
  <2>2. /\ plan \in Seq(LockSet) /\ Len(plan) = Len(rows)
        /\ \A k \in 1..Len(rows) : plan[k] = [row |-> rows[k], mode |-> "forUpdate"]
    BY <1>1, <2>1, PlanType
  <2>3. DOMAIN plan = 1..Len(plan)
    BY <2>2, LenProperties
  <2> HIDE DEF plan
  <2> QED
    BY <1>1, <2>2, <2>3 DEF ForUpdate
<1> HIDE DEF plan
<1>3. r \in Requests /\ r.before = None /\ r.recompute = "due" /\ r.plan # <<>> /\ r.kind = kind /\ r.from = from /\ r.to = to
  BY <1>2 DEF Request, Requests
<1>4. Covered(r, {})
  BY <1>1, <1>2 DEF Request, Covered, Needed, ForUpdate
<1> QED
  BY <1>3, <1>4, AskKeeps DEF plan

LEMMA RollbackKeeps ==
  ASSUME LocksInv, NEW s \in Sessions, Rollback(s)
  PROVE  LocksInv'
<1>1. Billed' = Billed /\ Billed \in Nat
  BY BilledIs, BillType DEF Rollback, LocksInv, Types
<1>2. TakenIsBilled'
  BY <1>1 DEF Rollback, LocksInv, TakenIsBilled
<1> QED
  BY <1>1, <1>2, ReleaseKeeps DEF Rollback, LocksInv, Types, Respected

LEMMA LockKeeps ==
  ASSUME LocksInv, NEW s \in Sessions, Lock(s)
  PROVE  LocksInv'
<1> DEFINE r == session[s]  w == Head(r.plan)  r2 == Onward(r)  held == locks[s] \cup {w}
<1>1. CASE Refused(s, w.row)
  BY <1>1, RollbackKeeps DEF Lock
<1>2. CASE ~Refused(s, w.row)
  <2>1. /\ session' = [session EXCEPT ![s] = r2] /\ locks' = [locks EXCEPT ![s] = held]
        /\ UNCHANGED <<portions, status, stock, made>>
    BY <1>2 DEF Lock
  <2>2. r \in Requests /\ r # None /\ r.plan # <<>> /\ RequestOK(r, locks[s], portions, status)
    BY DEF Lock, LocksInv, RequestsOK, RequestOK
  <2>3. /\ Tail(r.plan) \in Seq(LockSet) /\ w \in LockSet /\ Len(r.plan) \in Nat
        /\ \A k \in DOMAIN r.plan : r.plan[k] = w \/ \E j \in DOMAIN Tail(r.plan) : Tail(r.plan)[j] = r.plan[k]
        /\ Tail(r.plan) = <<>> => Len(r.plan) = 1
    BY <2>2, TailFacts DEF Requests
  <2>4. /\ r2.kind = r.kind /\ r2.from = r.from /\ r2.to = r.to /\ r2.plan = Tail(r.plan)
        /\ r2.before = IF r.kind \in {"split", "merge"} /\ Len(r.plan) = 1 THEN portions ELSE r.before
        /\ r2.recompute = r.recompute
        /\ r2 \in Requests
    BY <2>2, <2>3 DEF Onward, Requests, LocksInv, Types
  <2>5. RequestOK(r2, held, portions, status)
    <3>1. Covered(r2, held)
      <4>1. Needed(r2) = Needed(r) /\ Covered(r, locks[s])
        BY <2>2, <2>4 DEF RequestOK, Needed
      <4>2. ASSUME NEW x \in Needed(r), x \notin held
            PROVE  \E j \in DOMAIN Tail(r.plan) : Tail(r.plan)[j] = x
        <5>1. PICK k \in DOMAIN r.plan : r.plan[k] = x
          BY <4>1, <4>2 DEF Covered
        <5> QED
          BY <2>3, <4>2, <5>1
      <4> QED
        BY <2>4, <4>1, <4>2 DEF Covered
    <3>2. r2.kind = "add" => AddOK(r2, status)
      <4> SUFFICES ASSUME r2.kind = "add", r2.plan = <<>>, Items # {}
                   PROVE  r2.before # None
        BY <2>2, <2>4 DEF RequestOK, AddOK
      <4>1. Cardinality(Items) \in Nat /\ Cardinality(Items) # 0
        BY OrderLocksAssumption, FS_CardinalityType, FS_EmptySet
      <4>2. Len(r.plan) <= Cardinality(Items)
        <5>1. Len(r.plan) = 1
          BY <2>3, <2>4
        <5> QED
          BY <4>1, <5>1
      <4> QED
        BY <2>4, <4>2 DEF Lock
    <3>3. r2.kind = "split" => SplitOK(r2, held, portions, status)
      <4> SUFFICES ASSUME r.kind = "split"
                   PROVE  SplitOK(r2, held, portions, status)
        BY <2>4
      <4>1. status[w.row] \in Editable /\ (w.row = r.from => ~(portions[w.row] < 2))
        BY <1>2 DEF Refused
      <4>2. portions[r.from] \in Nat
        BY <2>2 DEF LocksInv, Types, Requests
      <4>3. ForUpdate(r.from) = w => status[r.from] \in Editable /\ 2 <= portions[r.from]
        BY <4>1, <4>2 DEF ForUpdate
      <4>4. ForUpdate(r.to) = w => status[r.to] \in Editable
        BY <4>1 DEF ForUpdate
      <4> QED
        BY <2>2, <2>4, <4>3, <4>4 DEF RequestOK, SplitOK
    <3>4. ASSUME r2.kind \in {"split", "merge"}, r2.plan = <<>>
          PROVE  Current(r2, portions, status)
      <4>1. Len(r.plan) = 1 /\ r2.before = portions
        BY <2>3, <2>4, <3>4
      <4>2. CASE r.kind = "merge"
        BY <1>2, <2>4, <4>1, <4>2 DEF Refused, Current, LocksInv, Types
      <4>3. CASE r.kind = "split"
        <5>1. ForUpdate(r2.to) \in held
          <6>1. ForUpdate(r2.to) \in Needed(r2)
            BY <2>4, <4>3 DEF Needed
          <6>2. \A k \in DOMAIN r2.plan : FALSE
            BY <3>4
          <6> QED
            BY <3>1, <6>1, <6>2 DEF Covered
        <5> QED
          BY <2>4, <3>3, <4>1, <4>3, <5>1 DEF SplitOK, Current, LocksInv, Types
      <4> QED
        BY <2>4, <3>4, <4>2, <4>3
    <3> QED
      BY <2>2, <2>4, <3>1, <3>2, <3>3, <3>4 DEF RequestOK
  <2>6. Exclusive'
    <3> SUFFICES ASSUME NEW t \in Sessions, NEW u \in Sessions \ {t},
                        NEW a \in locks'[t], NEW b \in locks'[u], a.row = b.row
                 PROVE  ~Conflict(a.mode, b.mode)
      BY DEF Exclusive
    <3>1. \A v \in Sessions \ {s} : \A c \in locks[v] : c.row = w.row => ~Conflict(c.mode, w.mode)
      BY <2>2 DEF Lock, WaitsFor
    <3>2. \A v \in Sessions \ {s} : \A c \in locks[v] : c.row = w.row => ~Conflict(w.mode, c.mode)
      BY <3>1 DEF Conflict
    <3>3. \A v \in Sessions : locks'[v] = IF v = s THEN held ELSE locks[v]
      BY <2>1 DEF LocksInv, Types
    <3>4. CASE a \in locks[t] /\ b \in locks[u]
      BY <3>4 DEF LocksInv, Exclusive
    <3>5. CASE t = s /\ a = w
      BY <3>2, <3>3, <3>5
    <3>6. CASE u = s /\ b = w
      BY <3>1, <3>3, <3>6
    <3> QED
      BY <3>3, <3>4, <3>5, <3>6
  <2>7. r2.kind = "add" /\ r2.before # None => \A x \in Items : Brought <= Billed + r2.before[x]
    BY <2>2, <2>4 DEF LocksInv, ReadIsBilled
  <2>8. held \subseteq LockSet /\ made' \in 0..MaxRequests
    BY <2>1, <2>3 DEF LocksInv, Types
  <2> QED
    BY <2>1, <2>4, <2>5, <2>6, <2>7, <2>8, StepKeeps
<1> QED
  BY <1>1, <1>2

LEMMA ReadStockKeeps ==
  ASSUME LocksInv, NEW s \in Sessions, ReadStock(s)
  PROVE  LocksInv'
<1> DEFINE r == session[s]  r2 == [r EXCEPT !.before = stock]
<1>1. CASE \E x \in Items : stock[x] < 1
  BY <1>1, RollbackKeeps DEF ReadStock
<1>2. CASE ~\E x \in Items : stock[x] < 1
  <2>1. session' = [session EXCEPT ![s] = r2] /\ UNCHANGED <<portions, status, stock, locks, made>>
    BY <1>2 DEF ReadStock
  <2>2. r \in Requests /\ r # None /\ r.kind = "add" /\ RequestOK(r, locks[s], portions, status)
    BY DEF ReadStock, LocksInv, RequestsOK, RequestOK
  <2>3. stock \in [Items -> Nat \ {0}] /\ stock \in [Items -> Nat]
    BY <1>2 DEF LocksInv, Types
  <2>4. /\ r2 \in Requests /\ r2.kind = r.kind /\ r2.from = r.from /\ r2.to = r.to /\ r2.plan = r.plan
        /\ r2.before = stock /\ r2.recompute = r.recompute
    BY <2>2, <2>3 DEF Requests
  <2>5. AddOK(r2, status)
    <3>1. r.plan = <<>> => Cardinality(Items) = 0
      BY <2>2, EmptySeq DEF ReadStock
    <3>2. Cardinality(Items) = 0 => Items = {}
      BY OrderLocksAssumption, FS_EmptySet
    <3> QED
      BY <2>2, <2>3, <2>4, <3>1, <3>2 DEF AddOK, RequestOK
  <2>6. RequestOK(r2, locks[s], portions, status)
    BY <2>2, <2>4, <2>5 DEF RequestOK, Covered, Needed
  <2>7. \A x \in Items : Brought <= Billed + r2.before[x]
    BY <2>4 DEF LocksInv, TakenIsBilled, Brought
  <2>8. made' \in 0..MaxRequests
    BY <2>1 DEF LocksInv, Types
  <2> QED
    BY <2>1, <2>4, <2>6, <2>7, <2>8, PlainStepKeeps
<1> QED
  BY <1>1, <1>2

\* Nobody merges the order while the line's key is shared, so what the status
\* was read to be stays good enough.
LEMMA RecomputeKeeps ==
  ASSUME LocksInv, NEW s \in Sessions, Recompute(s)
  PROVE  LocksInv'
<1> DEFINE r == session[s]
           step == IF status[r.from] \in {"PAID", "PENDING"} THEN "same" ELSE "differs"
           r2 == [r EXCEPT !.recompute = step]
<1>1. /\ r \in Requests /\ r # None /\ r.kind = "add" /\ r.plan = <<>> /\ r.before # None
      /\ RequestOK(r, locks[s], portions, status)
  BY DEF Recompute, AtRecompute, LocksInv, RequestsOK, RequestOK
<1>2. /\ r2 \in Requests /\ r2.kind = r.kind /\ r2.from = r.from /\ r2.to = r.to /\ r2.plan = r.plan
      /\ r2.before = r.before /\ r2.recompute = step
  BY <1>1 DEF Requests
<1>3. session' = [session EXCEPT ![s] = r2] /\ UNCHANGED <<portions, status, stock, locks, made>>
  BY DEF Recompute
<1> HIDE DEF r2
<1>4. RequestOK(r2, locks[s], portions, status)
  BY <1>1, <1>2 DEF RequestOK, Covered, Needed, AddOK
<1>5. \A x \in Items : Brought <= Billed + r2.before[x]
  BY <1>1, <1>2 DEF LocksInv, ReadIsBilled
<1>6. made' \in 0..MaxRequests
  BY <1>3 DEF LocksInv, Types
<1> QED
  BY <1>2, <1>3, <1>4, <1>5, <1>6, PlainStepKeeps

LEMMA ReselectKeeps ==
  ASSUME LocksInv, NEW s \in Sessions, Reselect(s)
  PROVE  LocksInv'
<1> DEFINE r == session[s]  o == r.from  plan == Plan(<<o>>, "update")
           same == [r EXCEPT !.recompute = "same"]
           write == [r EXCEPT !.recompute = "write", !.plan = plan]
           r2 == IF status[o] = "PENDING" THEN same ELSE write
<1>1. /\ r \in Requests /\ r # None /\ r.kind = "add" /\ r.plan = <<>> /\ r.before # None
      /\ RequestOK(r, locks[s], portions, status) /\ o \in Orders
  BY DEF Reselect, AtRecompute, LocksInv, RequestsOK, RequestOK, Requests
<1>2. plan \in Seq(LockSet) /\ plan # <<>>
  <2>1. "update" \in Modes /\ <<o>> \in Seq(Orders \cup Items) /\ Len(<<o>>) = 1
    BY <1>1 DEF Modes
  <2>2. plan \in Seq(LockSet) /\ Len(plan) = Len(<<o>>)
    BY <2>1, PlanType
  <2> HIDE DEF plan
  <2> QED
    BY <2>1, <2>2, EmptySeq
<1> HIDE DEF plan
<1>3. /\ r2 \in Requests /\ r2.kind = r.kind /\ r2.from = r.from /\ r2.to = r.to /\ r2.before = r.before
      /\ r2.recompute = "same" => r2.plan = <<>> /\ status[o] = "PENDING"
      /\ r2.plan = <<>> \/ r2.plan = plan
  BY <1>1, <1>2 DEF Requests
<1>4. session' = [session EXCEPT ![s] = r2] /\ UNCHANGED <<portions, status, stock, locks, made>>
  BY DEF Reselect, plan
<1> HIDE DEF r2
<1>5. RequestOK(r2, locks[s], portions, status)
  <2>1. Key(o) \in locks[s]
    BY <1>1, NothingPlanned DEF Needed
  <2>2. Covered(r2, locks[s])
    BY <1>1, <1>3, <2>1 DEF Covered, Needed
  <2>3. AddOK(r2, status)
    BY <1>1, <1>3 DEF RequestOK, AddOK
  <2> QED
    BY <1>1, <1>3, <2>2, <2>3 DEF RequestOK
<1>6. \A x \in Items : Brought <= Billed + r2.before[x]
  BY <1>1, <1>3 DEF LocksInv, ReadIsBilled
<1>7. made' \in 0..MaxRequests
  BY <1>4 DEF LocksInv, Types
<1> QED
  BY <1>3, <1>4, <1>5, <1>6, <1>7, PlainStepKeeps

\* An addition: the order is shared, and the line lands on it.
LEMMA CommitAddKeeps ==
  ASSUME LocksInv, NEW s \in Sessions, CommitAdd(s)
  PROVE  LocksInv' /\ Desk!Add(session[s].from)
<1> DEFINE r == session[s]  o == r.from
<1>1. /\ o \in Orders /\ RequestOK(r, locks[s], portions, status) /\ r.kind = "add" /\ r.plan = <<>>
      /\ Key(o) \in locks[s] /\ r # None /\ r.recompute \in {"same", "write"}
  BY ReadyHolds DEF CommitAdd, Ready, Needed
<1>2. \A x \in Items : r.before \in [Items -> Nat \ {0}] /\ Brought <= Billed + r.before[x]
  BY <1>1 DEF RequestOK, AddOK, LocksInv, ReadIsBilled
<1>3. /\ portions \in [Orders -> Nat] /\ status \in [Orders -> Statuses]
      /\ portions' = [portions EXCEPT ![o] = @ + 1]
      /\ status' = [status EXCEPT ![o] = IF r.recompute = "write" THEN "PENDING" ELSE @]
      /\ stock' = [x \in Items |-> r.before[x] - 1]
  BY DEF CommitAdd, LocksInv, Types
<1>4. status'[o] \in {"PAID", "PENDING"} /\ (r.recompute = "same" => status[o] \in {"PAID", "PENDING"})
  BY <1>1, <1>3 DEF RequestOK, AddOK
<1>5. portions' \in [Orders -> Nat] /\ status' \in [Orders -> Statuses] /\ stock' \in [Items -> Nat]
  BY <1>1, <1>2, <1>3 DEF Statuses
<1>6. Billed \in Nat /\ Billed' \in Nat /\ Billed + 1 <= Billed' /\ Billed <= Billed'
  <2> DEFINE f == Bill(portions, status)  g == Bill(portions', status')
  <2>1. f \in [Orders -> Nat] /\ g \in [Orders -> Nat]
    BY <1>3, <1>5, BillType
  <2>2. f[o] + 1 <= g[o] /\ \A p \in Orders \ {o} : f[p] = g[p]
    BY <1>1, <1>3, <1>4 DEF Bill
  <2> HIDE DEF f, g
  <2>3. SumFunctionOnSet(g, Orders) = SumFunctionOnSet(f, Orders) - f[o] + g[o]
    BY <1>1, <2>1, <2>2, SumReplace, OrderLocksAssumption
  <2>4. SumFunctionOnSet(f, Orders) \in Nat /\ SumFunctionOnSet(g, Orders) \in Nat
    BY <2>1, SumNat, OrderLocksAssumption
  <2>5. f[o] \in Nat /\ g[o] \in Nat
    BY <1>1, <2>1
  <2>6. Billed = SumFunctionOnSet(f, Orders) /\ Billed' = SumFunctionOnSet(g, Orders)
    BY BilledIs DEF f, g
  <2> QED
    BY <2>2, <2>3, <2>4, <2>5, <2>6
<1>7. TakenIsBilled'
  <2> SUFFICES ASSUME NEW x \in Items PROVE Brought <= Billed' + stock'[x]
    BY DEF TakenIsBilled, Brought
  <2>1. r.before[x] \in Nat \ {0} /\ stock'[x] = r.before[x] - 1
    BY <1>2, <1>3
  <2> QED
    BY <1>2, <1>6, <2>1, BroughtType
<1>8. ASSUME NEW t \in Sessions \ {s}
      PROVE  Respected(locks[t], portions, status, portions', status')
  <2>1. ForUpdate(o) \notin locks[t]
    BY <1>1, LockedAlone DEF Modes, Key
  <2> QED
    BY <1>1, <1>3, <1>4, <2>1 DEF Respected
<1>9. LocksInv'
  BY <1>5, <1>6, <1>7, <1>8, ReleaseKeeps DEF CommitAdd
<1>10. Desk!Add(o)
  <2>1. CASE r.recompute = "write"
    BY <1>3, <2>1 DEF Desk!Add
  <2>2. CASE r.recompute = "same"
    <3>1. status' = status
      BY <1>1, <1>3, <2>2
    <3>2. status[o] = "PENDING" => status = [status EXCEPT ![o] = "PENDING"]
      BY <1>1, <1>3
    <3> QED
      BY <1>3, <1>4, <2>2, <3>1, <3>2 DEF Desk!Add
  <2> QED
    BY <1>1, <2>1, <2>2
<1> QED
  BY <1>9, <1>10

\* A split: both orders are locked, and as they were when their lines were read.
LEMMA CommitSplitKeeps ==
  ASSUME LocksInv, NEW s \in Sessions, CommitSplit(s)
  PROVE  /\ LocksInv' /\ session[s].from \in Orders /\ session[s].to \in Orders
         /\ session[s].from # session[s].to /\ Desk!Split(session[s].from, session[s].to, 1)
<1> DEFINE r == session[s]
<1>1. /\ r.from \in Orders /\ r.to \in Orders /\ RequestOK(r, locks[s], portions, status)
      /\ r.kind = "split" /\ r.plan = <<>>
      /\ ForUpdate(r.from) \in locks[s] /\ ForUpdate(r.to) \in locks[s]
  BY ReadyHolds DEF CommitSplit, Ready, Needed
<1>2. /\ r.from # r.to /\ status[r.from] \in Editable /\ status[r.to] \in Editable /\ 2 <= portions[r.from]
      /\ r.before[r.from] = portions[r.from] /\ r.before[r.to] = portions[r.to]
  BY <1>1 DEF RequestOK, SplitOK, Current
<1>3. /\ portions' = [portions EXCEPT ![r.from] = portions[r.from] - 1, ![r.to] = portions[r.to] + 1]
      /\ UNCHANGED <<status, stock>>
  BY <1>2 DEF CommitSplit
<1>4. portions \in [Orders -> Nat] /\ portions[r.from] \in Nat /\ portions[r.to] \in Nat
  BY <1>1 DEF LocksInv, Types
<1>5. portions' \in [Orders -> Nat] /\ status' \in [Orders -> Statuses] /\ stock' \in [Items -> Nat]
  <2>1. portions[r.from] - 1 \in Nat /\ portions[r.to] + 1 \in Nat
    BY <1>2, <1>4
  <2>2. portions' \in [Orders -> Nat]
    BY <1>3, <1>4, <2>1
  <2> QED
    BY <1>3, <2>2 DEF LocksInv, Types
<1>6. Billed \in Nat /\ Billed' = Billed /\ Billed <= Billed'
  <2> DEFINE f == Bill(portions, status)  g == Bill(portions', status')
  <2>1. f \in [Orders -> Nat] /\ g \in [Orders -> Nat]
    BY <1>4, <1>5, BillType
  <2>2. /\ f[r.from] = portions[r.from] /\ g[r.from] = portions[r.from] - 1
        /\ f[r.to] = portions[r.to] /\ g[r.to] = portions[r.to] + 1
        /\ \A p \in Orders \ {r.from, r.to} : g[p] = f[p]
    BY <1>1, <1>2, <1>3, <1>4 DEF Bill, Editable
  <2> HIDE DEF f, g
  <2>3. SumFunctionOnSet(g, Orders) = SumFunctionOnSet(f, Orders) - f[r.from] - f[r.to] + g[r.from] + g[r.to]
    BY <1>1, <1>2, <2>1, <2>2, TwoChange
  <2>4. SumFunctionOnSet(f, Orders) \in Nat
    BY <2>1, SumNat, OrderLocksAssumption
  <2>5. Billed = SumFunctionOnSet(f, Orders) /\ Billed' = SumFunctionOnSet(g, Orders)
    BY BilledIs DEF f, g
  <2> QED
    BY <1>4, <2>2, <2>3, <2>4, <2>5
<1>10. TakenIsBilled'
  BY <1>3, <1>6 DEF LocksInv, TakenIsBilled
<1>7. ASSUME NEW t \in Sessions \ {s}, NEW o \in Orders, ForUpdate(o) \in locks[t]
      PROVE  portions'[o] = portions[o] /\ status'[o] = status[o]
  <2>1. o # r.from /\ o # r.to
    BY <1>1, <1>7, LockedAlone DEF Modes, ForUpdate
  <2> QED
    BY <1>3, <1>4, <2>1
<1>11. \A t \in Sessions \ {s} : Respected(locks[t], portions, status, portions', status')
  BY <1>3, <1>7 DEF Respected
<1>8. LocksInv'
  BY <1>5, <1>6, <1>10, <1>11, ReleaseKeeps DEF CommitSplit
<1>9. Desk!Split(r.from, r.to, 1)
  BY <1>2, <1>3, <1>4 DEF Desk!Split, Desk!Editable, Editable
<1> QED
  BY <1>1, <1>2, <1>8, <1>9

\* A merge: the source may have any status, the target is open.
LEMMA CommitMergeKeeps ==
  ASSUME LocksInv, NEW s \in Sessions, CommitMerge(s)
  PROVE  /\ LocksInv' /\ session[s].from \in Orders /\ session[s].to \in Orders
         /\ session[s].from # session[s].to /\ Desk!Merge(session[s].from, session[s].to)
<1> DEFINE r == session[s]
<1>1. /\ r.from \in Orders /\ r.to \in Orders /\ RequestOK(r, locks[s], portions, status)
      /\ r.kind = "merge" /\ r.plan = <<>>
      /\ ForUpdate(r.from) \in locks[s] /\ ForUpdate(r.to) \in locks[s]
  BY ReadyHolds DEF CommitMerge, Ready, Needed
<1>2. /\ r.from # r.to /\ status[r.to] \in Editable
      /\ r.before[r.from] = portions[r.from] /\ r.before[r.to] = portions[r.to]
  BY <1>1 DEF RequestOK, Current
<1>3. /\ portions' = [portions EXCEPT ![r.to] = portions[r.to] + portions[r.from]]
      /\ status' = [status EXCEPT ![r.from] = "MERGED"] /\ stock' = stock
  BY <1>1, <1>2 DEF CommitMerge, LocksInv, Types
<1>4. portions \in [Orders -> Nat] /\ portions[r.from] \in Nat /\ portions[r.to] \in Nat
  BY <1>1 DEF LocksInv, Types
<1>5. portions' \in [Orders -> Nat] /\ status' \in [Orders -> Statuses] /\ stock' \in [Items -> Nat]
  <2>1. portions[r.to] + portions[r.from] \in Nat
    BY <1>4
  <2>2. portions' \in [Orders -> Nat]
    BY <1>3, <1>4, <2>1
  <2>3. status' \in [Orders -> Statuses]
    BY <1>1, <1>3 DEF LocksInv, Types, Statuses
  <2> QED
    BY <1>3, <2>2, <2>3 DEF LocksInv, Types
<1>6. Billed \in Nat /\ Billed' \in Nat /\ Billed <= Billed'
  <2> DEFINE f == Bill(portions, status)  g == Bill(portions', status')
  <2>1. f \in [Orders -> Nat] /\ g \in [Orders -> Nat]
    BY <1>4, <1>5, BillType
  <2>2. status'[r.from] = "MERGED" /\ status'[r.to] = status[r.to]
        /\ portions'[r.to] = portions[r.to] + portions[r.from]
        /\ \A p \in Orders \ {r.from, r.to} : portions'[p] = portions[p] /\ status'[p] = status[p]
    BY <1>1, <1>2, <1>3, <1>4 DEF LocksInv, Types
  <2>3. /\ f[r.from] \in {0, portions[r.from]} /\ g[r.from] = 0
        /\ f[r.to] = portions[r.to] /\ g[r.to] = portions[r.to] + portions[r.from]
        /\ \A p \in Orders \ {r.from, r.to} : g[p] = f[p]
    BY <1>1, <1>2, <2>2 DEF Bill, Editable
  <2> HIDE DEF f, g
  <2>4. SumFunctionOnSet(g, Orders) = SumFunctionOnSet(f, Orders) - f[r.from] - f[r.to] + g[r.from] + g[r.to]
    BY <1>1, <1>2, <2>1, <2>3, TwoChange
  <2>5. SumFunctionOnSet(f, Orders) \in Nat /\ SumFunctionOnSet(g, Orders) \in Nat
    BY <2>1, SumNat, OrderLocksAssumption
  <2>6. Billed = SumFunctionOnSet(f, Orders) /\ Billed' = SumFunctionOnSet(g, Orders)
    BY BilledIs DEF f, g
  <2> QED
    BY <1>4, <2>3, <2>4, <2>5, <2>6
<1>10. TakenIsBilled'
  <2> SUFFICES ASSUME NEW x \in Items PROVE Brought <= Billed' + stock'[x]
    BY DEF TakenIsBilled, Brought
  <2>1. Brought <= Billed + stock[x] /\ stock[x] \in Nat /\ stock'[x] = stock[x]
    BY <1>3 DEF LocksInv, Types, TakenIsBilled, Brought
  <2> QED
    BY <1>6, <2>1, BroughtType
<1>7. ASSUME NEW t \in Sessions \ {s}, NEW o \in Orders, ForUpdate(o) \in locks[t]
      PROVE  portions'[o] = portions[o] /\ status'[o] = status[o]
  <2>1. o # r.from /\ o # r.to
    BY <1>1, <1>7, LockedAlone DEF Modes, ForUpdate
  <2> QED
    BY <1>3, <1>4, <2>1 DEF LocksInv, Types
<1>11. ASSUME NEW t \in Sessions \ {s}
       PROVE  Respected(locks[t], portions, status, portions', status')
  <2>1. Key(r.from) \notin locks[t]
    <3>1. Key(r.from) \in locks[t] => FALSE
      BY <1>1, LockedAlone DEF Modes, Key
    <3> QED
      BY <3>1
  <2>2. \A p \in Orders \ {r.from} : status'[p] = status[p]
    BY <1>3 DEF LocksInv, Types
  <2> QED
    BY <1>7, <2>1, <2>2 DEF Respected
<1>8. LocksInv'
  BY <1>5, <1>6, <1>10, <1>11, ReleaseKeeps DEF CommitMerge
<1>9. Desk!Merge(r.from, r.to)
  BY <1>2, <1>3, <1>4 DEF Desk!Merge, Desk!Editable, Editable
<1> QED
  BY <1>1, <1>2, <1>8, <1>9

LEMMA CommitPayKeeps ==
  ASSUME LocksInv, NEW s \in Sessions, CommitPay(s)
  PROVE  LocksInv' /\ session[s].from \in Orders /\ Desk!Pay(session[s].from)
<1> DEFINE r == session[s]
<1>1. r.from \in Orders /\ [row |-> r.from, mode |-> "update"] \in locks[s]
  BY ReadyHolds DEF CommitPay, Ready, Needed
<1>2. /\ portions \in [Orders -> Nat] /\ status \in [Orders -> Statuses] /\ stock \in [Items -> Nat]
      /\ portions' = portions /\ stock' = stock /\ status' = [status EXCEPT ![r.from] = "PAID"]
  BY DEF CommitPay, LocksInv, Types
<1>3. status' \in [Orders -> Statuses]
  BY <1>1, <1>2 DEF Statuses
<1>4. Billed \in Nat /\ Billed' \in Nat /\ Billed <= Billed'
  <2> DEFINE f == Bill(portions, status)  g == Bill(portions', status')
  <2>1. f \in [Orders -> Nat] /\ g \in [Orders -> Nat]
    BY <1>2, <1>3, BillType
  <2>2. \A o \in Orders : f[o] <= g[o]
    BY <1>1, <1>2 DEF Bill
  <2> HIDE DEF f, g
  <2>3. SumFunctionOnSet(f, Orders) <= SumFunctionOnSet(g, Orders)
    BY <2>1, <2>2, SumLeq, OrderLocksAssumption
  <2>4. SumFunctionOnSet(f, Orders) \in Nat /\ SumFunctionOnSet(g, Orders) \in Nat
    BY <2>1, SumNat, OrderLocksAssumption
  <2>5. Billed = SumFunctionOnSet(f, Orders) /\ Billed' = SumFunctionOnSet(g, Orders)
    BY BilledIs DEF f, g
  <2> QED
    BY <2>3, <2>4, <2>5
<1>5. TakenIsBilled'
  <2> SUFFICES ASSUME NEW x \in Items PROVE Brought <= Billed' + stock'[x]
    BY DEF TakenIsBilled, Brought
  <2>1. Brought <= Billed + stock[x] /\ stock[x] \in Nat /\ stock'[x] = stock[x]
    BY <1>2 DEF LocksInv, TakenIsBilled, Brought
  <2> QED
    BY <1>4, <2>1, BroughtType
<1>6. ASSUME NEW t \in Sessions \ {s}
      PROVE  Respected(locks[t], portions, status, portions', status')
  <2>1. ForUpdate(r.from) \notin locks[t]
    <3>1. ForUpdate(r.from) \in locks[t] => FALSE
      BY <1>1, LockedAlone DEF Modes
    <3> QED
      BY <3>1
  <2> QED
    BY <1>1, <1>2, <2>1 DEF Respected
<1>7. LocksInv'
  BY <1>2, <1>3, <1>4, <1>5, <1>6, ReleaseKeeps DEF CommitPay
<1> QED
  BY <1>1, <1>7 DEF CommitPay, Desk!Pay

----------------------------------------------------------------------------
(* The theorems.                                                           *)

LEMMA InitOK == Init => LocksInv
<1> SUFFICES ASSUME Init PROVE LocksInv
  OBVIOUS
<1>1. Types /\ IdleHoldNothing /\ Exclusive /\ RequestsOK /\ ReadIsBilled
  BY OrderLocksAssumption DEF Init, Types, IdleHoldNothing, Exclusive, RequestsOK, ReadIsBilled, Statuses
<1>2. Bill(portions, status) = [o \in Orders |-> Start]
  BY DEF Init, Bill
<1>3. Brought = Billed + Opening
  BY <1>2, BilledIs DEF Brought, SumFunction
<1>4. Brought \in Nat /\ \A x \in Items : Brought = Billed + stock[x]
  BY <1>3, BroughtType DEF Init
<1>5. TakenIsBilled
  BY <1>4 DEF TakenIsBilled, Brought
<1> QED
  BY <1>1, <1>5 DEF LocksInv

\* Every step keeps the invariant, and is a step of the abstract desk or none.
LEMMA StepOK ==
  ASSUME LocksInv, [Next]_vars
  PROVE  LocksInv' /\ [Desk!Next]_<<portions, status>>
<1>1. CASE UNCHANGED vars
  BY <1>1 DEF vars, LocksInv, Types, IdleHoldNothing, Exclusive, RequestsOK, TakenIsBilled, ReadIsBilled,
              Billed, Brought
<1>2. ASSUME NEW s \in Sessions, NEW o \in Orders, NEW rows \in SetToSeqs(Items), AskAdd(s, o, rows)
      PROVE  LocksInv' /\ UNCHANGED <<portions, status>>
  BY <1>2, AskAddKeeps DEF AskAdd, Ask
<1>3. ASSUME NEW s \in Sessions, NEW o \in Orders, AskPay(s, o)
      PROVE  LocksInv' /\ UNCHANGED <<portions, status>>
  BY <1>3, AskPayKeeps DEF AskPay, Ask
<1>4. ASSUME NEW s \in Sessions, NEW from \in Orders, NEW to \in Orders \ {from}, AskSplit(s, from, to)
      PROVE  LocksInv' /\ UNCHANGED <<portions, status>>
  BY <1>4, AskTwoKeeps DEF AskSplit, Ask
<1>5. ASSUME NEW s \in Sessions, NEW from \in Orders, NEW to \in Orders \ {from},
             NEW rows \in {<<from, to>>, <<to, from>>}, AskMerge(s, from, to, rows)
      PROVE  LocksInv' /\ UNCHANGED <<portions, status>>
  BY <1>5, AskTwoKeeps DEF AskMerge, Ask
<1>6. ASSUME NEW s \in Sessions, Lock(s)
      PROVE  LocksInv' /\ UNCHANGED <<portions, status>>
  BY <1>6, LockKeeps DEF Lock, Rollback
<1>7. ASSUME NEW s \in Sessions, ReadStock(s)
      PROVE  LocksInv' /\ UNCHANGED <<portions, status>>
  BY <1>7, ReadStockKeeps DEF ReadStock, Rollback
<1>8. ASSUME NEW s \in Sessions, CommitAdd(s)
      PROVE  LocksInv' /\ Desk!Next
  <2>1. session[s].from \in Orders
    BY <1>8, ReadyHolds DEF CommitAdd
  <2> QED
    BY <1>8, <2>1, CommitAddKeeps DEF Desk!Next
<1>9. ASSUME NEW s \in Sessions, CommitSplit(s)
      PROVE  LocksInv' /\ Desk!Next
  BY <1>9, CommitSplitKeeps DEF Desk!Next
<1>10. ASSUME NEW s \in Sessions, CommitMerge(s)
       PROVE  LocksInv' /\ Desk!Next
  BY <1>10, CommitMergeKeeps DEF Desk!Next
<1>11. ASSUME NEW s \in Sessions, CommitPay(s)
       PROVE  LocksInv' /\ Desk!Next
  BY <1>11, CommitPayKeeps DEF Desk!Next
<1>12. ASSUME NEW s \in Sessions, Victim(s)
       PROVE  LocksInv' /\ UNCHANGED <<portions, status>>
  BY <1>12, RollbackKeeps DEF Victim, Rollback
<1>13. ASSUME NEW s \in Sessions, Recompute(s) \/ Reselect(s)
       PROVE  LocksInv' /\ UNCHANGED <<portions, status>>
  BY <1>13, RecomputeKeeps, ReselectKeeps DEF Recompute, Reselect
<1> QED
  BY <1>1, <1>2, <1>3, <1>4, <1>5, <1>6, <1>7, <1>8, <1>9, <1>10, <1>11, <1>12, <1>13 DEF Next, Commit

LEMMA Invariance == Spec => []LocksInv
<1>1. LocksInv /\ [Next]_vars => LocksInv'
  BY StepOK
<1> QED
  BY InitOK, <1>1, PTL DEF Spec

\* Sessions that wait hold only locks that go together (the types of the locks
\* and of the requests in flight).
THEOREM LocksTypes == Spec => []TypeOK
<1>1. LocksInv => TypeOK
  BY DEF LocksInv, Types, Exclusive, TypeOK, Conflict, LockSet, Modes
<1> QED
  BY Invariance, <1>1, PTL

\* What was taken from the stock is on a bill: addItems on an order that is being
\* merged, split or paid does not leave its portion on a merged order only.
THEOREM WhatIsTakenIsBilled == Spec => []TakenIsBilled
<1>1. LocksInv => TakenIsBilled
  BY DEF LocksInv
<1> QED
  BY Invariance, <1>1, PTL

\* addItems, splitOrder, mergeOrders and the payment implement the abstract desk:
\* however they overlap, portions move as if each request were one step.
THEOREM LocksImplementDesk == Spec => DeskSpec
<1>1. Init => Desk!Init
  BY DEF Init, Desk!Init
<1>2. LocksInv /\ [Next]_vars => [Desk!Next]_<<portions, status>>
  BY StepOK
<1> QED
  BY Invariance, <1>1, <1>2, PTL DEF Spec, DeskSpec, Desk!Spec

=============================================================================
