--------------------------- MODULE Payroll_proofs ---------------------------
(***************************************************************************)
(* Theorems about sheets and wages, for any number of people, shifts and   *)
(* requests that overlap: the status of an attendance row agrees with its  *)
(* times, whoever wrote it last, unless two saves mixed their columns; the *)
(* tables stay well formed; a slip that is paid has a voucher and every    *)
(* voucher is for a whole slip; a payroll never claims more than its slips *)
(* were paid.                                                              *)
(*                                                                         *)
(* First what a sheet is worth, which is a whole number whatever the       *)
(* settings say; then the invariants of the office and of the wages, one   *)
(* lemma for every step, and the theorems.                                 *)
(***************************************************************************)
EXTENDS Payroll, SumTheorems, TLAPS

LEMMA KeysFinite == IsFiniteSet(Keys)
<1> DEFINE Pairs == (Staff \X Days) \X Shifts
           f == [p \in Pairs |-> <<p[1][1], p[1][2], p[2]>>]
<1>1. IsFiniteSet(Pairs)
  BY SheetsAssumption, FS_Product
<1>2. f \in Surjection(Pairs, Keys)
  <2>1. f \in [Pairs -> Keys]
    BY DEF Keys
  <2>2. ASSUME NEW k \in Keys PROVE \E p \in Pairs : f[p] = k
    <3> DEFINE p == <<<<k[1], k[2]>>, k[3]>>
    <3>1. p \in Pairs /\ f[p] = k
      BY <2>2 DEF Keys
    <3> QED
      BY <3>1
  <2> QED
    BY <2>1, <2>2 DEF Surjection
<1> HIDE DEF Pairs, f
<1> QED
  BY <1>1, <1>2, FS_Surjection

LEMMA RowsFinite ==
  ASSUME NEW s, NEW from, NEW to
  PROVE  IsFiniteSet(Rows(s, from, to)) /\ Rows(s, from, to) \subseteq Keys
<1>1. Rows(s, from, to) \subseteq Keys
  BY DEF Rows
<1> QED
  BY <1>1, KeysFinite, FS_Subset

\* The table of attendance, as far as wages read it.
SheetsTyped ==
  /\ shifts \in [Shifts -> Form \cup {Nothing}]
  /\ attendance \in [Keys -> Row \cup {Nothing}]
  /\ \A k \in Keys : attendance[k] # Nothing => shifts[k[3]] # Nothing

LEMMA SheetTimes ==
  ASSUME SheetsTyped, NEW k \in Keys, attendance[k] # Nothing
  PROVE  /\ shifts[k[3]].start \in Nat /\ shifts[k[3]].end \in Nat
         /\ attendance[k].in # Nothing => attendance[k].in \in Int
         /\ attendance[k].out # Nothing => attendance[k].out \in Int
<1>1. shifts[k[3]] \in Form /\ attendance[k] \in Row
  BY DEF SheetsTyped, Keys
<1>2. 0..(DayLength - 1) \subseteq Int
  BY SheetsAssumption
<1> QED
  BY <1>1, <1>2 DEF Form, Row, Times

LEMMA QuartersType ==
  ASSUME SheetsTyped, NEW k \in Keys, attendance[k] # Nothing
  PROVE  Quarters(k) \in Int
<1> DEFINE in == IF attendance[k].in = Nothing THEN shifts[k[3]].start ELSE attendance[k].in
           out == IF attendance[k].out = Nothing THEN shifts[k[3]].end ELSE attendance[k].out
<1>1. in \in Int /\ out \in Int
  BY SheetTimes
<1>2. Quarters(k) = IF out > in THEN out - in ELSE 0
  BY DEF Quarters
<1> HIDE DEF in, out
<1> QED
  BY <1>1, <1>2

LEMMA SumIntegers ==
  ASSUME NEW S, IsFiniteSet(S), NEW f, \A x \in S : f[x] \in Int
  PROVE  SumFunctionOnSet(f, S) \in Int
BY SumRemove

LEMMA UnitsType ==
  ASSUME SheetsTyped, NEW s, NEW type \in {"PER_SHIFT", "PER_HOUR", "PER_STANDARD_DAY", "FIXED"},
         NEW from, NEW to
  PROVE  Units(s, type, from, to) \in Int
<1> DEFINE rows == Rows(s, from, to)
           f == [k \in rows |-> Quarters(k)]
           quarters == SumOver(Quarters, rows)
<1>1. IsFiniteSet(rows) /\ Cardinality(rows) \in Nat
  BY RowsFinite, FS_CardinalityType
<1>2. \A k \in rows : f[k] \in Int
  BY QuartersType DEF Rows
<1>3. quarters = SumFunctionOnSet(f, rows)
  BY DEF SumOver, SumFunction
<1> HIDE DEF f
<1>4. quarters \in Int
  BY <1>1, <1>2, <1>3, SumIntegers
<1>5. Units(s, type, from, to) =
        CASE type = "PER_SHIFT" -> Cardinality(rows)
          [] type = "PER_HOUR" -> quarters
          [] type = "PER_STANDARD_DAY" -> quarters \div StandardDay
          [] type = "FIXED" -> 1
  BY DEF Units
<1> HIDE DEF quarters, rows
<1>6. quarters \div StandardDay \in Int
  BY <1>4, WagesAssumption
<1> QED
  BY <1>1, <1>4, <1>5, <1>6

LEMMA ViolationsType ==
  ASSUME SheetsTyped, NEW s, NEW from, NEW to, NEW kind \in {"LATE", "EARLY", "FIXED"}
  PROVE  Violations(s, from, to)[kind].times \in Int /\ Violations(s, from, to)[kind].quarters \in Int
<1> DEFINE rows == Rows(s, from, to)
           late == {k \in rows : Late(k)}
           early == {k \in rows : Early(k)}
           f == [k \in late |-> attendance[k].in - shifts[k[3]].start]
           g == [k \in early |-> shifts[k[3]].end - attendance[k].out]
<1>1. IsFiniteSet(late) /\ IsFiniteSet(early)
  BY RowsFinite, FS_Subset
<1>2. Cardinality(late) \in Nat /\ Cardinality(early) \in Nat
  BY <1>1, FS_CardinalityType
<1>3. (\A k \in late : f[k] \in Int) /\ (\A k \in early : g[k] \in Int)
  BY SheetTimes DEF Rows, Late, Early
<1>4. Violations(s, from, to) =
        [LATE |-> [times |-> Cardinality(late), quarters |-> SumFunctionOnSet(f, late)],
         EARLY |-> [times |-> Cardinality(early), quarters |-> SumFunctionOnSet(g, early)],
         FIXED |-> [times |-> 1, quarters |-> 0]]
  BY DEF Violations, SumOver, SumFunction
<1> HIDE DEF late, early, f, g
<1>5. SumFunctionOnSet(f, late) \in Int /\ SumFunctionOnSet(g, early) \in Int
  BY <1>1, <1>3, SumIntegers
<1> QED
  BY <1>2, <1>4, <1>5

LEMMA BonusType ==
  ASSUME NEW s \in Staff, NEW x \in Settings
  PROVE  Bonus(s, x.bonus) \in Int
<1> DEFINE reached == {r \in x.bonus : Revenue[s] >= r.fromRevenue}
           best == CHOOSE r \in reached : \A q \in reached : q.fromRevenue <= r.fromRevenue
<1>1. CASE reached = {} \/ Revenue[s] <= 0
  BY <1>1 DEF Bonus
<1>2. CASE ~ (reached = {} \/ Revenue[s] <= 0)
  <2>1. IsFiniteSet(reached) /\ \A r \in reached : r.fromRevenue \in Int /\ r.percent \in Nat
    BY WagesAssumption, FS_Subset
  <2>2. \E r \in reached : \A q \in reached : q.fromRevenue <= r.fromRevenue
    <3> DEFINE G == {T \in SUBSET reached : T = {} \/ \E r \in T : \A q \in T : q.fromRevenue <= r.fromRevenue}
    <3>1. {} \in G
      OBVIOUS
    <3>2. ASSUME NEW T \in SUBSET reached, NEW r \in T, T \ {r} \in G PROVE T \in G
      <4>1. CASE T \ {r} = {}
        <5>1. \A q \in T : q.fromRevenue <= r.fromRevenue
          BY <2>1, <4>1
        <5> QED
          BY <5>1
      <4>2. CASE T \ {r} # {}
        <5> PICK b \in T \ {r} : \A q \in T \ {r} : q.fromRevenue <= b.fromRevenue
          BY <3>2, <4>2
        <5>1. \A q \in T : q.fromRevenue \in Int
          BY <2>1
        <5>2. CASE b.fromRevenue <= r.fromRevenue
          <6>1. \A q \in T : q.fromRevenue <= r.fromRevenue
            BY <5>1, <5>2
          <6> QED
            BY <6>1
        <5>3. CASE r.fromRevenue <= b.fromRevenue
          <6>1. \A q \in T : q.fromRevenue <= b.fromRevenue
            BY <5>3
          <6> QED
            BY <6>1
        <5> QED
          BY <5>1, <5>2, <5>3
      <4> QED
        BY <4>1, <4>2
    <3>3. G \subseteq SUBSET reached
      OBVIOUS
    <3> HIDE DEF G
    <3>4. reached \in G
      BY <2>1, <3>1, <3>2, <3>3, ElementInduction
    <3> QED
      BY <1>2, <3>4 DEF G
  <2>3. best \in reached
    BY <2>2
  <2>4. Bonus(s, x.bonus) = (Revenue[s] * best.percent) \div 100
    BY <1>2 DEF Bonus
  <2> HIDE DEF best
  <2>5. Revenue[s] * best.percent \in Int
    <3>1. Revenue[s] \in Int /\ best.percent \in Int
      BY <2>1, <2>3, WagesAssumption
    <3> QED
      BY <3>1
  <2> QED
    BY <2>4, <2>5
<1> QED
  BY <1>1, <1>2

LEMMA AllowanceType ==
  ASSUME NEW x \in Settings, NEW units \in Int
  PROVE  Allowance(x.allowances, units) \in Int
<1> DEFINE a == x.allowances
           f == [k \in DOMAIN a |-> a[k].amount * (IF a[k].type = "PER_DAY_FIXED" THEN units ELSE 1)]
<1>1. IsFiniteSet(DOMAIN a) /\ \A k \in DOMAIN a : a[k].amount \in Nat
  BY WagesAssumption
<1>2. \A k \in DOMAIN a : f[k] \in Int
  BY <1>1
<1>3. Allowance(a, units) = SumFunctionOnSet(f, DOMAIN a)
  BY DEF Allowance, SumOver, SumFunction
<1> HIDE DEF f
<1> QED
  BY <1>1, <1>2, <1>3, SumIntegers

LEMMA DeductionType ==
  ASSUME SheetsTyped, NEW x \in Settings, NEW s, NEW from, NEW to
  PROVE  Deduction(x.deductions, Violations(s, from, to)) \in Int
<1> DEFINE ds == x.deductions
           v == Violations(s, from, to)
           counted(d) == IF d.condition = "BY_TIMES" THEN v[d.kind].times ELSE v[d.kind].quarters \div d.block
           f == [k \in DOMAIN ds |-> ds[k].amount * counted(ds[k])]
<1>1. /\ IsFiniteSet(DOMAIN ds)
      /\ \A k \in DOMAIN ds : /\ ds[k].kind \in {"LATE", "EARLY", "FIXED"} /\ ds[k].amount \in Nat
                              /\ ds[k].condition # "BY_TIMES" => ds[k].block \in Nat \ {0}
  BY WagesAssumption
<1>2. \A kind \in {"LATE", "EARLY", "FIXED"} : v[kind].times \in Int /\ v[kind].quarters \in Int
  BY ViolationsType
<1>3. Deduction(ds, v) = SumFunctionOnSet(f, DOMAIN ds)
  BY DEF Deduction, SumOver, SumFunction
<1> HIDE DEF v
<1>4. \A k \in DOMAIN ds : f[k] \in Int
  <2> SUFFICES ASSUME NEW k \in DOMAIN ds PROVE ds[k].amount * counted(ds[k]) \in Int
    OBVIOUS
  <2>1. ds[k].amount \in Int /\ counted(ds[k]) \in Int
    BY <1>1, <1>2
  <2> HIDE DEF counted
  <2> QED
    BY <2>1
<1> HIDE DEF f
<1>5. SumFunctionOnSet(f, DOMAIN ds) \in Int
  BY <1>1, <1>4, SumIntegers
<1> QED
  BY <1>3, <1>5 DEF v

LEMMA TotalType ==
  ASSUME SheetsTyped, NEW s \in Staff, NEW x \in Settings, NEW units \in Int, NEW from, NEW to
  PROVE  Total(s, x, units, Violations(s, from, to)) \in Int
<1> DEFINE bonus == Bonus(s, x.bonus)
           more == Allowance(x.allowances, units)
           less == Deduction(x.deductions, Violations(s, from, to))
<1>1. bonus \in Int /\ more \in Int /\ less \in Int
  BY BonusType, AllowanceType, DeductionType
<1>2. x.base * units \in Int
  BY WagesAssumption
<1>3. Total(s, x, units, Violations(s, from, to)) = x.base * units + bonus + more - less
  BY DEF Total
<1> HIDE DEF bonus, more, less
<1> QED
  BY <1>1, <1>2, <1>3


\* A row whose columns are of two saves may say anything.
RowOK(row) == row.overlapped \/ TellsTheTimes(row)

Unique(rows) ==
  \A v, w \in rows : v.id = w.id \/ <<v.user, v.day, v.shift>> = <<w.user, w.day, w.shift>> => v = w

\* The tables of the office.
OfficeOK ==
  /\ clock \in {0} \cup Moments /\ edits \in Nat
  /\ SheetsTyped
  /\ schedules \subseteq PlanRow /\ Unique(schedules)
  /\ \A w \in schedules : shifts[w.shift] # Nothing
  /\ \A k \in Keys : attendance[k] # Nothing => RowOK(attendance[k])

SlipRow == [staff : Staff, total : Int, paid : Int, remaining : Int, status : {"CLOSED", "PAID"},
            since : Nat \cup {Nothing}]
PayrollRow == [from : Nat, to : Nat, slips : Seq(SlipRow), total : Int, paid : Int, remaining : Int,
               status : {"CLOSED", "PAID"}]

\* A slip is paid in full or not at all.
Fresh(slip) ==
  slip.paid = 0 /\ slip.remaining = slip.total /\ slip.status = "CLOSED" /\ slip.since = Nothing
Settled(slip) ==
  /\ slip.total > 0 /\ slip.paid = slip.total /\ slip.remaining = 0
  /\ slip.status = "PAID" /\ slip.since \in Nat

Totals(p) == SumOver(LAMBDA i : p.slips[i].total, DOMAIN p.slips)
PaidOut(p) == SumOver(LAMBDA i : p.slips[i].paid, DOMAIN p.slips)

\* What holds of a payroll in the table, and of one that a request has read.
PayrollOK(p) ==
  /\ p \in PayrollRow
  /\ \A i \in DOMAIN p.slips : Fresh(p.slips[i]) \/ Settled(p.slips[i])
  /\ p.total = Totals(p) /\ p.paid + p.remaining = p.total /\ p.paid <= PaidOut(p)
  /\ p.status = "PAID" /\ (\A i \in DOMAIN p.slips : p.slips[i].total >= 0) =>
       \A i \in DOMAIN p.slips : p.slips[i].remaining = 0

\* What a payroll may become: slips are settled, never reopened.
Later(old, new) ==
  /\ DOMAIN new.slips = DOMAIN old.slips /\ new.total = old.total
  /\ \A i \in DOMAIN old.slips :
       new.slips[i].total = old.slips[i].total /\ (Settled(old.slips[i]) => Settled(new.slips[i]))

HasVoucher(n, i) == \E v \in vouchers : v.payroll = n /\ v.slip = i

VoucherOK(v) ==
  /\ v.payroll \in DOMAIN payrolls /\ v.slip \in DOMAIN payrolls[v.payroll].slips
  /\ v.asked \in Nat /\ v.asked < asked
  /\ LET slip == payrolls[v.payroll].slips[v.slip]
     IN v.amount = slip.total /\ (Settled(slip) => v.asked < slip.since)

WagesOK ==
  /\ settings \in [Staff -> Settings \cup {Nothing}] /\ asked \in Nat
  /\ payrolls \in Seq(PayrollRow) /\ \A n \in DOMAIN payrolls : PayrollOK(payrolls[n])
  /\ \A v \in vouchers : VoucherOK(v)
  /\ \A n \in DOMAIN payrolls : \A i \in DOMAIN payrolls[n].slips :
       Settled(payrolls[n].slips[i]) => HasVoucher(n, i)

\* What holds of a request in flight, by what it is about.
PlanOK(r) == r.rows \subseteq PlanRow /\ Unique(r.rows)

SheetOK(r) ==
  /\ r.key \in Keys /\ r.row \in Row /\ TellsTheTimes(r.row)
  /\ ~ r.fresh => attendance[r.key] # Nothing

WriteOK(r) ==
  /\ r.key \in Keys /\ r.row \in Row /\ TellsTheTimes(r.row)
  /\ r.db \in Row /\ attendance[r.key] # Nothing

MakingOK(r) ==
  /\ {"op", "units", "todo", "slips"} \subseteq DOMAIN r
  /\ r.from \in Nat /\ r.to \in Nat
  /\ DOMAIN r.todo \subseteq Staff /\ \A s \in DOMAIN r.todo : r.todo[s] \in Settings
  /\ r.slips \in Seq(SlipRow) /\ \A i \in DOMAIN r.slips : Fresh(r.slips[i])
  /\ r.op = "slip" => r.units.staff \in DOMAIN r.todo /\ r.units.count \in Int

Begun(r) == r.paid \cup (IF r.op = "save" THEN {r.now} ELSE {})
Chosen(r) == r.todo \cup Begun(r)

PayOK(r) ==
  /\ {"op", "now", "todo", "paid"} \subseteq DOMAIN r
  /\ r.number \in DOMAIN payrolls /\ r.asked \in Nat /\ r.asked < asked
  /\ PayrollOK(r.payroll) /\ Later(r.payroll, payrolls[r.number])
  /\ Chosen(r) \subseteq DOMAIN r.payroll.slips
  /\ \A i \in Chosen(r) :
       LET slip == payrolls[r.number].slips[i]
       IN /\ Fresh(r.payroll.slips[i]) /\ r.payroll.slips[i].total > 0
          /\ Settled(slip) => r.asked < slip.since
  /\ \A i \in Begun(r) : HasVoucher(r.number, i)

RequestOK(r) ==
  /\ "op" \in DOMAIN r
  /\ r.op = "plan" => PlanOK(r)
  /\ r.op = "sheet" => SheetOK(r)
  /\ r.op = "write" => WriteOK(r)
  /\ r.op \in {"count", "slip"} => MakingOK(r)
  /\ r.op \in {"pay", "save"} => PayOK(r)

RequestsOK ==
  /\ req = [c \in Clients |-> req[c]]
  /\ \A c \in Clients : req[c] # Nothing => RequestOK(req[c])

StaffInv == OfficeOK /\ WagesOK /\ RequestsOK

----------------------------------------------------------------------------
LEMMA RequestStep ==
  ASSUME RequestsOK, NEW c \in Clients, NEW r, req' = [req EXCEPT ![c] = r],
         \A t : RequestOK(t) => RequestOK(t)', r # Nothing => RequestOK(r)'
  PROVE  RequestsOK'
<1>1. \A d \in Clients : req'[d] = IF d = c THEN r ELSE req[d]
  BY DEF RequestsOK
<1>2. req' = [d \in Clients |-> req'[d]]
  BY DEF RequestsOK
<1>3. ASSUME NEW d \in Clients, req'[d] # Nothing, NEW t, t = req'[d]
      PROVE  RequestOK(t)'
  <2>1. CASE d = c
    BY <1>1, <1>3, <2>1
  <2>2. CASE d # c
    <3>1. t = req[d] /\ req[d] # Nothing
      BY <1>1, <1>3, <2>2
    <3> QED
      BY <3>1 DEF RequestsOK
  <2> QED
    BY <2>1, <2>2
<1>4. \A d \in Clients : req'[d] # Nothing => RequestOK(req[d])'
  BY <1>3 DEF RequestOK, PlanOK, SheetOK, WriteOK, MakingOK, PayOK, Begun, Chosen, HasVoucher
<1> QED
  BY <1>2, <1>4 DEF RequestsOK

\* What a step of the sheets leaves of the requests, and of the wages.
LEMMA SheetsLeave ==
  ASSUME UNCHANGED payVars, \A k \in Keys : attendance[k] # Nothing => attendance'[k] # Nothing
  PROVE  (\A t : RequestOK(t) => RequestOK(t)') /\ (WagesOK => WagesOK')
<1>1. ASSUME NEW t, RequestOK(t) PROVE RequestOK(t)'
  BY <1>1 DEF payVars, RequestOK, PlanOK, SheetOK, WriteOK, MakingOK, PayOK, Begun, Chosen, HasVoucher
<1>2. ASSUME WagesOK PROVE WagesOK'
  BY <1>2 DEF payVars, WagesOK, VoucherOK, HasVoucher
<1> QED
  BY <1>1, <1>2

\* A request of the sheets begins, or a request ends.
LEMMA RequestTurns ==
  ASSUME RequestsOK, WagesOK, NEW c \in Clients, NEW r, req' = [req EXCEPT ![c] = r],
         UNCHANGED <<attendance, payVars>>, r # Nothing => RequestOK(r)
  PROVE  RequestsOK' /\ WagesOK'
BY SheetsLeave, RequestStep

LEMMA RequestsRest ==
  ASSUME RequestsOK, WagesOK, UNCHANGED <<req, attendance, payVars>>
  PROVE  RequestsOK' /\ WagesOK'
<1>1. WagesOK'
  BY SheetsLeave
<1>2. \A c \in Clients : req'[c] # Nothing => RequestOK(req[c])'
  BY DEF RequestsOK, payVars, RequestOK, PlanOK, SheetOK, WriteOK, MakingOK, PayOK, Begun, Chosen, HasVoucher
<1>3. req' = [c \in Clients |-> req'[c]]
  BY DEF RequestsOK
<1> QED
  BY <1>1, <1>2, <1>3 DEF RequestsOK

LEMMA OfficeRests ==
  ASSUME OfficeOK, UNCHANGED <<clock, shifts, schedules, attendance>>, edits' \in {edits, edits + 1}
  PROVE  OfficeOK'
<1>1. edits' \in Nat
  BY DEF OfficeOK
<1> QED
  BY <1>1 DEF OfficeOK, SheetsTyped, Unique, RowOK

----------------------------------------------------------------------------
(* The steps of the sheets.                                                *)

LEMMA TickKeeps ==
  ASSUME StaffInv, Tick, UNCHANGED payVars
  PROVE  StaffInv'
<1>1. clock' \in Moments
  BY DEF Tick
<1>2. OfficeOK'
  BY <1>1 DEF Tick, StaffInv, OfficeOK, SheetsTyped, Unique, RowOK
<1> QED
  BY <1>2, RequestsRest DEF Tick, StaffInv

LEMMA SetShiftKeeps ==
  ASSUME StaffInv, NEW c \in Clients, NEW s \in Shifts, NEW f \in Forms, SetShift(c, s, f),
         UNCHANGED payVars
  PROVE  StaffInv'
<1>1. f \in Form /\ f # Nothing
  BY SheetsAssumption, NothingAssumption
<1>2. shifts' = [shifts EXCEPT ![s] = f] /\ shifts \in [Shifts -> Form \cup {Nothing}]
  BY DEF SetShift, StaffInv, OfficeOK, SheetsTyped
<1>3. shifts' \in [Shifts -> Form \cup {Nothing}]
  BY <1>1, <1>2
<1>4. \A q \in Shifts : shifts[q] # Nothing => shifts'[q] # Nothing
  BY <1>1, <1>2
<1>5. edits' \in Nat
  BY DEF SetShift, Ask, StaffInv, OfficeOK
<1>6. SheetsTyped'
  BY <1>3, <1>4 DEF SetShift, StaffInv, OfficeOK, SheetsTyped, Keys
<1>7. \A w \in schedules : shifts'[w.shift] # Nothing
  BY <1>4 DEF StaffInv, OfficeOK, PlanRow
<1>8. OfficeOK'
  BY <1>5, <1>6, <1>7 DEF SetShift, StaffInv, OfficeOK, Unique, RowOK
<1> QED
  BY <1>8, RequestsRest DEF SetShift, StaffInv

LEMMA RemoveShiftKeeps ==
  ASSUME StaffInv, NEW c \in Clients, NEW s \in Shifts, RemoveShift(c, s), UNCHANGED payVars
  PROVE  StaffInv'
<1>1. shifts' = [shifts EXCEPT ![s] = Nothing] /\ shifts \in [Shifts -> Form \cup {Nothing}]
  BY DEF RemoveShift, StaffInv, OfficeOK, SheetsTyped
<1>2. shifts' \in [Shifts -> Form \cup {Nothing}]
  BY <1>1
<1>3. \A q \in Shifts \ {s} : shifts'[q] = shifts[q]
  BY <1>1
<1>4. \A k \in Keys : attendance[k] # Nothing => k[3] # s
  BY DEF RemoveShift
<1>5. edits' \in Nat
  BY DEF RemoveShift, Ask, StaffInv, OfficeOK
<1>6. SheetsTyped'
  BY <1>2, <1>3, <1>4 DEF RemoveShift, StaffInv, OfficeOK, SheetsTyped, Keys
<1>7. schedules' = {w \in schedules : w.shift # s}
  BY DEF RemoveShift
<1>8. \A w \in schedules' : shifts'[w.shift] # Nothing
  BY <1>3, <1>7 DEF StaffInv, OfficeOK, PlanRow
<1>9. Unique(schedules)' /\ schedules' \subseteq PlanRow
  BY <1>7 DEF StaffInv, OfficeOK, Unique
<1>10. OfficeOK'
  BY <1>5, <1>6, <1>8, <1>9 DEF RemoveShift, StaffInv, OfficeOK, RowOK
<1> QED
  BY <1>10, RequestsRest DEF RemoveShift, StaffInv

LEMMA PlanReadKeeps ==
  ASSUME StaffInv, NEW c \in Clients, NEW users \in SUBSET Staff, NEW s \in Shifts, NEW d \in Days,
         NEW until \in Repeats, PlanRead(c, users, s, d, until), UNCHANGED payVars
  PROVE  StaffInv'
<1> DEFINE days == RepeatDays(d, until)
           row(u, e) == [id |-> <<edits, u, e>>, user |-> u, day |-> e, shift |-> s,
                         group |-> IF until = Nothing THEN Nothing ELSE edits]
           rows == {row(u, e) : u \in users, e \in days}
           r == [op |-> "plan", rows |-> rows]
<1>1. req' = [req EXCEPT ![c] = r] /\ UNCHANGED <<clock, shifts, schedules, attendance>> /\ edits' = edits + 1
  BY DEF PlanRead, Begin, Ask
<1>2. days \subseteq Days /\ edits \in Nat
  BY DEF RepeatDays, StaffInv, OfficeOK
<1>3. rows \subseteq PlanRow
  BY <1>2 DEF PlanRow
<1>4. Unique(rows)
  BY DEF Unique
<1> HIDE DEF rows
<1>5. RequestOK(r)
  BY <1>3, <1>4 DEF RequestOK, PlanOK
<1> HIDE DEF r
<1> QED
  BY <1>1, <1>5, RequestTurns, OfficeRests DEF StaffInv

LEMMA MoveReadKeeps ==
  ASSUME StaffInv, NEW c \in Clients, NEW w, NEW s \in Shifts, NEW d \in Days,
         MoveRead(c, w, s, d), UNCHANGED payVars
  PROVE  StaffInv'
<1> DEFINE row == [w EXCEPT !.shift = s, !.day = d]
           r == [op |-> "plan", rows |-> {row}]
<1>1. req' = [req EXCEPT ![c] = r] /\ UNCHANGED <<clock, shifts, schedules, attendance>> /\ edits' = edits + 1
  BY DEF MoveRead, Begin, Ask
<1>2. w \in PlanRow
  BY DEF MoveRead, StaffInv, OfficeOK
<1>3. row \in PlanRow
  BY <1>2 DEF PlanRow
<1> HIDE DEF row
<1>4. RequestOK(r)
  BY <1>3 DEF RequestOK, PlanOK, Unique
<1> HIDE DEF r
<1> QED
  BY <1>1, <1>4, RequestTurns, OfficeRests DEF StaffInv

LEMMA PlanSaveKeeps ==
  ASSUME StaffInv, NEW c \in Clients, PlanSave(c), UNCHANGED payVars
  PROVE  StaffInv'
<1> DEFINE rows == req[c].rows
           others == {w \in schedules : \A r \in rows : r.id # w.id}
           legal == \A r \in rows : /\ shifts[r.shift] # Nothing
                                    /\ \A w \in others : <<w.user, w.day, w.shift>> # <<r.user, r.day, r.shift>>
<1>1. /\ req' = [req EXCEPT ![c] = Nothing] /\ UNCHANGED <<clock, shifts, attendance, edits>>
      /\ schedules' = IF legal THEN others \cup rows ELSE schedules
  BY DEF PlanSave, Done
<1>2. rows \subseteq PlanRow /\ Unique(rows)
  BY DEF PlanSave, At, StaffInv, RequestsOK, RequestOK, PlanOK
<1>3. OfficeOK'
  <2>1. CASE ~ legal
    BY <1>1, <2>1, OfficeRests DEF StaffInv
  <2>2. CASE legal
    <3>1. schedules' = others \cup rows /\ others \subseteq schedules
      BY <1>1, <2>2
    <3>2. schedules' \subseteq PlanRow /\ \A w \in schedules' : shifts[w.shift] # Nothing
      BY <1>2, <2>2, <3>1 DEF StaffInv, OfficeOK
    <3>3. Unique(schedules')
      <4> SUFFICES ASSUME NEW v \in schedules', NEW w \in schedules',
                          v.id = w.id \/ <<v.user, v.day, v.shift>> = <<w.user, w.day, w.shift>>
                   PROVE  v = w
        BY DEF Unique
      <4>1. CASE v \in others /\ w \in others
        BY <3>1, <4>1 DEF StaffInv, OfficeOK, Unique
      <4>2. CASE v \in rows /\ w \in rows
        BY <1>2, <4>2 DEF Unique
      <4>3. ASSUME v \in others, w \in rows PROVE FALSE
        BY <2>2, <4>3
      <4>4. ASSUME w \in others, v \in rows PROVE FALSE
        BY <2>2, <4>4
      <4> QED
        BY <3>1, <4>1, <4>2, <4>3, <4>4
    <3> QED
      BY <1>1, <3>2, <3>3 DEF StaffInv, OfficeOK, SheetsTyped, Unique, RowOK
  <2> QED
    BY <2>1, <2>2
<1> QED
  BY <1>1, <1>3, RequestTurns DEF StaffInv

LEMMA UnplanKeeps ==
  ASSUME StaffInv, NEW c \in Clients, NEW rows, Unplan(c, rows), UNCHANGED payVars
  PROVE  StaffInv'
<1>1. schedules' \subseteq schedules /\ edits' \in Nat
  BY DEF Unplan, Ask, StaffInv, OfficeOK
<1>2. OfficeOK'
  BY <1>1 DEF Unplan, StaffInv, OfficeOK, SheetsTyped, Unique, RowOK
<1> QED
  BY <1>2, RequestsRest DEF Unplan, StaffInv

LEMMA SetRulesKeeps ==
  ASSUME StaffInv, NEW c \in Clients, NEW active, SetRules(c, active), UNCHANGED payVars
  PROVE  StaffInv'
BY OfficeRests, RequestsRest DEF SetRules, Ask, StaffInv

LEMMA EvaluatedRows ==
  ASSUME NEW f, NEW row, row.asOf = f, row.status = Evaluate(f, row.in, row.out)
  PROVE  TellsTheTimes(row)
<1>1. CASE row.in = Nothing \/ row.out = Nothing
  BY <1>1 DEF Evaluate, TellsTheTimes
<1>2. CASE ~(row.in = Nothing \/ row.out = Nothing)
  BY <1>2 DEF Evaluate, TellsTheTimes
<1> QED
  BY <1>1, <1>2

\* A row of the schedule is for somebody, and its shift exists.
LEMMA PlannedRow ==
  ASSUME StaffInv, NEW w \in schedules
  PROVE  /\ <<w.user, w.day, w.shift>> \in Keys /\ w.day \in Nat /\ shifts[w.shift] \in Form
         /\ attendance[<<w.user, w.day, w.shift>>] # Nothing =>
              attendance[<<w.user, w.day, w.shift>>] \in Row
<1>1. w \in PlanRow /\ shifts[w.shift] # Nothing
  BY DEF StaffInv, OfficeOK
<1>2. <<w.user, w.day, w.shift>> \in Keys /\ w.shift \in Shifts /\ w.day \in Days
  BY <1>1 DEF PlanRow, Keys
<1> QED
  BY <1>1, <1>2, SheetsAssumption DEF StaffInv, OfficeOK, SheetsTyped

LEMMA MomentsAndDays == {0} \cup Moments \subseteq Nat /\ DayLength \in Nat \ {0}
BY SheetsAssumption

LEMMA CheckKeeps ==
  ASSUME StaffInv, NEW c \in Clients, NEW w, NEW type \in {"IN", "OUT"}, NEW place, NEW face,
         CheckRead(c, w, type, place, face), UNCHANGED payVars
  PROVE  StaffInv'
<1> DEFINE k == <<w.user, w.day, w.shift>>
           f == shifts[w.shift]
           now == clock - (w.day - 1) * DayLength
           hhmm == now % DayLength
           old == attendance[k]
           was == IF old = Nothing THEN [in |-> Nothing, out |-> Nothing] ELSE old
           row == IF type = "IN"
                  THEN [in |-> hhmm, out |-> was.out, status |-> "MISSING", method |-> "SELF", asOf |-> f,
                        overlapped |-> FALSE]
                  ELSE [in |-> was.in, out |-> hhmm, status |-> Evaluate(f, was.in, hhmm),
                        method |-> "SELF", asOf |-> f, overlapped |-> FALSE]
           r == [op |-> "sheet", key |-> k, fresh |-> old = Nothing, row |-> row]
<1>1. req' = [req EXCEPT ![c] = r] /\ UNCHANGED <<clock, shifts, schedules, attendance>> /\ edits' = edits + 1
  BY DEF CheckRead, Begin, Ask
<1>2. TellsTheTimes(row)
  <2>1. CASE type = "IN"
    <3>1. row.status = "MISSING" /\ row.method = "SELF"
      BY <2>1
    <3> HIDE DEF row
    <3> QED
      BY <3>1 DEF TellsTheTimes
  <2>2. CASE type # "IN"
    <3>1. row.asOf = f /\ row.status = Evaluate(f, row.in, row.out)
      BY <2>2
    <3> HIDE DEF row, f
    <3> QED
      BY <3>1, EvaluatedRows
  <2> QED
    BY <2>1, <2>2
<1>3. k \in Keys /\ w.day \in Nat /\ f \in Form /\ (old # Nothing => old \in Row)
  BY PlannedRow DEF CheckRead
<1>4. row \in Row
  <2>1. hhmm \in 0..(DayLength - 1)
    <3>1. clock \in Nat /\ DayLength \in Nat \ {0}
      BY MomentsAndDays DEF StaffInv, OfficeOK
    <3>2. (w.day - 1) * DayLength \in Int
      BY <1>3, <3>1
    <3>3. now \in Int
      BY <3>1, <3>2
    <3> HIDE DEF now
    <3> QED
      BY <3>1, <3>3
  <2> HIDE DEF hhmm, f, k
  <2>2. was.in \in Times /\ was.out \in Times
    <3>1. CASE old = Nothing
      BY <3>1 DEF Times
    <3>2. CASE old # Nothing
      <4>1. old \in Row /\ was = old
        BY <1>3, <3>2
      <4> HIDE DEF was, old
      <4> QED
        BY <4>1 DEF Row
    <3> QED
      BY <3>1, <3>2
  <2> HIDE DEF was
  <2>3. Evaluate(f, was.in, hhmm) \in {"ON_TIME", "LATE", "MISSING"}
    BY DEF Evaluate
  <2>4. hhmm \in Times
    BY <2>1 DEF Times
  <2> QED
    BY <1>3, <2>2, <2>3, <2>4 DEF Row
<1> HIDE DEF row, k
<1>5. r.op = "sheet" /\ r.key = k /\ r.row = row /\ (~ r.fresh => old # Nothing) /\ "op" \in DOMAIN r
  OBVIOUS
<1> HIDE DEF r
<1>6. RequestOK(r)
  BY <1>2, <1>3, <1>4, <1>5 DEF RequestOK, SheetOK
<1> QED
  BY <1>1, <1>6, RequestTurns, OfficeRests DEF StaffInv

LEMMA SheetKeeps ==
  ASSUME StaffInv, NEW c \in Clients, NEW w, NEW body \in Sheets, SheetRead(c, w, body), UNCHANGED payVars
  PROVE  StaffInv'
<1> DEFINE k == <<w.user, w.day, w.shift>>
           f == shifts[w.shift]
           old == attendance[k]
           row == [in |-> body.in, out |-> body.out, asOf |-> f,
                   status |-> IF body.status \in {"LEAVE", "ABSENT"} THEN body.status
                              ELSE Evaluate(f, body.in, body.out),
                   method |-> IF old = Nothing THEN "MANUAL" ELSE old.method,
                   overlapped |-> FALSE]
           r == [op |-> "sheet", key |-> k, fresh |-> old = Nothing, row |-> row]
<1>1. req' = [req EXCEPT ![c] = r] /\ UNCHANGED <<clock, shifts, schedules, attendance>> /\ edits' = edits + 1
  BY DEF SheetRead, Begin, Ask
<1>2. TellsTheTimes(row)
  <2>1. CASE body.status \in {"LEAVE", "ABSENT"}
    <3>1. row.status \in {"LEAVE", "ABSENT"}
      BY <2>1
    <3> HIDE DEF row
    <3> QED
      BY <3>1 DEF TellsTheTimes
  <2>2. CASE body.status \notin {"LEAVE", "ABSENT"}
    <3>1. row.asOf = f /\ row.status = Evaluate(f, row.in, row.out)
      BY <2>2
    <3> HIDE DEF row, f
    <3> QED
      BY <3>1, EvaluatedRows
  <2> QED
    BY <2>1, <2>2
<1>3. k \in Keys /\ f \in Form /\ (old # Nothing => old \in Row)
  BY PlannedRow DEF SheetRead
<1>4. row \in Row
  <2>1. body.in \in Times /\ body.out \in Times
    BY SheetsAssumption
  <2>2. Evaluate(f, body.in, body.out) \in {"ON_TIME", "LATE", "MISSING"}
    BY DEF Evaluate
  <2>3. old # Nothing => old.method \in {"MANUAL", "SELF"}
    BY <1>3 DEF Row
  <2> HIDE DEF f, k, old
  <2> QED
    BY <1>3, <2>1, <2>2, <2>3 DEF Row
<1> HIDE DEF row, k
<1>5. r.op = "sheet" /\ r.key = k /\ r.row = row /\ (~ r.fresh => old # Nothing) /\ "op" \in DOMAIN r
  OBVIOUS
<1> HIDE DEF r
<1>6. RequestOK(r)
  BY <1>2, <1>3, <1>4, <1>5 DEF RequestOK, SheetOK
<1> QED
  BY <1>1, <1>6, RequestTurns, OfficeRests DEF StaffInv

\* A row that is stored, for a request that ends.
LEMMA RowStored ==
  ASSUME StaffInv, NEW c \in Clients, NEW k \in Keys, NEW row \in Row, RowOK(row), shifts[k[3]] # Nothing,
         attendance' = [attendance EXCEPT ![k] = row], req' = [req EXCEPT ![c] = Nothing],
         UNCHANGED <<clock, shifts, schedules, edits, payVars>>
  PROVE  StaffInv'
<1>1. row # Nothing
  BY NothingAssumption
<1>2. /\ attendance \in [Keys -> Row \cup {Nothing}]
      /\ \A j \in Keys : attendance[j] # Nothing => shifts[j[3]] # Nothing /\ RowOK(attendance[j])
  BY DEF StaffInv, OfficeOK, SheetsTyped
<1>3. attendance' \in [Keys -> Row \cup {Nothing}]
  BY <1>2
<1>4. \A j \in Keys : attendance'[j] = IF j = k THEN row ELSE attendance[j]
  BY <1>2
<1>5. \A j \in Keys : attendance'[j] # Nothing => shifts[j[3]] # Nothing /\ RowOK(attendance'[j])
  BY <1>2, <1>4
<1>6. \A j \in Keys : attendance[j] # Nothing => attendance'[j] # Nothing
  BY <1>1, <1>4
<1>7. OfficeOK'
  BY <1>3, <1>5 DEF StaffInv, OfficeOK, SheetsTyped, Unique, RowOK
<1> QED
  BY <1>6, <1>7, SheetsLeave, RequestStep DEF StaffInv

LEMMA SheetInsertKeeps ==
  ASSUME StaffInv, NEW c \in Clients, SheetInsert(c), UNCHANGED payVars
  PROVE  StaffInv'
<1> DEFINE k == req[c].key
           row == req[c].row
           legal == attendance[k] = Nothing /\ shifts[k[3]] # Nothing
<1>1. /\ req' = [req EXCEPT ![c] = Nothing] /\ UNCHANGED <<clock, shifts, schedules, edits, payVars>>
      /\ attendance' = IF legal THEN [attendance EXCEPT ![k] = row] ELSE attendance
  BY DEF SheetInsert, Done
<1>2. k \in Keys /\ row \in Row /\ TellsTheTimes(row)
  BY DEF SheetInsert, At, StaffInv, RequestsOK, RequestOK, SheetOK
<1>3. CASE legal
  <2>1. RowOK(row) /\ shifts[k[3]] # Nothing /\ attendance' = [attendance EXCEPT ![k] = row]
    BY <1>1, <1>2, <1>3 DEF RowOK
  <2> HIDE DEF k, row, legal
  <2> QED
    BY <1>1, <1>2, <2>1, RowStored
<1>4. CASE ~ legal
  <2>1. attendance' = attendance
    BY <1>1, <1>4
  <2> QED
    BY <1>1, <2>1, RequestTurns, OfficeRests DEF StaffInv
<1> QED
  BY <1>3, <1>4

LEMMA SheetSelectKeeps ==
  ASSUME StaffInv, NEW c \in Clients, SheetSelect(c), UNCHANGED payVars
  PROVE  StaffInv'
<1> DEFINE db == attendance[req[c].key]
           r == [op |-> "write", key |-> req[c].key, row |-> req[c].row, db |-> db]
<1>1. req' = [req EXCEPT ![c] = r] /\ UNCHANGED <<clock, shifts, schedules, attendance, edits, payVars>>
  BY DEF SheetSelect, Begin
<1>2. req[c].key \in Keys /\ req[c].row \in Row /\ TellsTheTimes(req[c].row) /\ db # Nothing
  BY DEF SheetSelect, At, StaffInv, RequestsOK, RequestOK, SheetOK
<1>3. db \in Row
  BY <1>2 DEF StaffInv, OfficeOK, SheetsTyped
<1>4. WriteOK(r) /\ r.op = "write" /\ "op" \in DOMAIN r
  BY <1>2, <1>3 DEF WriteOK
<1> HIDE DEF r
<1>5. RequestOK(r)
  BY <1>4 DEF RequestOK
<1> QED
  BY <1>1, <1>5, RequestTurns, OfficeRests DEF StaffInv

\* The update writes the entity itself if nothing came in between.
LEMMA WrittenRow ==
  ASSUME NEW row \in Row, NEW db \in Row, NEW now \in Row, TellsTheTimes(row)
  PROVE  Written(row, db, now) \in Row /\ RowOK(Written(row, db, now))
<1> DEFINE new == Written(row, db, now)
<1>1. /\ new.in = IF row.in # db.in THEN row.in ELSE now.in
      /\ new.out = IF row.out # db.out THEN row.out ELSE now.out
      /\ new.asOf = IF row.asOf # db.asOf THEN row.asOf ELSE now.asOf
      /\ new.method = IF row.method # db.method THEN row.method ELSE now.method
      /\ new.status = IF row.status # db.status THEN row.status ELSE now.status
      /\ new.overlapped = (now # db)
  BY DEF Written
<1>2. new = [in |-> new.in, out |-> new.out, asOf |-> new.asOf, method |-> new.method,
             status |-> new.status, overlapped |-> new.overlapped]
  BY DEF Written
<1> HIDE DEF new
<1>3. new \in Row
  <2>1. new.in \in Times /\ new.out \in Times /\ new.asOf \in Form
    BY <1>1 DEF Row
  <2>2. /\ new.method \in {"MANUAL", "SELF"}
        /\ new.status \in {"ON_TIME", "LATE", "MISSING", "LEAVE", "ABSENT"}
    BY <1>1 DEF Row
  <2>3. new.overlapped \in BOOLEAN
    BY <1>1
  <2> QED
    BY <1>2, <2>1, <2>2, <2>3 DEF Row
<1>4. ASSUME now = db PROVE TellsTheTimes(new)
  <2>1. /\ new.in = row.in /\ new.out = row.out /\ new.asOf = row.asOf
        /\ new.method = row.method /\ new.status = row.status
    BY <1>1, <1>4
  <2> QED
    BY <2>1 DEF TellsTheTimes
<1>5. ASSUME now # db PROVE new.overlapped = TRUE
  BY <1>1, <1>5
<1>6. RowOK(new)
  BY <1>4, <1>5, Zenon DEF RowOK
<1> QED
  BY <1>3, <1>6 DEF new

LEMMA SheetWriteKeeps ==
  ASSUME StaffInv, NEW c \in Clients, SheetWrite(c), UNCHANGED payVars
  PROVE  StaffInv'
<1> DEFINE k == req[c].key
           now == attendance[k]
           new == Written(req[c].row, req[c].db, now)
<1>1. /\ k \in Keys /\ req[c].row \in Row /\ TellsTheTimes(req[c].row) /\ req[c].db \in Row
      /\ now # Nothing
  BY DEF SheetWrite, At, StaffInv, RequestsOK, RequestOK, WriteOK
<1>2. now \in Row /\ shifts[k[3]] # Nothing
  BY <1>1 DEF StaffInv, OfficeOK, SheetsTyped
<1>3. /\ req' = [req EXCEPT ![c] = Nothing] /\ UNCHANGED <<clock, shifts, schedules, edits, payVars>>
      /\ attendance' = [attendance EXCEPT ![k] = new]
  BY <1>1 DEF SheetWrite, Done, StaffInv, OfficeOK, SheetsTyped
<1>4. new \in Row /\ RowOK(new)
  BY <1>1, <1>2, WrittenRow
<1> HIDE DEF k, new
<1> QED
  BY <1>1, <1>2, <1>3, <1>4, RowStored

LEMMA SheetsStep ==
  ASSUME StaffInv, SheetsNext, UNCHANGED payVars
  PROVE  StaffInv'
<1>1. ASSUME NEW c \in Clients, NEW s \in Shifts, RemoveShift(c, s) \/ \E f \in Forms : SetShift(c, s, f)
      PROVE  StaffInv'
  BY <1>1, RemoveShiftKeeps, SetShiftKeeps
<1>2. ASSUME NEW c \in Clients, NEW s \in Shifts, NEW d \in Days,
             \/ \E users \in SUBSET Staff, until \in Repeats : PlanRead(c, users, s, d, until)
             \/ \E w \in schedules : MoveRead(c, w, s, d)
      PROVE  StaffInv'
  BY <1>2, PlanReadKeeps, MoveReadKeeps
<1>3. ASSUME NEW c \in Clients, NEW w \in schedules,
             Unplan(c, {w}) \/ Unplan(c, {v \in schedules : v.group = w.group /\ w.group # Nothing})
      PROVE  StaffInv'
  BY <1>3, UnplanKeeps
<1>4. ASSUME NEW c \in Clients, NEW w \in schedules, NEW place \in Places, NEW face \in Faces,
             CheckRead(c, w, "IN", place, face) \/ CheckRead(c, w, "OUT", place, face)
      PROVE  StaffInv'
  BY <1>4, CheckKeeps
<1>5. ASSUME NEW c \in Clients, \E w \in schedules, body \in Sheets : SheetRead(c, w, body)
      PROVE  StaffInv'
  BY <1>5, SheetKeeps
<1>6. ASSUME NEW c \in Clients, \E active \in SUBSET Rules : SetRules(c, active)
      PROVE  StaffInv'
  BY <1>6, SetRulesKeeps
<1>7. ASSUME NEW c \in Clients, PlanSave(c) \/ SheetInsert(c) \/ SheetSelect(c) \/ SheetWrite(c)
      PROVE  StaffInv'
  BY <1>7, PlanSaveKeeps, SheetInsertKeeps, SheetSelectKeeps, SheetWriteKeeps
<1> QED
  BY TickKeeps, <1>1, <1>2, <1>3, <1>4, <1>5, <1>6, <1>7 DEF SheetsNext

----------------------------------------------------------------------------
(* The steps of making a payroll.                                          *)

LEMMA SequenceFacts ==
  ASSUME NEW S, NEW s \in Seq(S)
  PROVE  /\ Len(s) \in Nat /\ DOMAIN s = 1..Len(s) /\ IsFiniteSet(DOMAIN s)
         /\ \A k \in DOMAIN s : s[k] \in S
<1>1. Len(s) \in Nat /\ DOMAIN s = 1..Len(s) /\ \A k \in DOMAIN s : s[k] \in S
  OBVIOUS
<1>2. IsFiniteSet(1..Len(s))
  BY <1>1, FS_Interval
<1> QED
  BY <1>1, <1>2

LEMMA AppendFacts ==
  ASSUME NEW S, NEW s \in Seq(S), NEW e \in S
  PROVE  /\ Append(s, e) \in Seq(S) /\ Len(Append(s, e)) = Len(s) + 1
         /\ DOMAIN Append(s, e) = DOMAIN s \cup {Len(s) + 1} /\ Len(s) + 1 \notin DOMAIN s
         /\ Append(s, e)[Len(s) + 1] = e /\ \A k \in DOMAIN s : Append(s, e)[k] = s[k]
OBVIOUS

LEMMA SetSalaryKeeps ==
  ASSUME StaffInv, NEW c \in Clients, NEW s \in Staff, NEW x \in Settings, SetSalary(c, s, x)
  PROVE  StaffInv'
<1>1. OfficeOK'
  BY OfficeRests DEF SetSalary, Ask, StaffInv
<1>2. settings' \in [Staff -> Settings \cup {Nothing}]
  BY DEF SetSalary, StaffInv, WagesOK
<1>3. WagesOK'
  BY <1>2 DEF SetSalary, StaffInv, WagesOK, VoucherOK, HasVoucher
<1>4. \A d \in Clients : req'[d] # Nothing => RequestOK(req[d])'
  BY DEF SetSalary, StaffInv, RequestsOK, RequestOK, PlanOK, SheetOK, WriteOK, MakingOK, PayOK, Begun, Chosen, HasVoucher
<1>5. req' = [d \in Clients |-> req'[d]]
  BY DEF SetSalary, StaffInv, RequestsOK
<1> QED
  BY <1>1, <1>3, <1>4, <1>5 DEF StaffInv, RequestsOK

\* A request about wages begins, goes on or ends.
LEMMA WageTurns ==
  ASSUME StaffInv, NEW c \in Clients, NEW r, req' = [req EXCEPT ![c] = r],
         UNCHANGED <<office, payVars>>, r # Nothing => RequestOK(r)
  PROVE  StaffInv'
BY RequestTurns, OfficeRests DEF office, StaffInv

LEMMA MakeKeeps ==
  ASSUME StaffInv, NEW c \in Clients, NEW who \in SUBSET Staff, NEW p \in Periods,
         MakePayroll(c, who, p.from, p.to)
  PROVE  StaffInv'
<1> DEFINE chosen == {s \in who : settings[s] # Nothing}
           todo == [s \in chosen |-> settings[s]]
           r == [op |-> "count", from |-> p.from, to |-> p.to, todo |-> todo, units |-> 0, slips |-> <<>>]
<1>1. req' = [req EXCEPT ![c] = r] /\ UNCHANGED <<office, payVars>>
  BY DEF MakePayroll, payVars
<1>2. DOMAIN todo \subseteq Staff /\ \A s \in DOMAIN todo : todo[s] \in Settings
  BY DEF StaffInv, WagesOK
<1>3. p.from \in Nat /\ p.to \in Nat
  BY WagesAssumption
<1> HIDE DEF todo
<1>4. RequestOK(r)
  BY <1>2, <1>3 DEF RequestOK, MakingOK
<1> HIDE DEF r
<1> QED
  BY <1>1, <1>4, WageTurns

\* A payroll that is being made.
LEMMA MakingAt ==
  ASSUME StaffInv, NEW c \in Clients, At(c, "count") \/ At(c, "slip")
  PROVE  MakingOK(req[c]) /\ req[c].op \in {"count", "slip"}
BY DEF At, StaffInv, RequestsOK, RequestOK

LEMMA CountKeeps ==
  ASSUME StaffInv, NEW c \in Clients, NEW s \in Staff, CountUnits(c, s)
  PROVE  StaffInv'
<1> DEFINE p == req[c]
           x == p.todo[s]
           u == [staff |-> s, count |-> Units(s, x.type, p.from, p.to)]
           q == [p EXCEPT !.op = "slip"]
           r == [q EXCEPT !.units = u]
<1>1. req' = [req EXCEPT ![c] = r] /\ UNCHANGED <<office, payVars>>
  BY DEF CountUnits, payVars, StaffInv, RequestsOK
<1>2. MakingOK(p) /\ s \in DOMAIN p.todo
  BY MakingAt DEF CountUnits
<1>3. u.staff = s /\ u.count \in Int
  <2>1. x.type \in {"PER_SHIFT", "PER_HOUR", "PER_STANDARD_DAY", "FIXED"}
    BY <1>2, WagesAssumption DEF MakingOK
  <2>2. SheetsTyped
    BY DEF StaffInv, OfficeOK
  <2> QED
    BY <2>1, <2>2, UnitsType
<1> HIDE DEF u, p
<1>4. /\ q.op = "slip" /\ DOMAIN q = DOMAIN p
      /\ q.from = p.from /\ q.to = p.to /\ q.todo = p.todo /\ q.slips = p.slips
  BY <1>2 DEF MakingOK
<1> HIDE DEF q
<1>5. /\ r.op = "slip" /\ DOMAIN r = DOMAIN p /\ r.units = u
      /\ r.from = p.from /\ r.to = p.to /\ r.todo = p.todo /\ r.slips = p.slips
  BY <1>2, <1>4 DEF MakingOK
<1> HIDE DEF r
<1>6. MakingOK(r)
  BY <1>2, <1>3, <1>5 DEF MakingOK
<1>7. RequestOK(r)
  BY <1>2, <1>5, <1>6 DEF RequestOK, MakingOK
<1> QED
  BY <1>1, <1>7, WageTurns

LEMMA SlipKeeps ==
  ASSUME StaffInv, NEW c \in Clients, AddSlip(c)
  PROVE  StaffInv'
<1> DEFINE p == req[c]
           s == p.units.staff
           total == Total(s, p.todo[s], p.units.count, Violations(s, p.from, p.to))
           slip == [staff |-> s, total |-> total, paid |-> 0, remaining |-> total,
                    status |-> "CLOSED", since |-> Nothing]
           todo == [q \in DOMAIN p.todo \ {s} |-> p.todo[q]]
           slips == Append(p.slips, slip)
           q1 == [p EXCEPT !.op = "count"]
           q2 == [q1 EXCEPT !.units = 0]
           q3 == [q2 EXCEPT !.todo = todo]
           r == [q3 EXCEPT !.slips = slips]
<1>1. req' = [req EXCEPT ![c] = r] /\ UNCHANGED <<office, payVars>>
  BY DEF AddSlip, payVars
<1>2. MakingOK(p) /\ p.op = "slip"
  BY MakingAt DEF AddSlip, At
<1>3. slip \in SlipRow /\ Fresh(slip)
  <2>1. s \in Staff /\ p.todo[s] \in Settings /\ p.units.count \in Int
    BY <1>2 DEF MakingOK
  <2>2. SheetsTyped
    BY DEF StaffInv, OfficeOK
  <2>3. total \in Int
    BY <2>1, <2>2, TotalType
  <2> HIDE DEF total, s
  <2> QED
    BY <2>1, <2>3 DEF SlipRow, Fresh
<1>4. DOMAIN todo \subseteq Staff /\ \A q \in DOMAIN todo : todo[q] \in Settings
  BY <1>2 DEF MakingOK
<1>5. slips \in Seq(SlipRow) /\ \A i \in DOMAIN slips : Fresh(slips[i])
  <2>1. p.slips \in Seq(SlipRow) /\ \A i \in DOMAIN p.slips : Fresh(p.slips[i])
    BY <1>2 DEF MakingOK
  <2> HIDE DEF slip
  <2> QED
    BY <1>3, <2>1, AppendFacts
<1> HIDE DEF p, todo, slips
<1>6. /\ q1.op = "count" /\ DOMAIN q1 = DOMAIN p /\ q1.from = p.from /\ q1.to = p.to
  BY <1>2 DEF MakingOK
<1> HIDE DEF q1
<1>7. /\ q2.op = "count" /\ DOMAIN q2 = DOMAIN p /\ q2.from = p.from /\ q2.to = p.to
  BY <1>2, <1>6 DEF MakingOK
<1> HIDE DEF q2
<1>8. /\ q3.op = "count" /\ DOMAIN q3 = DOMAIN p /\ q3.from = p.from /\ q3.to = p.to /\ q3.todo = todo
  BY <1>2, <1>7 DEF MakingOK
<1> HIDE DEF q3
<1>9. /\ r.op = "count" /\ DOMAIN r = DOMAIN p /\ r.from = p.from /\ r.to = p.to /\ r.todo = todo
      /\ r.slips = slips
  BY <1>2, <1>8 DEF MakingOK
<1> HIDE DEF r
<1>10. MakingOK(r)
  BY <1>2, <1>4, <1>5, <1>9 DEF MakingOK
<1>11. RequestOK(r)
  BY <1>2, <1>9, <1>10 DEF RequestOK, MakingOK
<1> QED
  BY <1>1, <1>11, WageTurns

\* Whatever grows leaves the requests in flight as they should be.
LEMMA GrowthLeaves ==
  ASSUME UNCHANGED attendance, asked \in Nat, asked' \in Nat, asked <= asked',
         vouchers \subseteq vouchers', DOMAIN payrolls \subseteq DOMAIN payrolls',
         \A n \in DOMAIN payrolls : payrolls'[n] = payrolls[n], NEW t, RequestOK(t)
  PROVE  RequestOK(t)'
<1>1. ASSUME t.op \in {"pay", "save"} PROVE PayOK(t)'
  <2>1. PayOK(t)
    BY <1>1 DEF RequestOK
  <2>2. t.asked < asked'
    BY <2>1 DEF PayOK
  <2>3. \A i \in Begun(t) : HasVoucher(t.number, i)'
    BY <2>1 DEF PayOK, HasVoucher
  <2>4. t.number \in DOMAIN payrolls' /\ payrolls'[t.number] = payrolls[t.number]
    BY <2>1 DEF PayOK
  <2> QED
    BY <2>1, <2>2, <2>3, <2>4 DEF PayOK, Begun, Chosen
<1> QED
  BY <1>1 DEF RequestOK, PlanOK, SheetOK, WriteOK, MakingOK


\* The sums of a payroll are of whole numbers.
LEMMA PayrollSums ==
  ASSUME NEW p, p.slips \in Seq(SlipRow)
  PROVE  /\ IsFiniteSet(DOMAIN p.slips) /\ \A i \in DOMAIN p.slips : p.slips[i] \in SlipRow
         /\ Totals(p) \in Int /\ PaidOut(p) \in Int
<1> DEFINE S == DOMAIN p.slips
           f == [i \in S |-> p.slips[i].total]
           g == [i \in S |-> p.slips[i].paid]
<1>1. IsFiniteSet(S) /\ \A i \in S : p.slips[i] \in SlipRow
  BY SequenceFacts
<1>2. \A i \in S : f[i] \in Int /\ g[i] \in Int
  BY <1>1 DEF SlipRow
<1>3. Totals(p) = SumFunctionOnSet(f, S) /\ PaidOut(p) = SumFunctionOnSet(g, S)
  BY DEF Totals, PaidOut, SumOver, SumFunction
<1> HIDE DEF f, g
<1> QED
  BY <1>1, <1>2, <1>3, SumIntegers

LEMMA FinishKeeps ==
  ASSUME StaffInv, NEW c \in Clients, FinishPayroll(c)
  PROVE  StaffInv'
<1> DEFINE p == req[c]
           total == SumOver(LAMBDA i : p.slips[i].total, DOMAIN p.slips)
           e == [from |-> p.from, to |-> p.to, slips |-> p.slips, total |-> total,
                 paid |-> 0, remaining |-> total, status |-> "CLOSED"]
<1>1. /\ payrolls' = Append(payrolls, e) /\ req' = [req EXCEPT ![c] = Nothing]
      /\ UNCHANGED <<office, settings, vouchers, asked>>
  BY DEF FinishPayroll, Done
<1>2. MakingOK(p)
  BY MakingAt DEF FinishPayroll
<1>3. e \in PayrollRow /\ PayrollOK(e) /\ \A i \in DOMAIN e.slips : Fresh(e.slips[i])
  <2>1. e.slips \in Seq(SlipRow) /\ Totals(e) = total /\ (\A i \in DOMAIN e.slips : Fresh(e.slips[i]))
    BY <1>2 DEF MakingOK, Totals
  <2>2. total \in Int
    BY <2>1, PayrollSums
  <2>3. e \in PayrollRow
    BY <1>2, <2>1, <2>2 DEF PayrollRow, MakingOK
  <2>4. PaidOut(e) = 0
    <3> DEFINE g == [i \in DOMAIN e.slips |-> e.slips[i].paid]
    <3>1. \A i \in DOMAIN e.slips : g[i] = 0
      BY <2>1 DEF Fresh
    <3>2. PaidOut(e) = SumFunctionOnSet(g, DOMAIN e.slips)
      BY DEF PaidOut, SumOver, SumFunction
    <3>3. IsFiniteSet(DOMAIN e.slips)
      BY <2>1, PayrollSums
    <3> HIDE DEF g
    <3> QED
      BY <3>1, <3>2, <3>3, SumZero
  <2>5. e.total = total /\ e.paid = 0 /\ e.remaining = total /\ e.status = "CLOSED"
    OBVIOUS
  <2> HIDE DEF e, total
  <2> QED
    BY <2>1, <2>2, <2>3, <2>4, <2>5 DEF PayrollOK
<1> HIDE DEF e
<1>4. WagesOK
  BY DEF StaffInv
<1>5. /\ payrolls' \in Seq(PayrollRow) /\ DOMAIN payrolls' = DOMAIN payrolls \cup {Len(payrolls) + 1}
      /\ payrolls'[Len(payrolls) + 1] = e /\ \A n \in DOMAIN payrolls : payrolls'[n] = payrolls[n]
  BY <1>1, <1>3, <1>4, AppendFacts DEF WagesOK
<1>6. \A n \in DOMAIN payrolls' : PayrollOK(payrolls'[n])
  BY <1>3, <1>4, <1>5 DEF WagesOK
<1>7. \A v \in vouchers : VoucherOK(v)'
  <2> SUFFICES ASSUME NEW v \in vouchers PROVE VoucherOK(v)'
    OBVIOUS
  <2>1. VoucherOK(v)
    BY <1>4 DEF WagesOK
  <2> QED
    BY <1>1, <1>5, <2>1 DEF VoucherOK
<1>8. \A n \in DOMAIN payrolls' : \A i \in DOMAIN payrolls'[n].slips :
        Settled(payrolls'[n].slips[i]) => HasVoucher(n, i)
  <2>1. \A i \in DOMAIN e.slips : ~ Settled(e.slips[i])
    BY <1>3 DEF Fresh, Settled
  <2> QED
    BY <1>4, <1>5, <2>1 DEF WagesOK
<1>9. WagesOK'
  BY <1>1, <1>4, <1>5, <1>6, <1>7, <1>8 DEF WagesOK, HasVoucher
<1>10. \A t : RequestOK(t) => RequestOK(t)'
  <2>1. attendance' = attendance /\ asked' = asked /\ vouchers' = vouchers /\ asked \in Nat
    BY <1>1, <1>4 DEF office, WagesOK
  <2> QED
    BY <1>5, <2>1, GrowthLeaves
<1>11. RequestsOK'
  BY <1>1, <1>10, RequestStep DEF StaffInv
<1> QED
  BY <1>1, <1>9, <1>11, OfficeRests DEF office, StaffInv

----------------------------------------------------------------------------
(* The steps of paying it.                                                 *)

LEMMA ReadKeeps ==
  ASSUME StaffInv, NEW c \in Clients, NEW n \in DOMAIN payrolls,
         NEW chosen \in SUBSET DOMAIN payrolls[n].slips, ReadPayroll(c, n, chosen)
  PROVE  StaffInv'
<1> DEFINE p == payrolls[n]
           todo == {i \in chosen : p.slips[i].remaining > 0}
           r == [op |-> "pay", number |-> n, payroll |-> p, asked |-> asked, now |-> 0, paid |-> {},
                 todo |-> todo]
<1>1. /\ req' = [req EXCEPT ![c] = r] /\ asked' = asked + 1
      /\ UNCHANGED <<office, settings, payrolls, vouchers>>
  BY DEF ReadPayroll
<1>2. WagesOK /\ asked \in Nat /\ PayrollOK(p)
  BY DEF StaffInv, WagesOK
<1>3. \A i \in todo : Fresh(p.slips[i]) /\ p.slips[i].total > 0 /\ ~ Settled(p.slips[i])
  BY <1>2 DEF PayrollOK, Fresh, Settled
<1>4. Later(p, p)
  BY DEF Later
<1>5. todo \subseteq DOMAIN p.slips
  OBVIOUS
<1> HIDE DEF todo
<1> PICK t : t = r
  OBVIOUS
<1>6. /\ {"op", "now", "todo", "paid"} \subseteq DOMAIN t /\ t.op = "pay" /\ t.number = n /\ t.payroll = p
      /\ t.asked = asked /\ t.paid = {} /\ t.todo = todo
  OBVIOUS
<1> HIDE DEF r, p
<1>7. RequestOK(t)'
  <2>1. Begun(t) = {} /\ Chosen(t) = todo
    BY <1>6 DEF Begun, Chosen
  <2>2. t.asked \in Nat /\ t.asked < asked'
    BY <1>1, <1>2, <1>6
  <2>3. PayOK(t)'
    BY <1>1, <1>2, <1>3, <1>4, <1>5, <1>6, <2>1, <2>2 DEF PayOK, p, Begun, Chosen
  <2> QED
    BY <1>6, <2>3 DEF RequestOK
<1>8. \A q : RequestOK(q) => RequestOK(q)'
  <2>1. attendance' = attendance /\ asked' \in Nat /\ asked <= asked'
    BY <1>1, <1>2 DEF office
  <2> QED
    BY <1>1, <1>2, <2>1, GrowthLeaves
<1>9. RequestsOK'
  BY <1>1, <1>7, <1>8, RequestStep DEF StaffInv
<1>10. WagesOK'
  <2>1. \A v \in vouchers : VoucherOK(v)'
    BY <1>1, <1>2 DEF WagesOK, VoucherOK
  <2> QED
    BY <1>1, <1>2, <2>1 DEF WagesOK, HasVoucher
<1> QED
  BY <1>1, <1>9, <1>10, OfficeRests DEF office, StaffInv

\* A request that is paying.
LEMMA PayingAt ==
  ASSUME StaffInv, NEW c \in Clients, At(c, "pay") \/ At(c, "save")
  PROVE  PayOK(req[c]) /\ req[c].op \in {"pay", "save"}
BY DEF At, StaffInv, RequestsOK, RequestOK

\* The fields that paying leaves alone.
PayRest(p, q) ==
  /\ {"op", "now", "todo", "paid"} \subseteq DOMAIN q
  /\ q.number = p.number /\ q.asked = p.asked /\ q.payroll = p.payroll

LEMMA VoucherKeeps ==
  ASSUME StaffInv, NEW c \in Clients, NEW i, WriteVoucher(c, i)
  PROVE  StaffInv'
<1> DEFINE p == req[c]
           v == [payroll |-> p.number, slip |-> i, amount |-> p.payroll.slips[i].remaining, asked |-> p.asked]
           todo == p.todo \ {i}
           q1 == [p EXCEPT !.op = "save"]
           q2 == [q1 EXCEPT !.now = i]
           r == [q2 EXCEPT !.todo = todo]
<1>1. /\ req' = [req EXCEPT ![c] = r] /\ vouchers' = vouchers \cup {v}
      /\ UNCHANGED <<office, settings, payrolls, asked>>
  BY DEF WriteVoucher, Slip
<1>2. PayOK(p) /\ p.op = "pay" /\ i \in p.todo
  BY PayingAt DEF WriteVoucher, At
<1>3. WagesOK
  BY DEF StaffInv
<1>4. i \in Chosen(p) /\ i \in DOMAIN p.payroll.slips
  BY <1>2 DEF PayOK, Chosen
<1>5. VoucherOK(v)
  <2> DEFINE slip == payrolls[p.number].slips[i]
  <2>1. /\ p.number \in DOMAIN payrolls /\ i \in DOMAIN payrolls[p.number].slips
        /\ p.asked \in Nat /\ p.asked < asked
        /\ p.payroll.slips[i].remaining = slip.total
        /\ Settled(slip) => p.asked < slip.since
    BY <1>2, <1>4 DEF PayOK, Later, Fresh
  <2> QED
    BY <2>1 DEF VoucherOK
<1> HIDE DEF v
<1>6. WagesOK'
  <2>1. \A w \in vouchers' : VoucherOK(w)'
    BY <1>1, <1>3, <1>5 DEF WagesOK, VoucherOK
  <2> QED
    BY <1>1, <1>3, <2>1 DEF WagesOK, HasVoucher
<1>7. \A t : RequestOK(t) => RequestOK(t)'
  <2>1. attendance' = attendance /\ asked' = asked /\ asked \in Nat /\ vouchers \subseteq vouchers' /\ payrolls' = payrolls
    BY <1>1, <1>3 DEF office, WagesOK
  <2> QED
    BY <2>1, GrowthLeaves
<1> PICK t : t = r
  OBVIOUS
<1>8. PayRest(p, t) /\ t.op = "save" /\ t.now = i /\ t.todo = todo /\ t.paid = p.paid
  <2> HIDE DEF p, todo
  <2>1. q1.op = "save" /\ PayRest(p, q1) /\ q1.paid = p.paid
    BY <1>2 DEF PayOK, PayRest
  <2> HIDE DEF q1
  <2>2. q2.op = "save" /\ q2.now = i /\ PayRest(p, q2) /\ q2.paid = p.paid
    BY <2>1 DEF PayRest
  <2> HIDE DEF q2
  <2> QED
    BY <1>2, <2>2 DEF PayRest
<1> HIDE DEF r
<1> PICK o : o = p
  OBVIOUS
<1>9. HasVoucher(o.number, i)'
  <2>1. v.payroll = o.number /\ v.slip = i
    BY DEF v
  <2>2. v \in vouchers'
    BY <1>1
  <2> HIDE DEF p
  <2> QED
    BY <2>1, <2>2 DEF HasVoucher
<1>10. PayOK(o)'
  <2>1. RequestOK(o)
    BY DEF WriteVoucher, At, StaffInv, RequestsOK
  <2>2. RequestOK(o)' /\ o.op = "pay"
    BY <1>2, <1>7, <2>1
  <2> QED
    BY <2>2 DEF RequestOK
<1>11. PayOK(t)'
  <2>1. Begun(t) = Begun(o) \cup {i} /\ Chosen(t) = Chosen(o)
    BY <1>2, <1>8 DEF Begun, Chosen
  <2>2. PayRest(o, t)
    BY <1>8
  <2> HIDE DEF p, v, todo
  <2> QED
    BY <1>9, <1>10, <2>1, <2>2 DEF PayOK, PayRest
<1>12. RequestOK(t)'
  BY <1>8, <1>11 DEF RequestOK, PayRest
<1>13. RequestsOK'
  BY <1>1, <1>7, <1>12, RequestStep DEF StaffInv
<1> QED
  BY <1>1, <1>6, <1>13, OfficeRests DEF office, StaffInv

LEMMA SaveSlipKeeps ==
  ASSUME StaffInv, NEW c \in Clients, SaveSlip(c)
  PROVE  StaffInv'
<1> DEFINE p == req[c]
           paid == p.paid \cup {p.now}
           q == [p EXCEPT !.op = "pay"]
           r == [q EXCEPT !.paid = paid]
<1>1. req' = [req EXCEPT ![c] = r] /\ UNCHANGED <<office, payVars>>
  BY DEF SaveSlip, payVars
<1>2. PayOK(p) /\ p.op = "save"
  BY PayingAt DEF SaveSlip, At
<1>3. PayRest(p, r) /\ r.op = "pay" /\ r.paid = paid /\ r.todo = p.todo
  <2> HIDE DEF p, paid
  <2>1. q.op = "pay" /\ PayRest(p, q) /\ q.todo = p.todo
    BY <1>2 DEF PayOK, PayRest
  <2> HIDE DEF q
  <2> QED
    BY <1>2, <2>1 DEF PayRest
<1> HIDE DEF p, r
<1>4. Begun(r) = Begun(p) /\ Chosen(r) = Chosen(p)
  BY <1>2, <1>3 DEF Begun, Chosen
<1>5. RequestOK(r)
  BY <1>2, <1>3, <1>4 DEF RequestOK, PayOK, PayRest
<1> QED
  BY <1>1, <1>5, WageTurns

\* A slip that is paid in full.
Settling(slip, since) ==
  [slip EXCEPT !.paid = slip.paid + slip.remaining, !.remaining = 0, !.status = "PAID", !.since = since]

LEMMA SlipSettles ==
  ASSUME NEW slip \in SlipRow, Fresh(slip), slip.total > 0, NEW since \in Nat
  PROVE  /\ Settling(slip, since) \in SlipRow /\ Settled(Settling(slip, since))
         /\ Settling(slip, since).total = slip.total /\ Settling(slip, since).since = since
<1> PICK settled : settled = Settling(slip, since)
  OBVIOUS
<1>1. slip.total \in Int /\ slip.paid + slip.remaining = slip.total
  BY DEF SlipRow, Fresh
<1>2. /\ settled.total = slip.total /\ settled.paid = slip.total /\ settled.remaining = 0
      /\ settled.status = "PAID" /\ settled.since = since
  BY <1>1 DEF SlipRow, Settling
<1>3. settled \in SlipRow
  <2>1. settled = [staff |-> slip.staff, total |-> slip.total, paid |-> slip.total, remaining |-> 0,
                   status |-> "PAID", since |-> since]
    BY <1>1 DEF SlipRow, Settling
  <2>2. slip.staff \in Staff
    BY DEF SlipRow
  <2> QED
    BY <1>1, <2>1, <2>2 DEF SlipRow
<1> QED
  BY <1>2, <1>3 DEF Settled

\* What a request adds to the payroll for the slips it has saved.
Saved(p, S) == SumOver(LAMBDA i : p.slips[i].remaining, S)

\* A payment settles slips and books them on top of what it had read.  It may
\* overwrite a sum, and with it lose what others paid, but claims no more than
\* was paid, and a payroll that it calls paid has nothing left to pay.
LEMMA PaymentBooks ==
  ASSUME NEW old, PayrollOK(old), NEW cur, PayrollOK(cur), Later(old, cur),
         NEW S, S \subseteq DOMAIN old.slips,
         \A i \in S : Fresh(old.slips[i]) /\ old.slips[i].total > 0,
         NEW new \in PayrollRow, DOMAIN new.slips = DOMAIN cur.slips,
         \A i \in DOMAIN cur.slips :
           /\ new.slips[i].total = cur.slips[i].total
           /\ IF i \in S THEN Settled(new.slips[i]) ELSE new.slips[i] = cur.slips[i],
         NEW paid, paid = old.paid + Saved(old, S),
         new.total = cur.total, new.paid = paid, new.remaining = old.total - paid,
         new.status = IF old.total - paid <= 0 THEN "PAID" ELSE old.status
  PROVE  PayrollOK(new) /\ Later(cur, new)
<1> DEFINE D == DOMAIN old.slips
           f == [i \in D |-> old.slips[i].paid]
           r == [i \in D |-> IF i \in S THEN old.slips[i].remaining ELSE 0]
           q == [i \in S |-> old.slips[i].remaining]
           h == [i \in D |-> f[i] + r[i]]
           g == [i \in D |-> new.slips[i].paid]
           t == [i \in D |-> new.slips[i].total]
           u == [i \in D |-> cur.slips[i].total]
<1>1. /\ old.slips \in Seq(SlipRow) /\ cur.slips \in Seq(SlipRow) /\ new.slips \in Seq(SlipRow)
      /\ old.paid \in Int /\ old.total \in Int /\ cur.total \in Int
  BY DEF PayrollOK, PayrollRow
<1>2. /\ IsFiniteSet(D) /\ DOMAIN cur.slips = D /\ DOMAIN new.slips = D
      /\ \A i \in D : old.slips[i] \in SlipRow /\ cur.slips[i] \in SlipRow /\ new.slips[i] \in SlipRow
  BY <1>1, PayrollSums DEF Later
<1>3. \A i \in D : Fresh(old.slips[i]) \/ Settled(old.slips[i])
  BY DEF PayrollOK
<1>4. \A i \in D : Fresh(cur.slips[i]) \/ Settled(cur.slips[i])
  BY <1>2 DEF PayrollOK
<1>5. \A i \in D : Fresh(new.slips[i]) \/ Settled(new.slips[i])
  BY <1>2, <1>4
<1>6. \A i \in D : /\ old.slips[i].total = cur.slips[i].total /\ cur.slips[i].total = new.slips[i].total
                   /\ Settled(old.slips[i]) => Settled(cur.slips[i])
                   /\ Settled(cur.slips[i]) => Settled(new.slips[i])
  BY <1>2 DEF Later
<1>7. Later(cur, new)
  BY <1>2, <1>6 DEF Later
<1>8. \A i \in D : /\ f[i] \in Int /\ r[i] \in Int /\ h[i] \in Int /\ h[i] = f[i] + r[i]
                   /\ g[i] \in Int /\ t[i] \in Int /\ u[i] \in Int /\ t[i] = u[i]
  BY <1>2, <1>6 DEF SlipRow
<1>9. \A i \in S : q[i] \in Int /\ r[i] = q[i]
  BY <1>2 DEF SlipRow
<1>10. \A i \in D : h[i] <= g[i]
  <2> SUFFICES ASSUME NEW i \in D PROVE f[i] + r[i] <= g[i]
    OBVIOUS
  <2>1. old.slips[i].total \in Int
    BY <1>2 DEF SlipRow
  <2>2. CASE i \in S
    <3>1. f[i] = 0 /\ r[i] = old.slips[i].total /\ g[i] = old.slips[i].total
      BY <1>2, <1>6, <2>2 DEF Fresh, Settled
    <3> QED
      BY <2>1, <3>1
  <2>3. CASE i \notin S
    <3>1. r[i] = 0
      BY <2>3
    <3>2. CASE Settled(old.slips[i])
      <4>1. f[i] = old.slips[i].total /\ g[i] = old.slips[i].total
        BY <1>6, <3>2 DEF Settled
      <4> QED
        BY <2>1, <3>1, <4>1
    <3>3. CASE Fresh(old.slips[i])
      <4>1. f[i] = 0 /\ g[i] \in {0, new.slips[i].total} /\ (g[i] # 0 => g[i] > 0)
        BY <1>5, <3>3 DEF Fresh, Settled
      <4>2. g[i] \in Int
        BY <1>8
      <4> HIDE DEF f, r, g
      <4> QED
        BY <3>1, <4>1, <4>2
    <3> QED
      BY <1>3, <3>2, <3>3
  <2> QED
    BY <2>2, <2>3
<1>11. (\A i \in D : t[i] >= 0) => \A i \in D : g[i] <= t[i]
  <2> SUFFICES ASSUME NEW i \in D, t[i] >= 0 PROVE g[i] <= t[i]
    OBVIOUS
  <2>1. g[i] = 0 \/ g[i] = t[i]
    BY <1>5 DEF Fresh, Settled
  <2>2. g[i] \in Int /\ t[i] \in Int
    BY <1>8
  <2> HIDE DEF g, t
  <2> QED
    BY <2>1, <2>2
<1>12. /\ PaidOut(old) = SumFunctionOnSet(f, D) /\ PaidOut(new) = SumFunctionOnSet(g, D)
       /\ Totals(new) = SumFunctionOnSet(t, D) /\ Totals(cur) = SumFunctionOnSet(u, D)
       /\ Saved(old, S) = SumFunctionOnSet(q, S)
  BY <1>2 DEF PaidOut, Totals, Saved, SumOver, SumFunction
<1>13. \A i \in D \ S : r[i] = 0
  OBVIOUS
<1> HIDE DEF f, r, q, h, g, t, u
<1>14. SumFunctionOnSet(h, D) = SumFunctionOnSet(f, D) + SumFunctionOnSet(r, D)
  BY <1>2, <1>8, SumPlus
<1>15. SumFunctionOnSet(r, D) = SumFunctionOnSet(q, S)
  <2>1. SumFunctionOnSet(r, D) = SumFunctionOnSet(r, S)
    BY <1>2, <1>8, <1>13, SumPart
  <2>2. IsFiniteSet(S)
    BY <1>2, FS_Subset
  <2>3. \A i \in S : r[i] \in Int /\ r[i] = q[i]
    BY <1>8, <1>9
  <2>4. SumFunctionOnSet(r, S) = SumFunctionOnSet(q, S)
    BY <2>2, <2>3, SumSame
  <2> QED
    BY <2>1, <2>4
<1>16. SumFunctionOnSet(h, D) <= SumFunctionOnSet(g, D)
  BY <1>2, <1>8, <1>10, SumLeq
<1>17. SumFunctionOnSet(t, D) = SumFunctionOnSet(u, D)
  BY <1>2, <1>8, SumSame
<1>18. /\ SumFunctionOnSet(f, D) \in Int /\ SumFunctionOnSet(r, D) \in Int
       /\ SumFunctionOnSet(g, D) \in Int /\ SumFunctionOnSet(t, D) \in Int
  BY <1>2, <1>8, SumIntegers
<1>19. old.paid <= PaidOut(old) /\ cur.total = Totals(cur) /\ cur.total = old.total
  BY DEF PayrollOK, Later
<1>20. paid \in Int /\ paid <= PaidOut(new)
  BY <1>1, <1>12, <1>14, <1>15, <1>16, <1>18, <1>19
<1>21. new.total = Totals(new) /\ new.paid + new.remaining = new.total
  BY <1>1, <1>12, <1>17, <1>19, <1>20
<1>22. ASSUME new.status = "PAID", \A i \in D : new.slips[i].total >= 0, NEW i \in D
       PROVE  new.slips[i].remaining = 0
  <2>1. CASE old.total - paid <= 0
    <3>1. SumFunctionOnSet(t, D) <= SumFunctionOnSet(g, D)
      BY <1>1, <1>12, <1>18, <1>19, <1>20, <1>21, <2>1
    <3>2. \A j \in D : g[j] <= t[j]
      BY <1>11, <1>22 DEF t
    <3>3. \A j \in D : g[j] = t[j]
      BY <1>2, <1>8, <3>1, <3>2, SumSqueezed
    <3>4. new.slips[i].paid = new.slips[i].total
      BY <3>3 DEF g, t
    <3> QED
      BY <1>5, <3>4 DEF Fresh, Settled
  <2>2. CASE ~ (old.total - paid <= 0)
    <3>1. old.status = "PAID" /\ \A j \in D : old.slips[j].total >= 0
      BY <1>6, <1>22, <2>2
    <3>2. old.slips[i].remaining = 0
      BY <3>1 DEF PayrollOK
    <3>3. CASE Settled(old.slips[i])
      BY <1>6, <3>3 DEF Settled
    <3>4. CASE Fresh(old.slips[i])
      <4>1. new.slips[i].total = 0
        BY <1>6, <3>2, <3>4 DEF Fresh
      <4>2. Fresh(new.slips[i])
        BY <1>5, <4>1 DEF Settled
      <4> QED
        BY <4>1, <4>2 DEF Fresh
    <3> QED
      BY <1>3, <3>3, <3>4
  <2> QED
    BY <2>1, <2>2
<1> QED
  BY <1>2, <1>5, <1>7, <1>20, <1>21, <1>22 DEF PayrollOK

LEMMA PaymentSettles ==
  ASSUME NEW old, PayrollOK(old), NEW cur, PayrollOK(cur), Later(old, cur), NEW at \in Nat,
         NEW S, S \subseteq DOMAIN old.slips,
         \A i \in S : Fresh(old.slips[i]) /\ old.slips[i].total > 0,
         NEW new, new = AfterPayment(cur, old, S, at)
  PROVE  /\ PayrollOK(new) /\ Later(cur, new)
         /\ \A i \in DOMAIN cur.slips :
              /\ i \notin S => new.slips[i] = cur.slips[i]
              /\ i \in S => new.slips[i].since =
                   IF cur.slips[i].since = Nothing THEN at ELSE cur.slips[i].since
<1> DEFINE since(i) == IF cur.slips[i].since = Nothing THEN at ELSE cur.slips[i].since
           settle(i) == Settling(old.slips[i], since(i))
           paid == old.paid + Saved(old, S)
           slips == [i \in DOMAIN cur.slips |-> IF i \in S THEN settle(i) ELSE cur.slips[i]]
           state == IF old.total - paid <= 0 THEN "PAID" ELSE old.status
<1>1. new = [cur EXCEPT !.slips = slips, !.paid = paid, !.remaining = old.total - paid, !.status = state]
  BY DEF AfterPayment, Saved, Settling
<1>2. /\ old.slips \in Seq(SlipRow) /\ cur.slips \in Seq(SlipRow) /\ cur \in PayrollRow
      /\ old.paid \in Int /\ old.total \in Int /\ old.status \in {"CLOSED", "PAID"}
      /\ DOMAIN cur.slips = DOMAIN old.slips
  BY DEF PayrollOK, PayrollRow, Later
<1>3. /\ \A i \in DOMAIN cur.slips : old.slips[i] \in SlipRow /\ cur.slips[i] \in SlipRow
      /\ IsFiniteSet(DOMAIN cur.slips) /\ DOMAIN cur.slips = 1..Len(cur.slips) /\ Len(cur.slips) \in Nat
  BY <1>2, SequenceFacts
<1>4. \A i \in DOMAIN cur.slips : since(i) \in Nat
  BY <1>3 DEF SlipRow
<1>5. \A i \in S : /\ settle(i) \in SlipRow /\ Settled(settle(i))
                   /\ settle(i).total = old.slips[i].total /\ settle(i).since = since(i)
  <2> SUFFICES ASSUME NEW i \in S
               PROVE  /\ settle(i) \in SlipRow /\ Settled(settle(i))
                      /\ settle(i).total = old.slips[i].total /\ settle(i).since = since(i)
    OBVIOUS
  <2>1. old.slips[i] \in SlipRow /\ Fresh(old.slips[i]) /\ old.slips[i].total > 0 /\ since(i) \in Nat
    BY <1>2, <1>3, <1>4
  <2> HIDE DEF since
  <2> QED
    BY <2>1, SlipSettles
<1> HIDE DEF settle
<1>6. /\ DOMAIN slips = DOMAIN cur.slips
      /\ \A i \in DOMAIN cur.slips :
           /\ slips[i] \in SlipRow /\ slips[i].total = cur.slips[i].total
           /\ i \in S => Settled(slips[i]) /\ slips[i].since = since(i)
           /\ i \notin S => slips[i] = cur.slips[i]
  BY <1>2, <1>3, <1>5 DEF Later
<1>7. slips \in Seq(SlipRow)
  <2>1. slips \in [1..Len(cur.slips) -> SlipRow]
    BY <1>3, <1>6
  <2> HIDE DEF slips
  <2> QED
    BY <1>3, <2>1
<1>8. paid \in Int
  <2> DEFINE q == [i \in S |-> old.slips[i].remaining]
  <2>1. IsFiniteSet(S) /\ \A i \in S : q[i] \in Int
    BY <1>2, <1>3, FS_Subset DEF SlipRow
  <2>2. Saved(old, S) = SumFunctionOnSet(q, S)
    BY DEF Saved, SumOver, SumFunction
  <2> HIDE DEF q
  <2>3. SumFunctionOnSet(q, S) \in Int
    BY <2>1, SumIntegers
  <2> QED
    BY <1>2, <2>2, <2>3
<1> HIDE DEF slips, paid, state, since
<1>9. old.total - paid \in Int /\ state \in {"CLOSED", "PAID"}
  BY <1>2, <1>8 DEF state
<1>10. /\ new.slips = slips /\ new.total = cur.total /\ new.paid = paid
       /\ new.remaining = old.total - paid /\ new.status = state /\ new \in PayrollRow
  <2>1. cur = [from |-> cur.from, to |-> cur.to, slips |-> cur.slips, total |-> cur.total, paid |-> cur.paid,
               remaining |-> cur.remaining, status |-> cur.status]
    BY <1>2 DEF PayrollRow
  <2>2. new = [from |-> cur.from, to |-> cur.to, slips |-> slips, total |-> cur.total, paid |-> paid,
               remaining |-> old.total - paid, status |-> state]
    BY <1>1, <2>1
  <2>3. cur.from \in Nat /\ cur.to \in Nat /\ cur.total \in Int
    BY <1>2 DEF PayrollRow
  <2> QED
    BY <1>7, <1>8, <1>9, <2>2, <2>3 DEF PayrollRow
<1>11. \A i \in DOMAIN cur.slips :
         /\ new.slips[i].total = cur.slips[i].total
         /\ IF i \in S THEN Settled(new.slips[i]) ELSE new.slips[i] = cur.slips[i]
  BY <1>6, <1>10
<1>12. /\ DOMAIN new.slips = DOMAIN cur.slips
       /\ new.status = IF old.total - paid <= 0 THEN "PAID" ELSE old.status
  BY <1>6, <1>10 DEF state
<1>13. paid = old.paid + Saved(old, S)
  BY DEF paid
<1>14. PayrollOK(new) /\ Later(cur, new)
  BY <1>10, <1>11, <1>12, <1>13, PaymentBooks
<1> QED
  BY <1>6, <1>10, <1>14 DEF since

LEMMA LaterStill ==
  ASSUME NEW a, NEW b, NEW d, Later(a, b), Later(b, d)
  PROVE  Later(a, d)
<1>1. /\ DOMAIN b.slips = DOMAIN a.slips /\ b.total = a.total
      /\ DOMAIN d.slips = DOMAIN b.slips /\ d.total = b.total
  BY DEF Later
<1>2. ASSUME NEW i \in DOMAIN a.slips
      PROVE  d.slips[i].total = a.slips[i].total /\ (Settled(a.slips[i]) => Settled(d.slips[i]))
  <2>1. b.slips[i].total = a.slips[i].total /\ (Settled(a.slips[i]) => Settled(b.slips[i]))
    BY DEF Later
  <2>2. d.slips[i].total = b.slips[i].total /\ (Settled(b.slips[i]) => Settled(d.slips[i]))
    BY <1>1 DEF Later
  <2> QED
    BY <2>1, <2>2
<1> QED
  BY <1>1, <1>2 DEF Later

LEMMA PaymentKeeps ==
  ASSUME StaffInv, NEW c \in Clients, FinishPayment(c)
  PROVE  StaffInv'
<1> PICK p : p = req[c]
  OBVIOUS
<1> PICK n : n = p.number
  OBVIOUS
<1> PICK cur : cur = payrolls[n]
  OBVIOUS
<1> PICK old : old = p.payroll
  OBVIOUS
<1> PICK new : new = AfterPayment(cur, old, p.paid, asked)
  OBVIOUS
<1>1. /\ payrolls' = [payrolls EXCEPT ![n] = new] /\ req' = [req EXCEPT ![c] = Nothing]
      /\ UNCHANGED <<office, settings, vouchers, asked>>
  BY DEF FinishPayment, Done
<1>2. PayOK(p) /\ WagesOK /\ p.op = "pay"
  BY PayingAt DEF FinishPayment, At, StaffInv
<1>3. /\ n \in DOMAIN payrolls /\ PayrollOK(old) /\ PayrollOK(cur) /\ Later(old, cur)
      /\ asked \in Nat /\ payrolls \in Seq(PayrollRow)
  BY <1>2 DEF PayOK, WagesOK
<1>4. /\ p.paid \subseteq DOMAIN old.slips /\ p.paid \subseteq Chosen(p) /\ p.paid \subseteq Begun(p)
      /\ \A i \in p.paid : Fresh(old.slips[i]) /\ old.slips[i].total > 0
  BY <1>2 DEF PayOK, Chosen, Begun
<1>5. /\ PayrollOK(new) /\ Later(cur, new)
      /\ \A i \in DOMAIN cur.slips :
           /\ i \notin p.paid => new.slips[i] = cur.slips[i]
           /\ i \in p.paid => new.slips[i].since =
                IF cur.slips[i].since = Nothing THEN asked ELSE cur.slips[i].since
  BY <1>3, <1>4, PaymentSettles
<1>6. /\ new \in PayrollRow /\ DOMAIN new.slips = DOMAIN cur.slips
      /\ \A i \in DOMAIN cur.slips : new.slips[i].total = cur.slips[i].total
  BY <1>5 DEF PayrollOK, Later
\* A slip that is settled now was settled later than every request in flight
\* and every voucher of it began.
<1>15. \A i \in DOMAIN cur.slips : \A m \in Nat :
         Settled(new.slips[i]) /\ m < asked /\ (Settled(cur.slips[i]) => m < cur.slips[i].since) =>
           m < new.slips[i].since
  <2> SUFFICES ASSUME NEW i \in DOMAIN cur.slips, NEW m \in Nat, Settled(new.slips[i]), m < asked,
                      Settled(cur.slips[i]) => m < cur.slips[i].since
               PROVE  m < new.slips[i].since
    OBVIOUS
  <2>1. CASE i \notin p.paid
    BY <1>5, <2>1
  <2>2. CASE i \in p.paid
    <3>1. new.slips[i].since = IF cur.slips[i].since = Nothing THEN asked ELSE cur.slips[i].since
      BY <1>5, <2>2
    <3>2. CASE cur.slips[i].since = Nothing
      BY <3>1, <3>2
    <3>3. CASE cur.slips[i].since # Nothing
      <4>1. Settled(cur.slips[i])
        BY <1>3, <3>3 DEF PayrollOK, Fresh
      <4> QED
        BY <3>1, <3>3, <4>1
    <3> QED
      BY <3>2, <3>3
  <2> QED
    BY <2>1, <2>2
<1>16. /\ payrolls' \in Seq(PayrollRow) /\ DOMAIN payrolls' = DOMAIN payrolls /\ payrolls'[n] = new
       /\ \A m \in DOMAIN payrolls \ {n} : payrolls'[m] = payrolls[m]
  BY <1>1, <1>3, <1>6
<1>17. WagesOK'
  <2>1. \A m \in DOMAIN payrolls' : PayrollOK(payrolls'[m])
    <3>1. PayrollOK(new) /\ \A m \in DOMAIN payrolls : PayrollOK(payrolls[m])
      BY <1>2, <1>5 DEF WagesOK
    <3> QED
      BY <1>16, <3>1
  <2>2. \A v \in vouchers : VoucherOK(v)'
    <3> SUFFICES ASSUME NEW v \in vouchers PROVE VoucherOK(v)'
      OBVIOUS
    <3>1. VoucherOK(v)
      BY <1>2 DEF WagesOK
    <3>2. CASE v.payroll # n
      BY <1>1, <1>16, <3>1, <3>2 DEF VoucherOK
    <3>3. CASE v.payroll = n
      <4>1. /\ v.slip \in DOMAIN cur.slips /\ v.asked \in Nat /\ v.asked < asked
            /\ v.amount = cur.slips[v.slip].total
            /\ Settled(cur.slips[v.slip]) => v.asked < cur.slips[v.slip].since
        BY <3>1, <3>3 DEF VoucherOK
      <4>2. v.amount = new.slips[v.slip].total /\ v.slip \in DOMAIN new.slips
        BY <1>6, <4>1
      <4>3. Settled(new.slips[v.slip]) => v.asked < new.slips[v.slip].since
        BY <1>15, <4>1
      <4> QED
        BY <1>1, <1>3, <1>16, <3>3, <4>1, <4>2, <4>3 DEF VoucherOK
    <3> QED
      BY <3>2, <3>3
  <2>3. \A m \in DOMAIN payrolls' : \A i \in DOMAIN payrolls'[m].slips :
          Settled(payrolls'[m].slips[i]) => HasVoucher(m, i)
    <3> SUFFICES ASSUME NEW m \in DOMAIN payrolls', NEW i \in DOMAIN payrolls'[m].slips,
                        Settled(payrolls'[m].slips[i])
                 PROVE  HasVoucher(m, i)
      OBVIOUS
    <3>1. CASE m # n
      BY <1>2, <1>16, <3>1 DEF WagesOK
    <3>2. CASE m = n /\ i \in p.paid
      BY <1>2, <1>4, <3>2 DEF PayOK
    <3>3. CASE m = n /\ i \notin p.paid
      <4>1. i \in DOMAIN cur.slips /\ Settled(cur.slips[i])
        <5>1. payrolls'[m] = new
          BY <1>16, <3>3
        <5>2. new.slips[i] = cur.slips[i] /\ i \in DOMAIN cur.slips
          BY <1>5, <1>6, <3>3, <5>1
        <5> QED
          BY <5>1, <5>2
      <4> QED
        BY <1>2, <1>3, <3>3, <4>1 DEF WagesOK
    <3> QED
      BY <3>1, <3>2, <3>3
  <2>4. /\ settings' \in [Staff -> Settings \cup {Nothing}] /\ asked' \in Nat
        /\ vouchers' = vouchers
    BY <1>1, <1>2 DEF WagesOK
  <2>5. \A m \in DOMAIN payrolls' : \A i \in DOMAIN payrolls'[m].slips :
          Settled(payrolls'[m].slips[i]) => HasVoucher(m, i)'
    BY <2>3, <2>4 DEF HasVoucher
  <2>6. \A v \in vouchers' : VoucherOK(v)'
    BY <2>2, <2>4
  <2> QED
    BY <1>16, <2>1, <2>4, <2>5, <2>6 DEF WagesOK
<1>18. \A t : RequestOK(t) => RequestOK(t)'
  <2> SUFFICES ASSUME NEW t, RequestOK(t) PROVE RequestOK(t)'
    OBVIOUS
  <2>1. attendance' = attendance
    BY <1>1 DEF office
  <2>2. ASSUME t.op \in {"pay", "save"} PROVE PayOK(t)'
    <3>1. PayOK(t)
      BY <2>2 DEF RequestOK
    <3>2. CASE t.number # n
      <4>1. payrolls'[t.number] = payrolls[t.number]
        BY <1>16, <3>1, <3>2 DEF PayOK
      <4> QED
        BY <1>1, <1>16, <3>1, <4>1 DEF PayOK, Begun, Chosen, HasVoucher
    <3>3. CASE t.number = n
      <4>1. /\ Later(t.payroll, cur) /\ Chosen(t) \subseteq DOMAIN cur.slips /\ t.asked \in Nat
            /\ t.asked < asked
            /\ \A i \in Chosen(t) : Settled(cur.slips[i]) => t.asked < cur.slips[i].since
        BY <3>1, <3>3 DEF PayOK, Later
      <4>2. Later(t.payroll, new)
        <5>1. Later(cur, new)
          BY <1>5
        <5> QED
          BY <4>1, <5>1, LaterStill
      <4>3. \A i \in Chosen(t) : Settled(new.slips[i]) => t.asked < new.slips[i].since
        BY <1>15, <4>1
      <4> QED
        BY <1>1, <1>3, <1>16, <3>1, <3>3, <4>2, <4>3 DEF PayOK, Begun, Chosen, HasVoucher
    <3> QED
      BY <3>2, <3>3
  <2> QED
    BY <2>1, <2>2 DEF RequestOK, PlanOK, SheetOK, WriteOK, MakingOK
<1>19. RequestsOK'
  BY <1>1, <1>18, RequestStep DEF StaffInv
<1> QED
  BY <1>1, <1>17, <1>19, OfficeRests DEF office, StaffInv

LEMMA LostKeeps ==
  ASSUME StaffInv, NEW c \in Clients, Lost(c)
  PROVE  StaffInv'
BY WageTurns DEF Lost, Done

LEMMA StaffStep ==
  ASSUME StaffInv, [Next]_<<sheetVars, payVars>>
  PROVE  StaffInv'
<1>1. CASE SheetsNext /\ UNCHANGED payVars
  BY <1>1, SheetsStep
<1>2. ASSUME NEW c \in Clients, NEW s \in Staff, CountUnits(c, s) \/ \E x \in Settings : SetSalary(c, s, x)
      PROVE  StaffInv'
  BY <1>2, CountKeeps, SetSalaryKeeps
<1>3. ASSUME NEW c \in Clients, \E who \in SUBSET Staff, p \in Periods : MakePayroll(c, who, p.from, p.to)
      PROVE  StaffInv'
  BY <1>3, MakeKeeps
<1>4. ASSUME NEW c \in Clients,
             \E n \in DOMAIN payrolls : \E chosen \in SUBSET DOMAIN payrolls[n].slips : ReadPayroll(c, n, chosen)
      PROVE  StaffInv'
  BY <1>4, ReadKeeps
<1>5. ASSUME NEW c \in Clients, NEW i, WriteVoucher(c, i)
      PROVE  StaffInv'
  BY <1>5, VoucherKeeps
<1>6. ASSUME NEW c \in Clients,
             AddSlip(c) \/ FinishPayroll(c) \/ SaveSlip(c) \/ FinishPayment(c) \/ Lost(c)
      PROVE  StaffInv'
  BY <1>6, SlipKeeps, FinishKeeps, SaveSlipKeeps, PaymentKeeps, LostKeeps
<1>7. CASE UNCHANGED <<sheetVars, payVars>>
  BY <1>7, RequestsRest, OfficeRests DEF sheetVars, StaffInv
<1> QED
  BY <1>1, <1>2, <1>3, <1>4, <1>5, <1>6, <1>7 DEF Next

LEMMA StaffInit == Init => StaffInv
<1> SUFFICES ASSUME Init PROVE StaffInv
  OBVIOUS
<1>1. OfficeOK
  <2>1. shifts = Opened /\ schedules = Planned /\ attendance = Recorded /\ clock = 0 /\ edits = 0
    BY DEF Init, SheetsInit
  <2> QED
    BY <2>1, SheetsAssumption DEF OfficeOK, SheetsTyped, Unique, RowOK
<1>2. WagesOK
  BY WagesAssumption DEF Init, WagesOK
<1>3. RequestsOK
  BY DEF Init, SheetsInit, RequestsOK
<1> QED
  BY <1>1, <1>2, <1>3 DEF StaffInv

LEMMA StaffInvariance == Spec => []StaffInv
BY StaffInit, StaffStep, PTL DEF Spec

----------------------------------------------------------------------------
\* upsertManual and check: the status of a row agrees with its times under the
\* shift it was written for, whichever of them read first and saved last, unless
\* another save of the row fell between the select and the update of its last one.
THEOREM StatusesTellTheTimes == Spec => []StatusTellsTheTimes
<1>1. StaffInv => StatusTellsTheTimes
  BY DEF StaffInv, OfficeOK, RowOK, StatusTellsTheTimes
<1> QED
  BY <1>1, StaffInvariance, PTL

\* The tables of the office: no attendance without its shift and none outside
\* its day, one row of the schedule per person, day and shift whichever plans
\* overlap, and no slip that is paid in part.
THEOREM StaffTypes == Spec => []StaffTypeOK
<1>1. StaffInv => StaffTypeOK
  <2> SUFFICES ASSUME StaffInv PROVE StaffTypeOK
    OBVIOUS
  <2>1. \A k \in Keys : attendance[k] # Nothing =>
          /\ shifts[k[3]] # Nothing
          /\ {attendance[k].in, attendance[k].out} \subseteq (0..(DayLength - 1)) \cup {Nothing}
    BY DEF StaffInv, OfficeOK, SheetsTyped, Row, Times
  <2>2. \A v, w \in schedules :
          /\ shifts[v.shift] # Nothing
          /\ v.id = w.id \/ <<v.user, v.day, v.shift>> = <<w.user, w.day, w.shift>> => v = w
    BY DEF StaffInv, OfficeOK, Unique
  <2>3. ASSUME NEW n \in DOMAIN payrolls, NEW i \in DOMAIN payrolls[n].slips
        PROVE  LET slip == payrolls[n].slips[i]
               IN slip.paid + slip.remaining = slip.total /\ (slip.status = "PAID" <=> slip.paid > 0)
    <3> DEFINE slip == payrolls[n].slips[i]
    <3>1. PayrollOK(payrolls[n])
      BY DEF StaffInv, WagesOK
    <3>2. payrolls[n].slips \in Seq(SlipRow)
      BY <3>1 DEF PayrollOK, PayrollRow
    <3>3. slip \in SlipRow /\ (Fresh(slip) \/ Settled(slip))
      BY <3>1, <3>2, SequenceFacts DEF PayrollOK
    <3> HIDE DEF slip
    <3>4. slip.paid + slip.remaining = slip.total /\ (slip.status = "PAID" <=> slip.paid > 0)
      BY <3>3 DEF SlipRow, Fresh, Settled
    <3> QED
      BY <3>4 DEF slip
  <2> QED
    BY <2>1, <2>2, <2>3 DEF StaffTypeOK, StaffInv, OfficeOK
<1> QED
  BY <1>1, StaffInvariance, PTL

\* payPayroll: a slip that is paid has its voucher, a voucher is for the whole
\* slip, and no request that began after a slip was settled pays it again.
THEOREM SlipsHaveVouchers == Spec => []VouchersMatchSlips
<1>1. StaffInv => VouchersMatchSlips
  <2> SUFFICES ASSUME StaffInv, NEW n \in DOMAIN payrolls, NEW i \in DOMAIN payrolls[n].slips
               PROVE  LET slip == payrolls[n].slips[i]
                          its == {v \in vouchers : v.payroll = n /\ v.slip = i}
                      IN /\ slip.status = "PAID" => its # {}
                         /\ \A v \in its : v.amount = slip.total /\ (slip.since # Nothing => v.asked < slip.since)
    BY DEF VouchersMatchSlips
  <2>1. Fresh(payrolls[n].slips[i]) \/ Settled(payrolls[n].slips[i])
    BY DEF StaffInv, WagesOK, PayrollOK
  <2>2. Settled(payrolls[n].slips[i]) => HasVoucher(n, i)
    BY DEF StaffInv, WagesOK
  <2>3. \A v \in vouchers : VoucherOK(v)
    BY DEF StaffInv, WagesOK
  <2> QED
    BY <2>1, <2>2, <2>3 DEF Fresh, HasVoucher, VoucherOK
<1> QED
  BY <1>1, StaffInvariance, PTL

\* payPayroll: payments that overlap overwrite each other's sum, and still a
\* payroll never claims more than its slips were paid.
THEOREM PayrollsNotOverstated == Spec => []PayrollNotOverstated
<1>1. StaffInv => PayrollNotOverstated
  BY DEF StaffInv, WagesOK, PayrollOK, PaidOut, PayrollNotOverstated
<1> QED
  BY <1>1, StaffInvariance, PTL

=============================================================================
