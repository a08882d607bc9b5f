------------------------------ MODULE Payroll -------------------------------
(***************************************************************************)
(* Wages: payroll.service.ts over the sheets of Timesheets.  A payroll is  *)
(* made in one transaction whose reads of attendance are outside it, and   *)
(* paid in one transaction that calls the cashbook, whose own transaction  *)
(* commits each voucher at once: a payment that fails keeps its vouchers.  *)
(***************************************************************************)
EXTENDS Timesheets, Sequences, Functions

CONSTANTS
  Hired,       \* Staff -> the setting at the start, or Nothing
  Settings,    \* salary settings: [type, base, bonus, allowances, deductions]
  StandardDay, \* quarters in a working day: 32
  Revenue,     \* Staff -> paid invoices of the orders the person opened
  Periods,     \* the periods payrolls are made for: [from, to]
  Payrolls,    \* the most payrolls
  Payments     \* the most requests to pay

\* The columns of a salary setting.
ASSUME WagesAssumption ==
  /\ StandardDay \in Nat \ {0} /\ Revenue \in [Staff -> Int]
  /\ Periods \subseteq [from : Nat, to : Nat]
  /\ Nothing \notin Settings /\ Hired \in [Staff -> Settings \cup {Nothing}]
  /\ \A x \in Settings :
       /\ x.type \in {"PER_SHIFT", "PER_HOUR", "PER_STANDARD_DAY", "FIXED"} /\ x.base \in Nat
       /\ IsFiniteSet(x.bonus)
       /\ \A r \in x.bonus : r.fromRevenue \in Int /\ r.percent \in Nat
       /\ IsFiniteSet(DOMAIN x.allowances)
       /\ \A k \in DOMAIN x.allowances : x.allowances[k].amount \in Nat
       /\ IsFiniteSet(DOMAIN x.deductions)
       /\ \A k \in DOMAIN x.deductions :
            LET d == x.deductions[k]
            IN /\ d.kind \in {"LATE", "EARLY", "FIXED"} /\ d.amount \in Nat
               /\ d.condition # "BY_TIMES" => d.block \in Nat \ {0}

VARIABLES
  settings,    \* Staff -> a setting, or Nothing
  payrolls,    \* sequence of payrolls: [from, to, slips, total, paid, remaining, status]; a slip
               \* also keeps the number of requests when it was settled, for the properties
  vouchers,    \* vouchers of the cashbook: [payroll, slip, amount, asked]
  asked        \* requests to pay so far

payVars == <<settings, payrolls, vouchers, asked>>
office == <<clock, shifts, schedules, attendance, rules, edits>>

SumOver(F(_), S) == SumFunction([x \in S |-> F(x)])

(***************************************************************************)
(* What a sheet is worth.                                                  *)
(***************************************************************************)
Rows(s, from, to) == {k \in Keys : k[1] = s /\ k[2] \in from..to /\ attendance[k] # Nothing}

\* calcTotalHours: a missing time is that of the shift.
Quarters(k) ==
  LET in == IF attendance[k].in = Nothing THEN shifts[k[3]].start ELSE attendance[k].in
      out == IF attendance[k].out = Nothing THEN shifts[k[3]].end ELSE attendance[k].out
  IN IF out > in THEN out - in ELSE 0

\* calcWorkingUnits: every row counts, whatever its status.
Units(s, type, from, to) ==
  LET quarters == SumOver(Quarters, Rows(s, from, to))
  IN CASE type = "PER_SHIFT" -> Cardinality(Rows(s, from, to))
       [] type = "PER_HOUR" -> quarters
       [] type = "PER_STANDARD_DAY" -> quarters \div StandardDay
       [] type = "FIXED" -> 1

\* getLateEarlyViolations.
Late(k) == attendance[k].in # Nothing /\ attendance[k].in > shifts[k[3]].start
Early(k) == attendance[k].out # Nothing /\ attendance[k].out < shifts[k[3]].end

Violations(s, from, to) ==
  LET late == {k \in Rows(s, from, to) : Late(k)}
      early == {k \in Rows(s, from, to) : Early(k)}
  IN [LATE |-> [times |-> Cardinality(late),
                quarters |-> SumOver(LAMBDA k : attendance[k].in - shifts[k[3]].start, late)],
      EARLY |-> [times |-> Cardinality(early),
                 quarters |-> SumOver(LAMBDA k : shifts[k[3]].end - attendance[k].out, early)],
      FIXED |-> [times |-> 1, quarters |-> 0]]

\* calcCommissionFromRules: the percentage of the highest step reached.
Bonus(s, steps) ==
  LET reached == {r \in steps : Revenue[s] >= r.fromRevenue}
      best == CHOOSE r \in reached : \A q \in reached : q.fromRevenue <= r.fromRevenue
  IN IF reached = {} \/ Revenue[s] <= 0 THEN 0 ELSE (Revenue[s] * best.percent) \div 100

\* calcAllowance.
Allowance(allowances, units) ==
  SumOver(LAMBDA k : allowances[k].amount * (IF allowances[k].type = "PER_DAY_FIXED" THEN units ELSE 1),
          DOMAIN allowances)

\* calcDeduction.
Deduction(deductions, violations) ==
  LET counted(d) == IF d.condition = "BY_TIMES" THEN violations[d.kind].times
                    ELSE violations[d.kind].quarters \div d.block
  IN SumOver(LAMBDA k : deductions[k].amount * counted(deductions[k]), DOMAIN deductions)

Total(s, setting, units, violations) ==
  setting.base * units + Bonus(s, setting.bonus) + Allowance(setting.allowances, units)
    - Deduction(setting.deductions, violations)

(***************************************************************************)
(* Making a payroll.                                                       *)
(***************************************************************************)
\* upsertSalarySetting.
SetSalary(c, s, setting) ==
  /\ Ask(c) /\ settings[s] # setting
  /\ settings' = [settings EXCEPT ![s] = setting]
  /\ UNCHANGED <<clock, shifts, schedules, attendance, rules, req, payrolls, vouchers, asked>>

Making == {c \in Clients : At(c, "count") \/ At(c, "slip")}

\* createPayroll, up to the settings of those it is for.
MakePayroll(c, who, from, to) ==
  /\ req[c] = Nothing /\ Len(payrolls) + Cardinality(Making) < Payrolls
  /\ LET chosen == {s \in who : settings[s] # Nothing}
     IN /\ chosen # {}
        /\ req' = [req EXCEPT ![c] =
             [op |-> "count", from |-> from, to |-> to, todo |-> [s \in chosen |-> settings[s]],
              units |-> 0, slips |-> <<>>]]
  /\ UNCHANGED <<office, settings, payrolls, vouchers, asked>>

\* The units of the next person, then the violations.
CountUnits(c, s) ==
  /\ At(c, "count") /\ s \in DOMAIN req[c].todo
  /\ req' = [req EXCEPT ![c].op = "slip", ![c].units =
       [staff |-> s, count |-> Units(s, req[c].todo[s].type, req[c].from, req[c].to)]]
  /\ UNCHANGED <<office, settings, payrolls, vouchers, asked>>

AddSlip(c) ==
  /\ At(c, "slip")
  /\ LET p == req[c]
         s == p.units.staff
         total == Total(s, p.todo[s], p.units.count, Violations(s, p.from, p.to))
     IN req' = [req EXCEPT ![c] =
          [p EXCEPT !.op = "count", !.units = 0, !.todo = [q \in DOMAIN @ \ {s} |-> @[q]],
                    !.slips = Append(@, [staff |-> s, total |-> total, paid |-> 0, remaining |-> total,
                                         status |-> "CLOSED", since |-> Nothing])]]
  /\ UNCHANGED <<office, settings, payrolls, vouchers, asked>>

FinishPayroll(c) ==
  /\ At(c, "count") /\ DOMAIN req[c].todo = {}
  /\ LET p == req[c]
         total == SumOver(LAMBDA i : p.slips[i].total, DOMAIN p.slips)
     IN payrolls' = Append(payrolls, [from |-> p.from, to |-> p.to, slips |-> p.slips, total |-> total,
                                      paid |-> 0, remaining |-> total, status |-> "CLOSED"])
  /\ Done(c)
  /\ UNCHANGED <<office, settings, vouchers, asked>>

(***************************************************************************)
(* Paying it.                                                              *)
(***************************************************************************)
Slip(c, i) == req[c].payroll.slips[i]

\* Seeded fault: slips that were paid are paid again.
ReadPayrollPaid(c, n, chosen) ==
  /\ req[c] = Nothing /\ asked < Payments
  /\ asked' = asked + 1
  /\ req' = [req EXCEPT ![c] =
       [op |-> "pay", number |-> n, payroll |-> payrolls[n], asked |-> asked, now |-> 0, paid |-> {},
        todo |-> chosen]]
  /\ UNCHANGED <<office, settings, payrolls, vouchers>>

\* payPayroll: the payroll and its slips, read without a lock.  Two requests
\* that both create the missing cash type leave one, and the other fails here.
ReadPayroll(c, n, chosen) ==
  /\ req[c] = Nothing /\ asked < Payments
  /\ asked' = asked + 1
  /\ req' = [req EXCEPT ![c] =
       [op |-> "pay", number |-> n, payroll |-> payrolls[n], asked |-> asked, now |-> 0, paid |-> {},
        todo |-> {i \in chosen : payrolls[n].slips[i].remaining > 0}]]
  /\ UNCHANGED <<office, settings, payrolls, vouchers>>

\* createCashBookEntry, in a transaction of its own.
WriteVoucher(c, i) ==
  /\ At(c, "pay") /\ i \in req[c].todo
  /\ vouchers' = vouchers \cup {[payroll |-> req[c].number, slip |-> i,
                                 amount |-> Slip(c, i).remaining, asked |-> req[c].asked]}
  /\ req' = [req EXCEPT ![c].op = "save", ![c].now = i, ![c].todo = @ \ {i}]
  /\ UNCHANGED <<office, settings, payrolls, asked>>

\* The slip is saved: its row stays locked until the transaction ends.
SaveSlip(c) ==
  /\ At(c, "save")
  /\ \A d \in Clients \ {c} :
       (At(d, "pay") \/ At(d, "save")) /\ req[d].number = req[c].number =>
         req[c].now \notin req[d].paid
  /\ req' = [req EXCEPT ![c].op = "pay", ![c].paid = @ \cup {req[c].now}]
  /\ UNCHANGED <<office, settings, payrolls, vouchers, asked>>

\* Seeded fault: the sum is added to what the payroll says by then.
AfterPaymentRelative(cur, old, chosen, at) ==
  LET paid == cur.paid + SumOver(LAMBDA i : old.slips[i].remaining, chosen)
      settle(i) == [old.slips[i] EXCEPT
        !.paid = @ + old.slips[i].remaining, !.remaining = 0, !.status = "PAID",
        !.since = IF cur.slips[i].since = Nothing THEN at ELSE cur.slips[i].since]
  IN [cur EXCEPT !.slips = [i \in DOMAIN @ |-> IF i \in chosen THEN settle(i) ELSE @[i]],
                 !.paid = paid, !.remaining = old.total - paid,
                 !.status = IF old.total - paid <= 0 THEN "PAID" ELSE old.status]

\* The payroll once the slips chosen are saved and the sums, counted from what
\* was read, are stored.
AfterPayment(cur, old, chosen, at) ==
  LET paid == old.paid + SumOver(LAMBDA i : old.slips[i].remaining, chosen)
      settle(i) == [old.slips[i] EXCEPT
        !.paid = @ + old.slips[i].remaining, !.remaining = 0, !.status = "PAID",
        !.since = IF cur.slips[i].since = Nothing THEN at ELSE cur.slips[i].since]
  IN [cur EXCEPT !.slips = [i \in DOMAIN @ |-> IF i \in chosen THEN settle(i) ELSE @[i]],
                 !.paid = paid, !.remaining = old.total - paid,
                 !.status = IF old.total - paid <= 0 THEN "PAID" ELSE old.status]

FinishPayment(c) ==
  /\ At(c, "pay") /\ req[c].todo = {}
  /\ LET p == req[c]
     IN payrolls' = [payrolls EXCEPT ![p.number] = AfterPayment(@, p.payroll, p.paid, asked)]
  /\ Done(c)
  /\ UNCHANGED <<office, settings, vouchers, asked>>

\* The connection is lost, a deadlock is broken or the process dies: the
\* transaction is rolled back.  Vouchers it had written stay.
Lost(c) ==
  /\ req[c] # Nothing
  /\ Done(c)
  /\ UNCHANGED <<office, payVars>>

Init ==
  /\ SheetsInit
  /\ settings = Hired
  /\ payrolls = <<>> /\ vouchers = {}
  /\ asked = 0

Next ==
  \/ SheetsNext /\ UNCHANGED payVars
  \/ \E c \in Clients :
       \/ \E s \in Staff, setting \in Settings : SetSalary(c, s, setting)
       \/ \E who \in SUBSET Staff, p \in Periods : MakePayroll(c, who, p.from, p.to)
       \/ \E s \in Staff : CountUnits(c, s)
       \/ AddSlip(c) \/ FinishPayroll(c)
       \/ \E n \in DOMAIN payrolls : \E chosen \in SUBSET DOMAIN payrolls[n].slips : ReadPayroll(c, n, chosen)
       \/ \E i \in 1..Cardinality(Staff) : WriteVoucher(c, i)
       \/ SaveSlip(c) \/ FinishPayment(c) \/ Lost(c)

Spec == Init /\ [][Next]_<<sheetVars, payVars>>

StaffTypeOK ==
  /\ clock \in {0} \cup Moments
  /\ \A k \in Keys : attendance[k] # Nothing =>
       /\ shifts[k[3]] # Nothing
       /\ {attendance[k].in, attendance[k].out} \subseteq (0..(DayLength - 1)) \cup {Nothing}
  /\ \A v, w \in schedules :
       /\ shifts[v.shift] # Nothing
       /\ v.id = w.id \/ <<v.user, v.day, v.shift>> = <<w.user, w.day, w.shift>> => v = w
  /\ \A n \in DOMAIN payrolls : \A i \in DOMAIN payrolls[n].slips :
       LET slip == payrolls[n].slips[i]
       IN slip.paid + slip.remaining = slip.total /\ (slip.status = "PAID" <=> slip.paid > 0)

(***************************************************************************)
(* Every slip that is paid has a voucher, every voucher is for the whole   *)
(* slip, and a request that begins after a slip was settled never pays it  *)
(* again (payPayroll and createCashBookEntry).  Requests that overlap, or  *)
(* a retry of one that was cut off, do.                                    *)
(***************************************************************************)
VouchersMatchSlips ==
  \A n \in DOMAIN payrolls : \A i \in DOMAIN payrolls[n].slips :
    LET slip == payrolls[n].slips[i]
        its == {v \in vouchers : v.payroll = n /\ v.slip = i}
    IN /\ slip.status = "PAID" => its # {}
       /\ \A v \in its : v.amount = slip.total /\ (slip.since # Nothing => v.asked < slip.since)

(***************************************************************************)
(* A payroll never claims more than its slips were paid, although payments *)
(* that overlap overwrite each other's sum; so one that is settled, none   *)
(* of whose slips is below zero, has nothing left to pay.                  *)
(***************************************************************************)
PayrollNotOverstated ==
  \A n \in DOMAIN payrolls :
    LET p == payrolls[n]
        slips == DOMAIN p.slips
    IN /\ p.paid <= SumOver(LAMBDA i : p.slips[i].paid, slips)
       /\ p.paid + p.remaining = p.total
       /\ p.status = "PAID" /\ (\A i \in slips : p.slips[i].total >= 0) =>
            \A i \in slips : p.slips[i].remaining = 0

=============================================================================
