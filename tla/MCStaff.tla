------------------------------ MODULE MCStaff -------------------------------
(***************************************************************************)
(* The instance of shifts, sheets and wages for TLC.  A day has eight      *)
(* quarters, the late shift ends a quarter before it does.                 *)
(***************************************************************************)
EXTENDS Payroll, TLC

SomeForms == {[start |-> 1, end |-> 4]}

\* Both times, a check out alone, and a leave after coming in.
SomeSheets ==
  {[in |-> 1, out |-> 7, status |-> Nothing, strict |-> FALSE],
   [in |-> Nothing, out |-> 5, status |-> Nothing, strict |-> FALSE],
   [in |-> 3, out |-> Nothing, status |-> "LEAVE", strict |-> TRUE]}

Gate == [kind |-> "geo", name |-> "gate"]
SomeRules == {Gate}
SomePlaces == {{}, {Gate}}
SomeFaces ==
  {[enrolled |-> 1, match |-> Nothing, score |-> 90, pictures |-> 2,
    poses |-> {[yaw |-> 0, pitch |-> 0, roll |-> 0], [yaw |-> 9, pitch |-> 0, roll |-> 0]}]}

\* By the shift with a fine that may exceed the wage, and by the hour.
SomeSettings ==
  {[type |-> "PER_SHIFT", base |-> 2, bonus |-> {}, allowances |-> <<>>,
    deductions |-> <<[kind |-> "LATE", condition |-> "BY_TIMES", amount |-> 3]>>],
   [type |-> "PER_HOUR", base |-> 1, bonus |-> {[fromRevenue |-> 10, percent |-> 10]},
    allowances |-> <<[type |-> "PER_MONTH_FIXED", amount |-> 1]>>,
    deductions |-> <<[kind |-> "EARLY", condition |-> "BY_BLOCK", amount |-> 1, block |-> 2]>>]}

SomeShifts == [s \in Shifts |-> IF s = "early" THEN [start |-> 0, end |-> 2] ELSE [start |-> 2, end |-> 7]]
SomePlan == {[id |-> <<Edits, u, 1>>, user |-> u, day |-> 1, shift |-> "late", group |-> Nothing] : u \in Staff}
\* An has come in, and not yet left.
SomeRecorded ==
  [k \in Keys |-> IF k # <<"an", 1, "late">> THEN Nothing
                 ELSE [in |-> 3, out |-> Nothing, asOf |-> SomeShifts["late"], method |-> "SELF",
                       status |-> "MISSING", overlapped |-> FALSE]]
FirstSetting == CHOOSE x \in SomeSettings : x.type = "PER_SHIFT"
SomeHired == [u \in Staff |-> FirstSetting]
ClientSymmetry == Permutations(Clients)

SomePeriods == {[from |-> 1, to |-> 8]}
SomeRevenue == [s \in Staff |-> 20]

=============================================================================
