CONSTANTS
  Staff = {"an", "ba"}
  Clients = {c1, c2}
  Days = {1, 8}
  Week = 7
  DayLength = 8
  Shifts = {"early", "late"}
  Forms <- SomeForms
  Moments = {1, 8}
  Opened <- SomeShifts
  Planned <- SomePlan
  Recorded <- SomeRecorded
  Hired <- SomeHired
  Sheets <- SomeSheets
  Places <- SomePlaces
  Rules <- SomeRules
  Faces <- SomeFaces
  Repeats = {Nothing, 8}
  Edits = 2
  Settings <- SomeSettings
  StandardDay = 4
  Revenue <- SomeRevenue
  Periods <- SomePeriods
  Payrolls = 1
  Payments = 2
  Nothing = Nothing
SYMMETRY ClientSymmetry
SPECIFICATION Spec
CHECK_DEADLOCK FALSE
INVARIANTS StaffTypeOK StatusTellsTheTimes VouchersMatchSlips PayrollNotOverstated
