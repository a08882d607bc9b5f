----------------------------- MODULE Timesheets -----------------------------
(***************************************************************************)
(* Shifts, the schedule, and who came when: shift.service.ts,              *)
(* work-schedule.service.ts, attendance.service.ts (the manager's sheet),  *)
(* mobile-attendance.service.ts (the phone) and rules.service.ts.          *)
(*                                                                         *)
(* No request locks anything: each reads, decides and saves later, with    *)
(* other requests between.  TypeORM's save of a row that exists selects    *)
(* the row once more and then writes only the columns in which the entity  *)
(* differs from it, so two saves that overlap mix their columns; a new row *)
(* fails on a unique index or a foreign key.                               *)
(*                                                                         *)
(* Time is counted in quarters of an hour from the start of day 1.         *)
(***************************************************************************)
EXTENDS Integers, FiniteSets

CONSTANTS
  Staff,
  Clients,     \* connections: one request at a time each
  Days,        \* numbers of days
  Week,        \* 7
  DayLength,   \* quarters in a day: 96
  Shifts,
  Forms,       \* what a shift may be: [start, end], quarters of its day
  Moments,     \* the times at which the clock is looked at
  Opened,      \* Shifts -> its form at the start, or Nothing
  Planned,     \* the schedule at the start
  Recorded,    \* the attendance at the start
  Sheets,      \* bodies of the manager's sheet: [in, out, status, strict]
  Places,      \* where a phone may be: a subset of Rules each
  Rules,       \* geographic and network rules: [kind, name]
  Faces,       \* what the camera shows: [enrolled, match, score, pictures, poses], or
               \* Nothing where no face is asked for
  Repeats,     \* last days of a weekly repetition, or Nothing
  Edits,       \* the most requests about shifts and sheets
  Nothing      \* no shift, no row, no time, no request

Keys == Staff \X Days \X Shifts
Form == [start : Nat, end : Nat]
Times == 0..(DayLength - 1) \cup {Nothing}
\* For the properties a row also keeps the times of the shift it was evaluated
\* with, and whether another save fell into the last one.
Row == [in : Times, out : Times, asOf : Form, method : {"MANUAL", "SELF"},
        status : {"ON_TIME", "LATE", "MISSING", "LEAVE", "ABSENT"}, overlapped : BOOLEAN]

\* What computeStatus and check agree on.
TellsTheTimes(row) ==
  LET complete == row.in # Nothing /\ row.out # Nothing
      late == row.in > row.asOf.start \/ row.out < row.asOf.end
  IN /\ row.status \in {"ON_TIME", "LATE"} => complete /\ (row.status = "LATE" <=> late)
     /\ row.status = "MISSING" /\ complete => row.method = "SELF"
PlanRow == [id : Nat \X Staff \X Days, user : Staff, day : Days, shift : Shifts,
            group : Nat \cup {Nothing}]

\* The columns' types, what the body of a sheet may hold, a schedule that keeps
\* to its unique index, and rows that evaluation could have left.
ASSUME SheetsAssumption ==
  /\ DayLength \in Nat \ {0} /\ Moments \subseteq Nat /\ Days \subseteq Nat
  /\ IsFiniteSet(Staff) /\ IsFiniteSet(Days) /\ IsFiniteSet(Shifts)
  /\ Forms \subseteq Form /\ Opened \in [Shifts -> Form \cup {Nothing}]
  /\ \A b \in Sheets : b.in \in Times /\ b.out \in Times
  /\ Planned \subseteq PlanRow
  /\ \A v, w \in Planned :
       /\ Opened[v.shift] # Nothing
       /\ v.id = w.id \/ <<v.user, v.day, v.shift>> = <<w.user, w.day, w.shift>> => v = w
  /\ Recorded \in [Keys -> Row \cup {Nothing}]
  /\ \A k \in Keys : Recorded[k] # Nothing => Opened[k[3]] # Nothing /\ TellsTheTimes(Recorded[k])

ASSUME NothingAssumption == Nothing \notin Form /\ Nothing \notin Row

VARIABLES
  clock,
  shifts,      \* Shifts -> a form, or Nothing
  schedules,   \* rows of the schedule: [id, user, day, shift, group]
  attendance,  \* <<user, day, shift>> -> a row, or Nothing
  rules,       \* the active rules
  edits,       \* requests so far
  req          \* Clients -> the request in flight, or Nothing

sheetVars == <<clock, shifts, schedules, attendance, rules, edits, req>>

Ask(c) == req[c] = Nothing /\ edits < Edits /\ edits' = edits + 1
Begin(c, r) == req' = [req EXCEPT ![c] = r]
Done(c) == req' = [req EXCEPT ![c] = Nothing]
At(c, op) == req[c] # Nothing /\ req[c].op = op

Tick ==
  /\ \E t \in Moments : t > clock /\ (\A u \in Moments : u > clock => t <= u) /\ clock' = t
  /\ UNCHANGED <<shifts, schedules, attendance, rules, edits, req>>

(***************************************************************************)
(* Shifts.                                                                 *)
(***************************************************************************)
\* create and update.
SetShift(c, s, f) ==
  /\ Ask(c) /\ f.end > f.start /\ shifts[s] # f
  /\ shifts' = [shifts EXCEPT ![s] = f]
  /\ UNCHANGED <<clock, schedules, attendance, rules, req>>

\* Seeded fault: a shift with attendance goes as well.
RemoveShiftAlways(c, s) ==
  /\ Ask(c) /\ shifts[s] # Nothing
  /\ shifts' = [shifts EXCEPT ![s] = Nothing]
  /\ schedules' = {w \in schedules : w.shift # s}
  /\ UNCHANGED <<clock, attendance, rules, req>>

\* remove: the schedule goes with the shift, attendance forbids it.
RemoveShift(c, s) ==
  /\ Ask(c) /\ shifts[s] # Nothing
  /\ \A k \in Keys : k[3] = s => attendance[k] = Nothing
  /\ shifts' = [shifts EXCEPT ![s] = Nothing]
  /\ schedules' = {w \in schedules : w.shift # s}
  /\ UNCHANGED <<clock, attendance, rules, req>>

(***************************************************************************)
(* The schedule.                                                           *)
(***************************************************************************)
\* validateOverlap: no other row of the person on that day meets the times.
Free(user, day, f, ignore) ==
  \A w \in schedules :
    w.user = user /\ w.day = day /\ w.id # ignore =>
      LET g == shifts[w.shift] IN f.start >= g.end \/ g.start >= f.end

RepeatDays(day, until) ==
  IF until = Nothing THEN {day} ELSE {d \in Days : d >= day /\ d <= until /\ (d - day) % Week = 0}

\* create.
PlanRead(c, users, s, day, until) ==
  /\ Ask(c) /\ shifts[s] # Nothing /\ users # {}
  /\ LET days == RepeatDays(day, until)
         row(u, d) == [id |-> <<edits, u, d>>, user |-> u, day |-> d, shift |-> s,
                       group |-> IF until = Nothing THEN Nothing ELSE edits]
     IN /\ \A u \in users, d \in days : Free(u, d, shifts[s], Nothing)
        /\ Begin(c, [op |-> "plan", rows |-> {row(u, d) : u \in users, d \in days}])
  /\ UNCHANGED <<clock, shifts, schedules, attendance, rules>>

\* update.
MoveRead(c, w, s, day) ==
  /\ Ask(c) /\ w \in schedules /\ shifts[s] # Nothing /\ <<w.shift, w.day>> # <<s, day>>
  /\ Free(w.user, day, shifts[s], w.id)
  /\ Begin(c, [op |-> "plan", rows |-> {[w EXCEPT !.shift = s, !.day = day]}])
  /\ UNCHANGED <<clock, shifts, schedules, attendance, rules>>

\* The save of create or update: all of its rows, or none.  A row deleted in
\* the meantime is inserted again.
PlanSave(c) ==
  /\ At(c, "plan")
  /\ LET rows == req[c].rows
         others == {w \in schedules : \A r \in rows : r.id # w.id}
         legal == \A r \in rows : /\ shifts[r.shift] # Nothing
                                  /\ \A w \in others : <<w.user, w.day, w.shift>> # <<r.user, r.day, r.shift>>
     IN schedules' = IF legal THEN others \cup rows ELSE schedules
  /\ Done(c)
  /\ UNCHANGED <<clock, shifts, attendance, rules, edits>>

\* remove and removeRepeatGroup.
Unplan(c, rows) ==
  /\ Ask(c) /\ rows # {} /\ rows \subseteq schedules
  /\ schedules' = schedules \ rows
  /\ UNCHANGED <<clock, shifts, attendance, rules, req>>

(***************************************************************************)
(* Where a phone must be, and whose face it must see.                      *)
(***************************************************************************)
\* createGeo, updateGeo, deleteGeo and their network counterparts.
SetRules(c, active) ==
  /\ Ask(c) /\ active # rules
  /\ rules' = active
  /\ UNCHANGED <<clock, shifts, schedules, attendance, req>>

\* One active rule of each kind is enough, and none are needed if there are none.
Verified(place) ==
  \A kind \in {"geo", "net"} :
    LET active == {r \in rules : r.kind = kind} IN active # {} => active \cap place # {}

\* check-with-face: the face is known, it is this person's, close enough, and
\* with more than one picture it moved.  The plain check asks for no face.
Recognised(user, face) ==
  LET span(axis) == {p[axis] - q[axis] : p, q \in face.poses}
  IN face # Nothing =>
     /\ face.enrolled > 0 /\ face.pictures > 0
     /\ face.match \in {user, Nothing} /\ face.score >= 82
     /\ face.pictures > 1 =>
          (\E d \in span("yaw") : d >= 8) \/ (\E d \in span("pitch") \cup span("roll") : d >= 6)

(***************************************************************************)
(* Attendance.                                                             *)
(***************************************************************************)
\* Seeded fault: leaving early is not looked at.
EvaluateArrival(f, in, out) ==
  IF in = Nothing \/ out = Nothing THEN "MISSING" ELSE IF in > f.start THEN "LATE" ELSE "ON_TIME"

\* computeStatus, and the evaluation of check.
Evaluate(f, in, out) ==
  IF in = Nothing \/ out = Nothing THEN "MISSING"
  ELSE IF in > f.start \/ out < f.end THEN "LATE" ELSE "ON_TIME"

\* inWindowByType: a quarter of grace before the shift, or after it.
InWindow(type, f, t) ==
  IF type = "IN" THEN t >= f.start - 1 /\ t <= f.end ELSE t >= f.start /\ t <= f.end + 1

\* check: the times of the day are kept, so a check out in the grace of a shift
\* that ends at midnight is a time of the morning.
CheckRead(c, w, type, place, face) ==
  /\ Ask(c) /\ w \in schedules /\ Recognised(w.user, face) /\ Verified(place)
  /\ LET k == <<w.user, w.day, w.shift>>
         f == shifts[w.shift]
         now == clock - (w.day - 1) * DayLength
         hhmm == now % DayLength
         old == attendance[k]
         was == IF old = Nothing THEN [in |-> Nothing, out |-> Nothing] ELSE old
     IN /\ InWindow(type, f, now)
        /\ IF type = "IN" THEN was.in = Nothing ELSE was.in # Nothing /\ was.out = Nothing
        /\ Begin(c, [op |-> "sheet", key |-> k, fresh |-> old = Nothing,
             row |-> IF type = "IN"
                     THEN [in |-> hhmm, out |-> was.out, status |-> "MISSING", method |-> "SELF", asOf |-> f,
                           overlapped |-> FALSE]
                     ELSE [in |-> was.in, out |-> hhmm, status |-> Evaluate(f, was.in, hhmm),
                           method |-> "SELF", asOf |-> f, overlapped |-> FALSE]])
  /\ UNCHANGED <<clock, shifts, schedules, attendance, rules>>

\* getCheckWindows: from the start -1 to +2, from the end -2 to +4, each around the clock.
Around(t, before, after) ==
  LET open == (t - before + DayLength) % DayLength
      close == (t + after) % DayLength
  IN open .. close

\* upsertManual, strict or not.
SheetRead(c, w, body) ==
  /\ Ask(c) /\ w \in schedules
  /\ LET k == <<w.user, w.day, w.shift>>
         f == shifts[w.shift]
         old == attendance[k]
     IN /\ body.strict => /\ body.in \in Around(f.start, 1, 2) \cup {Nothing}
                          /\ body.out \in Around(f.end, 2, 4) \cup {Nothing}
        /\ Begin(c, [op |-> "sheet", key |-> k, fresh |-> old = Nothing,
             row |-> [in |-> body.in, out |-> body.out, asOf |-> f,
                      status |-> IF body.status \in {"LEAVE", "ABSENT"} THEN body.status
                                 ELSE Evaluate(f, body.in, body.out),
                      method |-> IF old = Nothing THEN "MANUAL" ELSE old.method, overlapped |-> FALSE]])
  /\ UNCHANGED <<clock, shifts, schedules, attendance, rules>>

\* The save of check or upsertManual, of a new row and of one that is there:
\* the row is selected by its id, and then updated.
SheetInsert(c) ==
  /\ At(c, "sheet") /\ req[c].fresh
  /\ LET k == req[c].key
         legal == attendance[k] = Nothing /\ shifts[k[3]] # Nothing
     IN attendance' = IF legal THEN [attendance EXCEPT ![k] = req[c].row] ELSE attendance
  /\ Done(c)
  /\ UNCHANGED <<clock, shifts, schedules, rules, edits>>

SheetSelect(c) ==
  /\ At(c, "sheet") /\ ~req[c].fresh
  /\ Begin(c, [op |-> "write", key |-> req[c].key, row |-> req[c].row, db |-> attendance[req[c].key]])
  /\ UNCHANGED <<clock, shifts, schedules, attendance, rules, edits>>

\* The columns in which the entity differs from the row selected are written
\* over the row as it is by now.
Written(row, db, now) ==
  LET Column(f) == IF row[f] # db[f] THEN row[f] ELSE now[f]
  IN [in |-> Column("in"), out |-> Column("out"), asOf |-> Column("asOf"), method |-> Column("method"),
      status |-> Column("status"), overlapped |-> now # db]

SheetWrite(c) ==
  /\ At(c, "write")
  /\ attendance' = [attendance EXCEPT ![req[c].key] = Written(req[c].row, req[c].db, @)]
  /\ Done(c)
  /\ UNCHANGED <<clock, shifts, schedules, rules, edits>>

SheetsInit ==
  /\ clock = 0
  /\ shifts = Opened /\ schedules = Planned
  /\ attendance = Recorded
  /\ rules = {} /\ edits = 0
  /\ req = [c \in Clients |-> Nothing]

SheetsNext ==
  \/ Tick
  \/ \E c \in Clients :
       \/ \E s \in Shifts : RemoveShift(c, s) \/ \E f \in Forms : SetShift(c, s, f)
       \/ \E s \in Shifts, d \in Days :
            \/ \E users \in SUBSET Staff, until \in Repeats : PlanRead(c, users, s, d, until)
            \/ \E w \in schedules : MoveRead(c, w, s, d)
       \/ \E w \in schedules : Unplan(c, {w}) \/ Unplan(c, {v \in schedules : v.group = w.group /\ w.group # Nothing})
       \/ \E w \in schedules, place \in Places, face \in Faces :
            CheckRead(c, w, "IN", place, face) \/ CheckRead(c, w, "OUT", place, face)
       \/ \E w \in schedules, body \in Sheets : SheetRead(c, w, body)
       \/ \E active \in SUBSET Rules : SetRules(c, active)
       \/ PlanSave(c) \/ SheetInsert(c) \/ SheetSelect(c) \/ SheetWrite(c)

(***************************************************************************)
(* What the status of a row says about its times is so, under the times    *)
(* of the shift when the row was written, whichever requests overlapped:   *)
(* on time or late only with both times, and late exactly if one of them   *)
(* is.  A row is left open with both times only by a phone's check in      *)
(* after the manager had filled in the check out.  The one exception is a  *)
(* row whose last save had another one between its select and its update   *)
(* (save of attRepo and repo): its columns are of both, and no reading,    *)
(* however old, can do that by itself.                                     *)
(***************************************************************************)
StatusTellsTheTimes ==
  \A k \in Keys :
    attendance[k] # Nothing /\ ~attendance[k].overlapped => TellsTheTimes(attendance[k])

=============================================================================
