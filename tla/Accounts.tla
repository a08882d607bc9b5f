------------------------------ MODULE Accounts -------------------------------
(***************************************************************************)
(* Accounts with their profiles and one-time codes, and what waiters are   *)
(* told: user.service, profile.service, waiter-notifications.service.      *)
(* Passwords, profile fields and texts are left out.  Nothing sets         *)
(* `isDelete'.  A request is one step.                                     *)
(***************************************************************************)
EXTENDS FiniteSets

CONSTANTS
  Users,
  Handles,     \* user names and phone numbers
  Notes,       \* notifications
  Blank        \* no row, no user name, no phone, no code

VARIABLES
  users,       \* Users -> [username, phone, profile, code], or Blank
  notes        \* Notes -> [waiter, read], or Blank

UserRow == [username : Handles \cup {Blank}, phone : Handles \cup {Blank}, profile : BOOLEAN,
            code : {"valid", "late", Blank}]
NoteRow == [waiter : Users, read : BOOLEAN]

ASSUME AccountsAssumption == Blank \notin UserRow \cup NoteRow

accountVars == <<users, notes>>

\* Another account has the value, which the unique index would refuse too.
Claimed(u, field, handle) ==
  handle # Blank /\ \E v \in Users \ {u} : users[v] # Blank /\ users[v][field] = handle

\* An e-mail names one account only: it is the account here.
CreateUser(u, username, phone, profile) ==
  /\ users[u] = Blank
  /\ ~Claimed(u, "username", username) /\ ~Claimed(u, "phone", phone)
  /\ users' = [users EXCEPT ![u] = [username |-> username, phone |-> phone,
                                    profile |-> profile, code |-> Blank]]
  /\ UNCHANGED notes

\* Empty text takes a user name or a phone away, a missing field leaves it.
UpdateUser(u, username, phone) ==
  /\ users[u] # Blank
  /\ ~Claimed(u, "username", username) /\ ~Claimed(u, "phone", phone)
  /\ users' = [users EXCEPT ![u].username = username, ![u].phone = phone]
  /\ UNCHANGED notes

\* An account without a profile gets one.
UpdateProfile(u) ==
  /\ users[u] # Blank
  /\ users' = [users EXCEPT ![u].profile = TRUE]
  /\ UNCHANGED notes

\* A new code takes the place of the one before.
ForgotPassword(u) ==
  /\ users[u] # Blank
  /\ users' = [users EXCEPT ![u].code = "valid"]
  /\ UNCHANGED notes

\* The code has been sent more than five minutes ago.
Lapse(u) ==
  /\ users[u] # Blank /\ users[u].code = "valid"
  /\ users' = [users EXCEPT ![u].code = "late"]
  /\ UNCHANGED notes

ResetPassword(u) ==
  /\ users[u] # Blank /\ users[u].code = "valid"
  /\ users' = [users EXCEPT ![u].code = Blank]
  /\ UNCHANGED notes

\* The kitchen cancels a dish of the waiter's order.
CreateOrderCancelled(n, u) ==
  /\ notes[n] = Blank /\ users[u] # Blank
  /\ notes' = [notes EXCEPT ![n] = [waiter |-> u, read |-> FALSE]]
  /\ UNCHANGED users

\* Those of other waiters are skipped.
MarkManyAsRead(u, ns) ==
  /\ users[u] # Blank
  /\ notes' = [n \in Notes |-> IF n \in ns /\ notes[n] # Blank /\ notes[n].waiter = u
                               THEN [notes[n] EXCEPT !.read = TRUE] ELSE notes[n]]
  /\ UNCHANGED users

\* The one of another waiter is refused.
MarkAsRead(u, n) == notes[n] # Blank /\ notes[n].waiter = u /\ MarkManyAsRead(u, {n})

\* No two accounts share what names them; a notification has its waiter.
AccountsOK ==
  /\ \A u \in Users : users[u] # Blank =>
       ~Claimed(u, "username", users[u].username) /\ ~Claimed(u, "phone", users[u].phone)
  /\ \A n \in Notes : notes[n] # Blank => users[notes[n].waiter] # Blank

=============================================================================
