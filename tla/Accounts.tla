------------------------------ MODULE Accounts ------------------------------
(***************************************************************************)
(* The users of one company and the requests of the screen that manages    *)
(* them.  A request reads who is asking, reads the row it means to change, *)
(* counts the owners, and only then writes; nothing is locked meanwhile.   *)
(* What holds is the trigger guard_last_owner, which locks the rows of the *)
(* other owners one after another before it lets one of them go.           *)
(***************************************************************************)
EXTENDS Integers, FiniteSets

CONSTANTS Users,    \* the people there can be accounts for
          Managers, \* requests of the users screen in flight at once
          Roles     \* the roles that occur

ASSUME RolesAssumption == "owner" \in Roles /\ Roles \subseteq {"owner", "admin", "bookkeeper"}

VARIABLES users,   \* the users table
          manager  \* what each request is doing and holds

accountVars == <<users, manager>>

\* A user row is never voided; email, sign-in method and link are left out.
User == [role : Roles, isActive : BOOLEAN]
NoUser == [role |-> "none", isActive |-> FALSE]

\* The form: a new user with a role, a role, or whether the account is active.
Intent == [sets : {"user", "role"}, role : Roles, isActive : {TRUE}]
            \cup [sets : {"isActive"}, role : {"owner"}, isActive : BOOLEAN]

\* asked: users a write waits to lock; locked: the rows it holds; counted: those
\* of them that were other active owners when it locked them.
ManagerIdle == [op |-> "idle"]
Request(op, target, intent, byOwner) ==
  [op |-> op, target |-> target, intent |-> intent, byOwner |-> byOwner,
   asked |-> {}, locked |-> {}, counted |-> {}]

Requests ==
  [op : {"authorised", "counting", "writing", "locking", "revoking"}, target : Users,
   intent : Intent, byOwner : BOOLEAN, asked : SUBSET Users, locked : SUBSET Users,
   counted : SUBSET Users]

OwnerRow(row) == row.role = "owner" /\ row.isActive
ActiveOwner(u) == OwnerRow(users[u])

\* user:manage of the capability matrix.
CanManage(row) == row.isActive /\ row.role \in {"owner", "admin"}

Applied(row, intent) ==
  IF intent.sets = "role" THEN [row EXCEPT !.role = intent.role]
  ELSE [row EXCEPT !.isActive = intent.isActive]

\* Somebody always owns the company: setup makes its first owner.
AccountsInit ==
  /\ \E u \in Users : users = [v \in Users |-> IF v = u THEN [role |-> "owner", isActive |-> TRUE]
                                               ELSE NoUser]
  /\ manager = [m \in Managers |-> ManagerIdle]

-----------------------------------------------------------------------------
Goes(m, request) == manager' = [manager EXCEPT ![m] = request]

\* requireCapability: who asks is read from the table at every action.  Nobody
\* changes his own role.
Authorise(m, a, u, intent) ==
  /\ manager[m].op = "idle"
  /\ CanManage(users[a])
  /\ ~(a = u /\ intent.sets = "role")
  /\ Goes(m, Request("authorised", u, intent, users[a].role = "owner"))
  /\ UNCHANGED users

\* Guardrails 1 and 2, on the row as read.
Permitted(row, intent, byOwner) ==
  row.role = "owner" \/ (intent.sets # "isActive" /\ intent.role = "owner") => byOwner

\* addUser: one insert, which nobody else sees or waits for.
AddUser(m) ==
  LET request == manager[m] IN
  /\ request.op = "authorised" /\ request.intent.sets = "user"
  /\ users[request.target] = NoUser
  /\ Permitted(users[request.target], request.intent, request.byOwner)
  /\ users' = [users EXCEPT ![request.target] = [role |-> request.intent.role, isActive |-> TRUE]]
  /\ Goes(m, ManagerIdle)

\* A change that takes an owner's role, or an owner's account, away.
Removes(row, intent) ==
  row.role = "owner" /\ (intent.sets = "role" \/ ~intent.isActive)

ReadTarget(m) ==
  LET request == manager[m]
      row == users[request.target] IN
  /\ request.op = "authorised"
  /\ request.intent.sets # "user"
  /\ row # NoUser /\ Applied(row, request.intent) # row
  /\ Permitted(row, request.intent, request.byOwner)
  /\ Goes(m, [request EXCEPT !.op = IF Removes(row, request.intent) THEN "counting" ELSE "writing"])
  /\ UNCHANGED users

\* guardrailBreach, on the pool: advice, and a better sentence than the trigger's.
CountOwners(m) ==
  /\ manager[m].op = "counting"
  /\ Cardinality({u \in Users : ActiveOwner(u)}) > 1
  /\ Goes(m, [manager[m] EXCEPT !.op = "writing"])
  /\ UNCHANGED users

-----------------------------------------------------------------------------
\* The update, one autocommitted statement with its trigger.

Locks(m) == IF manager[m].op = "locking" THEN manager[m].locked ELSE {}
Free(u, m) == \A n \in Managers \ {m} : u \notin Locks(n)

\* What the trigger still has to lock once the row itself is held.
Others(m) ==
  LET target == manager[m].target IN
  IF ActiveOwner(target) /\ ~OwnerRow(Applied(users[target], manager[m].intent))
  THEN {u \in Users \ {target} : ActiveOwner(u)} ELSE {}

LockTarget(m) ==
  /\ manager[m].op = "writing"
  /\ Free(manager[m].target, m)
  /\ Goes(m, [manager[m] EXCEPT !.op = "locking", !.locked = {manager[m].target},
                                !.asked = Others(m), !.counted = {}])
  /\ UNCHANGED users

\* Mutant: the other owners are counted without FOR UPDATE.
LockOwnerReading(m, u) ==
  /\ manager[m].op = "locking" /\ u \in manager[m].asked
  /\ Goes(m, [manager[m] EXCEPT !.asked = @ \ {u},
                                !.counted = IF ActiveOwner(u) THEN @ \cup {u} ELSE @])
  /\ UNCHANGED users

\* A row that was an owner when the query began and is none once its lock is
\* free is locked and not counted.
LockOwner(m, u) ==
  /\ manager[m].op = "locking"
  /\ u \in manager[m].asked /\ Free(u, m)
  /\ Goes(m, [manager[m] EXCEPT !.asked = @ \ {u}, !.locked = @ \cup {u},
                                !.counted = IF ActiveOwner(u) THEN @ \cup {u} ELSE @])
  /\ UNCHANGED users

\* The statement commits, unless it would take the last owner away.
Write(m) ==
  LET request == manager[m]
      row == users[request.target]
      after == Applied(row, request.intent) IN
  /\ request.op = "locking" /\ request.asked = {}
  /\ OwnerRow(row) /\ ~OwnerRow(after) => request.counted # {}
  /\ users' = [users EXCEPT ![request.target] = after]
  /\ Goes(m, IF request.intent.sets = "role" \/ ~request.intent.isActive
             THEN Request("revoking", request.target, request.intent, request.byOwner)
             ELSE ManagerIdle)

\* revokeSessions, a statement of its own (what it does to them: see Sessions).
Revoke(m) ==
  /\ manager[m].op = "revoking"
  /\ Goes(m, ManagerIdle)
  /\ UNCHANGED users

\* Refused, chosen by the deadlock detector, or gone: its locks are released.
Fail(m) ==
  /\ manager[m].op # "idle"
  /\ Goes(m, ManagerIdle)
  /\ UNCHANGED users

=============================================================================
