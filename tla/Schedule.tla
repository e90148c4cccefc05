------------------------------ MODULE Schedule ------------------------------
(***************************************************************************)
(* One project's schedule: tasks, the task each one waits on, and the      *)
(* server actions that write them.  Every action runs one transaction at   *)
(* READ COMMITTED and takes the project's advisory lock part of the way    *)
(* through it: what it read before the lock may have changed by then, and  *)
(* what it reads under the lock stays as it is until it commits.           *)
(*                                                                         *)
(* Days are integers.  A task is started when it has an actual start or an *)
(* actual end.  Names, trades, cost codes and milestones are abstracted.   *)
(***************************************************************************)
EXTENDS Integers, FiniteSets

CONSTANTS Sessions,   \* the requests that may be in flight at once
          Nobody,     \* nobody holds the project's lock
          Tasks,      \* the identities of the tasks ever created: a bound
          NoTask,     \* a null predecessor
          Editors,    \* the sessions that create, edit, import and void
          Planners,   \* the sessions that move dates
          Edits,      \* the actions the editors take, among the four
          Spans,      \* the planned dates somebody enters
          MaxDay,     \* bound on the days of the plan
          MaxDrift,   \* bound on the tasks changed while a preview is open
          Lags        \* the lags a template stores

ASSUME SessionsAssumption == Nobody \notin Sessions /\ Editors \cup Planners \subseteq Sessions
ASSUME NoTaskAssumption == NoTask \notin Tasks
ASSUME DayAssumption ==
  /\ MaxDay \in Nat /\ MaxDrift \in Nat /\ Lags \subseteq Int
  /\ Spans \subseteq [start : Int, end : Int]
  /\ \A span \in Spans : span.start <= span.end

VARIABLES task,      \* the schedule_tasks table
          lock,      \* who holds the project's advisory lock
          session    \* what each request has read, and what it is about to write

vars == <<task, lock, session>>

Row == [record : {"unused", "active", "void"}, start : Int, end : Int,
        pred : Tasks \cup {NoTask}, lag : Int, started : BOOLEAN]

Unused == [record |-> "unused", start |-> 0, end |-> 0,
           pred |-> NoTask, lag |-> 0, started |-> FALSE]

Span == [start : Int, end : Int]

\* A table, or the rows of one that a request was shown or is about to write:
\* the ids it has no row for are Unused.
Table == [Tasks -> Row]
NoRows == [t \in Tasks |-> Unused]
Ids(rows) == {t \in Tasks : rows[t].record # "unused"}

\* id: the task in hand; start: its planned start as read before the lock;
\* span: the dates asked for; shown: the schedule the preview was computed from.
Idle == [op |-> "idle", id |-> NoTask, start |-> 0,
         span |-> [start |-> 0, end |-> 0], shown |-> NoRows, write |-> NoRows]

Request == [op : {"idle", "updateRead", "voidRead", "shown", "writing", "moving"},
            id : Tasks \cup {NoTask}, start : Int, span : Span, shown : Table, write : Table]

-----------------------------------------------------------------------------
\* Reading the schedule.

Live == {t \in Tasks : task[t].record = "active"}
Free == Tasks \ Ids(task)

\* readTasks, and the text the fingerprint is a hash of.
Schedule == [t \in Tasks |-> IF t \in Live THEN task[t] ELSE Unused]

LagBetween(predecessorEnd, start) == start - predecessorEnd - 1

LagBehind(rows, pred, start) ==
  IF pred \in Ids(rows) THEN LagBetween(rows[pred].end, start) ELSE 0

\* The chain of predecessors from pred meets id, as findPredecessorCycle and the
\* trigger of migration 0012 walk it: every set closed under predecessors that
\* holds pred holds id.
Reaches(pred, id) ==
  /\ pred # NoTask
  /\ \A S \in SUBSET Tasks :
       pred \in S /\ (\A t \in S : task[t].pred \in S \cup {NoTask}) => id \in S

\* predecessorProblem: a live task of this job, or none.
PredecessorStands(pred) == pred # NoTask => pred \in Live

\* Mutant: nobody is asked.
DependentsIgnored(id) == {}

DependentsOf(id) == {t \in Live : task[t].pred = id}

-----------------------------------------------------------------------------
\* planMove.

WaitingOn(rows, S) == {t \in Ids(rows) : rows[t].pred \in S}

\* Mutant: stops after the first task down the chain.
PushedOnce(rows, root) == {t \in WaitingOn(rows, {root}) : ~rows[t].started}

\* Mutant: work already under way is pushed too.
PushedStarted(rows, root) ==
  {t \in Ids(rows) : \A S \in SUBSET Ids(rows) :
     WaitingOn(rows, S \cup {root}) \subseteq S => t \in S}

\* The tasks the walk from root moves: the least set that holds every task not
\* started that waits on root or on a task of the set.
Pushed(rows, root) ==
  LET free == {t \in Ids(rows) : ~rows[t].started} IN
  {t \in free : \A S \in SUBSET free :
     {u \in free : rows[u].pred \in S \cup {root}} \subseteq S => t \in S}

\* Mutant: a held task's row is left alone.
HeldNone(rows, moved) == {}

\* The started tasks the walk stops at: they wait on a task that moves.
Held(rows, moved) == {t \in WaitingOn(rows, moved) : rows[t].started}

\* What the move writes on the task edited, on one it pushes, on one it holds.
Edited(row, span, lag) == [row EXCEPT !.start = span.start, !.end = span.end, !.lag = lag]
Shifted(row, delta) == [row EXCEPT !.start = row.start + delta, !.end = row.end + delta]
Restated(row, lag) == [row EXCEPT !.lag = lag]

\* The rows planMove writes, from the schedule it was given.
Plan(rows, root, span) ==
  LET delta == span.end - rows[root].end
      pushed == IF delta = 0 THEN {} ELSE Pushed(rows, root)
      held == IF delta = 0 THEN {} ELSE Held(rows, pushed \cup {root})
      newEnd(t) == IF t = root THEN span.end
                   ELSE IF t \in pushed THEN rows[t].end + delta ELSE rows[t].end
  IN [t \in Tasks |->
        IF t = root THEN Edited(rows[t], span, LagBehind(rows, rows[t].pred, span.start))
        ELSE IF t \in pushed THEN Shifted(rows[t], delta)
        ELSE IF t \in held
        THEN Restated(rows[t], LagBetween(newEnd(rows[t].pred), rows[t].start))
        ELSE Unused]

\* The bound on days, and the refusal of a plan that comes round to its root.
Plannable(rows, root, span) ==
  /\ root \in Ids(rows)
  /\ root \notin Pushed(rows, root)
  /\ LET plan == Plan(rows, root, span) IN
       \A t \in Ids(plan) : plan[t].start >= 1 /\ plan[t].end <= MaxDay

-----------------------------------------------------------------------------
Init ==
  /\ task = [t \in Tasks |-> Unused]
  /\ lock = Nobody
  /\ session = [s \in Sessions |-> Idle]

Begin(s, request) == session' = [session EXCEPT ![s] = request]

\* Mutant: the lock is never waited for.
LockFreeAlways == TRUE

LockFree == lock = Nobody

\* The table once some rows are written over it.
Merge(rows, write) == [t \in Tasks |-> IF t \in Ids(write) THEN write[t] ELSE rows[t]]

\* The bound on what changes behind a preview that is open.
Bounded(write, shown) ==
  Cardinality({t \in Tasks :
    LET row == Merge(task, write)[t] IN
    IF row.record = "active" THEN row # shown[t] ELSE t \in Ids(shown)}) <= MaxDrift

\* lockProject, then the reads and the decision under it: what will be written.
Decide(s, request, write) ==
  /\ LockFree
  /\ \A p \in Sessions \ {s} : session[p].op = "shown" => Bounded(write, session[p].shown)
  /\ lock' = s
  /\ Begin(s, [request EXCEPT !.write = write])
  /\ UNCHANGED task

Writing == [Idle EXCEPT !.op = "writing"]

\* The commit: the writes show and the lock goes.
Commit(s, op) ==
  /\ session[s].op = op
  /\ task' = Merge(task, session[s].write)
  /\ lock' = Nobody
  /\ Begin(s, Idle)

\* createTask.
Create(s) ==
  /\ "create" \in Edits /\ session[s].op = "idle"
  /\ \E t \in Free, span \in Spans, pred \in Tasks \cup {NoTask} :
       /\ PredecessorStands(pred)
       /\ ~Reaches(pred, t)
       /\ Decide(s, Writing,
            [NoRows EXCEPT ![t] =
               [record |-> "active", start |-> span.start, end |-> span.end, pred |-> pred,
                lag |-> LagBehind(Schedule, pred, span.start), started |-> FALSE]])

\* applyScheduleTemplate, with two tasks ticked and one waiting on the other:
\* the dates follow from the lag, and the lag is stored.
Import(s) ==
  /\ "import" \in Edits /\ session[s].op = "idle"
  /\ \E t, u \in Free, first, second \in Spans, lag \in Lags :
       /\ t # u
       /\ second.start = first.end + lag + 1
       /\ Decide(s, Writing,
            [NoRows EXCEPT
               ![t] = [record |-> "active", start |-> first.start, end |-> first.end,
                       pred |-> NoTask, lag |-> 0, started |-> FALSE],
               ![u] = [record |-> "active", start |-> second.start, end |-> second.end,
                       pred |-> t, lag |-> lag, started |-> FALSE]])

\* updateTask: the row is read, then the lock taken.
UpdateRead(s, id) ==
  /\ "update" \in Edits /\ session[s].op = "idle"
  /\ id \in Live
  /\ Begin(s, [Idle EXCEPT !.op = "updateRead", !.id = id, !.start = task[id].start])
  /\ UNCHANGED <<task, lock>>

Linked(row, pred, lag, started) ==
  [row EXCEPT !.pred = pred, !.lag = lag, !.started = started]

UpdateDecide(s, pred, started) ==
  LET id == session[s].id IN
  /\ session[s].op = "updateRead"
  /\ PredecessorStands(pred)
  /\ ~Reaches(pred, id)
  /\ Decide(s, Writing,
       [NoRows EXCEPT ![id] =
          Linked(task[id], pred, LagBehind(Schedule, pred, session[s].start), started)])

\* Mutant: a record status the enum does not have.
VoidedDeleted(row) == [row EXCEPT !.record = "deleted"]

Voided(row) == [row EXCEPT !.record = "void"]

\* voidTask: the status is read, then the lock taken, then the dependents read.
VoidRead(s, id) ==
  /\ "void" \in Edits /\ session[s].op = "idle"
  /\ id \in Live
  /\ Begin(s, [Idle EXCEPT !.op = "voidRead", !.id = id])
  /\ UNCHANGED <<task, lock>>

VoidDecide(s) ==
  LET id == session[s].id IN
  /\ session[s].op = "voidRead"
  /\ DependentsOf(id) = {}
  /\ Decide(s, Writing, [NoRows EXCEPT ![id] = Voided(task[id])])

\* moveTaskDates, first press: the consequence, stamped with the fingerprint.
Preview(s, id, span) ==
  /\ session[s].op \in {"idle", "shown"}
  /\ LockFree
  /\ id \in Live /\ span # [start |-> task[id].start, end |-> task[id].end]
  /\ Plannable(Schedule, id, span)
  /\ Begin(s, [Idle EXCEPT !.op = "shown", !.id = id, !.span = span, !.shown = Schedule])
  /\ UNCHANGED <<task, lock>>

\* Mutant: the fingerprint covers the planned dates only.
SameDates(a, b) ==
  /\ Ids(a) = Ids(b)
  /\ \A t \in Ids(a) : a[t].start = b[t].start /\ a[t].end = b[t].end

\* Equal fingerprints: the same live rows in every column the plan reads.
SameSchedule(a, b) == a = b

\* Second press: recomputed under the lock and written when the fingerprint holds.
MoveDecide(s) ==
  /\ session[s].op = "shown"
  /\ SameSchedule(session[s].shown, Schedule)
  /\ Plannable(Schedule, session[s].id, session[s].span)
  /\ Decide(s, [session[s] EXCEPT !.op = "moving"],
            Plan(Schedule, session[s].id, session[s].span))

\* The preview is closed, the request refused, or the transaction lost.
Rollback(s) ==
  /\ session[s].op # "idle"
  /\ lock' = IF lock = s THEN Nobody ELSE lock
  /\ Begin(s, Idle)
  /\ UNCHANGED task

Edit(s) ==
  \/ Create(s) \/ Import(s) \/ VoidDecide(s)
  \/ \E id \in Tasks : UpdateRead(s, id) \/ VoidRead(s, id)
  \/ \E pred \in Tasks \cup {NoTask}, started \in BOOLEAN : UpdateDecide(s, pred, started)
  \/ Commit(s, "writing")

Move(s) ==
  \/ \E id \in Tasks, span \in Spans : Preview(s, id, span)
  \/ MoveDecide(s)
  \/ Commit(s, "moving")

Next ==
  \/ \E s \in Editors : Edit(s)
  \/ \E s \in Planners : Move(s)
  \/ \E s \in Sessions : Rollback(s)

Spec == Init /\ [][Next]_vars

-----------------------------------------------------------------------------
(* Properties.                                                             *)

\* Types: every row, and every row a request is about to write, is well formed.
TypeOK ==
  /\ task \in [Tasks -> Row]
  /\ lock \in Sessions \cup {Nobody}
  /\ session \in [Sessions -> Request]

\* No task waits on itself through its predecessors, however many requests add
\* the legs of the loop at once: every set of tasks has one that waits on nothing
\* in the set (lockProject, findPredecessorCycle, the trigger of 0012).
NoLoop ==
  \A S \in SUBSET Tasks : S # {} => \E t \in S : task[t].pred \notin S

\* No live task waits on a voided one, however a void races the edits and the
\* imports that add dependents (voidTask counts them under the lock, and
\* predecessorProblem is asked under it).
NothingWaitsOnVoid == \A t \in Live : PredecessorStands(task[t].pred)

\* What a confirmed move writes is the consequence that was on the screen: the
\* plan of the schedule the preview was computed from, whatever other requests
\* committed between the two presses (moveTaskDates, canonicalScheduleText).
ConfirmedMoveIsThePreview ==
  [][\A s \in Planners : Commit(s, "moving") =>
       task' = Merge(task, Plan(session[s].shown, session[s].id, session[s].span))]_vars

\* A move shifts no task that has started, other than the one moved by hand
\* (planMove holds it).
StartedTasksStay ==
  [][\A s \in Planners : Commit(s, "moving") =>
       \A t \in Live \ {session[s].id} : task[t].started =>
         task'[t].start = task[t].start /\ task'[t].end = task[t].end]_vars

\* A move keeps the gap between every task not started and the task it waits on,
\* all the way down the chain; only the task moved by hand changes its own.
MovesKeepGaps ==
  [][\A s \in Planners : Commit(s, "moving") =>
       \A t \in Live \ {session[s].id} :
         ~task[t].started /\ task[t].pred # NoTask =>
           LagBetween(task'[task[t].pred].end, task'[t].start)
             = LagBetween(task[task[t].pred].end, task[t].start)]_vars

\* The stored lag is the gap the dates show.
LagAgrees(t) == task[t].lag = LagBehind(Schedule, task[t].pred, task[t].start)

\* A move leaves every stored lag agreeing with the dates when they did before:
\* the edited task's is recomputed, a pushed task's is kept, and a held task's is
\* restated, for "lag_days a reading of the dates" (moveTaskDates).
MovesRestateLags ==
  [][\A s \in Planners : Commit(s, "moving") =>
       ((\A t \in Live : LagAgrees(t)) => (\A t \in Live : LagAgrees(t))')]_vars

-----------------------------------------------------------------------------
(* What the repository says and its transactions do not keep.              *)

\* "Derived, never typed ... a lag that disagrees with them is a lag nobody can
\* trust": every live task's lag is the gap its dates show.
LagMatchesDates == \A t \in Live : LagAgrees(t)
=============================================================================
