--------------------------- MODULE ScheduleProofs ---------------------------
(***************************************************************************)
(* Proofs about Schedule for any tasks, any sessions and any bounds: no    *)
(* loop of predecessors, nothing live behind a voided task, and what a     *)
(* confirmed move may and may not do to the dates.                         *)
(*                                                                         *)
(* NoLoop and NothingWaitsOnVoid are kept by a commit because they already *)
(* held of the table the commit was going to leave when it was decided,    *)
(* under the lock: the invariant says so of every request that is writing. *)
(***************************************************************************)
EXTENDS Schedule, TLAPS

NoLoopIn(rows) == \A S \in SUBSET Tasks : S # {} => \E t \in S : rows[t].pred \notin S

StandsIn(rows) ==
  \A t \in Tasks : rows[t].record = "active" /\ rows[t].pred # NoTask =>
    rows[t].pred \in Tasks /\ rows[rows[t].pred].record = "active"

Sound(rows) == NoLoopIn(rows) /\ StandsIn(rows)

\* A request that is about to commit holds the lock and leaves a sound table; one
\* that is moving writes the plan of the schedule it was shown, which is the
\* schedule still.
WriterOK(s) ==
  session[s].op \in {"writing", "moving"} =>
    lock = s /\ Sound(Merge(task, session[s].write))

MoverOK(s) ==
  session[s].op = "moving" =>
    /\ session[s].shown = Schedule
    /\ session[s].write = Plan(Schedule, session[s].id, session[s].span)
    /\ session[s].id \in Live
    /\ session[s].id \notin Pushed(Schedule, session[s].id)

\* A request past its first read has a task in hand.
HandOK(s) ==
  session[s].op \in {"updateRead", "voidRead", "shown", "moving"} => session[s].id \in Tasks

IInv ==
  /\ TypeOK
  /\ Sound(task)
  /\ \A s \in Sessions : WriterOK(s) /\ MoverOK(s) /\ HandOK(s)

-----------------------------------------------------------------------------
\* The chain.

\* A link to a task whose chain does not come back closes no loop.
LEMMA LinkKeepsNoLoop ==
  ASSUME NEW rows \in Table, NEW new \in Table, NEW id \in Tasks,
         NEW pred \in Tasks \cup {NoTask},
         \A t \in Tasks \ {id} : new[t].pred = rows[t].pred,
         new[id].pred = pred,
         pred = NoTask \/ \E C \in SUBSET Tasks :
           /\ pred \in C /\ id \notin C
           /\ \A t \in C : rows[t].pred \in C \cup {NoTask},
         NoLoopIn(rows)
  PROVE  NoLoopIn(new)
<1> SUFFICES ASSUME NEW S \in SUBSET Tasks, S # {}, \A t \in S : new[t].pred \in S
             PROVE  FALSE
  BY DEF NoLoopIn
<1>1. CASE id \notin S
  <2>1. \A t \in S : rows[t].pred \in S
    BY <1>1
  <2> QED BY <2>1 DEF NoLoopIn
<1>2. CASE id \in S
  <2>1. pred \in S /\ pred # NoTask
    BY <1>2, NoTaskAssumption
  <2>2. PICK C \in SUBSET Tasks : /\ pred \in C /\ id \notin C
                                  /\ \A t \in C : rows[t].pred \in C \cup {NoTask}
    BY <2>1
  <2>3. S \cap C # {} /\ S \cap C \in SUBSET Tasks
    BY <2>1, <2>2
  <2>4. \A t \in S \cap C : rows[t].pred \in S \cap C
    BY <2>2, NoTaskAssumption
  <2> QED BY <2>3, <2>4 DEF NoLoopIn
<1> QED BY <1>1, <1>2

\* Tables that agree on records and predecessors are sound together.
LEMMA SameLinks ==
  ASSUME NEW rows \in Table, NEW new \in Table,
         \A t \in Tasks : new[t].pred = rows[t].pred /\ new[t].record = rows[t].record,
         Sound(rows)
  PROVE  Sound(new)
<1>1. NoLoopIn(new)
  BY DEF Sound, NoLoopIn
<1>2. StandsIn(new)
  BY DEF Sound, StandsIn
<1> QED BY <1>1, <1>2 DEF Sound

\* What ~Reaches means for the table: a closed set holds pred and not id.
LEMMA NotReached ==
  ASSUME NEW pred \in Tasks \cup {NoTask}, NEW id \in Tasks, ~Reaches(pred, id)
  PROVE  pred = NoTask \/ \E C \in SUBSET Tasks :
           /\ pred \in C /\ id \notin C
           /\ \A t \in C : task[t].pred \in C \cup {NoTask}
BY DEF Reaches

\* Reading a table with one row written over it.
LEMMA MergeOne ==
  ASSUME NEW rows \in Table, NEW id \in Tasks, NEW row \in Row, row.record # "unused"
  PROVE  /\ [NoRows EXCEPT ![id] = row] \in Table
         /\ Merge(rows, [NoRows EXCEPT ![id] = row]) = [rows EXCEPT ![id] = row]
<1> DEFINE write == [NoRows EXCEPT ![id] = row]
<1>1. NoRows \in Table /\ Unused \in Row
  BY DEF NoRows, Table, Unused, Row
<1>2. write \in Table
  BY <1>1 DEF Table
<1>3. Ids(write) = {id}
  BY <1>1 DEF Ids, NoRows, Table, Unused
<1>4. write[id] = row
  BY <1>1 DEF Table
<1>5. Merge(rows, write) = [rows EXCEPT ![id] = row]
  BY <1>3, <1>4 DEF Merge, Table
<1> QED BY <1>2, <1>5

\* A merge of tables is a table.
LEMMA MergeType ==
  ASSUME NEW rows \in Table, NEW write \in Table
  PROVE  Merge(rows, write) \in Table
BY DEF Merge, Table

-----------------------------------------------------------------------------
\* The plan of a move.

\* The walk goes on through every task not started that waits on one it moves.
LEMMA PushedOn ==
  ASSUME NEW rows \in Table, NEW root \in Tasks, NEW t \in Ids(rows),
         ~rows[t].started, rows[t].pred \in Pushed(rows, root) \cup {root}
  PROVE  t \in Pushed(rows, root)
<1> DEFINE free == {u \in Ids(rows) : ~rows[u].started}
<1>1. t \in free
  OBVIOUS
<1>2. ASSUME NEW S \in SUBSET free,
             {u \in free : rows[u].pred \in S \cup {root}} \subseteq S
      PROVE  t \in S
  <2>1. Pushed(rows, root) \subseteq S
    BY <1>2 DEF Pushed
  <2> QED BY <1>1, <1>2, <2>1
<1> QED BY <1>1, <1>2 DEF Pushed

\* A task it moves waits on one it moves.
LEMMA PushedBack ==
  ASSUME NEW rows \in Table, NEW root \in Tasks, NEW t \in Pushed(rows, root)
  PROVE  /\ t \in Ids(rows) /\ ~rows[t].started
         /\ rows[t].pred \in Pushed(rows, root) \cup {root}
<1> DEFINE free == {u \in Ids(rows) : ~rows[u].started}
           S == Pushed(rows, root) \ {t}
<1>1. t \in free
  BY DEF Pushed
<1>2. SUFFICES ASSUME rows[t].pred \notin Pushed(rows, root) \cup {root}
               PROVE  FALSE
  BY <1>1
<1>3. S \in SUBSET free
  BY DEF Pushed
<1>4. {u \in free : rows[u].pred \in S \cup {root}} \subseteq S
  <2> SUFFICES ASSUME NEW u \in free, rows[u].pred \in S \cup {root}
               PROVE  u \in S
    OBVIOUS
  <2>1. u \in Pushed(rows, root)
    BY PushedOn
  <2>2. u # t
    BY <1>2
  <2> QED BY <2>1, <2>2
<1>5. t \in S
  <2> HIDE DEF S
  <2> QED BY <1>3, <1>4 DEF Pushed
<1> QED BY <1>5

Delta(rows, root, span) == span.end - rows[root].end
Moves(rows, root, span) ==
  IF Delta(rows, root, span) = 0 THEN {} ELSE Pushed(rows, root)
Holds(rows, root, span) ==
  IF Delta(rows, root, span) = 0 THEN {} ELSE Held(rows, Moves(rows, root, span) \cup {root})
NewEnd(rows, root, span, t) ==
  IF t = root THEN span.end
  ELSE IF t \in Moves(rows, root, span) THEN rows[t].end + Delta(rows, root, span)
  ELSE rows[t].end

\* The three rows a plan writes keep everything but dates and lag.
LEMMA EditedRow ==
  ASSUME NEW row \in Row, NEW span \in Span, NEW lag \in Int
  PROVE  LET new == Edited(row, span, lag) IN
         /\ new \in Row
         /\ new.record = row.record /\ new.pred = row.pred /\ new.started = row.started
         /\ new.start = span.start /\ new.end = span.end /\ new.lag = lag
BY DEF Row, Span, Edited

LEMMA ShiftedRow ==
  ASSUME NEW row \in Row, NEW delta \in Int
  PROVE  LET new == Shifted(row, delta) IN
         /\ new \in Row
         /\ new.record = row.record /\ new.pred = row.pred /\ new.started = row.started
         /\ new.start = row.start + delta /\ new.end = row.end + delta /\ new.lag = row.lag
<1>1. row.start + delta \in Int /\ row.end + delta \in Int
  BY DEF Row
<1> QED BY <1>1 DEF Row, Shifted

LEMMA RestatedRow ==
  ASSUME NEW row \in Row, NEW lag \in Int
  PROVE  LET new == Restated(row, lag) IN
         /\ new \in Row
         /\ new.record = row.record /\ new.pred = row.pred /\ new.started = row.started
         /\ new.start = row.start /\ new.end = row.end /\ new.lag = lag
BY DEF Row, Restated

\* The plan, row by row.
LEMMA PlanRows ==
  ASSUME NEW rows \in Table, NEW root \in Tasks, NEW span \in Span, NEW t \in Tasks
  PROVE  Plan(rows, root, span)[t] =
           IF t = root
           THEN Edited(rows[root], span, LagBehind(rows, rows[root].pred, span.start))
           ELSE IF t \in Moves(rows, root, span)
           THEN Shifted(rows[t], Delta(rows, root, span))
           ELSE IF t \in Holds(rows, root, span)
           THEN Restated(rows[t],
                  LagBetween(NewEnd(rows, root, span, rows[t].pred), rows[t].start))
           ELSE Unused
BY DEF Plan, Moves, Holds, NewEnd, Delta

\* Where the walk goes, it finds rows.
LEMMA PlanWhere ==
  ASSUME NEW rows \in Table, NEW root \in Ids(rows), NEW span \in Span
  PROVE  /\ Moves(rows, root, span) \subseteq Ids(rows)
         /\ Holds(rows, root, span) \subseteq Ids(rows)
         /\ \A t \in Holds(rows, root, span) :
              rows[t].started /\ rows[t].pred \in Moves(rows, root, span) \cup {root}
         /\ \A t \in Moves(rows, root, span) :
              ~rows[t].started /\ rows[t].pred \in Moves(rows, root, span) \cup {root}
<1> root \in Tasks
  BY DEF Ids
<1>1. \A t \in Moves(rows, root, span) :
        t \in Ids(rows) /\ ~rows[t].started /\ rows[t].pred \in Moves(rows, root, span) \cup {root}
  BY PushedBack DEF Moves
<1>2. \A t \in Holds(rows, root, span) :
        t \in Ids(rows) /\ rows[t].started /\ rows[t].pred \in Moves(rows, root, span) \cup {root}
  BY DEF Holds, Held, WaitingOn
<1> QED BY <1>1, <1>2

\* A row of the plan: typed, and with its record, link and start untouched.
LEMMA PlanKeeps ==
  ASSUME NEW rows \in Table, NEW root \in Ids(rows), NEW span \in Span, NEW t \in Tasks
  PROVE  LET new == Plan(rows, root, span)[t] IN
         /\ new \in Row
         /\ t \in {root} \cup Moves(rows, root, span) \cup Holds(rows, root, span) =>
              /\ new.record = rows[t].record /\ new.pred = rows[t].pred
              /\ new.started = rows[t].started
              /\ t \in Ids(rows)
         /\ t \notin {root} \cup Moves(rows, root, span) \cup Holds(rows, root, span) =>
              new = Unused
<1> DEFINE delta == Delta(rows, root, span)
           moves == Moves(rows, root, span)
           holds == Holds(rows, root, span)
           new == Plan(rows, root, span)[t]
<1> root \in Tasks
  BY DEF Ids
<1>1. rows[t] \in Row /\ rows[root] \in Row
  BY DEF Table
<1>2. span.start \in Int /\ span.end \in Int /\ delta \in Int
  BY <1>1 DEF Span, Delta, Row
<1>3. CASE t = root
  <2>1. LagBehind(rows, rows[root].pred, span.start) \in Int
    BY <1>2 DEF LagBehind, LagBetween, Ids, Table, Row
  <2>2. new = Edited(rows[root], span, LagBehind(rows, rows[root].pred, span.start))
    BY <1>3, PlanRows
  <2> QED BY <1>1, <1>3, <2>1, <2>2, EditedRow
<1>4. CASE t # root /\ t \in moves
  <2>1. new = Shifted(rows[t], delta)
    BY <1>4, PlanRows
  <2>2. t \in Ids(rows)
    BY <1>4, PlanWhere
  <2>3. new \in Row /\ new.record = rows[t].record /\ new.pred = rows[t].pred
        /\ new.started = rows[t].started
    <3> HIDE DEF new, delta
    <3> QED BY <1>1, <1>2, <2>1, ShiftedRow
  <2> QED BY <1>4, <2>2, <2>3
<1>5. CASE t # root /\ t \notin moves /\ t \in holds
  <2>1. new = Restated(rows[t],
                LagBetween(NewEnd(rows, root, span, rows[t].pred), rows[t].start))
    BY <1>5, PlanRows
  <2>2. t \in Ids(rows) /\ rows[t].pred \in moves \cup {root}
    BY <1>5, PlanWhere
  <2>3. rows[t].pred \in Tasks
    BY <2>2, PlanWhere DEF Ids
  <2>4. rows[rows[t].pred] \in Row
    BY <2>3 DEF Table
  <2>5. NewEnd(rows, root, span, rows[t].pred) \in Int
    BY <1>2, <2>4 DEF NewEnd, Row
  <2>6. LagBetween(NewEnd(rows, root, span, rows[t].pred), rows[t].start) \in Int
    BY <1>1, <2>5 DEF LagBetween, Row
  <2> QED BY <1>1, <1>5, <2>1, <2>2, <2>6, RestatedRow
<1>6. CASE t \notin {root} \cup moves \cup holds
  <2>1. new = Unused
    BY <1>6, PlanRows
  <2>2. Unused \in Row
    BY DEF Unused, Row
  <2> QED BY <1>6, <2>1, <2>2
<1> QED BY <1>3, <1>4, <1>5, <1>6

\* The plan is a table of rows.
LEMMA PlanType ==
  ASSUME NEW rows \in Table, NEW root \in Ids(rows), NEW span \in Span
  PROVE  Plan(rows, root, span) \in Table
<1>1. Plan(rows, root, span) = [t \in Tasks |-> Plan(rows, root, span)[t]]
  BY DEF Plan
<1>2. \A t \in Tasks : Plan(rows, root, span)[t] \in Row
  BY PlanKeeps
<1> QED BY <1>1, <1>2 DEF Table

-----------------------------------------------------------------------------
\* The tables a request may leave.

\* A live task's row is what the schedule shows of it.
LEMMA ScheduleRows ==
  ASSUME task \in Table
  PROVE  /\ Schedule \in Table
         /\ Ids(Schedule) = Live
         /\ \A t \in Live : Schedule[t] = task[t]
<1>1. Unused \in Row /\ Unused.record = "unused"
  BY DEF Unused, Row
<1>2. Schedule \in Table
  BY <1>1 DEF Schedule, Table
<1>3. \A t \in Tasks : Schedule[t] = IF t \in Live THEN task[t] ELSE Unused
  BY DEF Schedule
<1>4. \A t \in Live : t \in Tasks /\ task[t].record = "active"
  BY DEF Live
<1> QED BY <1>1, <1>2, <1>3, <1>4 DEF Ids

\* The same as one formula, which the state after a step has too.
LEMMA RowsAlways ==
  task \in Table => Ids(Schedule) = Live /\ \A t \in Live : Schedule[t] = task[t]
BY ScheduleRows

\* Writing a row the table has no use for writes nothing.
LEMMA MergeNone ==
  ASSUME NEW rows \in Table, NEW id \in Tasks, NEW row \in Row, row.record = "unused"
  PROVE  /\ [NoRows EXCEPT ![id] = row] \in Table
         /\ Merge(rows, [NoRows EXCEPT ![id] = row]) = rows
<1> DEFINE write == [NoRows EXCEPT ![id] = row]
<1>1. NoRows \in Table /\ Unused \in Row
  BY DEF NoRows, Table, Unused, Row
<1>2. write \in Table
  BY <1>1 DEF Table
<1>3. Ids(write) = {}
  BY <1>1 DEF Ids, NoRows, Table, Unused
<1>4. Merge(rows, write) = rows
  BY <1>3 DEF Merge, Table
<1> QED BY <1>2, <1>4

\* A row that waits on a live task, or on none, and closes no loop.
LEMMA LinkSound ==
  ASSUME NEW rows \in Table, NEW id \in Tasks, NEW row \in Row,
         row.record \in {"active", rows[id].record},
         row.pred # NoTask => rows[row.pred].record = "active",
         row.pred = NoTask \/ \E C \in SUBSET Tasks :
           /\ row.pred \in C /\ id \notin C
           /\ \A t \in C : rows[t].pred \in C \cup {NoTask},
         Sound(rows)
  PROVE  Sound([rows EXCEPT ![id] = row])
<1> DEFINE new == [rows EXCEPT ![id] = row]
<1>1. new \in Table /\ new[id] = row /\ \A t \in Tasks \ {id} : new[t] = rows[t]
  BY DEF Table
<1>2. row.pred \in Tasks \cup {NoTask}
  BY DEF Row
<1> HIDE DEF new
<1>3. NoLoopIn(new)
  <2>1. \A t \in Tasks \ {id} : new[t].pred = rows[t].pred
    BY <1>1
  <2> QED BY <1>1, <1>2, <2>1, LinkKeepsNoLoop DEF Sound
<1>4. StandsIn(new)
  <2> SUFFICES ASSUME NEW t \in Tasks, new[t].record = "active", new[t].pred # NoTask
               PROVE  new[t].pred \in Tasks /\ new[new[t].pred].record = "active"
    BY DEF StandsIn
  <2>1. new[t].pred \in Tasks /\ rows[new[t].pred].record = "active"
    <3>1. CASE t = id
      BY <1>1, <1>2, <3>1
    <3>2. CASE t # id
      BY <1>1, <3>2 DEF Sound, StandsIn
    <3> QED BY <3>1, <3>2
  <2>2. CASE new[t].pred = id
    BY <1>1, <2>1, <2>2
  <2>3. CASE new[t].pred # id
    BY <1>1, <2>1, <2>3
  <2> QED BY <2>2, <2>3
<1> QED BY <1>3, <1>4 DEF new, Sound

\* A task nothing live waits on may be voided.
LEMMA VoidSound ==
  ASSUME task \in Table, NEW id \in Tasks, DependentsOf(id) = {}, Sound(task)
  PROVE  /\ Voided(task[id]) \in Row /\ Voided(task[id]).record = "void"
         /\ Sound([task EXCEPT ![id] = Voided(task[id])])
<1> DEFINE row == Voided(task[id])
           new == [task EXCEPT ![id] = row]
<1>1. row \in Row /\ row.record = "void" /\ row.pred = task[id].pred
  BY DEF Voided, Table, Row
<1> HIDE DEF row
<1>2. new \in Table /\ new[id] = row /\ \A t \in Tasks \ {id} : new[t] = task[t]
  BY <1>1 DEF Table
<1> HIDE DEF new
<1>3. \A t \in Tasks : new[t].pred = task[t].pred
  BY <1>1, <1>2
<1>4. NoLoopIn(new)
  BY <1>3 DEF Sound, NoLoopIn
<1>5. StandsIn(new)
  <2> SUFFICES ASSUME NEW t \in Tasks, new[t].record = "active", new[t].pred # NoTask
               PROVE  new[t].pred \in Tasks /\ new[new[t].pred].record = "active"
    BY DEF StandsIn
  <2>1. t # id /\ new[t] = task[t]
    BY <1>1, <1>2
  <2>2. task[t].pred \in Tasks /\ task[task[t].pred].record = "active"
    BY <2>1 DEF Sound, StandsIn
  <2>3. task[t].pred # id
    BY <2>1 DEF DependentsOf, Live
  <2> QED BY <1>2, <2>1, <2>2, <2>3
<1> QED BY <1>1, <1>4, <1>5 DEF Sound, new, row

\* The two rows of an import, the second waiting on the first.
LEMMA ImportSound ==
  ASSUME task \in Table, Sound(task), NEW t \in Tasks, NEW u \in Tasks, t # u,
         NEW first \in Row, NEW second \in Row,
         first.record = "active", first.pred = NoTask,
         second.record = "active", second.pred = t
  PROVE  /\ [NoRows EXCEPT ![t] = first, ![u] = second] \in Table
         /\ Sound(Merge(task, [NoRows EXCEPT ![t] = first, ![u] = second]))
<1> DEFINE one == [NoRows EXCEPT ![t] = first]
           write == [one EXCEPT ![u] = second]
           mid == [task EXCEPT ![t] = first]
           new == [mid EXCEPT ![u] = second]
<1>1. NoRows \in Table /\ \A v \in Tasks : NoRows[v].record = "unused"
  BY DEF NoRows, Table, Unused, Row
<1>2. one \in Table /\ one[t] = first /\ \A v \in Tasks \ {t} : one[v] = NoRows[v]
  BY <1>1 DEF Table
<1>3. mid \in Table /\ mid[t] = first /\ \A v \in Tasks \ {t} : mid[v] = task[v]
  BY DEF Table
<1>4. Sound(mid)
  BY LinkSound
<1> HIDE DEF one, mid
<1>5. write \in Table /\ write[u] = second /\ \A v \in Tasks \ {u} : write[v] = one[v]
  BY <1>2 DEF Table
<1>6. new \in Table /\ new[u] = second /\ \A v \in Tasks \ {u} : new[v] = mid[v]
  BY <1>3 DEF Table
<1>7. Sound(new)
  <2>1. mid[t].record = "active" /\ mid[t].pred = NoTask
    BY <1>3
  <2>2. {t} \in SUBSET Tasks /\ t \in {t} /\ u \notin {t}
        /\ \A v \in {t} : mid[v].pred \in {t} \cup {NoTask}
    BY <2>1
  <2>3. \E C \in SUBSET Tasks : /\ second.pred \in C /\ u \notin C
                                /\ \A v \in C : mid[v].pred \in C \cup {NoTask}
    BY <2>2
  <2> QED BY <1>3, <1>4, <2>1, <2>3, LinkSound
<1> HIDE DEF write, new
<1>8. Ids(write) = {t, u}
  BY <1>1, <1>2, <1>5 DEF Ids
<1>9. Merge(task, write) \in Table
  BY <1>5, MergeType
<1>10. \A v \in Tasks : Merge(task, write)[v] = new[v]
  BY <1>2, <1>3, <1>5, <1>6, <1>8 DEF Merge
<1>11. Merge(task, write) = new
  BY <1>6, <1>9, <1>10 DEF Table
<1> QED BY <1>5, <1>7, <1>11 DEF write, one

\* The table a move leaves, task by task.
LEMMA MovedRows ==
  ASSUME task \in Table, NEW root \in Live, NEW span \in Span
  PROVE  /\ Plan(Schedule, root, span) \in Table
         /\ Merge(task, Plan(Schedule, root, span)) \in Table
         /\ \A t \in Tasks : Merge(task, Plan(Schedule, root, span))[t] =
              IF t \in {root} \cup Moves(Schedule, root, span) \cup Holds(Schedule, root, span)
              THEN Plan(Schedule, root, span)[t] ELSE task[t]
<1> PICK rows \in Table : rows = Schedule
  BY ScheduleRows
<1>1. root \in Ids(rows) /\ \A t \in Ids(rows) : t \in Tasks /\ rows[t].record # "unused"
  BY ScheduleRows DEF Ids
<1> PICK plan \in Table : plan = Plan(rows, root, span)
  BY <1>1, PlanType
<1>2. \A t \in Tasks : t \in Ids(plan) <=>
        t \in {root} \cup Moves(rows, root, span) \cup Holds(rows, root, span)
  BY <1>1, PlanKeeps DEF Ids, Unused
<1>3. Merge(task, plan) \in Table
  BY MergeType
<1>4. \A t \in Tasks : Merge(task, plan)[t] =
        IF t \in {root} \cup Moves(rows, root, span) \cup Holds(rows, root, span)
        THEN plan[t] ELSE task[t]
  BY <1>2 DEF Merge
<1> QED BY <1>3, <1>4

\* A move changes no record and no link.
LEMMA MoveSound ==
  ASSUME task \in Table, NEW root \in Live, NEW span \in Span, Sound(task)
  PROVE  Sound(Merge(task, Plan(Schedule, root, span)))
<1> PICK rows \in Table : rows = Schedule
  BY ScheduleRows
<1>1. root \in Ids(rows) /\ \A t \in Ids(rows) : rows[t] = task[t]
  BY ScheduleRows
<1> DEFINE new == Merge(task, Plan(rows, root, span))
<1>2. \A t \in Tasks : new[t].pred = task[t].pred /\ new[t].record = task[t].record
  BY <1>1, MovedRows, PlanKeeps
<1>3. new \in Table
  BY MovedRows
<1> QED BY <1>2, <1>3, SameLinks

\* The dates a move leaves on a live task, and the lag.
LEMMA MovedDates ==
  ASSUME task \in Table, NEW rows \in Table, rows = Schedule,
         NEW root \in Live, root \notin Pushed(rows, root), NEW span \in Span, NEW t \in Live
  PROVE  LET new == Merge(task, Plan(rows, root, span))[t] IN
         /\ new.record = task[t].record /\ new.pred = task[t].pred
         /\ new.started = task[t].started
         /\ new.end = NewEnd(rows, root, span, t)
         /\ new.start = IF t = root THEN span.start
                        ELSE IF t \in Moves(rows, root, span)
                        THEN task[t].start + Delta(rows, root, span) ELSE task[t].start
         /\ new.lag = IF t = root THEN LagBehind(rows, task[root].pred, span.start)
                      ELSE IF t \in Holds(rows, root, span)
                      THEN LagBetween(NewEnd(rows, root, span, task[t].pred), task[t].start)
                      ELSE task[t].lag
<1>1. /\ Ids(rows) = Live
      /\ root \in Tasks /\ t \in Tasks /\ rows[t] = task[t] /\ rows[root] = task[root]
  BY ScheduleRows DEF Live
<1>2. rows[t] \in Row /\ rows[root] \in Row
  BY <1>1 DEF Table
<1>3. span.start \in Int /\ span.end \in Int /\ Delta(rows, root, span) \in Int
  BY <1>2 DEF Span, Delta, Row
<1>4. root \notin Moves(rows, root, span)
  BY DEF Moves
<1> DEFINE new == Merge(task, Plan(rows, root, span))[t]
<1>5. CASE t = root
  <2>1. LagBehind(rows, rows[root].pred, span.start) \in Int
    BY <1>2, <1>3 DEF LagBehind, LagBetween, Ids, Table, Row
  <2>2. new = Edited(rows[root], span, LagBehind(rows, rows[root].pred, span.start))
    BY <1>1, <1>5, MovedRows, PlanRows
  <2>3. new.record = rows[t].record /\ new.pred = rows[t].pred /\ new.started = rows[t].started
        /\ new.start = span.start /\ new.end = span.end
        /\ new.lag = LagBehind(rows, rows[root].pred, span.start)
    <3> HIDE DEF new
    <3> QED BY <1>2, <1>5, <2>1, <2>2, EditedRow
  <2> QED BY <1>1, <1>5, <2>3 DEF NewEnd
<1>6. CASE t # root /\ t \in Moves(rows, root, span)
  <2>1. new = Shifted(rows[t], Delta(rows, root, span))
    BY <1>1, <1>6, MovedRows, PlanRows
  <2>2. new.record = rows[t].record /\ new.pred = rows[t].pred /\ new.started = rows[t].started
        /\ new.start = rows[t].start + Delta(rows, root, span)
        /\ new.end = rows[t].end + Delta(rows, root, span) /\ new.lag = rows[t].lag
    <3> HIDE DEF new
    <3> QED BY <1>2, <1>3, <2>1, ShiftedRow
  <2>3. t \notin Holds(rows, root, span)
    BY <1>1, <1>6, PlanWhere
  <2> QED BY <1>1, <1>6, <2>2, <2>3 DEF NewEnd
<1>7. CASE t # root /\ t \notin Moves(rows, root, span) /\ t \in Holds(rows, root, span)
  <2> DEFINE lag == LagBetween(NewEnd(rows, root, span, rows[t].pred), rows[t].start)
  <2>1. new = Restated(rows[t], lag)
    BY <1>1, <1>7, MovedRows, PlanRows
  <2>2. rows[t].pred \in Tasks
    BY <1>1, <1>7, PlanWhere DEF Ids
  <2>3. rows[rows[t].pred] \in Row
    BY <2>2 DEF Table
  <2>4. NewEnd(rows, root, span, rows[t].pred) \in Int
    BY <1>3, <2>3 DEF NewEnd, Row
  <2>5. lag \in Int
    BY <1>2, <2>4 DEF LagBetween, Row
  <2>6. new.record = rows[t].record /\ new.pred = rows[t].pred /\ new.started = rows[t].started
        /\ new.start = rows[t].start /\ new.end = rows[t].end /\ new.lag = lag
    <3> HIDE DEF new, lag
    <3> QED BY <1>2, <2>1, <2>5, RestatedRow
  <2> QED BY <1>1, <1>7, <2>6 DEF NewEnd
<1>8. CASE t \notin {root} \cup Moves(rows, root, span) \cup Holds(rows, root, span)
  <2>1. new = task[t]
    BY <1>1, <1>8, MovedRows
  <2> QED BY <1>1, <1>8, <2>1 DEF NewEnd
<1> QED BY <1>5, <1>6, <1>7, <1>8

-----------------------------------------------------------------------------
\* The requests.

LEMMA IdleRequest ==
  /\ Idle \in Request /\ Idle.op = "idle"
  /\ Writing \in Request /\ Writing.op = "writing"
<1>1. NoRows \in Table
  BY DEF NoRows, Table, Unused, Row
<1>2. Idle \in Request /\ Idle.op = "idle"
  BY <1>1 DEF Idle, Request, Span
<1>3. Writing \in Request /\ Writing.op = "writing"
  BY <1>2 DEF Writing, Request
<1> QED BY <1>2, <1>3

LEMMA WritingRequest ==
  ASSUME NEW request \in Request, NEW write \in Table
  PROVE  LET q == [request EXCEPT !.write = write] IN
         /\ q \in Request /\ q.write = write
         /\ q.op = request.op /\ q.id = request.id
         /\ q.span = request.span /\ q.shown = request.shown
BY DEF Request

LEMMA MovingRequest ==
  ASSUME NEW request \in Request
  PROVE  LET q == [request EXCEPT !.op = "moving"] IN
         /\ q \in Request /\ q.op = "moving" /\ q.id = request.id
         /\ q.span = request.span /\ q.shown = request.shown
BY DEF Request

LEMMA UpdateRequest ==
  ASSUME NEW id \in Tasks, NEW start \in Int
  PROVE  LET q == [Idle EXCEPT !.op = "updateRead", !.id = id, !.start = start] IN
         q \in Request /\ q.op = "updateRead" /\ q.id = id
BY IdleRequest DEF Request

LEMMA VoidRequest ==
  ASSUME NEW id \in Tasks
  PROVE  LET q == [Idle EXCEPT !.op = "voidRead", !.id = id] IN
         q \in Request /\ q.op = "voidRead" /\ q.id = id
BY IdleRequest DEF Request

LEMMA ShownRequest ==
  ASSUME NEW id \in Tasks, NEW span \in Span, NEW shown \in Table
  PROVE  LET q == [Idle EXCEPT !.op = "shown", !.id = id, !.span = span, !.shown = shown] IN
         q \in Request /\ q.op = "shown" /\ q.id = id
BY IdleRequest DEF Request

-----------------------------------------------------------------------------
\* The steps.

\* While the lock is free nobody is about to commit, and while one request holds
\* it nobody else is.
LEMMA OneWriter ==
  ASSUME IInv, NEW s \in Sessions, session[s].op \in {"writing", "moving"}
  PROVE  lock = s
BY DEF IInv, WriterOK

\* A request that writes nothing yet.
LEMMA AskKeeps ==
  ASSUME IInv, NEW s \in Sessions, NEW q \in Request, q.op \notin {"writing", "moving"},
         q.op \in {"updateRead", "voidRead", "shown"} => q.id \in Tasks,
         Begin(s, q), task' = task, lock' = lock \/ (lock = s /\ lock' = Nobody)
  PROVE  IInv'
<1>1. /\ task \in Table /\ lock \in Sessions \cup {Nobody}
      /\ session \in [Sessions -> Request] /\ Sound(task)
      /\ \A p \in Sessions : WriterOK(p) /\ MoverOK(p) /\ HandOK(p)
  BY DEF IInv, TypeOK, Table
<1>2. session' \in [Sessions -> Request] /\ session'[s] = q
      /\ \A p \in Sessions \ {s} : session'[p] = session[p]
  BY <1>1 DEF Begin
<1>3. TypeOK'
  BY <1>1, <1>2 DEF TypeOK, Table
<1>4. Schedule' = Schedule /\ Live' = Live
  BY DEF Schedule, Live
<1>5. ASSUME NEW p \in Sessions PROVE WriterOK(p)' /\ MoverOK(p)' /\ HandOK(p)'
  <2>1. CASE p = s
    BY <1>2, <2>1 DEF WriterOK, MoverOK, HandOK
  <2>2. CASE p # s
    <3>1. session'[p] = session[p] /\ WriterOK(p) /\ MoverOK(p) /\ HandOK(p)
      BY <1>1, <1>2, <2>2
    <3>2. session[p].op \in {"writing", "moving"} => lock' = p
      BY <2>2, <3>1 DEF WriterOK
    <3> QED BY <1>4, <3>1, <3>2 DEF WriterOK, MoverOK, HandOK
  <2> QED BY <2>1, <2>2
<1> QED BY <1>1, <1>3, <1>5 DEF IInv

\* A request that takes the lock and decides what it will write.
LEMMA DecideKeeps ==
  ASSUME IInv, NEW s \in Sessions, NEW request \in Request, NEW write \in Table,
         Decide(s, request, write),
         Sound(Merge(task, write)),
         request.op \in {"writing", "moving"},
         request.op = "moving" =>
           /\ request.shown = Schedule
           /\ write = Plan(Schedule, request.id, request.span)
           /\ request.id \in Tasks /\ request.id \in Live
           /\ request.id \notin Pushed(Schedule, request.id)
  PROVE  IInv'
<1>1. /\ task \in Table /\ lock \in Sessions \cup {Nobody}
      /\ session \in [Sessions -> Request] /\ Sound(task)
      /\ \A p \in Sessions : WriterOK(p) /\ MoverOK(p) /\ HandOK(p)
  BY DEF IInv, TypeOK, Table
<1> PICK q \in Request : /\ q = [request EXCEPT !.write = write]
                         /\ q.write = write /\ q.op = request.op /\ q.id = request.id
                         /\ q.span = request.span /\ q.shown = request.shown
  BY WritingRequest
<1>2. lock = Nobody /\ lock' = s /\ task' = task /\ Begin(s, q)
  BY DEF Decide, LockFree
<1>3. session' \in [Sessions -> Request] /\ session'[s] = q
      /\ \A p \in Sessions \ {s} : session'[p] = session[p]
  BY <1>1, <1>2 DEF Begin
<1>4. TypeOK'
  BY <1>1, <1>2, <1>3 DEF TypeOK, Table
<1>5. Schedule' = Schedule /\ Live' = Live
  BY <1>2 DEF Schedule, Live
<1>6. ASSUME NEW p \in Sessions PROVE WriterOK(p)' /\ MoverOK(p)' /\ HandOK(p)'
  <2>1. CASE p = s
    BY <1>2, <1>3, <1>5, <2>1 DEF WriterOK, MoverOK, HandOK
  <2>2. CASE p # s
    <3>1. session[p].op \notin {"writing", "moving"}
      BY <1>1, <1>2, SessionsAssumption DEF WriterOK
    <3> QED BY <1>1, <1>3, <2>2, <3>1 DEF WriterOK, MoverOK, HandOK
  <2> QED BY <2>1, <2>2
<1> QED BY <1>1, <1>2, <1>4, <1>6 DEF IInv

\* A commit leaves the table its request was going to leave.
LEMMA CommitKeeps ==
  ASSUME IInv, NEW s \in Sessions, NEW op \in {"writing", "moving"}, Commit(s, op)
  PROVE  IInv'
<1>1. /\ task \in Table /\ session \in [Sessions -> Request]
      /\ \A p \in Sessions : WriterOK(p) /\ HandOK(p)
      /\ session[s].op = op
  BY DEF IInv, TypeOK, Table, Commit
<1>2. session[s] \in Request /\ session[s].write \in Table
  BY <1>1 DEF Request
<1>3. lock = s /\ Sound(Merge(task, session[s].write))
  BY <1>1 DEF WriterOK
<1>4. task' = Merge(task, session[s].write) /\ task' \in Table /\ Sound(task')
  BY <1>1, <1>2, <1>3, MergeType DEF Commit
<1>5. session' \in [Sessions -> Request] /\ session'[s] = Idle
      /\ \A p \in Sessions \ {s} : session'[p] = session[p]
  BY <1>1, IdleRequest DEF Commit, Begin
<1>6. TypeOK'
  BY <1>4, <1>5 DEF TypeOK, Table, Commit
<1>7. ASSUME NEW p \in Sessions PROVE session'[p].op \notin {"writing", "moving"} /\ HandOK(p)'
  <2>1. CASE p = s
    BY <1>5, <2>1, IdleRequest DEF HandOK
  <2>2. CASE p # s
    BY <1>1, <1>3, <1>5, <2>2 DEF WriterOK, HandOK
  <2> QED BY <2>1, <2>2
<1>8. \A p \in Sessions : WriterOK(p)' /\ MoverOK(p)' /\ HandOK(p)'
  BY <1>7 DEF WriterOK, MoverOK, HandOK
<1> QED BY <1>4, <1>6, <1>8 DEF IInv

\* What a request writes on one row, decided under the lock.
LEMMA WriteOne ==
  ASSUME IInv, NEW s \in Sessions, NEW id \in Tasks, NEW row \in Row,
         Sound([task EXCEPT ![id] = row]),
         Decide(s, Writing, [NoRows EXCEPT ![id] = row])
  PROVE  IInv'
<1>1. task \in Table /\ Sound(task)
  BY DEF IInv, TypeOK, Table
<1>2. /\ [NoRows EXCEPT ![id] = row] \in Table
      /\ Sound(Merge(task, [NoRows EXCEPT ![id] = row]))
  <2>1. CASE row.record = "unused"
    BY <1>1, <2>1, MergeNone
  <2>2. CASE row.record # "unused"
    BY <1>1, <2>2, MergeOne
  <2> QED BY <2>1, <2>2
<1> QED BY <1>2, IdleRequest, DecideKeeps

\* Lags and spans are integers.
LEMMA LagIsInt ==
  ASSUME task \in Table, NEW pred, NEW start \in Int
  PROVE  LagBehind(Schedule, pred, start) \in Int
<1> PICK rows \in Table : rows = Schedule
  BY ScheduleRows
<1>1. CASE pred \in Ids(rows)
  <2>1. rows[pred] \in Row
    BY <1>1 DEF Ids, Table
  <2> QED BY <1>1, <2>1 DEF LagBehind, LagBetween, Row
<1>2. CASE pred \notin Ids(rows)
  BY <1>2 DEF LagBehind
<1> QED BY <1>1, <1>2

\* The row of a task created.
Fresh(start, end, pred, lag) ==
  [record |-> "active", start |-> start, end |-> end,
   pred |-> pred, lag |-> lag, started |-> FALSE]

LEMMA CreateKeeps ==
  ASSUME IInv, NEW s \in Sessions, Create(s)
  PROVE  IInv'
<1>1. task \in Table /\ Sound(task)
  BY DEF IInv, TypeOK, Table
<1>2. PICK t \in Free, span \in Spans, pred \in Tasks \cup {NoTask} :
        /\ PredecessorStands(pred)
        /\ ~Reaches(pred, t)
        /\ Decide(s, Writing,
             [NoRows EXCEPT ![t] =
                [record |-> "active", start |-> span.start, end |-> span.end, pred |-> pred,
                 lag |-> LagBehind(Schedule, pred, span.start), started |-> FALSE]])
  BY DEF Create
<1>3. t \in Tasks /\ span.start \in Int /\ span.end \in Int
  BY DayAssumption DEF Free
<1> PICK lag \in Int : lag = LagBehind(Schedule, pred, span.start)
  BY <1>1, <1>3, LagIsInt
<1> DEFINE row == Fresh(span.start, span.end, pred, lag)
<1>4. Decide(s, Writing, [NoRows EXCEPT ![t] = row])
  BY <1>2 DEF Fresh
<1>8. row \in Row /\ row.record = "active" /\ row.pred = pred
  BY <1>3 DEF Fresh, Row
<1> HIDE DEF row
<1>5. row.pred # NoTask => task[row.pred].record = "active"
  BY <1>2, <1>8 DEF PredecessorStands, Live
<1>6. row.pred = NoTask \/ \E C \in SUBSET Tasks :
        /\ row.pred \in C /\ t \notin C
        /\ \A u \in C : task[u].pred \in C \cup {NoTask}
  BY <1>2, <1>3, <1>8, NotReached
<1>7. Sound([task EXCEPT ![t] = row])
  BY <1>1, <1>3, <1>5, <1>6, <1>8, LinkSound
<1> QED BY <1>3, <1>4, <1>7, <1>8, WriteOne

LEMMA ImportKeeps ==
  ASSUME IInv, NEW s \in Sessions, Import(s)
  PROVE  IInv'
<1>1. task \in Table /\ Sound(task)
  BY DEF IInv, TypeOK, Table
<1>2. PICK t \in Free, u \in Free, first \in Spans, second \in Spans, lag \in Lags :
        /\ t # u
        /\ Decide(s, Writing,
             [NoRows EXCEPT
                ![t] = [record |-> "active", start |-> first.start, end |-> first.end,
                        pred |-> NoTask, lag |-> 0, started |-> FALSE],
                ![u] = [record |-> "active", start |-> second.start, end |-> second.end,
                        pred |-> t, lag |-> lag, started |-> FALSE]])
  BY DEF Import
<1>3. /\ t \in Tasks /\ u \in Tasks /\ lag \in Int
      /\ first.start \in Int /\ first.end \in Int
      /\ second.start \in Int /\ second.end \in Int
  BY DayAssumption DEF Free
<1> DEFINE one == Fresh(first.start, first.end, NoTask, 0)
           two == Fresh(second.start, second.end, t, lag)
<1>4. Decide(s, Writing, [NoRows EXCEPT ![t] = one, ![u] = two])
  BY <1>2 DEF Fresh
<1>6. one \in Row /\ one.record = "active" /\ one.pred = NoTask
  BY <1>3 DEF Fresh, Row
<1>7. two \in Row /\ two.record = "active" /\ two.pred = t
  BY <1>3 DEF Fresh, Row
<1> HIDE DEF one, two
<1>5. /\ [NoRows EXCEPT ![t] = one, ![u] = two] \in Table
      /\ Sound(Merge(task, [NoRows EXCEPT ![t] = one, ![u] = two]))
  BY <1>1, <1>2, <1>3, <1>6, <1>7, ImportSound
<1> QED BY <1>4, <1>5, IdleRequest, DecideKeeps

\* An edited row: its record is what it was.
LEMMA LinkedRow ==
  ASSUME NEW row \in Row, NEW pred \in Tasks \cup {NoTask}, NEW lag \in Int, NEW started \in BOOLEAN
  PROVE  /\ Linked(row, pred, lag, started) \in Row
         /\ Linked(row, pred, lag, started).record = row.record
         /\ Linked(row, pred, lag, started).pred = pred
BY DEF Row, Linked

LEMMA UpdateKeeps ==
  ASSUME IInv, NEW s \in Sessions, NEW pred \in Tasks \cup {NoTask}, NEW started \in BOOLEAN,
         UpdateDecide(s, pred, started)
  PROVE  IInv'
<1>1. task \in Table /\ Sound(task) /\ session[s] \in Request
  BY DEF IInv, TypeOK, Table
<1> PICK id \in Tasks : id = session[s].id
  BY DEF UpdateDecide, IInv, HandOK
<1>2. /\ PredecessorStands(pred) /\ ~Reaches(pred, id)
      /\ Decide(s, Writing,
           [NoRows EXCEPT ![id] =
              Linked(task[id], pred, LagBehind(Schedule, pred, session[s].start), started)])
  BY DEF UpdateDecide
<1>3. session[s].start \in Int
  BY <1>1 DEF Request
<1>4. task[id] \in Row
  BY <1>1 DEF Table
<1> PICK lag \in Int : lag = LagBehind(Schedule, pred, session[s].start)
  BY <1>1, <1>3, LagIsInt
<1> DEFINE row == Linked(task[id], pred, lag, started)
<1>9. row \in Row /\ row.record = task[id].record /\ row.pred = pred
  BY <1>4, LinkedRow
<1>8. Decide(s, Writing, [NoRows EXCEPT ![id] = row])
  BY <1>2
<1> HIDE DEF row
<1>5. row.pred # NoTask => task[row.pred].record = "active"
  BY <1>2, <1>9 DEF PredecessorStands, Live
<1>6. row.pred = NoTask \/ \E C \in SUBSET Tasks :
        /\ row.pred \in C /\ id \notin C
        /\ \A u \in C : task[u].pred \in C \cup {NoTask}
  BY <1>2, <1>9, NotReached
<1>7. Sound([task EXCEPT ![id] = row])
  BY <1>1, <1>5, <1>6, <1>9, LinkSound
<1> QED BY <1>7, <1>8, <1>9, WriteOne

LEMMA VoidKeeps ==
  ASSUME IInv, NEW s \in Sessions, VoidDecide(s)
  PROVE  IInv'
<1>1. task \in Table /\ Sound(task)
  BY DEF IInv, TypeOK, Table
<1> PICK id \in Tasks : id = session[s].id
  BY DEF VoidDecide, IInv, HandOK
<1>2. DependentsOf(id) = {} /\ Decide(s, Writing, [NoRows EXCEPT ![id] = Voided(task[id])])
  BY DEF VoidDecide
<1>3. /\ Voided(task[id]) \in Row
      /\ Sound([task EXCEPT ![id] = Voided(task[id])])
  BY <1>1, <1>2, VoidSound
<1> QED BY <1>2, <1>3, WriteOne

LEMMA MoveKeeps ==
  ASSUME IInv, NEW s \in Sessions, MoveDecide(s)
  PROVE  IInv'
<1>1. task \in Table /\ Sound(task) /\ session[s] \in Request
  BY DEF IInv, TypeOK, Table
<1> PICK rows \in Table : rows = Schedule
  BY <1>1, ScheduleRows
<1> PICK root \in Tasks, span \in Span : root = session[s].id /\ span = session[s].span
  BY <1>1 DEF MoveDecide, IInv, HandOK, Request
<1>2. /\ session[s].shown = rows
      /\ Plannable(rows, root, span)
      /\ Decide(s, [session[s] EXCEPT !.op = "moving"], Plan(rows, root, span))
  BY DEF MoveDecide, SameSchedule
<1>3. root \in Live /\ root \notin Pushed(rows, root)
  BY <1>1, <1>2, ScheduleRows DEF Plannable
<1>4. /\ Plan(rows, root, span) \in Table
      /\ Sound(Merge(task, Plan(rows, root, span)))
  BY <1>1, <1>3, MovedRows, MoveSound
<1> PICK q \in Request : /\ q = [session[s] EXCEPT !.op = "moving"]
                         /\ q.op = "moving" /\ q.id = root
                         /\ q.span = span /\ q.shown = rows
  BY <1>1, <1>2, MovingRequest
<1>5. Decide(s, q, Plan(rows, root, span))
  BY <1>2
<1> QED BY <1>3, <1>4, <1>5, DecideKeeps

LEMMA UpdateReadKeeps ==
  ASSUME IInv, NEW s \in Sessions, NEW id \in Tasks, UpdateRead(s, id)
  PROVE  IInv'
<1> PICK start \in Int : start = task[id].start
  BY DEF IInv, TypeOK, Row
<1> DEFINE q == [Idle EXCEPT !.op = "updateRead", !.id = id, !.start = start]
<1>2. q \in Request /\ q.op = "updateRead" /\ q.id = id
  BY UpdateRequest
<1>3. Begin(s, q) /\ task' = task /\ lock' = lock
  BY DEF UpdateRead
<1> HIDE DEF q
<1>9. q.op \notin {"writing", "moving"}
  BY <1>2
<1> QED BY <1>2, <1>3, <1>9, AskKeeps

LEMMA VoidReadKeeps ==
  ASSUME IInv, NEW s \in Sessions, NEW id \in Tasks, VoidRead(s, id)
  PROVE  IInv'
<1> DEFINE q == [Idle EXCEPT !.op = "voidRead", !.id = id]
<1>2. q \in Request /\ q.op = "voidRead" /\ q.id = id
  BY VoidRequest
<1>3. Begin(s, q) /\ task' = task /\ lock' = lock
  BY DEF VoidRead
<1> HIDE DEF q
<1>9. q.op \notin {"writing", "moving"}
  BY <1>2
<1> QED BY <1>2, <1>3, <1>9, AskKeeps

LEMMA PreviewKeeps ==
  ASSUME IInv, NEW s \in Sessions, NEW id \in Tasks, NEW span \in Spans, Preview(s, id, span)
  PROVE  IInv'
<1>1. task \in Table
  BY DEF IInv, TypeOK, Table
<1> PICK rows \in Table : rows = Schedule
  BY <1>1, ScheduleRows
<1>2. span \in Span
  BY DayAssumption DEF Span
<1> DEFINE q == [Idle EXCEPT !.op = "shown", !.id = id, !.span = span, !.shown = rows]
<1>3. q \in Request /\ q.op = "shown" /\ q.id = id
  BY <1>2, ShownRequest
<1>4. Begin(s, q) /\ task' = task /\ lock' = lock
  BY DEF Preview
<1> HIDE DEF q
<1>9. q.op \notin {"writing", "moving"}
  BY <1>3
<1> QED BY <1>3, <1>4, <1>9, AskKeeps

LEMMA RollbackKeeps ==
  ASSUME IInv, NEW s \in Sessions, Rollback(s)
  PROVE  IInv'
<1>1. Begin(s, Idle) /\ task' = task
  BY DEF Rollback
<1>3. lock' = lock \/ (lock = s /\ lock' = Nobody)
  BY DEF Rollback
<1>2. Idle \in Request /\ Idle.op \notin {"writing", "moving", "updateRead", "voidRead", "shown"}
  BY IdleRequest
<1> QED BY <1>1, <1>2, <1>3, AskKeeps

\* The invariant holds at the start, and every step keeps it.
LEMMA Starts == Init => IInv
<1> SUFFICES ASSUME Init PROVE IInv
  OBVIOUS
<1>1. Unused \in Row /\ Unused.record = "unused" /\ Unused.pred = NoTask
  BY DEF Unused, Row
<1>2. task \in Table /\ \A t \in Tasks : task[t] = Unused
  BY <1>1 DEF Init, Table
<1>3. TypeOK
  BY <1>2, IdleRequest DEF Init, TypeOK, Table
<1>4. Sound(task)
  BY <1>1, <1>2, NoTaskAssumption DEF Sound, NoLoopIn, StandsIn
<1>5. \A s \in Sessions : session[s].op = "idle"
  BY IdleRequest DEF Init
<1> QED BY <1>3, <1>4, <1>5 DEF IInv, WriterOK, MoverOK, HandOK

LEMMA Keeps == IInv /\ [Next]_vars => IInv'
<1> SUFFICES ASSUME IInv, [Next]_vars PROVE IInv'
  OBVIOUS
<1>1. CASE UNCHANGED vars
  <2>1. task' = task /\ lock' = lock /\ session' = session
    BY <1>1 DEF vars
  <2> QED BY <2>1 DEF IInv, TypeOK, WriterOK, MoverOK, HandOK, Schedule, Live
<1>2. ASSUME NEW s \in Sessions, Edit(s) PROVE IInv'
  <2>1. CASE Create(s)
    BY <2>1, CreateKeeps
  <2>2. CASE Import(s)
    BY <2>2, ImportKeeps
  <2>3. CASE VoidDecide(s)
    BY <2>3, VoidKeeps
  <2>4. CASE \E id \in Tasks : UpdateRead(s, id) \/ VoidRead(s, id)
    BY <2>4, UpdateReadKeeps, VoidReadKeeps
  <2>5. CASE \E pred \in Tasks \cup {NoTask}, started \in BOOLEAN : UpdateDecide(s, pred, started)
    BY <2>5, UpdateKeeps
  <2>6. CASE Commit(s, "writing")
    BY <2>6, CommitKeeps
  <2> QED BY <1>2, <2>1, <2>2, <2>3, <2>4, <2>5, <2>6 DEF Edit
<1>3. ASSUME NEW s \in Sessions, Move(s) PROVE IInv'
  <2>1. CASE \E id \in Tasks, span \in Spans : Preview(s, id, span)
    BY <2>1, PreviewKeeps
  <2>2. CASE MoveDecide(s)
    BY <2>2, MoveKeeps
  <2>3. CASE Commit(s, "moving")
    BY <2>3, CommitKeeps
  <2> QED BY <1>3, <2>1, <2>2, <2>3 DEF Move
<1>4. ASSUME NEW s \in Sessions, Rollback(s) PROVE IInv'
  BY <1>4, RollbackKeeps
<1> QED BY <1>1, <1>2, <1>3, <1>4, SessionsAssumption DEF Next

-----------------------------------------------------------------------------
\* What every state keeps, for any schedule and any number of requests.

\* Every reachable state has the invariant: what a request that holds the lock is
\* about to write still fits the table when it commits.
THEOREM Invariance == Spec => []IInv
BY Starts, Keeps, PTL DEF Spec

\* The table, the lock and the requests keep their shapes.
THEOREM TypeCorrect == Spec => []TypeOK
<1>1. IInv => TypeOK
  BY DEF IInv
<1> QED BY <1>1, Invariance, PTL

\* Tasks never wait on each other in a circle, whatever links are added at once.
THEOREM NoCircle == Spec => []NoLoop
<1>1. IInv => NoLoop
  BY DEF IInv, Sound, NoLoopIn, NoLoop
<1> QED BY <1>1, Invariance, PTL

\* A void never leaves a live task waiting on the voided one.
THEOREM PredecessorsStand == Spec => []NothingWaitsOnVoid
<1>1. IInv => NothingWaitsOnVoid
  BY DEF IInv, Sound, StandsIn, NothingWaitsOnVoid, PredecessorStands, Live
<1> QED BY <1>1, Invariance, PTL

-----------------------------------------------------------------------------
\* What a confirmed move does.

\* The commit of a move, from the invariant: the plan of the schedule as it is.
LEMMA MoveCommits ==
  ASSUME IInv, NEW s \in Sessions, Commit(s, "moving")
  PROVE  /\ task \in Table /\ Sound(task)
         /\ session[s].id \in Live /\ session[s].span \in Span
         /\ session[s].shown = Schedule
         /\ session[s].id \notin Pushed(Schedule, session[s].id)
         /\ task' = Merge(task, Plan(Schedule, session[s].id, session[s].span))
<1>1. task \in Table /\ Sound(task) /\ session[s] \in Request /\ MoverOK(s)
  BY DEF IInv, TypeOK, Table
<1>2. session[s].op = "moving" /\ task' = Merge(task, session[s].write)
  BY DEF Commit
<1>3. session[s].span \in Span
  BY <1>1 DEF Request
<1> QED BY <1>1, <1>2, <1>3 DEF MoverOK

\* A task waits on a live task of the schedule, or on none.
LEMMA PredOf ==
  ASSUME task \in Table, NEW rows \in Table, rows = Schedule, Sound(task), NEW t \in Live
  PROVE  /\ t \in Tasks /\ t \in Ids(rows) /\ rows[t] = task[t]
         /\ task[t].pred # NoTask =>
              /\ task[t].pred \in Live /\ task[t].pred \in Ids(rows)
              /\ rows[task[t].pred] = task[task[t].pred]
<1>1. t \in Tasks /\ task[t].record = "active"
  BY DEF Live
<1>2. task[t].pred # NoTask => task[t].pred \in Tasks /\ task[task[t].pred].record = "active"
  BY <1>1 DEF Sound, StandsIn
<1> QED BY <1>1, <1>2, ScheduleRows DEF Live

\* What waits on a task the walk moves is moved or held.
LEMMA Followers ==
  ASSUME NEW rows \in Table, NEW root \in Ids(rows), NEW span \in Span, NEW t \in Ids(rows),
         Delta(rows, root, span) # 0,
         rows[t].pred \in Moves(rows, root, span) \cup {root}
  PROVE  IF rows[t].started THEN t \in Holds(rows, root, span) ELSE t \in Moves(rows, root, span)
<1>1. root \in Tasks
  BY DEF Ids
<1>2. CASE rows[t].started
  BY <1>2 DEF Holds, Held, WaitingOn
<1>3. CASE ~rows[t].started
  BY <1>1, <1>3, PushedOn DEF Moves
<1> QED BY <1>2, <1>3

\* A task not started keeps the gap to the one it waits on.
LEMMA GapKept ==
  ASSUME task \in Table, Sound(task), NEW rows \in Table, rows = Schedule,
         NEW root \in Live, root \notin Pushed(rows, root), NEW span \in Span,
         NEW t \in Live, t # root, ~task[t].started, task[t].pred # NoTask,
         NEW new \in Table, new = Merge(task, Plan(rows, root, span))
  PROVE  LagBetween(new[task[t].pred].end, new[t].start)
           = LagBetween(task[task[t].pred].end, task[t].start)
<1> PICK p \in Live : p = task[t].pred
  BY PredOf
<1> DEFINE delta == Delta(rows, root, span)
           moves == Moves(rows, root, span)
<1>1. /\ t \in Ids(rows) /\ p \in Ids(rows) /\ root \in Ids(rows)
      /\ rows[t] = task[t] /\ rows[p] = task[p] /\ rows[root] = task[root]
  BY PredOf
<1>2. rows[t] \in Row /\ rows[p] \in Row /\ rows[root] \in Row
  BY <1>1 DEF Table, Ids
<1>3. /\ task[t].start \in Int /\ task[p].end \in Int /\ task[root].end \in Int
      /\ span.end \in Int
      /\ delta = span.end - task[root].end /\ delta \in Int
  BY <1>1, <1>2 DEF Row, Span, Delta
<1>4. new[t].start = IF t \in moves THEN task[t].start + delta ELSE task[t].start
  BY MovedDates
<1>5. new[p].end = IF p = root THEN span.end
                   ELSE IF p \in moves THEN task[p].end + delta ELSE task[p].end
  BY <1>1, MovedDates DEF NewEnd
<1>6. t \in moves <=> delta # 0 /\ p \in moves \cup {root}
  <2>1. delta # 0 /\ p \in moves \cup {root} => t \in moves
    BY <1>1, Followers
  <2>2. t \in moves => delta # 0 /\ p \in moves \cup {root}
    BY <1>1, PlanWhere DEF Moves
  <2> QED BY <2>1, <2>2
<1>7. delta = 0 => moves = {}
  BY DEF Moves
<1> HIDE DEF delta, moves
<1>8. CASE delta = 0
  BY <1>3, <1>4, <1>5, <1>7, <1>8 DEF LagBetween
<1>9. CASE delta # 0 /\ p \in moves \cup {root}
  BY <1>3, <1>4, <1>5, <1>6, <1>9 DEF LagBetween
<1>10. CASE delta # 0 /\ p \notin moves \cup {root}
  BY <1>3, <1>4, <1>5, <1>6, <1>10 DEF LagBetween
<1> QED BY <1>8, <1>9, <1>10

\* The task moved by hand waits on nothing its move pushes.
LEMMA RootWaitsElsewhere ==
  ASSUME task \in Table, Sound(task), NEW rows \in Table, rows = Schedule,
         NEW root \in Live, NEW span \in Span
  PROVE  task[root].pred \notin Moves(rows, root, span) \cup {root}
<1> SUFFICES ASSUME task[root].pred \in Moves(rows, root, span) \cup {root}
             PROVE  FALSE
  OBVIOUS
<1> DEFINE S == Moves(rows, root, span) \cup {root}
<1>1. root \in Ids(rows) /\ root \in Tasks
  BY PredOf
<1>2. Moves(rows, root, span) \subseteq Ids(rows)
      /\ \A t \in Moves(rows, root, span) : rows[t].pred \in S
  BY <1>1, PlanWhere
<1>3. \A t \in Ids(rows) : t \in Tasks /\ rows[t] = task[t]
  BY ScheduleRows DEF Live
<1>4. S \in SUBSET Tasks /\ S # {}
  BY <1>1, <1>2, <1>3
<1>5. \A t \in S : task[t].pred \in S
  BY <1>2, <1>3
<1> QED BY <1>4, <1>5 DEF Sound, NoLoopIn

\* A lag that agreed with the dates agrees with the dates a move leaves.
LEMMA LagKept ==
  ASSUME task \in Table, Sound(task), NEW rows \in Table, rows = Schedule,
         NEW root \in Live, root \notin Pushed(rows, root), NEW span \in Span,
         NEW t \in Live, task[t].pred # NoTask,
         task[t].lag = LagBetween(task[task[t].pred].end, task[t].start),
         NEW new \in Table, new = Merge(task, Plan(rows, root, span))
  PROVE  new[t].lag = LagBetween(new[task[t].pred].end, new[t].start)
<1> PICK p \in Live : p = task[t].pred
  BY PredOf
<1> DEFINE delta == Delta(rows, root, span)
           moves == Moves(rows, root, span)
           holds == Holds(rows, root, span)
<1>1. /\ t \in Ids(rows) /\ p \in Ids(rows) /\ root \in Ids(rows)
      /\ rows[t] = task[t] /\ rows[p] = task[p] /\ rows[root] = task[root]
  BY PredOf
<1>2. rows[t] \in Row /\ rows[p] \in Row /\ rows[root] \in Row
  BY <1>1 DEF Table, Ids
<1>3. /\ task[t].start \in Int /\ task[p].end \in Int /\ task[root].end \in Int
      /\ delta = span.end - task[root].end /\ delta \in Int /\ span.end \in Int
  BY <1>1, <1>2 DEF Row, Span, Delta
<1>4. new[p].end = NewEnd(rows, root, span, p)
  BY MovedDates
<1>5. CASE t = root
  <2>1. p \notin moves \cup {root}
    BY <1>5, RootWaitsElsewhere
  <2>2. new[p].end = task[p].end
    BY <1>1, <1>4, <2>1 DEF NewEnd
  <2>3. new[t].lag = LagBehind(rows, p, span.start) /\ new[t].start = span.start
    BY <1>5, MovedDates
  <2> QED BY <1>1, <2>2, <2>3 DEF LagBehind
<1>6. CASE t # root /\ t \in holds
  <2>1. new[t].lag = LagBetween(NewEnd(rows, root, span, p), task[t].start)
    BY <1>6, MovedDates
  <2>2. t \notin moves
    BY <1>1, <1>6, PlanWhere
  <2>3. new[t].start = task[t].start
    BY <1>6, <2>2, MovedDates
  <2> QED BY <1>4, <2>1, <2>3
<1>7. CASE t # root /\ t \notin holds
  <2>1. new[t].lag = task[t].lag
    BY <1>7, MovedDates
  <2>2. new[t].start = IF t \in moves THEN task[t].start + delta ELSE task[t].start
    BY <1>7, MovedDates
  <2>3. new[p].end = IF p = root THEN span.end
                     ELSE IF p \in moves THEN task[p].end + delta ELSE task[p].end
    BY <1>1, <1>4 DEF NewEnd
  <2>4. t \in moves <=> delta # 0 /\ p \in moves \cup {root}
    <3>1. delta # 0 /\ p \in moves \cup {root} => t \in moves
      BY <1>1, <1>7, Followers
    <3>2. t \in moves => delta # 0 /\ p \in moves \cup {root}
      BY <1>1, PlanWhere DEF Moves
    <3> QED BY <3>1, <3>2
  <2>5. delta = 0 => moves = {}
    BY DEF Moves
  <2> HIDE DEF delta, moves, holds
  <2>6. CASE delta = 0
    BY <1>3, <2>1, <2>2, <2>3, <2>5, <2>6 DEF LagBetween
  <2>7. CASE delta # 0 /\ p \in moves \cup {root}
    BY <1>3, <2>1, <2>2, <2>3, <2>4, <2>7 DEF LagBetween
  <2>8. CASE delta # 0 /\ p \notin moves \cup {root}
    BY <1>3, <2>1, <2>2, <2>3, <2>4, <2>8 DEF LagBetween
  <2> QED BY <2>6, <2>7, <2>8
<1> QED BY <1>5, <1>6, <1>7

\* A move leaves the live tasks live, and their links where they were.
LEMMA MoveKeepsLive ==
  ASSUME IInv, NEW s \in Sessions, Commit(s, "moving")
  PROVE  Live' = Live /\ task' \in Table /\ \A t \in Live : task'[t].pred = task[t].pred
<1> PICK root, span, rows :
      root = session[s].id /\ span = session[s].span /\ rows = Schedule
  OBVIOUS
<1>1. /\ task \in Table /\ root \in Live /\ span \in Span
      /\ task' = Merge(task, Plan(rows, root, span))
  BY MoveCommits
<1>2. /\ rows \in Table /\ Ids(rows) = Live /\ \A t \in Live : rows[t] = task[t]
      /\ Live \subseteq Tasks /\ root \in Tasks
  BY <1>1, ScheduleRows DEF Live
<1>3. task' \in Table
  BY <1>1, <1>2, MovedRows
<1>4. \A t \in Tasks : task'[t].pred = task[t].pred /\ task'[t].record = task[t].record
  BY <1>1, <1>2, MovedRows, PlanKeeps
<1> QED BY <1>2, <1>3, <1>4 DEF Live

\* What is written is what was shown, whoever else commits in between.
THEOREM PreviewKept == Spec => ConfirmedMoveIsThePreview
<1>1. IInv /\ [Next]_vars =>
        [\A s \in Planners : Commit(s, "moving") =>
           task' = Merge(task, Plan(session[s].shown, session[s].id, session[s].span))]_vars
  BY MoveCommits, SessionsAssumption
<1> QED BY <1>1, Invariance, PTL DEF Spec, ConfirmedMoveIsThePreview

\* Work under way keeps its dates when something before it moves.
THEOREM StartedStay == Spec => StartedTasksStay
<1>1. IInv /\ [Next]_vars =>
        [\A s \in Planners : Commit(s, "moving") =>
           \A t \in Live \ {session[s].id} : task[t].started =>
             task'[t].start = task[t].start /\ task'[t].end = task[t].end]_vars
  <2> SUFFICES ASSUME IInv, NEW s \in Planners, Commit(s, "moving"),
                      NEW t \in Live \ {session[s].id}, task[t].started
               PROVE  task'[t].start = task[t].start /\ task'[t].end = task[t].end
    OBVIOUS
  <2> PICK root, span, rows, new :
        root = session[s].id /\ span = session[s].span /\ rows = Schedule /\ new = task'
    OBVIOUS
  <2>1. /\ task \in Table /\ Sound(task) /\ root \in Live /\ span \in Span
        /\ root \notin Pushed(rows, root) /\ new = Merge(task, Plan(rows, root, span))
    BY MoveCommits, SessionsAssumption
  <2>2. rows \in Table
    BY <2>1, ScheduleRows
  <2>3. rows[t] = task[t] /\ root \in Ids(rows)
    BY <2>1, <2>2, PredOf
  <2>4. t \notin Moves(rows, root, span)
    BY <2>1, <2>2, <2>3, PlanWhere
  <2>5. new[t].end = NewEnd(rows, root, span, t) /\ new[t].start = task[t].start
    BY <2>1, <2>2, <2>4, MovedDates
  <2> QED BY <2>3, <2>4, <2>5 DEF NewEnd
<1> QED BY <1>1, Invariance, PTL DEF Spec, StartedTasksStay

\* The float between two tasks survives a move, down the whole chain.
THEOREM GapsKept == Spec => MovesKeepGaps
<1>1. IInv /\ [Next]_vars =>
        [\A s \in Planners : Commit(s, "moving") =>
           \A t \in Live \ {session[s].id} :
             ~task[t].started /\ task[t].pred # NoTask =>
               LagBetween(task'[task[t].pred].end, task'[t].start)
                 = LagBetween(task[task[t].pred].end, task[t].start)]_vars
  <2> SUFFICES ASSUME IInv, NEW s \in Planners, Commit(s, "moving"),
                      NEW t \in Live \ {session[s].id}, ~task[t].started, task[t].pred # NoTask
               PROVE  LagBetween(task'[task[t].pred].end, task'[t].start)
                        = LagBetween(task[task[t].pred].end, task[t].start)
    OBVIOUS
  <2> PICK root, span, rows, new :
        root = session[s].id /\ span = session[s].span /\ rows = Schedule /\ new = task'
    OBVIOUS
  <2>1. /\ task \in Table /\ Sound(task) /\ root \in Live /\ span \in Span
        /\ root \notin Pushed(rows, root) /\ new = Merge(task, Plan(rows, root, span))
    BY MoveCommits, SessionsAssumption
  <2>2. rows \in Table /\ new \in Table
    BY <2>1, ScheduleRows, MovedRows
  <2> QED BY <2>1, <2>2, GapKept
<1> QED BY <1>1, Invariance, PTL DEF Spec, MovesKeepGaps

\* The lags a move leaves agree with its dates when they agreed before.
THEOREM LagsRestated == Spec => MovesRestateLags
<1>1. IInv /\ [Next]_vars =>
        [\A s \in Planners : Commit(s, "moving") =>
           ((\A t \in Live : LagAgrees(t)) => (\A t \in Live : LagAgrees(t))')]_vars
  <2> SUFFICES ASSUME IInv, NEW s \in Planners, Commit(s, "moving"), \A t \in Live : LagAgrees(t)
               PROVE  (\A t \in Live : LagAgrees(t))'
    OBVIOUS
  <2> PICK root, span, rows, new :
        root = session[s].id /\ span = session[s].span /\ rows = Schedule /\ new = task'
    OBVIOUS
  <2>1. /\ task \in Table /\ Sound(task) /\ root \in Live /\ span \in Span
        /\ root \notin Pushed(rows, root) /\ new = Merge(task, Plan(rows, root, span))
    BY MoveCommits, SessionsAssumption
  <2>2. rows \in Table /\ new \in Table
    BY <2>1, ScheduleRows, MovedRows
  <2>3. Live' = Live /\ \A t \in Live : new[t].pred = task[t].pred
    BY MoveKeepsLive, SessionsAssumption
  <2>4. /\ Ids(Schedule) = Live /\ \A t \in Live : Schedule[t] = task[t]
        /\ Ids(Schedule)' = Live /\ \A t \in Live : Schedule'[t] = new[t]
    <3>1. Ids(Schedule) = Live /\ \A t \in Live : Schedule[t] = task[t]
      BY <2>1, ScheduleRows
    <3>2. (task \in Table => Ids(Schedule) = Live /\ \A t \in Live : Schedule[t] = task[t])'
      BY RowsAlways, PTL
    <3> QED BY <2>1, <2>2, <2>3, <3>1, <3>2
  <2>5. ASSUME NEW t \in Live
        PROVE  new[t].lag = IF new[t].pred \in Live
                            THEN LagBetween(new[new[t].pred].end, new[t].start) ELSE 0
    <3>1. task[t].lag = LagBehind(Schedule, task[t].pred, task[t].start)
      BY DEF LagAgrees
    <3>2. CASE task[t].pred # NoTask
      <4>1. task[t].pred \in Live
        BY <2>1, <2>2, <3>2, PredOf
      <4>2. task[t].lag = LagBetween(task[task[t].pred].end, task[t].start)
        BY <2>4, <3>1, <4>1 DEF LagBehind
      <4>3. new[t].lag = LagBetween(new[task[t].pred].end, new[t].start)
        BY <2>1, <2>2, <3>2, <4>2, LagKept
      <4> QED BY <2>3, <4>1, <4>3
    <3>3. CASE task[t].pred = NoTask
      <4>1. NoTask \notin Live
        BY NoTaskAssumption DEF Live
      <4>2. task[t].lag = 0
        BY <2>4, <3>1, <3>3, <4>1 DEF LagBehind
      <4>3. root \in Ids(rows) /\ rows[t] = task[t]
        BY <2>1, <2>2, PredOf
      <4>4. t \notin Holds(rows, root, span)
        BY <2>2, <2>1, <3>3, <4>3, NoTaskAssumption, PlanWhere DEF Ids
      <4>5. new[t].lag = 0
        <5>1. CASE t = root
          <6>1. new[t].lag = LagBehind(rows, NoTask, span.start)
            BY <2>1, <2>2, <3>3, <5>1, MovedDates
          <6> QED BY <2>4, <4>1, <6>1 DEF LagBehind
        <5>2. CASE t # root
          BY <2>1, <2>2, <4>2, <4>4, <5>2, MovedDates
        <5> QED BY <5>1, <5>2
      <4> QED BY <2>3, <3>3, <4>1, <4>5
    <3> QED BY <3>2, <3>3
  <2>6. ASSUME NEW t \in Live PROVE LagAgrees(t)'
    <3>1. new[t].pred \in Live => Schedule'[new[t].pred] = new[new[t].pred]
      BY <2>4
    <3> QED BY <2>4, <2>5, <3>1 DEF LagAgrees, LagBehind
  <2> QED BY <2>3, <2>6
<1> QED BY <1>1, Invariance, PTL DEF Spec, MovesRestateLags
=============================================================================
