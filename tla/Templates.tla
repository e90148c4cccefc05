------------------------------ MODULE Templates ------------------------------
(***************************************************************************)
(* The tasks of one schedule template, the requests that edit them and the *)
(* plan an import makes of the ones ticked.  An edit is one transaction at *)
(* READ COMMITTED that reads, checks and then writes by id; no lock and no *)
(* trigger stands behind the checks, as they do for a job's own schedule,  *)
(* so two edits may leave a loop, or a task that waits on a voided one.    *)
(* What an import does with such a template is part of the question.       *)
(*                                                                         *)
(* Days are integers and a task's duration is a constant of it.  Names,    *)
(* trades, conditions and the template's own row are left out.             *)
(***************************************************************************)
EXTENDS Integers, FiniteSets

CONSTANTS Tasks,    \* the identities of the tasks ever created: a bound
          NoTask,   \* a null predecessor
          Editors,  \* the requests in flight at once
          Duration, \* durationDaysOf, for each task
          Lags,     \* the lags somebody enters
          Start     \* the day an import is given

ASSUME TemplatesAssumption ==
  /\ IsFiniteSet(Tasks) /\ NoTask \notin Tasks
  /\ Duration \in [Tasks -> Nat \ {0}] /\ Lags \subseteq Int /\ Start \in Int

VARIABLES template, \* the schedule_template_tasks of one template
          editor    \* what each request has read and is about to write

vars == <<template, editor>>

Links == Tasks \cup {NoTask}
Row == [record : {"unused", "active", "void"}, pred : Links, lag : Int]

Unused == [record |-> "unused", pred |-> NoTask, lag |-> 0]
EditorIdle == [op |-> "idle"]

Init ==
  /\ template = [t \in Tasks |-> Unused]
  /\ editor = [e \in Editors |-> EditorIdle]

\* The rows an import and the check for cycles read.
Live == {t \in Tasks : template[t].record = "active"}

-----------------------------------------------------------------------------
\* Editing a template.

Asks(e, request) == editor' = [editor EXCEPT ![e] = request]

\* The row and the task it is to wait on are read, and are not void.
CreateRead(e, pred) ==
  /\ editor[e].op = "idle"
  /\ pred \in Live \cup {NoTask}
  /\ Asks(e, [op |-> "create", pred |-> pred])
  /\ UNCHANGED template

\* Mutant: the lag of the form is kept when it waits on nothing.
EnteredAnyLag(pred) == [record : {"active"}, pred : {pred}, lag : Lags]

\* A lag needs a task to lag behind.
Entered(pred) == [record : {"active"}, pred : {pred}, lag : IF pred = NoTask THEN {0} ELSE Lags]

Create(e) ==
  /\ editor[e].op = "create"
  /\ \E t \in Tasks, row \in Entered(editor[e].pred) :
       template[t] = Unused /\ template' = [template EXCEPT ![t] = row]
  /\ Asks(e, EditorIdle)

UpdateRead(e, t, pred) ==
  /\ editor[e].op = "idle"
  /\ t \in Live /\ pred \in Live \cup {NoTask}
  /\ Asks(e, [op |-> "update", id |-> t, pred |-> pred])
  /\ UNCHANGED template

\* findPredecessorCycle: the walk from pred comes to t, or round to itself.
ClosesLoop(t, pred) ==
  LET Walk[seen \in SUBSET Tasks] ==
        [cursor \in Links |->
           IF cursor \notin Live \/ cursor \in seen \cup {t} THEN cursor \in Live
           ELSE Walk[seen \cup {cursor}][template[cursor].pred]] IN
  Walk[{}][pred]

UpdateCheck(e) ==
  /\ editor[e].op = "update"
  /\ ~ClosesLoop(editor[e].id, editor[e].pred)
  /\ Asks(e, [editor[e] EXCEPT !.op = "write"])
  /\ UNCHANGED template

\* Every column the form has is written; the record's status is not one of them.
Update(e) ==
  /\ editor[e].op = "write"
  /\ \E row \in Entered(editor[e].pred) :
       template' = [template EXCEPT ![editor[e].id] = [row EXCEPT !.record = template[editor[e].id].record]]
  /\ Asks(e, EditorIdle)

VoidRead(e, t) ==
  /\ editor[e].op = "idle"
  /\ t \in Live /\ \A u \in Live : template[u].pred # t
  /\ Asks(e, [op |-> "void", id |-> t])
  /\ UNCHANGED template

Void(e) ==
  /\ editor[e].op = "void"
  /\ template' = [template EXCEPT ![editor[e].id].record = "void"]
  /\ Asks(e, EditorIdle)

\* The request is refused, or lost.
GiveUp(e) ==
  /\ editor[e].op # "idle"
  /\ Asks(e, EditorIdle)
  /\ UNCHANGED template

Edit(e) ==
  \/ \E pred \in Links : CreateRead(e, pred)
  \/ \E t \in Tasks, pred \in Links : UpdateRead(e, t, pred)
  \/ \E t \in Tasks : VoidRead(e, t)
  \/ UpdateCheck(e) \/ Create(e) \/ Update(e) \/ Void(e) \/ GiveUp(e)

Next == \E e \in Editors : Edit(e)

Spec == Init /\ [][Next]_vars

-----------------------------------------------------------------------------
\* effectiveLink and planImport, as the code computes them.  A result is a set of
\* one, or empty where the code throws.

\* Mutant: a negative lag is carried past a dropped task.
LagCarried(t, relinked) == template[t].lag

\* A negative lag is not carried onto a task it was not planned against.
LagAcross(t, relinked) == IF relinked /\ template[t].lag < 0 THEN 0 ELSE template[t].lag

\* Mutant: a walk that does not remember where it has been stops as at a root.
LinkForgetful(t, ticked) ==
  LET Walk[seen \in SUBSET Tasks] ==
        [cursor \in Links |->
           IF cursor \in seen \/ cursor \notin Live THEN {[pred |-> NoTask, lag |-> 0]}
           ELSE IF cursor \in ticked THEN {[pred |-> cursor, lag |-> LagAcross(t, seen # {t})]}
           ELSE Walk[seen \cup {cursor}][template[cursor].pred]] IN
  Walk[{t}][template[t].pred]

\* What a ticked task waits on: the first ticked task up its chain.
EffectiveLink(t, ticked) ==
  LET Walk[seen \in SUBSET Tasks] ==
        [cursor \in Links |->
           IF cursor \in seen THEN {}
           ELSE IF cursor \notin Live THEN {[pred |-> NoTask, lag |-> 0]}
           ELSE IF cursor \in ticked THEN {[pred |-> cursor, lag |-> LagAcross(t, seen # {t})]}
           ELSE Walk[seen \cup {cursor}][template[cursor].pred]] IN
  Walk[{t}][template[t].pred]

\* The row of a task by its link, once the rows it waits on are known.
Dated(t, link, rows) ==
  {[pred |-> link.pred, lag |-> link.lag, start |-> day, end |-> day + Duration[t] - 1] :
     day \in IF link.pred = NoTask THEN {Start} ELSE {row.end + link.lag + 1 : row \in rows}}

\* plan: a task's row, after that of the task it waits on; a call that comes back
\* to a task still being planned never returns.
PlanImport(ticked) ==
  LET Rows[calls \in SUBSET ticked] ==
        [t \in ticked |->
           IF t \in calls THEN {}
           ELSE UNION {Dated(t, link, IF link.pred = NoTask THEN {} ELSE Rows[calls \cup {t}][link.pred]) :
                         link \in EffectiveLink(t, ticked)}] IN
  Rows[{}]

Refused(ticked) == \E t \in ticked : PlanImport(ticked)[t] = {}

Imports == (SUBSET Live) \ {{}}

-----------------------------------------------------------------------------
(* Properties.                                                             *)

\* Types: rows are what the table can hold, and a request names rows that exist.
TypeOK ==
  /\ template \in [Tasks -> Row]
  /\ \A t \in Tasks : template[t].pred = NoTask => template[t].lag = 0
  /\ editor \in [Editors -> [op : {"create"}, pred : Links] \cup [op : {"void"}, id : Tasks]
                              \cup [op : {"update", "write"}, id : Tasks, pred : Links] \cup {EditorIdle}]
  /\ \A e \in Editors : editor[e].op \in {"update", "write", "void"} => template[editor[e].id] # Unused

\* The chain of t never comes to an end: t is in a set of live tasks each of which
\* waits on one of the set.
Endless(t) == \E S \in SUBSET Live : t \in S /\ \A u \in S : template[u].pred \in S

\* Edits that race can leave a loop in a template.  An import is refused exactly when
\* the chain of a ticked task runs into one, whichever tasks of the loop are ticked:
\* no plan is made of a loop, and a loop stops no import that does not meet it
\* (effectiveLink's seen, planImport's plan, which never comes back).
LoopsAreRefused ==
  \A ticked \in Imports : Refused(ticked) <=> \E t \in ticked : Endless(t)

\* u is up t's chain with none of the ticked in between: every set that holds what
\* t waits on, and what its live unticked tasks wait on, holds u.
Nearest(t, u, ticked) ==
  \A S \in SUBSET Links :
    template[t].pred \in S /\ (\A v \in (S \cap Live) \ ticked : template[v].pred \in S) => u \in S

\* Dropping tasks from an import keeps the order of the rest, whatever edits made of
\* the template: a task waits on the nearest ticked one up its chain and its lag is
\* the gap their dates show; across a dropped task it never starts before the other
\* ends; and a task with nobody ticked above it starts on the day given
\* (planImport, effectiveLink).
ImportKeepsTheOrder ==
  \A ticked \in Imports : ~Refused(ticked) =>
    \A t \in ticked : \A row \in PlanImport(ticked)[t] :
      /\ row.end - row.start + 1 = Duration[t]
      /\ IF row.pred = NoTask
         THEN row.start = Start /\ row.lag = 0 /\ \A u \in ticked : ~Nearest(t, u, ticked)
         ELSE /\ row.pred \in ticked /\ Nearest(t, row.pred, ticked)
              /\ \A before \in PlanImport(ticked)[row.pred] : row.start = before.end + row.lag + 1
              /\ row.pred = template[t].pred => row.lag = template[t].lag
              /\ row.pred # template[t].pred => row.lag \in {0, template[t].lag} /\ row.lag >= 0
=============================================================================
