------------------------------ MODULE Reminders ------------------------------
(***************************************************************************)
(* The reminders a company's rules raise about its quotes, projects and    *)
(* customers.  A job of its own evaluates the rules every hour, one        *)
(* transaction at READ COMMITTED whose every query sees what was committed *)
(* when it began; people meanwhile act on the reminders and on the rules,  *)
(* and the work the rules watch goes on.                                   *)
(*                                                                         *)
(* Days are integers, in the company's own zone.  What a reminder says,    *)
(* when it is due and until when it is snoozed are left out, and so are    *)
(* the reminders people write by hand, which no rule reads.                *)
(***************************************************************************)
EXTENDS Integers, FiniteSets, Functions

CONSTANTS Rules,      \* the rules there ever are
          NoRule,     \* of a reminder not yet raised
          Subjects,   \* the quotes, projects and customers
          Ids,        \* the reminders ever raised: a bound
          Evaluators, \* passes of the scheduler in flight at once
          Clerks,     \* requests of people in flight at once
          Watched,    \* the stage a rule about stages watches
          Offset,     \* offset_days, for each trigger
          MaxDay      \* bound on the days that pass

Quote == {"draft", "sent", "closed"}
Project == {"lead", "site_visit", "won"}
Customer == {"live", "idle"}
Triggers == {"quote_sent", "quote_expiring", "site_visit_scheduled",
             "stage_entered", "project_won", "no_activity"}

ASSUME RemindersAssumption ==
  /\ NoRule \notin Rules
  /\ MaxDay \in Nat \ {0} /\ Offset \in [Triggers -> Int]
  /\ Watched \in Project

VARIABLES day,       \* tenantToday
          world,     \* the stage of each subject, and a day: a sent quote's valid_until,
                     \* a visit's scheduled_start, a customer's last contact (0: none read)
          rule,      \* the reminder_rules table
          reminder,  \* the reminders table
          evaluator, \* what each pass has read
          clerk      \* what each request has read

vars == <<day, world, rule, reminder, evaluator, clerk>>

Days == 0..MaxDay

\* A rule is unwritten, one of those that ship and are not yet seeded, or a row.
Rule == [record : {"unused", "shipped", "active", "void"}, trigger : Triggers, isActive : BOOLEAN]

\* completed: completed_at is set.
Reminder == [record : {"unused", "active", "void"}, status : {"open", "done", "dismissed"},
             completed : BOOLEAN, rule : Rules \cup {NoRule}, subject : Subjects]

Unused(i) == reminder[i].record = "unused"
Keys == Rules \X Subjects
KeyOf(i) == <<reminder[i].rule, reminder[i].subject>>
IsOpen(i) == reminder[i].record = "active" /\ reminder[i].status = "open"
OpenKeys == {KeyOf(i) : i \in {j \in Ids : IsOpen(j)}}

\* today, rules and drafts: what a pass has read so far; undisturbed: the work, the
\* rules and the day have not moved since it began (history).
EvaluatorIdle == [op |-> "idle"]
ClerkIdle == [op |-> "idle"]

Init ==
  /\ day = 1
  /\ world \in [Subjects -> [stage : {"draft", "lead"}, on : {0}] \cup [stage : {"live"}, on : 0..1]]
  /\ rule \in [Rules -> [record : {"unused", "shipped"}, trigger : Triggers, isActive : {TRUE}]]
  /\ \A r \in Rules : rule[r].record = "shipped" => rule[r].trigger # "stage_entered"
  /\ \E s \in Subjects : reminder = [i \in Ids |->
       [record |-> "unused", status |-> "open", completed |-> FALSE, rule |-> NoRule, subject |-> s]]
  /\ evaluator = [e \in Evaluators |-> EvaluatorIdle]
  /\ clerk = [c \in Clerks |-> ClerkIdle]

-----------------------------------------------------------------------------
\* The work the rules watch, and time.

Disturbed ==
  evaluator' = [e \in Evaluators |->
    IF evaluator[e].op = "idle" THEN EvaluatorIdle ELSE [evaluator[e] EXCEPT !.undisturbed = FALSE]]

Becomes(s, stage, on) ==
  /\ world' = [world EXCEPT ![s] = [stage |-> stage, on |-> on]]
  /\ world' # world

\* A quote is sent with a day it is valid until, and accepted, declined or void.
Send(s) == world[s].stage = "draft" /\ \E until \in Days : Becomes(s, "sent", until)
Close(s) == world[s].stage = "sent" /\ Becomes(s, "closed", 0)

\* A project enters a stage; a visit is set, or moved, to a day or to none.
Enter(s, stage) ==
  world[s].stage \in Project /\ stage # "site_visit" /\ Becomes(s, stage, 0)
Visit(s, on) == world[s].stage \in Project /\ Becomes(s, "site_visit", on)

\* A customer is spoken to; the last open job ends, or there is one again.
Contact(s) == world[s].stage \in Customer /\ Becomes(s, world[s].stage, day)
Employ(s, stage) == world[s].stage \in Customer /\ Becomes(s, stage, world[s].on)

Work(s) ==
  /\ \/ Send(s) \/ Close(s)
     \/ \E stage \in Project : Enter(s, stage)
     \/ \E on \in Days : Visit(s, on)
     \/ Contact(s)
     \/ \E stage \in Customer : Employ(s, stage)
  /\ Disturbed
  /\ UNCHANGED <<day, rule, reminder, clerk>>

Tick ==
  /\ day < MaxDay
  /\ day' = day + 1
  /\ Disturbed
  /\ UNCHANGED <<world, rule, reminder, clerk>>

-----------------------------------------------------------------------------
\* gatherFacts and evaluateRules.

\* Mutant: a quote that has expired is still about to.
FactsEver(s, today) ==
  CASE world[s].stage = "sent" -> {"quote_sent", "quote_expiring"}
    [] world[s].stage \in Project ->
         {t \in {"site_visit_scheduled"} : world[s].stage = "site_visit" /\ world[s].on >= today}
         \cup {t \in {"stage_entered"} : world[s].stage = Watched}
         \cup {t \in {"project_won"} : world[s].stage = "won"}
    [] world[s].stage = "live" -> {"no_activity"}
    [] OTHER -> {}

\* What could trigger a rule.
Facts(s, today) ==
  CASE world[s].stage = "sent" ->
         {"quote_sent"} \cup {t \in {"quote_expiring"} : world[s].on >= today}
    [] world[s].stage \in Project ->
         {t \in {"site_visit_scheduled"} : world[s].stage = "site_visit" /\ world[s].on >= today}
         \cup {t \in {"stage_entered"} : world[s].stage = Watched}
         \cup {t \in {"project_won"} : world[s].stage = "won"}
    [] world[s].stage = "live" -> {"no_activity"}
    [] OTHER -> {}

\* Mutant: a retrospective rule fires on its day or never.
ArrivedToday(s, trigger, today) ==
  trigger = "no_activity" => world[s].on + Offset[trigger] = today

\* A retrospective trigger says something about the past, and waits for its day.
Arrived(s, trigger, today) ==
  trigger = "no_activity" => world[s].on + Offset[trigger] <= today

\* loadRules, after seedDefaultReminderRules in the same transaction: a pass that
\* seeds holds up the others.
Fires(r) == rule[r].record \in {"active", "shipped"} /\ rule[r].isActive

BeginEvaluation(e) ==
  /\ evaluator[e].op = "idle"
  /\ \A r \in Rules, f \in Evaluators : rule[r].record = "shipped" => evaluator[f].op = "idle"
  /\ evaluator' = [evaluator EXCEPT ![e] =
       [op |-> "facts", today |-> day, rules |-> {r \in Rules : Fires(r)}, drafts |-> {},
        undisturbed |-> TRUE]]
  /\ UNCHANGED <<day, world, rule, reminder, clerk>>

\* gatherFacts and evaluateRules; what was read is then forgotten.
ReadFacts(e) ==
  LET pass == evaluator[e]
      drafts == {key \in pass.rules \X Subjects :
                   /\ rule[key[1]].trigger \in Facts(key[2], pass.today)
                   /\ Arrived(key[2], rule[key[1]].trigger, pass.today)} IN
  /\ pass.op = "facts"
  /\ evaluator' = [evaluator EXCEPT ![e] =
       [pass EXCEPT !.op = "open", !.today = 0, !.rules = {}, !.drafts = drafts]]
  /\ UNCHANGED <<day, world, rule, reminder, clerk>>

\* loadOpenKeys, and the drafts that are left.
ReadOpen(e) ==
  /\ evaluator[e].op = "open"
  /\ evaluator' = [evaluator EXCEPT ![e].op = "insert", ![e].drafts = @ \ OpenKeys]
  /\ UNCHANGED <<day, world, rule, reminder, clerk>>

\* Mutant: an index that is not unique.
CollidesNever(key) == FALSE

\* reminders_one_open_per_rule.
Collides(key) == key \in OpenKeys

\* The drafts the index lets in are inserted, and the rules seeded.
Insert(e) ==
  LET new == {key \in evaluator[e].drafts : ~Collides(key)} IN
  /\ evaluator[e].op = "insert"
  /\ \E place \in Injection(new, {i \in Ids : Unused(i)}) :
       reminder' = [i \in Ids |->
         IF \E key \in new : place[key] = i
         THEN LET key == CHOOSE key \in new : place[key] = i IN
              [record |-> "active", status |-> "open", completed |-> FALSE,
               rule |-> key[1], subject |-> key[2]]
         ELSE reminder[i]]
  /\ rule' = [r \in Rules |->
       IF rule[r].record = "shipped" THEN [rule[r] EXCEPT !.record = "active"] ELSE rule[r]]
  /\ evaluator' = [evaluator EXCEPT ![e] = EvaluatorIdle]
  /\ UNCHANGED <<day, world, clerk>>

\* The pass fails; the next hour tries again.
Fail(e) ==
  /\ evaluator[e].op # "idle"
  /\ evaluator' = [evaluator EXCEPT ![e] = EvaluatorIdle]
  /\ UNCHANGED <<day, world, rule, reminder, clerk>>

-----------------------------------------------------------------------------
\* What people do to a reminder: its row is read and judged, then written by id.

Asks(c, request) == clerk' = [clerk EXCEPT ![c] = request]

\* assertActionable; a reminder may be voided once it is closed.
Read(c, op, i) ==
  /\ clerk[c].op = "idle"
  /\ reminder[i].record = "active"
  /\ op # "void" => reminder[i].status = "open"
  /\ Asks(c, [op |-> op, id |-> i])
  /\ UNCHANGED <<day, world, rule, reminder, evaluator>>

Written(row, op) ==
  CASE op = "complete" -> [row EXCEPT !.status = "done", !.completed = TRUE]
    [] op = "dismiss" -> [row EXCEPT !.status = "dismissed"]
    [] op = "void" -> [row EXCEPT !.record = "void"]

\* Mutant: no such constraint.
CompletedOrNot(row) == TRUE

\* The constraint reminders_completed_iff_done.
CompletedIffDone(row) == row.completed <=> row.status = "done"

WriteReminder(c) ==
  /\ clerk[c].op \in {"complete", "dismiss", "void"}
  /\ LET row == Written(reminder[clerk[c].id], clerk[c].op) IN
       /\ CompletedIffDone(row)
       /\ reminder' = [reminder EXCEPT ![clerk[c].id] = row]
  /\ Asks(c, ClerkIdle)
  /\ UNCHANGED <<day, world, rule, evaluator>>

-----------------------------------------------------------------------------
\* What people do to a rule.

Ruled(r, row) ==
  /\ rule' = [rule EXCEPT ![r] = row]
  /\ Disturbed
  /\ UNCHANGED <<day, world, reminder>>

CreateRule(r) ==
  /\ rule[r].record = "unused"
  /\ Ruled(r, [rule[r] EXCEPT !.record = "active"])
  /\ UNCHANGED clerk

SetActive(r) ==
  /\ rule[r].record \in {"active", "void"}
  /\ Ruled(r, [rule[r] EXCEPT !.isActive = ~@])
  /\ UNCHANGED clerk

\* Refused for a rule that has produced a reminder, whatever became of it.
Produced(r) == {i \in Ids : ~Unused(i) /\ reminder[i].rule = r}

VoidRuleRead(c, r) ==
  /\ clerk[c].op = "idle"
  /\ rule[r].record \in {"active", "void"} /\ Produced(r) = {}
  /\ Asks(c, [op |-> "voidRule", id |-> r])
  /\ UNCHANGED <<day, world, rule, reminder, evaluator>>

VoidRule(c) ==
  /\ clerk[c].op = "voidRule"
  /\ Ruled(clerk[c].id, [rule[clerk[c].id] EXCEPT !.record = "void"])
  /\ Asks(c, ClerkIdle)

\* The request, or its connection, ends before it writes.
GiveUp(c) ==
  /\ clerk[c].op # "idle"
  /\ Asks(c, ClerkIdle)
  /\ UNCHANGED <<day, world, rule, reminder, evaluator>>

-----------------------------------------------------------------------------
Evaluate(e) == BeginEvaluation(e) \/ ReadFacts(e) \/ ReadOpen(e) \/ Insert(e)

People ==
  \/ \E c \in Clerks, op \in {"complete", "dismiss", "void"}, i \in Ids : Read(c, op, i)
  \/ \E c \in Clerks : WriteReminder(c) \/ VoidRule(c) \/ GiveUp(c)
  \/ \E r \in Rules : CreateRule(r) \/ SetActive(r)
  \/ \E c \in Clerks, r \in Rules : VoidRuleRead(c, r)

Next ==
  \/ \E e \in Evaluators : Evaluate(e) \/ Fail(e)
  \/ People
  \/ \E s \in Subjects : Work(s)
  \/ Tick

\* The loop starts a pass every hour, whatever became of the last; that not every
\* one of them fails at the same query is assumed.
Fairness ==
  \A e \in Evaluators :
    /\ WF_vars(BeginEvaluation(e))
    /\ SF_vars(ReadFacts(e)) /\ SF_vars(ReadOpen(e)) /\ SF_vars(Insert(e))

Spec == Init /\ [][Next]_vars /\ Fairness

-----------------------------------------------------------------------------
(* Properties.                                                             *)

\* Types: rows are what the tables can hold, and a pass drafts keys of its rules.
TypeOK ==
  /\ day \in 1..MaxDay
  /\ world \in [Subjects -> [stage : Quote \cup Project \cup Customer, on : Days]]
  /\ rule \in [Rules -> Rule]
  /\ reminder \in [Ids -> Reminder] /\ \A i \in Ids : reminder[i].completed <=> reminder[i].status = "done"
  /\ evaluator \in [Evaluators ->
       [op : {"facts", "open", "insert"}, today : Days, rules : SUBSET Rules,
        drafts : SUBSET Keys, undisturbed : BOOLEAN] \cup {EvaluatorIdle}]
  /\ clerk \in [Clerks -> [op : {"complete", "dismiss", "void"}, id : Ids]
                            \cup [op : {"voidRule"}, id : Rules] \cup {ClerkIdle}]

\* A rule has at most one open reminder about a subject, however many passes
\* overlap and whatever is closed or voided between what they read and what they
\* insert (loadOpenKeys, insertDrafts, reminders_one_open_per_rule).
OneOpenPerRule ==
  \A i, j \in Ids :
    IsOpen(i) /\ IsOpen(j) /\ KeyOf(i) = KeyOf(j) => i = j

\* What was done stays done: a request that read the reminder open cannot dismiss it
\* over somebody's completion (dismissReminder, reminders_completed_iff_done).
DoneStaysDone ==
  [][\A i \in Ids : reminder[i].status = "done" => reminder'[i].status = "done"]_vars

\* What a rule is there to say about a subject today.
Owed(r, s) ==
  /\ rule[r].record = "active" /\ rule[r].isActive
  /\ CASE rule[r].trigger = "quote_sent" -> world[s].stage = "sent"
       [] rule[r].trigger = "quote_expiring" -> world[s].stage = "sent" /\ world[s].on >= day
       [] rule[r].trigger = "site_visit_scheduled" -> world[s].stage = "site_visit" /\ world[s].on >= day
       [] rule[r].trigger = "stage_entered" -> world[s].stage = Watched
       [] rule[r].trigger = "project_won" -> world[s].stage = "won"
       [] rule[r].trigger = "no_activity" ->
            world[s].stage = "live" /\ world[s].on + Offset["no_activity"] <= day

\* A pass raises nothing that is false: nothing about a quote that has expired or a
\* silence still short, unless the work, the rules or the day moved while it ran
\* (gatherFacts, evaluateRules).
RaisedWhenTrue ==
  [][\A e \in Evaluators : Insert(e) /\ evaluator[e].undisturbed =>
       \A i \in Ids : Unused(i) /\ ~Unused(i)' =>
         Owed(reminder[i].rule, reminder[i].subject)']_vars

\* What is owed is said in the end: passes that fail, that read what is out of date
\* or that miss the day, and reminders closed meanwhile, only put it off.
Said ==
  \A r \in Rules, s \in Subjects :
    Owed(r, s) ~> \/ <<r, s>> \in OpenKeys \/ ~Owed(r, s)
                  \/ Cardinality({i \in Ids : Unused(i)}) < Cardinality(Keys)

-----------------------------------------------------------------------------
(* What the repository says and the code does not keep.                    *)

\* "the facts, the open keys and the insert see one state of the database": the
\* "reminder for a job already won" does not appear, for a pass follows up only
\* quotes that are still out when it does (reminders/repository.ts:431).
PassSeesOneState ==
  [][\A e \in Evaluators, i \in Ids :
       Insert(e) /\ Unused(i) /\ ~Unused(i)' /\ rule[reminder'[i].rule].trigger = "quote_sent"
         => world[reminder'[i].subject].stage = "sent"]_vars

\* "Counted inside the writing transaction": a void rule is one that never produced a
\* reminder (reminder-rules/actions.ts:341).
VoidRuleSaidNothing == \A r \in Rules : rule[r].record = "void" => Produced(r) = {}
=============================================================================
