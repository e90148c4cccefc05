--------------------------- MODULE RemindersProofs ---------------------------
(***************************************************************************)
(* Proofs about Reminders for any rules, subjects, passes, requests and    *)
(* offsets: a rule has one open reminder about a subject, what was done    *)
(* stays done, and a pass raises nothing that was false while it ran.      *)
(*                                                                         *)
(* The last needs what a pass still knows between its reads and its        *)
(* insert: as long as nothing has disturbed it, what it read is so now.    *)
(***************************************************************************)
EXTENDS Reminders, TLAPS

\* What a rule would fire for now.
Due(r, s) ==
  Fires(r) /\ rule[r].trigger \in Facts(s, day) /\ Arrived(s, rule[r].trigger, day)

\* What an undisturbed pass has read is so now.
CurrentOK(e) ==
  evaluator[e].op # "idle" /\ evaluator[e].undisturbed =>
    /\ evaluator[e].op = "facts" =>
         evaluator[e].today = day /\ evaluator[e].rules = {r \in Rules : Fires(r)}
    /\ evaluator[e].op \in {"open", "insert"} => \A key \in evaluator[e].drafts : Due(key[1], key[2])

RemindersInv == TypeOK /\ OneOpenPerRule /\ \A e \in Evaluators : CurrentOK(e)

Pass == [op : {"facts", "open", "insert"}, today : Days, rules : SUBSET Rules,
         drafts : SUBSET Keys, undisturbed : BOOLEAN]
Asked == [op : {"complete", "dismiss", "void"}, id : Ids] \cup [op : {"voidRule"}, id : Rules]

\* The invariant rests on nothing but the reminders, where OneOpenPerRule does.
LEMMA SameReminders ==
  ASSUME OneOpenPerRule, UNCHANGED reminder
  PROVE  OneOpenPerRule'
BY DEF OneOpenPerRule, IsOpen, KeyOf

\* A disturbed pass is still a pass, and nothing is asked of it.
LEMMA DisturbedOK ==
  ASSUME TypeOK, Disturbed
  PROVE  /\ evaluator' \in [Evaluators -> Pass \cup {EvaluatorIdle}]
         /\ (\A e \in Evaluators : CurrentOK(e))'
<1>1. ASSUME NEW e \in Evaluators
      PROVE  /\ evaluator'[e] \in Pass \cup {EvaluatorIdle}
             /\ evaluator'[e].op # "idle" => evaluator'[e].undisturbed = FALSE
  <2>1. CASE evaluator[e].op = "idle"
    BY <2>1 DEF TypeOK, Disturbed, EvaluatorIdle
  <2>2. CASE evaluator[e].op # "idle"
    <3>1. evaluator[e] \in Pass
      BY <2>2 DEF TypeOK, Pass, EvaluatorIdle
    <3>2. evaluator'[e] = [evaluator[e] EXCEPT !.undisturbed = FALSE]
      BY <2>2 DEF Disturbed
    <3> QED BY <3>1, <3>2 DEF Pass
  <2> QED BY <2>1, <2>2
<1>2. evaluator' = [e \in Evaluators |-> evaluator'[e]]
  BY DEF Disturbed
<1>3. evaluator' \in [Evaluators -> Pass \cup {EvaluatorIdle}]
  BY <1>1, <1>2
<1> QED BY <1>1, <1>3 DEF CurrentOK

LEMMA WorkKeeps ==
  ASSUME RemindersInv, NEW s \in Subjects, Work(s)
  PROVE  RemindersInv'
<1> USE RemindersAssumption
<1>1. day \in Days /\ 0 \in Days
  BY DEF RemindersInv, TypeOK, Days
<1>2. ASSUME NEW stage \in Quote \cup Project \cup Customer, NEW on \in Days, Becomes(s, stage, on)
      PROVE  world' \in [Subjects -> [stage : Quote \cup Project \cup Customer, on : Days]]
  BY <1>2 DEF RemindersInv, TypeOK, Becomes
<1>3. world[s] \in [stage : Quote \cup Project \cup Customer, on : Days]
  BY DEF RemindersInv, TypeOK
<1>4. world' \in [Subjects -> [stage : Quote \cup Project \cup Customer, on : Days]]
  <2>1. CASE Send(s)
    BY <2>1, <1>2 DEF Send, Quote
  <2>2. CASE Close(s)
    BY <2>2, <1>1, <1>2 DEF Close, Quote
  <2>3. CASE \E stage \in Project : Enter(s, stage)
    BY <2>3, <1>1, <1>2 DEF Enter
  <2>4. CASE \E on \in Days : Visit(s, on)
    BY <2>4, <1>2 DEF Visit, Project
  <2>5. CASE Contact(s)
    BY <2>5, <1>1, <1>2, <1>3 DEF Contact
  <2>6. CASE \E stage \in Customer : Employ(s, stage)
    BY <2>6, <1>2, <1>3 DEF Employ
  <2> QED BY <2>1, <2>2, <2>3, <2>4, <2>5, <2>6 DEF Work
<1>5. evaluator' \in [Evaluators -> Pass \cup {EvaluatorIdle}] /\ (\A e \in Evaluators : CurrentOK(e))'
  BY DisturbedOK DEF RemindersInv, Work
<1>6. TypeOK'
  BY <1>4, <1>5 DEF RemindersInv, TypeOK, Work, Pass, Rule, Reminder
<1> QED BY <1>5, <1>6, SameReminders DEF RemindersInv, Work

LEMMA TickKeeps ==
  ASSUME RemindersInv, Tick
  PROVE  RemindersInv'
<1>1. evaluator' \in [Evaluators -> Pass \cup {EvaluatorIdle}] /\ (\A e \in Evaluators : CurrentOK(e))'
  BY DisturbedOK DEF RemindersInv, Tick
<1>2. day' \in 1..MaxDay
  BY RemindersAssumption DEF RemindersInv, TypeOK, Tick
<1>3. TypeOK'
  BY <1>1, <1>2 DEF RemindersInv, TypeOK, Tick, Pass, Days
<1> QED BY <1>1, <1>3, SameReminders DEF RemindersInv, Tick

-----------------------------------------------------------------------------
\* A pass.

\* A step of one pass that changes no table keeps everything once it keeps what the
\* pass knows.
LEMMA PassStep ==
  ASSUME NEW e \in Evaluators, NEW pass \in Pass \cup {EvaluatorIdle}, RemindersInv,
         evaluator' = [evaluator EXCEPT ![e] = pass],
         CurrentOK(e)',
         UNCHANGED <<day, world, rule, reminder, clerk>>
  PROVE  RemindersInv'
<1>1. TypeOK'
  BY DEF RemindersInv, TypeOK, Pass
<1>2. ASSUME NEW f \in Evaluators, f # e
      PROVE  CurrentOK(f)'
  <2>1. evaluator'[f] = evaluator[f]
    BY <1>2 DEF RemindersInv, TypeOK
  <2>2. CurrentOK(f)
    BY DEF RemindersInv
  <2> QED BY <2>1, <2>2 DEF CurrentOK, Due, Fires, Facts, Arrived
<1>3. (\A f \in Evaluators : CurrentOK(f))'
  BY <1>2
<1> QED BY <1>1, <1>3, SameReminders DEF RemindersInv

LEMMA BeginKeeps ==
  ASSUME RemindersInv, NEW e \in Evaluators, BeginEvaluation(e)
  PROVE  RemindersInv'
<1> DEFINE pass == [op |-> "facts", today |-> day, rules |-> {r \in Rules : Fires(r)}, drafts |-> {},
                    undisturbed |-> TRUE]
<1>1. pass \in Pass
  BY RemindersAssumption DEF RemindersInv, TypeOK, Pass, Days
<1>2. evaluator' = [evaluator EXCEPT ![e] = pass] /\ evaluator'[e] = pass
  BY DEF BeginEvaluation, RemindersInv, TypeOK
<1>3. CurrentOK(e)'
  BY <1>2 DEF BeginEvaluation, CurrentOK, Fires
<1> QED BY <1>1, <1>2, <1>3, PassStep DEF BeginEvaluation

LEMMA ReadFactsKeeps ==
  ASSUME RemindersInv, NEW e \in Evaluators, ReadFacts(e)
  PROVE  RemindersInv'
<1> DEFINE drafts == {key \in evaluator[e].rules \X Subjects :
                        /\ rule[key[1]].trigger \in Facts(key[2], evaluator[e].today)
                        /\ Arrived(key[2], rule[key[1]].trigger, evaluator[e].today)}
           pass == [evaluator[e] EXCEPT !.op = "open", !.today = 0, !.rules = {}, !.drafts = drafts]
<1>1. evaluator[e] \in Pass
  BY DEF ReadFacts, RemindersInv, TypeOK, Pass, EvaluatorIdle
<1>2. drafts \subseteq Keys
  BY <1>1 DEF Pass, Keys
<1>3. pass \in Pass
  <2> HIDE DEF drafts
  <2>1. 0 \in Days
    BY RemindersAssumption DEF Days
  <2> QED BY <1>1, <1>2, <2>1 DEF Pass
<1>4. evaluator' = [evaluator EXCEPT ![e] = pass] /\ evaluator'[e] = pass
  BY DEF ReadFacts, RemindersInv, TypeOK
<1>5. pass.op = "open" /\ pass.drafts = drafts /\ pass.undisturbed = evaluator[e].undisturbed
  BY <1>1 DEF Pass
<1>6. evaluator[e].undisturbed => \A key \in drafts : Due(key[1], key[2])
  BY <1>1 DEF ReadFacts, RemindersInv, CurrentOK, Due
<1>7. UNCHANGED <<day, world, rule, reminder, clerk>>
  BY DEF ReadFacts
<1>8. CurrentOK(e)'
  <2> HIDE DEF drafts, pass
  <2> QED BY <1>4, <1>5, <1>6, <1>7 DEF CurrentOK, Due, Fires, Facts, Arrived
<1> HIDE DEF pass
<1> QED BY <1>3, <1>4, <1>7, <1>8, PassStep

LEMMA ReadOpenKeeps ==
  ASSUME RemindersInv, NEW e \in Evaluators, ReadOpen(e)
  PROVE  RemindersInv'
<1> DEFINE pass == [evaluator[e] EXCEPT !.op = "insert", !.drafts = evaluator[e].drafts \ OpenKeys]
<1>1. evaluator[e] \in Pass
  BY DEF ReadOpen, RemindersInv, TypeOK, Pass, EvaluatorIdle
<1>2. pass \in Pass
  BY <1>1 DEF Pass
<1>3. evaluator' = [evaluator EXCEPT ![e] = pass] /\ evaluator'[e] = pass
  BY <1>1 DEF ReadOpen, RemindersInv, TypeOK
<1>4. /\ pass.op = "insert" /\ pass.drafts \subseteq evaluator[e].drafts
      /\ pass.undisturbed = evaluator[e].undisturbed
  BY <1>1 DEF Pass
<1>5. evaluator[e].undisturbed => \A key \in evaluator[e].drafts : Due(key[1], key[2])
  BY <1>1 DEF ReadOpen, RemindersInv, CurrentOK
<1>6. UNCHANGED <<day, world, rule, reminder, clerk>>
  BY DEF ReadOpen
<1>7. CurrentOK(e)'
  <2> HIDE DEF pass
  <2> QED BY <1>3, <1>4, <1>5, <1>6 DEF CurrentOK, Due, Fires, Facts, Arrived
<1> HIDE DEF pass
<1> QED BY <1>2, <1>3, <1>6, <1>7, PassStep

LEMMA FailKeeps ==
  ASSUME RemindersInv, NEW e \in Evaluators, Fail(e)
  PROVE  RemindersInv'
<1>1. evaluator' = [evaluator EXCEPT ![e] = EvaluatorIdle] /\ evaluator'[e] = EvaluatorIdle
  BY DEF Fail, RemindersInv, TypeOK
<1>2. CurrentOK(e)'
  BY <1>1 DEF CurrentOK, EvaluatorIdle
<1> QED BY <1>1, <1>2, PassStep DEF Fail

Raised(key) == [record |-> "active", status |-> "open", completed |-> FALSE,
                rule |-> key[1], subject |-> key[2]]

\* An insert leaves a row as it is, or fills an unused one with a draft that is not
\* open, each draft in one row.
LEMMA InsertWrites ==
  ASSUME TypeOK, NEW e \in Evaluators, Insert(e)
  PROVE  \E place : \A i \in Ids :
           \/ reminder'[i] = reminder[i]
           \/ \E key \in evaluator[e].drafts \ OpenKeys :
                Unused(i) /\ place[key] = i /\ reminder'[i] = Raised(key)
<1> DEFINE new == {key \in evaluator[e].drafts : ~Collides(key)}
           free == {i \in Ids : Unused(i)}
<1>1. PICK place \in Injection(new, free) :
        reminder' = [i \in Ids |->
          IF \E key \in new : place[key] = i
          THEN LET key == CHOOSE key \in new : place[key] = i IN
               [record |-> "active", status |-> "open", completed |-> FALSE,
                rule |-> key[1], subject |-> key[2]]
          ELSE reminder[i]]
  BY DEF Insert
<1>2. place \in [new -> free]
  BY DEF Injection
<1>3. new = evaluator[e].drafts \ OpenKeys
  BY DEF Collides
<1> HIDE DEF new
<1>4. ASSUME NEW i \in Ids
      PROVE  \/ reminder'[i] = reminder[i]
             \/ \E key \in new : Unused(i) /\ place[key] = i /\ reminder'[i] = Raised(key)
  <2>1. CASE \E key \in new : place[key] = i
    <3> DEFINE key == CHOOSE k \in new : place[k] = i
    <3>1. key \in new /\ place[key] = i
      BY <2>1
    <3>2. reminder'[i] = Raised(key)
      BY <1>1, <2>1 DEF Raised
    <3>3. Unused(i)
      BY <1>2, <3>1
    <3> QED BY <3>1, <3>2, <3>3
  <2>2. CASE ~(\E key \in new : place[key] = i)
    BY <1>1, <2>2
  <2> QED BY <2>1, <2>2
<1> QED BY <1>3, <1>4

LEMMA InsertKeeps ==
  ASSUME RemindersInv, NEW e \in Evaluators, Insert(e)
  PROVE  RemindersInv'
<1>1. TypeOK
  BY DEF RemindersInv
<1>2. PICK place : \A i \in Ids :
        \/ reminder'[i] = reminder[i]
        \/ \E key \in evaluator[e].drafts \ OpenKeys :
             Unused(i) /\ place[key] = i /\ reminder'[i] = Raised(key)
  BY <1>1, InsertWrites
<1>3. evaluator[e].drafts \subseteq Keys
  BY <1>1 DEF Insert, TypeOK, EvaluatorIdle
<1>4. reminder' = [i \in Ids |-> reminder'[i]]
  BY DEF Insert
<1>5. ASSUME NEW i \in Ids
      PROVE  reminder'[i] \in Reminder /\ (reminder'[i].completed <=> reminder'[i].status = "done")
  <2>1. CASE reminder'[i] = reminder[i]
    BY <1>1, <2>1 DEF TypeOK
  <2>2. ASSUME NEW key \in evaluator[e].drafts, reminder'[i] = Raised(key)
        PROVE  reminder'[i] \in Reminder /\ (reminder'[i].completed <=> reminder'[i].status = "done")
    BY <1>3, <2>2 DEF Raised, Reminder, Keys
  <2> QED BY <1>2, <2>1, <2>2
<1>6. reminder' \in [Ids -> Reminder]
  BY <1>4, <1>5
<1>7. rule' \in [Rules -> Rule] /\ \A r \in Rules : (Fires(r) <=> Fires(r)') /\ rule'[r].trigger = rule[r].trigger
  <2>1. ASSUME NEW r \in Rules
        PROVE  rule'[r] \in Rule /\ (Fires(r) <=> Fires(r)') /\ rule'[r].trigger = rule[r].trigger
    <3>1. rule[r] \in Rule
      BY <1>1 DEF TypeOK
    <3>2. rule'[r] = IF rule[r].record = "shipped" THEN [rule[r] EXCEPT !.record = "active"] ELSE rule[r]
      BY DEF Insert
    <3> QED BY <3>1, <3>2 DEF Rule, Fires
  <2>2. rule' = [r \in Rules |-> rule'[r]]
    BY DEF Insert
  <2> QED BY <2>1, <2>2
<1>8. evaluator' \in [Evaluators -> Pass \cup {EvaluatorIdle}]
  BY <1>1 DEF Insert, TypeOK, Pass
<1>9. TypeOK'
  BY <1>1, <1>5, <1>6, <1>7, <1>8 DEF TypeOK, Insert, Pass
<1>10. OneOpenPerRule'
  <2> SUFFICES ASSUME NEW i \in Ids, NEW j \in Ids, IsOpen(i)', IsOpen(j)', KeyOf(i)' = KeyOf(j)'
               PROVE  i = j
    BY DEF OneOpenPerRule
  <2>1. ASSUME NEW k \in Ids, NEW key \in evaluator[e].drafts \ OpenKeys, reminder'[k] = Raised(key)
        PROVE  KeyOf(k)' = key /\ KeyOf(k)' \notin OpenKeys
    BY <1>3, <2>1 DEF KeyOf, Raised, Keys
  <2>2. ASSUME NEW k \in Ids, reminder'[k] = reminder[k], IsOpen(k)'
        PROVE  IsOpen(k) /\ KeyOf(k)' = KeyOf(k) /\ KeyOf(k) \in OpenKeys
    BY <2>2 DEF IsOpen, KeyOf, OpenKeys
  <2>3. CASE reminder'[i] = reminder[i] /\ reminder'[j] = reminder[j]
    BY <2>2, <2>3 DEF RemindersInv, OneOpenPerRule
  <2>4. CASE \/ reminder'[i] = reminder[i] /\ reminder'[j] # reminder[j]
             \/ reminder'[i] # reminder[i] /\ reminder'[j] = reminder[j]
    BY <1>2, <2>1, <2>2, <2>4
  <2>5. CASE reminder'[i] # reminder[i] /\ reminder'[j] # reminder[j]
    BY <1>2, <2>1, <2>5
  <2> QED BY <2>3, <2>4, <2>5
<1>11. ASSUME NEW f \in Evaluators
       PROVE  CurrentOK(f)'
  <2>1. CASE f = e
    BY <1>1, <2>1 DEF Insert, TypeOK, CurrentOK, EvaluatorIdle
  <2>2. CASE f # e
    <3>1. evaluator'[f] = evaluator[f] /\ CurrentOK(f)
      BY <1>1, <2>2 DEF Insert, TypeOK, RemindersInv
    <3>2. {r \in Rules : Fires(r)} = {r \in Rules : Fires(r)}'
      BY <1>7
    <3>3. UNCHANGED <<day, world>>
      BY DEF Insert
    <3>4. ASSUME NEW r \in Rules, NEW s, Due(r, s)
          PROVE  Due(r, s)'
      BY <1>7, <3>3, <3>4 DEF Due, Facts, Arrived
    <3>5. ASSUME evaluator[f].op # "idle"
          PROVE  \A key \in evaluator[f].drafts : key[1] \in Rules
      BY <1>1, <3>5 DEF TypeOK, EvaluatorIdle, Keys
    <3> QED BY <3>1, <3>2, <3>3, <3>4, <3>5 DEF CurrentOK
  <2> QED BY <2>1, <2>2
<1> QED BY <1>9, <1>10, <1>11 DEF RemindersInv

-----------------------------------------------------------------------------
\* What people do.

\* What a pass knows stays right while what the rules watch stands still.
LEMMA CurrentStays ==
  ASSUME UNCHANGED <<day, world, rule, evaluator>>, NEW e \in Evaluators, CurrentOK(e)
  PROVE  CurrentOK(e)'
<1>1. \A r : Fires(r)' <=> Fires(r)
  BY DEF Fires
<1>2. {r \in Rules : Fires(r)}' = {r \in Rules : Fires(r)}
  BY <1>1
<1>3. \A r, s : Arrived(s, rule[r].trigger, day)' <=> Arrived(s, rule[r].trigger, day)
  BY DEF Arrived
<1>4. \A s : Facts(s, day)' = Facts(s, day)
  BY DEF Facts
<1>5. \A r, s : Due(r, s)' <=> Due(r, s)
  BY <1>1, <1>3, <1>4 DEF Due
<1> QED BY <1>2, <1>5 DEF CurrentOK

\* A step that changes no pass, rule, subject or day, and reminders only by closing
\* them, keeps everything once the reminders and the requests keep their types.
LEMMA ReminderStep ==
  ASSUME RemindersInv,
         \A i \in Ids : IsOpen(i)' => IsOpen(i) /\ KeyOf(i)' = KeyOf(i),
         reminder' \in [Ids -> Reminder],
         \A i \in Ids : reminder'[i].completed <=> reminder'[i].status = "done",
         clerk' \in [Clerks -> Asked \cup {ClerkIdle}],
         UNCHANGED <<day, world, rule, evaluator>>
  PROVE  RemindersInv'
<1>1. TypeOK'
  BY DEF RemindersInv, TypeOK, Asked
<1>2. OneOpenPerRule'
  BY DEF RemindersInv, OneOpenPerRule
<1>3. (\A e \in Evaluators : CurrentOK(e))'
  BY CurrentStays DEF RemindersInv
<1> QED BY <1>1, <1>2, <1>3 DEF RemindersInv

LEMMA AsksKeeps ==
  ASSUME RemindersInv, NEW c \in Clerks, NEW request \in Asked \cup {ClerkIdle}, Asks(c, request),
         UNCHANGED <<day, world, rule, reminder, evaluator>>
  PROVE  RemindersInv'
<1>1. clerk' \in [Clerks -> Asked \cup {ClerkIdle}]
  BY DEF RemindersInv, TypeOK, Asks, Asked
<1>2. \A i \in Ids : IsOpen(i)' => IsOpen(i) /\ KeyOf(i)' = KeyOf(i)
  BY DEF IsOpen, KeyOf
<1>3. reminder' \in [Ids -> Reminder] /\ \A i \in Ids : reminder'[i].completed <=> reminder'[i].status = "done"
  BY DEF RemindersInv, TypeOK
<1> QED BY <1>1, <1>2, <1>3, ReminderStep

LEMMA WriteReminderKeeps ==
  ASSUME RemindersInv, NEW c \in Clerks, WriteReminder(c)
  PROVE  RemindersInv'
<1> DEFINE i == clerk[c].id
           op == clerk[c].op
           row == Written(reminder[i], op)
<1>1. TypeOK
  BY DEF RemindersInv
<1>2. i \in Ids /\ op \in {"complete", "dismiss", "void"}
  BY <1>1 DEF WriteReminder, TypeOK, ClerkIdle
<1>3. reminder[i] \in Reminder /\ (row.completed <=> row.status = "done")
  BY <1>1, <1>2 DEF WriteReminder, TypeOK, CompletedIffDone
<1>4. /\ row \in Reminder
      /\ row.record = "active" /\ row.status = "open" => FALSE
  BY <1>2, <1>3 DEF Written, Reminder
<1>5. reminder' = [reminder EXCEPT ![i] = row]
  BY DEF WriteReminder
<1> HIDE DEF row, i
<1>6. reminder' \in [Ids -> Reminder] /\ \A k \in Ids : reminder'[k].completed <=> reminder'[k].status = "done"
  BY <1>1, <1>2, <1>3, <1>4, <1>5 DEF TypeOK
<1>7. \A k \in Ids : IsOpen(k)' => IsOpen(k) /\ KeyOf(k)' = KeyOf(k)
  BY <1>1, <1>2, <1>4, <1>5 DEF TypeOK, IsOpen, KeyOf
<1>8. clerk' \in [Clerks -> Asked \cup {ClerkIdle}]
  BY <1>1 DEF WriteReminder, Asks, TypeOK, Asked
<1> QED BY <1>6, <1>7, <1>8, ReminderStep DEF WriteReminder

\* A rule is written: every pass is disturbed.
LEMMA RuledKeeps ==
  ASSUME RemindersInv, NEW r \in Rules, NEW row \in Rule, Ruled(r, row),
         clerk' \in [Clerks -> Asked \cup {ClerkIdle}]
  PROVE  RemindersInv'
<1>1. evaluator' \in [Evaluators -> Pass \cup {EvaluatorIdle}] /\ (\A e \in Evaluators : CurrentOK(e))'
  BY DisturbedOK DEF RemindersInv, Ruled
<1>2. rule' \in [Rules -> Rule]
  BY DEF RemindersInv, TypeOK, Ruled
<1>3. TypeOK'
  BY <1>1, <1>2 DEF RemindersInv, TypeOK, Ruled, Pass, Asked
<1> QED BY <1>1, <1>3, SameReminders DEF RemindersInv, Ruled

LEMMA RuleWritesKeep ==
  ASSUME RemindersInv,
         \/ \E r \in Rules : CreateRule(r) \/ SetActive(r)
         \/ \E c \in Clerks : VoidRule(c)
  PROVE  RemindersInv'
<1>1. clerk \in [Clerks -> Asked \cup {ClerkIdle}] /\ rule \in [Rules -> Rule]
  BY DEF RemindersInv, TypeOK, Asked
<1>2. ASSUME NEW r \in Rules
      PROVE  /\ [rule[r] EXCEPT !.record = "active"] \in Rule
             /\ [rule[r] EXCEPT !.record = "void"] \in Rule
             /\ [rule[r] EXCEPT !.isActive = ~@] \in Rule
  BY <1>1 DEF Rule
<1>3. ASSUME NEW r \in Rules, CreateRule(r) \/ SetActive(r)
      PROVE  RemindersInv'
  <2>1. clerk' \in [Clerks -> Asked \cup {ClerkIdle}]
    BY <1>1, <1>3 DEF CreateRule, SetActive
  <2> QED BY <1>2, <1>3, <2>1, RuledKeeps DEF CreateRule, SetActive
<1>4. ASSUME NEW c \in Clerks, VoidRule(c)
      PROVE  RemindersInv'
  <2>1. clerk[c].id \in Rules
    BY <1>1, <1>4 DEF VoidRule, Asked, ClerkIdle
  <2>2. clerk' \in [Clerks -> Asked \cup {ClerkIdle}]
    BY <1>1, <1>4 DEF VoidRule, Asks
  <2> QED BY <1>2, <1>4, <2>1, <2>2, RuledKeeps DEF VoidRule
<1> QED BY <1>3, <1>4

LEMMA PeopleKeep ==
  ASSUME RemindersInv, People
  PROVE  RemindersInv'
<1>1. ASSUME NEW c \in Clerks, NEW op \in {"complete", "dismiss", "void"}, NEW i \in Ids, Read(c, op, i)
      PROVE  RemindersInv'
  <2>1. [op |-> op, id |-> i] \in Asked
    BY DEF Asked
  <2> QED BY <1>1, <2>1, AsksKeeps DEF Read
<1>2. ASSUME NEW c \in Clerks, NEW r \in Rules, VoidRuleRead(c, r)
      PROVE  RemindersInv'
  <2>1. [op |-> "voidRule", id |-> r] \in Asked
    BY DEF Asked
  <2> QED BY <1>2, <2>1, AsksKeeps DEF VoidRuleRead
<1>3. ASSUME NEW c \in Clerks, GiveUp(c)
      PROVE  RemindersInv'
  BY <1>3, AsksKeeps DEF GiveUp
<1> QED BY <1>1, <1>2, <1>3, WriteReminderKeeps, RuleWritesKeep DEF People

-----------------------------------------------------------------------------
\* The theorems.

LEMMA InitOK == Init => RemindersInv
<1> SUFFICES ASSUME Init PROVE RemindersInv
  OBVIOUS
<1>1. day \in 1..MaxDay /\ 0 \in Days /\ 0..1 \subseteq Days
  BY RemindersAssumption DEF Init, Days
<1>2. world \in [Subjects -> [stage : Quote \cup Project \cup Customer, on : Days]]
  BY <1>1 DEF Init, Quote, Project, Customer
<1>3. rule \in [Rules -> Rule]
  BY DEF Init, Rule
<1>4. reminder \in [Ids -> Reminder] /\ \A i \in Ids : reminder[i].completed <=> reminder[i].status = "done"
  BY DEF Init, Reminder
<1>5. TypeOK
  BY <1>1, <1>2, <1>3, <1>4 DEF Init, TypeOK
<1>6. OneOpenPerRule
  BY DEF Init, OneOpenPerRule, IsOpen
<1>7. \A e \in Evaluators : CurrentOK(e)
  BY DEF Init, CurrentOK, EvaluatorIdle
<1> QED BY <1>5, <1>6, <1>7 DEF RemindersInv

LEMMA NextOK == RemindersInv /\ [Next]_vars => RemindersInv'
<1> SUFFICES ASSUME RemindersInv, [Next]_vars PROVE RemindersInv'
  OBVIOUS
<1>1. CASE UNCHANGED vars
  <2>1. TypeOK'
    BY <1>1 DEF vars, RemindersInv, TypeOK
  <2>2. (\A e \in Evaluators : CurrentOK(e))'
    BY <1>1, CurrentStays DEF vars, RemindersInv
  <2> QED BY <1>1, <2>1, <2>2, SameReminders DEF RemindersInv, vars
<1>2. CASE Next
  BY <1>2, BeginKeeps, ReadFactsKeeps, ReadOpenKeeps, InsertKeeps, FailKeeps, PeopleKeep, WorkKeeps, TickKeeps
  DEF Next, Evaluate
<1> QED BY <1>1, <1>2

\* The three hold together, over every step of every pass and request.
THEOREM RemindersInvariant == Spec => []RemindersInv
BY InitOK, NextOK, PTL DEF Spec

\* Every row, pass and request keeps its type, and completed_at is set on the rows
\* that are done and on no other (reminders_completed_iff_done).
THEOREM RemindersTypeCorrect == Spec => []TypeOK
<1>1. RemindersInv => TypeOK
  BY DEF RemindersInv
<1> QED BY <1>1, RemindersInvariant, PTL

\* However many passes overlap, a rule has one open reminder about a subject
\* (insertDrafts, reminders_one_open_per_rule).
THEOREM ARuleSpeaksOnce == Spec => []OneOpenPerRule
<1>1. RemindersInv => OneOpenPerRule
  BY DEF RemindersInv
<1> QED BY <1>1, RemindersInvariant, PTL

\* A row nobody has raised is open and nobody is asked about it.
RowsOK ==
  /\ \A i \in Ids : Unused(i) => reminder[i].status = "open"
  /\ \A c \in Clerks : clerk[c].op \in {"complete", "dismiss", "void"} => ~Unused(clerk[c].id)

LEMMA SameRows ==
  ASSUME RowsOK, UNCHANGED <<reminder, clerk>>
  PROVE  RowsOK'
BY DEF RowsOK, Unused

\* What a step may do to the rows.
LEMMA RowsStep ==
  ASSUME TypeOK, RowsOK, Next
  PROVE  RowsOK' /\ \A i \in Ids : reminder[i].status = "done" => reminder'[i].status = "done"
<1> DEFINE Done == \A i \in Ids : reminder[i].status = "done" => reminder'[i].status = "done"
<1>1. ASSUME NEW e \in Evaluators, Insert(e)
      PROVE  RowsOK' /\ Done
  <2>1. \A i \in Ids : reminder'[i] = reminder[i] \/ (Unused(i) /\ reminder'[i].record = "active" /\ reminder'[i].status = "open")
    <3>1. PICK place : \A i \in Ids :
            \/ reminder'[i] = reminder[i]
            \/ \E key \in evaluator[e].drafts \ OpenKeys :
                 Unused(i) /\ place[key] = i /\ reminder'[i] = Raised(key)
      BY <1>1, InsertWrites
    <3>2. \A key : Raised(key).record = "active" /\ Raised(key).status = "open"
      BY DEF Raised
    <3> QED BY <3>1, <3>2
  <2>2. clerk' = clerk
    BY <1>1 DEF Insert
  <2>3. \A c \in Clerks : clerk[c].op \in {"complete", "dismiss", "void"} => clerk[c].id \in Ids
    BY DEF TypeOK, ClerkIdle
  <2> QED BY <2>1, <2>2, <2>3 DEF RowsOK, Unused
<1>2. ASSUME NEW c \in Clerks, WriteReminder(c)
      PROVE  RowsOK' /\ Done
  <2> DEFINE i == clerk[c].id
             row == Written(reminder[i], clerk[c].op)
  <2>1. i \in Ids /\ clerk[c].op \in {"complete", "dismiss", "void"} /\ ~Unused(i)
    BY <1>2 DEF WriteReminder, TypeOK, ClerkIdle, RowsOK
  <2>2. reminder[i] \in Reminder /\ (reminder[i].completed <=> reminder[i].status = "done")
    BY <2>1 DEF TypeOK
  <2>3. row.completed <=> row.status = "done"
    BY <1>2 DEF WriteReminder, CompletedIffDone
  <2>4. row.record # "unused" /\ (reminder[i].status = "done" => row.status = "done")
    BY <2>1, <2>2, <2>3 DEF Written, Reminder, Unused
  <2>5. reminder' = [reminder EXCEPT ![i] = row]
    BY <1>2 DEF WriteReminder
  <2>6. clerk' = [clerk EXCEPT ![c] = ClerkIdle]
    BY <1>2 DEF WriteReminder, Asks
  <2> HIDE DEF row, i
  <2>7. \A k \in Ids : reminder'[k] = IF k = i THEN row ELSE reminder[k]
    BY <2>5 DEF TypeOK
  <2>8. \A d \in Clerks : clerk'[d] = IF d = c THEN ClerkIdle ELSE clerk[d]
    BY <2>6 DEF TypeOK
  <2>9. \A d \in Clerks : clerk[d].op \in {"complete", "dismiss", "void"} => clerk[d].id \in Ids
    BY DEF TypeOK, ClerkIdle
  <2> QED BY <2>1, <2>4, <2>7, <2>8, <2>9 DEF RowsOK, Unused, ClerkIdle, i
<1>3. ASSUME NEW c \in Clerks, NEW request, Asks(c, request), UNCHANGED reminder,
             request.op \in {"complete", "dismiss", "void"} => ~Unused(request.id)
      PROVE  RowsOK' /\ Done
  <2>1. \A d \in Clerks : clerk'[d] = IF d = c THEN request ELSE clerk[d]
    BY <1>3 DEF TypeOK, Asks
  <2> QED BY <1>3, <2>1 DEF RowsOK, Unused
<1>4. CASE UNCHANGED <<reminder, clerk>>
  BY <1>4, SameRows
<1>5. CASE People
  <2>1. ASSUME NEW c \in Clerks, NEW op \in {"complete", "dismiss", "void"}, NEW i \in Ids, Read(c, op, i)
        PROVE  RowsOK' /\ Done
    BY <2>1, <1>3 DEF Read, Unused
  <2>2. ASSUME NEW c \in Clerks, NEW r \in Rules, VoidRuleRead(c, r)
        PROVE  RowsOK' /\ Done
    BY <2>2, <1>3 DEF VoidRuleRead
  <2>3. ASSUME NEW c \in Clerks, GiveUp(c) \/ VoidRule(c)
        PROVE  RowsOK' /\ Done
    BY <2>3, <1>3 DEF GiveUp, VoidRule, Ruled, ClerkIdle
  <2>4. ASSUME NEW r \in Rules, CreateRule(r) \/ SetActive(r)
        PROVE  RowsOK' /\ Done
    BY <2>4, <1>4 DEF CreateRule, SetActive, Ruled
  <2> QED BY <1>2, <1>5, <2>1, <2>2, <2>3, <2>4 DEF People
<1>6. CASE \E e \in Evaluators : BeginEvaluation(e) \/ ReadFacts(e) \/ ReadOpen(e) \/ Fail(e)
  BY <1>4, <1>6 DEF BeginEvaluation, ReadFacts, ReadOpen, Fail
<1>7. CASE Tick \/ \E s \in Subjects : Work(s)
  BY <1>4, <1>7 DEF Tick, Work
<1>8. RowsOK' /\ Done
  <2>1. ASSUME NEW e \in Evaluators, Evaluate(e) \/ Fail(e)
        PROVE  RowsOK' /\ Done
    <3>1. CASE Insert(e)
      BY <1>1, <3>1
    <3>2. CASE BeginEvaluation(e) \/ ReadFacts(e) \/ ReadOpen(e) \/ Fail(e)
      BY <1>6, <3>2
    <3> QED BY <2>1, <3>1, <3>2 DEF Evaluate
  <2> QED BY <1>5, <1>7, <2>1 DEF Next
<1> QED BY <1>8

\* A completion is never undone, by a request that read the reminder open or by any
\* other (dismissReminder, reminders_completed_iff_done).
THEOREM CompletionStands == Spec => DoneStaysDone
<1>1. Init => RowsOK
  BY DEF Init, RowsOK, ClerkIdle
<1>2. TypeOK /\ RowsOK /\ [Next]_vars => RowsOK'
  BY RowsStep, SameRows DEF vars
<1>3. TypeOK /\ RowsOK /\ [Next]_vars =>
        [\A i \in Ids : reminder[i].status = "done" => reminder'[i].status = "done"]_vars
  BY RowsStep
<1> QED BY <1>1, <1>2, <1>3, RemindersTypeCorrect, PTL DEF Spec, DoneStaysDone

\* A pass that nothing disturbed raises only what is true when it commits
\* (gatherFacts, evaluateRules).
THEOREM NothingFalseIsRaised == Spec => RaisedWhenTrue
<1>1. ASSUME RemindersInv, NEW e \in Evaluators, Insert(e), evaluator[e].undisturbed,
             NEW i \in Ids, Unused(i), ~Unused(i)'
      PROVE  Owed(reminder[i].rule, reminder[i].subject)'
  <2>1. TypeOK
    BY <1>1 DEF RemindersInv
  <2>2. PICK key \in evaluator[e].drafts : reminder'[i] = Raised(key)
    BY <1>1, <2>1, InsertWrites DEF Unused
  <2>3. Due(key[1], key[2])
    BY <1>1 DEF RemindersInv, CurrentOK, Insert
  <2>4. key[1] \in Rules /\ key[2] \in Subjects
    BY <1>1, <2>1 DEF TypeOK, Insert, EvaluatorIdle, Keys
  <2> DEFINE r == key[1]
             s == key[2]
  <2>5. rule[r] \in Rule /\ rule'[r] = IF rule[r].record = "shipped" THEN [rule[r] EXCEPT !.record = "active"] ELSE rule[r]
    BY <1>1, <2>1, <2>4 DEF TypeOK, Insert
  <2>6. rule'[r].record = "active" /\ rule'[r].isActive /\ rule'[r].trigger = rule[r].trigger
    BY <2>3, <2>5 DEF Due, Fires, Rule
  <2>7. UNCHANGED <<day, world>>
    BY <1>1 DEF Insert
  <2>8. reminder'[i].rule = r /\ reminder'[i].subject = s
    BY <2>2 DEF Raised
  <2> HIDE DEF r, s
  <2>9. Owed(r, s)'
    BY <2>3, <2>6, <2>7 DEF Owed, Due, Facts, Arrived, Project, r, s
  <2> QED BY <2>8, <2>9 DEF Owed
<1>2. RemindersInv =>
        [\A e \in Evaluators : Insert(e) /\ evaluator[e].undisturbed =>
           \A i \in Ids : Unused(i) /\ ~Unused(i)' =>
             Owed(reminder[i].rule, reminder[i].subject)']_vars
  BY <1>1
<1> QED BY <1>2, RemindersInvariant, PTL DEF RaisedWhenTrue
=============================================================================
