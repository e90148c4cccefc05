# A verification of JobBook

JobBook is a contractor's office: customers and jobs, quotes that become
contracts, schedules, invoices.  It is a Next.js application over PostgreSQL.
Its state is the database; its operations are server actions, each one or more
transactions at READ COMMITTED; its concurrency is two people, or one person in
two tabs, pressing buttons at once.  Very little is locked: the project's
schedule takes an advisory lock, document numbers hold their counter row, and
one trigger locks the owners, and here and there a unique index or a CHECK
stands behind what a request has checked.  Everything else is read, check, write.  That is
where the behaviour that a unit test does not reach lives, and what these
modules are about.

Paths below are relative to the repository's `src/` unless they start with
`drizzle/` or `docs/`.

## The system

| component | state | operations | interacts with | what is hard | modelled by |
|---|---|---|---|---|---|
| Quotes and the contract (`lib/quote`, `app/quotes/[id]/actions.ts`, `app/projects/actions.ts`) | `quotes`, `projects.stage` | create (template, blank), revise, void, raise a change order, accept whole or in part, decline the others, set status, set stage | numbering (calls), invoicing (reads the accepted rows), projects (stage) | two acceptances; a decline or a stage set by hand under an acceptance; a page that offers what is no longer so | `Quotes`, `Contract` |
| Numbering (`lib/quote/numbering.ts`) | `document_sequences` | allocate | called by every writer of a document | sequence read before or after the number is taken; rollback | `Quotes` |
| Project schedule (`app/projects/[id]/schedule/actions.ts`, `lib/schedule`) | `schedule_tasks`, one advisory lock per job, the trigger of `drizzle/0012` | create, import, update, void, preview a move, confirm it | templates (import) | reads before the lock; preview then commit; loops built by two people; pushes that meet started work | `Schedule` |
| Invoicing and holdback (`lib/invoice`) | `customer_invoices`, `holdback_ledger` | price, issue (five kinds), void | quotes (contract), company settings (tax), numbering | state summed from rows; cumulative rounding; a contract that shrinks; two draws at once; a setting flipped mid-job | `Billing` |
| Worksheet (`app/quotes/[id]/actions.ts`, `lib/quote/recalculate.ts`, `lib/quote/regenerate.ts`) | `quote_lines`, the quote's totals, the triggers of `drizzle/0004` | edit, void and add lines, regenerate, recalculate, send | quotes (status) | the draft check, the write and the recalculation are separate transactions | `Worksheet` |
| Schedule templates (`lib/schedule/template.ts`, `app/templates/schedule/actions.ts`) | `schedule_template_tasks` | create, update, void a task; plan an import | schedule | re-linking past unticked tasks; a loop nobody's lock prevents | `Templates` |
| Accounts (`app/settings/users/actions.ts`) | `users`, the trigger of `drizzle/0006` | add, change role, deactivate, reactivate | sessions (revokes) | owners who demote one another | `Accounts` |
| Sessions (`lib/auth`) | `sessions`, a cache in the process | sign in, read, touch, sign out, revoke | accounts; every action (guard) | a cache filled by a read that a revocation overtook; a row touched late; a restart | `Sessions` |
| Reminders (`lib/reminders`, `docker/reminder-loop.sh`) | `reminder_rules`, `reminders`, the partial index and the CHECK on them | evaluate hourly; complete, dismiss, void; add, switch, void a rule | reads quotes, projects, customers | a pass whose queries see different moments, twice at once; passes that fail; two people on one reminder | `Reminders` |
| Assignments (`schedule/actions.ts`) | `assignments` | assign, update, remove | schedule | no lock | not modelled |
| Files, expenses, vendors, rates and their import, settings, setup, sync configuration, backup, rendering | one table each | forms that write one row | -- | little: single-row writes; the sync mirror is not built | not planned |

`PROJECT.json` lists each component with its files and the reason for what is
left out, and every hazard at its line.

## The modules

| module | what it is |
|---|---|
| `Quotes` | the quotes of one project, their numbers and the project's stage |
| `MCQuotes` | symmetry of sessions, for TLC |
| `QuotesProofs` | what holds of `Quotes` for all constants, and that it implements `Contract` |
| `Schedule` | the tasks of one project, its lock, and `planMove` |
| `MCSchedule` | the spans, the lags and the symmetries, for TLC |
| `ScheduleProofs` | what holds of `Schedule` for all constants |
| `Billing` | the contract, the invoices and the holdback ledger of one job, and `computeInvoice` |
| `MCBilling` | the contracts, the rates and the amounts, for TLC |
| `BillingProofs` | what holds of `Billing` for all constants |
| `Sums` | what a sum over a finite table returns |
| `Contract` | what a reader of the accepted quotes may rely on; the specification `Quotes` implements |
| `Worksheet` | the lines of one quote, its header, and the requests between a draft and a sent quote |
| `MCWorksheet` | the prices, for TLC |
| `WorksheetProofs` | what holds of `Worksheet` for all constants |
| `Accounts` | the users, the screen that manages them and the last-owner trigger |
| `Sessions` | extends `Accounts`: sessions, the cache of them, time and restarts |
| `MCSessions` | symmetries, for TLC |
| `SessionsProofs` | what holds of `Accounts` and `Sessions` for all constants |
| `Reminders` | rules, reminders, the hourly pass, and the people who act on both |
| `MCReminders` | the rules' offsets and the symmetries, for TLC |
| `RemindersProofs` | what holds of `Reminders` for all constants |
| `Templates` | the tasks of a schedule template, their editors, and `planImport` |
| `MCTemplates` | the lags, the durations and the symmetry, for TLC |
| `TemplatesProofs` | what holds of `Templates` for all constants |

`Sessions` composes with `Accounts`: deactivating and demoting somebody revokes
his sessions in the same step of the users screen, and a read of a session reads
the account.  `Quotes` instantiates `Contract` under a refinement mapping.  The
others are independent: the only thing invoicing takes from quotes is the
accepted, active rows, which `Billing` has as `quotes` with two actions of its
own (`AcceptQuote`, `VoidQuote`; `Contract` says what such a reader may assume);
`Templates` ends where `Schedule!Import` begins, with the rows to insert.

### How a transaction is modelled

A request is a session with an `op`: where it is in its transaction, and what it
has read so far.  Each read that another request could overtake is an action;
the writes become visible together in the action named `...Commit` (or
`Commit`), which is also where a unique index refuses them.  A write that makes
another wait is a guard (`Unlocked`, `CounterFree`, `LockFree`).  `Rollback`
ends a request without a trace at any point: a refusal, a deadlock's victim, a
lost connection.  Adjacent reads between which no other request can change what
is read -- those under a lock -- are one action.

### `Quotes`

`quotes` is the table, in insertion order; `SameDocument` is a kind and a
sequence, and rows of one document are its versions.  `nextSeq` and
`counterHolder` are the counter and who holds its row.  `session[s].offers` is
the page: `Open` renders it and it goes stale.  `TemplateNumber`,
`TemplateRead`, `TemplateCommit` are `createQuoteFromTemplate`, which takes its
number first; `BlankRead`, `BlankNumber`, `BlankCommit` are `createBlankQuote`,
which reads first.  `Raise...`, `Revise...`, `Void...` are `createChangeOrder`,
`reviseQuote`, `voidQuote` (the last two have no caller under `app/`: the
library offers them and its tests call them).  `AcceptRead` to `AcceptCommit`
are the reads and the writes of `acceptQuoteLines`, including
`declineOtherEstimates` and `winTheJob`; `StageRead` and `StageCommit` are
`setProjectStage`.  Left out: lines, totals, dates, who accepted; a subset is a
boolean.  Of the stages, four pre-sale ones are one.

### `Schedule`

`task` is the table, over a fixed set of identities of which some are `unused`.
`Decide` is what every action does at `lockProject`: it waits for the lock, reads
under it, checks, and keeps what it will write; `Commit` writes it and frees the
lock.  What `updateTask` and `voidTask` read before the lock is `UpdateRead` and
`VoidRead`.  `Preview` is the first press of `moveTaskDates` and `MoveDecide` the
second; the fingerprint is the schedule itself, so two fingerprints are equal when
the schedules are.  `Plan` is `planMove`: `Pushed` is the least set its queue
visits, stated without recursion so that it can be proved about; `Held` is where
it stops.  Left out: names, trades, cost codes, milestones, and the calendar,
for dates are integers as `shiftDays` and `lagBetween` treat them.

### `Billing`

`invoices` and `ledger` are the two tables; `Derive` is `deriveBillingState` and
`Compute` is `computeInvoice`, in whole cents, with the code's rounding
(`ApplyPercent`, halves away from zero).  `IssueCompany`, `IssueContract`,
`IssueRates`, `IssuePrice` are the four reads of `priceInvoice` that another
request can come between, and `IssueCommit` the insert with its ledger entries.
`next` is the engine's `nextState`.  The screen issues only progress and final
invoices; the other three kinds and `voidInvoice` have no caller under `app/`,
and are modelled from the library and its tests.  Left out: numbers, dates,
rates (only the taxable base is kept), lines, and payments, which nothing in the
source records.

### `Contract`

`signed` is the set of accepted, active rows, each as kind, sequence and version.
`Quotes!ImplementsContract` maps `quotes` to it: an acceptance in place is `Sign`,
a void or a decline is `Withdraw`, the partial acceptance of a version that had
become the contract is `Replace`, and every other step is a stutter.  That no
document is counted twice, that one step moves one document, and that only a later
version takes the place of a signed one is what `Billing` and every report rely on.

### `Worksheet`

`quote` is the header (status and total), `lines` the table.  `EditRead` is the
draft check that `editLine`, `voidLine` and `addLine` make outside any transaction;
`EditLine`, `RemoveLine`, `AddLine` are the write; `RecalculateRead`, `...Lines`,
`...Write`, `...Commit` are `recalculateQuote`, whose read of the lines and writes
to them are separate statements of one transaction.  `Regenerate...` are
`regenerateFromTemplate`, `Send` is `setQuoteStatus` with `unpricedProblem` before
it.  `LineWritable` and `HeaderWritable` are the two triggers, which see the status
committed when the statement runs; `Held` and `LinesFree` are the row locks of the
recalculation's writes.  A statement that commits by itself is one action, and what
a form holds is chosen when it is written.  A line's `item` is its `rate_item_id`, of
which three are told apart: the template's one item, an item the template does not
have, and a percentage.  `addLine` takes any of them from the rate list, the
template's included, and a regeneration goes by the item alone (`FromTemplate`), as
`regenerate.ts:141-149` does; `added` is the `line_group` that `addLine` writes, which
nothing reads.  Left out: optional lines, clauses and the scope form, costs, taxes and
rounding (`Billing` has rounding); allowances, which `unpriced.ts:59` lets out without
a price, so `Unpriced` and `AllPriced` are of lines that are not marked as one; what a
voided line said is normalised, since nothing modelled reads it.  `excused`, `quiet`
and `current` are histories the properties speak of: whether the last recalculation to
finish was overtaken or one was lost, whether the quote went out while nobody changed
it, and whether the lines are still what a request has read.

### `Accounts` and `Sessions`

`Authorise`, `ReadTarget`, `CountOwners` are what `setUserRole` and
`setUserActive` read; `LockTarget` and `LockOwner` are the update's row and the rows
`guard_last_owner` locks one after another, counting those that are still active
owners; `Write` decides on the count.  A deadlock of two such updates is broken by
`Fail`.  In `Sessions` time is kept as ages, so the state stays finite without a
last day: `Tick` ages everything, a request takes its `now` when it comes in and
answers by it at most `Slow` ticks later.  `Hit`, `Forget`, `Miss`, `ReadRow`,
`TouchRow`, `Fill` are `readSession`; `SignOut` and `RevokeSession` are
`revokeSession`, which clears the cache first and writes second; `RevokeSessions` is
the users screen's, which clears no cache; `Restart` empties the cache.  The
properties `StaleAtMostTTL` and `LetInInTime` bound how late an ending takes effect;
the repository says it is never late, which is not so (see "What the code does not
keep").  Left out:
the exchange with the identity provider (`SignIn` is `resolveSignIn` of somebody
with an account), `revokeAllSessions`, which nothing calls, and the cache of
`sole-owner.ts`, which serves deployments without sign-in.

### `Reminders`

`rule` and `reminder` are the tables; `world` is what the rules watch, moved by
people (`Send`, `Close`, `Enter`, `Visit`, `Contact`, `Employ`) and by the day.  A
pass is `BeginEvaluation` (the day and the rules), `ReadFacts` (`gatherFacts` and
`evaluateRules`; with one rule and one subject every query of it is one read),
`ReadOpen`, `Insert` with the partial index behind it (`Collides`: the insert waits
for the other pass and then fails), or `Fail`.  A seeding pass, the one that finds
shipped rules unseeded, holds up the others until it commits.  `Read` and
`WriteReminder` are `completeReminder`, `dismissReminder`, `voidReminder`, whose
check and write are separate; `CompletedIffDone` is the CHECK.  `CreateRule`,
`SetActive`, `VoidRuleRead`, `VoidRule` are the rules screen.  `undisturbed` is a
history: nothing moved since the pass began.  Left out: reminders written by hand,
snoozing, due dates and titles, the editing of a rule.

### `Templates`

`template` is the table, over a fixed set of identities.  `CreateRead`/`Create`,
`UpdateRead`/`UpdateCheck`/`Update`, `VoidRead`/`Void` are the reads and the writes
of the three actions; between them, at READ COMMITTED and with no lock, another
request may commit.  The schema says why there is none (one person edits a template,
from one screen), so a template with a loop, or with a task waiting on a void one, is
a state the program can be in when that person has two tabs.  `EffectiveLink` and
`PlanImport` are the functions of `template.ts`, as functions of where the walk has been
that recurse on where it goes next; an exception, and a recursion that does not return, is
an empty set.  They are compared, in every
reachable template and for every choice of tasks, with definitions that do not walk:
`Endless` (a set of tasks each of which waits on one of the set) and `Nearest`.
`applyScheduleTemplate` reads the template in one SELECT, so an import sees one
state of it.

## The runs

Two runs assume fairness, each no more than the code's scheduling gives.
`worksheet`: a request that has begun to recalculate goes on (every step of a
server action is awaited), so `SF` on the steps of a recalculation, which another
request's row lock may keep disabling, and `WF` on the commit of a regeneration,
which nothing disables.  That a request may be lost is an action (`excused`), not
excluded.  `reminders`: `docker/reminder-loop.sh` calls the evaluation every hour for
ever and after any failure, so `WF` on the beginning of a pass and `SF` on its steps,
because a pass that fails is followed by another: infinitely many passes do not all
fail at the same statement.  The others state safety, and a request that simply stops
is a legal behaviour.

Deadlock is checked in the runs of `Quotes` and `Billing`, and off where the modelled
world really may come to rest: every identity of `Schedule` or `Templates` used up and
voided, a quote sent, the last line used, no reminder left to raise; in `Sessions` a
stuck pair of updates is a state on the way to `Fail`.

| run | instance | what it asks |
|---|---|---|
| `quotes` | 2 sessions, 3 rows | that `Contract` is implemented; every operation in every interleaving: places are dense, a superseded version has a successor, one accepted version per document, an acceptance leaves other contracts alone |
| `quote_numbers` | 2 sessions, 2 rows, 2 foreign numbers, 3 stages by hand | a number names one document; a template's sequence is still free at its insert |
| `schedule_links` | 2 editors, 3 tasks | create, import, update, void at once: no loop, nothing behind a void |
| `schedule_moves` | 1 editor, 1 planner, 3 tasks, 2 days | preview, anything in between, confirm: what is written is what was shown, and what a move may not touch |
| `billing` | 1 session, 2 quotes (3 cents and -1), rates of 50 % and 100 %, 3 invoices | the rows, the engine and the contract agree to the cent after any history of draws, deposits, releases, change orders and voids |
| `billing_requests` | 2 sessions, 1 quote, 2 invoices, both tax settings | ledger and invoices agree, and every dollar is taxed once, while requests and the setting race |
| `worksheet` | 2 requests, one of which sends and one regenerates, 3 rows, priced or not, at most 1 line added by hand on the quote, of the template's item or a percentage | a total that is stale has a cause and heals, what went out in quiet stands, a sent header is final, a regeneration voids only lines of the template's item and leaves one |
| `accounts` | 3 people, 3 requests, owners and admins, nobody signed in | an active owner remains |
| `sessions` | 2 people, 1 request of the users screen, 1 token, 2 visitors; a cache of 2 ticks, a touch every 2, idle after 4, over after 6, queries of a tick | how stale the cache is, how late the row, who is let in |
| `reminders` | 1 rule of any trigger, 1 subject, 1 pass, 1 person, 2 days, 2 reminders | what is owed is said in the end; nothing false is raised |
| `reminder_races` | the same, 2 passes, 2 people, 1 day | one open reminder per rule; done stays done |
| `templates` | 2 editors, 3 tasks, lags of -2 and 1, durations of 1 and 2 | a plan is made of everything but a loop, and keeps the template's order and lags |

Why the bounds are enough.  Three rows of quotes are two competing estimates and
a version of one, or a contract with its change order and a revision: every
property of `Quotes` relates two rows, and the third is the one in the way.
Three tasks are the smallest chain whose middle can be held or pushed and the
smallest loop built from two requests' legs.  Two days and two spans give a
finish that moves and one that does not, in both directions; `MaxDrift = 1` lets
one task differ from an open preview, and the second difference cannot hide the
first because the fingerprint compares every row.  `schedule_moves` leaves voids
and imports out, which `ScheduleProofs` covers.  In `Billing` a percentage is a
half or the whole (`FullPercent = 2`) and a contract is odd, so each percentage of
it rounds; three invoices are a draw, its void or its release, and the final that
must settle, or a deposit and two draws that absorb it.  `billing` has one
session and the tax deferred; `billing_requests` has the races and both
settings.  What grows without end in the code is bounded by `MaxQuotes`,
`MaxNumber`, `MaxDay`, `MaxDrift`, `MaxInvoices`, `MaxLines`, `MaxAdded` and the sets `Tasks`,
`Ids`, `Tokens`, each a guard.

In `Worksheet` the races are of pairs: an edit and a recalculation, a recalculation
and a send, a regeneration and an edit; three lines are a flat one, a percentage of
it, and the one added or generated meanwhile.  Three owners and three requests can
form the cycle of locks that two cannot.  The times of `sessions` keep the order
of the code's (a minute, an hour, a week, thirty days), with room for a session
in use to look idle if it is touched a tick too late; two visitors are the read that
fills the cache and the sign-out that empties it.  One rule and one subject are one
key of the partial index; two reminders are a closed one and the next, and `Said`
excuses itself when they are used up.  Three template tasks are a loop of two with a
task that runs into it, and a chain whose middle is not ticked.

Each property has a mutant in `PROJECT.json`: the model with one definition
changed as a plausible bug would change it, under which the same run violates the
property.

## What the code does not keep

Statements of the repository that TLC refutes.  Each is stated at the end of its
module under the words of the repository, and none is a property of a run: to see the
behaviour, add the name to the cfg given, as a PROPERTY or as an INVARIANT as marked.

* `AcceptedIsNeverSuperseded` (PROPERTY, `MCQuotes.cfg`; `lib/quote/accept.ts:341`): two
  acceptances of one estimate, the first whole, the second of a subset.  The second
  read the row before the first committed and supersedes it by id: the signed
  contract becomes a superseded version.  `Contract` allows it as `Replace`: what it
  still promises is that a later signed version stands in its place.
  (`docs/superpowers/specs/2026-08-30-jobbook-design.md:458`: "an `accepted` quote is
  never revised, because the customer signed it".)
* `DeclinedIsNeverAccepted` (PROPERTY, `MCQuotes.cfg`; `accept.ts:259`): an estimate declined
  between the check of an acceptance and its update is accepted all the same.
  (`accept.ts:40`: "`declined` is refused rather than allowed.")
* `StandingEstimateMeansJob` (INVARIANT, `MCQuotesNumbers.cfg`; `app/projects/actions.ts:316`): a
  stage chosen before an acceptance committed puts the won job back before the sale,
  which `components/detail/labels.ts:55` says its list of stages exists to prevent.
  These three need two requests that overlap, and are proved of requests that do not
  (`OneRequestKeepsTheRules`); TLC agrees with `Sessions = {s1}`.
* `LagMatchesDates` (INVARIANT, `MCScheduleMoves.cfg`; `schedule/actions.ts:447`): `updateTask`
  computes the lag from the start it read before the lock.  (`db/schema/schedule.ts:149`:
  "a lag that disagrees with them is a lag nobody can trust".)
* `DrawsStayWithinContract` (INVARIANT, `MCBillingRequests.cfg`; `lib/invoice/repository.ts:375`):
  two draws priced on one state both commit; the bound each of them checked is
  exceeded although no accepted quote was voided, which `repository.ts:368-371` holds
  to be the only way.  One request at a time can do it too: a credit is an active
  invoice like any other, and voiding it after the final bills its amount once more.
* `NothingTaxedTwice` (INVARIANT, `MCBillingRequests.cfg`; `repository.ts:363`): the snapshot of
  the tax setting is stored on the invoice (`db/schema/invoices.ts:114-119` says why)
  and not read by the release, which is taxed by today's setting.
* `HandAddedStays` (PROPERTY, `MCWorksheet.cfg`; `lib/quote/regenerate.ts:147`):
  `addLine` stores the item it was given, from the whole rate list
  (`app/quotes/[id]/actions.ts:192`), and a regeneration voids every line whose item is
  one of the template's.  Add by hand a second line of an item the template has, then
  regenerate: it is voided with the rest.  One request at a time is enough.
  (`components/worksheet/ScopeSheet.tsx:140`: "Lines you added by hand are kept exactly
  as they are.")  What the code does keep is `RegenerationReplaces`: a line of an item
  the template does not have is never touched.
* `TemplateLinesAreReplaced` (PROPERTY, `MCWorksheet.cfg` with `Rebuilders = {s1, s2}`;
  `regenerate.ts:142`): two regenerations that read the same lines both insert, and the
  work is on the quote, and in its total, twice.  With one panel open TLC finds no such
  behaviour.  (`ScopeSheet.tsx:137`: "Every line that came from the template is
  replaced".)
* `CacheIsCoherent` (INVARIANT, `MCSessions.cfg`; `lib/auth/session.ts:136`): the cache
  answers for a session that has ended.  Two ways lead there.  Deactivating somebody, or
  changing his role, goes through the users screen's own `revokeSessions`
  (`app/settings/users/actions.ts:95`), which writes the rows and clears no cache; no
  two requests need overlap for that.  And a request that read its row before a sign-out
  fills the cache after it, for `revokeSession` deletes the entry first and `readSession`
  sets it last; with nobody on the users screen (`Managers = {}`) TLC finds this one, and
  it takes two visitors: with one it finds none.
  (`session.ts:44`: "Coherent by construction [...]: revocation deletes the entry
  synchronously in the same call that writes the row";
  `docs/superpowers/specs/2026-09-04-sso-design.md:295` says the same.)
* `EndedLetsNobodyIn` (PROPERTY, `MCSessions.cfg`; `lib/auth/session.ts:136`): in
  consequence a request that comes in after the ending is let in, by either way.
  (`sso-design.md:291`: "The owner changes a method, deactivates a person, or presses
  Sign out everywhere, and the effect must be immediate"; `:269`: "`is_active` is checked
  on every session lookup, not only at sign-in"; `app/settings/users/actions.ts:85`: "A
  role change has to take effect at once"; `tests/integration/session.test.ts:141`:
  "takes effect immediately, without waiting for the cache to expire", of a sign-out
  that no read overlaps.)  What the code does keep is a bound, `StaleAtMostTTL` and
  `LetInInTime`: it is late by less than the cache's minute.
* `PassSeesOneState` (PROPERTY, `MCReminders.cfg`; `lib/reminders/repository.ts:437`): at
  READ COMMITTED each query of a pass sees its own state, so a pass follows up a quote
  that was closed between two of them.  (`repository.ts:431`: "the facts, the open keys
  and the insert see one state of the database".)  What holds is `RaisedWhenTrue`, of a
  pass that nothing disturbed.
* `VoidRuleSaidNothing` (INVARIANT, `MCReminders.cfg`;
  `app/settings/reminder-rules/actions.ts:344`): a rule is voided on a count that a pass
  overtakes before the void is written, so a void rule is left with a reminder.
  (`actions.ts:341`: "Counted inside the writing transaction rather than read off the
  screen", so that a rule with reminders is refused.)

## The proofs

The proofs hold for every set of sessions and every
bound, from the named assumptions of the modules (`SessionsAssumption`,
`BoundsAssumption`, `StageAssumption`; `NoTaskAssumption`, `DayAssumption`;
`SettingAssumption`, `CentsAssumption`, `BillingBounds`; `PricesAssumption`,
`LinesAssumption`; `RolesAssumption`; `RemindersAssumption`; `TemplatesAssumption`),
which say no more than that a missing value is not a value, that amounts, bounds and days
are numbers, that a template has finitely many tasks and that there are owners; from `PercentAssumption`, which has the percentages between
nothing and the whole; and from `TimesAssumption`, which orders the times of
`session.ts` as it does.

**Quotes.**  No safety property is inductive alone.  `IInv` adds what ties a
request to the table: `HoldsCounter` (who has drawn a number still holds the
counter's row, so `NumberIdentifiesDocument` survives the insert), `NumbersTaken`
(every number in use is below its counter) and `Pending` (what a request has read
is a place taken or the next one, and stays so, because places are only ever
added).  A commit then either takes the next free place or one already taken, and
the latter is refused by `IndexesHold`: that is why `NumberedWithoutGaps` needs
no lock.  Every action is one of two kinds -- it leaves the identity of every row
alone, or it appends one row -- and the lemmas are about these two, so the step
has one case per action and most cite one lemma.  `OtherContractsKept` follows
from the commit alone and from `LosesTo`.

**Schedule.**  `NoLoop` and `NothingWaitsOnVoid` are checked when a request
decides and take effect when it commits.  `IInv` says of every request between
the two that it holds the lock and that the table it is going to leave is sound
(`WriterOK`); since only the holder writes, nothing moves in between.  `MoverOK`
says that a request about to write a move still has in hand the schedule it was
shown and its plan.  A link closes no loop because the chain from its predecessor,
a closed set, does not hold the task (`LinkKeepsNoLoop`); a move changes no
predecessor.  The four theorems on moves follow from `MoverOK` and from facts
about `Plan`: `Pushed` is a least fixed point, so a task that waits on one it
holds is in it or is started, and in the latter case in `Held`.

**The contract.**  `QuotesImplementContract` goes through `IInv` of `Quotes`: a
commit that signs a document signs one that no row of `signed` is a version of,
because `IndexesHold` refused it otherwise, and the successor a partial acceptance
inserts has the next version because versions are dense.  Every action either leaves
the accepted, active rows alone or is one of the three steps.

**One request at a time.**  `OneRequestKeepsTheRules` assumes one session, a page it reads
counted as part of its request, and proves the three statements about signed quotes that
overlapping requests break.  Its invariant `SerialInv` adds to `IInv` that what the request
has read is still so (`StillSo`): the estimate being accepted can still be accepted, the
row being revised is still sent or declined, the stage is the one it saw.  The theorem
says where the three lapses come from: not from a check that is missing, but from one
that is made too early.

**Sums.**  The header of a quote and the state of a job's billing are sums over
tables, and a sum is a fold over a finite set: it picks a row, adds its figure and
goes on with the rest.  What it returns is proved without induction on an operator:
if a fact failed for some set of rows, there would be a smallest such set
(`SmallestSubset`, from the library's theorem that the strict subsets of a finite set
are well-founded), and the row the fold picks there leads to a smaller one.  From
that: a sum is an integer, grows by a row's figure when the row is added, does not
depend on the order, is linear, and may be taken over the rows that count
(`SumOfPart`) or along a renaming of them (`SumAlong`).

**Billing.**  The ledger is said to be the entries of the active invoices (`EntriesOK`), of
which its balance is a consequence: an insert adds the entries of one invoice, a
void takes away those of one.  `InvoicesSound` says of each invoice what
`EveryDollarIsTaxedOnce` says of all.  `RequestsOK` says what is known of an invoice that is
priced and not yet inserted: that it follows from the state it was priced on, that the
deposit it absorbs is there, and that a final settles the contract.  These are the arithmetic of `computeInvoice`, and the
commit only has to carry them into the table.

**Worksheet.**  `StaleHasACause` needs to know of a recalculation in progress that
what it is going to write is the sum of the lines, or that it has been overtaken
(`CurrentOK`); `QuietOK` and `SendOK` carry the same to a quote that is sent.
`RegenerationReplaces` needs that what a regeneration is about to void is of the
template's item, however long ago it read that, and is all of it for as long as nobody
has overtaken it (`TouchOK`); `SentHeaderIsFinal` follows from the trigger, which asks at
every write.

**Accounts and sessions.**  `LastOwnerRemains` is kept by the trigger and by nothing
before it.  `Exclusive` says no two writes hold one row; `CountedOK` says that what
a write has counted it holds, so it is still an active owner when the write decides;
the write that lets an owner go therefore leaves one it has counted.  For the cache,
`VisitorOK` says of every request past its read that the session was alive when it
came in or has ended since, no longer ago than it has been waiting: what it fills is
fresh for a minute from when it came in, which bounds `StaleAtMostTTL` however slow it was.
`UseKeepsAlive` asks that a query takes no longer than an entry lives (`Slow <= TTL`); its
invariant `UseInv` bounds, for every row, entry and request, how much older than the
last use `last_seen_at` can be.

**Reminders.**  `OneOpenPerRule` is the index, and the proof is that nothing else
opens a reminder.  `DoneStaysDone` is the CHECK: a dismissal that does not clear
`completed_at` is refused on a done row.  `RaisedWhenTrue` needs the invariant that
the drafts of an undisturbed pass are owed now, with one case per trigger.

**Templates.**  Three functions of the code walk up a chain of tasks and remember where
they have been.  A recursive function denotes nothing until it is shown that one exists:
`WalkExists` shows it of any walk over a finite set that never goes where it has been, by
the number of places left.  What a walk finds is then shown by the smallest set of places
left on which it would be wrong, from an invariant of where it is: `OnWay` for
`effectiveLink` (it came past live unticked tasks, and every set that holds what the task
waits on holds where it is), `Called` for `plan` (each call in progress leads to another,
or to this one), `Searching` for `findPredecessorCycle`.  A `plan` that comes back to a
call in progress has therefore found a set of tasks that wait on one another, and the row
of any other task does not depend on the calls in progress (`CallsDoNotMatter`), which is
what makes the memo of `planImport` right.  With that `LoopsAreRefused` and
`ImportKeepsTheOrder` hold of every typed template, so they need of the edits only
`TypeOK`, made inductive by `TemplatesInv`.  `OneEditorNeedsNoLock` is about the edits: the
comment of `db/schema/schedule-templates.ts:122` defends the missing lock by there being
one editor, and with one request at a time `findPredecessorCycle`, which finds a loop
exactly when there would be one (`LoopFound`), does keep loops out.

| theorem | what it says |
|---|---|
| `Quotes`: `Invariance`, `TypeCorrect` | the inductive invariant, the types |
| `Dense`, `NumbersIdentify`, `SupersededIsReplaced`, `OneAccepted`, `TemplateIsSafe`, `OtherContractsKept` | every property of the two passing runs |
| `Schedule`: `Invariance`, `TypeCorrect`, `NoCircle`, `PredecessorsStand` | the inductive invariant and the properties of `schedule_links` |
| `PreviewKept`, `StartedStay`, `GapsKept`, `LagsRestated` | the properties of `schedule_moves` |
| `QuotesImplementContract` | `Quotes` implements `Contract` |
| `OneRequestKeepsTheRules` | one request at a time: no signed version revised, no declined estimate accepted, no standing estimate before the sale |
| `BillingTypeCorrect`, `LedgerAlwaysAgrees`, `TaxedOnceAlways`, `RowsAlwaysFollow`, `DepositAlwaysSpentOnce`, `FinalAlwaysSettles` | the types of `Billing` and every property of its two runs |
| `TypeOKAlways`, `StaleHasACauseAlways`, `QuietlySentStandsAlways`, `SentHeaderIsFinalAlways`, `RegenerationAlwaysReplaces` | the types of `Worksheet` and its safety properties |
| `AccountsAndSessions`, `AccountsTypeCorrect` | the inductive invariant of `Sessions`, the types |
| `AnOwnerRemains` | the property of `accounts` |
| `StaleIsBounded`, `LetInsAreInTime`, `InUseIsKept` | the properties of `sessions` |
| `RemindersInvariant`, `RemindersTypeCorrect`, `ARuleSpeaksOnce`, `CompletionStands`, `NothingFalseIsRaised` | the inductive invariant of `Reminders`, the types, and its safety properties |
| `TemplatesTypeCorrect`, `LoopsAreAlwaysRefused`, `ImportAlwaysKeepsTheOrder` | the types of `Templates` and the properties of its run |
| `OneEditorNeedsNoLock` | one editor at a time leaves no loop and no task waiting on a void one |

Only model-checked: the two liveness properties, `EditsReachTheHeader` and `Said`;
liveness under fairness and `ENABLED` are out of the provers' reach.

## Not modelled, and why

* Cross-transaction deadlocks of row locks: PostgreSQL aborts one, which is
  `Rollback`.
* The race of a void and a change order: both are modelled, and an active change
  order can be left on a void contract; no statement of the repository is about it.
* Reasons, actors and timestamps, including the reason a second void overwrites.
* Permissions: every action starts behind `guard`, which reads and refuses.  The
  users screen's own, which depends on the role that is being changed, is in `Accounts`.
* Assignments: statements on one row, each read, check and write with no lock.  That
  a person is on a task once is held by the partial indexes of `drizzle/0013` alone;
  a removed row may be edited, and the stamp of a confirmation moved, by a request
  that read the row earlier.  No document promises otherwise and nothing reads across rows.
* The rest of the source -- pages, forms, rendering, expenses, vendors, rates, files,
  setup, the sync mirror that is not built -- writes one row per form or none, and is
  most of its lines.  Its rules are validation, which the unit tests reach.

## Plan

Done: every component whose correctness depends on more than one row or one request,
except assignments; the refinement of `Contract`; proofs of every safety property of
`Quotes`, `Schedule`, `Billing`, `Worksheet`, `Sessions`, `Reminders` and `Templates`.  What is
left, in the order of what it would add:

1. Clauses and the scope form in `Worksheet`.
2. Snoozing and reminders by hand in `Reminders`.
3. `Assignments` on top of `Schedule`.
