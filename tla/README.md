# Izy: models and proofs

Izy is a desktop companion: a daemon that watches the focused window during focus
sessions, judges whether the user drifts, and interrupts as rarely as it can. This
directory holds TLA+ models of the daemon's logic, TLC configurations that check
them on small instances, and TLAPS proofs of the most important results. Paths below
are relative to the repository (`src/izy/...`); line numbers refer to those files.

    tlc -workers 2 -config Arbiter.cfg MCArbiter          # one run; PROJECT.json lists all
    tlapm ArbiterProofs.tla                               # one set of proofs

PROJECT.json has, for every definition that models code, the lines it stands for
("map"); for every checked property a plausible bug of the code that it catches
("mutants"); and the list of hazards that the properties were chosen from.

## 1. The system

One process, the daemon, has four threads that matter: the Qt UI thread (`app.py`),
a worker thread (`worker.py`) whose timer ticks the pipeline once a second, the
asyncio thread of the API server (`api/server.py`), and the LLM calls, which run on
whichever thread makes them. Command line processes (`izy start`, `izy task`, ...)
open the same SQLite file and write to it without asking the daemon.

    watcher -> tracker -> classifier -> drift --+
    sessions ---> contexts ---> reminders ------+--> arbiter --> prompt (UI thread)
    API handlers --> CommandQueue --> tick      |        ^            |
                    StateBus <-- snapshot <-----+        +-- answers -+
    izy start / stop / task / remind ----> SQLite <---- every component

| component | state it keeps | operations | what makes it correct |
|---|---|---|---|
| interrupt arbiter, `interrupts/arbiter.py` | pending requests, the active slot, shown requests in memory and in `interrupt_log` | submit, dispatch with its gates, acknowledge, held count | at most one interrupt per cooldown and a cap per kind, across restarts; nothing overtaken or lost; held requests served once gates lift |
| focus sessions, `sessions.py` | current session and break in memory, table `sessions` | start, end, tick, set outcome, resync, recover | a session ends once; phases announced once and in order, whoever ended the session; none is open for ever |
| reminders, `reminders/` | table `reminders`, `_held`, seen apps | add, due, fire, snooze, done, dismiss, contexts | a focus is not broken; nothing due is forgotten; no stale request is shown |
| watchers, `watchers/` | the source chosen | poll | a snapshot says what is in front, and when |
| tracker, `tracker.py` | open span, last flush, session; table `activity_events` | tick, set_session, stop | exact credit; bounded loss in a crash; nothing credited nobody saw |
| classifier ladder, `classifier.py`, `rules.py` | cursor, batch, cache; table of labels | consider, flush, user answers, relabel | each span judged once, none passed over; a correction stands |
| drift, `drift.py`, `budget.py` | last run alerted | state, detect | one alert per run; being away breaks a run |
| readings of a day, `report/`, `commands/day.py`, `_today_counters` | none | build, cmd_day, counters | they agree; drift is charged to who caused it |
| LLM gateway, `llm.py` | cache and usage tables | complete_json | the budget holds; an answer is paid for once |
| tasks, `tasks.py` | table `task`; hints in the pipeline | create, delete, reorder, add_hint, suggest_hint | hints kept; a moved task lands where asked; a session's own hints are used |
| database, `db.py` | schema, `meta.schema_version` | connect with migrations | any version opens, with nothing lost |
| queue and bus, `ipc.py` | commands, subscribers, last snapshot | submit, drain, publish, subscribe | each command once; the latest snapshot arrives |
| pipeline, `pipeline.py` | mascot, contexts, counters | tick: drain, tracker, sessions, reminders, dispatch, publish | each hook's effect in its order; the screen follows |
| threads, `worker.py`, `app.py` | running flags, posted slots | start, tick, request, stop | the daemon exits |
| configuration, `config.py`, `config_upgrade.py` | the user's file and its `.bak` | load; merge, copy, write | adds what is missing, keeps what the user wrote, changes nothing that is loaded, and leaves a file that loads (it does not always: section 7) |

Further parts: API schemas and read handlers, hourly self label, command line, prompts
and mascot widgets, GNOME extension, packaging. PROJECT.json gives the state of each.

What is hard: two writers on one table with a resync of several seconds in between
(sessions, tasks, migrations); a slot freed by acknowledgements that name nobody;
history that is half in memory and half on disk; a wall clock that may step back;
requests held for minutes while what they are about changes; verdicts that come a
batch later than the spans, and race the user's corrections; check-then-act around a paid call; a blocking call into a
thread that may have quit. PROJECT.json "hazards" lists forty of these at their lines.

## 2. The modules

| module | models | run |
|---|---|---|
| `InterruptBudget` | abstract: the budget all interrupts share | refined by `Arbiter` |
| `Arbiter`, `MCArbiter` | `arbiter.py`, `_dispatch_interrupts`, popups | arbiter, arbiter_live |
| `FocusPhases` | abstract: idle, focus, break, off, and their announcements | refined by `Sessions`, used by `Reminders` |
| `Sessions` | `sessions.py`, `commands/session.py`, the session hooks | sessions |
| `Reminders` | `reminders/`, the reminder hooks, over `FocusPhases` | reminders |
| `Spans` | `tracker.py` and what the two watchers return, as operators on its state | used by `Ladder` |
| `Ladder` | classifier, labels, corrections, drift, in the order of the tick | used by `Day` |
| `Day`, `MCLadder` | the three readings of a day, as operators on `Ladder`'s state | activity, activitywatch |
| `Control` | API submitters, queue, worker, bus, UI thread | control |
| `Migrations` | `db.connect` | migrations, migrations_crash |
| `Tasks`, `MCTasks` | `tasks.py`, `commands/task.py`, the session's hints | tasks |
| `LlmGateway` | `llm.py`, for all of its callers | llm |
| `ConfigUpgrade`, `MCConfigUpgrade` | `config_upgrade.py`, `config.load` | config_upgrade |
| `ArbiterProofs`, `SessionsProofs`, `RemindersProofs`, `LadderProofs`, `ControlProofs`, `TasksProofs`, `LlmGatewayProofs` | proofs about the module named; `LadderProofs` also about `Spans` and `Day` | |
| `UpgradeProofs` | proofs about `Migrations` and `ConfigUpgrade`: what a new version does to what is on disk | |

Composition: `Sessions` is shown to implement `FocusPhases`; `Reminders` EXTENDS
`FocusPhases` and so runs over everything `Sessions` may do; the arbiter in
`Reminders` is the set of waiting requests, justified by what is proved of `Arbiter`
(NothingLost, NoOvertaking). `Ladder` EXTENDS `Spans`: the tracker's handlers are
operators on a record that one tick of the pipeline composes. `Day` EXTENDS `Ladder`, so
that the readings are checked in every state that ticks, restarts and corrections reach.

### How state and actions correspond to the code

*Arbiter.* `pending` is `_pending`, what was submitted since the last dispatch; `hold`
is `_hold`, what the last dispatch deferred; `active`/`activeSince` are the slot, `shown` the whole history of which
`inMem` and `inLog` are the parts in `_mem_shown` and in `interrupt_log`; `screen` is
what the user really sees, which the code does not know. `Tick` is one
`dispatch` (merge, sort, stale slot, gates, show or hold, record) and the passing of
time; `Answer` acknowledges, `CloseSilently` closes a popup without a signal
(app.py:145), `ClientAck` acknowledges from the API with no popup, `Restart` drops
what is in memory and reads the log again.

*Sessions.* `sess` is the table; `mine`, `breakLeft`, `sinceResync` and `lastPhase`
are the daemon's memory; `cli` is the program counter of each command, whose
statements (end the open session, insert the new one) are steps of their own.
`Tick` is resync, overrun, break countdown and the phase hook together. Times are
ages that saturate, since the code only compares differences.

*Reminders.* A row is status, trigger, urgency and the age since it came due; `_held` is
`due_at`, forgotten whenever that changes, and needs no variable. `TickShow` and
`TickWait` are the check and the dispatch at the end of a tick, with and without a
bubble; `PhaseChange` calls the hooks of the contexts it announces; `Answer` is a
bubble's button, `ClientAct` a client's done, dismiss or snooze. What `reminders/parse.py`
and the model make of a text is any time, ahead (`Leads`) or past (`Pasts`). `carried` and `touched`
are history: what waited when the focus began, and what a client acted on.

*Spans/Ladder.* `t = [rows, span, session]` is the tracker; `labels`, the cache, the
batch and the cursor are the classifier; `asked` is a question on its way to the user.
One `Tick` is tracker, ladder and drift in the pipeline's order. `Watcher` is what
`pick_watcher` chose: the native watcher stamps a snapshot with the moment of the poll,
ActivityWatch (`event` is the latest of its window bucket) with the start of the event.
`Answer` is the reply to a question or a correction on the report's page, `Relabel` is
`izy relabel` of a span away from the keyboard, which also writes the cache of the window
that was left in front, `SelfLabel` the hourly question.

*Day.* `Report`, `Counters` and `Printed` are `report.data.build`, `_today_counters` and
`cmd_day`; `Read` is one turn of build's loop, and its reference `PulledOutBy` says
without a loop which span began the run.

*Control.* `Submit` puts a command in the queue and its Future aside; a timeout of the
handler (2.5 s) changes nothing, which is the point. The worker's tick is
`TickBegins`, one `RunCommand` per drained command, `TickEnds`. The StateBus is
`Subscribe`/`DeliverFirst`/`Receive`/`Disconnect`; the UI thread is `Show`,
`AnswerPrompt`, `DismissOutcome` (the lambda of app.py:185, which ends the session on the
UI thread itself), and the two ways to stop, `Terminate` and `Quit`, which meet in
`AboutToQuit` and `StopTracker`. `astray` records when the last MASCOT event went missing
or was overtaken.

*Migrations.* Each statement of the script is a step, because each commits by itself.
*Tasks.* Read and write of `create`, `add_hint`, `suggest_hint` and `reorder` are two
steps; `Family` is what a deletion cascades to. A new task takes any list of hints, as the
command line and the API do; `given` remembers it. *LlmGateway.* Look
up, check, call, store and account are five; `bought` counts how often each caller got each
answer. A question is its cache key, an answer is any: what a caller makes of it is its own
module's business.

*ConfigUpgrade.* Copy, empty and write are three steps. The merge is an operator on lines:
`Under` is the section that `parse` is in when it meets a line, `Missing` and
`MissingSections` what `plan_for` finds, `Block` and `Section` the text it takes from the
defaults, `SectionEnd` the line that `apply` inserts behind. `Load` is what `config.load`
makes of the lines, or `Refused`. A value may go on in further lines (`Long`, kind "rest"), as
off_task_urls of the shipped defaults does; `WellFormed` asks that they stand where a value
goes on and nowhere else. `parse` knows no further lines, and neither does `Block`: they go
with the header or key that comes next. `Together` says that an upgrade does not part any from
its value. `mine` and `torn` are history: what the user last saved, and whether an
upgrade left the file empty ("torn") or has copied that over the copy since ("lost").

## 3. What the runs show

Every run below ends with no error, but for `activitywatch` and `migrations_crash`, which
show where the code does not do what it says (section 7).

| run | properties | what they say |
|---|---|---|
| arbiter | Spaced, Capped, ImplementsBudget, NoOvertaking, NothingLost | Cooldown and hourly cap hold over everything the daemon can remember, with a restart, rows that fail to be written and a clock that steps back. What is shown outranks every candidate that waited but those over their cap; a request leaves the queue only by being shown, by quiet hours, by its cap or by a restart. |
| arbiter_live | OneAtATime, EventuallyServed | With a user who answers or closes in time, two popups are never open at once; a held reminder is shown once the gates stay open. |
| sessions | EndIsFinal, ImplementsPhases, EventuallyEnds | The first to end a session decides its end time, whatever crash, overrun, resync and `izy stop` do, and no later end touches its outcome: only an answer of the popup or of a client, who may name any session any number of times, does. Phases are announced once and in order. |
| reminders | WaitingIsLive, OnlyCarried, ReleasedAtBoundary, EventuallyFires | Deferral protects a focus up to `max_defer_minutes`, and nothing that was deferred is forgotten, however the focus ends; reminders set in the past included. |
| activity | SpansExact, CrashLoses, Vouched, NothingUnjudged, JudgedOnce, CorrectionStands, NoAlertOnReturn, ReadingsAgree, DriftCharged | With the native watcher spans are credited what was confirmed, and a crash loses less than a flush interval; no span is skipped or judged twice, the user's word is the last but for two cases, time away breaks a run of drift; the counters, `izy day` and the report tell the same of each day, and the report charges an app with exactly the drift it began. |
| activitywatch | SpansExact (violated) | See section 7. |
| control | RunsEachOnce, LatestArrives, ScreenFollows, EventuallyExits | A failing command costs no other; a slow subscriber still gets the latest snapshot, but for the one it was given on subscribing, which a newer may overtake; the mascot on the screen follows but for a command of the API and a call on the UI thread; the daemon stops without a deadlock. |
| migrations | RowsKept, Converged, RefusesOnlyTorn | Unless two processes migrate one file at once, no session is lost whatever crashes, a file that says version 5 has the shape of version 5, and only a migration cut short makes a process refuse. |
| migrations_crash | NeverRefuses (violated) | See section 7. |
| tasks | KnownOnce, OwnHints, HintsStay, LandsWhereAsked | A hint is added once, but for those given with a new task, which nothing compares, and survives; the classifier uses those of the session's own task; the order is what was asked until floats run out. |
| llm | BudgetHeld, PaidOnce, BoughtOnce | No hour or day has more calls than its cap, but for calls in flight when the budget was read and for callers that died. No caller buys an answer that it found or that it bought before; several that race may each buy it. |
| config_upgrade | Upgraded, KeptSomewhere, SameSettings | The merge adds exactly what is missing and changes no line of the user's; after a crash the file or its copy holds what the user saved; what is loaded before and after is the same, or, where a value of several lines was torn in two, refused. |

Several properties name exceptions (what a client touched, calls in flight, answers
from the cache). These are the real limits of the code, written as the weakest
exception that TLC accepts; section 7 describes them.

### Bounds, and why they are enough

* Arbiter: one unit of time is the cooldown; StaleAfter, Hour and Forget keep the order
  of 90 s < 300 s < 3600 s < 7200 s. `arbiter` has a key that is asked for at two
  priorities (merging), a capped kind that reaches its cap, and each gate alone;
  MaxTime 3 holds a stale slot and a whole window. It steps the clock back as well as
  forward, with one restart. One restart separates "before" and "after", which is all the
  in-memory history can tell apart; Spaced and Capped are proved for every bound.
* Sessions: one command process, two sessions, one crash, plan, grace and break of one,
  resync every two: overrun, break end and resync coincide in every way, and a session
  can be replaced between two resyncs. Ages saturate above every limit they meet.
* Reminders: two of them, so that one waits while the other shows, each of four
  triggers and both urgencies; MaxDefer and SnoozeLen of one; set for one unit ahead or for one
  ago, which is already the whole of MaxDefer.
* Activity: two windows (one a rule denies, one only the LLM or the user can judge),
  gaps of 1 and 2 against Stale 2 and FlushEvery 2, drift after 2, three rows, time 4,
  one session that ends, one stop or crash, days of three units so that a boundary between two days is met.
  Two adjacent spans and an away span suffice for a run of drift and its interruption.
* Control: two requests in one drain, three ticks, a subscriber queue of 2 that
  overflows with the third snapshot, one request of a prompt under way.
* Migrations: every version as a start, two processes, two crashes, two rows.
* Tasks: three tasks are the least with a task between two; One = 2 gives one bit below
  1.0, so that two moves exhaust the room; two names that differ in case; two changes under way or
  done, so that each writer can overtake the other.
* LLM: hourly cap 1 and daily cap 2 over three hours of a day and the next, three callers (two that
  race and one that comes between), two questions, one caller lost.
* Config: every file of up to three lines out of eight that users type, and what one edit makes of it, two shipped sections
  that share the name of a key, the last value of the first going on in a second line, as off_task_urls does in
  front of [drift]; two upgrades cut short: one cut while the file is empty and one after the next
  copy are the least that lose the user's text.

CHECK_DEADLOCK FALSE is set where the program really stops (`control`: the daemon exits;
`config_upgrade`: the command ends) and in `activity`, whose bounds end every behaviour.
Everywhere else a state without a successor is an error.

### Fairness

* `Tick` (Arbiter, Sessions), `Elapse` (Sessions, Reminders): the worker's QTimer fires
  each second as long as the daemon runs. Weak fairness.
* `DaemonStart` / `Start`: the systemd unit restarts the daemon on failure. Weak. The
  crashes of Sessions are bounded by MaxCrashes.
* `CliStep`: a started process executes its next statement. Weak.
* `TickShow` of each reminder (Reminders): strong, because the arbiter shows a held
  request once its gates stay open and does not starve one of the same priority -
  arbiter_live checks EventuallyServed under a weakly fair tick. A user who never
  answers is covered by the stale slot.
* LiveSpec of `MCArbiter` assumes in addition that a popup is answered or closed before
  it is stale (`PromptUser`), that a reminder already in the slot is not submitted again
  (`FiredOnce`: it is marked fired when shown; both are in `Arbiter`), and that fullscreen and absence end
  (`Settles`): without the last a held request is meant to wait for ever.
* Control: weak fairness of the worker's event loop, strong fairness of `TakeRequest`
  and `TakeStop` (Qt delivers posted slots in turn with timer events), weak of
  `AboutToQuit`. Nothing is assumed of API clients and of the user.

Safety properties assume no fairness.

## 4. What is proved

TLAPS checks these for every value of the constants, the bounds of the runs among them.
Each rests only on the module's named assumption on its constants, which TLC evaluates in
each run, and on the hypotheses named below. Of the assumptions, three are worth a word:
the callers of LlmGateway are finitely many (`IsFiniteSet(Callers)`; the calls in flight
are counted), in Spans `Stale` is not 0 (pipeline.py:80 takes at least a minute) and
there is a gap between two ticks (`Gaps # {}`). ConfigUpgrade takes the shipped defaults to
be a file that TOML reads, of whatever values, with no key above its first section and with the value that the
code would fill in for every key that is loaded; the last is asserted by a test of the
repository (tests/test_selflabel_and_config.py:111) and is what SameSettings rests on.

*ArbiterProofs.* `IInv` is the types; that pending requests are all of this instant and
listed once (PendingInv); that the runs of `shown` are numbered in order (RunInv); that
`_mem_shown` holds shows of this run only and has forgotten only those older than
Forget at the newest show (MemInv); Spaced and Capped. Spaced alone is not inductive:
that the next show is far enough from every remembered one needs that the log and the
list in memory together cover what Spaced speaks of, which is MemInv. With it: TypeCorrect, AlwaysSpaced, AlwaysCapped
(a cardinality argument on the shows in a window), RefinesBudget (each step is a step
of InterruptBudget or a stutter, with `waiting <- Waiting`, `recorded <- inLog`),
NeverOvertaken and NeverLost. NeverTwoPopups is OneAtATime (gate 1), under what it takes to
hold: `~ClientAcks`, since an acknowledgement from the API names no popup and frees any
slot, and the user and submitters of `arbiter_live` as a constraint on steps, not as
fairness (`[][PromptUser /\ FiredOnce]_vars`). Its invariant SlotInv says that a popup
on screen holds the slot and is not stale, and that nothing waits under the slot's key.

*SessionsProofs.* `IInv` is the types and PhaseInv: the last announced phase is focus
exactly while the daemon holds a session. RefinesPhases needs PhaseInv, since the
announcement of a step depends on what was announced before. EndsOnce is EndIsFinal as
an action property: that the outcome of an ended session changes only in a step that records
an answer and does nothing else, whichever session a client names. OneWriter shows, for a system without command line processes, that
at most one session is open (its inductive invariant WriterInv relates the table to
`mine`); with them it fails, which is why it is not a checked property of the run.

*RemindersProofs.* `IInv` is the types, WaitingIsLive and OnlyCarried: the queue's
agreement with the table is needed to show what a focus inherits. Then AlwaysLive,
FocusInherits, and AlwaysReleased as an action property.

The type invariants are proved for every value of the constants (TypeCorrect in the three
modules), so no run spends its time on them again.

*LadderProofs.* `IInv` is the types of tracker and classifier and, for each event
(EventOK): one that waits is of a session and unlabelled by Izy; one of a session has at
most one label of Izy's; one that the cursor has passed is labelled, waits or was asked
about, if it is long enough. The cursor never passes the open span, which is what makes
"long enough" final: without that NothingUnjudged is not inductive. The handlers of the
tracker and the classifier are operators on records, so most of the module is lemmas on
what each of them returns, and the step of the pipeline composes these. From `IInv`, for
either watcher: NoSpanPassedOver, JudgedByIzyOnce, UserHasTheLastWord, NoAlertAfterReturn.
With the native watcher (`Watcher = "native"`, a hypothesis of the theorems, since
`activitywatch` shows SpansExact to fail with the other) three parts are added: Sound (rows
in order; each credited within a flush interval of what was seen and Stale plus one pause
beyond it), Recent (the open span was seen less than Stale ago) and Parted (the boundary of
the session is a boundary of spans); from these TimeIsExact, TimeIsVouchedFor and, for a
flush interval above 0, CrashLosesAFlush.

The theorems on Day say what a loop over all rows computes, for a table of any length.
Induction over the rows is not to be had from the library here; it is an argument by a
least counterexample (UpTo: what holds of 0, and of each index with the one before, holds of
all), with RecursionIs for what a recursive function is at each index. ReadingsAlwaysAgree:
each turn of the report's loop adds a row's credit to the bucket of its kind (ReadIs,
TotalsAre), the kinds part the rows (KindsPart), and so the sums of `izy day`, of the
counters and of the report are sums over the same rows. DriftIsCharged: while the loop is
in a run of drift, the run it carries is the one that the declarative PulledOutBy names,
and it is charged each row once (Carried, DriftIs). Of the invariant the two need
only the types: they hold of any rows and labels. The code's query gives the report its events by their
start (`ORDER BY ts`, db.py:351), while Day's `Report` reads them by their ids; RowsInOrder
proves that the two orders are one with the native watcher, so that DriftCharged speaks of
what really followed what. With ActivityWatch, whose spans may start before the row in front
of them, the two may differ, and DriftIsCharged says nothing of the report's order.

*LlmGatewayProofs.* `IInv` adds AccountInv: since any moment, the calls made exceed the
calls accounted for by at most those in flight and those of callers that died. It speaks of
every moment, not only the start of an hour, because the window of the budget moves. With
it BudgetNeverOverrun. NothingPaidTwice rests on what a caller between two steps knows of the
cache (WorkInv), NobodyBuysTwice on BoughtInv: an answer that a caller bought is in the
cache, and the caller is not on its way to it again.

*ControlProofs.* `IInv` is four invariants side by side. What has run, the batch and
the queue are one sequence (CommandsRunOnce). A subscriber's queue is in order except for
the snapshot it was given on subscribing, which may come late, but once (StreamInv), hence
LatestIsNeverDropped for a queue of any size from 2 on. MascotFollows. StopInv, that the UI
thread waits only while a stop is the last thing in the worker's inbox: NeverWaitsInVain,
the safety half of the exit. That it does exit is EventuallyExits and only checked.

*TasksProofs.* `IInv` says of a writer between its read and its write that what it holds is
what the table makes of it now, or that it is stale (HeldInv, with BornInv to tell a task
from a later one with its id). A writer adds a hint only if none that is equal but for case
is there, so that two such hints were both given with the task. With it HintsKnownOnce, HintsAreOwn, HintsAreKept, TasksLand.

*UpgradeProofs, the database.* The script is a list, and a process has an end of it left to run, so
that the number of statements left (ToRun) says what has been done. FileInv holds in any
case; AloneInv until two processes meet: a process with 2 or 3 statements left has copied
every row and one with 1 left has renamed the copy (Done), and if it opened a file that no
migration had been cut short in, each statement finds what it needs (Whole). That the
version is 5 only for processes with one statement left, and that only these get to open,
keeps a new session out of a table about to be dropped. NoSessionLost, BothPathsConverge
and WholeFilesOpen follow at once.

*UpgradeProofs, the configuration.* Four layers. First, what a text says, one line at a
time: the names of its sections, the keys given in each, the section it ends in, and
whether any is named twice are those of the text without its last line, with that line's share
(Read, WithLine). So two texts that grow by lines of the same effect stay equal in what
they say, and no lemma has to count indices. Second, the merge: it writes each line of the
old file followed by what is inserted there (InsertedText), and each missing section at
the end (TailMerged); SectionEnd is in the section and before the comments of the next
(EndIs). Hence Applied and ApplySays: every text, upgraded, has what it had with the same
values, has all that is missing with the default, names nothing twice and is up to date; and
ApplyExtends: every line is kept in its order, its section and below its comment. Third,
where values of several lines are: `Running(P, on)` says of a text that further lines stand
only where a value goes on, and whether one does behind its last line. Each block of the
defaults goes on from where the header or key before it left off (RunBlock), so the blocks of
some of them, one behind the other, do too if none is parted from its value (`Unsplit`; LeftOn
is whether a value goes on behind those up to a line). A section ends where nothing goes on
(EndComplete), so the inserted keys go on from the user's line and the missing sections from
the last (RunBody, RunTail): an upgrade that is Together leaves a text that is WellFormed
(ApplyComplete). Fourth, the steps, with `ConfigInv`: what is planned is the upgrade of the file while that is whole
and of its copy from then on, is planned only for a file that lacks something, and unless
torn the file is the user's or the upgrade of it; and a file with a torn value is up to date,
so that no copy is made of one. KeptSomewhere alone is not inductive; the
step that matters is the emptying, before which the copy must be the user's own text. It is,
because an upgraded file is up to date and so never upgraded a second time: the merge's
"upgrading twice is a no-op" is what makes the backup safe. UpgradeInductive, NothingLost,
SettingsStand and OnlyAdds follow.

The chain for the user's question "can a reminder break my focus?" is: Sessions
implements FocusPhases (RefinesPhases); over FocusPhases, only what waited when the
focus began or a client touched is ever asked for in it before its deferral is up
(FocusInherits); and the arbiter neither invents nor reorders requests (NeverLost,
NeverOvertaken).

## 5. Only model-checked

* Liveness (EventuallyServed, EventuallyEnds, EventuallyFires, EventuallyExits): temporal
  reasoning under fairness and ENABLED are out of this prover's reach.
* Every invariant and action property of a passing run is proved as well as checked.
* With ActivityWatch, NothingUnjudged and the other properties of the classifier are proved
  but checked with the native watcher alone; what its snapshots do to SpansExact is the
  violation in section 7.
* `ImplementsBudget` and `ImplementsPhases` are checked and proved; the use Reminders makes
  of the arbiter (a set of waiting requests, of which a fair tick shows one) is justified by
  NeverLost and NeverOvertaken and by EventuallyServed, not by a refinement.

## 6. Not modelled

* A statement of SQLite that fails, except the INSERT of interrupt_log, whose failure
  the code swallows; a wall clock that steps back, outside Arbiter.
* `expires_at` of requests (no caller sets it), `end_break` (no caller),
  `defer_during_focus = false`, classification or drift switched off.
* Rendering of reports, widgets, argument parsing, read handlers, the types and paths of
  the configuration: formatting and validation without state of their own. Of the report
  also the break bands, hours and tables of apps.
* A call of the pipeline on the UI thread (the lambdas of app.py, 106-185) in the middle
  of a tick: Control has one of them between two steps of the worker. Inside a tick two
  threads share a SQLite connection and the pipeline's fields, against the code's own
  contract (worker.py:13-16, README.md:313-316), and every interleaving of their
  statements would have to be a model of its own.
* The start and the end of the API server, beyond that requests may come at any time or
  never; the schedules of the hourly question, the weekly nudge and the retrospective.
* The compositor, ActivityWatch, the GNOME extension, dateparser and the LLM are external: any
  answer they can give is a nondeterministic choice, a time that is past included. How a text
  becomes a time (`reminders/parse.py`) is not modelled. The sources that NativeWatcher tries in turn
  are one answer.

## 7. Findings and limits

**A migration cut short makes the database unopenable** (`migrations_crash`,
NeverRefuses, db.py:82). `connect` runs each migration with `executescript` on a
connection in autocommit mode, so each statement commits by itself, and two of them
(`ALTER TABLE ... ADD COLUMN task_id`, `CREATE TABLE sessions_rebuild`) cannot be
repeated. A process that dies after one of them and before the version is written
leaves a file on which every later `connect` raises. The `migrations` run shows that,
but for two processes that migrate at once, nothing else makes one refuse, and that no
row is lost by it: it is in `sessions` or in `sessions_rebuild`.

**ActivityWatch's snapshots reach back over a session boundary** (`activitywatch`,
SpansExact, watchers/activitywatch.py:85). tracker.py:60-61 has a boundary close the span
so that "'time spent on this intent' stays exact". It closes it at the clock; the next
snapshot of the same window carries the start of ActivityWatch's event, which lies before
the boundary, and the new session's span starts there: that time is counted in both. With
the native watcher, whose snapshots carry the moment of the poll, SpansExact holds.
In the same way a snapshot that is missing, or an absence, while the window stays the same
gives the time a second time or takes it from the span.

**A value of two lines is torn in two by the config upgrade** (config_upgrade.py:71,
config.py:166-167; the exception `Together` of Upgraded and SameSettings). The module's
docstring has a missing section "appended whole" and a missing key inserted "with its comment"
(config_upgrade.py:14-17), and the tests load what an upgrade leaves
(tests/test_config_upgrade.py:88-90). But `parse` takes the second line of off_task_urls for
part of what precedes [drift], and puts it into that section's header. A file that has
[classify] with that key and no [drift] gets a stray `"tiktok.com", ...]` in front of [drift];
one that has [classify] without the key gets an array that is never closed. `tomllib` refuses
both, and `config.load` raises for every command until the user mends the file by hand.
The tests pass because their old file lacks both sections: the two lines are then appended
one behind the other. No line of the user's is lost by it (KeptSomewhere has no such
exception), and the file that is left never loads as anything else. `Together` is a little wider than
the fault: a key inserted in the last section with [drift] appended right behind it happens to
come out whole.

Read in the code while modelling, visible in the exceptions of properties or left out
of the models, and not given runs of their own:

* Acknowledgements carry no id; a late answer frees another popup's slot
  (arbiter.py:118-123).
* A session replaced by another releases the reminders it held into the new focus
  (sessions.py:69), where SPEC.md:133-135 has them wait for the end of focus.
* A span with a rule's label and the user's is counted twice by drift (drift.py:62).
* start_session and end_session for the API return the events of the tick, so the MASCOT
  event ends in the Future and the mascot disagrees with the snapshot
  (pipeline.py:651, 658) until it changes again.
* A section header with a trailing comment is duplicated by the config upgrade and makes
  the file unreadable; a last line without a newline gets a comment glued to it
  (config_upgrade.py:129-137). After a crash between emptying and writing, a second
  upgrade copies the emptied file over the only good copy.
* The cache key of a reminder's text leaves out the current time its prompt states
  (parse.py:191-192), so an old answer lies in the past. Nor is a new one checked: the model's
  `due_at` is stored as it comes (parse.py:202-210), and a date that lies more than a day back
  ("on 12/25/2020") is moved by one day once (parse.py:110-113). Such a reminder fires at the next tick, and
  within a focus too if it is past by `max_defer_minutes`. The budget is checked before a
  call and accounted for after it; one question asked by two callers at once is paid twice.
* A reminder held by the arbiter and marked done by a client is still shown, and becomes
  fired again (store.py:95).
* A correction by the user is superseded when the span waits in a batch (classifier.py:176
  labels it again) or belongs to no session (each restart goes through it again,
  classifier.py:126); CorrectionStands excepts both.
* The signals of a call on the UI thread are shown at once and may overtake those of the
  worker, after which the mascot is wrong until its next change (app.py:185).
* A batch is asked with the intent of its first span (classifier.py:289).
* The API sets the outcome of any session, open or ended, any number of times
  (server.py:248-250, pipeline.py:660-672); that of an open one is overwritten by its end.
* A task is created with whatever hints it is given (tasks.py:119), so that two may differ only
  in case; `add_hint` would not have added the second. Keyword hints neither stop a suggestion
  (tasks.py:265-266) nor take one back.
* `add_hint` compares lower-case stored hints with the app as given (tasks.py:249-250);
  a row id that SQLite gives again makes an old session point to a new task (db.py:78);
  two processes may create tasks with equal keys, between which nothing fits.
* `from_iso` is used in pipeline.py (559, 731, 739) and not imported.
* NativeWatcher looks for another source only when the extension stops answering
  (native.py:77): from xprop, or from no source at all, it never goes back to it.

## 8. Plan

Done, in this order, the most important behaviour first: Arbiter with InterruptBudget
and its proofs; Sessions with FocusPhases and its proofs; Reminders and its proofs;
Spans and Ladder; Control; Migrations; Tasks; LlmGateway; ConfigUpgrade; the two watchers
and Day over them; loading; the calls of the UI thread between two steps of a tick.

What could still be modelled:
1. Ladder composed with Arbiter: a drift alert dropped by its cap is not raised again in
   its run (drift.py:102), so what the user is promised end to end is not stated.
2. The whole tick in one module, in the order of pipeline.py, over the abstract
   specifications.
3. A failing statement of SQLite in the middle of a tick, and the batch's intent.
4. The break bands of the report, which are derived from the sessions.

To prove: every invariant and action property of a run is a theorem. What is left is that
Reminders implements an abstract table of promises, for which such a table has to be
written first, and that the break bands (3. and 4. above), once modelled, agree with the sessions.
