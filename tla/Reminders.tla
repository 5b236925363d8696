------------------------------ MODULE Reminders ------------------------------
(***************************************************************************)
(* Reminders: the table (src/izy/reminders/store.py), when one fires        *)
(* (src/izy/reminders/scheduler.py), and the pipeline's hooks that ask the  *)
(* arbiter to show one and mark it fired once it has (src/izy/pipeline.py). *)
(*                                                                         *)
(* The phase and the contexts it announces are FocusPhases, which Sessions  *)
(* implements.  The arbiter is the queue `waiting' it promises to be        *)
(* (Arbiter's NothingLost and NoOvertaking): a tick shows one reminder, an  *)
(* urgent one first, or none, and only quiet hours drop one.                *)
(*                                                                         *)
(* A change of phase is a step of its own, the checks and the dispatch that *)
(* end a tick are one: the user's answers, which the UI applies between two *)
(* ticks, also come between those here.                                     *)
(*                                                                         *)
(* A row has the age since it came due, negative before, saturating at      *)
(* MaxDefer.  _held needs no variable: it is due_at, forgotten whenever     *)
(* due_at changes.  Not modelled: how a text is read, defer_during_focus    *)
(* switched off, a statement that fails.                                    *)
(***************************************************************************)
EXTENDS FocusPhases, Integers, FiniteSets, Functions

CONSTANTS
  Rems,         \* the reminders there may ever be: the bound of the table
  Triggers,     \* what one may be set for: "time" or a context
  Urgency,      \* whether one may be marked [urgent]
  Leads,        \* how far ahead a time reminder may be set
  Pasts,        \* how long ago its time may have been, up to MaxDefer
  SnoozeLen,    \* snooze_minutes
  MaxDefer      \* max_defer_minutes

ASSUME RemindersAssumption ==
  /\ Triggers \subseteq STRING
  /\ Urgency \subseteq BOOLEAN
  /\ Leads \subseteq Nat /\ SnoozeLen \in Nat /\ MaxDefer \in Nat
  /\ Pasts \subseteq 0..MaxDefer

VARIABLES
  rem,        \* the table: the rows that have been added, by reminder
  waiting,    \* the reminders the arbiter has been asked to show
  bubbles,    \* the reminders on screen, unanswered
  seen,       \* _seen_apps: whether the app was announced in this run
  carried,    \* history: the reminders that waited when the focus began
  touched     \* history: those a client acted on since they wait or are on screen

daemon == <<waiting, bubbles, seen, carried, touched>>
vars == <<phase, notices, rem, daemon>>

(* LIVE: pending or snoozed, which only the trigger and the age tell apart. *)
Live(r) == r \in DOMAIN rem /\ rem[r].status = "live"

(* Seeded fault: any status. *)
DueAnyway == {r \in DOMAIN rem : rem[r].trigger = "time" /\ rem[r].age >= 0}

(* due_by_time, due_by_context *)
Due == {r \in DOMAIN rem : Live(r) /\ rem[r].trigger = "time" /\ rem[r].age >= 0}
DueFor(contexts) == {r \in DOMAIN rem : Live(r) /\ rem[r].trigger \in contexts}

(* Seeded faults: the focus is not protected; nothing overrides it but urgency. *)
MayFireAlways(r) == TRUE
MayFireUrgent(r) == phase # "focus" \/ rem[r].urgent

(* _may_fire_now *)
MayFire(r) == phase # "focus" \/ rem[r].urgent \/ rem[r].age >= MaxDefer

(* mark_fired, mark_done, mark_dismissed (the last two make it "closed"): by  *)
(* id, whatever the status was.                                               *)
Marked(r, status) == [rem EXCEPT ![r] = [@ EXCEPT !.status = status]]

Fired(r) == Marked(r, "fired")

(* snooze: whatever set it off, it is a time reminder now. *)
Snoozed(r) ==
  [rem EXCEPT ![r] = [@ EXCEPT !.status = "live", !.trigger = "time", !.age = - SnoozeLen]]

-----------------------------------------------------------------------------
Init ==
  /\ PhasesInit
  /\ rem = [r \in {} |-> {}]
  /\ waiting = {} /\ bubbles = {} /\ seen = FALSE
  /\ carried = {} /\ touched = {}

(* The age of a time reminder when it is stored.  Its time may have passed:    *)
(* parse_time moves a past date by one day and does not look again, and what   *)
(* the model answers is not looked at.                                         *)
Ages == {0 - lead : lead \in Leads} \cup Pasts

(* add: from a command of the daemon, or by `izy remind' beside it. *)
Add(r, trigger, urgent, age) ==
  /\ r \notin DOMAIN rem
  /\ rem' = [s \in DOMAIN rem \cup {r} |->
        IF s \in DOMAIN rem THEN rem[s]
        ELSE [status |-> "live", trigger |-> trigger, urgent |-> urgent,
              age |-> IF trigger = "time" THEN age ELSE 0]]
  /\ Quiet /\ UNCHANGED daemon

(* Seeded fault: what was held is released only if it may fire during a focus. *)
ReleasedLate == {r \in Due : MayFire(r)}

(* on_boundary: everything that came due during the focus. *)
Released == Due

(* _on_phase_change: each context fires its reminders, and the end of a focus *)
(* also whatever was held.                                                    *)
PhaseChange ==
  /\ Begin \/ Leave \/ Replace \/ Glimpse
  /\ waiting' = waiting \cup DueFor(Range(notices'))
                        \cup (IF "session_end" \in Range(notices') THEN Released ELSE {})
  /\ carried' = IF phase' = "focus" THEN waiting' ELSE {}
  /\ UNCHANGED <<rem, bubbles, seen, touched>>

(* The break is over: nobody is told. *)
BreakOver == Lapse /\ UNCHANGED <<rem, daemon>>

(* The daemon starts; it resumes a session without announcing it. *)
Start == Boot /\ UNCHANGED <<rem, daemon>>

(* It stops or dies: the table is all that is left. *)
Stop ==
  /\ Off
  /\ waiting' = {} /\ bubbles' = {} /\ seen' = FALSE
  /\ carried' = {} /\ touched' = {}
  /\ UNCHANGED rem

(* _check_reminders: the time reminders that may fire, those of an app seen   *)
(* for the first time, those of the end of the day.                           *)
Checked(contexts) == waiting \cup {r \in Due : MayFire(r)} \cup DueFor(contexts)

CheckContexts == {"end_of_day"} \cup (IF seen THEN {} ELSE {"app_opened"})

Urgent(S) == {r \in S : rem[r].urgent}

(* The rest of a tick: reminders are checked, and the arbiter shows one, an   *)
(* urgent one if there is one ...                                             *)
TickShow(r, contexts) ==
  /\ phase # "off"
  /\ rem' = Fired(r)
  /\ bubbles' = bubbles \cup {r} /\ touched' = touched \ {r}
  /\ LET asks == Checked(contexts)
     IN  /\ r \in asks /\ (Urgent(asks) # {} => r \in Urgent(asks))
         /\ waiting' = asks \ {r}
  /\ seen' = (seen \/ "app_opened" \in contexts)
  /\ Quiet /\ UNCHANGED carried

(* ... or none: it is quiet hours, which drop all but the urgent ones, or all *)
(* wait for another gate to open.                                             *)
TickWait(quiet, contexts) ==
  /\ phase # "off"
  /\ LET asks == Checked(contexts)
     IN  waiting' = IF quiet THEN Urgent(asks) ELSE asks
  /\ touched' = touched \cap (waiting' \cup bubbles)
  /\ seen' = (seen \/ "app_opened" \in contexts)
  /\ Quiet /\ UNCHANGED <<rem, bubbles, carried>>

(* The bubble is answered: Done, Snooze, Dismiss or Escape. *)
Answer(r, table) ==
  /\ bubbles' = bubbles \ {r} /\ touched' = touched \cap (waiting \cup bubbles')
  /\ rem' = table
  /\ Quiet /\ UNCHANGED <<waiting, seen, carried>>

(* The same through the API, for any reminder; neither the arbiter's queue   *)
(* nor the screen is told.                                                    *)
ClientAct(r, table) ==
  /\ phase # "off"
  /\ rem' = table
  /\ touched' = touched \cup ({r} \cap (waiting \cup bubbles))
  /\ Quiet /\ UNCHANGED <<waiting, bubbles, seen, carried>>

Responses(r) == {Marked(r, "closed"), Snoozed(r)}

(* Time passes. *)
Elapse ==
  /\ rem' = [r \in DOMAIN rem |->
       [rem[r] EXCEPT !.age = IF rem[r].trigger = "time" /\ @ < MaxDefer THEN @ + 1 ELSE @]]
  /\ Quiet /\ UNCHANGED daemon

Tick ==
  \E contexts \in SUBSET CheckContexts :
    \/ \E r \in DOMAIN rem : TickShow(r, contexts)
    \/ \E quiet \in BOOLEAN : TickWait(quiet, contexts)

Next ==
  \/ \E r \in Rems, t \in Triggers, u \in Urgency, a \in Ages : Add(r, t, u, a)
  \/ PhaseChange
  \/ BreakOver
  \/ Start
  \/ Stop
  \/ Tick
  \/ \E r \in bubbles : \E table \in Responses(r) : Answer(r, table)
  \/ \E r \in DOMAIN rem : \E table \in Responses(r) : ClientAct(r, table)
  \/ Elapse

Spec == Init /\ [][Next]_vars

(* systemd restarts the daemon, time passes, and whatever could be shown      *)
(* again and again is shown at last (Arbiter's EventuallyServed).             *)
FairSpec ==
  /\ Spec
  /\ WF_vars(Start) /\ WF_vars(Elapse)
  /\ \A r \in Rems :
       SF_vars(r \in DOMAIN rem /\ \E contexts \in SUBSET CheckContexts : TickShow(r, contexts))

-----------------------------------------------------------------------------
Row == [status : {"live", "fired", "closed"},
        trigger : Triggers \cup {"time"}, urgent : BOOLEAN, age : Int]

(* Every variable has its type, and what is on screen has been marked fired   *)
(* (unless a client has marked it since).                                     *)
TypeOK ==
  /\ phase \in {"off", "idle", "focus", "break"}
  /\ DOMAIN rem \subseteq Rems /\ rem \in [DOMAIN rem -> Row]
  /\ waiting \subseteq DOMAIN rem /\ carried \subseteq DOMAIN rem
  /\ bubbles \subseteq DOMAIN rem /\ touched \subseteq waiting \cup bubbles
  /\ \A r \in bubbles \ touched : rem[r].status = "fired"
  /\ seen \in BOOLEAN
  /\ phase = "off" => waiting = {} /\ bubbles = {}

(* The arbiter's queue and the table agree: what waits to be shown can still  *)
(* fire, and has come due if it is set for a time - but for what a client     *)
(* acted on, which is never withdrawn.                                        *)
WaitingIsLive ==
  \A r \in waiting \ touched : Live(r) /\ (rem[r].trigger = "time" => rem[r].age >= 0)

(* During a focus no time reminder that is neither urgent nor MaxDefer late   *)
(* asks to be shown, but for those that already waited when the focus began   *)
(* and those a client acted on.                                               *)
OnlyCarried ==
  \A r \in waiting \ (carried \cup touched) :
    phase = "focus" /\ rem[r].trigger = "time" => rem[r].urgent \/ rem[r].age >= MaxDefer

(* However a focus ends - by the user, its time, or another process - all     *)
(* that came due in it is asked for, and all that was set for its end or for  *)
(* the break.                                                                 *)
ReleasedAtBoundary ==
  [][ phase = "focus" /\ phase' \notin {"focus", "off"} =>
        \A r \in DOMAIN rem :
          Live(r) /\ \/ rem[r].trigger = "time" /\ rem[r].age >= 0
                     \/ rem[r].trigger = "session_end"
                     \/ rem[r].trigger = "on_break" /\ phase' = "break"
          => r \in waiting' ]_vars

(* A reminder that has come due is shown, although crashes and quiet hours    *)
(* throw it out of the queue, and even if the focus never ends.               *)
EventuallyFires ==
  \A r \in Rems : (r \in Due) ~> (r \notin Due)
=============================================================================
