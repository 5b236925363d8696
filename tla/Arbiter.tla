------------------------------- MODULE Arbiter -------------------------------
(***************************************************************************)
(* The interrupt arbiter (src/izy/interrupts/arbiter.py), the one place     *)
(* where anything reaches the screen, together with the pipeline step that  *)
(* calls it (src/izy/pipeline.py, _dispatch_interrupts), the popups that    *)
(* answer it, and the durable interrupt_log it reads its history from.      *)
(*                                                                         *)
(* Producers Submit requests; each Tick dispatches them with the            *)
(* held ones, runs the gates, shows at most one and holds or drops the      *)
(* rest.  A shown request occupies a single slot until it is acknowledged;  *)
(* an acknowledgement names no request, and a slot nobody acknowledges is   *)
(* freed after StaleAfter.  The daemon may restart at any moment.           *)
(*                                                                         *)
(* Time is an integer clock in an arbitrary unit that may also step back    *)
(* (a wall clock).  `shown' is the whole history of SHOW decisions; the     *)
(* program itself only sees the two parts of it given by the index sets     *)
(* inLog (rows of interrupt_log) and inMem (the list _mem_shown).           *)
(* Not modelled: expires_at, which no caller sets, and the text of reasons. *)
(***************************************************************************)
EXTENDS Integers, Sequences, FiniteSets

CONSTANTS
  Keys,          \* dedupe keys ("drift:7", "reminder:3", ...)
  NoKey,         \* the free slot (None)
  Asks,          \* the [kind, key] pairs the producers may submit
  Caps,          \* [kind |-> most shows per Hour], for the capped kinds only
  Contexts,      \* the [quiet, deep, fullscreen, afk] a tick may find
  Cooldown,      \* global_cooldown_s
  StaleAfter,    \* STALE_ACTIVE_S
  Hour,          \* the window of the per-kind caps
  Forget,        \* age at which _mem_shown is pruned (two hours)
  Steps,         \* what the wall clock may move by between two ticks
  MaxTime,       \* bound: the clock stays in 0..MaxTime
  MaxRestarts,   \* bound: how often the daemon restarts
  LogOutcomes,   \* whether the INSERT into interrupt_log may fail
  ClientAcks     \* TRUE: API clients may acknowledge too

(* PRIORITY: higher shows first and clears more gates. *)
Priority == [ urgent_reminder |-> 100, session_overrun |-> 90, reminder |-> 70,
              drift |-> 50, self_label |-> 30, pomodoro |-> 20, message |-> 10 ]

Kinds == DOMAIN Priority

(* The kinds that carry a STATUS event: nothing to answer, so the pipeline   *)
(* acknowledges them itself.                                                 *)
SelfAcknowledged == {"message"}

Context == [quiet : BOOLEAN, deep : BOOLEAN, fullscreen : BOOLEAN, afk : BOOLEAN]
Request == [kind : Kinds, key : Keys, at : Int]
Show    == [kind : Kinds, key : Keys, at : Int, run : Nat]

ASSUME ArbiterAssumption ==
  /\ NoKey \notin Keys
  /\ Asks \subseteq [kind : Kinds, key : Keys]
  /\ DOMAIN Caps \subseteq Kinds
  /\ \A k \in DOMAIN Caps : Caps[k] \in Nat \ {0}
  /\ Contexts \subseteq Context
  /\ {Cooldown, StaleAfter, Hour} \subseteq Nat \ {0}
  /\ Forget \in Nat /\ Forget >= Hour
  /\ Steps \subseteq Int
  /\ MaxTime \in Nat /\ MaxRestarts \in Nat
  /\ LogOutcomes \subseteq BOOLEAN /\ ClientAcks \in BOOLEAN

VARIABLES
  clock,        \* the wall clock
  ctx,          \* what the next tick finds: quiet hours, deep work, fullscreen, AFK
  run,          \* how many times the daemon has restarted
  pending,      \* _pending: submitted since the last dispatch
  hold,         \* _hold: deferred by the last dispatch
  active,       \* _active: the key that occupies the slot, or NoKey
  activeSince,  \* _active_since (None is 0)
  shown,        \* history: every SHOW so far, oldest first
  inMem,        \* indices of `shown' that are in _mem_shown
  inLog,        \* indices of `shown' that have a row in interrupt_log
  screen        \* the keys whose popup is open, unanswered

vars == <<clock, ctx, run, pending, hold, active, activeSince, shown, inMem, inLog, screen>>

-----------------------------------------------------------------------------
(* What the gates read. *)

Prio(r) == Priority[r.kind]

(* The newest entry of an index set: _mem_shown[-1], or ORDER BY id DESC. *)
Newest(S) == shown[CHOOSE i \in S : \A j \in S : j <= i].at

(* _last_shown_at: the later of the durable and the in-memory answer. *)
LastShownAt ==
  IF inLog # {} /\ inMem # {}
  THEN IF Newest(inLog) >= Newest(inMem) THEN Newest(inLog) ELSE Newest(inMem)
  ELSE Newest(inLog \cup inMem)

(* Seeded faults: the cooldown forgets the durable, or the in-memory, history. *)
CoolingDownInMemory == inMem # {} /\ clock - Newest(inMem) < Cooldown
CoolingDownInLog == inLog # {} /\ clock - Newest(inLog) < Cooldown

CoolingDown ==
  /\ inLog \cup inMem # {}
  /\ clock - LastShownAt < Cooldown

ShownSince(S, k, t) == {i \in S : shown[i].kind = k /\ shown[i].at >= t}

(* Seeded fault: the cap is counted afresh after a restart. *)
CapReachedInMemory(k) ==
  k \in DOMAIN Caps /\ Cardinality(ShownSince(inMem, k, clock - Hour)) >= Caps[k]

(* _shown_last_hour: the larger of the two counts. *)
CapReached(k) ==
  /\ k \in DOMAIN Caps
  /\ \/ Cardinality(ShownSince(inMem, k, clock - Hour)) >= Caps[k]
     \/ Cardinality(ShownSince(inLog, k, clock - Hour)) >= Caps[k]

(* Seeded faults: a slot is taken for stale too early, or never. *)
SlotHasty == IF active # NoKey /\ clock - activeSince >= Cooldown THEN NoKey ELSE active
SlotForever == active

(* _expire_stale_active: what the slot holds once a stale one is cleared. *)
Slot == IF active # NoKey /\ clock - activeSince >= StaleAfter THEN NoKey ELSE active

(* Seeded fault: the cap is tested before the gates that defer. *)
VerdictCapFirst(r) ==
  IF (Slot # NoKey /\ Slot # r.key) \/ CoolingDown        THEN "defer"
  ELSE IF (Prio(r) < 90 /\ ctx.quiet) \/ CapReached(r.kind) THEN "drop"
  ELSE IF ctx.deep \/ ctx.fullscreen \/ ctx.afk           THEN "defer"
  ELSE "show"

(* _gate, in its order; gate 1 lets the key that is on screen through. *)
Verdict(r) ==
  IF (Slot # NoKey /\ Slot # r.key) \/ CoolingDown        THEN "defer"
  ELSE IF Prio(r) < 90 /\ ctx.quiet                       THEN "drop"
  ELSE IF \/ Prio(r) < 90 /\ ctx.deep
          \/ Prio(r) < 100 /\ ctx.fullscreen
          \/ ctx.afk                                      THEN "defer"
  ELSE IF CapReached(r.kind)                              THEN "drop"
  ELSE "show"

-----------------------------------------------------------------------------
(* _collect: one candidate per key; among equals the held one stays, and a   *)
(* fresh one replaces it only with a strictly higher priority.               *)
Candidates ==
  {h \in hold : ~ \E p \in pending : p.key = h.key /\ Prio(p) > Prio(h)}
  \cup
  {p \in pending : /\ ~ \E h \in hold : h.key = p.key /\ Prio(h) >= Prio(p)
                   /\ ~ \E q \in pending : q.key = p.key /\ Prio(q) > Prio(p)}

(* The sort key of dispatch.  Requests that tie on both are of one kind; the *)
(* code keeps their insertion order, the model either.                       *)
Precedes(a, b) == Prio(a) > Prio(b) \/ (Prio(a) = Prio(b) /\ a.at < b.at)

(* Seeded fault: the candidates are not sorted. *)
FirstsUnsorted(S) == S

Firsts(S) == {r \in S : ~ \E s \in S : Precedes(s, r)}

-----------------------------------------------------------------------------
Init ==
  /\ clock = 0 /\ ctx \in Contexts /\ run = 0
  /\ pending = {} /\ hold = {}
  /\ active = NoKey /\ activeSince = 0
  /\ shown = <<>> /\ inMem = {} /\ inLog = {} /\ screen = {}

(* submit: a producer of the pipeline registers a request.  A request made   *)
(* twice before the next dispatch is the same request.                       *)
Submit(a) ==
  /\ ~ \E p \in pending : p.kind = a.kind /\ p.key = a.key
  /\ pending' = pending \cup {[kind |-> a.kind, key |-> a.key, at |-> clock]}
  /\ UNCHANGED <<clock, ctx, run, hold, active, activeSince, shown, inMem, inLog, screen>>

(* dispatch, when some candidate passes every gate: the first in order is    *)
(* shown and everything behind it waits, whatever its own verdict.           *)
DispatchShow ==
  \E r \in Firsts({s \in Candidates : Verdict(s) = "show"}), logged \in LogOutcomes :
    LET n == Len(shown) + 1
        acked == r.kind \in SelfAcknowledged
    IN  /\ shown' = Append(shown, [kind |-> r.kind, key |-> r.key, at |-> clock, run |-> run])
        /\ inLog' = IF logged THEN inLog \cup {n} ELSE inLog
        /\ inMem' = {i \in inMem : shown[i].at >= clock - Forget} \cup {n}
        /\ hold' = {s \in Candidates \ {r} : Verdict(s) # "drop" \/ Precedes(r, s)}
        /\ pending' = {}
        /\ active' = IF acked THEN NoKey ELSE r.key
        /\ activeSince' = IF acked THEN 0 ELSE clock
        /\ screen' = IF acked THEN screen ELSE screen \cup {r.key}
        /\ UNCHANGED run

(* dispatch, when none does. *)
DispatchNone ==
  /\ \A s \in Candidates : Verdict(s) # "show"
  /\ hold' = {s \in Candidates : Verdict(s) = "defer"}
  /\ pending' = {}
  /\ active' = Slot
  /\ activeSince' = IF Slot = NoKey THEN 0 ELSE activeSince
  /\ UNCHANGED <<run, shown, inMem, inLog, screen>>

Dispatch == DispatchShow \/ DispatchNone

(* Until the next tick the wall clock moves, possibly backwards, and what    *)
(* that tick will find changes.  At the bound MaxTime the clock stands still. *)
Elapse(d, c) ==
  /\ clock' = IF clock + d \in 0..MaxTime THEN clock + d ELSE clock
  /\ ctx' = c

(* The end of one tick: what was submitted since the last one is dispatched  *)
(* at one reading of the clock, then time passes until the next.             *)
Tick == Dispatch /\ \E d \in Steps, c \in Contexts : Elapse(d, c)

(* The user answers an open popup: its slot handler acknowledges, and the    *)
(* acknowledgement clears the slot whoever occupies it.                      *)
Answer(k) ==
  /\ screen' = screen \ {k}
  /\ active' = NoKey /\ activeSince' = 0
  /\ UNCHANGED <<clock, ctx, run, pending, hold, shown, inMem, inLog>>

(* A popup goes away with no signal (closed, skipped): the ack is lost. *)
CloseSilently(k) ==
  /\ screen' = screen \ {k}
  /\ UNCHANGED <<clock, ctx, run, pending, hold, active, activeSince, shown, inMem, inLog>>

(* reminder_done, record_outcome, ... queued by an API client acknowledge    *)
(* too, although the client answered nothing that is on screen.              *)
ClientAck ==
  /\ ClientAcks
  /\ active # NoKey
  /\ active' = NoKey /\ activeSince' = 0
  /\ UNCHANGED <<clock, ctx, run, pending, hold, shown, inMem, inLog, screen>>

(* The daemon dies and is started again: only interrupt_log survives. *)
Restart ==
  /\ run < MaxRestarts
  /\ run' = run + 1
  /\ pending' = {} /\ hold' = {}
  /\ active' = NoKey /\ activeSince' = 0
  /\ inMem' = {} /\ screen' = {}
  /\ UNCHANGED <<clock, ctx, shown, inLog>>

Next ==
  \/ \E a \in Asks : Submit(a)
  \/ Tick
  \/ \E k \in screen : Answer(k)
  \/ \E k \in screen : CloseSilently(k)
  \/ ClientAck
  \/ Restart

Spec == Init /\ [][Next]_vars

-----------------------------------------------------------------------------
(* Every variable has its type, index sets point into the history, and the   *)
(* hold queue has one request per dedupe key.                                *)
TypeOK ==
  /\ clock \in Int /\ ctx \in Context /\ run \in Nat
  /\ pending \subseteq Request /\ hold \subseteq Request
  /\ \A r, s \in hold : r.key = s.key => r = s
  /\ active \in Keys \cup {NoKey} /\ activeSince \in Int
  /\ shown \in Seq(Show)
  /\ inMem \subseteq 1..Len(shown)
  /\ inLog \subseteq 1..Len(shown)
  /\ screen \subseteq Keys

(* The keys that ask for attention: submitted or held. *)
Waiting == {r.key : r \in hold \cup pending}

Budget == INSTANCE InterruptBudget WITH waiting <- Waiting, recorded <- inLog

(* Gate 2 over whole histories: any two interrupts, of any kinds, are        *)
(* Cooldown apart - across restarts, whatever the wall clock does, and even  *)
(* when the INSERT of one fails, as long as the daemon has not restarted     *)
(* since.                                                                    *)
Spaced == \A n \in 1..Len(shown) : Budget!WithinCooldown(shown, inLog, n)

(* Gate 7 over whole histories: no Hour holds more shows of a capped kind    *)
(* than its cap, counted across restarts over interrupt_log, and within one  *)
(* run of the daemon over what was really shown.                             *)
Capped == \A n \in 1..Len(shown) : Budget!WithinCap(shown, inLog, n)

(* The arbiter implements the one shared budget. *)
ImplementsBudget == Budget!BudgetSpec

(* A shown request outranks everything that was waiting, oldest first among  *)
(* equals: a candidate that precedes it is only passed over when its kind is *)
(* over its cap, or when the shown one re-uses the slot of its own popup.    *)
NoOvertaking ==
  [][ Len(shown') > Len(shown) =>
        LET s == shown'[Len(shown')]
        IN  \A r, c \in Candidates :
              \/ c.key # s.key
              \/ Prio(r) < Prio(c) \/ (Prio(r) = Prio(c) /\ r.at >= c.at)
              \/ CapReached(r.kind) \/ Slot = s.key ]_vars

(* No request is lost: one that waits before a step waits after it, has been *)
(* shown by it, or may be dropped (quiet hours below 90, cap exhausted) - and *)
(* never while the cooldown alone would have held it.  Only a restart forgets. *)
NothingLost ==
  [][ \A k \in Waiting \ Waiting' :
        \/ run' # run
        \/ Len(shown') > Len(shown) /\ shown'[Len(shown')].key = k
        \/ \E r \in Candidates : /\ r.key = k /\ ~ CoolingDown
                                 /\ \/ Prio(r) < 90 /\ ctx.quiet
                                    \/ CapReached(r.kind) /\ ~ ctx.afk ]_vars

(* Gate 1, for a user who answers or closes every popup before it is stale   *)
(* (PromptUser), and for what is not asked again while its popup holds the   *)
(* slot (FiredOnce; a reminder is marked fired when it is shown): two popups *)
(* are never on screen together.                                             *)
OneAtATime == Cardinality(screen) <= 1

PromptUser == screen' # {} => clock' - activeSince' < StaleAfter
FiredOnce == \A p \in pending' \ pending : p.key # active
=============================================================================
