-------------------------------- MODULE Spans --------------------------------
(***************************************************************************)
(* The tracker (src/izy/tracker.py): snapshots of the focused window become *)
(* rows of activity_events, one per span.  They come from one of two        *)
(* watchers (src/izy/watchers), which differ in the time they stamp on a    *)
(* snapshot: the native one the moment of the poll, the one that reads      *)
(* ActivityWatch the start of the event it reports.                         *)
(*                                                                         *)
(* The tracker is called twice in a tick of the pipeline, by the change of  *)
(* session a command or the resync brings and with the snapshot, and once   *)
(* more when the session overruns; its handlers are therefore operators on  *)
(* its state t = [rows, span, session], which a tick composes.              *)
(*                                                                         *)
(* A window is one value of Snapshot.key; Away is every key with afk set.   *)
(* A row is credited with the time from `start' to `end'; `seen', which the *)
(* table does not hold, is the stamp of the last snapshot that showed it.   *)
(* Not modelled: a wall clock that steps back, a statement that fails, and  *)
(* how the native watcher finds the window: its sources are one answer.     *)
(***************************************************************************)
EXTENDS Integers, Sequences, Functions

CONSTANTS
  Watcher,      \* what pick_watcher chose: "native" or "activitywatch"
  Windows,      \* the keys of a present user
  Away,         \* the keys of an absent one
  Nothing,      \* the watcher returned None, or raised
  Sessions,     \* the bound of the session ids, 1..Sessions; 0 is None
  Stale,        \* stale_after_s
  FlushEvery,   \* flush_interval_s
  Gaps,         \* the time that may pass between two ticks
  MaxTime,      \* the bound of the clock
  MaxRows       \* the bound of the events

ASSUME SpansAssumption ==
  /\ Watcher \in {"native", "activitywatch"}
  /\ Away \notin Windows /\ Nothing \notin Windows \cup {Away}
  /\ Sessions \in Nat /\ FlushEvery \in Nat
  /\ Stale \in Nat \ {0}   \* at least a minute, src/izy/pipeline.py:80
  /\ Gaps \subseteq Nat /\ Gaps # {}
  /\ MaxTime \in Nat /\ MaxRows \in Nat

VARIABLES
  now,        \* the clock
  event,      \* external: the latest event of ActivityWatch's window bucket
  since,      \* history: when the tracker's session last changed
  rows,       \* activity_events
  span,       \* the open span, by its row and its last flush, or NoSpan
  session     \* _session_id

spanVars == <<now, event, since, rows, span, session>>

(* No event: ActivityWatch is not there, or not asked. *)
NoEvent == [window |-> Nothing, at |-> 0]

NoSpan == [row |-> 0, flushed |-> 0]
Tracked == [rows |-> rows, span |-> span, session |-> session]

SessionIds == 0..Sessions
Keys == Windows \cup {Away}

Earlier(a, b) == IF a < b THEN a ELSE b

IsOpen(t) == t.span # NoSpan
OpenRow(t) == t.rows[t.span.row]

(* _write_duration: never negative. *)
Credited(t, end) ==
  [t.rows EXCEPT ![t.span.row].end =
     IF end > OpenRow(t).start THEN end ELSE OpenRow(t).start]

(* _close_span *)
Closed(t, end) ==
  IF IsOpen(t) THEN [t EXCEPT !.rows = Credited(t, end), !.span = NoSpan] ELSE t

(* db.open_event, _open_span *)
Opened(t, key, ts) ==
  [t EXCEPT !.rows = Append(@, [session |-> t.session, key |-> key,
                                start |-> ts, end |-> ts, seen |-> ts]),
            !.span = [row |-> Len(t.rows) + 1, flushed |-> ts]]

(* Seeded fault: the span goes on across the boundary. *)
InSessionKept(t, s, time) == [t EXCEPT !.session = s]

(* set_session: a boundary closes the span where the clock is. *)
InSession(t, s, time) ==
  IF s = t.session THEN t ELSE [Closed(t, time) EXCEPT !.session = s]

(* Seeded fault: the gap is over when the watcher answers again. *)
GapIgnored(t, time) == t

(* _handle_gap: a span nobody has seen for Stale ends at its last sighting. *)
Gap(t, time) ==
  IF IsOpen(t) /\ time - OpenRow(t).seen >= Stale THEN Closed(t, OpenRow(t).seen) ELSE t

(* Seeded fault: a sighting counts as a flush. *)
SeenAgainLazily(t, at, time) ==
  [t EXCEPT !.rows[t.span.row].seen = at, !.span.flushed = time]

(* tick, the same key: seen again, and flushed (_flush) when it is time to.   *)
SeenAgain(t, at, time) ==
  LET s == [t EXCEPT !.rows[t.span.row].seen = at]
  IN IF time - t.span.flushed >= FlushEvery
     THEN [s EXCEPT !.rows = Credited(s, Earlier(time, at + Stale)), !.span.flushed = time]
     ELSE s

(* tick *)
Sighted(t, snap, time) ==
  IF snap = Nothing THEN Gap(t, time)
  ELSE IF ~IsOpen(t) THEN Opened(t, snap.key, snap.at)
  ELSE IF snap.key = OpenRow(t).key THEN SeenAgain(t, snap.at, time)
  ELSE Opened(Closed(t, snap.at), snap.key, snap.at)

-----------------------------------------------------------------------------
(* The watchers.  A poll returns a snapshot [key, at], or Nothing: no window  *)
(* is focused, or a source does not answer.                                   *)

(* What ActivityWatch may have for its latest event at `time': the one it     *)
(* had, or one for a window that got the focus since the last poll.           *)
LatestEvents(time) ==
  IF Watcher = "native" THEN {NoEvent}
  ELSE {event} \cup [window : Windows, at : (now + 1)..time]

(* ActivityWatchWatcher.poll: the window and the start of the latest event,   *)
(* and whether the user is away, which another bucket tells.                  *)
Reported(e) ==
  IF e = NoEvent THEN {Nothing} ELSE [key : {e.window, Away}, at : {e.at}] \cup {Nothing}

(* NativeWatcher.poll: what the compositor tells, at the moment of the poll.  *)
Sampled(time) == [key : Keys, at : {time}] \cup {Nothing}

Snapshots(e, time) == IF Watcher = "native" THEN Sampled(time) ELSE Reported(e)

-----------------------------------------------------------------------------
(* What the pipeline does with the tracker. *)

(* The session a tick may find when it starts, by a command, the UI or the   *)
(* resync: the same, none, or a new one, which has no rows yet.              *)
Unused == {s \in 1..Sessions : s # session /\ \A r \in DOMAIN rows : rows[r].session # s}
NextSessions == {session, 0} \cup {s \in Unused : \A u \in Unused : s <= u}

(* A tick of the tracker: the session of the moment, the snapshot, and an    *)
(* overrun, which ends the session after the poll.                           *)
TickOf(s, snap, overrun, time) ==
  LET t == Sighted(InSession(Tracked, s, time), snap, time)
  IN IF overrun THEN InSession(t, 0, time) ELSE t

(* The first tick: an empty table, the session a command line process may     *)
(* have opened, and the first poll.                                           *)
SpansInit ==
  /\ now = 0 /\ since = 0
  /\ event \in IF Watcher = "native" THEN {NoEvent} ELSE [window : Windows, at : {0}]
  /\ session \in {0, 1} \cap SessionIds
  /\ \E snap \in Snapshots(event, 0) \ {Nothing} :
       LET t == Opened([rows |-> <<>>, span |-> NoSpan, session |-> session], snap.key, snap.at)
       IN rows = t.rows /\ span = t.span

(* What a tick at `time', which polled the event e, leaves. *)
SpansBecome(t, e, time) ==
  /\ event' = e
  /\ time <= MaxTime /\ Len(t.rows) <= MaxRows
  /\ now' = time
  /\ rows' = t.rows /\ span' = t.span /\ session' = t.session
  /\ since' = IF t.session = session THEN since ELSE time

(* worker.stop -> pipeline.stop -> tracker.stop closes the span; a crash     *)
(* leaves its row as the last flush wrote it.  The next start finds the      *)
(* session open, or closes it (sessions.recover).                            *)
SpansRestart(clean, keep) ==
  /\ ~keep => session # 0
  /\ rows' = (IF clean THEN Closed(Tracked, now) ELSE Tracked).rows
  /\ span' = NoSpan
  /\ session' = IF keep THEN session ELSE 0
  /\ since' = IF keep THEN since ELSE now
  /\ UNCHANGED <<now, event>>

-----------------------------------------------------------------------------
(* Spans neither overlap nor straddle two sessions ("an event never straddles *)
(* two sessions and 'time spent on this intent' stays exact",                 *)
(* src/izy/tracker.py:60-61): each ends before the next starts, the open one  *)
(* started in the session of the moment, and what another session was         *)
(* credited with ended no later than that session did.                        *)
SpansExact ==
  /\ \A r, q \in DOMAIN rows : r < q => rows[r].end <= rows[q].start
  /\ \A r \in DOMAIN rows :
       /\ rows[r].session # session => rows[r].end <= since
       /\ span.row = r => rows[r].session = session /\ rows[r].start >= since

(* A crash loses less than a flush interval of a span the watcher confirmed   *)
(* ("Whatever the flush interval is, that is the most a hard crash can lose", *)
(* src/tests/test_tracker.py:102): what is in the table is at most that far   *)
(* behind the last sighting, in every row at every moment.                    *)
CrashLoses == \A r \in DOMAIN rows : rows[r].seen - rows[r].end < FlushEvery

(* A span is credited with less than Stale, and the pause of the tick that    *)
(* closes it, beyond its last sighting, whatever closes it: the gap itself, a *)
(* session boundary or a clean stop ("rather than being credited with time we *)
(* cannot vouch for", src/izy/tracker.py:42-43).                              *)
Vouched ==
  \A r \in DOMAIN rows : \E pause \in Gaps : rows[r].end - rows[r].seen < Stale + pause
=============================================================================
