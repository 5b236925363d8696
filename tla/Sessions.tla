------------------------------ MODULE Sessions ------------------------------
(***************************************************************************)
(* Focus sessions (src/izy/sessions.py) over the sessions table             *)
(* (src/izy/db.py), shared by two kinds of process: the daemon, which keeps *)
(* the current session and the break in memory and re-reads the table only  *)
(* every RESYNC_EVERY_S (src/izy/pipeline.py), and any number of `izy       *)
(* start' and `izy stop' processes (src/izy/commands/session.py), which     *)
(* write to the table directly, one autocommitted statement at a time.      *)
(*                                                                         *)
(* A session is its row number.  The daemon's steps are atomic: each reads  *)
(* the table at most once and then writes only the row it owns, so a        *)
(* statement of another process in between could as well come before or     *)
(* after.  Times are ages, saturating at AgeCap and ResyncEvery, since the  *)
(* code only ever compares differences.  Not modelled: intents, the task of *)
(* a session, end_break (no caller), a statement that fails.                *)
(***************************************************************************)
EXTENDS Integers, Sequences, FiniteSets

CONSTANTS
  Clis,          \* the command line processes
  Plans,         \* planned_minutes a session may be started with
  Grace,         \* auto_close_after_minutes
  BreakLen,      \* break_minutes
  ResyncEvery,   \* RESYNC_EVERY_S
  Outcomes,      \* OUTCOMES
  None,          \* no outcome (NULL)
  Steps,         \* how much time may pass at once
  AgeCap,        \* bound: ages saturate here, above every limit they meet
  MaxSessions,   \* bound: rows of the table; at the bound none is inserted
  MaxCrashes     \* bound: how often the daemon dies

Running == -1    \* the length of a session that has not ended

ASSUME SessionsAssumption ==
  /\ Plans \subseteq Nat \ {0}
  /\ {Grace, BreakLen, ResyncEvery, AgeCap, MaxSessions, MaxCrashes} \subseteq Nat
  /\ \A p \in Plans : p + Grace < AgeCap
  /\ None \notin Outcomes
  /\ Steps \subseteq Nat

VARIABLES
  sess,         \* the sessions table
  up,           \* whether the daemon runs
  mine,         \* its current session, or 0
  breakLeft,    \* break_until, as the time left; 0 is no break
  sinceResync,  \* the age of _last_resync
  lastPhase,    \* _last_phase
  asked,        \* the sessions whose outcome prompt was requested, unanswered
  cli,          \* what each command line process is about to do
  crashes,      \* how often the daemon has died
  notices       \* the contexts announced by the last step, in order

daemon == <<up, mine, breakLeft, sinceResync, lastPhase, asked, crashes>>
vars == <<sess, daemon, cli, notices>>

Session == [plan : Plans, age : 0..AgeCap, length : {Running} \cup (0..AgeCap),
            outcome : Outcomes \cup {None}]

IsOpen(s, i) == s[i].length = Running
OpenRows(s) == {i \in DOMAIN s : IsOpen(s, i)}

(* Seeded fault: latest_session instead of open_session. *)
NewestLatest(s) == Len(s)

(* open_session: the newest open row, or 0. *)
Newest(s) ==
  IF OpenRows(s) = {} THEN 0
  ELSE CHOOSE i \in OpenRows(s) : \A j \in OpenRows(s) : j <= i

(* Seeded fault: end_session without AND ended_at IS NULL. *)
EndedAnyway(s, i, length, outcome) ==
  [s EXCEPT ![i] = [@ EXCEPT !.length = length, !.outcome = outcome]]

(* end_session: a row that has already ended keeps its end and its outcome. *)
Ended(s, i, length, outcome) ==
  IF IsOpen(s, i) THEN [s EXCEPT ![i] = [@ EXCEPT !.length = length, !.outcome = outcome]]
  ELSE s

Started(s, plan) ==
  Append(s, [plan |-> plan, age |-> 0, length |-> Running, outcome |-> None])

IsStale(s, i) == s[i].age > s[i].plan + Grace

-----------------------------------------------------------------------------
(* The daemon. *)

PhaseOf(current, left) ==
  IF current # 0 THEN "focus" ELSE IF left > 0 THEN "break" ELSE "idle"

Phase == IF up THEN PhaseOf(mine, breakLeft) ELSE "off"

AfterFocus == PhaseOf(0, BreakLen)

(* contexts_for_phase_change, as _on_phase_change calls it. *)
Contexts(old, new) ==
  (IF new = "focus" /\ old # "focus" THEN <<"session_start">> ELSE <<>>)
  \o (IF old = "focus" /\ new # "focus" THEN <<"session_end">> ELSE <<>>)
  \o (IF new = "break" THEN <<"on_break">> ELSE <<>>)

(* The process starts: recover resumes the newest open session, or closes it *)
(* at the end of its grace; whatever was announced before is forgotten.      *)
DaemonStart ==
  /\ ~ up
  /\ up' = TRUE
  /\ LET i == Newest(sess)
     IN  IF i # 0 /\ IsStale(sess, i)
         THEN sess' = Ended(sess, i, sess[i].plan + Grace, None) /\ mine' = 0
         ELSE sess' = sess /\ mine' = i
  /\ lastPhase' = PhaseOf(mine', 0)
  /\ notices' = <<>>
  /\ breakLeft' = 0 /\ sinceResync' = ResyncEvery /\ asked' = {}
  /\ UNCHANGED <<cli, crashes>>

(* start: ends the running session first (which begins a break), then inserts. *)
UserStart(plan) ==
  /\ up /\ Len(sess) < MaxSessions
  /\ LET ended == IF mine = 0 THEN sess ELSE Ended(sess, mine, sess[mine].age, None)
         atEnd == IF mine = 0 THEN lastPhase ELSE AfterFocus
     IN  /\ sess' = Started(ended, plan)
         /\ mine' = Len(sess) + 1
         /\ notices' = (IF mine = 0 THEN <<>> ELSE Contexts(lastPhase, AfterFocus))
                       \o Contexts(atEnd, "focus")
  /\ breakLeft' = 0 /\ lastPhase' = "focus"
  /\ UNCHANGED <<up, sinceResync, asked, cli, crashes>>

(* end, with an outcome or without: a no-op when no session runs. *)
UserEnd(outcome) ==
  /\ up /\ mine # 0
  /\ sess' = Ended(sess, mine, sess[mine].age, outcome)
  /\ mine' = 0 /\ breakLeft' = BreakLen
  /\ lastPhase' = AfterFocus /\ notices' = Contexts(lastPhase, AfterFocus)
  /\ UNCHANGED <<up, sinceResync, asked, cli, crashes>>

(* record_outcome, for the session of the prompt; whether it has ended or not. *)
Answer(i, outcome) ==
  /\ up
  /\ sess' = [sess EXCEPT ![i] = [@ EXCEPT !.outcome = outcome]]
  /\ asked' = asked \ {i}
  /\ notices' = <<>>
  /\ UNCHANGED <<up, mine, breakLeft, sinceResync, lastPhase, cli, crashes>>

(* record_outcome of an API client: the session with the id it names, any     *)
(* one and as often as it likes, or the latest when it names none.  An id     *)
(* that no row has changes nothing.                                           *)
ApiOutcome(i, outcome) ==
  /\ up
  /\ sess' = [sess EXCEPT ![i] = [@ EXCEPT !.outcome = outcome]]
  /\ notices' = <<>>
  /\ UNCHANGED <<daemon, cli>>

(* Seeded fault: a session that ended elsewhere begins no break. *)
BreakAfterNone(theirs) == IF theirs # 0 THEN 0 ELSE breakLeft

(* resync: the break it leaves when it adopts the table's view. *)
BreakAfter(theirs) ==
  IF theirs # 0 THEN 0
  ELSE IF mine # 0 THEN BreakLen
  ELSE breakLeft

(* One tick: resync if it is due, then the overrun check, which ends the     *)
(* session and asks for its outcome.                                         *)
Tick ==
  LET due     == sinceResync >= ResyncEvery
      i       == IF due THEN Newest(sess) ELSE mine
      changed == i # mine
      left    == IF changed THEN BreakAfter(i) ELSE breakLeft
      seen    == IF changed THEN PhaseOf(i, left) ELSE lastPhase
      said    == IF changed THEN Contexts(lastPhase, seen) ELSE <<>>
      overrun == i # 0 /\ sess[i].age >= sess[i].plan
  IN  /\ up
      /\ sinceResync' = IF due THEN 0 ELSE sinceResync
      /\ IF overrun
         THEN /\ sess' = Ended(sess, i, sess[i].age, None)
              /\ mine' = 0 /\ breakLeft' = BreakLen
              /\ asked' = asked \cup {i}
              /\ lastPhase' = AfterFocus
              /\ notices' = said \o Contexts(seen, AfterFocus)
         ELSE /\ sess' = sess
              /\ mine' = i /\ breakLeft' = left
              /\ asked' = asked
              /\ lastPhase' = seen
              /\ notices' = said
      /\ UNCHANGED <<up, cli, crashes>>

(* The daemon dies, at any moment between two of its steps. *)
Crash ==
  /\ up /\ crashes < MaxCrashes
  /\ crashes' = crashes + 1
  /\ up' = FALSE
  /\ mine' = 0 /\ breakLeft' = 0 /\ lastPhase' = "none" /\ asked' = {}
  /\ notices' = <<>>
  /\ UNCHANGED <<sess, sinceResync, cli>>

-----------------------------------------------------------------------------
(* The command line: recover reads the table, then the row read is ended,    *)
(* then - `izy start' only - a new one is inserted.                          *)

Idle == [pc |-> "idle"]

(* cmd_start: nothing to end, or a row to end, stale or not. *)
CliStart(c, plan) ==
  /\ cli[c] = Idle /\ Len(sess) < MaxSessions
  /\ LET i == Newest(sess)
     IN  cli' = [cli EXCEPT ![c] =
           IF i = 0 THEN [pc |-> "insert", plan |-> plan]
           ELSE [pc |-> "end", row |-> i, stale |-> IsStale(sess, i),
                 outcome |-> None, then |-> [pc |-> "insert", plan |-> plan]]]
  /\ notices' = <<>>
  /\ UNCHANGED <<sess, daemon>>

(* cmd_stop: does nothing when no session is open. *)
CliStop(c, outcome) ==
  /\ cli[c] = Idle
  /\ LET i == Newest(sess)
     IN  /\ i # 0
         /\ cli' = [cli EXCEPT ![c] =
              [pc |-> "end", row |-> i, stale |-> IsStale(sess, i),
               outcome |-> outcome, then |-> Idle]]
  /\ notices' = <<>>
  /\ UNCHANGED <<sess, daemon>>

CliEnd(c) ==
  /\ cli[c].pc = "end"
  /\ LET i == cli[c].row
     IN  sess' = IF cli[c].stale THEN Ended(sess, i, sess[i].plan + Grace, None)
                 ELSE Ended(sess, i, sess[i].age, cli[c].outcome)
  /\ cli' = [cli EXCEPT ![c] = cli[c].then]
  /\ notices' = <<>>
  /\ UNCHANGED daemon

CliInsert(c) ==
  /\ cli[c].pc = "insert"
  /\ sess' = IF Len(sess) < MaxSessions THEN Started(sess, cli[c].plan) ELSE sess
  /\ cli' = [cli EXCEPT ![c] = Idle]
  /\ notices' = <<>>
  /\ UNCHANGED daemon

CliStep(c) == CliEnd(c) \/ CliInsert(c)

(* Time passes for every row, the break and the resync. *)
Cap(n, most) == IF n <= most THEN n ELSE most

Elapse(d) ==
  /\ sess' = [i \in DOMAIN sess |-> [sess[i] EXCEPT !.age = Cap(sess[i].age + d, AgeCap)]]
  /\ breakLeft' = IF breakLeft > d THEN breakLeft - d ELSE 0
  /\ sinceResync' = Cap(sinceResync + d, ResyncEvery)
  /\ notices' = <<>>
  /\ UNCHANGED <<up, mine, lastPhase, asked, cli, crashes>>

-----------------------------------------------------------------------------
Init ==
  /\ sess = <<>> /\ up = FALSE /\ mine = 0 /\ breakLeft = 0
  /\ sinceResync = ResyncEvery /\ lastPhase = "none" /\ asked = {}
  /\ cli = [c \in Clis |-> Idle] /\ crashes = 0 /\ notices = <<>>

Next ==
  \/ DaemonStart
  \/ \E p \in Plans : UserStart(p)
  \/ \E o \in Outcomes \cup {None} : UserEnd(o)
  \/ \E i \in asked, o \in Outcomes : Answer(i, o)
  \/ \E i \in DOMAIN sess, o \in Outcomes : ApiOutcome(i, o)
  \/ Tick
  \/ Crash
  \/ \E c \in Clis, p \in Plans : CliStart(c, p)
  \/ \E c \in Clis, o \in Outcomes \cup {None} : CliStop(c, o)
  \/ \E c \in Clis : CliStep(c)
  \/ \E d \in Steps : Elapse(d)

Spec == Init /\ [][Next]_vars

(* systemd restarts the daemon (Restart=on-failure), its timer keeps ticking, *)
(* a command line process runs to its end, and time passes.                   *)
FairSpec ==
  /\ Spec
  /\ WF_vars(DaemonStart) /\ WF_vars(Tick)
  /\ \A c \in Clis : WF_vars(CliStep(c))
  /\ WF_vars(\E d \in Steps \ {0} : Elapse(d))

-----------------------------------------------------------------------------
(* Every variable has its type: the daemon's session and the ones it asks    *)
(* about are rows of the table, and no break runs beside a session.          *)
CliState ==
  {Idle} \cup [pc : {"insert"}, plan : Plans]
  \cup [pc : {"end"}, row : DOMAIN sess, stale : BOOLEAN,
        outcome : Outcomes \cup {None},
        then : {Idle} \cup [pc : {"insert"}, plan : Plans]]

TypeOK ==
  /\ sess \in Seq(Session)
  /\ up \in BOOLEAN
  /\ mine \in {0} \cup DOMAIN sess
  /\ mine # 0 => up /\ breakLeft = 0
  /\ breakLeft \in 0..BreakLen /\ sinceResync \in 0..ResyncEvery
  /\ lastPhase \in {"none", "idle", "focus", "break"}
  /\ asked \subseteq DOMAIN sess
  /\ cli \in [Clis -> CliState]
  /\ crashes \in 0..MaxCrashes

(* Whoever ends a session first, the daemon or a command line process that    *)
(* read the row earlier, has ended it: its length never changes again.  Its   *)
(* outcome is overwritten by no second end, whether of a tick, a resync, a    *)
(* recovery or a command line process, but only by a step that records an     *)
(* answer and does nothing else: record_outcome, of the popup or of a client  *)
(* that names the session.                                                    *)
RecordsOnly(i) ==
  /\ sess'[i].outcome \in Outcomes
  /\ sess' = [sess EXCEPT ![i] = [@ EXCEPT !.outcome = sess'[i].outcome]]
  /\ UNCHANGED <<up, mine, breakLeft, sinceResync, lastPhase, cli, crashes>>

EndIsFinal ==
  [][ \A i \in DOMAIN sess : ~ IsOpen(sess, i) =>
        /\ i \in DOMAIN sess' /\ sess'[i].length = sess[i].length
        /\ sess'[i].outcome # sess[i].outcome => RecordsOnly(i) ]_vars

(* The daemon's phases, whichever process starts and ends the sessions, are   *)
(* those of FocusPhases.                                                      *)
Phases == INSTANCE FocusPhases WITH phase <- Phase

ImplementsPhases == Phases!PhasesSpec

(* Every session ends, also one left open by a crash, one started on the      *)
(* command line, and one that a newer session hides.                          *)
EventuallyEnds ==
  \A i \in 1..MaxSessions :
    (i \in DOMAIN sess /\ IsOpen(sess, i)) ~> (i \in DOMAIN sess /\ ~ IsOpen(sess, i))

(* "starting again closes the previous session": no two sessions are open.    *)
AtMostOneOpen == Cardinality(OpenRows(sess)) <= 1
=============================================================================
