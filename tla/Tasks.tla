------------------------------- MODULE Tasks -------------------------------
(***************************************************************************)
(* Tasks (src/izy/tasks.py) with two kinds of writer: the daemon, for the   *)
(* API's task commands and its own suggestions (src/izy/pipeline.py), and   *)
(* `izy task' processes (src/izy/commands/task.py).  What reads a task and  *)
(* writes it back does so in two statements, with other writers in between. *)
(* The daemon also keeps the hints of its session's task in memory.         *)
(*                                                                         *)
(* A task is its row id, which SQLite gives again once the newest row is    *)
(* deleted; `born' tells such tasks apart.  Hints are the apps, and a list   *)
(* of them is a set; domains have a list of their own, handled alike.        *)
(* Positions are sort_keys in units of the smallest difference of two floats *)
(* that size.  Not modelled: keywords, which neither stop a suggestion nor   *)
(* take one back; the columns that are only stored: title, notes, flags,     *)
(* status, dates, estimates; and a parent that is not there, whose subtask   *)
(* SQLite refuses.                                                           *)
(***************************************************************************)
EXTENDS Integers, FiniteSets, FiniteSetsExt

CONSTANTS
  Writers,     \* the processes that write tasks
  Daemon,      \* the one of them that runs sessions and suggests hints
  Names,       \* app names, in any case
  Lower,       \* [name |-> its lower-case form]
  One,         \* 1.0, in units of the smallest difference
  MaxTasks,    \* bound: tasks ever created
  MaxEdits,    \* bound: times a task that is there is moved or its hints changed
  MaxKey       \* bound: a sort_key stays in -MaxKey..MaxKey

ASSUME TasksAssumption ==
  /\ Daemon \in Writers
  /\ Lower \in [Names -> Names] /\ \A n \in Names : Lower[Lower[n]] = Lower[n]
  /\ One \in Nat \ {0} /\ {MaxTasks, MaxEdits, MaxKey} \subseteq Nat

VARIABLES
  tasks,      \* the table task
  born,       \* history: tasks created so far
  session,    \* the daemon's session: its task_id, and which task that was
  loaded,     \* the hints the classifier has for it
  work,       \* what each writer has read and is about to write
  edits,      \* history: moves and hints begun so far
  raced       \* history: a write has replaced what another writer wrote meanwhile

vars == <<tasks, born, session, loaded, work, edits, raced>>

NoTask == 0
NoSession == [task |-> NoTask, born |-> 0]
Idle == [op |-> "idle"]

(* What is in progress once w has written: nothing of w's, and what the       *)
(* others have read is no longer what the table holds.                        *)
After(w) ==
  [v \in Writers |-> IF v = w \/ work[v] = Idle THEN Idle ELSE [work[v] EXCEPT !.stale = TRUE]]
Races(w) == raced' = (raced \/ work[w].stale)

(* w holds what it is about to write. *)
Holds(w, held) == work' = [work EXCEPT ![w] = held]

(* The same of a change to a task that is there. *)
Edits(w, held) ==
  /\ work[w] = Idle /\ ~raced /\ edits < MaxEdits /\ edits' = edits + 1
  /\ Holds(w, held)
  /\ UNCHANGED <<tasks, born, session, loaded, raced>>

LowerAll(S) == {Lower[n] : n \in S}
Keys == {tasks[t].key : t \in DOMAIN tasks}

(* The rowid of the next INSERT: one more than the largest. *)
NextId == IF tasks = <<>> THEN 1 ELSE Max(DOMAIN tasks) + 1

-----------------------------------------------------------------------------
(* The daemon's session. *)

(* Seeded fault: the end of a session leaves the hints. *)
HintsOrOld(t) == IF t \in DOMAIN tasks THEN tasks[t].hints ELSE loaded

(* _load_session_hints: those of the session's task, if it is still there. *)
HintsOf(t) == IF t \in DOMAIN tasks THEN tasks[t].hints ELSE {}

StartSession(t) ==
  /\ session' = [task |-> t, born |-> IF t \in DOMAIN tasks THEN tasks[t].born ELSE 0]
  /\ loaded' = HintsOf(t)
  /\ UNCHANGED <<tasks, born, work, edits, raced>>

EndSession ==
  /\ session # NoSession
  /\ session' = NoSession /\ loaded' = HintsOf(NoTask)
  /\ UNCHANGED <<tasks, born, work, edits, raced>>

(* update_task: after whatever the daemon stored, the hints are loaded again.  *)
Update ==
  /\ work[Daemon] = Idle
  /\ loaded' = HintsOf(session.task)
  /\ UNCHANGED <<tasks, born, session, work, edits, raced>>

-----------------------------------------------------------------------------
(* create: the smallest sort_key is read, then the row is inserted. *)

Top == IF Keys = {} THEN 0 - One ELSE Min(Keys) - One

CreateReads(w) ==
  /\ work[w] = Idle /\ ~raced
  /\ born + Cardinality({v \in Writers : work[v].op = "create"}) < MaxTasks
  /\ Top >= - MaxKey
  /\ Holds(w, [op |-> "create", key |-> Top, stale |-> FALSE])
  /\ UNCHANGED <<tasks, born, session, loaded, edits, raced>>

(* The hints are stored as they are given, those that are equal but for case  *)
(* among them; `given', which goes wherever the hints are written, is a        *)
(* history of that.  Only the API makes subtasks.                              *)
CreateWrites(w, hints, parent) ==
  /\ work[w].op = "create" /\ (parent # NoTask => w = Daemon)
  /\ born' = born + 1
  /\ LET row == [key |-> work[w].key, parent |-> parent,
                 hints |-> hints, given |-> hints, offers |-> {}, born |-> born']
     IN  tasks' = [t \in DOMAIN tasks \cup {NextId} |->
                     IF t \in DOMAIN tasks THEN tasks[t] ELSE row]
  /\ work' = After(w) /\ Races(w)
  /\ UNCHANGED <<session, loaded, edits>>

(* A task and, by ON DELETE CASCADE, its subtasks and theirs. *)
Family(t) ==
  LET under[u \in DOMAIN tasks \cup {NoTask}] ==
        u = t \/ (u # NoTask /\ under[tasks[u].parent])
  IN  {u \in DOMAIN tasks : under[u]}

(* delete: no one's hints are loaded again. *)
Delete(w, t) ==
  /\ work[w] = Idle
  /\ tasks' = [u \in DOMAIN tasks \ Family(t) |-> tasks[u]]
  /\ work' = After(w)
  /\ UNCHANGED <<born, session, loaded, edits, raced>>

-----------------------------------------------------------------------------
(* reorder: the sort_keys of the neighbours are read, then the row is moved. *)

(* Seeded fault: of two neighbours only the first counts. *)
KeyBeyond(after, before) ==
  IF after # NoTask THEN tasks[after].key + One ELSE tasks[before].key - One

(* Halfway between the two, as far as a float can tell; or one beyond the one *)
(* neighbour there is.                                                        *)
NewKey(after, before) ==
  IF after # NoTask /\ before # NoTask THEN (tasks[after].key + tasks[before].key) \div 2
  ELSE IF before # NoTask THEN tasks[before].key - One ELSE tasks[after].key + One

ReorderReads(w, t, after, before) ==
  /\ {after, before} # {NoTask} /\ Cardinality({t, after, before}) = 3
  /\ NewKey(after, before) \in (- MaxKey)..MaxKey
  /\ Edits(w, [op |-> "reorder", task |-> t, after |-> after, before |-> before,
                key |-> NewKey(after, before), stale |-> FALSE])

ReorderWrites(w) ==
  /\ work[w].op = "reorder"
  /\ LET t == work[w].task
     IN  tasks' = IF t \in DOMAIN tasks THEN [tasks EXCEPT ![t].key = work[w].key] ELSE tasks
  /\ work' = After(w) /\ Races(w)
  /\ UNCHANGED <<born, session, loaded, edits>>

-----------------------------------------------------------------------------
(* add_hint and suggest_hint: the task is read, then written back. *)

(* Seeded fault: hints are compared as they are written. *)
AddedExactly(row, name) ==
  [row EXCEPT !.hints = @ \cup {name}, !.offers = @ \ {name}]

(* Seeded fault: the new hint replaces the others. *)
AddedAlone(row, name) == [row EXCEPT !.hints = {name}, !.offers = @ \ {name}]

(* add_hint: unless it is known, in whatever case; a suggestion goes if its   *)
(* lower-case form is the name that was given.                                *)
Added(row, name) ==
  [row EXCEPT !.hints = IF Lower[name] \in LowerAll(@) THEN @ ELSE @ \cup {name},
              !.offers = {o \in @ : Lower[o] # name}]

(* suggest_hint: unless it is a hint or a suggestion already. *)
Suggested(row, name) ==
  [row EXCEPT !.offers = IF Lower[name] \in LowerAll(row.hints) \cup LowerAll(@)
                         THEN @ ELSE @ \cup {name}]

Reads(w, op, t, row) == Edits(w, [op |-> op, task |-> t, row |-> row, stale |-> FALSE])

AddHintReads(w, t, name) == Reads(w, "add_hint", t, Added(tasks[t], name))

(* Of the daemon, for the task of its session and an app that was on task. *)
SuggestReads(name) ==
  /\ session.task \in DOMAIN tasks
  /\ Suggested(tasks[session.task], name) # tasks[session.task]
  /\ Reads(Daemon, "suggest_hint", session.task, Suggested(tasks[session.task], name))

(* The columns written: hints and suggestions, or the suggestions alone.      *)
Written(row, new, op) ==
  [row EXCEPT !.hints = IF op = "add_hint" THEN new.hints ELSE @,
              !.given = IF op = "add_hint" THEN new.given ELSE @,
              !.offers = new.offers]

HintWrites(w) ==
  /\ work[w].op \in {"add_hint", "suggest_hint"}
  /\ LET t == work[w].task
     IN  tasks' = IF t \in DOMAIN tasks
                  THEN [tasks EXCEPT ![t] = Written(@, work[w].row, work[w].op)] ELSE tasks
  /\ loaded' = IF w = Daemon /\ work[w].op = "add_hint"
               THEN IF session.task \in DOMAIN tasks' THEN tasks'[session.task].hints ELSE {}
               ELSE loaded
  /\ work' = After(w) /\ Races(w)
  /\ UNCHANGED <<born, session, edits>>

-----------------------------------------------------------------------------
Init ==
  /\ tasks = <<>> /\ born = 0 /\ edits = 0 /\ session = NoSession /\ loaded = {}
  /\ work = [w \in Writers |-> Idle] /\ raced = FALSE

(* The daemon's own session steps come between its statements, never within a *)
(* pair of them.                                                              *)
DaemonStep ==
  /\ work[Daemon] = Idle
  /\ \/ \E t \in DOMAIN tasks \cup {NoTask} : StartSession(t)
     \/ EndSession
     \/ \E name \in Names : SuggestReads(name)
     \/ \E t \in DOMAIN tasks, after, before \in DOMAIN tasks \cup {NoTask} :
          ReorderReads(Daemon, t, after, before)

WriterStep(w) ==
  \/ CreateReads(w)
  \/ \E hints \in SUBSET Names, parent \in DOMAIN tasks \cup {NoTask} :
       CreateWrites(w, hints, parent)
  \/ \E t \in DOMAIN tasks : Delete(w, t)
  \/ ReorderWrites(w)
  \/ \E t \in DOMAIN tasks, name \in Names : AddHintReads(w, t, name)
  \/ HintWrites(w)

Next == DaemonStep \/ Update \/ \E w \in Writers : WriterStep(w)

Spec == Init /\ [][Next]_vars

-----------------------------------------------------------------------------
(* A hint is added once, whatever its case: two that are equal but for case    *)
(* were both given when a task was created, where nothing compares them; and   *)
(* nothing is suggested that is a hint already ("drop it from the suggestions  *)
(* if it was one", src/izy/tasks.py:235-236), if the hint is written in lower  *)
(* case and two writers were not at the task at once.                          *)
KnownOnce ==
  \A t \in DOMAIN tasks :
    /\ \A g, h \in tasks[t].hints :
         Lower[g] = Lower[h] => g = h \/ {g, h} \subseteq tasks[t].given
    /\ \A h \in tasks[t].hints, o \in tasks[t].offers :
         Lower[o] = Lower[h] => raced \/ h # Lower[h]

(* A hint, once accepted, stays with its task; only a write that replaces     *)
(* what another writer has written meanwhile can lose it.                     *)
HintsStay ==
  [][ \A t \in DOMAIN tasks :
        t \in DOMAIN tasks' /\ tasks'[t].born = tasks[t].born /\ ~raced' =>
          tasks[t].hints \subseteq tasks'[t].hints ]_vars

(* "Move a task to sit between two others" (src/izy/tasks.py:206-207): it is   *)
(* listed after the one and before the other, as long as a float lies between  *)
(* them; beyond the one neighbour that is named; and "new tasks sort to the    *)
(* top" (src/izy/tasks.py:111) - if nobody else writes meanwhile.              *)
LandsWhereAsked ==
  [][ ~raced' =>
        /\ \A w \in Writers : work[w].op = "reorder" /\ work'[w] = Idle =>
             LET t == work[w].task  a == work[w].after  b == work[w].before
                 room == NoTask \in {a, b} \/ tasks[b].key - tasks[a].key >= 2
             IN  /\ a # NoTask /\ room => tasks'[a].key < tasks'[t].key
                 /\ b # NoTask /\ room => tasks'[t].key < tasks'[b].key
        /\ \A t \in DOMAIN tasks', u \in DOMAIN tasks :
             born' > born /\ tasks'[t].born = born' => tasks'[t].key < tasks[u].key ]_vars

(* The classifier judges by the hints of the task the session was started     *)
(* from, or of a part of them, and by none without a session.  What the       *)
(* comment calls harmless ("a session pointing at a since-deleted task",      *)
(* src/izy/db.py:78) is not: its id may be that of a new task.                *)
OwnHints ==
  /\ session = NoSession => loaded = {}
  /\ session.task \in DOMAIN tasks /\ tasks[session.task].born = session.born /\ ~raced =>
       loaded \subseteq tasks[session.task].hints
=============================================================================
