------------------------------ MODULE Control ------------------------------
(***************************************************************************)
(* The threads of the daemon and what passes between them: the API server   *)
(* (src/izy/api/server.py), whose handlers submit commands and wait for     *)
(* their Futures; the worker thread (src/izy/worker.py), whose timer ticks  *)
(* the pipeline - the only one that runs commands and publishes snapshots - *)
(* and whose queued slots run the requests of prompts; the StateBus and a   *)
(* client of /events (src/izy/ipc.py); and the UI thread (src/izy/app.py),  *)
(* which shows what the worker signals and stops everything.                *)
(*                                                                         *)
(* A request is its number.  Of the pipeline the module keeps what decides  *)
(* the mascot: whether a session runs, and whether it drifts.  A tick is    *)
(* its drain, one step per command, and the rest as one step; the lambdas   *)
(* of src/izy/app.py call the pipeline on the UI thread between two of these*)
(* steps.  Not modelled: those calls in the middle of one, a signal that    *)
(* arrives before app.exec(), a worker that fails to start or does not      *)
(* finish within stop's timeout, other events than MASCOT.                  *)
(***************************************************************************)
EXTENDS Integers, Sequences, SequencesExt

CONSTANTS
  QueueSize,     \* maxsize of the asyncio.Queue of a subscriber
  MaxRequests,   \* bound: requests the API receives
  MaxTicks,      \* bound: ticks
  MaxPosted      \* bound: requests of prompts the worker has not taken

ASSUME ControlAssumption ==
  /\ QueueSize \in Nat \ {0, 1}
  /\ {MaxRequests, MaxTicks, MaxPosted} \subseteq Nat

VARIABLES
  requests,    \* how many mutating requests the API has received
  queue,       \* CommandQueue: requests not drained
  batch,       \* what the drain of this tick has still to run
  ran,         \* history: the requests whose command was run, in order
  worker,      \* the worker thread: new, idle, ticking or stopped
  inbox,       \* its queued slot calls, in order
  session,     \* whether the pipeline has a current session
  mascot,      \* _mascot_state
  astray,      \* history: the last MASCOT event was never dispatched, or
               \* was shown before one that is older
  bus,         \* StateBus._latest
  stream,      \* a client of /events
  gui,         \* the UI thread
  stopped,     \* TrackerThread._stopped
  signalled,   \* the last of the MASCOT signals queued to the UI thread, or none
  screen       \* the mascot it shows

api == <<requests, queue>>
pipeline == <<session, mascot>>
ui == <<gui, stopped>>
vars == <<api, batch, ran, worker, inbox, pipeline, astray, bus, stream, ui, signalled, screen>>

Commands == {"start_session", "end_session", "other", "unknown"}
NotConnected == [state |-> "off", first |-> 0, buffer |-> <<>>, shown |-> 0]

-----------------------------------------------------------------------------
(* The API server. *)

(* A handler submits its command; also before the first tick and after the    *)
(* last, for as long as the server thread lives.  It then waits for the       *)
(* Future, or gives up after COMMAND_TIMEOUT_S, which leaves the command      *)
(* where it is: neither changes anything here.                                *)
Submit ==
  /\ requests < MaxRequests /\ gui # "exited"
  /\ requests' = requests + 1
  /\ queue' = Append(queue, requests')
  /\ UNCHANGED <<batch, ran, worker, inbox, pipeline, astray, bus, stream, ui, signalled, screen>>

-----------------------------------------------------------------------------
(* A client of /events and its asyncio queue.  Its loop runs the callbacks it *)
(* is handed in order, so a delivery puts the snapshot into the queue.        *)

(* Seeded fault: a full queue refuses the new snapshot. *)
OfferedUnlessFull(buffer, n) ==
  IF Len(buffer) < QueueSize THEN Append(buffer, n) ELSE buffer

(* _offer: a full queue drops its oldest snapshot. *)
Offered(buffer, n) ==
  IF Len(buffer) < QueueSize THEN Append(buffer, n) ELSE Append(Tail(buffer), n)

(* subscribe, up to the release of the lock: registered, with the latest      *)
(* snapshot in hand, if there is one.                                         *)
Subscribe ==
  /\ stream.state = "off" /\ gui # "exited"
  /\ stream' = [NotConnected EXCEPT !.state = IF bus.tick = 0 THEN "on" ELSE "registered",
                                    !.first = bus.tick]
  /\ UNCHANGED <<api, batch, ran, worker, inbox, pipeline, astray, bus, ui, signalled, screen>>

(* subscribe, after the lock: that snapshot is delivered. *)
DeliverFirst ==
  /\ stream.state = "registered"
  /\ stream' = [stream EXCEPT !.state = "on", !.buffer = Offered(@, stream.first)]
  /\ UNCHANGED <<api, batch, ran, worker, inbox, pipeline, astray, bus, ui, signalled, screen>>

(* The handler sends the next snapshot. *)
Receive ==
  /\ stream.state = "on" /\ stream.buffer # <<>>
  /\ stream' = [stream EXCEPT !.shown = Head(stream.buffer), !.buffer = Tail(@)]
  /\ UNCHANGED <<api, batch, ran, worker, inbox, pipeline, astray, bus, ui, signalled, screen>>

Disconnect ==
  /\ stream.state = "on"
  /\ stream' = NotConnected
  /\ UNCHANGED <<api, batch, ran, worker, inbox, pipeline, astray, bus, ui, signalled, screen>>

-----------------------------------------------------------------------------
(* The worker thread. *)

(* mascot_state: it depends on the session and, while it runs, on drift. *)
Posture(running, drifting) ==
  IF ~running THEN "asleep" ELSE IF drifting THEN "soft-alert" ELSE "neutral"

(* Seeded fault: the mascot is told of an alert, not of its end. *)
ToldOfAlerts(old, new) == IF old # new /\ new # "neutral" THEN <<new>> ELSE <<>>

(* _update_mascot: a MASCOT event when the posture changed. *)
Told(old, new) == IF old = new THEN <<>> ELSE <<new>>

(* The pipeline after a call of the worker thread, and whether its events are *)
(* dispatched as signals, which Qt queues to the UI thread, or not.           *)
Becomes(running, posture, dispatched) ==
  LET said == Told(mascot, posture)
  IN  /\ session' = running /\ mascot' = posture
      /\ signalled' = IF dispatched /\ said # <<>> THEN posture ELSE signalled
      /\ astray' = IF said = <<>> THEN astray ELSE ~dispatched

(* TrackerWorker.start: the pipeline recovers a session, or not. *)
Start ==
  /\ worker = "new"
  /\ worker' = "idle"
  /\ \E running, drifting \in BOOLEAN : Becomes(running, Posture(running, drifting), TRUE)
  /\ UNCHANGED <<api, batch, ran, inbox, bus, stream, ui, screen>>

(* The timer fires: the tick begins by draining the queue, all of it. *)
TickBegins ==
  /\ worker = "idle" /\ bus.tick < MaxTicks
  /\ worker' = "ticking"
  /\ batch' = queue /\ queue' = <<>>
  /\ UNCHANGED <<requests, ran, inbox, pipeline, astray, bus, stream, ui, signalled, screen>>

(* Seeded fault: an exception ends the drain. *)
LeftUnlessFailed(failed) == IF failed THEN <<>> ELSE Tail(batch)

(* What the drain goes on with: a bad command does not disturb the others.    *)
Left(failed) == Tail(batch)

(* _drain_commands, one command: the Future gets the result or the exception. *)
(* start_session and end_session return what the pipeline emitted, so a       *)
(* change of phase ends up in the Future, which nobody dispatches.            *)
RunCommand ==
  /\ worker = "ticking" /\ batch # <<>>
  /\ \E name \in Commands :
         /\ ran' = Append(ran, Head(batch))
         /\ batch' = Left(name = "unknown")
         /\ CASE name = "start_session" -> Becomes(TRUE, Posture(TRUE, FALSE), FALSE)
              [] name = "end_session" /\ session -> Becomes(FALSE, Posture(FALSE, FALSE), FALSE)
              [] OTHER -> UNCHANGED <<pipeline, astray, signalled>>
  /\ UNCHANGED <<api, worker, inbox, bus, stream, ui, screen>>

Published(posture) ==
  LET n == bus.tick + 1
  IN  /\ bus' = [tick |-> n, mascot |-> posture]
      /\ stream' = IF stream.state = "off" THEN stream
                   ELSE [stream EXCEPT !.buffer = Offered(@, n)]

(* The rest of the tick: a resync or an overrun may change the session, drift *)
(* is measured; then update_mascot, publish_state, and the worker dispatches. *)
TickEnds ==
  /\ worker = "ticking" /\ batch = <<>>
  /\ worker' = "idle"
  /\ \E running, drifting \in BOOLEAN :
       LET posture == Posture(running, drifting)
       IN  Becomes(running, posture, TRUE) /\ Published(posture)
  /\ UNCHANGED <<api, batch, ran, inbox, ui, screen>>

(* A queued slot: the request of a prompt. *)
TakeRequest ==
  /\ worker = "idle" /\ inbox # <<>> /\ Head(inbox) # "stop"
  /\ inbox' = Tail(inbox)
  /\ CASE Head(inbox) = "start_session" -> Becomes(TRUE, Posture(TRUE, FALSE), TRUE)
       [] Head(inbox) = "end_session" /\ session -> Becomes(FALSE, Posture(FALSE, FALSE), TRUE)
       [] OTHER -> UNCHANGED <<pipeline, astray, signalled>>
  /\ UNCHANGED <<api, batch, ran, worker, bus, stream, ui, screen>>

(* TrackerWorker.stop, invoked by the UI thread, which waits for it; then     *)
(* quit and wait.                                                             *)
TakeStop ==
  /\ worker = "idle" /\ inbox # <<>> /\ Head(inbox) = "stop"
  /\ worker' = "stopped"
  /\ inbox' = Tail(inbox)
  /\ gui' = IF gui = "stopping" THEN "quitting" ELSE "exited"
  /\ UNCHANGED <<api, batch, ran, pipeline, astray, bus, stream, stopped, signalled, screen>>

-----------------------------------------------------------------------------
(* The UI thread. *)

Show ==
  /\ gui = "running" /\ signalled # "none"
  /\ screen' = signalled /\ signalled' = "none"
  /\ UNCHANGED <<api, batch, ran, worker, inbox, pipeline, astray, bus, stream, ui>>

(* A prompt that on_mascot_clicked opened, at a phase that may be long over,  *)
(* is answered: the request is queued to the worker.                          *)
AnswerPrompt(request) ==
  /\ gui = "running" /\ Len(inbox) < MaxPosted
  /\ inbox' = Append(inbox, request)
  /\ UNCHANGED <<api, batch, ran, worker, pipeline, astray, bus, stream, ui, signalled, screen>>

(* Dismissing the outcome question calls request_end_session in a lambda: a   *)
(* lambda has no thread of its own, so the pipeline runs on the UI thread, at *)
(* any moment of the worker's, and what it signals is shown at once, before   *)
(* the signals of the worker that still are queued.                           *)
DismissOutcome ==
  /\ gui = "running" /\ worker # "new"
  /\ IF session
     THEN LET said == Told(mascot, Posture(FALSE, FALSE))
          IN  /\ session' = FALSE /\ mascot' = Posture(FALSE, FALSE)
              /\ screen' = IF said = <<>> THEN screen ELSE mascot'
              /\ astray' = IF said = <<>> THEN astray ELSE signalled # "none"
     ELSE UNCHANGED <<pipeline, astray, screen>>
  /\ UNCHANGED <<api, batch, ran, worker, inbox, bus, stream, ui, signalled>>

(* Seeded fault: stop without the flag. *)
StopsAgain == TRUE

(* TrackerThread.stop, the first time it is called. *)
Stops == ~stopped

(* TrackerThread.stop: the worker's stop is queued and waited for, unless it  *)
(* was called before; `then' is what the UI thread does afterwards.           *)
StopTracker(waiting, after) ==
  /\ stopped' = TRUE
  /\ IF Stops THEN gui' = waiting /\ inbox' = Append(inbox, "stop")
     ELSE gui' = after /\ UNCHANGED inbox
  /\ UNCHANGED <<api, batch, ran, worker, pipeline, astray, bus, stream, signalled, screen>>

(* SIGTERM or SIGINT: shutdown stops the API server, then the tracker. *)
Terminate ==
  /\ gui = "running"
  /\ StopTracker("stopping", "quitting")

(* The session manager ends the application: no handler of izy's is called.   *)
Quit ==
  /\ gui = "running"
  /\ gui' = "quitting"
  /\ UNCHANGED <<api, batch, ran, worker, inbox, pipeline, astray, bus, stream, stopped, signalled, screen>>

(* app.quit emits aboutToQuit, which stops the tracker. *)
AboutToQuit ==
  /\ gui = "quitting"
  /\ StopTracker("leaving", "exited")

-----------------------------------------------------------------------------
Init ==
  /\ requests = 0 /\ queue = <<>> /\ batch = <<>> /\ ran = <<>>
  /\ worker = "new" /\ inbox = <<>>
  /\ session = FALSE /\ mascot = "none" /\ astray = FALSE
  /\ bus = [tick |-> 0, mascot |-> "none"] /\ stream = NotConnected
  /\ gui = "running" /\ stopped = FALSE /\ signalled = "none" /\ screen = "asleep"

Worker == Start \/ TickBegins \/ RunCommand \/ TickEnds

Next ==
  \/ Submit
  \/ Subscribe \/ DeliverFirst \/ Receive \/ Disconnect
  \/ Worker \/ TakeRequest \/ TakeStop
  \/ Show \/ (\E request \in {"start_session", "end_session"} : AnswerPrompt(request))
  \/ DismissOutcome
  \/ Terminate \/ Quit \/ AboutToQuit

Spec == Init /\ [][Next]_vars

(* Each thread keeps running; the worker's event loop takes queued calls      *)
(* between two ticks, so a call is not put off for ever.  The users of the    *)
(* API and of the prompts, and whoever ends the daemon, need never act.       *)
FairSpec ==
  /\ Spec
  /\ WF_vars(Worker) /\ SF_vars(TakeRequest) /\ SF_vars(TakeStop)
  /\ WF_vars(AboutToQuit)

-----------------------------------------------------------------------------
(* "A bad command ... does not disturb the tick" (src/izy/pipeline.py:224):   *)
(* every request is run once, in the order of submission, or still is on its  *)
(* way, whatever the ones before it did and whoever has given up waiting.     *)
RunsEachOnce == ran \o batch \o queue = [r \in 1..requests |-> r]

(* A client of /events shows the latest snapshot or it is on its way to it,   *)
(* also when it reads so slowly that others are dropped; the exception is the *)
(* snapshot it was given on subscribing, which a newer one may overtake.      *)
LatestArrives ==
  stream.state # "off" /\ bus.tick # stream.first =>
    bus.tick \in {stream.shown} \cup ToSet(stream.buffer) \/ stream.shown = stream.first

(* The screen shows the mascot's posture, or is about to: the mascot wakes,   *)
(* alerts and, "watching for you returning to the task"                       *)
(* (src/izy/pipeline.py:374-375), calms down.  The exceptions are a change    *)
(* that a command of the API made, and one made on the UI thread while an     *)
(* older signal was queued.                                                   *)
ScreenFollows ==
  worker # "new" /\ ~astray => mascot = IF signalled = "none" THEN screen ELSE signalled

(* "a BlockingQueuedConnection to a thread that has already quit deadlocks    *)
(* forever" (src/izy/worker.py:170): once the daemon has begun to stop, by a  *)
(* signal or by the end of the desktop session, it exits.                     *)
EventuallyExits == gui # "running" ~> gui = "exited"
=============================================================================
