----------------------------- MODULE MCArbiter ------------------------------
(* Instances of Arbiter for TLC.  One unit of time is the cooldown; the other  *)
(* periods are small multiples of it that keep the order of the real ones      *)
(* (90 s < 300 s < 3600 s < 7200 s).                                           *)
EXTENDS Arbiter

Asked(k, key) == [kind |-> k, key |-> key]

(* The contexts: nothing in the way, and each gate of the context alone.       *)
Calm       == [quiet |-> FALSE, deep |-> FALSE, fullscreen |-> FALSE, afk |-> FALSE]
Quiet      == [Calm EXCEPT !.quiet = TRUE]
DeepWork   == [Calm EXCEPT !.deep = TRUE]
FullScreen == [Calm EXCEPT !.fullscreen = TRUE]
Away       == [Calm EXCEPT !.afk = TRUE]

(* Safety: fullscreen aside, which for these kinds does what deep work does;   *)
(* one key asked for at two priorities, and a capped kind; restarts, an        *)
(* interrupt_log that may refuse a row, and a clock that can step back.        *)
SafeContexts == {Calm, Quiet, DeepWork, Away}
SafeCaps == [drift |-> 1]
SafeAsks == {Asked("urgent_reminder", "r1"), Asked("reminder", "r1"),
             Asked("drift", "d")}
SafeSteps == {-1, 2}

(* The bound of a safety run: nothing is submitted after MaxShown shows; what  *)
(* waits then may still be shown.                                              *)
MaxShown == 2
Bounded == pending' \subseteq pending \/ Len(shown) < MaxShown

BoundedSpec == Init /\ [][Next /\ Bounded]_vars

(* Liveness: two reminders, popups whose closing sends no signal, a user       *)
(* who is away or in fullscreen for a while but not after SettledBy.           *)
LiveContexts == {Calm, FullScreen, Away}
LiveCaps == [message |-> 1]
LiveAsks == {Asked("reminder", "r1"), Asked("reminder", "r2")}

SettledBy == 1
Settles == clock' >= SettledBy => ctx' = Calm

LiveNext == Next /\ Settles /\ FiredOnce /\ PromptUser

(* The tick is fair (the worker thread's timer), and so is answering or        *)
(* closing in time, which PromptUser puts before the tick that would be late.  *)
LiveSpec ==
  /\ Init /\ [][LiveNext]_vars
  /\ WF_vars(LiveNext /\ Tick)
  /\ WF_vars(LiveNext /\ \E k \in screen : Answer(k) \/ CloseSilently(k))

(* A held reminder is shown in the end: gates drain themselves when they lift, *)
(* a popup closed without a signal does not silence the ones behind it, and a  *)
(* request that keeps coming back does not starve an older one of its          *)
(* priority.  (The clock stops at MaxTime: it must wait early enough.)         *)
EventuallyServed ==
  \A k \in Keys : (k \in Waiting /\ clock <= SettledBy + 1) ~> (k \notin Waiting)
=============================================================================
