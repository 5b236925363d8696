----------------------------- MODULE FocusPhases -----------------------------
(***************************************************************************)
(* The phase of the daemon as the rest of it sees it: idle, focus, break,   *)
(* or off, and the contexts each change announces ("session_start",         *)
(* "session_end", "on_break"), which release reminders.  No table, process  *)
(* or clock in sight.                                                       *)
(*                                                                         *)
(* The promises: a focus is only ever left through a break, its start and   *)
(* its end are each announced once and in turn, and only a session that     *)
(* another process put in the place of the running one goes unannounced.    *)
(***************************************************************************)
EXTENDS Naturals, Sequences

CONSTANT BreakLen   \* break_minutes; a break of no length is no break

VARIABLES
  phase,     \* "off" | "idle" | "focus" | "break"
  notices    \* the contexts the last step announced, in order

phaseVars == <<phase, notices>>

AfterFocus == IF BreakLen > 0 THEN "break" ELSE "idle"
OnBreak    == IF BreakLen > 0 THEN <<"on_break">> ELSE <<>>

PhasesInit == phase = "off" /\ notices = <<>>

Boot == phase = "off" /\ phase' \in {"idle", "focus"} /\ notices' = <<>>

Begin == /\ phase \in {"idle", "break"} /\ phase' = "focus"
         /\ notices' = <<"session_start">>

Leave == /\ phase = "focus" /\ phase' = AfterFocus
         /\ notices' = <<"session_end">> \o OnBreak

(* A session started while another runs ends that one first. *)
Replace == /\ phase = "focus" /\ phase' = "focus"
           /\ notices' = <<"session_end">> \o OnBreak \o <<"session_start">>

(* A session that is discovered when its time is already up. *)
Glimpse == /\ phase \in {"idle", "break"} /\ phase' = AfterFocus
           /\ notices' = <<"session_start", "session_end">> \o OnBreak

Lapse == phase = "break" /\ phase' = "idle" /\ notices' = <<>>

(* Nothing to announce: also another process replacing the running session. *)
Quiet == phase' = phase /\ notices' = <<>>

Off == phase # "off" /\ phase' = "off" /\ notices' = <<>>

PhasesNext == Boot \/ Begin \/ Leave \/ Replace \/ Glimpse \/ Lapse \/ Quiet \/ Off

PhasesSpec == PhasesInit /\ [][PhasesNext]_phaseVars
=============================================================================
