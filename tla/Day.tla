--------------------------------- MODULE Day ---------------------------------
(***************************************************************************)
(* What is told of a day: the counters of the daemon's snapshots            *)
(* (src/izy/pipeline.py, _today_counters), `izy day'                        *)
(* (src/izy/commands/day.py) and the retrospective (src/izy/report/data.py) *)
(* each read the spans and their labels by queries of their own.  All three *)
(* only read, so they are operators on the state of Ladder; what writes is  *)
(* there: a correction on the page or by `izy relabel' is its Answer.       *)
(*                                                                         *)
(* Not modelled: the break bands, the hours and the tables of apps of the   *)
(* retrospective, its page, the rows `izy day' lists, and a day of 23 or 25 *)
(* hours.                                                                   *)
(***************************************************************************)
EXTENDS Ladder

CONSTANT DayLength   \* a day in units of the clock; the first begins at 0

ASSUME DayAssumption == DayLength \in Nat \ {0}

Days == {t \div DayLength : t \in 0..now}

(* events_for_day, _day_bounds *)
Within(d, r) == rows[r].start \div DayLength = d

Credit(r) == Minutes(Tracked, r)
CreditOf(S) ==
  LET sum[r \in 0..Len(rows)] ==
        IF r = 0 THEN 0 ELSE sum[r - 1] + (IF r \in S THEN Credit(r) ELSE 0)
  IN sum[Len(rows)]

(* ORDER BY id DESC LIMIT 1 *)
Latest(r) == labels[r][Len(labels[r])]

-----------------------------------------------------------------------------
(* The retrospective. *)

(* Seeded fault: the first label of an event is read. *)
VerdictFirst(r) ==
  IF labels[r] = <<>> THEN "unjudged" ELSE IF labels[r][1].on THEN "on" ELSE "off"

(* _label_for: "The most recent label wins". *)
Verdict(r) ==
  IF labels[r] = <<>> THEN "unjudged" ELSE IF Latest(r).on THEN "on" ELSE "off"

KindOf(r) == IF rows[r].key = Away THEN "afk" ELSE Verdict(r)

(* What build carries from event to event: the seconds of each kind, the last *)
(* judgement since the user was away, the app the run of off-task time is     *)
(* charged to, and [times it pulled the user out, time lost] of each app.     *)
Blank ==
  [totals |-> [k \in {"on", "off", "afk", "unjudged"} |-> 0],
   previous |-> "none", culprit |-> Nothing,
   drift |-> [w \in Windows |-> [times |-> 0, lost |-> 0]]]

(* Seeded fault: a judgement from before the user was away still counts. *)
PreviousKept(acc, kind) == IF kind \in {"afk", "unjudged"} THEN acc.previous ELSE kind

(* previous_on_task, after an event. *)
Previous(acc, kind) ==
  IF kind = "afk" THEN "none" ELSE IF kind = "unjudged" THEN acc.previous ELSE kind

(* drift_app, after an event: "this app pulled you out, and the whole run     *)
(* that follows is charged to it".                                            *)
Culprit(acc, kind, app) ==
  IF kind \in {"on", "afk"} THEN Nothing
  ELSE IF kind = "off" /\ acc.previous = "on" THEN app
  ELSE acc.culprit

(* build, one event. *)
Read(acc, r) ==
  LET kind == KindOf(r)
      app == rows[r].key
      to == Culprit(acc, kind, app)
      drift == [w \in Windows |->
                  IF kind # "off" \/ w # to THEN acc.drift[w]
                  ELSE [times |-> acc.drift[w].times + (IF acc.previous = "on" THEN 1 ELSE 0),
                        lost |-> acc.drift[w].lost + Credit(r)]]
  IN [totals |-> [acc.totals EXCEPT ![kind] = @ + Credit(r)],
      previous |-> Previous(acc, kind), culprit |-> to, drift |-> drift]

(* build: the events of the day as events_for_day gives them, by their start. *)
(* With the native watcher that is the order of the rows.                     *)
Report(d) ==
  LET read[r \in 0..Len(rows)] ==
        IF r = 0 THEN Blank
        ELSE IF Within(d, r) THEN Read(read[r - 1], r) ELSE read[r - 1]
  IN read[Len(rows)]

-----------------------------------------------------------------------------
(* The counters and `izy day'. *)

(* The subquery of _today_counters and the query of cmd_day: 1, 0 or NULL. *)
OnTask(r) ==
  IF labels[r] = <<>> THEN "NULL" ELSE IF Latest(r).on THEN "1" ELSE "0"

(* _today_counters *)
Counters(d) ==
  LET today == {r \in DOMAIN rows : Within(d, r)}
      away == {r \in today : rows[r].key = Away}
  IN [afk |-> CreditOf(away),
      on |-> CreditOf({r \in today \ away : OnTask(r) = "1"}),
      off |-> CreditOf({r \in today \ away : OnTask(r) = "0"})]

(* cmd_day: the time tracked, afk, on and off. *)
Printed(d) ==
  LET day == {r \in DOMAIN rows : Within(d, r)}
      judged == {r \in day : OnTask(r) # "NULL" /\ rows[r].key # Away}
  IN [tracked |-> CreditOf(day),
      afk |-> CreditOf({r \in day : rows[r].key = Away}),
      on |-> CreditOf({r \in judged : OnTask(r) = "1"}),
      off |-> CreditOf({r \in judged : OnTask(r) # "1"})]

-----------------------------------------------------------------------------
(* The three readings of a day tell the same, of every day and at every       *)
(* moment - after a correction, a second label, a restart or a boundary - and *)
(* the retrospective leaves out nothing that was tracked.                     *)
ReadingsAgree ==
  \A d \in Days :
    LET totals == Report(d).totals
        counters == Counters(d)
        printed == Printed(d)
    IN /\ \A k \in {"on", "off", "afk"} : totals[k] = counters[k] /\ totals[k] = printed[k]
       /\ totals["on"] + totals["off"] + totals["afk"] + totals["unjudged"] = printed.tracked

(* The event of the day that pulled the user out before the off-task event r: *)
(* the first one off task since the last one on task, if the user was not     *)
(* away since.                                                                *)
PulledOutBy(d, r) ==
  LET day == {q \in DOMAIN rows : Within(d, q)}
      focused == {q \in day : q < r /\ KindOf(q) = "on"}
      after == {q \in day : q > Max(focused) /\ q <= r}
  IN IF focused = {} \/ \E q \in after : KindOf(q) = "afk" THEN {}
     ELSE {Min({q \in after : KindOf(q) = "off"})}

(* "this app pulled you out, and the whole run that follows is charged to it" *)
(* (src/izy/report/data.py:113-114): an app is charged with exactly the       *)
(* off-task time of the runs that it began after work, none of them across an *)
(* absence, and counted once for each.                                        *)
DriftCharged ==
  \A d \in Days :
    LET off == {r \in DOMAIN rows : Within(d, r) /\ KindOf(r) = "off"}
        pulled == [r \in off |-> PulledOutBy(d, r)]
        began(w) == {q \in UNION Range(pulled) : rows[q].key = w}
    IN Report(d).drift =
         [w \in Windows |->
            [times |-> Cardinality(began(w)),
             lost |-> CreditOf({r \in off : pulled[r] \cap began(w) # {}})]]
=============================================================================
