------------------------------- MODULE Ladder --------------------------------
(***************************************************************************)
(* What is made of the spans: the classification ladder                     *)
(* (src/izy/classifier.py, rules.py, llm.py), the labels it and the user    *)
(* write, and the drift that is read from them (src/izy/drift.py), in the   *)
(* order of the pipeline's tick (src/izy/pipeline.py).                      *)
(*                                                                         *)
(* A session stands for its declared intent, a key for its app, title and   *)
(* url.  The free tiers are a verdict per key, hints a set of keys per      *)
(* session.  The LLM is external: it judges each window of the batch on     *)
(* task, off task or "unsure", which stands for a verdict below the         *)
(* threshold, for one that is missing and, of all of them, for a call that  *)
(* fails, or that the budget or the lack of a key forbids.  A question is   *)
(* on its way to the user once it is in `asked'.                            *)
(* Not modelled: the batch's own cache entry, which holds what the windows' *)
(* entries do; classification or drift switched off; a statement that fails.*)
(***************************************************************************)
EXTENDS Spans, FiniteSets, FiniteSetsExt

CONSTANTS
  FreeTier,     \* the rules: on, off or none for each window
  Hinted,       \* the <<session, window>> pairs that are hints of its task
  MinDuration,  \* min_duration_s
  BatchWindow,  \* batch_window_s
  DriftMin      \* drift_min_minutes

ASSUME LadderAssumption ==
  /\ FreeTier \in [Windows -> {"on", "off", "none"}]
  /\ Hinted \subseteq (1..Sessions) \X Windows
  /\ MinDuration \in Nat /\ BatchWindow \in Nat /\ DriftMin \in Nat \ {0}

VARIABLES
  labels,     \* labels: for each event, its labels in the order they were added
  cache,      \* llm_cache: the verdict kept for a session's intent and a window
  pending,    \* _pending: the events that wait for a paid verdict
  opened,     \* _batch_opened_at, 0 for None
  asked,      \* _asked: the events the user has been asked about
  last,       \* _last_classified_id
  alerted     \* _alerted_this_run

table == <<labels, cache>>
memory == <<pending, opened, asked, last, alerted>>
vars == <<spanVars, table, memory>>

Classifier ==
  [labels |-> labels, cache |-> cache, pending |-> pending, opened |-> opened,
   asked |-> asked, last |-> last]

(* Seeded fault: a span may be judged again. *)
JudgeableAgain(c, t, r) ==
  t.rows[r].key # Away /\ t.rows[r].end - t.rows[r].start >= MinDuration

(* consider, its early returns: away, too short, already labelled. *)
Judgeable(c, t, r) ==
  /\ t.rows[r].key # Away /\ t.rows[r].end - t.rows[r].start >= MinDuration
  /\ t.rows[r].session # 0 => c.labels[r] = <<>>

(* consider, the ladder: the label a rule, the hints of the session of the    *)
(* moment or the cache give, or none.                                         *)
FreeLabel(c, t, r) ==
  LET s == t.rows[r].session
      w == t.rows[r].key
      as(source, verdict) == <<[source |-> source, on |-> verdict = "on"]>>
  IN IF FreeTier[w] # "none" THEN as("rule", FreeTier[w])
     ELSE IF s = 0 THEN <<>>
     ELSE IF <<t.session, w>> \in Hinted THEN as("rule", "on")
     ELSE IF c.cache[s][w] # "none" THEN as("llm", c.cache[s][w])
     ELSE <<>>

(* The events _classify_new_events looks at: new, and not the open span. *)
Fresh(c, t) == ((c.last + 1)..Len(t.rows)) \ {t.span.row}

(* _classify_new_events, _enqueue: label what is free, queue the rest of what *)
(* belongs to a session.                                                      *)
Considered(c, t, time) ==
  LET judged == {r \in Fresh(c, t) : Judgeable(c, t, r)}
      paid == {r \in judged : FreeLabel(c, t, r) = <<>> /\ t.rows[r].session # 0}
  IN [c EXCEPT
       !.labels = [r \in DOMAIN c.labels |->
                     IF r \in judged THEN c.labels[r] \o FreeLabel(c, t, r) ELSE c.labels[r]],
       !.pending = @ \cup paid,
       !.opened = IF c.pending = {} /\ paid # {} THEN time ELSE @,
       !.last = IF Fresh(c, t) = {} THEN @ ELSE Max(Fresh(c, t))]

(* batch_ready *)
BatchReady(c, time) == c.pending # {} /\ time - c.opened >= BatchWindow

(* What the model may answer to a batch: a refusal is unsure of all of it. *)
Answers(batch) == [batch -> {"on", "off", "unsure"}]

Sure(batch, answer) == {r \in batch : answer[r] # "unsure"}

(* Seeded fault: the user is not asked about what the model leaves out. *)
ToAskNothing(batch, answer) == {}

(* What comes back as needs_asking. *)
ToAsk(batch, answer) == batch \ Sure(batch, answer)

(* _cache_verdict, of each in turn. *)
CacheWith(c, t, answer) ==
  [s \in SessionIds |-> [w \in Windows |->
     LET same == {r \in Sure(c.pending, answer) : t.rows[r].session = s /\ t.rows[r].key = w}
     IN IF same = {} THEN c.cache[s][w] ELSE answer[Max(same)]]]

(* flush *)
Flushed(c, t, answer) ==
  [c EXCEPT
     !.labels = [r \in DOMAIN c.labels |->
                   IF r \in Sure(c.pending, answer)
                   THEN Append(c.labels[r], [source |-> "llm", on |-> answer[r] = "on"])
                   ELSE c.labels[r]],
     !.cache = CacheWith(c, t, answer),
     !.pending = {}, !.opened = 0,
     !.asked = @ \cup ToAsk(c.pending, answer)]

(* The outcomes of a flush. *)
Settled(c, t) == {Flushed(c, t, a) : a \in Answers(c.pending)}

(* What a tick does to the classifier: what waits is flushed before the       *)
(* daemon ends its session; then come the new events, and the batch if it is  *)
(* old enough, which one opened in this tick is not.                          *)
Outcomes(t, forced, time) ==
  LET grown == [Classifier EXCEPT !.labels = @ \o [i \in 1..(Len(t.rows) - Len(@)) |-> <<>>]]
      first == IF forced THEN Settled(grown, t) ELSE {grown}
      second == {Considered(c, t, time) : c \in first}
  IN UNION {IF BatchReady(c, time) THEN Settled(c, t) ELSE {c} : c \in second}

-----------------------------------------------------------------------------
(* Drift.  A judgement <<r, i>> is the i-th label of event r, or i = 0 for an *)
(* away event, which has none.                                               *)

(* Seeded fault: away events are joined away. *)
JudgementsLabelled(c, t) ==
  UNION {{r} \X DOMAIN c.labels[r] : r \in {q \in DOMAIN t.rows : t.rows[q].session = t.session}}

(* The rows DriftDetector.state reads: an event comes once for each label.   *)
Judgements(c, t) ==
  UNION {{r} \X (IF t.rows[r].key = Away THEN {0} ELSE DOMAIN c.labels[r]) :
         r \in {q \in DOMAIN t.rows : t.rows[q].session = t.session}}

OffTask(c, j) == j[2] # 0 /\ ~c.labels[j[1]][j[2]].on

(* Newest event first, the labels of one as they were added. *)
Before(j, k) == j[1] > k[1] \/ (j[1] = k[1] /\ j[2] < k[2])

(* state: the trailing run of off-task judgements.  (An event of 0 units still *)
(* has a duration; the code lets one of exactly 0 seconds pass.)              *)
OffRun(c, t) ==
  LET all == Judgements(c, t)
  IN {j \in all : \A k \in all : k = j \/ Before(k, j) => OffTask(c, k)}

Minutes(t, r) == t.rows[r].end - t.rows[r].start
OffMinutes(c, t) == MapThenSumSet(LAMBDA j : Minutes(t, j[1]), OffRun(c, t))

(* detect: whether this run has been alerted to, afterwards. *)
AlertedAfter(c, t) ==
  IF t.session = 0 THEN alerted
  ELSE LET off == OffMinutes(c, t) IN off > 0 /\ (alerted \/ off >= DriftMin)

-----------------------------------------------------------------------------
Init ==
  /\ SpansInit
  /\ labels = <<<<>>>>
  /\ cache = [s \in SessionIds |-> [w \in Windows |-> "none"]]
  /\ pending = {} /\ opened = 0 /\ asked = {} /\ last = 0 /\ alerted = FALSE

BecomesClassifier(c) ==
  /\ labels' = c.labels /\ cache' = c.cache
  /\ pending' = c.pending /\ opened' = c.opened /\ asked' = c.asked /\ last' = c.last

(* tick: the session of the moment, the poll, an overrun, the events that     *)
(* closed, drift.  `ended' is a session end_session ends, not a resync.       *)
Tick ==
  \E pause \in Gaps, s \in NextSessions, overrun, ended \in BOOLEAN :
    /\ overrun => s = session /\ session # 0
    /\ ended => s = 0 /\ session # 0
    /\ LET time == now + pause
       IN \E e \in LatestEvents(time) : \E snap \in Snapshots(e, time) :
            LET t == TickOf(s, snap, overrun, time)
            IN /\ SpansBecome(t, e, time)
               /\ \E c \in Outcomes(t, overrun \/ ended, time) :
                    BecomesClassifier(c) /\ alerted' = AlertedAfter(c, t)

Labelled(r, on) == [labels EXCEPT ![r] = Append(@, [source |-> "user", on |-> on])]

(* record_user_answer: the cache follows if there was an intent. *)
Recorded(r, w, on) ==
  /\ labels' = Labelled(r, on)
  /\ cache' = IF rows[r].session = 0 THEN cache
              ELSE [cache EXCEPT ![rows[r].session][w] = IF on THEN "on" ELSE "off"]
  /\ UNCHANGED <<spanVars, memory>>

(* The answer to a tier 4 question, or a correction on the report's page, of a *)
(* span of a present user.                                                    *)
Answer(r, on) == rows[r].key # Away /\ Recorded(r, rows[r].key, on)

(* `izy relabel' takes any event, also one away from the keyboard, whose row  *)
(* names the window w that was left in front.                                 *)
Relabel(r, w, on) == rows[r].key = Away /\ Recorded(r, w, on)

(* record_self_label: the hourly question picks any span of a present user,   *)
(* the open one too.                                                          *)
SelfLabel(r, on) ==
  /\ rows[r].key # Away
  /\ labels' = Labelled(r, on)
  /\ UNCHANGED <<spanVars, cache, memory>>

(* Pipeline.stop, or a crash, and the next start. *)
Restart ==
  \E clean, keep \in BOOLEAN :
    /\ SpansRestart(clean, keep)
    /\ \E c \in IF clean THEN Settled(Classifier, Tracked) ELSE {Classifier} :
         labels' = c.labels /\ cache' = c.cache
    /\ pending' = {} /\ opened' = 0 /\ asked' = {} /\ last' = 0 /\ alerted' = FALSE

Running ==
  \/ Tick
  \/ \E r \in DOMAIN rows, on \in BOOLEAN :
       Answer(r, on) \/ SelfLabel(r, on) \/ (\E w \in Windows : Relabel(r, w, on))

Next == Running \/ Restart

Spec == Init /\ [][Next]_vars

-----------------------------------------------------------------------------
(* No span that deserves a judgement is passed over: one the classifier is    *)
(* through with is labelled, waits for a paid verdict, or the user has been   *)
(* asked ("Anything the model silently dropped is asked about, not assumed",  *)
(* src/izy/classifier.py:220), whatever refusals, restarts and session ends   *)
(* came between.                                                              *)
NothingUnjudged ==
  \A r \in 1..last :
    rows[r].session # 0 /\ rows[r].key # Away /\ Minutes(Tracked, r) >= MinDuration
      => labels[r] # <<>> \/ r \in pending \cup asked

(* A span of a session is judged once by Izy itself, although a restart goes  *)
(* through the whole table again: drift and the counters add up durations     *)
(* over labels.                                                               *)
JudgedOnce ==
  \A r \in DOMAIN rows :
    rows[r].session # 0 =>
      \A i, j \in {k \in DOMAIN labels[r] : labels[r][k].source # "user"} : i = j

(* "a user correction supersedes the machine" (src/izy/report/data.py:67):     *)
(* nothing Izy decides later is written over it, not even after a restart has *)
(* gone through the table.  There are two exceptions: a span that waits in a  *)
(* batch when the user labels it, which the batch labels again, and a span of *)
(* no session, to which every restart adds what the rules say of it.          *)
CorrectionStands ==
  [][\A r \in DOMAIN labels :
       LET said == labels[r]
       IN /\ said # <<>> /\ said[Len(said)].source = "user"
          /\ rows[r].session # 0 /\ r \notin pending
          => labels'[r] = said \/ labels'[r][Len(labels'[r])].source = "user"]_vars

(* Nobody comes back to an alert about drift that had already ended           *)
(* (src/izy/drift.py:53-56): an alert is raised only if an event was judged   *)
(* off task after the session's last away event.                              *)
NoAlertOnReturn ==
  [][~alerted /\ alerted' =>
       \E r \in DOMAIN rows' :
         /\ \E i \in DOMAIN labels'[r] : ~labels'[r][i].on
         /\ \A q \in DOMAIN rows' :
              rows'[q].session = session' /\ rows'[q].key = Away => q < r]_vars
=============================================================================
