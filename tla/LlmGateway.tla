----------------------------- MODULE LlmGateway -----------------------------
(***************************************************************************)
(* The one way to the paid model (src/izy/llm.py, complete_json): the cache *)
(* is read, the budget is checked, the model is called, and its answer is   *)
(* cached and accounted for - each on its own, while other callers do the   *)
(* same: the daemon's worker and GUI threads, and `izy remind' processes.   *)
(* A caller may die in between.                                             *)
(*                                                                         *)
(* A question is its cache key: for the classifier a batch of windows, for  *)
(* a reminder its text without the time that the prompt states.  The model  *)
(* itself is external: its answer is any.  Not modelled: prices, the        *)
(* client's construction, what callers make of an answer (the verdicts of a *)
(* batch are Ladder's; the time of a reminder, which nobody checks, is any  *)
(* in Reminders), a statement that fails.                                   *)
(***************************************************************************)
EXTENDS Integers, Sequences, FiniteSets

CONSTANTS
  Callers,      \* the threads and processes that may call the model
  Questions,    \* what they ask, by cache key
  Answers,      \* what the model may answer
  None,         \* no answer in the cache
  Hour, Day,    \* the periods of the two budgets
  HourlyCap, DailyCap,
  MaxTime,      \* bound: the clock
  MaxLost       \* bound: callers that die

ASSUME GatewayAssumption ==
  /\ IsFiniteSet(Callers) /\ None \notin Answers
  /\ {Hour, Day} \subseteq Nat \ {0}
  /\ {HourlyCap, DailyCap, MaxTime, MaxLost} \subseteq Nat

VARIABLES
  clock,
  cache,      \* llm_cache: the answer to each question
  paid,       \* llm_calls: when each row that is not a cache hit was written
  work,       \* what each caller is at
  sent,       \* history: when each call was made
  bought,     \* history: how many answers each caller got for each question
  lost        \* history: callers that died

vars == <<clock, cache, paid, work, sent, bought, lost>>

Idle == [pc |-> "idle"]
At(pc, q) == [pc |-> pc, q |-> q, late |-> FALSE]

Goes(p, what) == work' = [work EXCEPT ![p] = what]

-----------------------------------------------------------------------------
(* Seeded fault: the answers of another hour are not found. *)
CachedOnce(q) == IF clock = 0 THEN cache[q] ELSE None

(* _cache_get *)
Cached(q) == cache[q]

(* complete_json begins.  A hit ends it: it costs nothing, and its row in      *)
(* llm_calls counts for nothing.                                               *)
Ask(p, q) ==
  /\ work[p] = Idle
  /\ IF Cached(q) = None THEN Goes(p, At("missed", q)) ELSE UNCHANGED work
  /\ UNCHANGED <<clock, cache, paid, sent, bought, lost>>

Calls(log, since) == Cardinality({n \in DOMAIN log : log[n] >= since})
Midnight(time) == time - (time % Day)

(* check_budget *)
Allowed == Calls(paid, clock - Hour) < HourlyCap /\ Calls(paid, Midnight(clock)) < DailyCap

Call(p) ==
  /\ work[p].pc = "missed"
  /\ Allowed
  /\ sent' = Append(sent, clock)
  /\ Goes(p, [work[p] EXCEPT !.pc = "sent"])
  /\ UNCHANGED <<clock, cache, paid, bought, lost>>

(* LLMBudgetExceeded, or LLMUnavailable: whoever asked asks the user instead. *)
Refuse(p) ==
  /\ work[p].pc = "missed"
  /\ Goes(p, Idle)
  /\ UNCHANGED <<clock, cache, paid, sent, bought, lost>>

(* Seeded fault: a call that failed is not accounted for. *)
PaidUnlessFailed(failed) == IF failed THEN paid ELSE Append(paid, clock)

(* _log *)
Paid(failed) == Append(paid, clock)

(* An exception, or an answer that is no JSON. *)
Fail(p) ==
  /\ work[p].pc = "sent"
  /\ paid' = Paid(TRUE)
  /\ Goes(p, Idle)
  /\ UNCHANGED <<clock, cache, sent, bought, lost>>

(* Seeded fault: the cache keeps one answer. *)
StoredAlone(q, answer) == [r \in Questions |-> IF r = q THEN answer ELSE None]

(* _cache_put: an answer that was there is replaced. *)
Stored(q, answer) == [cache EXCEPT ![q] = answer]

(* The model answers, and the answer is stored.  A caller that has looked for  *)
(* the same answer comes too late for it.                                      *)
Answer(p, answer) ==
  /\ work[p].pc = "sent"
  /\ LET q == work[p].q
     IN  /\ cache' = Stored(q, answer)
         /\ bought' = [bought EXCEPT ![p][q] = @ + 1]
         /\ work' = [c \in Callers |->
              IF c = p THEN [work[p] EXCEPT !.pc = "answered"]
              ELSE IF work[c].pc = "missed" /\ work[c].q = q THEN [work[c] EXCEPT !.late = TRUE]
              ELSE work[c]]
  /\ UNCHANGED <<clock, paid, sent, lost>>

(* The call is accounted for. *)
Account(p) ==
  /\ work[p].pc = "answered"
  /\ paid' = Paid(FALSE)
  /\ Goes(p, Idle)
  /\ UNCHANGED <<clock, cache, sent, bought, lost>>

(* The process dies; the next one starts from what is in the database. *)
Die(p) ==
  /\ work[p] # Idle /\ lost < MaxLost
  /\ lost' = lost + 1
  /\ Goes(p, Idle)
  /\ UNCHANGED <<clock, cache, paid, sent, bought>>

Elapse ==
  /\ clock < MaxTime
  /\ clock' = clock + 1
  /\ UNCHANGED <<cache, paid, work, sent, bought, lost>>

Init ==
  /\ clock = 0
  /\ cache = [q \in Questions |-> None] /\ paid = <<>>
  /\ work = [p \in Callers |-> Idle]
  /\ bought = [p \in Callers |-> [q \in Questions |-> 0]] /\ sent = <<>> /\ lost = 0

Next ==
  \/ Elapse
  \/ \E p \in Callers :
       \/ \E q \in Questions : Ask(p, q)
       \/ Call(p) \/ Refuse(p) \/ Fail(p)
       \/ \E answer \in Answers : Answer(p, answer)
       \/ Account(p) \/ Die(p)

Spec == Init /\ [][Next]_vars

-----------------------------------------------------------------------------
(* "A hard daily call budget" (src/SPEC.md:54), and an hourly one: no period   *)
(* sees more calls than its cap, but for those that another caller had made    *)
(* and not yet accounted for, and those whose caller died before it did.       *)
(* Calls that fail count.                                                      *)
BudgetHeld ==
  \A n \in DOMAIN sent :
    LET since(time) == Calls(SubSeq(sent, 1, n), time)
        unseen == Cardinality(Callers) - 1 + lost
    IN  /\ since(sent[n] - Hour) <= HourlyCap + unseen
        /\ since(Midnight(sent[n])) <= DailyCap + unseen

(* "Identical questions must never be paid for twice" (src/izy/db.py:173): a   *)
(* call is made only if its answer was not there when its caller looked, be    *)
(* it hours ago that somebody got it.                                          *)
PaidOnce ==
  [][ \A p \in Callers :
        work[p].pc = "missed" /\ work'[p].pc = "sent" =>
          cache[work[p].q] = None \/ work[p].late ]_vars

(* What the same promise is worth when callers race: each that looked before   *)
(* the first answer was there may buy another, but nobody buys two - whatever  *)
(* else is asked and answered, however long ago it was, and whoever died in    *)
(* between.                                                                    *)
BoughtOnce == \A p \in Callers, q \in Questions : bought[p][q] <= 1
=============================================================================
