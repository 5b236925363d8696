--------------------------- MODULE RemindersProofs ---------------------------
(***************************************************************************)
(* Proofs about Reminders, for every instance: any number of reminders, any *)
(* triggers, leads, snooze and deferral.                                    *)
(***************************************************************************)
EXTENDS Reminders, SequenceTheorems, TLAPS

(* The invariant: the queue and the table agree on everything that no client *)
(* touched, and a focus only inherits.                                        *)
IInv == TypeOK /\ WaitingIsLive /\ OnlyCarried

(* A row of the table.                                                       *)
LEMMA RowFacts ==
  ASSUME IInv, NEW r \in DOMAIN rem
  PROVE  rem[r] \in Row /\ rem[r].age \in Int /\ rem[r].urgent \in BOOLEAN
BY DEF IInv, TypeOK, Row

(* A row is marked, or snoozed: it keeps its type, the others are as before.  *)
LEMMA MarkedFacts ==
  ASSUME IInv, NEW r \in DOMAIN rem, NEW status \in {"live", "fired", "closed"}
  PROVE  LET t == Marked(r, status)
         IN  /\ DOMAIN t = DOMAIN rem /\ t \in [DOMAIN rem -> Row]
             /\ t[r].status = status
             /\ \A s \in DOMAIN rem \ {r} : t[s] = rem[s]
<1>. DEFINE row == [rem[r] EXCEPT !.status = status]
<1>1. row \in Row /\ row.status = status
  BY RowFacts DEF Row
<1>2. rem \in [DOMAIN rem -> Row]
  BY DEF IInv, TypeOK
<1>. HIDE DEF row
<1>3. LET t == [rem EXCEPT ![r] = row]
      IN  /\ DOMAIN t = DOMAIN rem /\ t \in [DOMAIN rem -> Row]
          /\ t[r].status = status
          /\ \A s \in DOMAIN rem \ {r} : t[s] = rem[s]
  BY <1>1, <1>2
<1>. QED  BY <1>3 DEF Marked, row

(* snooze changes the one row.                                               *)
LEMMA SnoozedFacts ==
  ASSUME IInv, NEW r \in DOMAIN rem
  PROVE  LET t == Snoozed(r)
         IN  /\ DOMAIN t = DOMAIN rem /\ t \in [DOMAIN rem -> Row]
             /\ \A s \in DOMAIN rem \ {r} : t[s] = rem[s]
<1>. DEFINE row == [rem[r] EXCEPT !.status = "live", !.trigger = "time", !.age = - SnoozeLen]
<1>1. row \in Row
  <2>1. rem[r] \in Row /\ - SnoozeLen \in Int
    BY RowFacts, RemindersAssumption
  <2>. DEFINE age == - SnoozeLen
  <2>. HIDE DEF age
  <2>2. [rem[r] EXCEPT !.status = "live", !.trigger = "time", !.age = age] \in Row
    BY <2>1 DEF Row, age
  <2>. QED  BY <2>2 DEF age
<1>2. rem \in [DOMAIN rem -> Row]
  BY DEF IInv, TypeOK
<1>. HIDE DEF row
<1>3. LET t == [rem EXCEPT ![r] = row]
      IN  /\ DOMAIN t = DOMAIN rem /\ t \in [DOMAIN rem -> Row]
          /\ \A s \in DOMAIN rem \ {r} : t[s] = rem[s]
  BY <1>1, <1>2
<1>. QED  BY <1>3 DEF Snoozed, row

(* So does every answer.                                                     *)
LEMMA ResponseFacts ==
  ASSUME IInv, NEW r \in DOMAIN rem, NEW t \in Responses(r)
  PROVE  /\ DOMAIN t = DOMAIN rem /\ t \in [DOMAIN rem -> Row]
         /\ \A s \in DOMAIN rem \ {r} : t[s] = rem[s]
BY MarkedFacts, SnoozedFacts DEF Responses

(* What the contexts of a phase change can be.                               *)
LEMMA NoticesFacts ==
  ASSUME Begin \/ Leave \/ Replace \/ Glimpse
  PROVE  /\ Range(notices') \subseteq {"session_start", "session_end", "on_break"}
         /\ Leave => "session_end" \in Range(notices')
         /\ Leave /\ phase' = "break" => "on_break" \in Range(notices')
<1>. DEFINE S == {"session_start", "session_end", "on_break"}
<1>1. /\ \A e \in S : <<e>> \in Seq(S) /\ Range(<<e>>) = {e}
      /\ <<"session_start", "session_end">> \in Seq(S) /\ <<>> \in Seq(S)
  BY DEF Range
<1>2. /\ OnBreak \in Seq(S) /\ Range(OnBreak) \subseteq S
      /\ AfterFocus = "break" => Range(OnBreak) = {"on_break"}
  <2>1. OnBreak = <<"on_break">> \/ OnBreak = <<>>
    BY DEF OnBreak
  <2>2. OnBreak \in Seq(S) /\ Range(OnBreak) \subseteq S
    BY <1>1, <2>1, RangeOfSeq
  <2>3. AfterFocus = "break" => OnBreak = <<"on_break">>
    BY DEF OnBreak, AfterFocus
  <2>4. AfterFocus = "break" => Range(OnBreak) = {"on_break"}
    BY <1>1, <2>3
  <2>. QED  BY <2>2, <2>4
<1>. HIDE DEF S
<1>3. "session_start" \in S /\ "session_end" \in S
  BY DEF S
<1>4. ASSUME NEW T \in Seq(S)
      PROVE  /\ T \o OnBreak \in Seq(S) /\ Range(T \o OnBreak) = Range(T) \cup Range(OnBreak)
             /\ (T \o OnBreak) \o <<"session_start">> \in Seq(S)
  BY <1>1, <1>2, <1>3, RangeConcatenation, ConcatProperties
<1>5. notices' \in Seq(S)
  BY <1>1, <1>3, <1>4 DEF Begin, Leave, Replace, Glimpse
<1>6. ASSUME Leave
      PROVE  /\ "session_end" \in Range(notices')
             /\ phase' = "break" => "on_break" \in Range(notices')
  <2>1. Range(notices') = {"session_end"} \cup Range(OnBreak)
    BY <1>1, <1>3, <1>4, <1>6 DEF Leave
  <2>. QED  BY <1>2, <1>6, <2>1 DEF Leave
<1>. QED  BY <1>5, <1>6, RangeOfSeq DEF S

(* What is asked for has a row, is live, and has come due.                    *)
LEMMA AskFacts ==
  ASSUME IInv, NEW C, "time" \notin C
  PROVE  /\ Due \subseteq DOMAIN rem /\ DueFor(C) \subseteq DOMAIN rem
         /\ \A r \in Due : Live(r) /\ rem[r].age >= 0
         /\ \A r \in DueFor(C) : Live(r) /\ rem[r].trigger # "time"
BY DEF Due, DueFor

(* The contexts of a check never include the time.                           *)
LEMMA CheckContextsFacts == "time" \notin CheckContexts
BY DEF CheckContexts

-----------------------------------------------------------------------------
(* The hooks of a phase that begins or ends.                                 *)
LEMMA PhaseChangeKeeps ==
  ASSUME IInv, PhaseChange
  PROVE  IInv'
<1>. DEFINE C == Range(notices')
<1>1. "time" \notin C
  BY NoticesFacts DEF PhaseChange
<1>2. /\ phase # "off" /\ phase' \in {"idle", "focus", "break"}
      /\ waiting \subseteq waiting' /\ waiting' \subseteq waiting \cup DueFor(C) \cup Due
      /\ carried' = IF phase' = "focus" THEN waiting' ELSE {}
      /\ UNCHANGED <<rem, bubbles, seen, touched>>
  BY DEF PhaseChange, Begin, Leave, Replace, Glimpse, AfterFocus, Released
<1>. HIDE DEF C
<1>3. TypeOK'
  BY <1>1, <1>2, AskFacts DEF IInv, TypeOK
<1>4. WaitingIsLive'
  BY <1>1, <1>2, AskFacts DEF IInv, WaitingIsLive, Live
<1>5. OnlyCarried'
  BY <1>2 DEF OnlyCarried
<1>. QED  BY <1>3, <1>4, <1>5 DEF IInv

(* What a tick's checks ask for keeps the invariant, before anything is shown. *)
LEMMA CheckedFacts ==
  ASSUME IInv, NEW contexts \in SUBSET CheckContexts
  PROVE  /\ Checked(contexts) \subseteq DOMAIN rem /\ waiting \subseteq Checked(contexts)
         /\ \A r \in Checked(contexts) \ waiting :
              /\ Live(r) /\ (rem[r].trigger = "time" => rem[r].age >= 0)
              /\ phase = "focus" /\ rem[r].trigger = "time"
                   => rem[r].urgent \/ rem[r].age >= MaxDefer
<1>1. "time" \notin contexts
  BY CheckContextsFacts
<1>. QED  BY <1>1, AskFacts DEF Checked, MayFire, IInv, TypeOK

(* A tick with a bubble.                                                     *)
LEMMA TickShowKeeps ==
  ASSUME IInv, NEW r \in DOMAIN rem, NEW contexts \in SUBSET CheckContexts,
         TickShow(r, contexts)
  PROVE  IInv'
<1>1. /\ waiting' = Checked(contexts) \ {r} /\ bubbles' = bubbles \cup {r}
      /\ touched' = touched \ {r} /\ phase # "off"
      /\ UNCHANGED <<phase, carried>> /\ seen' \in BOOLEAN
  BY DEF TickShow, Quiet, IInv, TypeOK
<1>2. /\ DOMAIN rem' = DOMAIN rem /\ rem' \in [DOMAIN rem -> Row]
      /\ rem'[r].status = "fired"
      /\ \A s \in DOMAIN rem \ {r} : rem'[s] = rem[s]
  BY MarkedFacts DEF TickShow, Fired
<1>3. TypeOK'
  <2>1. \A s \in bubbles' \ touched' : rem'[s].status = "fired"
    BY <1>1, <1>2 DEF IInv, TypeOK
  <2>. QED  BY <1>1, <1>2, <2>1, CheckedFacts DEF IInv, TypeOK
<1>4. WaitingIsLive'
  BY <1>1, <1>2, CheckedFacts DEF IInv, WaitingIsLive, Live
<1>5. OnlyCarried'
  BY <1>1, <1>2, CheckedFacts DEF IInv, OnlyCarried
<1>. QED  BY <1>3, <1>4, <1>5 DEF IInv

(* A tick without one.                                                       *)
LEMMA TickWaitKeeps ==
  ASSUME IInv, NEW quiet \in BOOLEAN, NEW contexts \in SUBSET CheckContexts,
         TickWait(quiet, contexts)
  PROVE  IInv'
<1>1. /\ waiting' \subseteq Checked(contexts) /\ phase # "off"
      /\ touched' = touched \cap (waiting' \cup bubbles)
      /\ UNCHANGED <<phase, carried, rem, bubbles>> /\ seen' \in BOOLEAN
  BY DEF TickWait, Urgent, Quiet, IInv, TypeOK
<1>2. TypeOK'
  BY <1>1, CheckedFacts DEF IInv, TypeOK
<1>3. WaitingIsLive'
  BY <1>1, CheckedFacts DEF IInv, WaitingIsLive, Live
<1>4. OnlyCarried'
  BY <1>1, CheckedFacts DEF IInv, OnlyCarried
<1>. QED  BY <1>2, <1>3, <1>4 DEF IInv

(* An answer touches only what is on screen, which is not waiting unless a    *)
(* client touched it before.                                                  *)
LEMMA AnswerKeeps ==
  ASSUME IInv, NEW r \in bubbles, NEW table \in Responses(r), Answer(r, table)
  PROVE  IInv'
<1>1. r \in DOMAIN rem
  BY DEF IInv, TypeOK
<1>2. /\ DOMAIN rem' = DOMAIN rem /\ rem' \in [DOMAIN rem -> Row]
      /\ \A s \in DOMAIN rem \ {r} : rem'[s] = rem[s]
  BY <1>1, ResponseFacts DEF Answer
<1>3. /\ bubbles' = bubbles \ {r} /\ touched' = touched \cap (waiting \cup bubbles')
      /\ UNCHANGED <<phase, waiting, seen, carried>>
  BY DEF Answer, Quiet
<1>4. r \in waiting => r \in touched
  BY DEF IInv, TypeOK, WaitingIsLive, Live
<1>5. TypeOK'
  BY <1>2, <1>3 DEF IInv, TypeOK
<1>6. WaitingIsLive'
  BY <1>2, <1>3, <1>4 DEF IInv, TypeOK, WaitingIsLive, Live
<1>7. OnlyCarried'
  BY <1>2, <1>3, <1>4 DEF IInv, TypeOK, OnlyCarried
<1>. QED  BY <1>5, <1>6, <1>7 DEF IInv

(* An answer that a client gives.                                            *)
LEMMA ClientActKeeps ==
  ASSUME IInv, NEW r \in DOMAIN rem, NEW table \in Responses(r), ClientAct(r, table)
  PROVE  IInv'
<1>1. /\ DOMAIN rem' = DOMAIN rem /\ rem' \in [DOMAIN rem -> Row]
      /\ \A s \in DOMAIN rem \ {r} : rem'[s] = rem[s]
  BY ResponseFacts DEF ClientAct
<1>2. /\ touched' = touched \cup ({r} \cap (waiting \cup bubbles))
      /\ UNCHANGED <<phase, waiting, bubbles, seen, carried>>
  BY DEF ClientAct, Quiet
<1>3. TypeOK'
  BY <1>1, <1>2 DEF IInv, TypeOK
<1>4. WaitingIsLive'
  BY <1>1, <1>2 DEF IInv, TypeOK, WaitingIsLive, Live
<1>5. OnlyCarried'
  BY <1>1, <1>2 DEF IInv, TypeOK, OnlyCarried
<1>. QED  BY <1>3, <1>4, <1>5 DEF IInv

(* A new reminder.                                                           *)
LEMMA AddKeeps ==
  ASSUME IInv, NEW r \in Rems, NEW t \in Triggers, NEW u \in Urgency, NEW a \in Ages,
         Add(r, t, u, a)
  PROVE  IInv'
<1>. DEFINE row == [status |-> "live", trigger |-> t, urgent |-> u,
                    age |-> IF t = "time" THEN a ELSE 0]
<1>1. row \in Row
  <2>1. u \in BOOLEAN /\ a \in Int
    <3>1. CASE a \in Pasts
      <4>1. a \in 0..MaxDefer
        BY <3>1, RemindersAssumption
      <4>. QED  BY <4>1, RemindersAssumption
    <3>2. CASE \E lead \in Leads : a = 0 - lead
      <4>1. PICK lead \in Nat : a = 0 - lead
        BY <3>2, RemindersAssumption
      <4>. QED  BY <4>1, RemindersAssumption
    <3>. QED  BY <3>1, <3>2 DEF Ages
  <2>. DEFINE age == IF t = "time" THEN a ELSE 0
  <2>2. age \in Int
    BY <2>1
  <2>. HIDE DEF age
  <2>3. [status |-> "live", trigger |-> t, urgent |-> u, age |-> age] \in Row
    BY <2>1, <2>2 DEF Row
  <2>. QED  BY <2>3 DEF age
<1>2. rem' = [s \in DOMAIN rem \cup {r} |-> IF s \in DOMAIN rem THEN rem[s] ELSE row]
  BY DEF Add
<1>3. rem \in [DOMAIN rem -> Row]
  BY DEF IInv, TypeOK
<1>. HIDE DEF row
<1>4. /\ DOMAIN rem' = DOMAIN rem \cup {r} /\ rem' \in [DOMAIN rem' -> Row]
      /\ \A s \in DOMAIN rem : rem'[s] = rem[s]
  BY <1>1, <1>2, <1>3
<1>5. UNCHANGED <<phase, waiting, bubbles, seen, carried, touched>>
  BY DEF Add, Quiet, daemon
<1>6. TypeOK'
  BY <1>4, <1>5 DEF IInv, TypeOK
<1>7. WaitingIsLive'
  BY <1>4, <1>5 DEF IInv, TypeOK, WaitingIsLive, Live
<1>8. OnlyCarried'
  BY <1>4, <1>5 DEF IInv, TypeOK, OnlyCarried
<1>. QED  BY <1>6, <1>7, <1>8 DEF IInv

(* Time passes.                                                              *)
LEMMA ElapseKeeps ==
  ASSUME IInv, Elapse
  PROVE  IInv'
<1>1. DOMAIN rem' = DOMAIN rem
  BY DEF Elapse
<1>2. ASSUME NEW r \in DOMAIN rem
      PROVE  /\ rem'[r] \in Row /\ rem'[r].status = rem[r].status
             /\ rem'[r].trigger = rem[r].trigger /\ rem'[r].urgent = rem[r].urgent
             /\ rem'[r].age >= rem[r].age
  <2>. DEFINE age == IF rem[r].trigger = "time" /\ rem[r].age < MaxDefer
                     THEN rem[r].age + 1 ELSE rem[r].age
  <2>1. rem'[r] = [rem[r] EXCEPT !.age = age]
    BY DEF Elapse
  <2>2. age \in Int /\ age >= rem[r].age
    BY RowFacts
  <2>. HIDE DEF age
  <2>. QED  BY <2>1, <2>2, RowFacts DEF Row
<1>3. rem' \in [DOMAIN rem' -> Row]
  BY <1>1, <1>2 DEF Elapse
<1>4. UNCHANGED <<phase, waiting, bubbles, seen, carried, touched>>
  BY DEF Elapse, Quiet, daemon
<1>5. TypeOK'
  BY <1>1, <1>2, <1>3, <1>4 DEF IInv, TypeOK
<1>6. ASSUME NEW r \in DOMAIN rem, NEW n \in Int, rem[r].age >= n
      PROVE  rem'[r].age >= n
  <2>1. rem[r].age \in Int /\ rem'[r].age \in Int
    BY <1>2, RowFacts DEF Row
  <2>. QED  BY <1>2, <1>6, <2>1
<1>7. WaitingIsLive'
  BY <1>1, <1>2, <1>4, <1>6 DEF IInv, TypeOK, WaitingIsLive, Live
<1>8. OnlyCarried'
  BY <1>1, <1>2, <1>4, <1>6, RemindersAssumption DEF IInv, TypeOK, OnlyCarried
<1>. QED  BY <1>5, <1>7, <1>8 DEF IInv

-----------------------------------------------------------------------------
(* In every state of every instance: the types, and what waits to be shown.   *)
THEOREM Inductive == Spec => []IInv
<1>1. Init => IInv
  BY DEF Init, PhasesInit, IInv, TypeOK, WaitingIsLive, OnlyCarried
<1>2. IInv /\ [Next]_vars => IInv'
  <2>. SUFFICES ASSUME IInv, [Next]_vars
                PROVE  IInv'
    OBVIOUS
  <2>1. CASE BreakOver \/ Start
    BY <2>1 DEF BreakOver, Lapse, Start, Boot, daemon, IInv, TypeOK, WaitingIsLive, Live,
                OnlyCarried
  <2>2. CASE Stop
    BY <2>2 DEF Stop, Off, IInv, TypeOK, WaitingIsLive, OnlyCarried
  <2>3. CASE Tick
    BY <2>3, TickShowKeeps, TickWaitKeeps DEF Tick
  <2>4. ASSUME NEW r \in bubbles, NEW table \in Responses(r), Answer(r, table)
        PROVE  IInv'
    BY <2>4, AnswerKeeps
  <2>5. CASE UNCHANGED vars
    BY <2>5 DEF vars, daemon, IInv, TypeOK, WaitingIsLive, Live, OnlyCarried
  <2>. QED  BY <2>1, <2>2, <2>3, <2>4, <2>5, AddKeeps, PhaseChangeKeeps, ClientActKeeps,
               ElapseKeeps DEF Next
<1>. QED  BY <1>1, <1>2, PTL DEF Spec

(* The type invariant, for every instance.                                   *)
THEOREM TypeCorrect == Spec => []TypeOK
BY Inductive, PTL DEF IInv

(* The arbiter's queue and the table agree, for every number of reminders.    *)
THEOREM AlwaysLive == Spec => []WaitingIsLive
BY Inductive, PTL DEF IInv

(* A focus is only ever disturbed by what it inherits.                        *)
THEOREM FocusInherits == Spec => []OnlyCarried
BY Inductive, PTL DEF IInv

(* The end of a focus releases everything that came due in it.                *)
THEOREM AlwaysReleased == Spec => ReleasedAtBoundary
<1>. DEFINE Release ==
       phase = "focus" /\ phase' \notin {"focus", "off"} =>
        \A r \in DOMAIN rem :
          Live(r) /\ \/ rem[r].trigger = "time" /\ rem[r].age >= 0
                     \/ rem[r].trigger = "session_end"
                     \/ rem[r].trigger = "on_break" /\ phase' = "break"
          => r \in waiting'
<1>1. [Next]_vars => [Release]_vars
  <2>. SUFFICES ASSUME Next, phase = "focus", phase' \notin {"focus", "off"}
                PROVE  Release
    OBVIOUS
  <2>1. PhaseChange /\ Leave
    BY DEF Next, Add, PhaseChange, Begin, Replace, Glimpse, BreakOver, Lapse, Start, Boot,
           Stop, Off, Tick, TickShow, TickWait, Answer, ClientAct, Elapse, Quiet
  <2>2. /\ "session_end" \in Range(notices')
        /\ phase' = "break" => "on_break" \in Range(notices')
    BY <2>1, NoticesFacts
  <2>3. Due \subseteq waiting' /\ DueFor(Range(notices')) \subseteq waiting'
    BY <2>1, <2>2 DEF PhaseChange, Released
  <2>. QED  BY <2>2, <2>3 DEF Due, DueFor
<1>. QED  BY <1>1, PTL DEF Spec, ReleasedAtBoundary

=============================================================================
