-------------------------- MODULE LlmGatewayProofs ---------------------------
(***************************************************************************)
(* Proofs about LlmGateway, for every instance: any number of callers and   *)
(* questions, any caps and periods, any number of callers that die.         *)
(***************************************************************************)
EXTENDS LlmGateway, FiniteSetTheorems, SequenceTheorems, TLAPS

Busy ==
  [pc : {"missed", "sent", "answered"}, q : Questions, late : BOOLEAN]
Work == {Idle} \cup Busy

TypeOK ==
  /\ clock \in Nat /\ lost \in Nat
  /\ work \in [Callers -> Work] /\ cache \in [Questions -> Answers \cup {None}]
  /\ paid \in Seq(Nat) /\ sent \in Seq(Nat)
  /\ bought \in [Callers -> [Questions -> Nat]]

(* The calls that were made and are not accounted for. *)
InFlight == {p \in Callers : work[p].pc \in {"sent", "answered"}}

(* No call lies in the future, and since any moment at most those in flight   *)
(* and those of callers that died are missing from the account.               *)
AccountInv ==
  /\ \A n \in DOMAIN sent : sent[n] <= clock
  /\ \A time \in Int : Calls(sent, time) <= Calls(paid, time) + Cardinality(InFlight) + lost

(* Who has missed an answer missed one that was not there, or came too late.   *)
WorkInv ==
  \A p \in Callers :
    work[p].pc = "missed" => cache[work[p].q] = None \/ work[p].late

(* Nobody has bought what was never answered, and who has bought an answer is  *)
(* not after it again.                                                         *)
BoughtInv ==
  \A p \in Callers, q \in Questions :
    /\ bought[p][q] \in {0, 1}
    /\ bought[p][q] = 1 =>
         cache[q] # None /\ ~ (work[p].pc \in {"missed", "sent"} /\ work[p].q = q)

IInv == TypeOK /\ AccountInv /\ WorkInv /\ BoughtInv /\ BudgetHeld

-----------------------------------------------------------------------------
(* Counting the rows of a log. *)

(* The calls since a time are a number ...                                   *)
LEMMA CallsType ==
  ASSUME NEW log \in Seq(Nat), NEW time \in Int
  PROVE  /\ IsFiniteSet({n \in DOMAIN log : log[n] >= time})
         /\ Calls(log, time) \in Nat
<1>1. DOMAIN log = 1..Len(log) /\ Len(log) \in Int /\ 1 \in Int
  BY LenProperties
<1>2. IsFiniteSet(DOMAIN log)
  BY <1>1, FS_Interval
<1>3. IsFiniteSet({n \in DOMAIN log : log[n] >= time})
  BY <1>2, FS_Subset
<1>. QED  BY <1>3, FS_CardinalityType DEF Calls

(* One more row counts if it is recent enough. *)
LEMMA CallsAppend ==
  ASSUME NEW log \in Seq(Nat), NEW e \in Nat, NEW time \in Int
  PROVE  Calls(Append(log, e), time) = Calls(log, time) + (IF e >= time THEN 1 ELSE 0)
<1>. DEFINE A == {n \in DOMAIN log : log[n] >= time}
            more == Append(log, e)
            B == {n \in DOMAIN more : more[n] >= time}
            k == Len(log) + 1
<1>1. /\ DOMAIN log = 1..Len(log) /\ Len(log) \in Nat
      /\ DOMAIN more = 1..k /\ more[k] = e
      /\ \A n \in 1..Len(log) : more[n] = log[n]
  BY LenProperties, AppendProperties
<1>2. DOMAIN more = DOMAIN log \cup {k} /\ k \notin DOMAIN log
  BY <1>1
<1>3. more[k] = e /\ \A n \in DOMAIN log : more[n] = log[n]
  BY <1>1
<1>4. B = IF e >= time THEN A \cup {k} ELSE A
  <2>. HIDE DEF more, k
  <2>. QED  BY <1>2, <1>3
<1>5. k \notin A /\ IsFiniteSet(A) /\ Cardinality(A) \in Nat
  BY <1>2, CallsType DEF Calls
<1>6. Cardinality(A \cup {k}) = Cardinality(A) + 1
  BY <1>5, FS_AddElement
<1>7. Calls(log, time) = Cardinality(A) /\ Calls(more, time) = Cardinality(B)
  BY DEF Calls
<1>. HIDE DEF A, B
<1>. QED  BY <1>4, <1>5, <1>6, <1>7 DEF more

(* ... and none, if all were before it.                                      *)
LEMMA CallsNone ==
  ASSUME NEW log \in Seq(Nat), NEW time \in Int, \A n \in DOMAIN log : log[n] < time
  PROVE  Calls(log, time) = 0
<1>1. \A n \in DOMAIN log : log[n] \in Nat
  OBVIOUS
<1>2. {n \in DOMAIN log : log[n] >= time} = {}
  BY <1>1
<1>. QED  BY <1>2, FS_EmptySet DEF Calls

(* The limits are natural numbers.                                           *)
LEMMA Constants ==
  /\ Hour \in Nat /\ Day \in Nat /\ HourlyCap \in Nat /\ DailyCap \in Nat
  /\ Hour > 0 /\ Day > 0
BY GatewayAssumption

(* The start of the day, which the daily cap counts from.                    *)
LEMMA MidnightType ==
  ASSUME NEW time \in Nat
  PROVE  Midnight(time) \in Int
<1>1. Day \in Nat \ {0}
  BY GatewayAssumption
<1>2. time % Day \in Int
  BY <1>1
<1>. QED  BY <1>2 DEF Midnight

(* What a step of one caller does to the set of calls in flight.              *)
LEMMA InFlightFinite ==
  /\ IsFiniteSet(InFlight) /\ Cardinality(InFlight) \in Nat
  /\ IsFiniteSet(Callers) /\ Cardinality(Callers) \in Nat
  /\ IsFiniteSet(InFlight') /\ Cardinality(InFlight') \in Nat
<1>1. IsFiniteSet(Callers)
  BY GatewayAssumption
<1>2. InFlight \subseteq Callers /\ InFlight' \subseteq Callers
  BY DEF InFlight
<1>. QED  BY <1>1, <1>2, FS_Subset, FS_CardinalityType

-----------------------------------------------------------------------------
(* The types, step by step. *)

(* Every step keeps the types.                                               *)
LEMMA TypeStep ==
  ASSUME TypeOK, [Next]_vars
  PROVE  TypeOK'
<1>. USE DEF TypeOK
<1>1. Idle \in Work /\ \A p \in Callers : work[p] \in Work
  BY DEF Work
<1>2. ASSUME NEW p \in Callers, NEW w \in Work
      PROVE  [work EXCEPT ![p] = w] \in [Callers -> Work]
  OBVIOUS
<1>3. ASSUME Elapse
      PROVE  TypeOK'
  BY <1>3 DEF Elapse
<1>5. ASSUME NEW p \in Callers, NEW q \in Questions, Ask(p, q)
      PROVE  TypeOK'
  <2>1. At("missed", q) \in Work
    BY DEF At, Work, Busy
  <2>. QED  BY <1>2, <1>5, <2>1 DEF Ask, Goes
<1>6. ASSUME NEW p \in Callers, Call(p)
      PROVE  TypeOK'
  <2>. DEFINE w == [work[p] EXCEPT !.pc = "sent"]
  <2>1. w \in Work
    <3>1. work[p] \in Busy
      BY <1>1, <1>6 DEF Call, Work, Idle
    <3>. QED  BY <3>1 DEF Busy, Work
  <2>2. work' \in [Callers -> Work]
    <3>. HIDE DEF w
    <3>1. work' = [work EXCEPT ![p] = w]
      BY <1>6 DEF Call, Goes, w
    <3>. QED  BY <1>2, <2>1, <3>1
  <2>. QED  BY <1>6, <2>2, AppendProperties DEF Call
<1>7. ASSUME NEW p \in Callers, Refuse(p) \/ Fail(p) \/ Account(p) \/ Die(p)
      PROVE  TypeOK'
  <2>1. work' \in [Callers -> Work]
    BY <1>1, <1>2, <1>7 DEF Refuse, Fail, Account, Die, Goes
  <2>2. /\ paid' = paid \/ paid' = Append(paid, clock)
        /\ lost' = lost \/ lost' = lost + 1
        /\ UNCHANGED <<clock, cache, sent, bought>>
    BY <1>7 DEF Refuse, Fail, Account, Die, Paid
  <2>3. paid' \in Seq(Nat) /\ lost' \in Nat
    <3>1. Append(paid, clock) \in Seq(Nat) /\ lost + 1 \in Nat
      BY AppendProperties
    <3>. QED  BY <2>2, <3>1
  <2>. QED  BY <2>1, <2>2, <2>3
<1>8. ASSUME NEW p \in Callers, NEW answer \in Answers, Answer(p, answer)
      PROVE  TypeOK'
  <2>. DEFINE q == work[p].q
  <2>1. work[p] # Idle /\ q \in Questions
    BY <1>1, <1>8 DEF Answer, Idle, Work, Busy
  <2>2. cache' \in [Questions -> Answers \cup {None}]
    BY <1>8, <2>1 DEF Answer, Stored
  <2>3. [work[p] EXCEPT !.pc = "answered"] \in Work
    BY <1>1, <1>8, <2>1 DEF Work, Busy, Idle
  <2>4. \A c \in Callers : work[c].pc = "missed" => [work[c] EXCEPT !.late = TRUE] \in Work
    BY <1>1 DEF Work, Busy, Idle
  <2>5. work' \in [Callers -> Work]
    BY <1>1, <1>8, <2>3, <2>4 DEF Answer
  <2>6. bought' \in [Callers -> [Questions -> Nat]]
    <3>1. [bought[p] EXCEPT ![q] = @ + 1] \in [Questions -> Nat]
      BY <2>1
    <3>2. bought' = [bought EXCEPT ![p] = [bought[p] EXCEPT ![q] = @ + 1]]
      BY <1>8 DEF Answer
    <3>. QED  BY <3>1, <3>2
  <2>. QED  BY <1>8, <2>2, <2>5, <2>6 DEF Answer
<1>9. ASSUME UNCHANGED vars
      PROVE  TypeOK'
  BY <1>9 DEF vars
<1>. QED  BY <1>3, <1>5, <1>6, <1>7, <1>8, <1>9 DEF Next

(* Whatever a step does to a caller, the sets of calls in flight differ in it. *)
LEMMA InFlightMoves ==
  ASSUME TypeOK, NEW p \in Callers, NEW w \in Work, Goes(p, w)
  PROVE  /\ w.pc \in {"sent", "answered"} => InFlight' = InFlight \cup {p}
         /\ w.pc \notin {"sent", "answered"} => InFlight' = InFlight \ {p}
         /\ \A c \in Callers \ {p} : work'[c] = work[c]
         /\ work'[p] = w
<1>1. \A c \in Callers : work'[c] = IF c = p THEN w ELSE work[c]
  BY DEF Goes, TypeOK
<1>. QED  BY <1>1 DEF InFlight

-----------------------------------------------------------------------------
(* The account. *)

(* Every step keeps the account short of the calls made by those under way   *)
(* and lost.                                                                 *)
LEMMA AccountStep ==
  ASSUME TypeOK, TypeOK', AccountInv, [Next]_vars
  PROVE  AccountInv'
<1>1. \A n \in DOMAIN sent : sent[n] \in Nat
  BY DEF TypeOK
<1>2. CASE Elapse \/ UNCHANGED vars
  <2>1. /\ UNCHANGED <<paid, work, sent, lost>> /\ clock' >= clock
        /\ clock \in Nat /\ clock' \in Nat
    BY <1>2 DEF Elapse, vars, TypeOK
  <2>2. InFlight' = InFlight
    BY <2>1 DEF InFlight
  <2>. QED  BY <1>1, <2>1, <2>2 DEF AccountInv
<1>3. ASSUME NEW p \in Callers, NEW w \in Work, Goes(p, w),
             w.pc \in {"sent", "answered"} <=> work[p].pc \in {"sent", "answered"},
             UNCHANGED <<clock, paid, sent, lost>>
      PROVE  AccountInv'
  <2>1. InFlight' = InFlight
    BY <1>3, InFlightMoves DEF InFlight
  <2>. QED  BY <1>3, <2>1 DEF AccountInv
<1>4. ASSUME NEW p \in Callers, Call(p)
      PROVE  AccountInv'
  <2>1. work'[p] \in Work /\ Goes(p, work'[p]) /\ work'[p].pc = "sent" /\ work[p].pc = "missed"
    BY <1>4 DEF Call, Goes, TypeOK
  <2>2. InFlight' = InFlight \cup {p} /\ p \notin InFlight
    BY <2>1, InFlightMoves DEF InFlight
  <2>3. Cardinality(InFlight') = Cardinality(InFlight) + 1
    BY <2>2, InFlightFinite, FS_AddElement
  <2>4. sent' = Append(sent, clock) /\ UNCHANGED <<clock, paid, lost>>
    BY <1>4 DEF Call
  <2>5. \A n \in DOMAIN sent' : sent'[n] <= clock'
    <3>1. clock \in Nat /\ sent \in Seq(Nat)
      BY DEF TypeOK
    <3>2. /\ DOMAIN sent' = 1..(Len(sent) + 1) /\ sent'[Len(sent) + 1] = clock
          /\ \A n \in 1..Len(sent) : sent'[n] = sent[n]
      BY <2>4, <3>1, AppendProperties
    <3>3. DOMAIN sent = 1..Len(sent) /\ Len(sent) \in Nat
      BY <3>1, LenProperties
    <3>. QED  BY <1>1, <2>4, <3>1, <3>2, <3>3 DEF AccountInv
  <2>6. ASSUME NEW time \in Int
        PROVE  Calls(sent', time) <= Calls(paid', time) + Cardinality(InFlight') + lost'
    <3>1. /\ clock \in Nat /\ lost \in Nat /\ Calls(sent, time) \in Nat
          /\ Calls(paid, time) \in Nat /\ Cardinality(InFlight) \in Nat
      BY CallsType, InFlightFinite DEF TypeOK
    <3>2. Calls(sent', time) = Calls(sent, time) + (IF clock >= time THEN 1 ELSE 0)
      BY <2>4, CallsAppend DEF TypeOK
    <3>3. Calls(sent, time) <= Calls(paid, time) + Cardinality(InFlight) + lost
      BY DEF AccountInv
    <3>. QED  BY <2>3, <2>4, <3>1, <3>2, <3>3
  <2>. QED  BY <2>5, <2>6 DEF AccountInv
<1>5. ASSUME NEW p \in Callers, Fail(p) \/ Account(p)
      PROVE  AccountInv'
  <2>1. /\ Goes(p, Idle) /\ work[p].pc \in {"sent", "answered"}
        /\ paid' = Append(paid, clock) /\ UNCHANGED <<clock, sent, lost>>
    BY <1>5 DEF Fail, Account, Paid
  <2>2. InFlight' = InFlight \ {p} /\ p \in InFlight
    BY <2>1, InFlightMoves DEF InFlight, Idle, Work
  <2>3. Cardinality(InFlight') = Cardinality(InFlight) - 1
    BY <2>2, InFlightFinite, FS_RemoveElement
  <2>4. ASSUME NEW time \in Int
        PROVE  Calls(sent', time) <= Calls(paid', time) + Cardinality(InFlight') + lost'
    <3>1. /\ clock \in Nat /\ lost \in Nat /\ Calls(sent, time) \in Nat
          /\ Calls(paid, time) \in Nat /\ Cardinality(InFlight) \in Nat
          /\ Cardinality(InFlight') \in Nat
      BY CallsType, InFlightFinite DEF TypeOK
    <3>2. Calls(paid', time) = Calls(paid, time) + (IF clock >= time THEN 1 ELSE 0)
      BY <2>1, CallsAppend DEF TypeOK
    <3>3. Calls(sent, time) <= Calls(paid, time) + Cardinality(InFlight) + lost
      BY DEF AccountInv
    <3>4. CASE clock >= time
      BY <2>1, <2>3, <3>1, <3>2, <3>3, <3>4
    <3>5. CASE ~ (clock >= time)
      <4>1. \A n \in DOMAIN sent : sent[n] < time
        BY <1>1, <3>1, <3>5 DEF AccountInv
      <4>2. Calls(sent, time) = 0
        BY <4>1, CallsNone DEF TypeOK
      <4>. QED  BY <2>1, <3>1, <3>2, <3>5, <4>2
    <3>. QED  BY <3>4, <3>5
  <2>. QED  BY <2>1, <2>4 DEF AccountInv
<1>6. ASSUME NEW p \in Callers, Die(p)
      PROVE  AccountInv'
  <2>1. /\ Goes(p, Idle) /\ lost' = lost + 1 /\ UNCHANGED <<clock, sent, paid>>
    BY <1>6 DEF Die
  <2>2. InFlight' = InFlight \ {p}
    BY <2>1, InFlightMoves DEF Idle, Work
  <2>3. Cardinality(InFlight') >= Cardinality(InFlight) - 1
    <3>1. Cardinality(InFlight') = IF p \in InFlight THEN Cardinality(InFlight) - 1
                                                      ELSE Cardinality(InFlight)
      BY <2>2, InFlightFinite, FS_RemoveElement
    <3>. QED  BY <3>1, InFlightFinite
  <2>4. ASSUME NEW time \in Int
        PROVE  Calls(sent', time) <= Calls(paid', time) + Cardinality(InFlight') + lost'
    <3>1. /\ lost \in Nat /\ Calls(sent, time) \in Nat /\ Calls(paid, time) \in Nat
          /\ Cardinality(InFlight) \in Nat /\ Cardinality(InFlight') \in Nat
      BY CallsType, InFlightFinite DEF TypeOK
    <3>2. Calls(sent, time) <= Calls(paid, time) + Cardinality(InFlight) + lost
      BY DEF AccountInv
    <3>. QED  BY <2>1, <2>3, <3>1, <3>2
  <2>. QED  BY <2>1, <2>4 DEF AccountInv
<1>7. ASSUME NEW p \in Callers, NEW answer, Answer(p, answer)
      PROVE  AccountInv'
  <2>1. \A c \in Callers : work'[c].pc \in {"sent", "answered"} <=> work[c].pc \in {"sent", "answered"}
    <3>1. \A c \in Callers : work[c] = Idle \/ work[c] \in Busy
      BY DEF TypeOK, Work
    <3>2. [work[p] EXCEPT !.pc = "answered"].pc = "answered" /\ work[p].pc = "sent"
      BY <1>7, <3>1 DEF Answer, Busy, Idle
    <3>3. \A c \in Callers : [work[c] EXCEPT !.late = TRUE].pc = work[c].pc
      BY <3>1 DEF Busy, Idle
    <3>. QED  BY <1>7, <3>2, <3>3 DEF Answer
  <2>2. InFlight' = InFlight /\ UNCHANGED <<clock, paid, sent, lost>>
    BY <1>7, <2>1 DEF InFlight, Answer
  <2>. QED  BY <2>2 DEF AccountInv
<1>9. ASSUME NEW p \in Callers, NEW q \in Questions, Ask(p, q)
      PROVE  AccountInv'
  <2>1. work[p] = Idle /\ UNCHANGED <<clock, paid, sent, lost>>
    BY <1>9 DEF Ask
  <2>2. CASE work' = work
    BY <2>1, <2>2 DEF AccountInv, InFlight
  <2>3. CASE Goes(p, At("missed", q))
    <3>1. At("missed", q) \in Work /\ At("missed", q).pc = "missed"
      BY DEF At, Work, Busy, TypeOK
    <3>. QED  BY <1>3, <2>1, <2>3, <3>1 DEF Idle
  <2>. QED  BY <1>9, <2>2, <2>3 DEF Ask
<1>10. ASSUME NEW p \in Callers, Refuse(p)
       PROVE  AccountInv'
  <2>1. Goes(p, Idle) /\ work[p].pc = "missed" /\ UNCHANGED <<clock, paid, sent, lost>>
    BY <1>10 DEF Refuse
  <2>. QED  BY <1>3, <2>1 DEF Idle, Work
<1>. QED  BY <1>2, <1>4, <1>5, <1>6, <1>7, <1>9, <1>10 DEF Next

-----------------------------------------------------------------------------
(* What each caller is at. *)

(* Every step keeps what a caller knows of the cache true.                   *)
LEMMA WorkStep ==
  ASSUME TypeOK, WorkInv, [Next]_vars
  PROVE  WorkInv'
<1>1. \A c \in Callers : work[c] = Idle \/ work[c] \in Busy
  BY DEF TypeOK, Work
<1>2. ASSUME UNCHANGED <<work, cache>>
      PROVE  WorkInv'
  BY <1>2 DEF WorkInv
<1>3. ASSUME NEW p \in Callers, NEW w \in Work, Goes(p, w), UNCHANGED cache,
             w.pc = "missed" => cache[w.q] = None
      PROVE  WorkInv'
  <2>1. \A c \in Callers : work'[c] = IF c = p THEN w ELSE work[c]
    BY <1>3 DEF Goes, TypeOK
  <2>. QED  BY <1>3, <2>1 DEF WorkInv
<1>4. ASSUME NEW p \in Callers, Refuse(p) \/ Fail(p) \/ Account(p) \/ Die(p)
      PROVE  WorkInv'
  BY <1>3, <1>4 DEF Refuse, Fail, Account, Die, Idle, Work
<1>5. ASSUME NEW p \in Callers, NEW q \in Questions, Ask(p, q)
      PROVE  WorkInv'
  <2>1. CASE UNCHANGED work
    BY <1>2, <1>5, <2>1 DEF Ask
  <2>2. CASE Goes(p, At("missed", q)) /\ cache[q] = None
    <3>1. At("missed", q) \in Work /\ At("missed", q).pc = "missed" /\ At("missed", q).q = q
      BY DEF At, Work, Busy, TypeOK
    <3>. QED  BY <1>3, <1>5, <2>2, <3>1 DEF Ask
  <2>. QED  BY <1>5, <2>1, <2>2 DEF Ask, Cached
<1>6. ASSUME NEW p \in Callers, Call(p)
      PROVE  WorkInv'
  <2>. DEFINE w == [work[p] EXCEPT !.pc = "sent"]
  <2>1. work[p] \in Busy
    BY <1>1, <1>6 DEF Call, Idle
  <2>2. w \in Work /\ w.pc = "sent"
    BY <2>1 DEF Busy, Work
  <2>3. Goes(p, w) /\ UNCHANGED cache
    BY <1>6 DEF Call
  <2>. HIDE DEF w
  <2>. QED  BY <1>3, <2>2, <2>3
<1>7. ASSUME NEW p \in Callers, NEW answer \in Answers, Answer(p, answer)
      PROVE  WorkInv'
  <2>. DEFINE q == work[p].q
  <2>1. work[p] \in Busy /\ q \in Questions
    BY <1>1, <1>7 DEF Answer, Idle, Busy
  <2>2. work'[p].pc = "answered"
    BY <1>7, <2>1 DEF Answer, Busy
  <2>4. ASSUME NEW c \in Callers, c # p
        PROVE  \/ /\ ~(work[c].pc = "missed" /\ work[c].q = q)
                  /\ work'[c] = work[c]
               \/ /\ work'[c].pc = "missed" /\ work'[c].late = TRUE
    <3>1. CASE work[c].pc = "missed" /\ work[c].q = q
      <4>1. work[c] \in Busy /\ work'[c] = [work[c] EXCEPT !.late = TRUE]
        BY <1>1, <1>7, <2>4, <3>1 DEF Answer, Idle
      <4>. QED  BY <3>1, <4>1 DEF Busy
    <3>2. CASE ~(work[c].pc = "missed" /\ work[c].q = q)
      BY <1>7, <2>4, <3>2 DEF Answer
    <3>. QED  BY <3>1, <3>2
  <2>5. \A r \in Questions : cache'[r] = IF r = q THEN answer ELSE cache[r]
    BY <1>7, <2>1 DEF Answer, Stored, TypeOK
  <2>6. ASSUME NEW c \in Callers, work'[c].pc = "missed"
        PROVE  cache'[work'[c].q] = None \/ work'[c].late
    <3>1. c # p
      BY <2>2, <2>6
    <3>2. CASE work'[c].late = TRUE
      BY <3>2
    <3>3. CASE work'[c] = work[c] /\ ~(work[c].pc = "missed" /\ work[c].q = q)
      <4>1. work[c] \in Busy
        BY <1>1, <2>6, <3>3 DEF Idle
      <4>2. work[c].q \in Questions /\ work[c].q # q
        BY <2>6, <3>3, <4>1 DEF Busy
      <4>3. cache[work[c].q] = None \/ work[c].late
        BY <2>6, <3>3 DEF WorkInv
      <4>. QED  BY <2>5, <3>3, <4>2, <4>3
    <3>. QED  BY <2>4, <3>1, <3>2, <3>3
  <2>. QED  BY <2>6 DEF WorkInv
<1>9. CASE Elapse \/ UNCHANGED vars
  BY <1>2, <1>9 DEF Elapse, vars
<1>. QED  BY <1>4, <1>5, <1>6, <1>7, <1>9 DEF Next

-----------------------------------------------------------------------------
(* The properties. *)

(* Every step keeps what was bought to one of each.  An answer is bought by a  *)
(* caller that was after it, so by none that had it.                           *)
LEMMA BoughtStep ==
  ASSUME TypeOK, BoughtInv, [Next]_vars
  PROVE  BoughtInv'
<1>1. \A c \in Callers : work[c] = Idle \/ work[c] \in Busy
  BY DEF TypeOK, Work
<1>2. ASSUME NEW p \in Callers, NEW w \in Work, Goes(p, w), UNCHANGED <<cache, bought>>,
             w.pc = "missed" => cache[w.q] = None,
             w.pc = "sent" => work[p].pc = "missed" /\ w.q = work[p].q
      PROVE  BoughtInv'
  <2>1. \A c \in Callers : work'[c] = IF c = p THEN w ELSE work[c]
    BY <1>2 DEF Goes, TypeOK
  <2>. QED  BY <1>2, <2>1 DEF BoughtInv
<1>3. ASSUME NEW p \in Callers, Refuse(p) \/ Fail(p) \/ Account(p) \/ Die(p)
      PROVE  BoughtInv'
  BY <1>2, <1>3 DEF Refuse, Fail, Account, Die, Idle, Work
<1>4. ASSUME NEW p \in Callers, NEW q \in Questions, Ask(p, q)
      PROVE  BoughtInv'
  <2>1. CASE UNCHANGED work
    BY <1>4, <2>1 DEF Ask, BoughtInv
  <2>2. CASE Goes(p, At("missed", q)) /\ cache[q] = None
    <3>1. At("missed", q) \in Work /\ At("missed", q).pc = "missed" /\ At("missed", q).q = q
      BY DEF At, Work, Busy
    <3>. QED  BY <1>2, <1>4, <2>2, <3>1 DEF Ask
  <2>. QED  BY <1>4, <2>1, <2>2 DEF Ask, Cached
<1>5. ASSUME NEW p \in Callers, Call(p)
      PROVE  BoughtInv'
  <2>. DEFINE w == [work[p] EXCEPT !.pc = "sent"]
  <2>1. work[p] \in Busy /\ work[p].pc = "missed"
    BY <1>1, <1>5 DEF Call, Idle
  <2>2. w \in Work /\ w.pc = "sent" /\ w.q = work[p].q
    BY <2>1 DEF Busy, Work
  <2>3. Goes(p, w) /\ UNCHANGED <<cache, bought>>
    BY <1>5 DEF Call
  <2>. HIDE DEF w
  <2>. QED  BY <1>2, <2>1, <2>2, <2>3
<1>6. ASSUME NEW p \in Callers, NEW answer \in Answers, Answer(p, answer)
      PROVE  BoughtInv'
  <2>. DEFINE q == work[p].q
  <2>1. work[p] \in Busy /\ q \in Questions /\ work[p].pc = "sent"
    BY <1>1, <1>6 DEF Answer, Idle, Busy
  <2>2. work'[p].pc = "answered"
    BY <1>6, <2>1 DEF Answer, Busy
  <2>3. ASSUME NEW c \in Callers, c # p
        PROVE  work'[c].pc = work[c].pc /\ (work[c].pc # "idle" => work'[c].q = work[c].q)
    <3>1. work'[c] = work[c] \/ work'[c] = [work[c] EXCEPT !.late = TRUE]
      BY <1>6, <2>3 DEF Answer
    <3>. QED  BY <1>1, <3>1 DEF Busy, Idle
  <2>4. \A r \in Questions : cache'[r] = IF r = q THEN answer ELSE cache[r]
    BY <1>6, <2>1 DEF Answer, Stored, TypeOK
  <2>5. answer # None
    BY GatewayAssumption
  <2>6. \A c \in Callers, r \in Questions :
          bought'[c][r] = IF c = p /\ r = q THEN bought[c][r] + 1 ELSE bought[c][r]
    BY <1>6, <2>1 DEF Answer, TypeOK
  <2>7. bought[p][q] = 0
    BY <2>1 DEF BoughtInv
  <2>8. ASSUME NEW c \in Callers, NEW r \in Questions
        PROVE  /\ bought'[c][r] \in {0, 1}
               /\ bought'[c][r] = 1 =>
                    cache'[r] # None /\ ~ (work'[c].pc \in {"missed", "sent"} /\ work'[c].q = r)
    <3>1. CASE c = p /\ r = q
      BY <2>2, <2>4, <2>5, <2>6, <2>7, <3>1
    <3>2. CASE ~ (c = p /\ r = q)
      <4>1. /\ bought[c][r] \in {0, 1}
            /\ bought[c][r] = 1 =>
                 cache[r] # None /\ ~ (work[c].pc \in {"missed", "sent"} /\ work[c].q = r)
        BY DEF BoughtInv
      <4>2. bought'[c][r] = bought[c][r] /\ (cache[r] # None => cache'[r] # None)
        BY <2>4, <2>5, <2>6, <3>2
      <4>3. CASE c = p
        BY <2>2, <4>1, <4>2, <4>3
      <4>4. CASE c # p
        BY <2>3, <4>1, <4>2, <4>4
      <4>. QED  BY <4>3, <4>4
    <3>. QED  BY <3>1, <3>2
  <2>. QED  BY <2>8 DEF BoughtInv
<1>7. CASE Elapse \/ UNCHANGED vars
  BY <1>7 DEF Elapse, vars, BoughtInv
<1>. QED  BY <1>3, <1>4, <1>5, <1>6, <1>7 DEF Next

(* At a call, the account is short of those in flight and of those that died:  *)
(* the caller itself is not among them yet.                                    *)
LEMMA BudgetAtCall ==
  ASSUME TypeOK, AccountInv, NEW p \in Callers, Call(p),
         NEW since \in Int, NEW cap \in Nat, Calls(paid, since) < cap
  PROVE  Calls(sent', since) <= cap + (Cardinality(Callers) - 1 + lost)
<1>1. /\ clock \in Nat /\ lost \in Nat /\ Calls(sent, since) \in Nat
      /\ Calls(paid, since) \in Nat /\ Cardinality(InFlight) \in Nat
      /\ Cardinality(Callers) \in Nat
  BY CallsType, InFlightFinite DEF TypeOK
<1>2. Calls(sent', since) = Calls(sent, since) + (IF clock >= since THEN 1 ELSE 0)
  BY CallsAppend DEF TypeOK, Call
<1>3. Calls(sent, since) <= Calls(paid, since) + Cardinality(InFlight) + lost
  BY DEF AccountInv
<1>4. Cardinality(InFlight) <= Cardinality(Callers) - 1
  <2>1. InFlight \subseteq Callers \ {p}
    BY DEF InFlight, Call
  <2>2. IsFiniteSet(Callers \ {p}) /\ Cardinality(Callers \ {p}) = Cardinality(Callers) - 1
    BY InFlightFinite, FS_RemoveElement
  <2>. QED  BY <2>1, <2>2, FS_Subset
<1>. QED  BY <1>1, <1>2, <1>3, <1>4

(* Every step keeps the calls of an hour and of a day within the caps.       *)
LEMMA BudgetStep ==
  ASSUME TypeOK, TypeOK', AccountInv, BudgetHeld, [Next]_vars
  PROVE  BudgetHeld'
<1>. DEFINE Held(log, n, dead) ==
       /\ Calls(SubSeq(log, 1, n), log[n] - Hour)
            <= HourlyCap + (Cardinality(Callers) - 1 + dead)
       /\ Calls(SubSeq(log, 1, n), Midnight(log[n]))
            <= DailyCap + (Cardinality(Callers) - 1 + dead)
<1>1. BudgetHeld = (\A n \in DOMAIN sent : Held(sent, n, lost))
  BY DEF BudgetHeld
<1>2. BudgetHeld' = (\A n \in DOMAIN sent' : Held(sent', n, lost'))
  BY DEF BudgetHeld
<1>3. ASSUME NEW n \in DOMAIN sent
      PROVE  Held(sent, n, lost) => Held(sent, n, lost + 1)
  <2>1. /\ sent \in Seq(Nat) /\ SubSeq(sent, 1, n) \in Seq(Nat)
        /\ sent[n] - Hour \in Int /\ Midnight(sent[n]) \in Int /\ lost \in Nat
    <3>1. sent \in Seq(Nat) /\ n \in 1..Len(sent) /\ Len(sent) \in Nat /\ sent[n] \in Nat
          /\ lost \in Nat
      BY LenProperties DEF TypeOK
    <3>2. SubSeq(sent, 1, n) \in Seq(Nat)
      BY <3>1, SubSeqProperties
    <3>3. Midnight(sent[n]) \in Int
      BY <3>1, MidnightType
    <3>. QED  BY <3>1, <3>2, <3>3, Constants
  <2>2. /\ Calls(SubSeq(sent, 1, n), sent[n] - Hour) \in Nat
        /\ Calls(SubSeq(sent, 1, n), Midnight(sent[n])) \in Nat
    BY <2>1, CallsType
  <2>3. HourlyCap \in Int /\ DailyCap \in Int /\ Cardinality(Callers) - 1 \in Int
    BY InFlightFinite, Constants
  <2>4. PICK h \in Nat : h = Calls(SubSeq(sent, 1, n), sent[n] - Hour)
    BY <2>2
  <2>5. PICK d \in Nat : d = Calls(SubSeq(sent, 1, n), Midnight(sent[n]))
    BY <2>2
  <2>6. PICK others \in Int : others = Cardinality(Callers) - 1
    BY <2>3
  <2>7. Held(sent, n, lost) <=> h <= HourlyCap + (others + lost) /\ d <= DailyCap + (others + lost)
    BY <2>4, <2>5, <2>6
  <2>8. Held(sent, n, lost + 1)
          <=> h <= HourlyCap + (others + (lost + 1)) /\ d <= DailyCap + (others + (lost + 1))
    BY <2>4, <2>5, <2>6
  <2>. HIDE DEF Held
  <2>. QED  BY <2>1, <2>3, <2>7, <2>8
<1>4. ASSUME UNCHANGED sent, lost' \in {lost, lost + 1}
      PROVE  BudgetHeld'
  <2>. HIDE DEF Held
  <2>. QED  BY <1>1, <1>2, <1>3, <1>4
<1>5. ASSUME NEW p \in Callers, Call(p)
      PROVE  BudgetHeld'
  <2>. DEFINE k == Len(sent) + 1
  <2>1. sent \in Seq(Nat) /\ clock \in Nat /\ sent' = Append(sent, clock) /\ lost' = lost
    BY <1>5 DEF Call, TypeOK
  <2>2. /\ DOMAIN sent = 1..Len(sent) /\ Len(sent) \in Nat
        /\ DOMAIN sent' = 1..k /\ Len(sent') = k /\ sent' \in Seq(Nat)
        /\ sent'[k] = clock /\ \A n \in 1..Len(sent) : sent'[n] = sent[n]
    BY <2>1, LenProperties, AppendProperties
  <2>3. ASSUME NEW n \in DOMAIN sent
        PROVE  Held(sent', n, lost')
    <3>1. n \in 1..Len(sent) /\ Held(sent, n, lost)
      BY <1>1, <2>2
    <3>2. SubSeq(sent', 1, n) = SubSeq(sent, 1, n)
      <4>1. \A s \in Seq(Nat) : n <= Len(s) =>
              SubSeq(s, 1, n) = [i \in 1..n |-> s[i]]
        BY <2>2, <3>1
      <4>2. n <= Len(sent) /\ n <= Len(sent')
        BY <2>2, <3>1
      <4>3. [i \in 1..n |-> sent'[i]] = [i \in 1..n |-> sent[i]]
        BY <2>2, <3>1
      <4>. QED  BY <2>1, <2>2, <4>1, <4>2, <4>3
    <3>. QED  BY <2>1, <2>2, <3>1, <3>2
  <2>4. Held(sent', k, lost')
    <3>1. SubSeq(sent', 1, k) = sent'
      BY <2>2
    <3>2. /\ clock - Hour \in Int /\ Midnight(clock) \in Int
          /\ HourlyCap \in Nat /\ DailyCap \in Nat
      BY <2>1, MidnightType, Constants
    <3>3. Calls(paid, clock - Hour) < HourlyCap /\ Calls(paid, Midnight(clock)) < DailyCap
      BY <1>5 DEF Call, Allowed
    <3>4. /\ Calls(sent', clock - Hour) <= HourlyCap + (Cardinality(Callers) - 1 + lost)
          /\ Calls(sent', Midnight(clock)) <= DailyCap + (Cardinality(Callers) - 1 + lost)
      BY <1>5, <3>2, <3>3, BudgetAtCall
    <3>. QED  BY <2>1, <2>2, <3>1, <3>4
  <2>5. DOMAIN sent' = DOMAIN sent \cup {k}
    BY <2>2
  <2>. HIDE DEF Held, k
  <2>. QED  BY <1>2, <2>3, <2>4, <2>5
<1>6. CASE \/ Elapse \/ UNCHANGED vars
           \/ \E p \in Callers :
                \/ \E q \in Questions : Ask(p, q)
                \/ Refuse(p) \/ Fail(p)
                \/ \E answer \in Answers : Answer(p, answer)
                \/ Account(p) \/ Die(p)
  <2>1. UNCHANGED sent /\ lost' \in {lost, lost + 1}
    BY <1>6 DEF Elapse, vars, Ask, Refuse, Fail, Answer, Account, Die
  <2>. QED  BY <1>4, <2>1
<1>. QED  BY <1>5, <1>6 DEF Next

(* The budget, the cache and what was bought, in one invariant. *)
THEOREM Inductive == Spec => []IInv
<1>1. Init => IInv
  <2>. SUFFICES ASSUME Init PROVE IInv
    OBVIOUS
  <2>1. TypeOK
    BY DEF Init, TypeOK, Work
  <2>2. AccountInv
    <3>1. Calls(sent, 0) = Calls(sent, 0) /\ sent = <<>> /\ paid = <<>> /\ DOMAIN sent = {}
      BY DEF Init
    <3>2. \A time \in Int : Calls(sent, time) = Calls(paid, time) /\ Calls(paid, time) \in Nat
      BY <2>1, <3>1, CallsType DEF TypeOK
    <3>3. lost = 0 /\ Cardinality(InFlight) \in Nat
      BY InFlightFinite DEF Init
    <3>. QED  BY <3>1, <3>2, <3>3 DEF AccountInv
  <2>3. WorkInv /\ BoughtInv /\ BudgetHeld
    BY DEF Init, WorkInv, BoughtInv, Idle, BudgetHeld
  <2>. QED  BY <2>1, <2>2, <2>3 DEF IInv
<1>2. IInv /\ [Next]_vars => IInv'
  BY TypeStep, AccountStep, WorkStep, BoughtStep, BudgetStep DEF IInv
<1>. QED  BY <1>1, <1>2, PTL DEF Spec

(* No hour and no day sees more calls than its cap, but for those that other   *)
(* callers have in flight and those whose caller died: check_budget            *)
(* (src/izy/llm.py) reads an account that is written after the call.           *)
THEOREM BudgetNeverOverrun == Spec => []BudgetHeld
<1>1. IInv => BudgetHeld
  BY DEF IInv
<1>. QED  BY <1>1, Inductive, PTL

(* However many callers race for the same answer, and whoever dies, none of    *)
(* them buys it twice (src/izy/llm.py, _cache_get, _cache_put).                *)
THEOREM NobodyBuysTwice == Spec => []BoughtOnce
<1>1. IInv => BoughtOnce
  <2>. SUFFICES ASSUME IInv, NEW p \in Callers, NEW q \in Questions
                PROVE  bought[p][q] <= 1
    BY DEF BoughtOnce
  <2>1. bought[p][q] = 0 \/ bought[p][q] = 1
    BY DEF IInv, BoughtInv
  <2>. QED  BY <2>1
<1>. QED  BY <1>1, Inductive, PTL

(* No caller calls the model for an answer that was in the cache when it       *)
(* looked (src/izy/llm.py, complete_json).                                     *)
THEOREM NothingPaidTwice == Spec => PaidOnce
<1>. DEFINE Sure == \A p \in Callers :
              work[p].pc = "missed" /\ work'[p].pc = "sent" =>
                cache[work[p].q] = None \/ work[p].late
<1>1. IInv => [Sure]_vars
  BY DEF IInv, WorkInv
<1>2. Spec => [][Sure]_vars
  BY <1>1, Inductive, PTL
<1>. QED  BY <1>2 DEF PaidOnce
=============================================================================
