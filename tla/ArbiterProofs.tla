---------------------------- MODULE ArbiterProofs ----------------------------
(***************************************************************************)
(* Proofs about Arbiter, for every instance: any keys, producers, caps,     *)
(* contexts, clock behaviour, number of restarts, and an interrupt_log that *)
(* may or may not accept a row.                                             *)
(***************************************************************************)
EXTENDS Arbiter, FiniteSetTheorems, WellFoundedInduction, TLAPS

(* Distinct kinds have distinct integer priorities. *)
LEMMA PriorityFacts ==
  /\ \A k \in Kinds : Priority[k] \in Int
  /\ \A k, l \in Kinds : Priority[k] = Priority[l] => k = l
BY DEF Kinds, Priority

(* ... hence requests of the same priority are of the same kind. *)
LEMMA PrioFacts ==
  /\ \A r \in Request : Prio(r) \in Int
  /\ \A r, s \in Request : Prio(r) = Prio(s) => r.kind = s.kind
BY PriorityFacts DEF Prio, Request

-----------------------------------------------------------------------------
(* The strengthening: pending requests are all of this instant and listed    *)
(* once; runs are numbered in order; _mem_shown holds shows of this run only, *)
(* and has forgotten only those older than Forget at the newest show.        *)
PendingInv ==
  /\ \A p \in pending : p.at = clock
  /\ \A p, q \in pending : p.kind = q.kind /\ p.key = q.key => p = q

RunInv ==
  /\ \A i \in 1..Len(shown) : shown[i].run <= run
  /\ \A i, j \in 1..Len(shown) : i <= j => shown[i].run <= shown[j].run

MemInv ==
  /\ \A i \in inMem : shown[i].run = run
  /\ \A i \in 1..Len(shown) :
       shown[i].run = run => i \in inMem \/ shown[i].at < shown[Len(shown)].at - Forget

IInv == TypeOK /\ PendingInv /\ RunInv /\ MemInv /\ Spaced /\ Capped

-----------------------------------------------------------------------------
(* What _collect returns: requests, of which no two have the same key.       *)
LEMMA CandidatesFacts ==
  ASSUME TypeOK, PendingInv
  PROVE  /\ Candidates \subseteq Request
         /\ Candidates \subseteq hold \cup pending
         /\ \A r, s \in Candidates : r.key = s.key => r = s
<1>1. Candidates \subseteq hold \cup pending
  BY DEF Candidates
<1>2. hold \cup pending \subseteq Request
  BY DEF TypeOK
<1>3. ASSUME NEW r \in Candidates, NEW s \in Candidates, r.key = s.key
      PROVE  r = s
  <2>1. Prio(r) \in Int /\ Prio(s) \in Int
    BY <1>1, <1>2, <1>3, PrioFacts
  <2>2. CASE r \in hold /\ s \in hold
    BY <1>3, <2>2 DEF TypeOK
  <2>3. CASE r \notin hold /\ s \notin hold
    <3>1. r \in pending /\ s \in pending
      BY <2>3, <1>1, <1>3
    <3>2. Prio(r) = Prio(s)
      BY <2>1, <2>3, <3>1, <1>3 DEF Candidates
    <3>3. r.kind = s.kind
      BY <3>2, <1>1, <1>2, <1>3, PrioFacts
    <3>. QED  BY <3>1, <3>3, <1>3 DEF PendingInv
  <2>4. CASE r \in hold /\ s \notin hold
    BY <2>1, <2>4, <1>1, <1>3 DEF Candidates
  <2>5. CASE r \notin hold /\ s \in hold
    BY <2>1, <2>5, <1>1, <1>3 DEF Candidates
  <2>. QED  BY <2>2, <2>3, <2>4, <2>5
<1>. QED  BY <1>1, <1>2, <1>3

-----------------------------------------------------------------------------
(* A nonempty set of indices has a largest one: the differences to the bound  *)
(* have a least one.                                                          *)
LEMMA MaxOfIndices ==
  ASSUME NEW n \in Nat, NEW S \in SUBSET (1..n), S # {}
  PROVE  \E m \in S : \A j \in S : j <= m
<1>. DEFINE T == {n - j : j \in S}
<1>1. T \subseteq Nat /\ T # {}
  <2>1. \A j \in S : n - j \in Nat
    OBVIOUS
  <2>2. T \subseteq Nat
    BY <2>1
  <2>. QED  BY <2>2
<1>2. PICK x \in T : \A y \in T : <<y, x>> \notin OpToRel(<, Nat)
  <2>. HIDE DEF T
  <2>. QED  BY <1>1, NatLessThanWellFounded, WFMin
<1>3. \A y \in T : ~ (y < x)
  BY <1>1, <1>2 DEF OpToRel
<1>4. PICK m \in S : x = n - m
  OBVIOUS
<1>5. ASSUME NEW j \in S PROVE j <= m
  BY <1>3, <1>4
<1>. QED  BY <1>5

(* The newest entry of a nonempty set of indices is one of its entries.      *)
LEMMA NewestFacts ==
  ASSUME NEW S \in SUBSET (1..Len(shown)), S # {}, shown \in Seq(Show)
  PROVE  \E m \in S : /\ \A j \in S : j <= m
                      /\ Newest(S) = shown[m].at
                      /\ Newest(S) \in Int
<1>. DEFINE m == CHOOSE i \in S : \A j \in S : j <= i
<1>1. Len(shown) \in Nat
  OBVIOUS
<1>2. m \in S /\ \A j \in S : j <= m
  BY <1>1, MaxOfIndices
<1>. HIDE DEF m
<1>3. shown[m].at \in Int
  <2>1. m \in 1..Len(shown)
    BY <1>2
  <2>2. shown[m] \in Show
    BY <2>1
  <2>. QED  BY <2>2 DEF Show
<1>. QED  BY <1>2, <1>3 DEF Newest, m

(* In any set of remembered shows the newest is the latest.                  *)
LEMMA NewestIsLatest ==
  ASSUME IInv, NEW S \in SUBSET (1..Len(shown)), S # {},
         S \subseteq inLog \/ S \subseteq inMem
  PROVE  Newest(S) \in Int /\ \A j \in S : shown[j].at <= Newest(S)
<1>1. PICK m \in S : /\ \A j \in S : j <= m
                     /\ Newest(S) = shown[m].at
                     /\ Newest(S) \in Int
  BY NewestFacts DEF IInv, TypeOK
<1>2. ASSUME NEW j \in S, j # m
      PROVE  shown[j].at <= shown[m].at
  <2>1. j \in 1..(m-1) /\ m \in 1..Len(shown) /\ j \in 1..Len(shown)
    BY <1>1, <1>2 DEF IInv, TypeOK
  <2>2. j \in inLog \cup Budget!SameRun(shown, m)
    BY <1>1, <1>2, <2>1 DEF IInv, MemInv, Budget!SameRun
  <2>3. shown[m].at - shown[j].at >= Cooldown
    BY <2>1, <2>2 DEF IInv, Spaced, Budget!WithinCooldown
  <2>4. shown[j] \in Show /\ shown[m] \in Show
    BY <2>1 DEF IInv, TypeOK
  <2>. QED  BY <2>3, <2>4, ArbiterAssumption DEF Show
<1>. QED  BY <1>1, <1>2

(* The show that a passed cooldown allows is Cooldown after every remembered  *)
(* one: of the log, and of _mem_shown.                                        *)
LEMMA CooledDown ==
  ASSUME IInv, ~ CoolingDown, NEW j \in inLog \cup inMem
  PROVE  clock - shown[j].at >= Cooldown
<1>1. /\ inLog \in SUBSET (1..Len(shown)) /\ inMem \in SUBSET (1..Len(shown))
      /\ clock \in Int /\ Cooldown \in Int
      /\ shown[j] \in Show
  BY ArbiterAssumption DEF IInv, TypeOK
<1>2. inLog # {} => Newest(inLog) \in Int /\ \A i \in inLog : shown[i].at <= Newest(inLog)
  BY <1>1, NewestIsLatest
<1>3. inMem # {} => Newest(inMem) \in Int /\ \A i \in inMem : shown[i].at <= Newest(inMem)
  BY <1>1, NewestIsLatest
<1>4. LastShownAt \in Int /\ shown[j].at <= LastShownAt
  <2>1. CASE inLog # {} /\ inMem # {}
    BY <2>1, <1>1, <1>2, <1>3 DEF LastShownAt, Show
  <2>2. CASE inLog = {}
    <3>1. inLog \cup inMem = inMem /\ inMem # {}
      BY <2>2
    <3>. QED  BY <2>2, <3>1, <1>3 DEF LastShownAt
  <2>3. CASE inMem = {}
    <3>1. inLog \cup inMem = inLog /\ inLog # {}
      BY <2>3
    <3>. QED  BY <2>3, <3>1, <1>2 DEF LastShownAt
  <2>. QED  BY <2>1, <2>2, <2>3
<1>5. clock - LastShownAt >= Cooldown
  BY <1>1, <1>4 DEF CoolingDown
<1>. QED  BY <1>1, <1>4, <1>5 DEF Show

(* Every show of the present run is in _mem_shown, or older than Forget.      *)
LEMMA RunIsRemembered ==
  ASSUME IInv, ~ CoolingDown, NEW j \in 1..Len(shown), shown[j].run = run
  PROVE  /\ clock - shown[j].at >= Cooldown
         /\ j \in inMem \/ shown[j].at < clock - Forget
<1>. DEFINE l == Len(shown)
<1>1. /\ l \in 1..l /\ j <= l
      /\ shown[j] \in Show /\ shown[l] \in Show
      /\ clock \in Int /\ run \in Nat /\ Cooldown \in Nat /\ Forget \in Nat
  BY ArbiterAssumption DEF IInv, TypeOK
<1>2. shown[l].run = run
  <2>1. shown[j].run <= shown[l].run /\ shown[l].run <= run
    BY <1>1 DEF IInv, RunInv
  <2>. QED  BY <1>1, <2>1 DEF Show
<1>3. l \in inMem
  BY <1>1, <1>2 DEF IInv, MemInv, Show
<1>4. clock - shown[l].at >= Cooldown
  BY <1>3, CooledDown
<1>5. shown[j].at <= shown[l].at
  <2>1. CASE j = l
    BY <2>1, <1>1 DEF Show
  <2>2. CASE j # l
    <3>1. j \in 1..(l-1)
      BY <2>2, <1>1
    <3>2. j \in Budget!SameRun(shown, l)
      BY <3>1, <1>2 DEF Budget!SameRun
    <3>3. shown[l].at - shown[j].at >= Cooldown
      BY <1>1, <3>1, <3>2 DEF IInv, Spaced, Budget!WithinCooldown
    <3>. QED  BY <1>1, <3>3 DEF Show
  <2>. QED  BY <2>1, <2>2
<1>6. j \in inMem \/ shown[j].at < shown[l].at - Forget
  BY DEF IInv, MemInv
<1>. QED  BY <1>1, <1>4, <1>5, <1>6 DEF Show

(* The instance's copy of Cardinality is Cardinality.                         *)
LEMMA BudgetCardinality ==
  ASSUME NEW S
  PROVE  Budget!Cardinality(S) = Cardinality(S)
BY DEF Budget!Cardinality, Cardinality

(* A show that passes gates 2 and 7 keeps the budget.                         *)
LEMMA ShowKeepsBudget ==
  ASSUME IInv, ~ CoolingDown,
         NEW e \in Show, e.at = clock, e.run = run, ~ CapReached(e.kind)
  PROVE  /\ Budget!WithinCooldown(Append(shown, e), inLog, Len(shown) + 1)
         /\ Budget!WithinCap(Append(shown, e), inLog, Len(shown) + 1)
<1>. DEFINE h == Append(shown, e)
            n == Len(shown) + 1
<1>1. /\ n \in Nat /\ n - 1 = Len(shown)
      /\ h[n] = e
      /\ \A j \in 1..(n-1) : h[j] = shown[j] /\ shown[j] \in Show /\ j < n
      /\ inLog \subseteq 1..(n-1) /\ inMem \subseteq 1..(n-1)
      /\ clock \in Int /\ Hour \in Nat /\ Forget \in Nat /\ Forget >= Hour
  BY ArbiterAssumption DEF IInv, TypeOK
<1>. HIDE DEF h, n
<1>2. \A j \in Budget!SameRun(h, n) : j \in 1..(n-1) /\ shown[j].run = run
  BY <1>1 DEF Budget!SameRun
<1>3. Budget!WithinCooldown(h, inLog, n)
  <2>1. ASSUME NEW j \in 1..(n-1), j \in inLog \cup Budget!SameRun(h, n)
        PROVE  h[n].at - h[j].at >= Cooldown
    <3>1. CASE j \in inLog
      BY <3>1, <1>1, CooledDown
    <3>2. CASE j \in Budget!SameRun(h, n)
      BY <3>2, <1>1, <1>2, RunIsRemembered
    <3>. QED  BY <2>1, <3>1, <3>2
  <2>. QED  BY <2>1 DEF Budget!WithinCooldown
<1>4. ASSUME e.kind \in DOMAIN Caps
      PROVE  /\ Cardinality(Budget!HourBefore(h, inLog, n)) < Caps[e.kind]
             /\ Cardinality(Budget!HourBefore(h, Budget!SameRun(h, n), n)) < Caps[e.kind]
  <2>. DEFINE InLog == ShownSince(inLog, e.kind, clock - Hour)
              InMem == ShownSince(inMem, e.kind, clock - Hour)
  <2>1. InLog \subseteq 1..(n-1) /\ InMem \subseteq 1..(n-1)
    BY <1>1 DEF ShownSince
  <2>2. IsFiniteSet(1..(n-1)) /\ IsFiniteSet(InLog) /\ IsFiniteSet(InMem)
    <3>1. IsFiniteSet(1..(n-1))
      BY FS_Interval, <1>1, 1 \in Int, n - 1 \in Int
    <3>. QED  BY <2>1, <3>1, FS_Subset
  <2>3. /\ Cardinality(InLog) \in Nat /\ Cardinality(InMem) \in Nat
        /\ Caps[e.kind] \in Nat
    BY <2>2, <1>4, FS_CardinalityType, ArbiterAssumption
  <2>4. Cardinality(InLog) < Caps[e.kind] /\ Cardinality(InMem) < Caps[e.kind]
    BY <2>3, <1>4 DEF CapReached
  <2>5. Budget!HourBefore(h, inLog, n) = InLog
    BY <1>1 DEF Budget!HourBefore, ShownSince
  <2>6. Budget!HourBefore(h, Budget!SameRun(h, n), n) \subseteq InMem
    <3>1. ASSUME NEW j \in Budget!HourBefore(h, Budget!SameRun(h, n), n)
          PROVE  j \in InMem
      <4>1. /\ j \in 1..(n-1) /\ shown[j].run = run
            /\ shown[j].kind = e.kind /\ shown[j].at >= clock - Hour
            /\ shown[j].at \in Int
        BY <1>1, <1>2, <3>1 DEF Budget!HourBefore, Show
      <4>2. j \in inMem
        BY <4>1, <1>1, RunIsRemembered
      <4>. QED  BY <4>1, <4>2 DEF ShownSince
    <3>. QED  BY <3>1
  <2>7. /\ Cardinality(Budget!HourBefore(h, Budget!SameRun(h, n), n)) <= Cardinality(InMem)
        /\ Cardinality(Budget!HourBefore(h, Budget!SameRun(h, n), n)) \in Nat
    BY <2>2, <2>6, FS_Subset, FS_CardinalityType
  <2>. QED  BY <2>3, <2>4, <2>5, <2>7
<1>5. Budget!WithinCap(h, inLog, n)
  <2>1. h[n] = e
    BY <1>1
  <2>. SUFFICES ASSUME e.kind \in DOMAIN Caps
                PROVE  /\ Cardinality(Budget!HourBefore(h, inLog, n)) < Caps[e.kind]
                       /\ Cardinality(Budget!HourBefore(h, Budget!SameRun(h, n), n)) < Caps[e.kind]
    BY <2>1, BudgetCardinality DEF Budget!WithinCap
  <2>. QED  BY <1>4
<1>. QED  BY <1>3, <1>5 DEF h, n

(* Whether a show is itself recorded plays no part in its own budget.         *)
LEMMA OwnRecordIsIrrelevant ==
  ASSUME NEW h, NEW n \in Nat, NEW R \in SUBSET (1..n), NEW L \in {R, R \cup {n}},
         Budget!WithinCooldown(h, R, n), Budget!WithinCap(h, R, n)
  PROVE  Budget!WithinCooldown(h, L, n) /\ Budget!WithinCap(h, L, n)
<1>1. \A j \in 1..(n-1) : j \in L <=> j \in R
  OBVIOUS
<1>2. Budget!HourBefore(h, L, n) = Budget!HourBefore(h, R, n)
  BY DEF Budget!HourBefore
<1>. QED  BY <1>1, <1>2 DEF Budget!WithinCooldown, Budget!WithinCap

(* What a show leaves of the past: the earlier shows keep their budget.       *)
LEMMA PastKeepsBudget ==
  ASSUME TypeOK, NEW e \in Show, NEW n \in 1..Len(shown),
         NEW L, L \in {inLog, inLog \cup {Len(shown) + 1}},
         Budget!WithinCooldown(shown, inLog, n), Budget!WithinCap(shown, inLog, n)
  PROVE  /\ Budget!WithinCooldown(Append(shown, e), L, n)
         /\ Budget!WithinCap(Append(shown, e), L, n)
<1>. DEFINE h == Append(shown, e)
<1>1. /\ n \in Nat /\ Len(shown) \in Nat /\ n <= Len(shown)
      /\ \A j \in 1..Len(shown) : h[j] = shown[j]
      /\ inLog \subseteq 1..Len(shown)
  BY DEF TypeOK
<1>. HIDE DEF h
<1>2. Budget!SameRun(h, n) = Budget!SameRun(shown, n)
  BY <1>1 DEF Budget!SameRun
<1>3. Budget!WithinCooldown(h, L, n)
  <2>1. \A j \in 1..(n-1) : j \in 1..Len(shown) /\ (j \in L => j \in inLog)
    BY <1>1
  <2>. QED  BY <1>1, <1>2, <2>1 DEF Budget!WithinCooldown
<1>4. Budget!HourBefore(h, L, n) = Budget!HourBefore(shown, inLog, n)
  <2>1. h[n] = shown[n]
    BY <1>1
  <2>2. \A j \in L : j < n => j \in inLog
    BY <1>1
  <2>3. \A j \in inLog : j \in L /\ h[j] = shown[j]
    BY <1>1
  <2>. QED  BY <2>1, <2>2, <2>3 DEF Budget!HourBefore
<1>5. Budget!HourBefore(h, Budget!SameRun(h, n), n)
        = Budget!HourBefore(shown, Budget!SameRun(shown, n), n)
  BY <1>1, <1>2 DEF Budget!HourBefore, Budget!SameRun
<1>6. Budget!WithinCap(h, L, n)
  BY <1>1, <1>4, <1>5 DEF Budget!WithinCap
<1>. QED  BY <1>3, <1>6 DEF h
-----------------------------------------------------------------------------
(* A step that shows nothing and keeps the daemon running keeps the budget.  *)
LEMMA SameHistory ==
  ASSUME IInv, UNCHANGED <<run, shown, inMem, inLog>>
  PROVE  RunInv' /\ MemInv' /\ Spaced' /\ Capped'
BY DEF IInv, RunInv, MemInv, Spaced, Capped

(* What a tick leaves after the clock moved.                                 *)
LEMMA ElapseFacts ==
  ASSUME TypeOK, \E d \in Steps, c \in Contexts : Elapse(d, c)
  PROVE  clock' \in Int /\ ctx' \in Context
<1>1. PICK d \in Steps, c \in Contexts : Elapse(d, c)
  OBVIOUS
<1>2. d \in Int /\ c \in Context /\ clock \in Int
  BY ArbiterAssumption DEF TypeOK
<1>. QED  BY <1>1, <1>2 DEF Elapse

(* submit: a request of this instant joins, and replaces its like.           *)
LEMMA SubmitKeeps ==
  ASSUME IInv, NEW a \in Asks, Submit(a)
  PROVE  IInv'
<1>1. TypeOK'
  <2>1. [kind |-> a.kind, key |-> a.key, at |-> clock] \in Request
    BY ArbiterAssumption DEF IInv, TypeOK, Request
  <2>. QED  BY <2>1 DEF Submit, IInv, TypeOK
<1>2. PendingInv'
  BY DEF Submit, IInv, PendingInv
<1>. QED  BY <1>1, <1>2, SameHistory DEF Submit, IInv

(* The slot a dispatch finds is a key or free.                               *)
LEMMA SlotFacts ==
  ASSUME TypeOK
  PROVE  Slot \in Keys \cup {NoKey}
BY DEF Slot, TypeOK

(* A tick that shows nothing, and the time that passes with it.              *)
LEMMA DispatchNoneKeeps ==
  ASSUME IInv, DispatchNone, \E d \in Steps, c \in Contexts : Elapse(d, c)
  PROVE  IInv'
<1>1. TypeOK /\ PendingInv
  BY DEF IInv
<1>2. TypeOK'
  BY <1>1, CandidatesFacts, SlotFacts, ElapseFacts DEF DispatchNone, TypeOK
<1>3. PendingInv'
  BY DEF DispatchNone, PendingInv
<1>. QED  BY <1>2, <1>3, SameHistory DEF DispatchNone, IInv

(* The tick that shows a request: gates 2 and 7 let it through.              *)
LEMMA ShownPassesGates ==
  ASSUME NEW r, Verdict(r) = "show"
  PROVE  ~ CoolingDown /\ ~ CapReached(r.kind)
BY DEF Verdict

(* A tick that shows one: the gates it passed are what Spaced and Capped     *)
(* need.                                                                     *)
LEMMA DispatchShowKeeps ==
  ASSUME IInv, DispatchShow, \E d \in Steps, c \in Contexts : Elapse(d, c)
  PROVE  IInv'
<1>. DEFINE n == Len(shown) + 1
<1>1. PICK r \in Firsts({s \in Candidates : Verdict(s) = "show"}), logged \in LogOutcomes :
        /\ shown' = Append(shown, [kind |-> r.kind, key |-> r.key, at |-> clock, run |-> run])
        /\ inLog' = IF logged THEN inLog \cup {n} ELSE inLog
        /\ inMem' = {i \in inMem : shown[i].at >= clock - Forget} \cup {n}
        /\ hold' \subseteq Candidates \ {r}
        /\ pending' = {}
        /\ active' \in {NoKey, r.key}
        /\ activeSince' \in {0, clock}
        /\ screen' \subseteq screen \cup {r.key}
        /\ run' = run
  BY Zenon DEF DispatchShow
<1>. DEFINE e == [kind |-> r.kind, key |-> r.key, at |-> clock, run |-> run]
<1>2. TypeOK /\ PendingInv /\ RunInv /\ MemInv /\ Spaced /\ Capped
  BY DEF IInv
<1>3. r \in Candidates /\ Verdict(r) = "show"
  BY DEF Firsts
<1>4. r \in Request
  BY <1>2, <1>3, CandidatesFacts
<1>5. /\ e \in Show /\ e.at = clock /\ e.run = run /\ e.kind = r.kind
      /\ shown' = Append(shown, e)
  BY <1>1, <1>2, <1>4 DEF TypeOK, Request, Show
<1>. HIDE DEF e
<1>6. /\ Len(shown') = n /\ Len(shown) \in Nat
      /\ 1..n = 1..Len(shown) \cup {n}
      /\ \A i \in 1..Len(shown) : shown'[i] = shown[i] /\ shown[i] \in Show /\ i <= n
      /\ shown'[n] = e
      /\ inLog \subseteq 1..Len(shown) /\ inMem \subseteq 1..Len(shown)
      /\ clock \in Int /\ run \in Nat /\ Forget \in Nat
  BY <1>2, <1>5, ArbiterAssumption DEF TypeOK
<1>7. ~ CoolingDown /\ ~ CapReached(e.kind)
  BY <1>3, <1>5, ShownPassesGates
<1>8. inLog' \in {inLog, inLog \cup {n}}
  BY <1>1
<1>9. TypeOK'
  <2>1. clock' \in Int /\ ctx' \in Context
    BY <1>2, ElapseFacts
  <2>2. hold' \subseteq Request /\ \A s, t \in hold' : s.key = t.key => s = t
    BY <1>1, <1>2, CandidatesFacts
  <2>3. shown' \in Seq(Show)
    BY <1>2, <1>5 DEF TypeOK
  <2>4. inMem' \subseteq 1..Len(shown') /\ inLog' \subseteq 1..Len(shown')
    BY <1>1, <1>6, <1>8
  <2>5. active' \in Keys \cup {NoKey} /\ activeSince' \in Int /\ screen' \subseteq Keys
    BY <1>1, <1>2, <1>4 DEF TypeOK, Request
  <2>. QED  BY <1>1, <1>2, <2>1, <2>2, <2>3, <2>4, <2>5 DEF TypeOK
<1>10. PendingInv'
  BY <1>1 DEF PendingInv
<1>11. RunInv'
  <2>1. shown'[n].run = run /\ run' = run /\ run \in Nat
    BY <1>1, <1>5, <1>6
  <2>2. \A i \in 1..Len(shown) : shown'[i].run = shown[i].run /\ shown[i].run <= run
    BY <1>2, <1>6 DEF RunInv
  <2>3. \A i \in 1..Len(shown') : i \in 1..Len(shown) \/ i = n
    BY <1>6
  <2>4. \A i \in 1..Len(shown') : shown'[i].run <= run'
    BY <2>1, <2>2, <2>3
  <2>5. ASSUME NEW i \in 1..Len(shown'), NEW j \in 1..Len(shown'), i <= j
        PROVE  shown'[i].run <= shown'[j].run
    <3>1. CASE j = n
      BY <2>1, <2>4, <3>1
    <3>2. CASE j \in 1..Len(shown)
      <4>1. i \in 1..Len(shown)
        BY <1>6, <2>5, <3>2
      <4>. QED  BY <1>2, <2>2, <2>5, <3>2, <4>1 DEF RunInv
    <3>. QED  BY <2>3, <3>1, <3>2
  <2>. QED  BY <2>4, <2>5 DEF RunInv
<1>12. MemInv'
  <2>1. ASSUME NEW i \in inMem'
        PROVE  shown'[i].run = run'
    BY <1>1, <1>2, <1>5, <1>6 DEF MemInv
  <2>2. ASSUME NEW i \in 1..Len(shown), shown[i].run = run
        PROVE  i \in inMem' \/ shown[i].at < clock - Forget
    <3>1. i \in inMem \/ shown[i].at < clock - Forget
      BY <2>2, <1>7, RunIsRemembered
    <3>2. shown[i].at \in Int
      BY <1>6 DEF Show
    <3>. QED  BY <1>1, <1>6, <3>1, <3>2
  <2>3. n \in inMem'
    BY <1>1
  <2>. QED  BY <2>1, <2>2, <2>3, <1>1, <1>5, <1>6 DEF MemInv
<1>13. Spaced' /\ Capped'
  <2>1. ASSUME NEW i \in 1..Len(shown)
        PROVE  /\ Budget!WithinCooldown(shown', inLog', i)
               /\ Budget!WithinCap(shown', inLog', i)
    BY <1>2, <1>5, <1>8, PastKeepsBudget DEF Spaced, Capped
  <2>2. /\ Budget!WithinCooldown(shown', inLog, n)
        /\ Budget!WithinCap(shown', inLog, n)
    BY <1>5, <1>7, ShowKeepsBudget
  <2>3. /\ Budget!WithinCooldown(shown', inLog', n)
        /\ Budget!WithinCap(shown', inLog', n)
    BY <2>2, <1>6, <1>8, OwnRecordIsIrrelevant
  <2>. QED  BY <2>1, <2>3, <1>6 DEF Spaced, Capped
<1>. QED  BY <1>9, <1>10, <1>11, <1>12, <1>13 DEF IInv

(* A popup that is answered, or closed without a signal.                     *)
LEMMA AnswerKeeps ==
  ASSUME IInv, NEW k \in screen,
         Answer(k) \/ CloseSilently(k)
  PROVE  IInv'
<1>1. /\ active' \in {NoKey, active} /\ activeSince' \in {0, activeSince}
      /\ screen' \subseteq screen
      /\ UNCHANGED <<clock, ctx, run, pending, hold, shown, inMem, inLog>>
  BY DEF Answer, CloseSilently
<1>2. TypeOK'
  BY <1>1 DEF IInv, TypeOK
<1>3. PendingInv'
  BY <1>1 DEF IInv, PendingInv
<1>. QED  BY <1>1, <1>2, <1>3, SameHistory DEF IInv

(* An acknowledgement from the API.                                          *)
LEMMA ClientAckKeeps ==
  ASSUME IInv, ClientAck
  PROVE  IInv'
<1>1. TypeOK' /\ PendingInv'
  BY DEF ClientAck, IInv, TypeOK, PendingInv
<1>. QED  BY <1>1, SameHistory DEF ClientAck, IInv

(* A restart forgets _mem_shown, and no show belongs to the new run yet.      *)
LEMMA RestartKeeps ==
  ASSUME IInv, Restart
  PROVE  IInv'
<1>1. TypeOK'
  BY DEF Restart, IInv, TypeOK
<1>2. PendingInv'
  BY DEF Restart, PendingInv
<1>3. \A i \in 1..Len(shown) : shown[i].run \in Nat /\ run \in Nat /\ shown[i].run <= run
  <2>1. \A i \in 1..Len(shown) : shown[i] \in Show
    BY DEF IInv, TypeOK
  <2>. QED  BY <2>1 DEF IInv, TypeOK, Show, RunInv
<1>4. RunInv' /\ MemInv'
  BY <1>3 DEF Restart, IInv, RunInv, MemInv
<1>5. Spaced' /\ Capped'
  BY DEF Restart, IInv, Spaced, Capped
<1>. QED  BY <1>1, <1>2, <1>4, <1>5 DEF IInv

-----------------------------------------------------------------------------
(* IInv is an inductive invariant.                                           *)
THEOREM Inductive == Spec => []IInv
<1>1. Init => IInv
  <2>. SUFFICES ASSUME Init PROVE IInv
    OBVIOUS
  <2>1. shown = <<>> /\ Len(shown) = 0
    BY DEF Init
  <2>2. TypeOK
    BY <2>1, ArbiterAssumption DEF Init, TypeOK
  <2>3. PendingInv /\ RunInv /\ MemInv
    BY <2>1 DEF Init, PendingInv, RunInv, MemInv
  <2>4. Spaced /\ Capped
    BY <2>1 DEF Spaced, Capped
  <2>. QED  BY <2>2, <2>3, <2>4 DEF IInv
<1>2. IInv /\ [Next]_vars => IInv'
  <2>. SUFFICES ASSUME IInv, [Next]_vars PROVE IInv'
    OBVIOUS
  <2>1. CASE \E a \in Asks : Submit(a)
    BY <2>1, SubmitKeeps
  <2>2. CASE Tick
    BY <2>2, DispatchShowKeeps, DispatchNoneKeeps DEF Tick, Dispatch
  <2>3. CASE \E k \in screen : Answer(k) \/ CloseSilently(k)
    BY <2>3, AnswerKeeps
  <2>4. CASE ClientAck
    BY <2>4, ClientAckKeeps
  <2>5. CASE Restart
    BY <2>5, RestartKeeps
  <2>6. CASE UNCHANGED vars
    <3>1. TypeOK' /\ PendingInv'
      BY <2>6 DEF vars, IInv, TypeOK, PendingInv
    <3>. QED  BY <2>6, <3>1, SameHistory DEF vars, IInv
  <2>. QED  BY <2>1, <2>2, <2>3, <2>4, <2>5, <2>6 DEF Next
<1>. QED  BY <1>1, <1>2, PTL DEF Spec

(* Every variable keeps its type, and _hold has one request per dedupe key.  *)
THEOREM TypeCorrect == Spec => []TypeOK
<1>1. IInv => TypeOK
  BY DEF IInv
<1>. QED  BY <1>1, Inductive, PTL

(* Gate 2: remembered interrupts are Cooldown apart, however the wall clock   *)
(* jumps, the daemon restarts and interrupt_log refuses rows.                 *)
THEOREM AlwaysSpaced == Spec => []Spaced
<1>1. IInv => Spaced
  BY DEF IInv
<1>. QED  BY <1>1, Inductive, PTL

(* Gate 7: no Hour of remembered interrupts exceeds the cap of a kind.        *)
THEOREM AlwaysCapped == Spec => []Capped
<1>1. IInv => Capped
  BY DEF IInv
<1>. QED  BY <1>1, Inductive, PTL

-----------------------------------------------------------------------------
(* No waiting key disappears in _collect.                                     *)
LEMMA CandidatesCover ==
  ASSUME TypeOK, NEW k \in Waiting
  PROVE  \E r \in Candidates : r.key = k
<1>1. hold \subseteq Request /\ pending \subseteq Request
  BY DEF TypeOK
<1>2. \A r \in Request : Prio(r) \in 1..100
  BY DEF Prio, Request, Kinds, Priority
<1>3. CASE \E h \in hold : h.key = k /\ ~ \E p \in pending : p.key = k /\ Prio(p) > Prio(h)
  BY <1>3 DEF Candidates
<1>4. CASE ~ \E h \in hold : h.key = k /\ ~ \E p \in pending : p.key = k /\ Prio(p) > Prio(h)
  <2>. DEFINE Ps == {Prio(p) : p \in {q \in pending : q.key = k}}
  <2>1. Ps # {} /\ Ps \in SUBSET (1..100)
    BY <1>1, <1>2, <1>4 DEF Waiting
  <2>2. PICK m \in Ps : \A j \in Ps : j <= m
    BY <2>1, MaxOfIndices
  <2>3. PICK p \in pending : p.key = k /\ Prio(p) = m
    BY <2>2
  <2>4. \A q \in pending : q.key = k => Prio(q) <= Prio(p)
    BY <2>2, <2>3
  <2>5. \A q \in hold \cup pending : Prio(q) \in Int
    BY <1>1, <1>2
  <2>6. \A h \in hold : h.key = k => Prio(h) < Prio(p)
    BY <1>4, <2>3, <2>4, <2>5
  <2>7. p \in Candidates
    BY <2>3, <2>4, <2>5, <2>6 DEF Candidates
  <2>. QED  BY <2>3, <2>7
<1>. QED  BY <1>3, <1>4

(* What a tick that shows does, as the budget sees it.                        *)
LEMMA DispatchShowFacts ==
  ASSUME IInv, DispatchShow
  PROVE  \E r \in Candidates :
           LET e == [kind |-> r.kind, key |-> r.key, at |-> clock, run |-> run]
           IN  /\ Verdict(r) = "show"
               /\ \A s \in Candidates : Verdict(s) = "show" => ~ Precedes(s, r)
               /\ e \in Show /\ shown' = Append(shown, e)
               /\ inLog' \in {inLog, inLog \cup {Len(shown) + 1}}
               /\ hold' = {s \in Candidates \ {r} : Verdict(s) # "drop" \/ Precedes(r, s)}
               /\ pending' = {}
               /\ Len(shown) \in Nat /\ Len(shown') = Len(shown) + 1
               /\ shown'[Len(shown) + 1] = e
               /\ shown'[Len(shown')].key = r.key
<1>1. PICK r \in Firsts({s \in Candidates : Verdict(s) = "show"}), logged \in LogOutcomes :
        /\ shown' = Append(shown, [kind |-> r.kind, key |-> r.key, at |-> clock, run |-> run])
        /\ inLog' = IF logged THEN inLog \cup {Len(shown) + 1} ELSE inLog
        /\ hold' = {s \in Candidates \ {r} : Verdict(s) # "drop" \/ Precedes(r, s)}
        /\ pending' = {}
  BY Zenon DEF DispatchShow
<1>. DEFINE e == [kind |-> r.kind, key |-> r.key, at |-> clock, run |-> run]
<1>2. /\ r \in Candidates /\ Verdict(r) = "show"
      /\ \A s \in Candidates : Verdict(s) = "show" => ~ Precedes(s, r)
  BY DEF Firsts
<1>3. r \in Request
  BY <1>2, CandidatesFacts DEF IInv
<1>4. e \in Show
  BY <1>3 DEF IInv, TypeOK, Request, Show
<1>5. /\ Len(shown) \in Nat /\ Len(shown') = Len(shown) + 1
      /\ shown'[Len(shown) + 1] = e
  <2>. HIDE DEF e
  <2>1. shown' = Append(shown, e) /\ shown \in Seq(Show)
    BY <1>1 DEF e, IInv, TypeOK
  <2>. QED  BY <1>4, <2>1
<1>6. inLog' \in {inLog, inLog \cup {Len(shown) + 1}}
  BY <1>1
<1>7. shown'[Len(shown')].key = r.key
  BY <1>5
<1>. QED  BY <1>1, <1>2, <1>4, <1>5, <1>6, <1>7, Zenon

(* For the abstract budget, a tick that shows one is a spending of it.       *)
LEMMA DispatchShowIsShowOne ==
  ASSUME IInv, DispatchShow
  PROVE  Budget!ShowOne
<1>. DEFINE n == Len(shown) + 1
<1>1. PICK r \in Candidates :
        LET e == [kind |-> r.kind, key |-> r.key, at |-> clock, run |-> run]
        IN  /\ Verdict(r) = "show"
            /\ e \in Show /\ shown' = Append(shown, e)
            /\ inLog' \in {inLog, inLog \cup {n}}
            /\ hold' \subseteq Candidates \ {r}
            /\ pending' = {}
            /\ shown'[n] = e
  BY DispatchShowFacts
<1>. DEFINE e == [kind |-> r.kind, key |-> r.key, at |-> clock, run |-> run]
<1>2. e.at = clock /\ e.run = run /\ e.kind = r.kind /\ e.key = r.key
  OBVIOUS
<1>. HIDE DEF e
<1>3. /\ e \in Show /\ shown' = Append(shown, e) /\ shown'[n] = e
      /\ hold' \subseteq Candidates \ {r} /\ pending' = {}
      /\ inLog' \in {inLog, inLog \cup {n}} /\ Verdict(r) = "show"
  BY <1>1 DEF e
<1>4. ~ CoolingDown /\ ~ CapReached(e.kind)
  BY <1>2, <1>3, ShownPassesGates
<1>5. /\ Budget!WithinCooldown(shown', inLog, n)
      /\ Budget!WithinCap(shown', inLog, n)
  BY <1>2, <1>3, <1>4, ShowKeepsBudget
<1>6. /\ Candidates \subseteq hold \cup pending
      /\ \A s, t \in Candidates : s.key = t.key => s = t
  BY CandidatesFacts DEF IInv
<1>7. e.key \in Waiting /\ Waiting' \subseteq Waiting \ {e.key}
  BY <1>2, <1>3, <1>6 DEF Waiting
<1>8. shown' = Append(shown, shown'[n])
  BY <1>3
<1>. QED  BY <1>3, <1>5, <1>7, <1>8 DEF Budget!ShowOne

(* The arbiter implements the shared budget: a tick that shows is ShowOne, a  *)
(* submission is Ask, a tick that shows nothing and a restart are Discard.     *)
THEOREM RefinesBudget == Spec => ImplementsBudget
<1>1. Init => Budget!BudgetInit
  BY DEF Init, Budget!BudgetInit, Waiting
<1>2. IInv /\ [Next]_vars => [Budget!BudgetNext]_(Budget!budgetVars)
  <2>. SUFFICES ASSUME IInv, [Next]_vars
                PROVE  Budget!BudgetNext \/ UNCHANGED Budget!budgetVars
    OBVIOUS
  <2>1. ASSUME NEW a \in Asks, Submit(a)
        PROVE  Budget!BudgetNext
    <3>1. Waiting' = Waiting \cup {a.key} /\ a.key \in Waiting' /\ UNCHANGED <<shown, inLog>>
      <4>. DEFINE p == [kind |-> a.kind, key |-> a.key, at |-> clock]
      <4>1. p.key = a.key
        OBVIOUS
      <4>2. hold' = hold /\ pending' = pending \cup {p} /\ UNCHANGED <<shown, inLog>>
        BY <2>1 DEF Submit
      <4>. HIDE DEF p
      <4>. QED  BY <4>1, <4>2 DEF Waiting
    <3>. QED  BY <3>1 DEF Budget!BudgetNext, Budget!Ask
  <2>2. CASE DispatchShow
    BY <2>2, DispatchShowIsShowOne DEF Budget!BudgetNext
  <2>3. CASE DispatchNone
    <3>1. hold' \subseteq hold \cup pending /\ pending' = {} /\ UNCHANGED <<shown, inLog>>
      BY <2>3, CandidatesFacts DEF DispatchNone, IInv
    <3>2. Waiting' \subseteq Waiting
      BY <3>1 DEF Waiting
    <3>. QED  BY <3>1, <3>2 DEF Budget!BudgetNext, Budget!Discard
  <2>4. CASE \E k \in screen : Answer(k) \/ CloseSilently(k)
    BY <2>4 DEF Answer, CloseSilently, Waiting, Budget!budgetVars
  <2>5. CASE ClientAck
    BY <2>5 DEF ClientAck, Waiting, Budget!budgetVars
  <2>6. CASE Restart
    <3>1. Waiting' = {} /\ UNCHANGED <<shown, inLog>>
      BY <2>6 DEF Restart, Waiting
    <3>. QED  BY <3>1 DEF Budget!BudgetNext, Budget!Discard
  <2>7. CASE UNCHANGED vars
    BY <2>7 DEF vars, Waiting, Budget!budgetVars
  <2>. QED  BY <2>1, <2>2, <2>3, <2>4, <2>5, <2>6, <2>7 DEF Next, Tick, Dispatch
<1>. QED  BY <1>1, <1>2, Inductive, PTL DEF Spec, ImplementsBudget, Budget!BudgetSpec

-----------------------------------------------------------------------------
(* Why a candidate is dropped: never for the cooldown.                        *)
LEMMA DropFacts ==
  ASSUME NEW r, Verdict(r) = "drop"
  PROVE  /\ ~ CoolingDown
         /\ \/ Prio(r) < 90 /\ ctx.quiet
            \/ CapReached(r.kind) /\ ~ ctx.afk
BY DEF Verdict

(* What a candidate that precedes the shown one was refused for.              *)
LEMMA OvertakenFacts ==
  ASSUME NEW r \in Request, NEW s \in Request, Slot = NoKey,
         Verdict(s) = "show", Verdict(r) # "show", Prio(r) >= Prio(s)
  PROVE  CapReached(r.kind)
<1>1. Prio(r) \in Int /\ Prio(s) \in Int
  BY PrioFacts
<1>2. ~ CoolingDown /\ ~ (Prio(s) < 90 /\ ctx.quiet) /\ ~ (Prio(s) < 90 /\ ctx.deep)
      /\ ~ (Prio(s) < 100 /\ ctx.fullscreen) /\ ~ ctx.afk
  BY DEF Verdict
<1>3. ~ (Prio(r) < 90 /\ ctx.quiet) /\ ~ (Prio(r) < 90 /\ ctx.deep)
      /\ ~ (Prio(r) < 100 /\ ctx.fullscreen)
  <2>1. /\ Prio(r) < 90 => Prio(s) < 90
        /\ Prio(r) < 100 => Prio(s) < 100
    BY <1>1
  <2>. QED  BY <1>2, <2>1
<1>. QED  BY <1>2, <1>3 DEF Verdict

(* The order of what is shown.                                                *)
THEOREM NeverOvertaken == Spec => NoOvertaking
<1>. DEFINE A == Len(shown') > Len(shown) =>
                   LET s == shown'[Len(shown')]
                   IN  \A r, c \in Candidates :
                         \/ c.key # s.key
                         \/ Prio(r) < Prio(c) \/ (Prio(r) = Prio(c) /\ r.at >= c.at)
                         \/ CapReached(r.kind) \/ Slot = s.key
<1>1. IInv /\ [Next]_vars => [A]_vars
  <2>. SUFFICES ASSUME IInv, [Next]_vars, Len(shown') > Len(shown),
                       NEW r \in Candidates, NEW c \in Candidates,
                       c.key = shown'[Len(shown')].key,
                       ~ (Prio(r) < Prio(c) \/ (Prio(r) = Prio(c) /\ r.at >= c.at)),
                       Slot # shown'[Len(shown')].key
                PROVE  CapReached(r.kind)
    OBVIOUS
  <2>1. DispatchShow
    <3>1. Len(shown) \in Nat
      BY DEF IInv, TypeOK
    <3>2. UNCHANGED shown => FALSE
      BY <3>1
    <3>. QED
      BY <3>2 DEF Next, Tick, Dispatch, DispatchNone, Submit, Answer, CloseSilently,
                  ClientAck, Restart, vars
  <2>2. PICK s \in Candidates :
          /\ Verdict(s) = "show"
          /\ \A q \in Candidates : Verdict(q) = "show" => ~ Precedes(q, s)
          /\ shown'[Len(shown')].key = s.key
    BY <2>1, DispatchShowFacts
  <2>3. c = s /\ r \in Request /\ s \in Request
    BY <2>2, CandidatesFacts DEF IInv
  <2>4. Slot = NoKey
    BY <2>2 DEF Verdict
  <2>5. Prio(r) \in Int /\ Prio(s) \in Int /\ r.at \in Int /\ s.at \in Int
    BY <2>3, PrioFacts DEF Request
  <2>6. Precedes(r, s)
    BY <2>3, <2>5 DEF Precedes
  <2>7. Verdict(r) # "show" /\ Prio(r) >= Prio(s)
    BY <2>2, <2>5, <2>6 DEF Precedes
  <2>. QED  BY <2>2, <2>3, <2>4, <2>7, OvertakenFacts
<1>. QED  BY <1>1, Inductive, PTL DEF Spec, NoOvertaking

(* What may happen to a request.                                              *)
THEOREM NeverLost == Spec => NothingLost
<1>. DEFINE Excused(k) ==
       \/ run' # run
       \/ Len(shown') > Len(shown) /\ shown'[Len(shown')].key = k
       \/ \E r \in Candidates : /\ r.key = k /\ ~ CoolingDown
                                /\ \/ Prio(r) < 90 /\ ctx.quiet
                                   \/ CapReached(r.kind) /\ ~ ctx.afk
<1>1. IInv /\ [Next]_vars => [\A k \in Waiting \ Waiting' : Excused(k)]_vars
  <2>. SUFFICES ASSUME IInv, [Next]_vars, NEW k \in Waiting \ Waiting'
                PROVE  Excused(k)
    OBVIOUS
  <2>1. PICK r \in Candidates : r.key = k
    BY CandidatesCover DEF IInv
  <2>2. r \notin hold'
    BY <2>1 DEF Waiting
  <2>3. Verdict(r) = "drop" => Excused(k)
    BY <2>1, DropFacts
  <2>4. CASE DispatchNone
    <3>1. Verdict(r) # "show" /\ Verdict(r) # "defer"
      BY <2>1, <2>2, <2>4 DEF DispatchNone
    <3>2. Verdict(r) = "drop"
      BY <3>1 DEF Verdict
    <3>. QED  BY <2>3, <3>2
  <2>5. CASE DispatchShow
    <3>1. PICK s \in Candidates :
            /\ hold' = {q \in Candidates \ {s} : Verdict(q) # "drop" \/ Precedes(s, q)}
            /\ Len(shown) \in Nat /\ Len(shown') = Len(shown) + 1
            /\ shown'[Len(shown')].key = s.key
      BY <2>5, DispatchShowFacts
    <3>2. r = s \/ Verdict(r) = "drop"
      BY <2>1, <2>2, <3>1
    <3>3. r = s => Len(shown') > Len(shown) /\ shown'[Len(shown')].key = k
      BY <2>1, <3>1
    <3>. QED  BY <2>3, <3>2, <3>3
  <2>6. CASE Restart
    BY <2>6 DEF Restart, IInv, TypeOK
  <2>7. CASE \/ \E a \in Asks : Submit(a)
             \/ \E j \in screen : Answer(j) \/ CloseSilently(j)
             \/ ClientAck \/ UNCHANGED vars
    <3>1. hold' = hold /\ pending \subseteq pending'
      BY <2>7 DEF Submit, Answer, CloseSilently, ClientAck, vars
    <3>. QED  BY <3>1 DEF Waiting
  <2>. QED  BY <2>4, <2>5, <2>6, <2>7 DEF Next, Tick, Dispatch
<1>. QED  BY <1>1, Inductive, PTL DEF Spec, NothingLost

-----------------------------------------------------------------------------
(* One popup at a time.  The strengthening: a popup on screen is the one that *)
(* holds the slot, and is not stale yet; and nothing waits under its key.     *)
SlotInv ==
  /\ screen # {} => screen = {active} /\ clock - activeSince < StaleAfter
  /\ active \notin Waiting

(* Which key waits, by the requests.                                          *)
LEMMA WaitingFacts ==
  ASSUME TypeOK
  PROVE  /\ Waiting \subseteq Keys /\ NoKey \notin Waiting
         /\ \A r \in hold \cup pending : r.key \in Waiting
BY ArbiterAssumption DEF TypeOK, Waiting, Request

(* While a popup is on screen, the slot that a dispatch finds is its own.     *)
LEMMA SlotTaken ==
  ASSUME TypeOK, SlotInv, screen # {}
  PROVE  Slot = active /\ active \in Keys /\ active # NoKey
<1>1. screen = {active} /\ screen \subseteq Keys /\ ~ (clock - activeSince >= StaleAfter)
  <2>1. clock \in Int /\ activeSince \in Int /\ StaleAfter \in Nat
    BY ArbiterAssumption DEF TypeOK
  <2>. QED  BY <2>1 DEF SlotInv, TypeOK
<1>. QED  BY <1>1, ArbiterAssumption DEF Slot

(* A tick that shows.                                                         *)
LEMMA ShowKeepsSlot ==
  ASSUME IInv, SlotInv, DispatchShow, PromptUser
  PROVE  SlotInv'
<1>1. PICK r \in Firsts({s \in Candidates : Verdict(s) = "show"}), logged \in LogOutcomes :
        /\ hold' = {s \in Candidates \ {r} : Verdict(s) # "drop" \/ Precedes(r, s)}
        /\ pending' = {}
        /\ active' = IF r.kind \in SelfAcknowledged THEN NoKey ELSE r.key
        /\ screen' = IF r.kind \in SelfAcknowledged THEN screen ELSE screen \cup {r.key}
  BY Zenon DEF DispatchShow
<1>2. TypeOK /\ r \in Candidates /\ Verdict(r) = "show"
  BY DEF IInv, Firsts
<1>3. /\ Candidates \subseteq hold \cup pending
      /\ \A s, t \in Candidates : s.key = t.key => s = t
  BY CandidatesFacts DEF IInv
<1>4. r.key \in Waiting /\ r.key # active
  BY <1>2, <1>3, WaitingFacts DEF SlotInv
<1>5. Slot = NoKey \/ Slot = r.key
  BY <1>2 DEF Verdict
<1>6. screen = {}
  BY <1>2, <1>4, <1>5, SlotTaken
<1>7. Waiting' = {s.key : s \in hold'}
  BY <1>1 DEF Waiting
<1>8. r.key \notin Waiting' /\ Waiting' \subseteq Waiting
  <2>1. \A s \in hold' : s \in Candidates /\ s # r
    BY <1>1
  <2>. QED  BY <1>2, <1>3, <1>7, <2>1, WaitingFacts
<1>9. NoKey \notin Waiting'
  BY <1>2, <1>8, WaitingFacts
<1>. QED  BY <1>1, <1>6, <1>8, <1>9 DEF SlotInv, PromptUser

(* A tick that does not.                                                      *)
LEMMA NoneKeepsSlot ==
  ASSUME IInv, SlotInv, DispatchNone, PromptUser
  PROVE  SlotInv'
<1>1. TypeOK
  BY DEF IInv
<1>2. Waiting' \subseteq Waiting
  <2>1. \A s \in hold' : s \in hold \cup pending
    BY CandidatesFacts DEF IInv, DispatchNone
  <2>2. Waiting' = {s.key : s \in hold'}
    BY DEF DispatchNone, Waiting
  <2>. QED  BY <1>1, <2>1, <2>2, WaitingFacts
<1>3. Slot \notin Waiting
  BY <1>1, WaitingFacts DEF Slot, SlotInv
<1>4. active' = Slot /\ screen' = screen
  BY DEF DispatchNone
<1>5. screen # {} => screen = {Slot}
  BY <1>1, SlotTaken DEF SlotInv
<1>. QED  BY <1>2, <1>3, <1>4, <1>5 DEF SlotInv, PromptUser

(* Gate 1 (_gate, acknowledge, _expire_stale_active): two popups are never on *)
(* screen together, as long as API clients acknowledge nothing, the user      *)
(* answers or closes a popup before it is stale, and nothing is asked for     *)
(* again while its popup holds the slot - at any priorities, across restarts, *)
(* silent closings and steps of the clock.                                    *)
THEOREM NeverTwoPopups ==
  ASSUME ~ ClientAcks
  PROVE  Spec /\ [][PromptUser /\ FiredOnce]_vars => []OneAtATime
<1>1. Init => SlotInv
  BY ArbiterAssumption DEF Init, SlotInv, Waiting
<1>2. IInv /\ SlotInv /\ [Next]_vars /\ [PromptUser /\ FiredOnce]_vars => SlotInv'
  <2>. SUFFICES ASSUME IInv, SlotInv, [Next]_vars, [PromptUser /\ FiredOnce]_vars
                PROVE  SlotInv'
    OBVIOUS
  <2>1. CASE UNCHANGED vars
    BY <2>1 DEF vars, SlotInv, Waiting
  <2>2. CASE (\E a \in Asks : Submit(a)) /\ PromptUser /\ FiredOnce
    <3>1. PICK a \in Asks : Submit(a)
      BY <2>2
    <3>. DEFINE new == [kind |-> a.kind, key |-> a.key, at |-> clock]
    <3>2. new \in pending' \ pending /\ pending' = pending \cup {new} /\ hold' = hold
      BY <3>1 DEF Submit
    <3>3. active' = active /\ screen' = screen /\ clock' = clock /\ activeSince' = activeSince
      BY <3>1 DEF Submit
    <3>4. new.key # active
      BY <2>2, <3>2 DEF FiredOnce
    <3>. HIDE DEF new
    <3>5. active \notin Waiting'
      BY <3>2, <3>4 DEF SlotInv, Waiting
    <3>. QED  BY <3>3, <3>5 DEF SlotInv
  <2>3. CASE Tick /\ PromptUser
    BY <2>3, ShowKeepsSlot, NoneKeepsSlot DEF Tick, Dispatch
  <2>4. CASE \E k \in screen : Answer(k)
    <3>1. PICK k \in screen : Answer(k)
      BY <2>4
    <3>2. screen' = {} /\ active' = NoKey /\ Waiting' = Waiting
      BY <3>1 DEF Answer, SlotInv, Waiting
    <3>. QED  BY <3>2, WaitingFacts DEF SlotInv, IInv
  <2>5. CASE \E k \in screen : CloseSilently(k)
    <3>1. PICK k \in screen : CloseSilently(k)
      BY <2>5
    <3>2. screen' = {} /\ active' = active /\ Waiting' = Waiting
      BY <3>1 DEF CloseSilently, SlotInv, Waiting
    <3>. QED  BY <3>2 DEF SlotInv
  <2>6. CASE ClientAck
    BY <2>6 DEF ClientAck
  <2>7. CASE Restart
    BY <2>7, ArbiterAssumption DEF Restart, SlotInv, Waiting
  <2>. QED  BY <2>1, <2>2, <2>3, <2>4, <2>5, <2>6, <2>7 DEF Next
<1>3. SlotInv => OneAtATime
  <2>. SUFFICES ASSUME SlotInv PROVE OneAtATime
    OBVIOUS
  <2>1. CASE screen = {}
    BY <2>1, FS_EmptySet DEF OneAtATime
  <2>2. CASE screen = {active}
    BY <2>2, FS_Singleton DEF OneAtATime
  <2>. QED  BY <2>1, <2>2 DEF SlotInv
<1>. QED  BY <1>1, <1>2, <1>3, Inductive, PTL DEF Spec
=============================================================================
