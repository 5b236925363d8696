---------------------------- MODULE TasksProofs -----------------------------
(***************************************************************************)
(* Proofs about Tasks, for any number of writers, names and tasks, and any  *)
(* precision of a float.                                                    *)
(***************************************************************************)
EXTENDS Tasks, FiniteSetTheorems, WellFoundedInduction, TLAPS

Id == Nat \ {0}
Row == [key : Int, parent : Nat, hints : SUBSET Names, given : SUBSET Names,
        offers : SUBSET Names, born : Nat]

Creating == [op : {"create"}, key : Int, stale : BOOLEAN]
Moving ==
  [op : {"reorder"}, task : Id, after : Nat, before : Nat, key : Int, stale : BOOLEAN]
Hinting == [op : {"add_hint", "suggest_hint"}, task : Id, row : Row, stale : BOOLEAN]
Work == {Idle} \cup Creating \cup Moving \cup Hinting

TypeOK ==
  /\ IsFiniteSet(DOMAIN tasks) /\ DOMAIN tasks \subseteq Id /\ tasks \in [DOMAIN tasks -> Row]
  /\ born \in Nat /\ session \in [task : Nat, born : Nat] /\ loaded \subseteq Names
  /\ work \in [Writers -> Work] /\ raced \in BOOLEAN

(* No task is younger than the last one, nor did a session start later.      *)
BornInv ==
  /\ \A t \in DOMAIN tasks : tasks[t].born <= born
  /\ session.born <= born

Distinct(row) ==
  \A g, h \in row.hints : Lower[g] = Lower[h] => g = h \/ {g, h} \subseteq row.given

(* What a writer holds is what the table makes of it, unless the table was   *)
(* written meanwhile; and the hints it holds are distinct all the same.      *)
Current(held) ==
  /\ held.op = "create" => held.key = Top
  /\ held.op = "reorder" =>
       /\ {held.after, held.before} # {NoTask}
       /\ held.task \in DOMAIN tasks /\ {held.after, held.before} \subseteq DOMAIN tasks \cup {NoTask}
       /\ held.task # held.after /\ held.task # held.before
       /\ held.key = NewKey(held.after, held.before)
  /\ held.op = "add_hint" =>
       held.task \in DOMAIN tasks /\ \E name \in Names : held.row = Added(tasks[held.task], name)
  /\ held.op = "suggest_hint" =>
       held.task \in DOMAIN tasks /\ \E name \in Names : held.row = Suggested(tasks[held.task], name)

HeldInv ==
  \A w \in Writers : work[w] # Idle =>
    /\ work[w].stale \/ Current(work[w])
    /\ work[w].op = "add_hint" => Distinct(work[w].row)

IInv == TypeOK /\ BornInv /\ HeldInv /\ KnownOnce /\ OwnHints

-----------------------------------------------------------------------------
(* The sizes and places of things. *)

(* The sort keys are finitely many integers.                                 *)
LEMMA KeysFinite ==
  ASSUME TypeOK
  PROVE  IsFiniteSet(Keys) /\ Keys \in SUBSET Int
<1>. DEFINE D == DOMAIN tasks
            key == [t \in D |-> tasks[t].key]
<1>1. \A t \in D : tasks[t] \in Row
  BY DEF TypeOK
<1>2. Keys \in SUBSET Int
  BY <1>1 DEF Keys, Row
<1>3. key \in Surjection(D, Keys)
  BY DEF Surjection, Keys
<1>4. IsFiniteSet(D)
  BY DEF TypeOK
<1>. HIDE DEF key, D
<1>. QED  BY <1>2, <1>3, <1>4, FS_Surjection

(* A finite nonempty set of integers has a largest member: the sets of those  *)
(* above each member are well-founded by inclusion, and a minimal one is       *)
(* empty.                                                                      *)
LEMMA Largest ==
  ASSUME NEW S \in SUBSET Int, IsFiniteSet(S), S # {}
  PROVE  \E m \in S : \A j \in S : j <= m
<1>. DEFINE Above(i) == {j \in S : j > i}
            Aboves == {Above(i) : i \in S}
<1>1. Aboves \subseteq FiniteSubsetsOf(S)
  BY FS_Subset DEF FiniteSubsetsOf
<1>2. Aboves # {}
  OBVIOUS
<1>3. PICK U \in Aboves : \A V \in Aboves : <<V, U>> \notin StrictSubsetOrdering(S)
  <2>. HIDE DEF Aboves
  <2>. QED  BY <1>1, <1>2, FS_StrictSubsetOrderingWellFounded, WFMin
<1>4. PICK m \in S : U = Above(m)
  OBVIOUS
<1>5. ASSUME NEW j \in S, ~ (j <= m)
      PROVE  FALSE
  <2>1. j \in Above(m) /\ j \notin Above(j)
    BY <1>5
  <2>2. \A k \in S : k > j => k > m
    BY <1>5
  <2>3. Above(j) \subseteq Above(m)
    BY <2>2
  <2>4. <<Above(j), Above(m)>> \in StrictSubsetOrdering(S)
    BY <2>1, <2>3 DEF StrictSubsetOrdering
  <2>. QED  BY <1>3, <1>4, <2>4
<1>. QED  BY <1>5

(* And a smallest one: the negative of the largest negative.                  *)
LEMMA Smallest ==
  ASSUME NEW S \in SUBSET Int, IsFiniteSet(S), S # {}
  PROVE  \E m \in S : \A j \in S : m <= j
<1>. DEFINE T == {0 - j : j \in S}
            f == [j \in S |-> 0 - j]
<1>1. f \in Surjection(S, T)
  BY DEF Surjection
<1>2. IsFiniteSet(T) /\ T \in SUBSET Int /\ T # {}
  <2>1. T \in SUBSET Int /\ T # {}
    <3>1. \A j \in S : j \in Int /\ 0 - j \in Int
      OBVIOUS
    <3>2. T \subseteq Int
      BY <3>1
    <3>. QED  BY <3>2
  <2>. HIDE DEF T, f
  <2>. QED  BY <1>1, <2>1, FS_Surjection
<1>3. PICK m \in T : \A j \in T : j <= m
  <2>. HIDE DEF T
  <2>. QED  BY <1>2, Largest
<1>4. PICK k \in S : m = 0 - k
  OBVIOUS
<1>5. \A j \in S : k <= j
  BY <1>3, <1>4
<1>. QED  BY <1>5

(* A new task sorts before all the others. *)
LEMMA TopIsFirst ==
  ASSUME TypeOK
  PROVE  Top \in Int /\ \A t \in DOMAIN tasks : Top < tasks[t].key
<1>1. One \in Int /\ One > 0
  BY TasksAssumption
<1>2. CASE Keys = {}
  <2>1. \A t \in DOMAIN tasks : FALSE
    BY <1>2 DEF Keys
  <2>. QED  BY <1>1, <1>2, <2>1 DEF Top
<1>3. CASE Keys # {}
  <2>1. PICK m \in Keys : \A j \in Keys : m <= j
    BY <1>3, KeysFinite, Smallest
  <2>2. Min(Keys) \in Keys /\ \A j \in Keys : Min(Keys) <= j
    BY <2>1 DEF Min
  <2>3. \A t \in DOMAIN tasks : tasks[t].key \in Keys /\ tasks[t].key \in Int
    BY DEF Keys, TypeOK, Row
  <2>4. Min(Keys) \in Int
    BY <2>2, KeysFinite
  <2>. QED  BY <1>1, <1>3, <2>2, <2>3, <2>4 DEF Top
<1>. QED  BY <1>2, <1>3

(* SQLite's next row id is none of the table's.                              *)
LEMMA NextIdIsNew ==
  ASSUME TypeOK
  PROVE  NextId \in Id /\ NextId \notin DOMAIN tasks
<1>1. CASE DOMAIN tasks = {}
  BY <1>1 DEF NextId, Id, TypeOK
<1>2. CASE DOMAIN tasks # {}
  <2>1. PICK m \in DOMAIN tasks : \A t \in DOMAIN tasks : t <= m
    <3>1. DOMAIN tasks \in SUBSET Int /\ IsFiniteSet(DOMAIN tasks)
      BY DEF TypeOK, Id
    <3>. QED  BY <1>2, <3>1, Largest
  <2>2. \A t \in DOMAIN tasks : t \in Nat /\ t > 0
    BY DEF TypeOK, Id
  <2>3. Max(DOMAIN tasks) \in DOMAIN tasks /\ \A t \in DOMAIN tasks : t <= Max(DOMAIN tasks)
    <3>1. \A t \in DOMAIN tasks : m >= t
      BY <2>1, <2>2
    <3>2. Max(DOMAIN tasks) \in DOMAIN tasks /\ \A t \in DOMAIN tasks : Max(DOMAIN tasks) >= t
      BY <3>1 DEF Max
    <3>. QED  BY <2>2, <3>2
  <2>4. tasks # <<>>
    BY <1>2
  <2>. QED  BY <2>2, <2>3, <2>4 DEF NextId, Id
<1>. QED  BY <1>1, <1>2

(* Three tasks that are three are pairwise different.                        *)
LEMMA ThreeTasks ==
  ASSUME NEW a, NEW b, NEW c, Cardinality({a, b, c}) = 3
  PROVE  a # b /\ a # c /\ b # c
<1>1. ASSUME NEW x, NEW y
      PROVE  Cardinality({x, y}) # 3
  <2>1. IsFiniteSet({x}) /\ Cardinality({x}) = 1
    BY FS_Singleton
  <2>2. Cardinality({x} \cup {y}) \in {1, 2}
    BY <2>1, FS_AddElement
  <2>3. {x, y} = {x} \cup {y}
    OBVIOUS
  <2>. QED  BY <2>2, <2>3
<1>2. a = b => {a, b, c} = {a, c}
  OBVIOUS
<1>3. a = c => {a, b, c} = {a, b}
  OBVIOUS
<1>4. b = c => {a, b, c} = {a, b}
  OBVIOUS
<1>. QED  BY <1>1, <1>2, <1>3, <1>4

(* Between two tasks with room for one, or beyond the one that is named.      *)
LEMMA NewKeyBetween ==
  ASSUME TypeOK, NEW a \in DOMAIN tasks \cup {NoTask}, NEW b \in DOMAIN tasks \cup {NoTask},
         {a, b} # {NoTask}
  PROVE  /\ NewKey(a, b) \in Int
         /\ NoTask \in {a, b} \/ tasks[b].key - tasks[a].key >= 2 =>
              /\ a # NoTask => tasks[a].key < NewKey(a, b)
              /\ b # NoTask => NewKey(a, b) < tasks[b].key
<1>1. One \in Int /\ One > 0
  BY TasksAssumption
<1>2. \A t \in DOMAIN tasks : tasks[t].key \in Int
  BY DEF TypeOK, Row
<1>3. NoTask \notin DOMAIN tasks
  BY DEF TypeOK, Id, NoTask
<1>4. CASE a # NoTask /\ b # NoTask
  <2>. DEFINE x == tasks[a].key
              y == tasks[b].key
  <2>1. x \in Int /\ y \in Int
    BY <1>2, <1>4
  <2>2. NewKey(a, b) = (x + y) \div 2
    BY <1>4 DEF NewKey
  <2>3. ((x + y) \div 2) \in Int /\ (y - x >= 2 => x < ((x + y) \div 2) /\ ((x + y) \div 2) < y)
    <3>. HIDE DEF x, y
    <3>. QED  BY <2>1
  <2>. HIDE DEF x, y
  <2>. QED  BY <1>4, <2>2, <2>3 DEF x, y
<1>5. CASE a = NoTask
  <2>1. b \in DOMAIN tasks /\ NewKey(a, b) = tasks[b].key - One
    BY <1>3, <1>5 DEF NewKey
  <2>. QED  BY <1>1, <1>2, <1>5, <2>1
<1>6. CASE b = NoTask
  <2>1. a \in DOMAIN tasks /\ NewKey(a, b) = tasks[a].key + One
    BY <1>3, <1>6 DEF NewKey
  <2>. QED  BY <1>1, <1>2, <1>6, <2>1
<1>. QED  BY <1>4, <1>5, <1>6

-----------------------------------------------------------------------------
(* What add_hint and suggest_hint make of a row. *)

(* No suggestion is a hint that is written in lower case.                     *)
Apart(row) == \A h \in row.hints, o \in row.offers : Lower[o] = Lower[h] => h # Lower[h]

(* KnownOnce, row by row.                                                    *)
LEMMA KnownOnceIs ==
  KnownOnce <=> \A t \in DOMAIN tasks : Distinct(tasks[t]) /\ (raced \/ Apart(tasks[t]))
BY DEF KnownOnce, Distinct, Apart

(* What add_hint makes of a row.                                             *)
LEMMA AddedIs ==
  ASSUME NEW row \in Row, NEW name \in Names
  PROVE  /\ Added(row, name) \in Row
         /\ row.hints \subseteq Added(row, name).hints
         /\ Added(row, name).key = row.key /\ Added(row, name).born = row.born
         /\ Distinct(row) => Distinct(Added(row, name))
         /\ Apart(row) => Apart(Added(row, name))
<1>. DEFINE hints == IF Lower[name] \in LowerAll(row.hints) THEN row.hints
                     ELSE row.hints \cup {name}
            offers == {o \in row.offers : Lower[o] # name}
            new == Added(row, name)
<1>1. /\ new.hints = hints /\ new.offers = offers /\ new.given = row.given
      /\ new.key = row.key /\ new.born = row.born /\ new.parent = row.parent
      /\ new = [key |-> new.key, parent |-> new.parent, hints |-> new.hints,
                given |-> new.given, offers |-> new.offers, born |-> new.born]
  <2>1. new = [row EXCEPT !.hints = hints, !.offers = offers]
    BY DEF Added
  <2>. HIDE DEF new, hints, offers
  <2>. QED  BY <2>1 DEF Row
<1>2. new \in Row
  <2>1. hints \subseteq Names /\ offers \subseteq Names
    BY DEF Row
  <2>2. row.key \in Int /\ row.parent \in Nat /\ row.born \in Nat /\ row.given \subseteq Names
    BY DEF Row
  <2>. HIDE DEF new, hints, offers
  <2>. QED  BY <1>1, <2>1, <2>2 DEF Row
<1>3. ASSUME Distinct(row), NEW g \in hints, NEW h \in hints, Lower[g] = Lower[h]
      PROVE  g = h \/ {g, h} \subseteq row.given
  BY <1>3 DEF Distinct, LowerAll
<1>4. ASSUME Apart(row), NEW h \in hints, NEW o \in offers, Lower[o] = Lower[h]
      PROVE  h # Lower[h]
  BY <1>4 DEF Apart
<1>. HIDE DEF new
<1>5. Apart(row) => Apart(new)
  <2>. HIDE DEF hints, offers
  <2>. QED  BY <1>1, <1>4 DEF Apart
<1>6. row.hints \subseteq hints
  OBVIOUS
<1>. HIDE DEF hints
<1>7. Distinct(row) => Distinct(new)
  BY <1>1, <1>3 DEF Distinct
<1>. QED  BY <1>1, <1>2, <1>5, <1>6, <1>7 DEF new

(* What suggest_hint makes of a row.                                         *)
LEMMA SuggestedIs ==
  ASSUME NEW row \in Row, NEW name \in Names
  PROVE  /\ Suggested(row, name) \in Row
         /\ Suggested(row, name).hints = row.hints
         /\ Suggested(row, name).key = row.key /\ Suggested(row, name).born = row.born
         /\ Apart(row) => Apart(Suggested(row, name))
<1>. DEFINE offers == IF Lower[name] \in LowerAll(row.hints) \cup LowerAll(row.offers)
                      THEN row.offers ELSE row.offers \cup {name}
            new == Suggested(row, name)
<1>1. /\ new.hints = row.hints /\ new.offers = offers /\ new.given = row.given
      /\ new.key = row.key /\ new.born = row.born /\ new.parent = row.parent
      /\ new = [key |-> new.key, parent |-> new.parent, hints |-> new.hints,
                given |-> new.given, offers |-> new.offers, born |-> new.born]
  BY DEF Suggested, Row
<1>2. new \in Row
  <2>1. row.hints \subseteq Names /\ offers \subseteq Names
    BY DEF Row
  <2>2. row.key \in Int /\ row.parent \in Nat /\ row.born \in Nat /\ row.given \subseteq Names
    BY DEF Row
  <2>. HIDE DEF new, offers
  <2>. QED  BY <1>1, <2>1, <2>2 DEF Row
<1>3. ASSUME Apart(row), NEW h \in row.hints, NEW o \in offers, Lower[o] = Lower[h]
      PROVE  h # Lower[h]
  BY <1>3 DEF Apart, LowerAll
<1>. HIDE DEF new
<1>4. Apart(row) => Apart(new)
  <2>. HIDE DEF offers
  <2>. QED  BY <1>1, <1>3 DEF Apart
<1>. QED  BY <1>1, <1>2, <1>4 DEF new

(* What is written, of what add_hint or suggest_hint made of any row.         *)
LEMMA WrittenIs ==
  ASSUME NEW row \in Row, NEW new \in Row, NEW op \in {"add_hint", "suggest_hint"}
  PROVE  /\ Written(row, new, op) \in Row
         /\ Written(row, new, op).hints = (IF op = "add_hint" THEN new.hints ELSE row.hints)
         /\ Written(row, new, op).given = (IF op = "add_hint" THEN new.given ELSE row.given)
         /\ Written(row, new, op).offers = new.offers
         /\ Written(row, new, op).key = row.key /\ Written(row, new, op).born = row.born
BY DEF Written, Row

-----------------------------------------------------------------------------
(* What the writers hold. *)

(* What a writer holds is what its operation reads.                          *)
LEMMA HeldKinds ==
  ASSUME TypeOK, NEW w \in Writers
  PROVE  /\ work[w].op = "create" => work[w] \in Creating
         /\ work[w].op = "reorder" => work[w] \in Moving
         /\ work[w].op \in {"add_hint", "suggest_hint"} => work[w] \in Hinting
         /\ work[w] # Idle => work[w].stale \in BOOLEAN
<1>1. work[w] \in Work
  BY DEF TypeOK
<1>. QED  BY <1>1 DEF Work, Idle, Creating, Moving, Hinting

(* A write is over for its writer, and makes stale what the others hold.     *)
LEMMA AfterIs ==
  ASSUME TypeOK, NEW w \in Writers, work' = After(w)
  PROVE  /\ work' \in [Writers -> Work]
         /\ work'[w] = Idle
         /\ \A v \in Writers : work'[v] # Idle =>
              work[v] # Idle /\ work'[v] = [work[v] EXCEPT !.stale = TRUE]
<1>1. \A v \in Writers :
        work'[v] = IF v = w \/ work[v] = Idle THEN Idle ELSE [work[v] EXCEPT !.stale = TRUE]
  BY DEF After
<1>2. \A held \in Work : held # Idle => [held EXCEPT !.stale = TRUE] \in Work
  BY DEF Work, Creating, Moving, Hinting
<1>3. \A v \in Writers : work[v] \in Work /\ Idle \in Work
  BY DEF TypeOK, Work
<1>4. \A v \in Writers : work'[v] \in Work
  BY <1>1, <1>2, <1>3
<1>5. work' \in [Writers -> Work]
  BY <1>4 DEF After
<1>. QED  BY <1>1, <1>5

(* After a write, whatever the others hold is stale.                          *)
LEMMA AfterHeld ==
  ASSUME TypeOK, HeldInv, NEW w \in Writers, work' = After(w)
  PROVE  HeldInv'
<1>1. ASSUME NEW v \in Writers, work'[v] # Idle
      PROVE  work'[v].stale = TRUE /\ (work'[v].op = "add_hint" => Distinct(work'[v].row))
  <2>1. work[v] # Idle /\ work'[v] = [work[v] EXCEPT !.stale = TRUE] /\ work[v] \in Work
    BY <1>1, AfterIs DEF TypeOK
  <2>2. work'[v].stale = TRUE /\ work'[v].op = work[v].op
    BY <2>1 DEF Work, Creating, Moving, Hinting
  <2>3. work[v].op = "add_hint" => work'[v].row = work[v].row
    BY <2>1 DEF Work, Creating, Moving, Hinting
  <2>. QED  BY <2>1, <2>2, <2>3 DEF HeldInv
<1>. QED  BY <1>1 DEF HeldInv, Distinct

(* What has just been read is true of the table.                             *)
LEMMA HoldsHeld ==
  ASSUME TypeOK, HeldInv, NEW w \in Writers, NEW held \in Work, UNCHANGED tasks,
         Holds(w, held), Current(held), held.op = "add_hint" => Distinct(held.row)
  PROVE  work' \in [Writers -> Work] /\ HeldInv'
<1>1. work' \in [Writers -> Work] /\ work'[w] = held /\ \A v \in Writers : v # w => work'[v] = work[v]
  BY DEF Holds, TypeOK
<1>2. Top' = Top /\ tasks' = tasks
  BY DEF Top, Keys
<1>3. ASSUME NEW v \in Writers, work'[v] # Idle
      PROVE  /\ work'[v].stale \/ Current(work[v])'
             /\ work'[v].op = "add_hint" => Distinct(work'[v].row)
  <2>1. CASE v = w
    <3>1. work'[v] = held
      BY <1>1, <2>1
    <3>2. Current(work[v])'
      BY <1>2, <3>1 DEF Current, NewKey
    <3>. QED  BY <3>1, <3>2
  <2>2. CASE v # w
    <3>1. work'[v] = work[v]
      BY <1>1, <2>2
    <3>2. Current(work[v]) => Current(work[v])'
      BY <1>2, <3>1 DEF Current, NewKey
    <3>. QED  BY <1>3, <3>1, <3>2 DEF HeldInv
  <2>. QED  BY <2>1, <2>2
<1>. QED  BY <1>1, <1>3 DEF HeldInv, Distinct

(* What is held stays true while nothing is written.                         *)
LEMMA SameHeld ==
  ASSUME HeldInv, UNCHANGED <<tasks, work>>
  PROVE  HeldInv'
<1>1. Top' = Top /\ tasks' = tasks /\ work' = work
  BY DEF Top, Keys
<1>2. ASSUME NEW w \in Writers, Current(work[w])
      PROVE  Current(work[w])'
  BY <1>1, <1>2 DEF Current, NewKey
<1>. QED  BY <1>1, <1>2 DEF HeldInv, Distinct

-----------------------------------------------------------------------------
(* The steps. *)

(* A table with one row changed, or one more. *)
LEMMA TableChanged ==
  ASSUME TypeOK, NEW t \in DOMAIN tasks, NEW row \in Row
  PROVE  /\ DOMAIN [tasks EXCEPT ![t] = row] = DOMAIN tasks
         /\ [tasks EXCEPT ![t] = row] \in [DOMAIN tasks -> Row]
         /\ \A u \in DOMAIN tasks : [tasks EXCEPT ![t] = row][u] = IF u = t THEN row ELSE tasks[u]
BY DEF TypeOK

(* create, the row: it is the only new one, and the youngest.                 *)
LEMMA CreateIs ==
  ASSUME TypeOK, NEW w \in Writers, NEW hints \in SUBSET Names,
         NEW parent \in DOMAIN tasks \cup {NoTask}, CreateWrites(w, hints, parent)
  PROVE  /\ DOMAIN tasks' = DOMAIN tasks \cup {NextId} /\ tasks' \in [DOMAIN tasks' -> Row]
         /\ IsFiniteSet(DOMAIN tasks') /\ DOMAIN tasks' \subseteq Id
         /\ \A t \in DOMAIN tasks : tasks'[t] = tasks[t]
         /\ tasks'[NextId].key = work[w].key /\ tasks'[NextId].born = born + 1
         /\ tasks'[NextId].hints = hints /\ tasks'[NextId].given = hints
         /\ tasks'[NextId].offers = {}
<1>. DEFINE row == [key |-> work[w].key, parent |-> parent, hints |-> hints, given |-> hints,
                    offers |-> {}, born |-> born + 1]
            D == DOMAIN tasks
<1>1. row \in Row
  <2>1. work[w].key \in Int
    BY HeldKinds DEF CreateWrites, Creating
  <2>2. parent \in Nat /\ born + 1 \in Nat /\ hints \subseteq Names
    BY DEF TypeOK, Id, NoTask
  <2>. QED  BY <2>1, <2>2 DEF Row
<1>2. tasks' = [t \in D \cup {NextId} |-> IF t \in D THEN tasks[t] ELSE row]
  BY DEF CreateWrites
<1>3. /\ row.key = work[w].key /\ row.born = born + 1 /\ row.hints = hints /\ row.offers = {}
      /\ row.given = hints
      /\ NextId \in Id /\ NextId \notin D /\ IsFiniteSet(D) /\ D \subseteq Id
      /\ \A t \in D : tasks[t] \in Row
  BY NextIdIsNew DEF TypeOK
<1>. HIDE DEF row, D
<1>4. IsFiniteSet(D \cup {NextId})
  BY <1>3, FS_AddElement
<1>. QED  BY <1>1, <1>2, <1>3, <1>4 DEF D

(* add_hint and suggest_hint, the row: it keeps its key and its age, and,      *)
(* unless it was changed meanwhile, its hints.                                 *)
LEMMA HintIs ==
  ASSUME TypeOK, HeldInv, NEW w \in Writers, HintWrites(w), work[w].task \in DOMAIN tasks
  PROVE  LET t == work[w].task
             old == tasks[t]
             new == tasks'[t]
         IN  /\ DOMAIN tasks' = DOMAIN tasks /\ tasks' \in [DOMAIN tasks -> Row]
             /\ \A u \in DOMAIN tasks : u # t => tasks'[u] = tasks[u]
             /\ new.key = old.key /\ new.born = old.born
             /\ Distinct(old) => Distinct(new)
             /\ ~work[w].stale => old.hints \subseteq new.hints /\ (Apart(old) => Apart(new))
<1>. DEFINE t == work[w].task
            old == tasks[t]
            row == work[w].row
            op == work[w].op
            new == Written(old, row, op)
<1>1. /\ op \in {"add_hint", "suggest_hint"} /\ work[w] \in Hinting /\ work[w] # Idle
      /\ tasks' = [tasks EXCEPT ![t] = new]
  BY HeldKinds DEF HintWrites, Idle
<1>2. old \in Row /\ row \in Row
  BY <1>1 DEF Hinting, TypeOK
<1>. HIDE DEF new, row, old, op
<1>3. /\ new \in Row /\ new.hints = (IF op = "add_hint" THEN row.hints ELSE old.hints)
      /\ new.given = (IF op = "add_hint" THEN row.given ELSE old.given)
      /\ new.offers = row.offers /\ new.key = old.key /\ new.born = old.born
  BY <1>1, <1>2, WrittenIs DEF new
<1>4. /\ DOMAIN tasks' = DOMAIN tasks /\ tasks' \in [DOMAIN tasks -> Row]
      /\ \A u \in DOMAIN tasks : tasks'[u] = IF u = t THEN new ELSE tasks[u]
  BY <1>1, <1>3, TableChanged
<1>5. op = "add_hint" => Distinct(row)
  BY <1>1 DEF HeldInv, op, row
<1>6. Distinct(old) => Distinct(new)
  BY <1>3, <1>5 DEF Distinct
<1>7. ASSUME ~work[w].stale
      PROVE  old.hints \subseteq new.hints /\ (Apart(old) => Apart(new))
  <2>1. Current(work[w])
    BY <1>1, <1>7 DEF HeldInv
  <2>2. CASE op = "add_hint"
    <3>1. PICK name \in Names : row = Added(old, name)
      BY <2>1, <2>2 DEF Current, op, row, old
    <3>2. row.hints = new.hints /\ row.offers = new.offers
      BY <1>3, <2>2
    <3>3. old.hints \subseteq row.hints /\ (Apart(old) => Apart(row))
      BY <1>2, <3>1, AddedIs
    <3>. QED  BY <3>2, <3>3 DEF Apart
  <2>3. CASE op = "suggest_hint"
    <3>1. PICK name \in Names : row = Suggested(old, name)
      BY <2>1, <2>3 DEF Current, op, row, old
    <3>2. old.hints = new.hints /\ row.offers = new.offers
      BY <1>3, <2>3
    <3>3. row.hints = old.hints /\ (Apart(old) => Apart(row))
      BY <1>2, <3>1, SuggestedIs
    <3>. QED  BY <3>2, <3>3 DEF Apart
  <2>. QED  BY <1>1, <2>2, <2>3
<1>8. tasks'[t] = new
  BY <1>4
<1>. QED  BY <1>3, <1>4, <1>6, <1>7, <1>8 DEF old

(* reorder, the row: only its key changes.                                    *)
LEMMA ReorderIs ==
  ASSUME TypeOK, NEW w \in Writers, ReorderWrites(w)
  PROVE  /\ DOMAIN tasks' = DOMAIN tasks /\ tasks' \in [DOMAIN tasks -> Row]
         /\ \A u \in DOMAIN tasks :
              /\ tasks'[u].key = (IF u = work[w].task THEN work[w].key ELSE tasks[u].key)
              /\ tasks'[u].hints = tasks[u].hints /\ tasks'[u].offers = tasks[u].offers
              /\ tasks'[u].given = tasks[u].given
              /\ tasks'[u].born = tasks[u].born
<1>. DEFINE t == work[w].task
<1>1. CASE t \notin DOMAIN tasks
  BY <1>1 DEF ReorderWrites, TypeOK
<1>2. CASE t \in DOMAIN tasks
  <2>. DEFINE new == [tasks[t] EXCEPT !.key = work[w].key]
  <2>1. work[w].key \in Int /\ tasks[t] \in Row
    BY <1>2, HeldKinds DEF ReorderWrites, Moving, TypeOK
  <2>2. /\ new \in Row /\ new.key = work[w].key /\ new.hints = tasks[t].hints
        /\ new.offers = tasks[t].offers /\ new.born = tasks[t].born
        /\ new.given = tasks[t].given
    BY <2>1 DEF Row
  <2>3. tasks' = [tasks EXCEPT ![t] = new]
    BY <1>2 DEF ReorderWrites
  <2>. HIDE DEF new
  <2>4. /\ DOMAIN tasks' = DOMAIN tasks /\ tasks' \in [DOMAIN tasks -> Row]
        /\ \A u \in DOMAIN tasks : tasks'[u] = IF u = t THEN new ELSE tasks[u]
    BY <1>2, <2>2, <2>3, TableChanged
  <2>. QED  BY <2>2, <2>4
<1>. QED  BY <1>1, <1>2

(* A deletion leaves the other rows as they were.                            *)
LEMMA DeleteIs ==
  ASSUME TypeOK, NEW w \in Writers, NEW t \in DOMAIN tasks, Delete(w, t)
  PROVE  /\ DOMAIN tasks' \subseteq DOMAIN tasks /\ IsFiniteSet(DOMAIN tasks')
         /\ tasks' \in [DOMAIN tasks' -> Row]
         /\ \A u \in DOMAIN tasks' : tasks'[u] = tasks[u]
<1>. DEFINE D == DOMAIN tasks \ Family(t)
<1>1. tasks' = [u \in D |-> tasks[u]]
  BY DEF Delete
<1>2. D \subseteq DOMAIN tasks
  OBVIOUS
<1>. HIDE DEF D
<1>. QED  BY <1>1, <1>2, FS_Subset DEF TypeOK

(* A step of the session loads the hints of its task. *)
LEMMA SessionStep ==
  ASSUME IInv,
         \/ \E t \in DOMAIN tasks \cup {NoTask} : StartSession(t)
         \/ EndSession \/ Update
  PROVE  IInv'
<1>. USE DEF IInv
<1>1. UNCHANGED <<tasks, born, work, raced>>
  BY DEF StartSession, EndSession, Update
<1>2. NoTask \notin DOMAIN tasks /\ \A t \in DOMAIN tasks : t \in Nat /\ tasks[t] \in Row
  BY DEF TypeOK, Id, NoTask
<1>3. /\ loaded' = HintsOf(session'.task) /\ session' \in [task : Nat, born : Nat]
      /\ session'.born <= born
  <2>1. ASSUME NEW t \in DOMAIN tasks \cup {NoTask}, StartSession(t)
        PROVE  /\ loaded' = HintsOf(session'.task) /\ session' \in [task : Nat, born : Nat]
               /\ session'.born <= born
    <3>1. t \in Nat /\ born \in Nat
      BY <1>2 DEF NoTask, TypeOK
    <3>2. t \in DOMAIN tasks => tasks[t].born \in Nat /\ tasks[t].born <= born
      BY <1>2 DEF Row, BornInv
    <3>. QED  BY <2>1, <3>1, <3>2 DEF StartSession
  <2>2. CASE EndSession
    BY <2>2 DEF EndSession, NoSession, NoTask, TypeOK
  <2>3. CASE Update
    BY <2>3 DEF Update, TypeOK, BornInv
  <2>. QED  BY <2>1, <2>2, <2>3
<1>4. HintsOf(session'.task) \subseteq Names
  BY <1>2 DEF HintsOf, Row
<1>5. TypeOK' /\ BornInv'
  BY <1>1, <1>3, <1>4 DEF TypeOK, BornInv
<1>6. HeldInv' /\ KnownOnce'
  BY <1>1, SameHeld DEF KnownOnce
<1>7. OwnHints'
  BY <1>1, <1>2, <1>3 DEF OwnHints, HintsOf, NoSession
<1>. QED  BY <1>5, <1>6, <1>7

(* A writer reads: it holds what the table makes of it. *)
LEMMA ReadStep ==
  ASSUME IInv, NEW w \in Writers, NEW held \in Work, Holds(w, held), Current(held),
         held.op = "add_hint" => Distinct(held.row),
         UNCHANGED <<tasks, born, session, loaded, raced>>
  PROVE  IInv'
<1>1. work' \in [Writers -> Work] /\ HeldInv'
  BY HoldsHeld DEF IInv
<1>2. TypeOK' /\ BornInv'
  BY <1>1 DEF IInv, TypeOK, BornInv
<1>3. KnownOnce' /\ OwnHints'
  BY DEF IInv, KnownOnce, OwnHints
<1>. QED  BY <1>1, <1>2, <1>3 DEF IInv

(* The reading half of every operation.                                      *)
LEMMA ReadSteps ==
  ASSUME IInv, NEW w \in Writers,
         \/ CreateReads(w)
         \/ \E t \in DOMAIN tasks, a, b \in DOMAIN tasks \cup {NoTask} : ReorderReads(w, t, a, b)
         \/ \E t \in DOMAIN tasks, name \in Names : AddHintReads(w, t, name)
         \/ w = Daemon /\ \E name \in Names : SuggestReads(name)
  PROVE  IInv'
<1>. USE DEF IInv
<1>1. \A t \in DOMAIN tasks : t \in Id /\ tasks[t] \in Row
  BY DEF TypeOK
<1>2. CASE CreateReads(w)
  <2>. DEFINE held == [op |-> "create", key |-> Top, stale |-> FALSE]
  <2>1. held \in Work
    BY TopIsFirst DEF Work, Creating
  <2>2. held.op = "create" /\ held.key = Top
    OBVIOUS
  <2>3. Holds(w, held) /\ UNCHANGED <<tasks, born, session, loaded, raced>>
    BY <1>2 DEF CreateReads
  <2>. HIDE DEF held, IInv
  <2>4. Current(held)
    BY <2>2 DEF Current
  <2>. QED  BY <2>1, <2>2, <2>3, <2>4, ReadStep
<1>3. ASSUME NEW t \in DOMAIN tasks, NEW a \in DOMAIN tasks \cup {NoTask},
             NEW b \in DOMAIN tasks \cup {NoTask}, ReorderReads(w, t, a, b)
      PROVE  IInv'
  <2>. DEFINE held == [op |-> "reorder", task |-> t, after |-> a, before |-> b,
                       key |-> NewKey(a, b), stale |-> FALSE]
  <2>1. {a, b} # {NoTask} /\ t # a /\ t # b
    BY <1>3, ThreeTasks DEF ReorderReads
  <2>2. NewKey(a, b) \in Int
    BY <2>1, NewKeyBetween
  <2>3. held \in Work
    BY <1>1, <2>2 DEF Work, Moving, Id, NoTask
  <2>4. /\ held.op = "reorder" /\ held.task = t /\ held.after = a /\ held.before = b
        /\ held.key = NewKey(a, b)
    OBVIOUS
  <2>5. Holds(w, held) /\ UNCHANGED <<tasks, born, session, loaded, raced>>
    BY <1>3 DEF ReorderReads, Edits
  <2>. HIDE DEF held, IInv
  <2>6. Current(held)
    BY <2>1, <2>4 DEF Current
  <2>. QED  BY <2>3, <2>4, <2>5, <2>6, ReadStep
<1>4. ASSUME NEW t \in DOMAIN tasks, NEW name \in Names, AddHintReads(w, t, name)
      PROVE  IInv'
  <2>. DEFINE row == Added(tasks[t], name)
              held == [op |-> "add_hint", task |-> t, row |-> row, stale |-> FALSE]
  <2>1. row \in Row /\ Distinct(row)
    BY <1>1, AddedIs, KnownOnceIs
  <2>2. held \in Work
    BY <1>1, <2>1 DEF Work, Hinting
  <2>3. held.op = "add_hint" /\ held.task = t /\ held.row = row
    OBVIOUS
  <2>4. Holds(w, held) /\ UNCHANGED <<tasks, born, session, loaded, raced>>
    BY <1>4 DEF AddHintReads, Reads, Edits
  <2>. HIDE DEF held, IInv
  <2>5. Current(held)
    BY <2>3 DEF Current
  <2>. QED  BY <2>1, <2>2, <2>3, <2>4, <2>5, ReadStep
<1>5. ASSUME NEW name \in Names, SuggestReads(name), w = Daemon
      PROVE  IInv'
  <2>. DEFINE t == session.task
              row == Suggested(tasks[t], name)
              held == [op |-> "suggest_hint", task |-> t, row |-> row, stale |-> FALSE]
  <2>1. t \in DOMAIN tasks /\ row \in Row
    BY <1>1, <1>5, SuggestedIs DEF SuggestReads
  <2>2. held \in Work
    BY <1>1, <2>1 DEF Work, Hinting
  <2>3. held.op = "suggest_hint" /\ held.task = t /\ held.row = row
    OBVIOUS
  <2>4. Holds(w, held) /\ UNCHANGED <<tasks, born, session, loaded, raced>>
    BY <1>5 DEF SuggestReads, Reads, Edits
  <2>. HIDE DEF held, IInv
  <2>5. Current(held)
    BY <2>1, <2>3 DEF Current
  <2>. QED  BY <2>2, <2>3, <2>4, <2>5, ReadStep
<1>. QED  BY <1>2, <1>3, <1>4, <1>5

(* The new row, over all others or under its parent.                         *)
LEMMA CreateStep ==
  ASSUME IInv, NEW w \in Writers, NEW hints \in SUBSET Names,
         NEW parent \in DOMAIN tasks \cup {NoTask}, CreateWrites(w, hints, parent)
  PROVE  IInv'
<1>. USE DEF IInv
<1>1. /\ DOMAIN tasks' = DOMAIN tasks \cup {NextId} /\ tasks' \in [DOMAIN tasks' -> Row]
      /\ IsFiniteSet(DOMAIN tasks') /\ DOMAIN tasks' \subseteq Id
      /\ \A t \in DOMAIN tasks : tasks'[t] = tasks[t]
      /\ tasks'[NextId].born = born + 1
      /\ tasks'[NextId].hints = hints /\ tasks'[NextId].given = hints
      /\ tasks'[NextId].offers = {}
  BY CreateIs
<1>2. /\ born' = born + 1 /\ work' = After(w) /\ UNCHANGED <<session, loaded>>
      /\ raced' \in BOOLEAN /\ (~raced' => ~raced)
  <2>1. work[w] # Idle /\ work[w].stale \in BOOLEAN
    BY HeldKinds DEF CreateWrites, Idle
  <2>. QED  BY <2>1 DEF CreateWrites, Races, TypeOK
<1>3. work' \in [Writers -> Work] /\ HeldInv'
  BY <1>2, AfterIs, AfterHeld
<1>4. TypeOK'
  BY <1>1, <1>2, <1>3 DEF TypeOK
<1>5. BornInv'
  <2>1. born \in Nat /\ session.born \in Nat /\ session.born <= born
    BY DEF TypeOK, BornInv
  <2>2. \A t \in DOMAIN tasks : tasks[t].born <= born /\ tasks[t].born \in Nat
    BY DEF TypeOK, BornInv, Row
  <2>. QED  BY <1>1, <1>2, <2>1, <2>2 DEF BornInv
<1>6. KnownOnce'
  BY <1>1, <1>2 DEF KnownOnce
<1>7. OwnHints'
  <2>1. session.born # born + 1
    BY DEF TypeOK, BornInv
  <2>. QED  BY <1>1, <1>2, <2>1 DEF OwnHints
<1>. QED  BY <1>3, <1>4, <1>5, <1>6, <1>7

(* A family is deleted.                                                      *)
LEMMA DeleteStep ==
  ASSUME IInv, NEW w \in Writers, NEW t \in DOMAIN tasks, Delete(w, t)
  PROVE  IInv'
<1>. USE DEF IInv
<1>1. /\ DOMAIN tasks' \subseteq DOMAIN tasks /\ IsFiniteSet(DOMAIN tasks')
      /\ tasks' \in [DOMAIN tasks' -> Row]
      /\ \A u \in DOMAIN tasks' : tasks'[u] = tasks[u]
  BY DeleteIs
<1>2. work' = After(w) /\ UNCHANGED <<born, session, loaded, raced>>
  BY DEF Delete
<1>3. work' \in [Writers -> Work] /\ HeldInv'
  BY <1>2, AfterIs, AfterHeld
<1>4. TypeOK' /\ BornInv'
  BY <1>1, <1>2, <1>3 DEF TypeOK, BornInv
<1>5. KnownOnce' /\ OwnHints'
  BY <1>1, <1>2 DEF KnownOnce, OwnHints
<1>. QED  BY <1>3, <1>4, <1>5

(* The new key of a moved task.                                              *)
LEMMA ReorderStep ==
  ASSUME IInv, NEW w \in Writers, ReorderWrites(w)
  PROVE  IInv'
<1>. USE DEF IInv
<1>1. /\ DOMAIN tasks' = DOMAIN tasks /\ tasks' \in [DOMAIN tasks -> Row]
      /\ \A u \in DOMAIN tasks :
           /\ tasks'[u].hints = tasks[u].hints /\ tasks'[u].offers = tasks[u].offers
           /\ tasks'[u].given = tasks[u].given
           /\ tasks'[u].born = tasks[u].born
  BY ReorderIs
<1>2. /\ work' = After(w) /\ UNCHANGED <<born, session, loaded>>
      /\ raced' \in BOOLEAN /\ (~raced' => ~raced)
  <2>1. work[w] # Idle /\ work[w].stale \in BOOLEAN
    BY HeldKinds DEF ReorderWrites, Idle
  <2>. QED  BY <2>1 DEF ReorderWrites, Races, TypeOK
<1>3. work' \in [Writers -> Work] /\ HeldInv'
  BY <1>2, AfterIs, AfterHeld
<1>4. TypeOK' /\ BornInv'
  BY <1>1, <1>2, <1>3 DEF TypeOK, BornInv
<1>5. KnownOnce' /\ OwnHints'
  BY <1>1, <1>2 DEF KnownOnce, OwnHints
<1>. QED  BY <1>3, <1>4, <1>5

(* The new hints of a task, and the copy that the daemon keeps.              *)
LEMMA HintStep ==
  ASSUME IInv, NEW w \in Writers, HintWrites(w)
  PROVE  IInv'
<1>. USE DEF IInv
<1>. DEFINE t == work[w].task
<1>1. /\ work' = After(w) /\ UNCHANGED <<born, session>>
      /\ raced' \in BOOLEAN /\ (~raced' => ~raced /\ ~work[w].stale)
  <2>1. work[w] # Idle /\ work[w].stale \in BOOLEAN
    BY HeldKinds DEF HintWrites, Idle
  <2>. QED  BY <2>1 DEF HintWrites, Races, TypeOK
<1>2. work' \in [Writers -> Work] /\ HeldInv'
  BY <1>1, AfterIs, AfterHeld
<1>3. CASE t \notin DOMAIN tasks
  <2>1. tasks' = tasks
    BY <1>3 DEF HintWrites
  <2>2. \/ loaded' = loaded
        \/ loaded' = IF session.task \in DOMAIN tasks THEN tasks[session.task].hints ELSE {}
    BY <2>1 DEF HintWrites
  <2>3. loaded' \subseteq Names
    BY <2>2 DEF TypeOK, Row
  <2>4. TypeOK' /\ BornInv' /\ KnownOnce'
    BY <1>1, <1>2, <2>1, <2>3 DEF TypeOK, BornInv, KnownOnce
  <2>5. OwnHints'
    <3>1. session = NoSession => session.task \notin DOMAIN tasks
      BY DEF TypeOK, Id, NoSession, NoTask
    <3>. QED  BY <1>1, <2>1, <2>2, <3>1 DEF OwnHints
  <2>. QED  BY <1>2, <2>4, <2>5
<1>4. CASE t \in DOMAIN tasks
  <2>1. /\ DOMAIN tasks' = DOMAIN tasks /\ tasks' \in [DOMAIN tasks -> Row]
        /\ \A u \in DOMAIN tasks : u # t => tasks'[u] = tasks[u]
        /\ tasks'[t].born = tasks[t].born
        /\ Distinct(tasks[t]) => Distinct(tasks'[t])
        /\ ~work[w].stale => tasks[t].hints \subseteq tasks'[t].hints
                              /\ (Apart(tasks[t]) => Apart(tasks'[t]))
    BY <1>4, HintIs
  <2>. HIDE DEF t
  <2>2. \/ loaded' = loaded
        \/ loaded' = IF session.task \in DOMAIN tasks THEN tasks'[session.task].hints ELSE {}
    BY <2>1 DEF HintWrites
  <2>3. loaded' \subseteq Names
    BY <2>1, <2>2 DEF TypeOK, Row
  <2>4. TypeOK'
    BY <1>1, <1>2, <2>1, <2>3 DEF TypeOK
  <2>5. BornInv'
    BY <1>1, <2>1 DEF BornInv
  <2>6. \A u \in DOMAIN tasks :
          /\ Distinct(tasks'[u])
          /\ ~raced' => tasks[u].hints \subseteq tasks'[u].hints /\ Apart(tasks'[u])
    <3>1. \A u \in DOMAIN tasks : Distinct(tasks[u]) /\ (raced \/ Apart(tasks[u]))
      BY KnownOnceIs
    <3>. QED  BY <1>1, <1>4, <2>1, <3>1
  <2>7. KnownOnce'
    BY <2>1, <2>6 DEF KnownOnce, Distinct, Apart
  <2>8. OwnHints'
    <3>1. session = NoSession => session.task \notin DOMAIN tasks
      BY DEF TypeOK, Id, NoSession, NoTask
    <3>2. \A u \in DOMAIN tasks : tasks'[u].born = tasks[u].born
      BY <2>1
    <3>. QED  BY <1>1, <2>1, <2>2, <2>6, <3>1, <3>2 DEF OwnHints
  <2>. QED  BY <1>2, <2>4, <2>5, <2>7, <2>8
<1>. QED  BY <1>3, <1>4

-----------------------------------------------------------------------------
(* The properties. *)

(* The rows, what writers hold of them, and the hints, in one invariant: a   *)
(* write is                                                                  *)
(* right because what it was computed from is still true, or known to be     *)
(* stale.                                                                    *)
THEOREM Inductive == Spec => []IInv
<1>1. Init => IInv
  <2>. SUFFICES ASSUME Init PROVE IInv
    OBVIOUS
  <2>1. DOMAIN tasks = {}
    BY DEF Init
  <2>2. TypeOK
    <3>1. tasks \in [DOMAIN tasks -> Row]
      BY <2>1 DEF Init
    <3>2. session \in [task : Nat, born : Nat] /\ work \in [Writers -> Work]
      BY DEF Init, NoSession, NoTask, Work
    <3>. QED  BY <2>1, <3>1, <3>2, FS_EmptySet DEF Init, TypeOK
  <2>3. BornInv /\ HeldInv /\ KnownOnce /\ OwnHints
    BY <2>1 DEF Init, BornInv, HeldInv, KnownOnce, OwnHints, NoSession
  <2>. QED  BY <2>2, <2>3 DEF IInv
<1>2. IInv /\ [Next]_vars => IInv'
  <2>. SUFFICES ASSUME IInv, [Next]_vars PROVE IInv'
    OBVIOUS
  <2>1. CASE DaemonStep
    BY <2>1, SessionStep, ReadSteps, TasksAssumption DEF DaemonStep
  <2>2. CASE Update
    BY <2>2, SessionStep
  <2>3. ASSUME NEW w \in Writers, WriterStep(w)
        PROVE  IInv'
    BY <2>3, ReadSteps, CreateStep, DeleteStep, ReorderStep, HintStep DEF WriterStep
  <2>4. CASE UNCHANGED vars
    <3>1. HeldInv'
      BY <2>4, SameHeld DEF vars, IInv
    <3>. QED  BY <2>4, <3>1 DEF vars, IInv, TypeOK, BornInv, KnownOnce, OwnHints
  <2>. QED  BY <2>1, <2>2, <2>3, <2>4 DEF Next
<1>. QED  BY <1>1, <1>2, PTL DEF Spec

(* A hint is added once, whatever its case, but next to one that was given     *)
(* with it when the task was created (src/izy/tasks.py, create, add_hint); and *)
(* a lower-case hint is not suggested again, except after two writers at one   *)
(* task (suggest_hint).                                                        *)
THEOREM HintsKnownOnce == Spec => []KnownOnce
<1>1. IInv => KnownOnce
  BY DEF IInv
<1>. QED  BY <1>1, Inductive, PTL

(* The classifier has the hints of the session's own task, or some of them;    *)
(* none without a session (src/izy/pipeline.py, _load_session_hints).          *)
THEOREM HintsAreOwn == Spec => []OwnHints
<1>1. IInv => OwnHints
  BY DEF IInv
<1>. QED  BY <1>1, Inductive, PTL

(* What a step of the table is, for the two properties of steps: nothing, one  *)
(* of the writes, or the deletion of a family.                                 *)
LEMMA TableSteps ==
  ASSUME IInv, Next
  PROVE  \/ /\ UNCHANGED <<tasks, born>>
            /\ \A v \in Writers : work[v] # Idle => work'[v] # Idle
         \/ \E w \in Writers, t \in DOMAIN tasks : Delete(w, t)
         \/ \E w \in Writers, hints \in SUBSET Names,
               parent \in DOMAIN tasks \cup {NoTask} : CreateWrites(w, hints, parent)
         \/ \E w \in Writers : ReorderWrites(w) \/ HintWrites(w)
<1>1. ASSUME NEW w \in Writers, NEW held, Holds(w, held), work[w] = Idle, NEW v \in Writers,
             work[v] # Idle
      PROVE  work'[v] # Idle
  BY <1>1 DEF Holds, IInv, TypeOK
<1>2. CASE DaemonStep
  <2>1. ASSUME NEW name \in Names, SuggestReads(name)
        PROVE  UNCHANGED <<tasks, born>> /\ \A v \in Writers : work[v] # Idle => work'[v] # Idle
    BY <1>1, <2>1, TasksAssumption DEF SuggestReads, Reads, Edits
  <2>2. ASSUME NEW t, NEW a, NEW b, ReorderReads(Daemon, t, a, b)
        PROVE  UNCHANGED <<tasks, born>> /\ \A v \in Writers : work[v] # Idle => work'[v] # Idle
    BY <1>1, <2>2, TasksAssumption DEF ReorderReads, Edits
  <2>3. ASSUME NEW t, StartSession(t) \/ EndSession
        PROVE  UNCHANGED <<tasks, born, work>>
    BY <2>3 DEF StartSession, EndSession
  <2>. QED  BY <1>2, <2>1, <2>2, <2>3 DEF DaemonStep
<1>3. CASE Update
  BY <1>3 DEF Update
<1>4. ASSUME NEW w \in Writers, WriterStep(w)
      PROVE  \/ /\ UNCHANGED <<tasks, born>>
                /\ \A v \in Writers : work[v] # Idle => work'[v] # Idle
             \/ \E t \in DOMAIN tasks : Delete(w, t)
             \/ \E hints \in SUBSET Names,
                   parent \in DOMAIN tasks \cup {NoTask} : CreateWrites(w, hints, parent)
             \/ ReorderWrites(w) \/ HintWrites(w)
  <2>1. ASSUME CreateReads(w)
        PROVE  UNCHANGED <<tasks, born>> /\ \A v \in Writers : work[v] # Idle => work'[v] # Idle
    BY <1>1, <2>1 DEF CreateReads
  <2>2. ASSUME NEW t, NEW name, AddHintReads(w, t, name)
        PROVE  UNCHANGED <<tasks, born>> /\ \A v \in Writers : work[v] # Idle => work'[v] # Idle
    BY <1>1, <2>2 DEF AddHintReads, Reads, Edits
  <2>. QED  BY <1>4, <2>1, <2>2 DEF WriterStep
<1>. QED  BY <1>2, <1>3, <1>4 DEF Next

(* Only its own write makes a writer idle.                                    *)
LEMMA OwnWrite ==
  ASSUME TypeOK, NEW w \in Writers, work' = After(w), NEW v \in Writers, work[v] # Idle,
         work'[v] = Idle
  PROVE  v = w
<1>1. ASSUME v # w
      PROVE  FALSE
  <2>1. work'[v] = [work[v] EXCEPT !.stale = TRUE]
    BY <1>1 DEF After
  <2>2. work[v] \in Creating \cup Moving \cup Hinting
    BY DEF TypeOK, Work
  <2>3. work'[v].op \in {"create", "reorder", "add_hint", "suggest_hint"}
    BY <2>1, <2>2 DEF Creating, Moving, Hinting
  <2>. QED  BY <2>3 DEF Idle
<1>. QED  BY <1>1

(* A hint, once accepted, stays, unless a write replaces what another writer  *)
(* has written meanwhile (src/izy/tasks.py, add_hint).                         *)
THEOREM HintsAreKept == Spec => HintsStay
<1>. DEFINE Kept == \A t \in DOMAIN tasks :
              t \in DOMAIN tasks' /\ tasks'[t].born = tasks[t].born /\ ~raced' =>
                tasks[t].hints \subseteq tasks'[t].hints
<1>1. IInv /\ [Next]_vars => [Kept]_vars
  <2>. SUFFICES ASSUME IInv, Next PROVE Kept
    OBVIOUS
  <2>. USE DEF IInv
  <2>1. CASE UNCHANGED tasks
    BY <2>1
  <2>2. ASSUME NEW w \in Writers, NEW t \in DOMAIN tasks, Delete(w, t)
        PROVE  Kept
    BY <2>2, DeleteIs
  <2>3. ASSUME NEW w \in Writers, NEW hints \in SUBSET Names,
               NEW parent \in DOMAIN tasks \cup {NoTask}, CreateWrites(w, hints, parent)
        PROVE  Kept
    <3>1. \A t \in DOMAIN tasks : tasks'[t] = tasks[t]
      BY <2>3, CreateIs
    <3>. QED  BY <3>1
  <2>4. ASSUME NEW w \in Writers, ReorderWrites(w)
        PROVE  Kept
    BY <2>4, ReorderIs
  <2>5. ASSUME NEW w \in Writers, HintWrites(w)
        PROVE  Kept
    <3>. DEFINE t == work[w].task
    <3>1. raced' = (raced \/ work[w].stale) /\ work[w].stale \in BOOLEAN
      BY <2>5, HeldKinds DEF HintWrites, Races, Idle
    <3>2. CASE t \notin DOMAIN tasks
      BY <2>5, <3>2 DEF HintWrites
    <3>3. CASE t \in DOMAIN tasks
      <4>1. /\ \A u \in DOMAIN tasks : u # t => tasks'[u] = tasks[u]
            /\ ~work[w].stale => tasks[t].hints \subseteq tasks'[t].hints
        BY <2>5, <3>3, HintIs
      <4>. HIDE DEF t
      <4>. QED  BY <3>1, <4>1
    <3>. QED  BY <3>2, <3>3
  <2>. HIDE DEF Kept, IInv
  <2>. QED  BY <2>1, <2>2, <2>3, <2>4, <2>5, TableSteps
<1>2. Spec => [][Kept]_vars
  BY <1>1, Inductive, PTL DEF Spec
<1>. QED  BY <1>2 DEF HintsStay

(* A task that is moved between two others lies between them if a float does,  *)
(* and a new one sorts before all others, unless another writer came between   *)
(* (src/izy/tasks.py, reorder, create).                                        *)
THEOREM TasksLand == Spec => LandsWhereAsked
<1>. DEFINE Moved(w) ==
              LET t == work[w].task  a == work[w].after  b == work[w].before
                  room == NoTask \in {a, b} \/ tasks[b].key - tasks[a].key >= 2
              IN  /\ a # NoTask /\ room => tasks'[a].key < tasks'[t].key
                  /\ b # NoTask /\ room => tasks'[t].key < tasks'[b].key
            First(t, u) ==
              born' > born /\ tasks'[t].born = born' => tasks'[t].key < tasks[u].key
            Land ==
              ~raced' =>
                /\ \A w \in Writers : work[w].op = "reorder" /\ work'[w] = Idle => Moved(w)
                /\ \A t \in DOMAIN tasks', u \in DOMAIN tasks : First(t, u)
<1>1. IInv /\ Next => Land
  <2>. SUFFICES ASSUME IInv, Next, ~raced' PROVE Land
    OBVIOUS
  <2>. USE DEF IInv
  <2>1. \A w \in Writers : work[w].op = "reorder" => work[w] # Idle
    BY DEF Idle
  <2>2. born \in Nat
    BY DEF TypeOK
  <2>3. ASSUME UNCHANGED born
        PROVE  \A t \in DOMAIN tasks', u \in DOMAIN tasks : First(t, u)
    BY <2>2, <2>3
  <2>4. ASSUME NEW w \in Writers, work' = After(w), work[w].op # "reorder"
        PROVE  \A v \in Writers : work[v].op = "reorder" => work'[v] # Idle
    BY <2>1, <2>4, OwnWrite
  <2>5. CASE UNCHANGED <<tasks, born>> /\ \A v \in Writers : work[v] # Idle => work'[v] # Idle
    BY <2>1, <2>3, <2>5
  <2>6. ASSUME NEW w \in Writers, NEW t \in DOMAIN tasks, Delete(w, t)
        PROVE  Land
    <3>1. work' = After(w) /\ born' = born /\ work[w].op # "reorder"
      BY <2>6 DEF Delete, Idle
    <3>. QED  BY <2>3, <2>4, <3>1
  <2>7. ASSUME NEW w \in Writers, NEW hints \in SUBSET Names,
               NEW parent \in DOMAIN tasks \cup {NoTask}, CreateWrites(w, hints, parent)
        PROVE  Land
    <3>1. work' = After(w) /\ born' = born + 1 /\ work[w].op = "create" /\ work[w] # Idle
          /\ ~work[w].stale
      BY <2>7, HeldKinds DEF CreateWrites, Races, Idle
    <3>2. work[w].key = Top
      BY <3>1 DEF HeldInv, Current
    <3>3. /\ DOMAIN tasks' = DOMAIN tasks \cup {NextId}
          /\ \A t \in DOMAIN tasks : tasks'[t] = tasks[t]
          /\ tasks'[NextId].key = Top
      BY <2>7, <3>2, CreateIs
    <3>4. \A t \in DOMAIN tasks : tasks[t].born # born + 1
      BY <2>2 DEF BornInv, TypeOK, Row
    <3>5. ASSUME NEW t \in DOMAIN tasks', NEW u \in DOMAIN tasks, tasks'[t].born = born'
          PROVE  tasks'[t].key < tasks[u].key
      <4>1. t = NextId
        BY <3>1, <3>3, <3>4, <3>5
      <4>. QED  BY <3>3, <4>1, TopIsFirst
    <3>. QED  BY <2>4, <3>1, <3>5
  <2>8. ASSUME NEW w \in Writers, HintWrites(w)
        PROVE  Land
    <3>1. work' = After(w) /\ born' = born /\ work[w].op # "reorder"
      BY <2>8 DEF HintWrites
    <3>. QED  BY <2>3, <2>4, <3>1
  <2>9. ASSUME NEW w \in Writers, ReorderWrites(w)
        PROVE  Land
    <3>. DEFINE t == work[w].task
                a == work[w].after
                b == work[w].before
    <3>1. work' = After(w) /\ born' = born /\ work[w] # Idle /\ ~work[w].stale
      BY <2>9, HeldKinds DEF ReorderWrites, Races, Idle
    <3>2. /\ {a, b} # {NoTask} /\ t \in DOMAIN tasks /\ t # a /\ t # b
          /\ a \in DOMAIN tasks \cup {NoTask} /\ b \in DOMAIN tasks \cup {NoTask}
          /\ work[w].key = NewKey(a, b)
      BY <2>9, <3>1 DEF HeldInv, Current, ReorderWrites
    <3>3. \A u \in DOMAIN tasks : tasks'[u].key = IF u = t THEN work[w].key ELSE tasks[u].key
      BY <2>9, ReorderIs
    <3>4. Moved(w)
      <4>. HIDE DEF t, a, b
      <4>1. NoTask \in {a, b} \/ tasks[b].key - tasks[a].key >= 2 =>
              /\ a # NoTask => tasks[a].key < NewKey(a, b)
              /\ b # NoTask => NewKey(a, b) < tasks[b].key
        BY <3>2, NewKeyBetween
      <4>2. /\ tasks'[t].key = NewKey(a, b)
            /\ a # NoTask => tasks'[a].key = tasks[a].key
            /\ b # NoTask => tasks'[b].key = tasks[b].key
        BY <3>2, <3>3
      <4>. QED  BY <4>1, <4>2 DEF t, a, b
    <3>5. \A v \in Writers : work[v].op = "reorder" /\ work'[v] = Idle => v = w
      BY <2>1, <3>1, OwnWrite
    <3>. HIDE DEF Moved
    <3>. QED  BY <2>3, <3>1, <3>4, <3>5
  <2>. HIDE DEF Land, IInv
  <2>. QED  BY <2>5, <2>6, <2>7, <2>8, <2>9, TableSteps
<1>2. Spec => [][Land]_vars
  BY <1>1, Inductive, PTL DEF Spec
<1>. QED  BY <1>2 DEF LandsWhereAsked
=============================================================================
