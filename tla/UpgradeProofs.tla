---------------------------- MODULE UpgradeProofs ----------------------------
(***************************************************************************)
(* Proofs about what a new version does to the two things that are on disk: *)
(* the migrations of the database, for any number of processes, sessions,   *)
(* crashes and openings, and a file of any version; and the upgrade of the  *)
(* configuration, for defaults and a file of any length, and any number of  *)
(* edits and of upgrades cut short.                                         *)
(***************************************************************************)
EXTENDS Migrations, ConfigUpgrade, SequenceTheorems, FiniteSetTheorems, WellFoundedInduction, TLAPS

Statements ==
  {"interrupt_log", "task", "add_column", "create_rebuild", "copy", "drop", "rename", "version"}
Table == [shape : {"none", "v2", "v4", "v5"}, rows : SUBSET Nat]
Process == [pc : {"closed", "migrating", "open", "raised"}, todo : Seq(Statements), torn : BOOLEAN]

(* The statements that a file of the baseline has still to run, by how many   *)
(* are left: every list of them is the end of one.                            *)
Left(n) ==
  CASE n = 8 -> "interrupt_log"
    [] n = 7 -> "task"
    [] n = 6 -> "add_column"
    [] n = 5 -> "create_rebuild"
    [] n = 4 -> "copy"
    [] n = 3 -> "drop"
    [] n = 2 -> "rename"
    [] n = 1 -> "version"

IsEnd(todo) ==
  /\ todo \in Seq(Statements) /\ Len(todo) <= 8
  /\ \A i \in 1..Len(todo) : todo[i] = Left(Len(todo) + 1 - i)

TypeOK ==
  /\ sessions \in Table /\ rebuild \in Table
  /\ tables \subseteq {"interrupt_log", "task"} /\ version \in {0, 2, 3, 4, 5}
  /\ procs \in [Procs -> Process] /\ overlapped \in BOOLEAN
  /\ inserted \subseteq Nat /\ IsFiniteSet(inserted)

(* How many statements p has still to run.                                    *)
ToRun(p) == Len(procs[p].todo)

(* A process that migrates has some of the statements left, and the tables    *)
(* that the others bring are there.                                           *)
Brought(p) ==
  /\ IsEnd(procs[p].todo) /\ procs[p].todo # <<>>
  /\ ToRun(p) <= 7 => "interrupt_log" \in tables
  /\ ToRun(p) <= 6 => "task" \in tables

(* What holds whether or not two processes met: rows are in a table that is   *)
(* there, the copy is of version 5, and a table is there from the version on  *)
(* that brings it.                                                            *)
FileInv ==
  /\ sessions.shape = "none" => sessions = NoTable
  /\ rebuild = NoTable \/ rebuild.shape = "v5"
  /\ version >= 3 => "interrupt_log" \in tables
  /\ version >= 4 => "task" \in tables
  /\ \A p \in Migrating : Brought(p)

(* What the one process that migrates has done to the file: the rows it has   *)
(* copied before it drops them, and the shape before the version is written.  *)
Done(p) ==
  /\ ToRun(p) \in {2, 3} => inserted \subseteq rebuild.rows
  /\ ToRun(p) = 1 => sessions.shape = "v5" /\ rebuild = NoTable
  /\ version = 5 => ToRun(p) = 1

(* And the file it finds, if it opened one that nothing had been cut short in. *)
Whole(p) ==
  /\ ToRun(p) \in {6, 7, 8} => sessions.shape = "v2" /\ rebuild = NoTable
  /\ ToRun(p) = 5 => sessions.shape = "v4" /\ rebuild = NoTable
  /\ ToRun(p) = 4 => sessions.shape = "v4" /\ rebuild # NoTable /\ rebuild.rows = {}
  /\ ToRun(p) = 3 => sessions # NoTable /\ rebuild # NoTable
  /\ ToRun(p) = 2 => sessions = NoTable /\ rebuild # NoTable

(* While no two processes have met.                                           *)
AloneInv ==
  ~ overlapped =>
    /\ inserted \subseteq sessions.rows \cup rebuild.rows
    /\ version = 5 => sessions.shape = "v5" /\ rebuild = NoTable
    /\ \A p \in Procs : procs[p].pc = "open" => version = 5
    /\ \A p \in Migrating : Done(p) /\ (~ procs[p].torn => Whole(p))
    /\ \A p \in Procs : procs[p].pc = "raised" => procs[p].torn

IInv == TypeOK /\ FileInv /\ AloneInv

-----------------------------------------------------------------------------
(* The list, by how many statements are left.                                 *)
LEMMA LeftIs ==
  /\ Left(8) = "interrupt_log" /\ Left(7) = "task" /\ Left(6) = "add_column"
  /\ Left(5) = "create_rebuild" /\ Left(4) = "copy" /\ Left(3) = "drop"
  /\ Left(2) = "rename" /\ Left(1) = "version"
BY DEF Left

(* Statements before an end of the list, if they are the ones before it.      *)
LEMMA EndGrows ==
  ASSUME NEW s \in Seq(Statements), NEW t, IsEnd(t), NEW k \in Nat, NEW n \in Nat,
         Len(s) = k, Len(t) = n, k + n <= 8,
         \A i \in 1..k : s[i] = Left(k + n + 1 - i)
  PROVE  IsEnd(s \o t) /\ Len(s \o t) = k + n
<1>1. t \in Seq(Statements)
  BY DEF IsEnd
<1>2. /\ s \o t \in Seq(Statements) /\ Len(s \o t) = k + n
      /\ \A i \in 1..k + n : (s \o t)[i] = IF i <= k THEN s[i] ELSE t[i - k]
  BY <1>1, ConcatProperties
<1>3. ASSUME NEW i \in 1..k + n
      PROVE  (s \o t)[i] = Left(k + n + 1 - i)
  <2>1. CASE i <= k
    BY <1>2, <2>1
  <2>2. CASE ~ (i <= k)
    <3>1. i - k \in 1..n /\ n + 1 - (i - k) = k + n + 1 - i
      BY <2>2
    <3>2. t[i - k] = Left(n + 1 - (i - k))
      BY <3>1 DEF IsEnd
    <3>. QED  BY <1>2, <2>2, <3>1, <3>2
  <2>. QED  BY <2>1, <2>2
<1>. QED  BY <1>2, <1>3 DEF IsEnd

(* The lists of the migrations may be joined in either order.                 *)
LEMMA Associative ==
  ASSUME NEW s \in Seq(Statements), NEW t \in Seq(Statements), NEW u \in Seq(Statements)
  PROVE  (s \o t) \o u = s \o (t \o u)
BY ConcatAssociative, SMTT(60)

(* The statements above a baseline are the end of the list.                   *)
LEMMA PendingIs ==
  ASSUME NEW b \in {2, 3, 4, 5}
  PROVE  /\ IsEnd(Pending(b))
         /\ b = 2 => Len(Pending(b)) = 8
         /\ b = 3 => Len(Pending(b)) = 7
         /\ b = 4 => Len(Pending(b)) = 5
         /\ b = 5 => Len(Pending(b)) = 1
<1>. DEFINE to3 == <<"interrupt_log">>
            to4 == <<"task", "add_column">>
            to5 == <<"create_rebuild", "copy", "drop", "rename">>
            end == <<"version">>
            end5 == to5 \o end
            end4 == to4 \o end5
            end3 == to3 \o end4
<1>1. to3 \in Seq(Statements) /\ Len(to3) = 1 /\ \A i \in 1..1 : to3[i] = Left(1 + 7 + 1 - i)
  BY LeftIs DEF Statements
<1>2. to4 \in Seq(Statements) /\ Len(to4) = 2 /\ \A i \in 1..2 : to4[i] = Left(2 + 5 + 1 - i)
  BY LeftIs DEF Statements
<1>3. to5 \in Seq(Statements) /\ Len(to5) = 4 /\ \A i \in 1..4 : to5[i] = Left(4 + 1 + 1 - i)
  BY LeftIs DEF Statements
<1>4. end \in Seq(Statements) /\ Len(end) = 1 /\ \A i \in 1..1 : end[i] = Left(1 + 1 - i)
  BY LeftIs DEF Statements
<1>5. /\ Above(b, 3) = IF b = 2 THEN to3 ELSE <<>>
      /\ Above(b, 4) = IF b \in {2, 3} THEN to4 ELSE <<>>
      /\ Above(b, 5) = IF b \in {2, 3, 4} THEN to5 ELSE <<>>
  BY DEF Above, MIGRATIONS
<1>6. Pending(b) = ((Above(b, 3) \o Above(b, 4)) \o Above(b, 5)) \o end
  BY DEF Pending
<1>. HIDE DEF to3, to4, to5, end
<1>7. IsEnd(end) /\ Len(end) = 1
  BY <1>4 DEF IsEnd
<1>8. IsEnd(end5) /\ Len(end5) = 5
  <2>1. 4 \in Nat /\ 1 \in Nat /\ 4 + 1 <= 8
    OBVIOUS
  <2>2. IsEnd(end5) /\ Len(end5) = 4 + 1
    BY <1>3, <1>7, <2>1, EndGrows, ZenonT(60)
  <2>3. 4 + 1 = 5
    OBVIOUS
  <2>. QED  BY <2>2, <2>3, Zenon
<1>. HIDE DEF end5
<1>9. IsEnd(end4) /\ Len(end4) = 7
  <2>1. 2 \in Nat /\ 5 \in Nat /\ 2 + 5 <= 8
    OBVIOUS
  <2>2. IsEnd(end4) /\ Len(end4) = 2 + 5
    BY <1>2, <1>8, <2>1, EndGrows, ZenonT(60)
  <2>3. 2 + 5 = 7
    OBVIOUS
  <2>. QED  BY <2>2, <2>3, Zenon
<1>. HIDE DEF end4
<1>10. IsEnd(end3) /\ Len(end3) = 8
  <2>1. 1 \in Nat /\ 7 \in Nat /\ 1 + 7 <= 8
    OBVIOUS
  <2>2. IsEnd(end3) /\ Len(end3) = 1 + 7
    BY <1>1, <1>9, <2>1, EndGrows, ZenonT(60)
  <2>3. 1 + 7 = 8
    OBVIOUS
  <2>. QED  BY <2>2, <2>3, Zenon
<1>. HIDE DEF end3
<1>11. /\ to3 \in Seq(Statements) /\ to4 \in Seq(Statements) /\ to5 \in Seq(Statements)
       /\ end \in Seq(Statements) /\ <<>> \in Seq(Statements)
  BY <1>1, <1>2, <1>3, <1>4
<1>12. CASE b = 2
  <2>0. Above(b, 3) = to3 /\ Above(b, 4) = to4 /\ Above(b, 5) = to5
    BY <1>5, <1>12
  <2>1. Pending(b) = ((to3 \o to4) \o to5) \o end
    BY <1>6, <2>0, Zenon
  <2>2. to3 \o to4 \in Seq(Statements) /\ to5 \o end \in Seq(Statements)
    BY <1>11, ConcatProperties
  <2>3. Pending(b) = (to3 \o to4) \o (to5 \o end)
    <3>1. PICK first \in Seq(Statements) : first = to3 \o to4
      BY <2>2, Zenon
    <3>2. (first \o to5) \o end = first \o (to5 \o end)
      BY <1>11, Associative, SMTT(60)
    <3>. QED  BY <2>1, <3>1, <3>2, Zenon
  <2>4. PICK last \in Seq(Statements) : last = to5 \o end
    BY <2>2, Zenon
  <2>5. (to3 \o to4) \o last = to3 \o (to4 \o last)
    BY <1>11, Associative, SMTT(60)
  <2>6. IsEnd(Pending(b)) /\ Len(Pending(b)) = 8
    BY <1>10, <2>3, <2>4, <2>5, Zenon DEF end3, end4, end5
  <2>. QED  BY <1>12, <2>6
<1>13. CASE b = 3
  <2>0. Above(b, 3) = <<>> /\ Above(b, 4) = to4 /\ Above(b, 5) = to5
    BY <1>5, <1>13
  <2>1. Pending(b) = ((<<>> \o to4) \o to5) \o end
    BY <1>6, <2>0, Zenon
  <2>2. <<>> \o to4 = to4
    BY <1>11, ConcatEmptySeq
  <2>3. Pending(b) = to4 \o (to5 \o end)
    <3>1. (to4 \o to5) \o end = to4 \o (to5 \o end)
      BY <1>11, Associative, SMTT(60)
    <3>. QED  BY <2>1, <2>2, <3>1, Zenon
  <2>4. IsEnd(Pending(b)) /\ Len(Pending(b)) = 7
    BY <1>9, <2>3, Zenon DEF end4, end5
  <2>. QED  BY <1>13, <2>4
<1>14. CASE b = 4
  <2>0. Above(b, 3) = <<>> /\ Above(b, 4) = <<>> /\ Above(b, 5) = to5
    BY <1>5, <1>14
  <2>1. Pending(b) = ((<<>> \o <<>>) \o to5) \o end
    BY <1>6, <2>0, Zenon
  <2>2. <<>> \o <<>> = <<>> /\ <<>> \o to5 = to5
    BY <1>11, ConcatEmptySeq
  <2>3. IsEnd(Pending(b)) /\ Len(Pending(b)) = 5
    BY <1>8, <2>1, <2>2, Zenon DEF end5
  <2>. QED  BY <1>14, <2>3
<1>15. CASE b = 5
  <2>0. Above(b, 3) = <<>> /\ Above(b, 4) = <<>> /\ Above(b, 5) = <<>>
    BY <1>5, <1>15
  <2>1. Pending(b) = ((<<>> \o <<>>) \o <<>>) \o end
    BY <1>6, <2>0, Zenon
  <2>2. <<>> \o <<>> = <<>> /\ <<>> \o end = end
    BY <1>11, ConcatEmptySeq
  <2>3. IsEnd(Pending(b)) /\ Len(Pending(b)) = 1
    BY <1>7, <2>1, <2>2, Zenon
  <2>. QED  BY <1>15, <2>3
<1>. QED  BY <1>12, <1>13, <1>14, <1>15

(* The next statement, and what is left after it.                             *)
LEMMA NextIs ==
  ASSUME NEW todo, IsEnd(todo), todo # <<>>
  PROVE  LET n == Len(todo)
         IN /\ n \in 1..8 /\ Head(todo) = Left(n)
            /\ IsEnd(Tail(todo)) /\ Len(Tail(todo)) = n - 1
            /\ Tail(todo) = <<>> <=> n = 1
<1>1. todo \in Seq(Statements) /\ Len(todo) <= 8
  BY DEF IsEnd
<1>2. Len(todo) \in 1..8
  <2>1. PICK n : n = Len(todo)
    OBVIOUS
  <2>2. n \in Nat \ {0}
    BY <1>1, <2>1, EmptySeq
  <2>3. n <= 8
    BY <1>1, <2>1
  <2>4. n \in 1..8
    BY <2>2, <2>3
  <2>. QED  BY <2>1, <2>4, Zenon
<1>3. Head(todo) = Left(Len(todo))
  <2>1. Head(todo) = todo[1]
    BY <1>1
  <2>. QED  BY <1>2, <2>1 DEF IsEnd
<1>4. /\ Tail(todo) \in Seq(Statements) /\ Len(Tail(todo)) = Len(todo) - 1
      /\ \A i \in 1..Len(Tail(todo)) : Tail(todo)[i] = todo[i + 1]
  BY <1>1, HeadTailProperties
<1>5. IsEnd(Tail(todo))
  <2>1. ASSUME NEW i \in 1..Len(Tail(todo))
        PROVE  Tail(todo)[i] = Left(Len(Tail(todo)) + 1 - i)
    <3>1. PICK n \in 1..8 : n = Len(todo) /\ Len(Tail(todo)) = n - 1
      BY <1>2, <1>4
    <3>2. i + 1 \in 1..n /\ n + 1 - (i + 1) = n - 1 + 1 - i
      BY <3>1
    <3>3. Tail(todo)[i] = Left(n + 1 - (i + 1))
      BY <1>4, <3>1, <3>2 DEF IsEnd
    <3>. QED  BY <3>1, <3>2, <3>3
  <2>. QED  BY <1>2, <1>4, <2>1 DEF IsEnd
<1>6. Tail(todo) = <<>> <=> Len(todo) = 1
  BY <1>2, <1>4, EmptySeq
<1>. QED  BY <1>2, <1>3, <1>4, <1>5, <1>6

-----------------------------------------------------------------------------
(* A step of p while nobody else migrates, unless it overlaps.                *)
LEMMA Alone ==
  ASSUME TypeOK, NEW p \in Procs, Overlaps(p)
  PROVE  /\ overlapped' \in BOOLEAN
         /\ ~ overlapped' => ~ overlapped /\ \A q \in Migrating : q = p
<1>1. overlapped' = (overlapped \/ Migrating \ {p} # {}) /\ overlapped \in BOOLEAN
  BY DEF Overlaps, TypeOK
<1>. QED  BY <1>1

(* Where a process stands after a step of its own; the others stay.           *)
LEMMA Moved ==
  ASSUME TypeOK, NEW p \in Procs, NEW to \in Process, procs' = [procs EXCEPT ![p] = to]
  PROVE  /\ procs' \in [Procs -> Process]
         /\ procs'[p] = to /\ \A q \in Procs : q # p => procs'[q] = procs[q]
         /\ \A q \in Migrating' : q = p \/ (q # p /\ q \in Migrating)
         /\ p \in Migrating' => to.pc = "migrating"
<1>1. procs \in [Procs -> Process]
  BY DEF TypeOK
<1>2. /\ procs' \in [Procs -> Process]
      /\ procs'[p] = to /\ \A q \in Procs : q # p => procs'[q] = procs[q]
  BY <1>1
<1>. QED  BY <1>2 DEF Migrating

(* A new file, or one of an earlier version.                                  *)
LEMMA InitInv == Init => IInv
<1>. SUFFICES ASSUME Init PROVE IInv
  OBVIOUS
<1>1. /\ version \in {0, 2, 3, 4, 5} /\ sessions.shape = ShapeAt(version)
      /\ sessions = [shape |-> ShapeAt(version), rows |-> IF version = 0 THEN {} ELSE Kept]
      /\ rebuild = NoTable /\ inserted = sessions.rows /\ overlapped = FALSE
      /\ procs = [p \in Procs |-> Closed]
      /\ tables = (IF version >= 3 THEN {"interrupt_log"} ELSE {})
                  \cup (IF version >= 4 THEN {"task"} ELSE {})
  BY DEF Init
<1>2. /\ ShapeAt(version) \in {"none", "v2", "v4", "v5"}
      /\ version = 5 => ShapeAt(version) = "v5"
  BY <1>1 DEF ShapeAt
<1>3. Kept \subseteq Nat /\ IsFiniteSet(Kept)
  <2>1. MaxRows \in Nat /\ Kept \subseteq 1..MaxRows
    BY MigrationsAssumption
  <2>2. IsFiniteSet(1..MaxRows)
    BY <2>1, FS_Interval
  <2>3. Kept \subseteq Nat
    BY <2>1
  <2>4. IsFiniteSet(Kept)
    BY <2>1, <2>2, FS_Subset, Zenon
  <2>. QED  BY <2>3, <2>4
<1>4. /\ (IF version = 0 THEN {} ELSE Kept) \subseteq Nat
      /\ IsFiniteSet(IF version = 0 THEN {} ELSE Kept)
  BY <1>3, FS_EmptySet
<1>5. Closed \in Process
  BY EmptySeq DEF Closed, Process
<1>6. Migrating = {} /\ \A p \in Procs : procs[p].pc = "closed"
  BY <1>1 DEF Migrating, Closed
<1>7. TypeOK
  <2>1. sessions \in Table /\ rebuild \in Table /\ inserted \subseteq Nat /\ IsFiniteSet(inserted)
    BY <1>1, <1>2, <1>4 DEF Table, NoTable
  <2>2. procs \in [Procs -> Process]
    BY <1>1, <1>5
  <2>. QED  BY <1>1, <2>1, <2>2 DEF TypeOK
<1>8. FileInv
  <2>1. sessions.shape = "none" => sessions = NoTable
    BY <1>1 DEF ShapeAt, NoTable
  <2>. QED  BY <1>1, <1>6, <2>1 DEF FileInv
<1>9. AloneInv
  BY <1>1, <1>2, <1>6 DEF AloneInv
<1>. QED  BY <1>7, <1>8, <1>9 DEF IInv

(* connect.                                                                   *)
LEMMA OpenInv ==
  ASSUME IInv, NEW p \in Procs, Open(p)
  PROVE  IInv'
<1>. DEFINE b == IF version = 0 THEN 2 ELSE version
            to == [pc |-> "migrating", todo |-> Pending(b), torn |-> Torn]
            made == IF sessions = NoTable THEN [shape |-> "v2", rows |-> {}] ELSE sessions
<1>1. /\ TypeOK /\ version \in {0, 2, 3, 4, 5} /\ sessions \in Table
      /\ procs' = [procs EXCEPT ![p] = to] /\ sessions' = made /\ Overlaps(p)
      /\ UNCHANGED <<rebuild, tables, version, inserted>> /\ procs[p] = Closed
  BY DEF IInv, TypeOK, Open
<1>2. b \in {2, 3, 4, 5}
  BY <1>1
<1>3. /\ IsEnd(Pending(b))
      /\ b = 2 => Len(Pending(b)) = 8
      /\ b = 3 => Len(Pending(b)) = 7
      /\ b = 4 => Len(Pending(b)) = 5
      /\ b = 5 => Len(Pending(b)) = 1
  BY <1>2, PendingIs
<1>. HIDE DEF b
<1>4. to \in Process
  <2>1. Torn \in BOOLEAN
    BY DEF Torn
  <2>. QED  BY <1>3, <2>1 DEF Process, IsEnd
<1>5. /\ to.pc = "migrating" /\ to.todo = Pending(b) /\ to.torn = Torn
      /\ Pending(b) # <<>>
  <2>1. Pending(b) # <<>>
    <3>1. 8 # 0 /\ 7 # 0 /\ 5 # 0 /\ 1 # 0
      OBVIOUS
    <3>2. Len(Pending(b)) # 0
      BY <1>2, <1>3, <3>1, Zenon
    <3>. QED  BY <3>2, EmptySeq
  <2>2. to.pc = "migrating" /\ to.todo = Pending(b) /\ to.torn = Torn
    OBVIOUS
  <2>. HIDE DEF to
  <2>. QED  BY <2>1, <2>2
<1>. HIDE DEF to
<1>6. /\ procs' \in [Procs -> Process]
      /\ procs'[p] = to /\ \A q \in Procs : q # p => procs'[q] = procs[q]
      /\ \A q \in Migrating' : q = p \/ (q # p /\ q \in Migrating)
  BY <1>1, <1>4, Moved
<1>7. /\ overlapped' \in BOOLEAN
      /\ ~ overlapped' => ~ overlapped /\ \A q \in Migrating : q = p
  BY <1>1, Alone
<1>8. /\ sessions' \in Table /\ sessions'.rows = sessions.rows
      /\ sessions.shape # "none" => sessions' = sessions
      /\ sessions'.shape # "none"
      /\ sessions.shape = "none" => sessions'.shape = "v2"
  BY <1>1 DEF Table, NoTable, FileInv, IInv
<1>9. TypeOK'
  BY <1>1, <1>6, <1>7, <1>8 DEF TypeOK
<1>10. PICK n : n = Len(Pending(b))
  OBVIOUS
<1>11. /\ n \in {1, 5, 7, 8} /\ version' = version
       /\ n = 7 <=> version = 3
       /\ n = 5 <=> version = 4
       /\ n = 1 <=> version = 5
  <2>1. /\ b = 2 => n = 8
        /\ b = 3 => n = 7
        /\ b = 4 => n = 5
        /\ b = 5 => n = 1
    BY <1>3, <1>10, Zenon
  <2>. QED  BY <1>1, <2>1 DEF b
<1>12. ToRun(p)' = n
  BY <1>5, <1>6, <1>10 DEF ToRun
<1>13. FileInv'
  <2>1. /\ version >= 3 => "interrupt_log" \in tables
        /\ version >= 4 => "task" \in tables
        /\ \A q \in Migrating : Brought(q)
    BY DEF FileInv, IInv
  <2>2. Brought(p)'
    <3>1. n <= 7 => version >= 3
      BY <1>11
    <3>2. n <= 6 => version >= 4
      BY <1>11
    <3>3. IsEnd(procs'[p].todo) /\ procs'[p].todo # <<>>
      BY <1>3, <1>5, <1>6
    <3>. QED  BY <1>1, <1>12, <2>1, <3>1, <3>2, <3>3 DEF Brought
  <2>3. ASSUME NEW q \in Migrating', q # p
        PROVE  Brought(q)'
    <3>1. q \in Migrating /\ procs'[q] = procs[q] /\ tables' = tables
      BY <1>1, <1>6, <2>3 DEF Migrating
    <3>. QED  BY <2>1, <3>1 DEF Brought, ToRun
  <2>. QED  BY <1>1, <1>8, <2>1, <2>2, <2>3 DEF FileInv, IInv
<1>14. ASSUME ~ overlapped'
       PROVE  /\ inserted' \subseteq sessions'.rows \cup rebuild'.rows
              /\ version' = 5 => sessions'.shape = "v5" /\ rebuild' = NoTable
              /\ \A q \in Procs : procs'[q].pc = "open" => version' = 5
              /\ \A q \in Migrating' : Done(q)' /\ (~ procs'[q].torn => Whole(q)')
              /\ \A q \in Procs : procs'[q].pc = "raised" => procs'[q].torn
  <2>1. /\ inserted \subseteq sessions.rows \cup rebuild.rows
        /\ version = 5 => sessions.shape = "v5" /\ rebuild = NoTable
        /\ \A q \in Procs : procs[q].pc = "open" => version = 5
        /\ \A q \in Procs : procs[q].pc = "raised" => procs[q].torn
        /\ \A q \in Migrating : q = p
    BY <1>7, <1>14 DEF AloneInv, IInv
  <2>2. inserted' \subseteq sessions'.rows \cup rebuild'.rows
    BY <1>1, <1>8, <2>1
  <2>3. version' = 5 => sessions'.shape = "v5" /\ rebuild' = NoTable
    BY <1>1, <1>8, <2>1
  <2>4. ASSUME NEW q \in Procs
        PROVE  /\ procs'[q].pc = "open" => version' = 5
               /\ procs'[q].pc = "raised" => procs'[q].torn
    BY <1>1, <1>5, <1>6, <2>1
  <2>7. Done(p)'
    BY <1>1, <1>11, <1>12, <2>3 DEF Done
  <2>8. ASSUME ~ procs'[p].torn
        PROVE  Whole(p)'
    <3>1. /\ rebuild = NoTable
          /\ version # 0 => sessions.shape = ShapeAt(version)
          /\ version = 0 => sessions.shape \in {"none", "v2"}
      BY <1>5, <1>6, <2>8 DEF Torn
    <3>2. /\ version \in {2, 3} => sessions.shape = "v2"
          /\ version = 4 => sessions.shape = "v4"
      BY <3>1 DEF ShapeAt
    <3>3. CASE version \in {0, 2, 3}
      <4>1. sessions'.shape = "v2"
        BY <1>8, <3>1, <3>2, <3>3
      <4>2. n \in {7, 8}
        BY <1>11, <3>3
      <4>. QED  BY <1>1, <1>12, <3>1, <4>1, <4>2 DEF Whole
    <3>4. CASE version = 4
      <4>1. n = 5 /\ sessions'.shape = "v4"
        BY <1>8, <1>11, <3>2, <3>4
      <4>. QED  BY <1>1, <1>12, <3>1, <4>1 DEF Whole
    <3>5. CASE version = 5
      BY <1>11, <1>12, <3>5 DEF Whole
    <3>. QED  BY <1>1, <3>3, <3>4, <3>5
  <2>. QED  BY <1>6, <2>1, <2>2, <2>3, <2>4, <2>7, <2>8
<1>. QED  BY <1>9, <1>13, <1>14 DEF IInv, AloneInv

(* What the statement with n left does.                                       *)
LEMMA EffectIs ==
  ASSUME TypeOK, NEW n \in 1..8, Effect(Left(n))
  PROVE  /\ sessions' = IF n = 6 THEN [sessions EXCEPT !.shape = "v4"]
                        ELSE IF n = 3 THEN NoTable
                        ELSE IF n = 2 THEN rebuild ELSE sessions
         /\ rebuild' = IF n = 5 THEN [shape |-> "v5", rows |-> {}]
                       ELSE IF n = 4 THEN Copied
                       ELSE IF n = 2 THEN NoTable ELSE rebuild
         /\ tables' = IF n = 8 THEN tables \cup {"interrupt_log"}
                      ELSE IF n = 7 THEN tables \cup {"task"} ELSE tables
         /\ version' = IF n = 1 THEN 5 ELSE version
<1>1. /\ Left(n) = "add_column" <=> n = 6
      /\ Left(n) = "drop" <=> n = 3
      /\ Left(n) = "rename" <=> n = 2
      /\ Left(n) = "create_rebuild" <=> n = 5
      /\ Left(n) = "copy" <=> n = 4
      /\ Left(n) = "interrupt_log" <=> n = 8
      /\ Left(n) = "task" <=> n = 7
      /\ Left(n) = "version" <=> n = 1
  <2>1. n = 1 \/ n = 2 \/ n = 3 \/ n = 4 \/ n = 5 \/ n = 6 \/ n = 7 \/ n = 8
    OBVIOUS
  <2>. QED  BY <2>1, LeftIs
<1>. DEFINE s == Left(n)
<1>2. /\ sessions' = CASE s = "add_column" -> [sessions EXCEPT !.shape = "v4"]
                       [] s = "drop"       -> NoTable
                       [] s = "rename"     -> rebuild
                       [] OTHER            -> sessions
      /\ rebuild' = CASE s = "create_rebuild" -> [shape |-> "v5", rows |-> {}]
                      [] s = "copy"           -> Copied
                      [] s = "rename"         -> NoTable
                      [] OTHER                -> rebuild
      /\ tables' = IF s \in {"interrupt_log", "task"} THEN tables \cup {s} ELSE tables
      /\ version' = IF s = "version" THEN 5 ELSE version
  BY DEF Effect
<1>. HIDE DEF s
<1>3. /\ s = "add_column" <=> n = 6
      /\ s = "drop" <=> n = 3
      /\ s = "rename" <=> n = 2
      /\ s = "create_rebuild" <=> n = 5
      /\ s = "copy" <=> n = 4
      /\ s = "interrupt_log" <=> n = 8
      /\ s = "task" <=> n = 7
      /\ s = "version" <=> n = 1
  BY <1>1 DEF s
<1>4. sessions' = IF n = 6 THEN [sessions EXCEPT !.shape = "v4"]
                  ELSE IF n = 3 THEN NoTable
                  ELSE IF n = 2 THEN rebuild ELSE sessions
  BY <1>2, <1>3
<1>5. rebuild' = IF n = 5 THEN [shape |-> "v5", rows |-> {}]
                 ELSE IF n = 4 THEN Copied
                 ELSE IF n = 2 THEN NoTable ELSE rebuild
  BY <1>2, <1>3
<1>6. tables' = IF n = 8 THEN tables \cup {"interrupt_log"}
                ELSE IF n = 7 THEN tables \cup {"task"} ELSE tables
  BY <1>2, <1>3
<1>7. version' = IF n = 1 THEN 5 ELSE version
  BY <1>2, <1>3
<1>. QED  BY <1>4, <1>5, <1>6, <1>7

(* A statement is refused only in a file that is not as its migration         *)
(* expects it.                                                                *)
LEMMA WholeRaises ==
  ASSUME NEW p \in Procs, NEW n \in 1..8, ToRun(p) = n, Whole(p)
  PROVE  ~ Raises(Left(n))
<1>1. n = 1 \/ n = 2 \/ n = 3 \/ n = 4 \/ n = 5 \/ n = 6 \/ n = 7 \/ n = 8
  OBVIOUS
<1>2. CASE n \in {1, 7, 8}
  <2>1. Left(n) \in {"version", "task", "interrupt_log"}
    BY <1>2, LeftIs
  <2>. QED  BY <2>1 DEF Raises
<1>3. CASE n = 2
  <2>1. sessions = NoTable /\ rebuild # NoTable /\ Left(n) = "rename"
    BY <1>3, LeftIs DEF Whole
  <2>. QED  BY <2>1 DEF Raises
<1>4. CASE n = 3
  <2>1. sessions # NoTable /\ Left(n) = "drop"
    BY <1>4, LeftIs DEF Whole
  <2>. QED  BY <2>1 DEF Raises
<1>5. CASE n = 4
  <2>1. sessions.shape = "v4" /\ rebuild # NoTable /\ rebuild.rows = {} /\ Left(n) = "copy"
    BY <1>5, LeftIs DEF Whole
  <2>. QED  BY <2>1 DEF Raises
<1>6. CASE n = 5
  <2>1. rebuild = NoTable /\ Left(n) = "create_rebuild"
    BY <1>6, LeftIs DEF Whole
  <2>. QED  BY <2>1 DEF Raises
<1>7. CASE n = 6
  <2>1. sessions.shape = "v2" /\ Left(n) = "add_column"
    BY <1>7, LeftIs DEF Whole
  <2>. QED  BY <2>1 DEF Raises
<1>. QED  BY <1>1, <1>2, <1>3, <1>4, <1>5, <1>6, <1>7

(* A statement that is refused: the process has not started.                  *)
LEMMA RefusedInv ==
  ASSUME IInv, NEW p \in Migrating, Overlaps(p), Raises(Head(procs[p].todo)),
         procs' = [procs EXCEPT ![p].pc = "raised"],
         UNCHANGED <<sessions, rebuild, tables, version, inserted>>
  PROVE  IInv'
<1>. DEFINE to == [procs[p] EXCEPT !.pc = "raised"]
<1>1. TypeOK /\ p \in Procs /\ procs[p] \in Process /\ procs' = [procs EXCEPT ![p] = to]
  BY DEF IInv, TypeOK, Migrating
<1>2. to \in Process /\ to.pc = "raised" /\ to.torn = procs[p].torn
  BY <1>1 DEF Process
<1>. HIDE DEF to
<1>3. /\ procs' \in [Procs -> Process]
      /\ procs'[p] = to /\ \A q \in Procs : q # p => procs'[q] = procs[q]
      /\ \A q \in Migrating' : q = p \/ (q # p /\ q \in Migrating)
      /\ p \in Migrating' => to.pc = "migrating"
  BY <1>1, <1>2, Moved
<1>4. /\ overlapped' \in BOOLEAN
      /\ ~ overlapped' => ~ overlapped /\ \A q \in Migrating : q = p
  BY <1>1, Alone
<1>5. \A q \in Migrating' : q # p /\ q \in Migrating /\ procs'[q] = procs[q] /\ q \in Procs
  BY <1>2, <1>3 DEF Migrating
<1>6. TypeOK'
  BY <1>1, <1>3, <1>4 DEF TypeOK
<1>7. FileInv'
  <2>1. ASSUME NEW q \in Migrating'
        PROVE  Brought(q)'
    BY <1>5 DEF FileInv, IInv, Brought, ToRun
  <2>. QED  BY <2>1 DEF FileInv, IInv
<1>8. ASSUME ~ overlapped'
      PROVE  /\ Migrating' = {} /\ AloneInv
             /\ ~ overlapped
             /\ procs[p].torn
  <2>1. Migrating' = {}
    BY <1>4, <1>5, <1>8
  <2>2. AloneInv /\ ~ overlapped
    BY <1>4, <1>8 DEF IInv
  <2>3. Head(procs[p].todo) = Left(ToRun(p)) /\ ToRun(p) \in 1..8
    <3>1. IsEnd(procs[p].todo) /\ procs[p].todo # <<>>
      BY DEF FileInv, IInv, Brought
    <3>. QED  BY <3>1, NextIs DEF ToRun
  <2>4. ~ Whole(p)
    BY <1>1, <2>3, WholeRaises
  <2>. QED  BY <2>1, <2>2, <2>4 DEF AloneInv
<1>9. AloneInv'
  <2>1. ASSUME ~ overlapped', NEW q \in Procs
        PROVE  /\ procs'[q].pc = "open" => version' = 5
               /\ procs'[q].pc = "raised" => procs'[q].torn
    BY <1>2, <1>3, <1>8, <2>1 DEF AloneInv
  <2>. QED  BY <1>8, <2>1 DEF AloneInv
<1>. QED  BY <1>6, <1>7, <1>9 DEF IInv

(* A statement that runs.                                                     *)
LEMMA RunInv ==
  ASSUME IInv, NEW p \in Migrating, Overlaps(p), Effect(Head(procs[p].todo)),
         procs' = [procs EXCEPT ![p].todo = Tail(procs[p].todo),
                                ![p].pc = IF Tail(procs[p].todo) = <<>> THEN "open" ELSE "migrating"],
         ~ Raises(Head(procs[p].todo)), UNCHANGED inserted
  PROVE  IInv'
<1>. DEFINE rest == Tail(procs[p].todo)
            to == [procs[p] EXCEPT !.todo = rest,
                                   !.pc = IF rest = <<>> THEN "open" ELSE "migrating"]
<1>1. TypeOK /\ p \in Procs /\ procs[p] \in Process /\ procs \in [Procs -> Process]
  BY DEF IInv, TypeOK, Migrating
<1>2. procs' = [procs EXCEPT ![p] = to]
  BY <1>1
<1>3. IsEnd(procs[p].todo) /\ procs[p].todo # <<>>
  BY DEF FileInv, IInv, Brought
<1>4. PICK n \in 1..8 : n = ToRun(p) /\ Head(procs[p].todo) = Left(n)
  BY <1>3, NextIs DEF ToRun
<1>5. IsEnd(rest) /\ Len(rest) = n - 1 /\ (rest = <<>> <=> n = 1)
  BY <1>3, <1>4, NextIs DEF ToRun
<1>. HIDE DEF rest
<1>6. /\ to \in Process /\ to.todo = rest /\ to.torn = procs[p].torn
      /\ to.pc = IF n = 1 THEN "open" ELSE "migrating"
  BY <1>1, <1>5 DEF Process, IsEnd
<1>. HIDE DEF to
<1>7. /\ procs' \in [Procs -> Process]
      /\ procs'[p] = to /\ \A q \in Procs : q # p => procs'[q] = procs[q]
      /\ \A q \in Migrating' : q = p \/ (q # p /\ q \in Migrating)
      /\ p \in Migrating' => to.pc = "migrating"
  BY <1>1, <1>2, <1>6, Moved
<1>8. /\ overlapped' \in BOOLEAN
      /\ ~ overlapped' => ~ overlapped /\ \A q \in Migrating : q = p
  BY <1>1, Alone
<1>9. ToRun(p)' = n - 1 /\ (p \in Migrating' => n # 1)
  <2>1. ToRun(p)' = Len(rest)
    BY <1>6, <1>7 DEF ToRun
  <2>2. p \in Migrating' => n # 1
    BY <1>6, <1>7
  <2>. QED  BY <1>5, <2>1, <2>2
<1>10. /\ sessions' = IF n = 6 THEN [sessions EXCEPT !.shape = "v4"]
                      ELSE IF n = 3 THEN NoTable
                      ELSE IF n = 2 THEN rebuild ELSE sessions
       /\ rebuild' = IF n = 5 THEN [shape |-> "v5", rows |-> {}]
                     ELSE IF n = 4 THEN Copied
                     ELSE IF n = 2 THEN NoTable ELSE rebuild
       /\ tables' = IF n = 8 THEN tables \cup {"interrupt_log"}
                    ELSE IF n = 7 THEN tables \cup {"task"} ELSE tables
       /\ version' = IF n = 1 THEN 5 ELSE version
  BY <1>1, <1>4, EffectIs
<1>11. /\ sessions \in Table /\ rebuild \in Table /\ inserted \subseteq Nat
       /\ tables \subseteq {"interrupt_log", "task"} /\ version \in {0, 2, 3, 4, 5}
  BY <1>1 DEF TypeOK
<1>12. /\ n = 6 => sessions.shape = "v2"
       /\ n = 2 => rebuild # NoTable
       /\ n = 4 => rebuild # NoTable
  BY <1>4, LeftIs DEF Raises
<1>13. /\ n = 6 => sessions' \in Table /\ sessions'.shape = "v4" /\ sessions'.rows = sessions.rows
       /\ n = 4 => /\ rebuild' \in Table /\ rebuild'.shape = rebuild.shape
                   /\ rebuild'.rows = rebuild.rows \cup sessions.rows
       /\ n = 5 => rebuild' \in Table /\ rebuild'.shape = "v5" /\ rebuild'.rows = {}
       /\ NoTable \in Table /\ NoTable.shape = "none" /\ NoTable.rows = {}
  BY <1>10, <1>11 DEF Copied, Table, NoTable
<1>14. TypeOK'
  <2>1. sessions' \in Table /\ rebuild' \in Table
    BY <1>10, <1>11, <1>13
  <2>2. tables' \subseteq {"interrupt_log", "task"} /\ version' \in {0, 2, 3, 4, 5}
    BY <1>10, <1>11
  <2>. QED  BY <1>1, <1>7, <1>8, <2>1, <2>2 DEF TypeOK
<1>15. /\ sessions.shape = "none" => sessions = NoTable
       /\ rebuild = NoTable \/ rebuild.shape = "v5"
       /\ version >= 3 => "interrupt_log" \in tables
       /\ version >= 4 => "task" \in tables
       /\ \A q \in Migrating : Brought(q)
  BY DEF FileInv, IInv
<1>16. FileInv'
  <2>1. sessions'.shape = "none" => sessions' = NoTable
    BY <1>10, <1>12, <1>13, <1>15
  <2>2. rebuild' = NoTable \/ rebuild'.shape = "v5"
    BY <1>10, <1>12, <1>13, <1>15
  <2>3. tables \subseteq tables'
    BY <1>10
  <2>4. /\ n <= 8 => n = 8 \/ "interrupt_log" \in tables
        /\ n <= 7 => n = 7 \/ "task" \in tables
    BY <1>4, <1>15 DEF Brought
  <2>5. version' >= 3 => "interrupt_log" \in tables'
    BY <1>10, <1>15, <2>3, <2>4
  <2>6. version' >= 4 => "task" \in tables'
    BY <1>10, <1>15, <2>3, <2>4
  <2>7. ASSUME NEW q \in Migrating', q # p
        PROVE  Brought(q)'
    <3>1. q \in Migrating /\ procs'[q] = procs[q]
      BY <1>7, <2>7 DEF Migrating
    <3>. QED  BY <1>15, <2>3, <3>1 DEF Brought, ToRun
  <2>8. ASSUME p \in Migrating'
        PROVE  Brought(p)'
    <3>1. IsEnd(procs'[p].todo) /\ procs'[p].todo # <<>>
      BY <1>5, <1>6, <1>7, <1>9, <2>8
    <3>2. /\ n - 1 <= 7 => "interrupt_log" \in tables'
          /\ n - 1 <= 6 => "task" \in tables'
      BY <1>10, <2>3, <2>4
    <3>. QED  BY <1>9, <3>1, <3>2 DEF Brought
  <2>. QED  BY <2>1, <2>2, <2>5, <2>6, <2>7, <2>8 DEF FileInv
<1>17. ASSUME ~ overlapped'
       PROVE  /\ inserted' \subseteq sessions'.rows \cup rebuild'.rows
              /\ version' = 5 => sessions'.shape = "v5" /\ rebuild' = NoTable
              /\ \A q \in Procs : procs'[q].pc = "open" => version' = 5
              /\ \A q \in Migrating' : Done(q)' /\ (~ procs'[q].torn => Whole(q)')
              /\ \A q \in Procs : procs'[q].pc = "raised" => procs'[q].torn
  <2>1. /\ inserted \subseteq sessions.rows \cup rebuild.rows
        /\ version = 5 => sessions.shape = "v5" /\ rebuild = NoTable
        /\ \A q \in Procs : procs[q].pc = "open" => version = 5
        /\ \A q \in Procs : procs[q].pc = "raised" => procs[q].torn
        /\ Done(p) /\ (~ procs[p].torn => Whole(p))
        /\ \A q \in Migrating : q = p
    BY <1>8, <1>17 DEF AloneInv, IInv
  <2>2. /\ n \in {2, 3} => inserted \subseteq rebuild.rows
        /\ n = 1 => sessions.shape = "v5" /\ rebuild = NoTable
        /\ version = 5 => n = 1
    BY <1>4, <2>1 DEF Done
  <2>3. inserted' \subseteq sessions'.rows \cup rebuild'.rows
    <3>1. CASE n = 6
      BY <1>10, <1>13, <2>1, <3>1
    <3>2. CASE n = 5
      <4>1. rebuild = NoTable
        BY <1>4, <3>2, LeftIs DEF Raises
      <4>. QED  BY <1>10, <1>13, <2>1, <3>2, <4>1
    <3>3. CASE n = 4
      BY <1>10, <1>13, <2>1, <3>3
    <3>4. CASE n \in {2, 3}
      BY <1>10, <1>13, <2>2, <3>4
    <3>5. CASE n \in {1, 7, 8}
      BY <1>10, <2>1, <3>5
    <3>. QED  BY <3>1, <3>2, <3>3, <3>4, <3>5
  <2>4. version' = 5 => sessions'.shape = "v5" /\ rebuild' = NoTable
    <3>1. version' = 5 => n = 1
      BY <1>10, <2>2
    <3>2. n = 1 => sessions' = sessions /\ rebuild' = rebuild
      BY <1>10
    <3>. QED  BY <2>2, <3>1, <3>2
  <2>5. ASSUME NEW q \in Procs
        PROVE  /\ procs'[q].pc = "open" => version' = 5
               /\ procs'[q].pc = "raised" => procs'[q].torn
    <3>1. CASE q = p
      <4>1. /\ to.pc # "raised"
            /\ to.pc = "open" => n = 1
        BY <1>6
      <4>2. n = 1 => version' = 5
        BY <1>10
      <4>3. procs'[q] = to
        BY <1>7, <3>1
      <4>. QED  BY <4>1, <4>2, <4>3
    <3>2. CASE q # p
      BY <1>7, <1>10, <2>1, <3>2
    <3>. QED  BY <3>1, <3>2
  <2>6. ASSUME p \in Migrating'
        PROVE  Done(p)'
    <3>1. n # 1
      BY <1>9, <2>6
    <3>2. n - 1 \in {2, 3} => inserted' \subseteq rebuild'.rows
      <4>1. CASE n = 4
        BY <1>10, <1>13, <2>1, <4>1
      <4>2. CASE n = 3
        BY <1>10, <2>2, <4>2
      <4>. QED  BY <4>1, <4>2
    <3>3. n - 1 = 1 => sessions'.shape = "v5" /\ rebuild' = NoTable
      <4>1. n - 1 = 1 => n = 2
        OBVIOUS
      <4>. QED  BY <1>10, <1>12, <1>15, <4>1
    <3>4. version' = 5 => n - 1 = 1
      BY <1>10, <2>2, <3>1
    <3>. QED  BY <1>9, <3>2, <3>3, <3>4 DEF Done
  <2>7. ASSUME p \in Migrating', ~ procs'[p].torn
        PROVE  Whole(p)'
    <3>1. /\ n \in {6, 7, 8} => sessions.shape = "v2" /\ rebuild = NoTable
          /\ n = 5 => sessions.shape = "v4" /\ rebuild = NoTable
          /\ n = 4 => sessions.shape = "v4" /\ rebuild # NoTable
          /\ n = 3 => sessions # NoTable /\ rebuild # NoTable
      BY <1>4, <1>6, <1>7, <2>1, <2>7 DEF Whole
    <3>2. n - 1 \in {6, 7, 8} => sessions'.shape = "v2" /\ rebuild' = NoTable
      BY <1>10, <3>1
    <3>3. n - 1 = 5 => sessions'.shape = "v4" /\ rebuild' = NoTable
      BY <1>10, <1>13, <3>1
    <3>4. n - 1 = 4 => sessions'.shape = "v4" /\ rebuild' # NoTable /\ rebuild'.rows = {}
      BY <1>10, <1>13, <3>1
    <3>5. n - 1 = 3 => sessions' # NoTable /\ rebuild' # NoTable
      BY <1>10, <1>13, <1>15, <3>1
    <3>6. n - 1 = 2 => sessions' = NoTable /\ rebuild' # NoTable
      BY <1>10, <3>1
    <3>. QED  BY <1>9, <3>2, <3>3, <3>4, <3>5, <3>6 DEF Whole
  <2>8. \A q \in Migrating' : q = p
    BY <1>7, <2>1
  <2>. QED  BY <2>3, <2>4, <2>5, <2>6, <2>7, <2>8
<1>. QED  BY <1>14, <1>16, <1>17 DEF IInv, AloneInv

(* The two together: a statement of p.                                        *)
LEMMA StatementInv ==
  ASSUME IInv, NEW p \in Procs, Statement(p)
  PROVE  IInv'
<1>1. p \in Migrating /\ Overlaps(p) /\ UNCHANGED inserted
  BY DEF Statement
<1>2. CASE Raises(Head(procs[p].todo))
  BY <1>1, <1>2, RefusedInv DEF Statement
<1>3. CASE ~ Raises(Head(procs[p].todo))
  BY <1>1, <1>3, RunInv DEF Statement
<1>. QED  BY <1>2, <1>3

(* start_session.                                                             *)
LEMMA StartInv ==
  ASSUME IInv, NEW p \in Procs, StartSession(p)
  PROVE  IInv'
<1>. DEFINE id == Cardinality(inserted) + 1
<1>1. /\ TypeOK /\ FileInv /\ AloneInv /\ Overlaps(p)
      /\ UNCHANGED <<rebuild, tables, version, procs>>
      /\ sessions.shape \in {"v4", "v5"} /\ procs[p].pc = "open"
      /\ sessions' = [sessions EXCEPT !.rows = @ \cup {id}]
      /\ inserted' = inserted \cup {id}
  BY DEF IInv, StartSession
<1>2. id \in Nat /\ IsFiniteSet(inserted')
  <2>1. IsFiniteSet(inserted)
    BY <1>1 DEF TypeOK
  <2>2. Cardinality(inserted) \in Nat
    BY <2>1, FS_CardinalityType
  <2>3. IsFiniteSet(inserted \cup {id})
    BY <2>1, FS_AddElement
  <2>. QED  BY <1>1, <2>2, <2>3
<1>. HIDE DEF id
<1>3. /\ sessions' \in Table /\ sessions'.shape = sessions.shape
      /\ sessions'.rows = sessions.rows \cup {id}
  BY <1>1, <1>2 DEF TypeOK, Table
<1>4. /\ overlapped' \in BOOLEAN
      /\ ~ overlapped' => ~ overlapped /\ \A q \in Migrating : q = p
  BY <1>1, Alone
<1>5. TypeOK'
  BY <1>1, <1>2, <1>3, <1>4 DEF TypeOK
<1>6. Migrating' = Migrating /\ p \notin Migrating
  BY <1>1 DEF Migrating
<1>7. FileInv'
  <2>1. ASSUME NEW q \in Migrating
        PROVE  Brought(q)'
    BY <1>1 DEF FileInv, Brought, ToRun
  <2>2. sessions'.shape # "none"
    BY <1>1, <1>3
  <2>. QED  BY <1>1, <1>6, <2>1, <2>2 DEF FileInv
<1>8. AloneInv'
  BY <1>1, <1>3, <1>4, <1>6 DEF AloneInv
<1>. QED  BY <1>5, <1>7, <1>8 DEF IInv

(* The process ends, or dies.                                                 *)
LEMMA EndInv ==
  ASSUME IInv, NEW p \in Procs, procs' = [procs EXCEPT ![p] = Closed],
         UNCHANGED <<sessions, rebuild, tables, version, inserted, overlapped>>
  PROVE  IInv'
<1>1. TypeOK /\ FileInv /\ AloneInv
  BY DEF IInv
<1>2. Closed \in Process /\ Closed.pc = "closed"
  BY EmptySeq DEF Closed, Process
<1>3. /\ procs' \in [Procs -> Process]
      /\ procs'[p] = Closed /\ \A q \in Procs : q # p => procs'[q] = procs[q]
      /\ \A q \in Migrating' : q = p \/ (q # p /\ q \in Migrating)
      /\ p \in Migrating' => Closed.pc = "migrating"
  BY <1>1, <1>2, Moved
<1>4. \A q \in Migrating' : q \in Migrating /\ procs'[q] = procs[q]
  BY <1>2, <1>3 DEF Migrating
<1>5. TypeOK'
  BY <1>1, <1>3 DEF TypeOK
<1>6. FileInv'
  <2>1. ASSUME NEW q \in Migrating'
        PROVE  Brought(q)'
    BY <1>1, <1>4 DEF FileInv, Brought, ToRun
  <2>. QED  BY <1>1, <2>1 DEF FileInv
<1>7. AloneInv'
  <2>1. ASSUME ~ overlapped, NEW q \in Migrating'
        PROVE  Done(q)' /\ (~ procs'[q].torn => Whole(q)')
    <3>1. Done(q) /\ (~ procs[q].torn => Whole(q)) /\ procs'[q] = procs[q]
      BY <1>1, <1>4, <2>1 DEF AloneInv
    <3>2. ToRun(q)' = ToRun(q)
      BY <3>1 DEF ToRun
    <3>. QED  BY <3>1, <3>2 DEF Done, Whole
  <2>2. ASSUME ~ overlapped, NEW q \in Procs
        PROVE  /\ procs'[q].pc = "open" => version = 5
               /\ procs'[q].pc = "raised" => procs'[q].torn
    BY <1>1, <1>2, <1>3, <2>2 DEF AloneInv
  <2>. QED  BY <1>1, <2>1, <2>2 DEF AloneInv
<1>. QED  BY <1>5, <1>6, <1>7 DEF IInv

(* A step that changes nothing.                                               *)
LEMMA IdleInv ==
  ASSUME IInv, UNCHANGED vars
  PROVE  IInv'
<1>1. UNCHANGED <<sessions, rebuild, tables, version, procs, inserted, overlapped>>
  BY DEF vars
<1>2. TypeOK' /\ Migrating' = Migrating
  BY <1>1 DEF IInv, TypeOK, Migrating
<1>3. FileInv'
  BY <1>1, <1>2 DEF IInv, FileInv, Brought, ToRun
<1>4. AloneInv'
  BY <1>1, <1>2 DEF IInv, AloneInv, Done, Whole, ToRun
<1>. QED  BY <1>2, <1>3, <1>4 DEF IInv

(* What is known of a file that processes open, migrate, die over and open    *)
(* again (src/izy/db.py, connect and _migrate), whoever opens it.             *)
THEOREM Inductive == Spec => []IInv
<1>1. ASSUME IInv, [Next]_vars
      PROVE  IInv'
  <2>1. ASSUME NEW p \in Procs, Open(p)
        PROVE  IInv'
    BY <1>1, <2>1, OpenInv
  <2>2. ASSUME NEW p \in Procs, Statement(p)
        PROVE  IInv'
    BY <1>1, <2>2, StatementInv
  <2>3. ASSUME NEW p \in Procs, StartSession(p)
        PROVE  IInv'
    BY <1>1, <2>3, StartInv
  <2>4. ASSUME NEW p \in Procs, Close(p)
        PROVE  IInv'
    BY <1>1, <2>4, EndInv DEF Close
  <2>5. ASSUME NEW p \in Procs, Crash(p)
        PROVE  IInv'
    BY <1>1, <2>5, EndInv DEF Crash
  <2>6. CASE UNCHANGED vars
    BY <1>1, <2>6, IdleInv
  <2>. QED  BY <1>1, <2>1, <2>2, <2>3, <2>4, <2>5, <2>6 DEF Next
<1>. QED  BY <1>1, InitInv, PTL DEF Spec

-----------------------------------------------------------------------------
(* No session is lost, whichever statement a migration dies before and        *)
(* however often (RowsKept): the copy holds every row before the drop, and    *)
(* only an opening that finds version 5 records another.                      *)
THEOREM NoSessionLost == Spec => []RowsKept
<1>1. IInv => RowsKept
  BY DEF IInv, AloneInv, RowsKept
<1>. QED  BY <1>1, Inductive, PTL

(* A file that says it is at version 5 has the tables of version 5, whatever  *)
(* version it began at (Converged, src/izy/db.py:24-25).                      *)
THEOREM BothPathsConverge == Spec => []Converged
<1>1. IInv => Converged
  <2>. SUFFICES ASSUME IInv, version = 5, ~ overlapped
                PROVE  /\ sessions.shape = "v5" /\ rebuild = NoTable
                       /\ tables = {"interrupt_log", "task"}
    BY DEF Converged
  <2>1. sessions.shape = "v5" /\ rebuild = NoTable
    BY DEF IInv, AloneInv
  <2>2. "interrupt_log" \in tables /\ "task" \in tables /\ tables \subseteq {"interrupt_log", "task"}
    BY DEF IInv, FileInv, TypeOK
  <2>. QED  BY <2>1, <2>2
<1>. QED  BY <1>1, Inductive, PTL

(* A process that nobody else migrates beside is kept from starting only by a *)
(* migration that was cut short before it (RefusesOnlyTorn): every file that  *)
(* an earlier version of the program left migrates without an exception.      *)
THEOREM WholeFilesOpen == Spec => []RefusesOnlyTorn
<1>1. IInv => RefusesOnlyTorn
  BY DEF IInv, AloneInv, RefusesOnlyTorn
<1>. QED  BY <1>1, Inductive, PTL

-----------------------------------------------------------------------------
(* Configuration: sequences and indices.                                     *)

(* What holds of 0, and of each index with the one before it, holds of all:   *)
(* there is no first one it fails for.                                        *)
LEMMA UpTo ==
  ASSUME NEW n \in Nat, NEW S, 0 \in S, \A i \in 1..n : i - 1 \in S => i \in S
  PROVE  0..n \subseteq S
<1>. DEFINE T == (0..n) \ S
<1>. SUFFICES ASSUME T # {} PROVE FALSE
  OBVIOUS
<1>1. T \subseteq Nat
  OBVIOUS
<1>2. PICK x \in T : \A y \in T : <<y, x>> \notin OpToRel(<, Nat)
  <2>. HIDE DEF T
  <2>. QED  BY <1>1, NatLessThanWellFounded, WFMin
<1>3. \A y \in T : ~ (y < x)
  BY <1>1, <1>2 DEF OpToRel
<1>4. x \in 1..n
  <2>1. x \in 0..n /\ x # 0
    BY <1>2
  <2>. QED  BY <2>1
<1>5. x - 1 \in S
  BY <1>3, <1>4
<1>. QED  BY <1>2, <1>4, <1>5

(* A recursion along the indices has a result.                                *)
Recursion(f, n, base, step) ==
  f[0] = base /\ \A i \in 1..n : f[i] = step[<<i, f[i - 1]>>]

LEMMA RecursionIs ==
  ASSUME NEW n \in Nat, NEW A, NEW base \in A, NEW step \in [(1..n) \X A -> A]
  PROVE  \E f \in [0..n -> A] : Recursion(f, n, base, step)
<1>. DEFINE Upto(m, f) == f[0] = base /\ \A i \in 1..m : f[i] = step[<<i, f[i - 1]>>]
            S == {m \in 0..n : \E f \in [0..m -> A] : Upto(m, f)}
<1>1. 0 \in S
  <2>. DEFINE f == [i \in 0..0 |-> base]
  <2>1. f \in [0..0 -> A] /\ f[0] = base
    OBVIOUS
  <2>2. Upto(0, f)
    BY <2>1
  <2>. HIDE DEF f, Upto
  <2>3. \E h \in [0..0 -> A] : Upto(0, h)
    BY <2>1, <2>2
  <2>. QED  BY <2>3
<1>2. ASSUME NEW m \in 1..n, m - 1 \in S PROVE m \in S
  <2>1. PICK f \in [0..(m - 1) -> A] : Upto(m - 1, f)
    BY <1>2
  <2>. DEFINE next == step[<<m, f[m - 1]>>]
              g == [i \in 0..m |-> IF i = m THEN next ELSE f[i]]
  <2>2. next \in A
    OBVIOUS
  <2>3. g \in [0..m -> A]
    BY <2>2
  <2>4. g[0] = base
    BY <2>1
  <2>5. ASSUME NEW i \in 1..m PROVE g[i] = step[<<i, g[i - 1]>>]
    <3>1. g[i - 1] = f[i - 1]
      OBVIOUS
    <3>2. CASE i = m
      <4>1. g[m] = next
        OBVIOUS
      <4>. QED  BY <3>1, <3>2, <4>1
    <3>3. CASE i # m
      <4>1. i \in 1..(m - 1) /\ g[i] = f[i]
        BY <3>3
      <4>. QED  BY <2>1, <3>1, <4>1
    <3>. QED  BY <3>2, <3>3
  <2>6. Upto(m, g)
    BY <2>4, <2>5
  <2>7. \E h \in [0..m -> A] : Upto(m, h)
    BY <2>3, <2>6
  <2>. QED  BY <2>7
<1>3. 0..n \subseteq S
  <2>. HIDE DEF S
  <2>. QED  BY <1>1, <1>2, UpTo
<1>. QED  BY <1>3 DEF Recursion

(* FlattenSeq joins its sequences one after the other, and so after any text.  *)
Joins(acc, n, text, seqs) ==
  acc[0] = text /\ \A i \in 1..n : acc[i] = acc[i - 1] \o seqs[i]

LEMMA FlattenIs ==
  ASSUME NEW n \in Nat, NEW seqs \in [1..n -> Seq(Line)]
  PROVE  \E acc \in [0..n -> Seq(Line)] : Joins(acc, n, <<>>, seqs) /\ FlattenSeq(seqs) = acc[n]
<1>. DEFINE A == Seq(Line)
            step == [p \in (1..n) \X A |-> p[2] \o seqs[p[1]]]
<1>1. \A i \in 1..n, a \in A : a \o seqs[i] \in A
  BY ConcatProperties
<1>2. <<>> \in A
  BY EmptySeq
<1>. HIDE DEF A
<1>3. step \in [(1..n) \X A -> A]
  BY <1>1
<1>. HIDE DEF step
<1>4. PICK f \in [0..n -> A] : Recursion(f, n, <<>>, step)
  BY <1>2, <1>3, RecursionIs
<1>5. Joins(f, n, <<>>, seqs)
  <2>1. ASSUME NEW i \in 1..n PROVE f[i] = f[i - 1] \o seqs[i]
    <3>1. f[i - 1] \in A
      BY <1>4
    <3>. QED  BY <1>4, <3>1 DEF step, Recursion
  <2>. QED  BY <1>4, <2>1 DEF Joins, Recursion
<1>6. Len(seqs) = n
  <2>1. seqs \in Seq(A)
    BY DEF A
  <2>. QED  BY <2>1, LenProperties
<1>7. FlattenSeq(seqs) = f[n]
  <2>1. CASE n = 0
    <3>1. seqs = <<>>
      BY <1>6, <2>1
    <3>. QED  BY <1>5, <1>6, <2>1, <3>1 DEF FlattenSeq, Joins
  <2>2. CASE n # 0
    <3>. DEFINE flatten == CHOOSE g : g = [i \in 1..n |-> IF i = 1 THEN seqs[i] ELSE g[i - 1] \o seqs[i]]
                h == [i \in 1..n |-> f[i]]
    <3>1. h = [i \in 1..n |-> IF i = 1 THEN seqs[i] ELSE h[i - 1] \o seqs[i]]
      <4>1. ASSUME NEW i \in 1..n
            PROVE  f[i] = IF i = 1 THEN seqs[i] ELSE h[i - 1] \o seqs[i]
        <5>1. f[i] = f[i - 1] \o seqs[i]
          BY <1>5 DEF Joins
        <5>2. CASE i = 1
          <6>1. f[0] = <<>> /\ seqs[1] \in Seq(Line)
            BY <1>5, <5>2 DEF Joins
          <6>. QED  BY <5>1, <5>2, <6>1, ConcatEmptySeq
        <5>3. CASE i # 1
          <6>1. i - 1 \in 1..n
            BY <5>3
          <6>. QED  BY <5>1, <5>3, <6>1
        <5>. QED  BY <5>2, <5>3
      <4>. QED  BY <4>1
    <3>. HIDE DEF h
    <3>2. flatten = [i \in 1..n |-> IF i = 1 THEN seqs[i] ELSE flatten[i - 1] \o seqs[i]]
      BY <3>1
    <3>3. FlattenSeq(seqs) = flatten[n]
      BY <1>6, <2>2 DEF FlattenSeq
    <3>. HIDE DEF flatten
    <3>. DEFINE T == {i \in 0..n : i = 0 \/ flatten[i] = f[i]}
    <3>4. 0 \in T
      OBVIOUS
    <3>5. ASSUME NEW i \in 1..n, i - 1 \in T PROVE i \in T
      <4>1. f[i] = f[i - 1] \o seqs[i]
        BY <1>5 DEF Joins
      <4>2. CASE i = 1
        <5>1. f[0] = <<>> /\ seqs[1] \in Seq(Line) /\ flatten[1] = seqs[1]
          BY <1>5, <3>2, <4>2 DEF Joins
        <5>. QED  BY <4>1, <4>2, <5>1, ConcatEmptySeq
      <4>3. CASE i # 1
        <5>1. flatten[i] = flatten[i - 1] \o seqs[i]
          BY <3>2, <4>3
        <5>2. flatten[i - 1] = f[i - 1]
          BY <3>5, <4>3
        <5>3. flatten[i] = f[i] /\ i \in 0..n
          BY <4>1, <5>1, <5>2
        <5>. QED  BY <5>3
      <4>. QED  BY <4>2, <4>3
    <3>6. 0..n \subseteq T
      <4>. HIDE DEF T
      <4>. QED  BY <3>4, <3>5, UpTo
    <3>. QED  BY <2>2, <3>3, <3>6
  <2>. QED  BY <2>1, <2>2
<1>. QED  BY <1>4, <1>5, <1>7 DEF A

(* Texts may be joined in either order.                                      *)
LEMMA Regrouped ==
  ASSUME NEW s \in Seq(Line), NEW t \in Seq(Line), NEW u \in Seq(Line)
  PROVE  s \o (t \o u) = (s \o t) \o u
<1>1. \A S : \A x, y, z \in Seq(S) : (x \o y) \o z = x \o (y \o z)
  BY ConcatAssociative, Zenon
<1>. QED  BY <1>1, SMTT(30)

LEMMA FlattenAfter ==
  ASSUME NEW n \in Nat, NEW seqs \in [1..n -> Seq(Line)], NEW text \in Seq(Line)
  PROVE  \E acc \in [0..n -> Seq(Line)] :
           Joins(acc, n, text, seqs) /\ acc[n] = text \o FlattenSeq(seqs)
<1>1. PICK f \in [0..n -> Seq(Line)] : Joins(f, n, <<>>, seqs) /\ FlattenSeq(seqs) = f[n]
  BY FlattenIs
<1>. DEFINE acc == [i \in 0..n |-> text \o f[i]]
<1>2. acc \in [0..n -> Seq(Line)]
  BY <1>1, ConcatProperties
<1>3. acc[0] = text
  BY <1>1, ConcatEmptySeq DEF Joins
<1>4. ASSUME NEW i \in 1..n PROVE acc[i] = acc[i - 1] \o seqs[i]
  <2>1. i - 1 \in 0..n /\ i \in 0..n
    OBVIOUS
  <2>2. f[i] = f[i - 1] \o seqs[i]
    BY <1>1 DEF Joins
  <2>3. f[i - 1] \in Seq(Line) /\ seqs[i] \in Seq(Line)
    BY <1>1, <2>1
  <2>4. \A t, u \in Seq(Line) : text \o (t \o u) = (text \o t) \o u
    BY Regrouped, Zenon
  <2>5. acc[i] = text \o f[i] /\ acc[i - 1] = text \o f[i - 1]
    BY <2>1
  <2>. HIDE DEF acc
  <2>6. acc[i] = text \o (f[i - 1] \o seqs[i])
    BY <2>2, <2>5
  <2>. QED  BY <2>3, <2>4, <2>5, <2>6, Zenon
<1>5. acc[n] = text \o FlattenSeq(seqs)
  BY <1>1
<1>6. Joins(acc, n, text, seqs)
  BY <1>3, <1>4 DEF Joins
<1>. HIDE DEF acc
<1>. QED  BY <1>2, <1>5, <1>6

(* A set of indices has a greatest ...                                       *)
LEMMA MaxOf ==
  ASSUME NEW n \in Nat, NEW S \in SUBSET (0..n), S # {}
  PROVE  Max(S) \in S /\ \A j \in S : j <= Max(S)
<1>. DEFINE T == {n - j : j \in S}
<1>1. T \subseteq Nat /\ T # {}
  <2>1. \A j \in S : n - j \in Nat
    OBVIOUS
  <2>2. T \subseteq Nat
    BY <2>1
  <2>. QED  BY <2>2
<1>2. PICK x \in T : \A y \in T : <<y, x>> \notin OpToRel(<, Nat)
  <2>. HIDE DEF T
  <2>. QED  BY <1>1, NatLessThanWellFounded, WFMin
<1>3. \A y \in T : ~ (y < x)
  BY <1>1, <1>2 DEF OpToRel
<1>4. PICK m \in S : x = n - m
  OBVIOUS
<1>5. ASSUME NEW j \in S PROVE m >= j
  <2>1. n - j \in T /\ j \in Int /\ m \in Int
    OBVIOUS
  <2>2. ~ (n - j < n - m)
    <3>. HIDE DEF T
    <3>. QED  BY <1>3, <1>4, <2>1
  <2>. QED  BY <2>1, <2>2
<1>6. Max(S) \in S /\ \A j \in S : Max(S) >= j
  BY <1>5 DEF Max
<1>. HIDE DEF T
<1>7. \A j \in S : j \in 0..n
  OBVIOUS
<1>. QED  BY <1>6, <1>7

(* ... and a least one.                                                      *)
LEMMA MinOf ==
  ASSUME NEW S \in SUBSET Nat, S # {}
  PROVE  Min(S) \in S /\ \A j \in S : Min(S) <= j
<1>1. PICK x \in S : \A y \in S : <<y, x>> \notin OpToRel(<, Nat)
  BY NatLessThanWellFounded, WFMin
<1>2. S \subseteq Nat
  OBVIOUS
<1>3. \A y \in S : ~ (y < x)
  BY <1>1, <1>2 DEF OpToRel
<1>4. \A y \in S : x <= y
  BY <1>2, <1>3
<1>. QED  BY <1>4 DEF Min

-----------------------------------------------------------------------------
(* Configuration: what is read in a text.                                    *)

(* What the kind of a line says of it.                                       *)
LEMMA LineIs ==
  ASSUME NEW x \in Line
  PROVE  /\ x.kind \in {"header", "key", "comment", "blank", "rest"}
         /\ x.kind = "comment" <=> x = Comment
         /\ x.kind = "blank" <=> x = Blank
         /\ x.kind = "header" => x = Header(x.name)
<1>1. CASE x = Comment
  BY <1>1 DEF Comment, Blank, Header, Key
<1>2. CASE x = Blank
  BY <1>2 DEF Comment, Blank, Header, Key
<1>3. CASE \E s \in Words : x = Header(s)
  BY <1>3 DEF Comment, Blank, Header, Key
<1>4. CASE \E k \in Words, v \in Values : x = Key(k, v)
  BY <1>4 DEF Comment, Blank, Header, Key
<1>5. CASE \E open \in BOOLEAN : x = Rest(open)
  BY <1>5 DEF Comment, Blank, Header, Key, Rest
<1>. QED  BY <1>1, <1>2, <1>3, <1>4, <1>5 DEF Line

-----------------------------------------------------------------------------
(* The header that a line is under is the last one up to it ...              *)
LEMMA UnderIs ==
  ASSUME NEW P \in Seq(Line), NEW i \in 0..Len(P)
  PROVE  /\ Under(P, i) \in 0..i
         /\ Under(P, i) = 0 \/ Under(P, i) \in Headers(P)
         /\ \A h \in Headers(P) : h <= i => h <= Under(P, i)
<1>. DEFINE S == {0} \cup {h \in Headers(P) : h <= i}
<1>1. S \subseteq 0..i /\ S # {}
  BY LenProperties DEF Headers
<1>2. Under(P, i) = Max(S)
  BY DEF Under
<1>3. Max(S) \in S /\ \A j \in S : j <= Max(S)
  <2>. HIDE DEF S
  <2>1. i \in Nat
    BY LenProperties
  <2>. QED  BY <1>1, <2>1, MaxOf
<1>. QED  BY <1>1, <1>2, <1>3

(* ... and the only such.                                                    *)
LEMMA UnderOf ==
  ASSUME NEW P \in Seq(Line), NEW i \in 0..Len(P), NEW u \in 0..i, u = 0 \/ u \in Headers(P),
         \A h \in Headers(P) : h <= i => h <= u
  PROVE  Under(P, i) = u
<1>1. /\ Under(P, i) \in 0..i
      /\ Under(P, i) = 0 \/ Under(P, i) \in Headers(P)
      /\ \A h \in Headers(P) : h <= i => h <= Under(P, i)
  BY UnderIs
<1>2. Len(P) \in Nat
  BY LenProperties
<1>3. u <= Under(P, i)
  BY <1>1, <1>2
<1>4. Under(P, i) <= u
  BY <1>1, <1>2
<1>. QED  BY <1>1, <1>2, <1>3, <1>4

(* The section that line i is in, as a set of at most one name ... *)
SectionOf(P, i) == {P[u].name : u \in {Under(P, i)} \ {0}}

(* ... that the next line is in unless it is a header, and the keys of one. *)
At(P) == SectionOf(P, Len(P))
Given(P, T) == {P[i] : i \in {j \in DOMAIN P : P[j].kind = "key" /\ SectionOf(P, j) = T}}

(* Where two texts begin alike, their sections do.                           *)
LEMMA UnderSame ==
  ASSUME NEW P \in Seq(Line), NEW R \in Seq(Line), NEW i \in 0..Len(P), i <= Len(R),
         \A j \in 1..i : R[j] = P[j]
  PROVE  Under(R, i) = Under(P, i) /\ SectionOf(R, i) = SectionOf(P, i)
<1>1. Len(P) \in Nat /\ DOMAIN P = 1..Len(P) /\ Len(R) \in Nat /\ DOMAIN R = 1..Len(R)
  BY LenProperties
<1>2. \A h \in 1..i : h \in Headers(R) <=> h \in Headers(P)
  BY <1>1 DEF Headers
<1>3. /\ Under(P, i) \in 0..i
      /\ Under(P, i) = 0 \/ Under(P, i) \in Headers(P)
      /\ \A h \in Headers(P) : h <= i => h <= Under(P, i)
  BY UnderIs
<1>4. \A h \in Headers(R) : h <= i => h <= Under(P, i)
  BY <1>1, <1>2, <1>3 DEF Headers
<1>5. Under(P, i) = 0 \/ Under(P, i) \in Headers(R)
  BY <1>1, <1>2, <1>3
<1>6. i \in 0..Len(R)
  BY <1>1
<1>7. Under(R, i) = Under(P, i)
  BY <1>3, <1>4, <1>5, <1>6, UnderOf
<1>8. \A u \in {Under(P, i)} \ {0} : R[u].name = P[u].name
  BY <1>1, <1>3
<1>. QED  BY <1>7, <1>8 DEF SectionOf

(* With no header twice, the name of its section tells which header a line is under. *)
HeadersOnce(P) == \A h, g \in Headers(P) : P[h].name = P[g].name => h = g

LEMMA SameUnder ==
  ASSUME NEW P \in Seq(Line), HeadersOnce(P), NEW i \in 0..Len(P), NEW j \in 0..Len(P),
         SectionOf(P, i) = SectionOf(P, j)
  PROVE  Under(P, i) = Under(P, j)
<1>1. Under(P, i) = 0 \/ Under(P, i) \in Headers(P)
  BY UnderIs
<1>2. Under(P, j) = 0 \/ Under(P, j) \in Headers(P)
  BY UnderIs
<1>. DEFINE a == Under(P, i)
            b == Under(P, j)
<1>3. {P[u].name : u \in {a} \ {0}} = {P[u].name : u \in {b} \ {0}}
  BY DEF SectionOf
<1>. HIDE DEF a, b
<1>4. CASE a = 0
  <2>1. b = 0
    BY <1>3, <1>4
  <2>. QED  BY <1>4, <2>1 DEF a, b
<1>5. CASE a # 0
  <2>1. b # 0
    BY <1>3, <1>5
  <2>2. P[a].name = P[b].name
    BY <1>3, <1>5, <2>1
  <2>. QED  BY <1>1, <1>2, <1>5, <2>1, <2>2 DEF a, b, HeadersOnce
<1>. QED  BY <1>4, <1>5

-----------------------------------------------------------------------------
(* Configuration: a text that grows by a line.                               *)

(* What one more line changes. *)
OneMore(P, x, R, n) ==
  /\ R \in Seq(Line) /\ Len(R) = n + 1 /\ R[n + 1] = x
  /\ \A i \in 1..n : R[i] = P[i]
  /\ \A i \in 0..n : Under(R, i) = Under(P, i) /\ SectionOf(R, i) = SectionOf(P, i)
  /\ Under(R, n + 1) = IF x.kind = "header" THEN n + 1 ELSE Under(P, n)

LEMMA Grown ==
  ASSUME NEW P \in Seq(Line), NEW x \in Line, NEW R, R = Append(P, x)
  PROVE  OneMore(P, x, R, Len(P))
<1>1. R \in Seq(Line) /\ Len(R) = Len(P) + 1 /\ R[Len(P) + 1] = x /\ \A i \in 1..Len(P) : R[i] = P[i]
  BY AppendProperties
<1>2. Len(P) \in Nat /\ DOMAIN P = 1..Len(P) /\ DOMAIN R = 1..Len(R)
  BY <1>1, LenProperties
<1>3. ASSUME NEW i \in 0..Len(P)
      PROVE  Under(R, i) = Under(P, i) /\ SectionOf(R, i) = SectionOf(P, i)
  <2>1. i <= Len(R) /\ \A j \in 1..i : R[j] = P[j]
    BY <1>1, <1>2
  <2>. QED  BY <1>1, <2>1, UnderSame
<1>4. CASE x.kind = "header"
  <2>1. Len(P) + 1 \in Headers(R)
    BY <1>1, <1>2, <1>4 DEF Headers
  <2>2. Len(P) + 1 \in 0..Len(R)
    BY <1>1, <1>2
  <2>3. Under(R, Len(P) + 1) = Len(P) + 1
    <3>1. \A h \in Headers(R) : h <= Len(P) + 1 => h <= Len(P) + 1
      OBVIOUS
    <3>2. Len(P) + 1 \in 0..(Len(P) + 1)
      BY <1>2
    <3>. QED  BY <1>1, <2>1, <2>2, <3>1, <3>2, UnderOf
  <2>. QED  BY <1>1, <1>3, <1>4, <2>3 DEF OneMore
<1>5. CASE x.kind # "header"
  <2>. DEFINE u == Under(P, Len(P))
  <2>1. u \in 0..Len(P) /\ (u = 0 \/ u \in Headers(P)) /\ \A h \in Headers(P) : h <= Len(P) => h <= u
    BY <1>2, UnderIs
  <2>2. Headers(R) = Headers(P)
    BY <1>1, <1>2, <1>5 DEF Headers
  <2>3. \A h \in Headers(R) : h <= Len(P) + 1 => h <= u
    BY <1>2, <2>1, <2>2 DEF Headers
  <2>4. u \in 0..(Len(P) + 1) /\ Len(P) + 1 \in 0..Len(R)
    BY <1>1, <1>2, <2>1
  <2>. HIDE DEF u
  <2>5. Under(R, Len(P) + 1) = u
    BY <1>1, <2>1, <2>2, <2>3, <2>4, UnderOf
  <2>. QED  BY <1>1, <1>3, <1>5, <2>5 DEF u, OneMore
<1>. QED  BY <1>4, <1>5

(* What there is to read in R, which is P with the line x behind it. *)
Fresh(P, x) ==
  /\ x.kind = "header" => x.name \notin Names(P)
  /\ x.kind = "key" => \A y \in Given(P, At(P)) : y.name # x.name

Reads(P, x, R) ==
  /\ Names(R) = Names(P) \cup (IF x.kind = "header" THEN {x.name} ELSE {})
  /\ At(R) = IF x.kind = "header" THEN {x.name} ELSE At(P)
  /\ \A T : Given(R, T) = Given(P, T) \cup (IF x.kind = "key" /\ T = At(P) THEN {x} ELSE {})
  /\ NamedOnce(R) <=> NamedOnce(P) /\ Fresh(P, x)

(* The keys given in a section, and the names of the headers.                *)
LEMMA GivenIs ==
  ASSUME NEW P \in Seq(Line), NEW T, NEW y
  PROVE  y \in Given(P, T) <=> \E i \in 1..Len(P) : y = P[i] /\ P[i].kind = "key" /\ SectionOf(P, i) = T
<1>1. DOMAIN P = 1..Len(P)
  BY LenProperties
<1>. QED  BY <1>1 DEF Given

LEMMA NamesAre ==
  ASSUME NEW P \in Seq(Line), NEW s
  PROVE  s \in Names(P) <=> \E i \in 1..Len(P) : P[i].kind = "header" /\ P[i].name = s
<1>1. DOMAIN P = 1..Len(P)
  BY LenProperties
<1>. QED  BY <1>1 DEF Names, Headers

(* All there is to read in a text is read line by line.                      *)
LEMMA Read ==
  ASSUME NEW P \in Seq(Line), NEW x \in Line, NEW R, OneMore(P, x, R, Len(P))
  PROVE  Reads(P, x, R)
<1>. DEFINE n == Len(P)
<1>1. /\ R \in Seq(Line) /\ Len(R) = n + 1 /\ R[n + 1] = x
      /\ \A i \in 1..n : R[i] = P[i]
      /\ \A i \in 0..n : Under(R, i) = Under(P, i) /\ SectionOf(R, i) = SectionOf(P, i)
      /\ Under(R, n + 1) = IF x.kind = "header" THEN n + 1 ELSE Under(P, n)
  BY DEF OneMore
<1>2. n \in Nat /\ DOMAIN P = 1..n /\ DOMAIN R = 1..(n + 1)
  BY <1>1, LenProperties
<1>3. SectionOf(R, n + 1) = IF x.kind = "header" THEN {x.name} ELSE SectionOf(P, n)
  <2>1. CASE x.kind = "header"
    <3>1. SectionOf(R, n + 1) = {R[u].name : u \in {n + 1} \ {0}}
      BY <1>1, <2>1 DEF SectionOf
    <3>2. {n + 1} \ {0} = {n + 1}
      BY <1>2
    <3>. QED  BY <1>1, <2>1, <3>1, <3>2
  <2>2. CASE x.kind # "header"
    <3>1. Under(R, n + 1) = Under(P, n) /\ Under(P, n) \in 0..n
      BY <1>1, <1>2, <2>2, UnderIs
    <3>2. \A u \in {Under(P, n)} \ {0} : R[u].name = P[u].name
      BY <1>1, <1>2, <3>1
    <3>3. SectionOf(R, n + 1) = SectionOf(P, n)
      BY <3>1, <3>2 DEF SectionOf
    <3>. QED  BY <2>2, <3>3
  <2>. QED  BY <2>1, <2>2
<1>4. At(R) = IF x.kind = "header" THEN {x.name} ELSE At(P)
  BY <1>1, <1>3 DEF At
<1>5. Names(R) = Names(P) \cup (IF x.kind = "header" THEN {x.name} ELSE {})
  <2>1. ASSUME NEW s
        PROVE  s \in Names(R) <=> s \in Names(P) \/ (x.kind = "header" /\ s = x.name)
    <3>. DEFINE Has(Q) == s \in Names(Q) <=> \E i \in 1..Len(Q) : Q[i].kind = "header" /\ Q[i].name = s
    <3>0. Has(P) /\ Has(R)
      BY <1>1, NamesAre
    <3>1. s \in Names(R) <=> \E i \in 1..(n + 1) : R[i].kind = "header" /\ R[i].name = s
      BY <1>1, <3>0
    <3>2. s \in Names(P) <=> \E i \in 1..n : P[i].kind = "header" /\ P[i].name = s
      BY <3>0
    <3>. QED  BY <1>1, <1>2, <3>1, <3>2
  <2>. QED  BY <2>1
<1>6. ASSUME NEW T
      PROVE  Given(R, T) = Given(P, T) \cup (IF x.kind = "key" /\ T = At(P) THEN {x} ELSE {})
  <2>1. ASSUME NEW y
        PROVE  y \in Given(R, T) <=> y \in Given(P, T) \/ (x.kind = "key" /\ T = At(P) /\ y = x)
    <3>1. y \in Given(R, T) <=> \E i \in 1..(n + 1) : y = R[i] /\ R[i].kind = "key" /\ SectionOf(R, i) = T
      <4>1. y \in Given(R, T) <=> \E i \in 1..Len(R) : y = R[i] /\ R[i].kind = "key" /\ SectionOf(R, i) = T
        BY <1>1, GivenIs
      <4>. QED  BY <1>1, <4>1
    <3>2. y \in Given(P, T) <=> \E i \in 1..n : y = P[i] /\ P[i].kind = "key" /\ SectionOf(P, i) = T
      BY GivenIs
    <3>3. x.kind = "key" => SectionOf(R, n + 1) = At(P)
      BY <1>3 DEF At
    <3>4. \A i \in 1..n : R[i] = P[i] /\ SectionOf(R, i) = SectionOf(P, i)
      BY <1>1, <1>2
    <3>5. (\E i \in 1..(n + 1) : y = R[i] /\ R[i].kind = "key" /\ SectionOf(R, i) = T)
          <=> \/ \E i \in 1..n : y = R[i] /\ R[i].kind = "key" /\ SectionOf(R, i) = T
              \/ y = R[n + 1] /\ R[n + 1].kind = "key" /\ SectionOf(R, n + 1) = T
      BY <1>2
    <3>. QED  BY <1>1, <3>1, <3>2, <3>3, <3>4, <3>5
  <2>. QED  BY <2>1
<1>7. NamedOnce(R) <=> NamedOnce(P) /\ Fresh(P, x)
  <2>1. HeadersOnce(R) <=> HeadersOnce(P) /\ (x.kind = "header" => x.name \notin Names(P))
    <3>1. \A h : h \in Headers(R) <=> h \in Headers(P) \/ (h = n + 1 /\ x.kind = "header")
      BY <1>1, <1>2 DEF Headers
    <3>2. \A h \in Headers(P) : h \in 1..n /\ R[h] = P[h] /\ h # n + 1
      BY <1>1, <1>2 DEF Headers
    <3>. QED  BY <1>1, <3>1, <3>2 DEF HeadersOnce, Names
  <2>. DEFINE KeysOnce(Q) == \A i, j \in DOMAIN Q :
                Q[i].kind = "key" /\ Q[j].kind = "key" /\ Q[i].name = Q[j].name
                  /\ Under(Q, i) = Under(Q, j) => i = j
  <2>2. KeysOnce(R) <=> /\ KeysOnce(P)
                        /\ x.kind = "key" => \A j \in 1..n : P[j].kind = "key" /\ P[j].name = x.name
                                                               => Under(P, j) # Under(P, n)
    <3>1. \A i \in 1..n : R[i] = P[i] /\ Under(R, i) = Under(P, i) /\ i # n + 1
      BY <1>1, <1>2
    <3>2. x.kind = "key" => R[n + 1].kind = "key" /\ Under(R, n + 1) = Under(P, n)
      BY <1>1
    <3>3. \A i : i \in 1..(n + 1) <=> i \in 1..n \/ i = n + 1
      BY <1>2
    <3>4. KeysOnce(R) => KeysOnce(P)
      BY <1>2, <3>1, <3>3
    <3>5. ASSUME KeysOnce(R), x.kind = "key", NEW j \in 1..n, P[j].kind = "key", P[j].name = x.name
          PROVE  Under(P, j) # Under(P, n)
      BY <1>1, <1>2, <3>1, <3>2, <3>3, <3>5
    <3>6. ASSUME KeysOnce(P),
                 x.kind = "key" => \A j \in 1..n : P[j].kind = "key" /\ P[j].name = x.name
                                                     => Under(P, j) # Under(P, n)
          PROVE  KeysOnce(R)
      <4>1. SUFFICES ASSUME NEW i \in 1..(n + 1), NEW j \in 1..(n + 1), R[i].kind = "key", R[j].kind = "key",
                            R[i].name = R[j].name, Under(R, i) = Under(R, j)
                     PROVE  i = j
        BY <1>2
      <4>2. CASE i \in 1..n /\ j \in 1..n
        BY <1>2, <3>1, <3>6, <4>1, <4>2
      <4>3. CASE i = n + 1 /\ j \in 1..n
        BY <1>1, <3>1, <3>2, <3>6, <4>1, <4>3
      <4>4. CASE j = n + 1 /\ i \in 1..n
        BY <1>1, <3>1, <3>2, <3>6, <4>1, <4>4
      <4>. QED  BY <3>3, <4>2, <4>3, <4>4
    <3>. QED  BY <3>4, <3>5, <3>6
  <2>3. \A Q : NamedOnce(Q) <=> HeadersOnce(Q) /\ KeysOnce(Q)
    BY DEF NamedOnce, HeadersOnce
  <2>. HIDE DEF KeysOnce
  <2>4. ASSUME HeadersOnce(P)
        PROVE  (\A y \in Given(P, At(P)) : y.name # x.name)
               <=> \A j \in 1..n : P[j].kind = "key" /\ P[j].name = x.name => Under(P, j) # Under(P, n)
    <3>1. \A j \in 1..n : SectionOf(P, j) = At(P) <=> Under(P, j) = Under(P, n)
      <4>1. \A j \in 1..n : j \in 0..n /\ n \in 0..n
        BY <1>2
      <4>. QED  BY <2>4, <4>1, SameUnder DEF At, SectionOf
    <3>2. \A y : y \in Given(P, At(P)) <=> \E i \in 1..n : y = P[i] /\ P[i].kind = "key" /\ SectionOf(P, i) = At(P)
      BY GivenIs
    <3>. QED  BY <3>1, <3>2
  <2>. QED  BY <2>1, <2>2, <2>3, <2>4 DEF Fresh
<1>. QED  BY <1>4, <1>5, <1>6, <1>7 DEF Reads

LEMMA WithLine ==
  ASSUME NEW P \in Seq(Line), NEW x \in Line
  PROVE  /\ P \o <<x>> \in Seq(Line)
         /\ OneMore(P, x, P \o <<x>>, Len(P)) /\ Reads(P, x, P \o <<x>>)
<1>1. Append(P, x) = P \o <<x>>
  BY AppendIsConcat
<1>. DEFINE R == P \o <<x>>
<1>2. R = Append(P, x)
  BY <1>1
<1>. HIDE DEF R
<1>3. OneMore(P, x, R, Len(P))
  BY <1>2, Grown
<1>4. Reads(P, x, R)
  BY <1>3, Read
<1>. QED  BY <1>3, <1>4 DEF OneMore, R

(* Two texts in which the same is read. *)
Same(P, R) ==
  /\ Names(R) = Names(P) /\ At(R) = At(P) /\ \A T : Given(R, T) = Given(P, T)
  /\ NamedOnce(R) <=> NamedOnce(P)

(* What reads the same may stand in front of a line for the other ...        *)
LEMMA SameFirst ==
  ASSUME NEW P, NEW O, NEW R, NEW x, Same(P, O), Reads(O, x, R)
  PROVE  Reads(P, x, R)
<1>1. Fresh(O, x) <=> Fresh(P, x)
  BY DEF Same, Fresh
<1>. QED  BY <1>1 DEF Same, Reads

(* ... and a comment, a blank or a further line changes nothing.             *)
LEMMA PlainLine ==
  ASSUME NEW P, NEW O, NEW R, NEW x, Same(P, O), Reads(O, x, R), x.kind \in {"comment", "blank", "rest"}
  PROVE  Same(P, R)
<1>1. x.kind # "header" /\ x.kind # "key"
  OBVIOUS
<1>2. Fresh(O, x)
  BY <1>1 DEF Fresh
<1>3. Names(R) = Names(O) \cup {} /\ At(R) = At(O)
  BY <1>1 DEF Reads
<1>4. ASSUME NEW T PROVE Given(R, T) = Given(O, T)
  <2>1. Given(R, T) = Given(O, T) \cup {}
    BY <1>1 DEF Reads
  <2>. QED  BY <2>1
<1>5. NamedOnce(R) <=> NamedOnce(O)
  BY <1>2 DEF Reads
<1>. QED  BY <1>3, <1>4, <1>5 DEF Same

(* Lines of another text put behind P, one by one ... *)
LEMMA LineBehind ==
  ASSUME NEW P \in Seq(Line), NEW Q \in Seq(Line), NEW a \in 1..Len(Q), NEW b \in a..Len(Q)
  PROVE  /\ P \o SubSeq(Q, a, b - 1) \in Seq(Line) /\ P \o SubSeq(Q, a, b) \in Seq(Line)
         /\ P \o SubSeq(Q, a, b) = (P \o SubSeq(Q, a, b - 1)) \o <<Q[b]>>
         /\ Reads(P \o SubSeq(Q, a, b - 1), Q[b], P \o SubSeq(Q, a, b))
<1>1. Len(Q) \in Nat /\ Q \in [1..Len(Q) -> Line]
  BY LenProperties
<1>2. SubSeq(Q, a, b) = SubSeq(Q, a, b - 1) \o <<Q[b]>>
  BY SubSeqRecursiveSecond
<1>. DEFINE s == SubSeq(Q, a, b - 1)
            one == <<Q[b]>>
<1>3. Q[b] \in Line /\ \A i \in a..(b - 1) : Q[i] \in Line
  BY <1>1
<1>4. s \in Seq(Line)
  <2>1. a \in Int /\ b - 1 \in Int
    BY <1>1
  <2>. QED  BY <1>3, <2>1, SubSeqProperties
<1>5. one \in Seq(Line)
  BY <1>3
<1>. HIDE DEF s
<1>6. P \o s \in Seq(Line)
  BY <1>4, ConcatProperties
<1>7. (P \o s) \o one \in Seq(Line) /\ Reads(P \o s, Q[b], (P \o s) \o one)
  BY <1>3, <1>6, WithLine
<1>. HIDE DEF one
<1>8. P \o (s \o one) = (P \o s) \o one
  BY <1>4, <1>5, Regrouped
<1>9. P \o SubSeq(Q, a, b) = (P \o s) \o one
  BY <1>2, <1>8 DEF s, one
<1>. QED  BY <1>6, <1>7, <1>9 DEF s, one

(* ... of which only headers and keys change anything. *)
LEMMA BlockBehind ==
  ASSUME NEW P \in Seq(Line), NEW Q \in Seq(Line), NEW a \in 1..Len(Q), NEW j \in a..Len(Q),
         \A l \in a..(j - 1) : Q[l].kind \in {"comment", "blank", "rest"}
  PROVE  P \o SubSeq(Q, a, j) \in Seq(Line) /\ Reads(P, Q[j], P \o SubSeq(Q, a, j))
<1>. DEFINE R(l) == P \o SubSeq(Q, a, a + l - 1)
            m == j - a
            S == {l \in 0..m : Same(P, R(l))}
<1>0. Len(Q) \in Nat /\ m \in Nat
  BY LenProperties
<1>1. 0 \in S
  <2>1. SubSeq(Q, a, a + 0 - 1) = <<>>
    BY <1>0, SubSeqEmpty
  <2>2. R(0) = P
    BY <2>1, ConcatEmptySeq
  <2>3. Same(P, P)
    BY DEF Same
  <2>. HIDE DEF R, m
  <2>. QED  BY <1>0, <2>2, <2>3
<1>2. ASSUME NEW l \in 1..m, l - 1 \in S PROVE l \in S
  <2>. DEFINE b == a + l - 1
  <2>1. b \in a..Len(Q) /\ b \in a..(j - 1) /\ a + (l - 1) - 1 = b - 1
    BY <1>0
  <2>2. Same(P, P \o SubSeq(Q, a, b - 1))
    BY <1>2, <2>1
  <2>. HIDE DEF b
  <2>3. Reads(P \o SubSeq(Q, a, b - 1), Q[b], P \o SubSeq(Q, a, b))
    BY <2>1, LineBehind
  <2>4. Q[b].kind \in {"comment", "blank", "rest"}
    BY <2>1
  <2>5. Same(P, P \o SubSeq(Q, a, b))
    BY <2>2, <2>3, <2>4, PlainLine
  <2>. QED  BY <2>5 DEF b
<1>3. m \in S
  <2>1. 0..m \subseteq S
    <3>. HIDE DEF S, m
    <3>. QED  BY <1>0, <1>1, <1>2, UpTo
  <2>. HIDE DEF S, m
  <2>. QED  BY <1>0, <2>1
<1>4. Same(P, P \o SubSeq(Q, a, j - 1))
  <2>1. a + m - 1 = j - 1
    BY <1>0
  <2>. QED  BY <1>3, <2>1
<1>5. P \o SubSeq(Q, a, j) \in Seq(Line) /\ Reads(P \o SubSeq(Q, a, j - 1), Q[j], P \o SubSeq(Q, a, j))
  BY LineBehind
<1>. QED  BY <1>4, <1>5, SameFirst

-----------------------------------------------------------------------------
(* Configuration: what the defaults put behind a text.                       *)

(* The defaults are such a text.                                             *)
LEMMA ShippedIs ==
  /\ Shipped \in Seq(Line) /\ NamedOnce(Shipped) /\ HeadersOnce(Shipped) /\ Complete(Shipped)
  /\ Len(Shipped) \in Nat /\ DOMAIN Shipped = 1..Len(Shipped)
  /\ \A i \in 1..Len(Shipped) : Shipped[i] \in Line
<1>1. Shipped \in Seq(Line) /\ NamedOnce(Shipped) /\ Complete(Shipped)
  BY ConfigAssumption DEF WellFormed
<1>. QED  BY <1>1, LenProperties DEF NamedOnce, HeadersOnce

(* No line before a header or key of the defaults that goes with it is one.   *)
LEMMA PrecedingIs ==
  ASSUME NEW i \in 1..Len(Shipped)
  PROVE  /\ Preceding(i) \in 0..(i - 1)
         /\ \A l \in (Preceding(i) + 1)..(i - 1) : Shipped[l].kind \in {"comment", "blank", "rest"}
<1>. DEFINE S == {0} \cup {j \in 1..(i - 1) : Shipped[j].kind \in {"header", "key"}}
<1>1. S \subseteq 0..(i - 1) /\ S # {} /\ i - 1 \in Nat
  BY ShippedIs
<1>2. Preceding(i) = Max(S)
  BY DEF Preceding
<1>3. Max(S) \in S /\ \A j \in S : j <= Max(S)
  <2>. HIDE DEF S
  <2>. QED  BY <1>1, MaxOf
<1>4. Preceding(i) \in 0..(i - 1)
  BY <1>1, <1>2, <1>3
<1>5. ASSUME NEW l \in (Preceding(i) + 1)..(i - 1)
      PROVE  Shipped[l].kind \in {"comment", "blank", "rest"}
  <2>1. l \in 1..(i - 1) /\ ~ (l <= Preceding(i)) /\ l \in 1..Len(Shipped)
    BY <1>4, ShippedIs
  <2>2. l \notin S
    BY <1>2, <1>3, <2>1
  <2>3. Shipped[l].kind \in {"header", "key", "comment", "blank", "rest"}
    BY <2>1, ShippedIs, LineIs
  <2>. QED  BY <2>1, <2>2, <2>3
<1>. QED  BY <1>4, <1>5

(* The keys in a section, by their place.                                    *)
LEMMA KeysAre ==
  ASSUME NEW P \in Seq(Line), NEW s, NEW i
  PROVE  i \in KeysIn(P, s) <=> i \in 1..Len(P) /\ P[i].kind = "key" /\ SectionOf(P, i) = {s}
<1>1. DOMAIN P = 1..Len(P)
  BY LenProperties
<1>2. SectionOf(P, i) = {s} <=> Under(P, i) # 0 /\ P[Under(P, i)].name = s
  <2>. DEFINE u == Under(P, i)
  <2>1. SectionOf(P, i) = {P[v].name : v \in {u} \ {0}}
    BY DEF SectionOf
  <2>. HIDE DEF u
  <2>2. CASE u = 0
    BY <2>1, <2>2 DEF u
  <2>3. CASE u # 0
    <3>1. SectionOf(P, i) = {P[u].name}
      BY <2>1, <2>3
    <3>. QED  BY <2>3, <3>1 DEF u
  <2>. QED  BY <2>2, <2>3
<1>. QED  BY <1>1, <1>2 DEF KeysIn

(* Two keys of a section of the defaults have two names.                     *)
LEMMA KeysDiffer ==
  ASSUME NEW s, NEW i \in KeysIn(Shipped, s), NEW j \in KeysIn(Shipped, s), i # j
  PROVE  Shipped[i].name # Shipped[j].name
<1>1. /\ i \in 1..Len(Shipped) /\ Shipped[i].kind = "key" /\ SectionOf(Shipped, i) = {s}
      /\ j \in 1..Len(Shipped) /\ Shipped[j].kind = "key" /\ SectionOf(Shipped, j) = {s}
  BY KeysAre, ShippedIs
<1>2. i \in 0..Len(Shipped) /\ j \in 0..Len(Shipped)
  BY <1>1, ShippedIs
<1>3. Under(Shipped, i) = Under(Shipped, j)
  BY <1>1, <1>2, ShippedIs, SameUnder
<1>. QED  BY <1>1, <1>3, ShippedIs DEF NamedOnce

(* A key is given only in a section that is there.                           *)
LEMMA GivenNamed ==
  ASSUME NEW P \in Seq(Line), NEW s, NEW y \in Given(P, {s})
  PROVE  s \in Names(P)
<1>1. PICK i \in 1..Len(P) : SectionOf(P, i) = {s}
  BY GivenIs
<1>2. i \in 0..Len(P)
  BY LenProperties
<1>3. Under(P, i) = 0 \/ Under(P, i) \in Headers(P)
  BY <1>2, UnderIs
<1>. QED  BY <1>1, <1>3 DEF SectionOf, Names

(* What the keys J of the defaults, those of section s, are in section T. *)
Added(T, s, J) == {Shipped[j] : j \in {i \in J : T = {s}}}

(* R is P with the keys J of the defaults in section s. *)
Filled(P, s, J, R) ==
  /\ R \in Seq(Line) /\ NamedOnce(R) /\ Names(R) = Names(P) /\ At(R) = {s}
  /\ \A T : Given(R, T) = Given(P, T) \cup Added(T, s, J)

(* A key of the defaults brings itself, its comments nothing ...             *)
LEMMA BlockLine ==
  ASSUME NEW i \in 1..Len(Shipped), NEW P \in Seq(Line)
  PROVE  /\ Block(i) \in Seq(Line) /\ P \o Block(i) \in Seq(Line)
         /\ Reads(P, Shipped[i], P \o Block(i))
<1>. DEFINE a == Preceding(i) + 1
<1>1. Preceding(i) \in 0..(i - 1) /\ \A l \in (Preceding(i) + 1)..(i - 1) : Shipped[l].kind \in {"comment", "blank", "rest"}
  BY PrecedingIs
<1>2. a \in 1..Len(Shipped) /\ i \in a..Len(Shipped) /\ \A l \in a..(i - 1) : Shipped[l].kind \in {"comment", "blank", "rest"}
  BY <1>1, ShippedIs
<1>3. Block(i) = SubSeq(Shipped, a, i)
  BY DEF Block
<1>. HIDE DEF a
<1>4. P \o SubSeq(Shipped, a, i) \in Seq(Line) /\ Reads(P, Shipped[i], P \o SubSeq(Shipped, a, i))
  BY <1>2, ShippedIs, BlockBehind
<1>5. SubSeq(Shipped, a, i) \in Seq(Line)
  <2>1. a \in Int /\ i \in Int /\ \A l \in a..i : Shipped[l] \in Line
    BY <1>2, ShippedIs
  <2>. QED  BY <2>1, SubSeqProperties
<1>. QED  BY <1>3, <1>4, <1>5

(* ... and the keys of a section bring themselves, once each.                *)
LEMMA BlocksFilled ==
  ASSUME NEW P \in Seq(Line), NamedOnce(P), NEW s, At(P) = {s},
         NEW J \in SUBSET KeysIn(Shipped, s),
         \A j \in J : \A y \in Given(P, {s}) : y.name # Shipped[j].name
  PROVE  Blocks(J) \in Seq(Line) /\ Filled(P, s, J, P \o Blocks(J))
<1>. DEFINE n == Len(Shipped)
            seqs == [i \in DOMAIN Shipped |-> IF i \in J THEN Block(i) ELSE <<>>]
            Upto(i) == J \cap (1..i)
<1>1. n \in Nat /\ DOMAIN Shipped = 1..n
  BY ShippedIs
<1>2. seqs \in [1..n -> Seq(Line)]
  <2>1. \A i \in 1..n : Block(i) \in Seq(Line)
    BY BlockLine, EmptySeq
  <2>2. <<>> \in Seq(Line)
    BY EmptySeq
  <2>. QED  BY <1>1, <2>1, <2>2
<1>3. \A i \in 1..n : seqs[i] = IF i \in J THEN Block(i) ELSE <<>>
  BY <1>1
<1>4. Blocks(J) = FlattenSeq(seqs)
  BY DEF Blocks
<1>. HIDE DEF seqs
<1>5. PICK acc \in [0..n -> Seq(Line)] : Joins(acc, n, P, seqs) /\ acc[n] = P \o FlattenSeq(seqs)
  BY <1>1, <1>2, FlattenAfter
<1>6. FlattenSeq(seqs) \in Seq(Line)
  <2>1. PICK f \in [0..n -> Seq(Line)] : FlattenSeq(seqs) = f[n]
    BY <1>1, <1>2, FlattenIs
  <2>. QED  BY <1>1, <2>1
<1>7. \A i \in J : i \in 1..n /\ Shipped[i].kind = "key"
  BY KeysAre, ShippedIs
<1>. DEFINE S == {i \in 0..n : Filled(P, s, Upto(i), acc[i])}
<1>8. 0 \in S
  <2>1. acc[0] = P /\ 0 \in 0..n
    BY <1>1, <1>5 DEF Joins
  <2>2. Upto(0) = {}
    OBVIOUS
  <2>3. Filled(P, s, {}, P)
    BY DEF Filled, Added
  <2>. HIDE DEF Upto
  <2>. QED  BY <2>1, <2>2, <2>3
<1>9. ASSUME NEW i \in 1..n, i - 1 \in S PROVE i \in S
  <2>1. i \in 0..n /\ i - 1 \in 0..n
    BY <1>1
  <2>. DEFINE O == acc[i - 1]
              R == acc[i]
  <2>2. R = O \o seqs[i] /\ O \in Seq(Line) /\ Filled(P, s, Upto(i - 1), O)
    BY <1>5, <1>9, <2>1 DEF Joins
  <2>3. CASE i \notin J
    <3>1. Upto(i) = Upto(i - 1)
      BY <1>1, <1>7, <2>3
    <3>2. R = O
      <4>1. seqs[i] = <<>>
        BY <1>3, <2>3
      <4>. HIDE DEF R, O
      <4>. QED  BY <2>2, <4>1, ConcatEmptySeq
    <3>. HIDE DEF Upto
    <3>3. Filled(P, s, Upto(i), R)
      BY <2>2, <3>1, <3>2
    <3>. QED  BY <2>1, <3>3
  <2>4. CASE i \in J
    <3>1. Upto(i) = Upto(i - 1) \cup {i} /\ i \notin Upto(i - 1) /\ Upto(i - 1) \subseteq J
      BY <1>1, <1>7, <2>4
    <3>2. seqs[i] = Block(i)
      BY <1>3, <2>4
    <3>. DEFINE before == Upto(i - 1)
    <3>3. Filled(P, s, before, O)
      BY <2>2
    <3>. HIDE DEF Upto, R, O, before
    <3>4. R \in Seq(Line) /\ Reads(O, Shipped[i], R)
      BY <2>2, <3>2, BlockLine
    <3>5. Shipped[i].kind = "key" /\ Shipped[i].kind # "header" /\ At(O) = {s} /\ NamedOnce(O)
      BY <1>7, <2>4, <3>3 DEF Filled
    <3>6. ASSUME NEW y \in Given(O, {s}) PROVE y.name # Shipped[i].name
      <4>1. CASE y \in Given(P, {s})
        BY <2>4, <4>1
      <4>2. CASE \E j \in before : y = Shipped[j]
        <5>1. PICK j \in before : y = Shipped[j]
          BY <4>2
        <5>2. j \in KeysIn(Shipped, s) /\ i \in KeysIn(Shipped, s) /\ i # j
          BY <2>4, <3>1, <5>1 DEF before
        <5>. QED  BY <5>1, <5>2, KeysDiffer
      <4>3. y \in Given(P, {s}) \cup Added({s}, s, before)
        BY <3>3, <3>6 DEF Filled
      <4>. QED  BY <4>1, <4>2, <4>3 DEF Added
    <3>7. Fresh(O, Shipped[i])
      BY <3>5, <3>6 DEF Fresh
    <3>8. NamedOnce(R) /\ At(R) = {s}
      BY <3>4, <3>5, <3>7 DEF Reads
    <3>9. Names(R) = Names(P)
      BY <3>3, <3>4, <3>5 DEF Reads, Filled
    <3>10. ASSUME NEW T
           PROVE  Given(R, T) = Given(P, T) \cup Added(T, s, Upto(i))
      <4>1. Given(R, T) = Given(O, T) \cup (IF T = {s} THEN {Shipped[i]} ELSE {})
        BY <3>4, <3>5 DEF Reads
      <4>2. Given(O, T) = Given(P, T) \cup Added(T, s, before)
        BY <3>3 DEF Filled
      <4>3. Upto(i) = before \cup {i}
        BY <3>1 DEF before
      <4>. QED  BY <4>1, <4>2, <4>3 DEF Added
    <3>11. Filled(P, s, Upto(i), R)
      BY <3>4, <3>8, <3>9, <3>10 DEF Filled
    <3>. QED  BY <2>1, <3>11 DEF R
  <2>. QED  BY <2>3, <2>4
<1>10. n \in S
  <2>. HIDE DEF S
  <2>1. 0..n \subseteq S
    BY <1>1, <1>8, <1>9, UpTo
  <2>. QED  BY <1>1, <2>1
<1>11. Upto(n) = J
  BY <1>7
<1>. HIDE DEF Upto
<1>. QED  BY <1>4, <1>5, <1>6, <1>10, <1>11

(* What the sections D of the defaults bring to section T of a file. *)
Brings(old, D, T) ==
  {Shipped[j] : j \in {k \in DOMAIN Shipped : \E s \in D : k \in Missing(old, s) /\ T = {s}}}

(* R is P, a part of the new file, with the sections D dealt with. *)
Merged(P, old, D, R) ==
  /\ R \in Seq(Line) /\ NamedOnce(R)
  /\ \A T : Given(R, T) = Given(P, T) \cup Brings(old, D, T)

(* One more section brings its missing keys.                                 *)
LEMMA BroughtNext ==
  ASSUME NEW old, NEW D, NEW s, NEW T
  PROVE  Brings(old, D \cup {s}, T)
           = Brings(old, D, T) \cup Added(T, s, Missing(old, s))
<1>1. Missing(old, s) \subseteq DOMAIN Shipped
  BY DEF Missing, KeysIn
<1>. HIDE DEF Missing
<1>2. ASSUME NEW y
      PROVE  y \in Brings(old, D \cup {s}, T)
             <=> y \in Brings(old, D, T) \/ y \in Added(T, s, Missing(old, s))
  BY <1>1 DEF Brings, Added
<1>. QED  BY <1>2

(* A section that is appended whole brings its header and all of its keys.   *)
LEMMA SectionBehind ==
  ASSUME NEW P \in Seq(Line), NamedOnce(P), NEW i \in Headers(Shipped), Shipped[i].name \notin Names(P)
  PROVE  LET s == Shipped[i].name
             R == P \o Section(i)
         IN  /\ Section(i) \in Seq(Line) /\ R \in Seq(Line) /\ NamedOnce(R)
             /\ Names(R) = Names(P) \cup {s}
             /\ \A T : Given(R, T) = Given(P, T) \cup Added(T, s, KeysIn(Shipped, s))
<1>. DEFINE s == Shipped[i].name
            solid == {j \in (Preceding(i) + 1)..i : Shipped[j] # Blank}
            first == Min(solid)
            text == SubSeq(Shipped, first, i)
            J == KeysIn(Shipped, s)
            blank == <<Blank>>
            A == P \o blank
            B == A \o text
            R == B \o Blocks(J)
<1>1. i \in 1..Len(Shipped) /\ Shipped[i].kind = "header"
  BY ShippedIs DEF Headers
<1>2. Preceding(i) \in 0..(i - 1) /\ \A l \in (Preceding(i) + 1)..(i - 1) : Shipped[l].kind \in {"comment", "blank", "rest"}
  BY <1>1, PrecedingIs
<1>3. first \in (Preceding(i) + 1)..i
  <2>1. Shipped[i] # Blank
    BY <1>1 DEF Blank
  <2>2. i \in solid /\ solid \subseteq Nat
    BY <1>1, <1>2, <2>1
  <2>3. Min(solid) \in solid
    <3>. HIDE DEF solid
    <3>. QED  BY <2>2, MinOf
  <2>. QED  BY <2>3
<1>. HIDE DEF first
<1>4. first \in 1..Len(Shipped) /\ i \in first..Len(Shipped) /\ \A l \in first..(i - 1) : Shipped[l].kind \in {"comment", "blank", "rest"}
  BY <1>1, <1>2, <1>3, ShippedIs
<1>5. Blank \in Line /\ Blank.kind = "blank"
  BY DEF Line, Blank
<1>6. A \in Seq(Line) /\ Reads(P, Blank, A)
  BY <1>5, WithLine
<1>7. Same(P, A)
  <2>1. Same(P, P)
    BY DEF Same
  <2>. HIDE DEF A
  <2>. QED  BY <1>5, <1>6, <2>1, PlainLine
<1>8. B \in Seq(Line) /\ Reads(A, Shipped[i], B)
  <2>. HIDE DEF A
  <2>. QED  BY <1>4, <1>6, ShippedIs, BlockBehind
<1>9. Reads(P, Shipped[i], B)
  <2>. HIDE DEF A, B
  <2>. QED  BY <1>7, <1>8, SameFirst
<1>. HIDE DEF B
<1>10. Shipped[i].kind # "key"
  BY <1>1
<1>11. /\ Names(B) = Names(P) \cup {s} /\ At(B) = {s} /\ NamedOnce(B)
       /\ \A T : Given(B, T) = Given(P, T)
  <2>1. Fresh(P, Shipped[i])
    BY <1>10 DEF Fresh
  <2>2. ASSUME NEW T PROVE Given(B, T) = Given(P, T)
    <3>1. Given(B, T) = Given(P, T) \cup {}
      BY <1>9, <1>10 DEF Reads
    <3>. QED  BY <3>1
  <2>. QED  BY <1>1, <1>9, <2>1, <2>2 DEF Reads
<1>12. \A j \in J : \A y \in Given(B, {s}) : y.name # Shipped[j].name
  <2>1. Given(P, {s}) = {}
    BY GivenNamed
  <2>. QED  BY <1>11, <2>1
<1>. HIDE DEF s
<1>13. Blocks(J) \in Seq(Line) /\ Filled(B, s, J, R)
  BY <1>8, <1>11, <1>12, BlocksFilled
<1>14. /\ R \in Seq(Line) /\ NamedOnce(R) /\ Names(R) = Names(P) \cup {s}
       /\ \A T : Given(R, T) = Given(P, T) \cup Added(T, s, J)
  BY <1>11, <1>13 DEF Filled
<1>15. Section(i) \in Seq(Line) /\ P \o Section(i) = R
  <2>1. Section(i) = (blank \o text) \o Blocks(J)
    BY DEF Section, first, s
  <2>2. blank \in Seq(Line)
    BY <1>5
  <2>3. text \in Seq(Line)
    <3>1. first \in Int /\ i \in Int /\ \A l \in first..i : Shipped[l] \in Line
      BY <1>4, ShippedIs
    <3>. QED  BY <3>1, SubSeqProperties
  <2>4. B = A \o text
    BY DEF B
  <2>. HIDE DEF blank, text, J
  <2>5. blank \o text \in Seq(Line)
    BY <2>2, <2>3, ConcatProperties
  <2>6. Section(i) \in Seq(Line)
    BY <1>13, <2>1, <2>5, ConcatProperties
  <2>7. P \o ((blank \o text) \o Blocks(J)) = (P \o (blank \o text)) \o Blocks(J)
    BY <1>13, <2>5, Regrouped
  <2>8. P \o (blank \o text) = (P \o blank) \o text
    BY <2>2, <2>3, Regrouped
  <2>. QED  BY <2>1, <2>4, <2>6, <2>7, <2>8
<1>. HIDE DEF R
<1>. QED  BY <1>14, <1>15 DEF s

LEMMA SectionIs ==
  ASSUME NEW i \in Headers(Shipped)
  PROVE  Section(i) \in Seq(Line)
<1>. DEFINE empty == <<>>
<1>1. empty \in Seq(Line) /\ DOMAIN empty = {}
  BY EmptySeq
<1>2. Headers(empty) = {}
  BY <1>1 DEF Headers
<1>. HIDE DEF empty
<1>3. NamedOnce(empty) /\ Names(empty) = {}
  BY <1>1, <1>2 DEF NamedOnce, Names
<1>. QED  BY <1>1, <1>3, SectionBehind

(* In a section that is not there every key is missing.                      *)
LEMMA AllMissing ==
  ASSUME NEW old \in Seq(Line), NEW s, s \notin Names(old)
  PROVE  Missing(old, s) = KeysIn(Shipped, s)
<1>1. KeysIn(old, s) = {}
  <2>1. SUFFICES ASSUME NEW i \in KeysIn(old, s) PROVE FALSE
    OBVIOUS
  <2>2. i \in 1..Len(old) /\ old[i].kind = "key" /\ SectionOf(old, i) = {s}
    BY <2>1, KeysAre
  <2>3. old[i] \in Given(old, {s})
    BY <2>2, GivenIs
  <2>. QED  BY <2>3, GivenNamed
<1>2. KeyNames(old, s) = {}
  BY <1>1 DEF KeyNames
<1>. QED  BY <1>2 DEF Missing

(* The sections that go to the end: each is new, and so are its keys.        *)
TailOf(old) ==
  FlattenSeq([i \in DOMAIN Shipped |->
       IF i \in Headers(Shipped) /\ Shipped[i].name \in MissingSections(old)
       THEN Section(i) ELSE <<>>])

LEMMA TailMerged ==
  ASSUME NEW old \in Seq(Line), NEW P \in Seq(Line), NamedOnce(P), Names(P) = Names(old)
  PROVE  /\ TailOf(old) \in Seq(Line) /\ Merged(P, old, MissingSections(old), P \o TailOf(old))
         /\ Names(P \o TailOf(old)) = Names(old) \cup Names(Shipped)
<1>. DEFINE n == Len(Shipped)
            New == {i \in Headers(Shipped) : Shipped[i].name \in MissingSections(old)}
            seqs == [i \in DOMAIN Shipped |->
                       IF i \in Headers(Shipped) /\ Shipped[i].name \in MissingSections(old)
                       THEN Section(i) ELSE <<>>]
            Dealt(i) == {Shipped[h].name : h \in {g \in New : g <= i}}
<1>1. n \in Nat /\ DOMAIN Shipped = 1..n /\ New \subseteq 1..n
  BY ShippedIs DEF Headers
<1>2. seqs \in [1..n -> Seq(Line)]
  <2>1. \A i \in Headers(Shipped) : Section(i) \in Seq(Line)
    BY SectionIs
  <2>2. <<>> \in Seq(Line)
    BY EmptySeq
  <2>. QED  BY <1>1, <2>1, <2>2
<1>3. \A i \in 1..n : seqs[i] = IF i \in New THEN Section(i) ELSE <<>>
  BY <1>1
<1>4. TailOf(old) = FlattenSeq(seqs)
  BY DEF TailOf
<1>. HIDE DEF seqs
<1>5. PICK acc \in [0..n -> Seq(Line)] : Joins(acc, n, P, seqs) /\ acc[n] = P \o FlattenSeq(seqs)
  BY <1>1, <1>2, FlattenAfter
<1>6. FlattenSeq(seqs) \in Seq(Line)
  <2>1. PICK f \in [0..n -> Seq(Line)] : FlattenSeq(seqs) = f[n]
    BY <1>1, <1>2, FlattenIs
  <2>. QED  BY <1>1, <2>1
<1>7. \A i \in New : /\ Shipped[i].name \notin Names(old) /\ i \in Headers(Shipped)
                     /\ \A h \in New : h # i => Shipped[h].name # Shipped[i].name
  BY ShippedIs DEF HeadersOnce, MissingSections
<1>. DEFINE S == {i \in 0..n : Merged(P, old, Dealt(i), acc[i]) /\ Names(acc[i]) = Names(P) \cup Dealt(i)}
<1>8. 0 \in S
  <2>1. acc[0] = P /\ 0 \in 0..n
    BY <1>1, <1>5 DEF Joins
  <2>2. Dealt(0) = {}
    BY <1>1
  <2>3. \A T : Given(P, T) = Given(P, T) \cup Brings(old, {}, T)
    BY DEF Brings
  <2>4. Merged(P, old, {}, P) /\ Names(P) = Names(P) \cup {}
    BY <2>3 DEF Merged
  <2>. HIDE DEF Dealt
  <2>. QED  BY <2>1, <2>2, <2>4
<1>9. ASSUME NEW i \in 1..n, i - 1 \in S PROVE i \in S
  <2>1. i \in 0..n /\ i - 1 \in 0..n
    BY <1>1
  <2>. DEFINE O == acc[i - 1]
              R == acc[i]
  <2>2. R = O \o seqs[i] /\ O \in Seq(Line)
    BY <1>5, <2>1 DEF Joins
  <2>3. Merged(P, old, Dealt(i - 1), O) /\ Names(O) = Names(P) \cup Dealt(i - 1)
    BY <1>9
  <2>4. CASE i \notin New
    <3>1. Dealt(i) = Dealt(i - 1)
      <4>1. \A g \in New : g <= i <=> g <= i - 1
        BY <1>1, <2>4
      <4>. QED  BY <4>1
    <3>2. R = O
      <4>1. seqs[i] = <<>>
        BY <1>3, <2>4
      <4>. HIDE DEF R, O
      <4>. QED  BY <2>2, <4>1, ConcatEmptySeq
    <3>. HIDE DEF Dealt
    <3>. QED  BY <2>1, <2>3, <3>1, <3>2
  <2>5. CASE i \in New
    <3>. DEFINE s == Shipped[i].name
                before == Dealt(i - 1)
    <3>1. Dealt(i) = before \cup {s} /\ s \notin before
      <4>1. \A g \in New : g <= i <=> (g <= i - 1 \/ g = i)
        BY <1>1
      <4>2. ~ (i <= i - 1)
        BY <1>1
      <4>. QED  BY <1>7, <2>5, <4>1, <4>2
    <3>2. seqs[i] = Section(i)
      BY <1>3, <2>5
    <3>3. Merged(P, old, before, O) /\ Names(O) = Names(P) \cup before
      BY <2>3
    <3>. HIDE DEF Dealt, R, O, before
    <3>4. s \notin Names(O) /\ s \notin Names(old) /\ NamedOnce(O) /\ i \in Headers(Shipped)
      BY <1>7, <2>5, <3>1, <3>3 DEF Merged
    <3>5. /\ R \in Seq(Line) /\ NamedOnce(R) /\ Names(R) = Names(O) \cup {s}
          /\ \A T : Given(R, T) = Given(O, T) \cup Added(T, s, KeysIn(Shipped, s))
      BY <2>2, <3>2, <3>4, SectionBehind
    <3>6. Missing(old, s) = KeysIn(Shipped, s)
      BY <3>4, AllMissing
    <3>7. ASSUME NEW T PROVE Given(R, T) = Given(P, T) \cup Brings(old, Dealt(i), T)
      <4>1. Given(O, T) = Given(P, T) \cup Brings(old, before, T)
        BY <3>3 DEF Merged
      <4>2. Brings(old, Dealt(i), T)
              = Brings(old, before, T) \cup Added(T, s, KeysIn(Shipped, s))
        <5>1. Brings(old, before \cup {s}, T)
                = Brings(old, before, T) \cup Added(T, s, Missing(old, s))
          BY BroughtNext
        <5>. QED  BY <3>1, <3>6, <5>1
      <4>. QED  BY <3>5, <4>1, <4>2
    <3>8. Merged(P, old, Dealt(i), R) /\ Names(R) = Names(P) \cup Dealt(i)
      BY <3>1, <3>3, <3>5, <3>7 DEF Merged
    <3>. QED  BY <2>1, <3>8 DEF R
  <2>. QED  BY <2>4, <2>5
<1>10. n \in S
  <2>. HIDE DEF S
  <2>1. 0..n \subseteq S
    BY <1>1, <1>8, <1>9, UpTo
  <2>. QED  BY <1>1, <2>1
<1>11. Dealt(n) = MissingSections(old)
  <2>1. \A g \in New : g <= n
    BY <1>1
  <2>. QED  BY <2>1 DEF MissingSections, Names
<1>12. Names(P) \cup MissingSections(old) = Names(old) \cup Names(Shipped)
  BY DEF MissingSections
<1>. HIDE DEF Dealt
<1>. QED  BY <1>4, <1>5, <1>6, <1>10, <1>11, <1>12

-----------------------------------------------------------------------------
(* Configuration: the lines of old, and what is inserted behind them.        *)

(* Nothing is said from line e on up to the next header. *)
Silent(P, e) ==
  \E b \in e..Len(P) :
    /\ \A l \in (e + 1)..b : P[l] \in {Comment, Blank}
    /\ b = Len(P) \/ b + 1 \in Headers(P)

(* A section ends in itself; at a comment only if nothing but blanks follow;   *)
(* and what it says has come to its end.                                       *)
LEMMA EndLies ==
  ASSUME NEW P \in Seq(Line), NEW s \in Names(P)
  PROVE  LET e == SectionEnd(P, s)
         IN  /\ e \in 1..Len(P) /\ SectionOf(P, e) = {s}
             /\ P[e] = Comment => \A j \in (e + 1)..Len(P) : P[j] = Blank
             /\ Silent(P, e)
<1>. DEFINE named == {h \in Headers(P) : P[h].name = s}
            start == Min(named)
            next == {h \in Headers(P) : h > start}
            below == IF next = {} THEN Len(P) ELSE Min(next) - 1
            full == {start} \cup {i \in start..below : P[i] # Blank}
            solid == Max(full)
            own == {start} \cup {i \in start..solid : P[i] # Comment}
            e == IF next = {} THEN solid ELSE Max(own)
<1>0. SectionEnd(P, s) = e
  BY DEF SectionEnd
<1>1. Len(P) \in Nat /\ Headers(P) \subseteq 1..Len(P)
  BY LenProperties DEF Headers
<1>2. start \in Headers(P) /\ P[start].name = s
  <2>1. named \subseteq Nat /\ named # {}
    BY <1>1 DEF Names
  <2>2. Min(named) \in named
    <3>. HIDE DEF named
    <3>. QED  BY <2>1, MinOf
  <2>. QED  BY <2>2
<1>. HIDE DEF start
<1>3. start \in 1..Len(P)
  BY <1>1, <1>2
<1>4. below \in start..Len(P) /\ \A h \in Headers(P) : h <= below => h <= start
  <2>1. CASE next = {}
    <3>1. \A h \in Headers(P) : ~ (h > start)
      BY <2>1
    <3>2. \A h \in Headers(P) : h <= start
      BY <1>1, <1>3, <3>1
    <3>. QED  BY <1>1, <1>3, <2>1, <3>2
  <2>2. CASE next # {}
    <3>1. Min(next) \in next /\ \A h \in next : Min(next) <= h
      <4>1. next \subseteq Nat
        BY <1>1
      <4>. HIDE DEF next
      <4>. QED  BY <2>2, <4>1, MinOf
    <3>2. Min(next) \in 1..Len(P) /\ Min(next) > start
      BY <1>1, <3>1
    <3>3. below = Min(next) - 1
      BY <2>2
    <3>4. ASSUME NEW h \in Headers(P), h <= below PROVE h <= start
      <4>1. h \in 1..Len(P)
        BY <1>1
      <4>2. h \notin next
        BY <3>1, <3>2, <3>3, <3>4, <4>1
      <4>. QED  BY <1>3, <4>1, <4>2
    <3>. HIDE DEF below, next
    <3>. QED  BY <1>1, <1>3, <3>2, <3>3, <3>4
  <2>. QED  BY <2>1, <2>2
<1>5. next = {} => below = Len(P)
  OBVIOUS
<1>5a. below = Len(P) \/ below + 1 \in Headers(P)
  <2>1. CASE next # {}
    <3>1. Min(next) \in next
      <4>1. next \subseteq Nat
        BY <1>1
      <4>. HIDE DEF next
      <4>. QED  BY <2>1, <4>1, MinOf
    <3>2. Min(next) \in Headers(P) /\ Min(next) \in Int
      BY <1>1, <3>1
    <3>. HIDE DEF next
    <3>. QED  BY <2>1, <3>2
  <2>. QED  BY <1>5, <2>1
<1>. HIDE DEF below, next
<1>6. solid \in start..below /\ \A j \in full : j <= solid
  <2>1. full \subseteq 0..below /\ full # {} /\ below \in Nat /\ full \subseteq start..below
    BY <1>1, <1>3, <1>4
  <2>2. Max(full) \in full /\ \A j \in full : j <= Max(full)
    <3>. HIDE DEF full
    <3>. QED  BY <2>1, MaxOf
  <2>. QED  BY <2>1, <2>2
<1>7. ASSUME NEW j \in 1..Len(P), next = {}, j > solid
      PROVE  P[j] = Blank
  <2>1. j \in start..below
    BY <1>1, <1>3, <1>4, <1>5, <1>6, <1>7
  <2>2. j \notin full
    BY <1>1, <1>3, <1>4, <1>6, <1>7
  <2>. QED  BY <2>1, <2>2
<1>7a. ASSUME NEW j \in (solid + 1)..below PROVE P[j] = Blank
  <2>1. j \in start..below /\ ~ (j <= solid)
    BY <1>1, <1>3, <1>4, <1>6
  <2>2. j \notin full
    BY <1>6, <2>1
  <2>. QED  BY <2>1, <2>2
<1>. HIDE DEF solid
<1>8. Max(own) \in start..solid /\ Max(own) \in own /\ \A j \in own : j <= Max(own)
  <2>1. own \subseteq 0..solid /\ own # {} /\ solid \in Nat /\ own \subseteq start..solid
    BY <1>1, <1>3, <1>4, <1>6
  <2>2. Max(own) \in own /\ \A j \in own : j <= Max(own)
    <3>. HIDE DEF own
    <3>. QED  BY <2>1, MaxOf
  <2>. QED  BY <2>1, <2>2
<1>8a. ASSUME NEW j \in (Max(own) + 1)..solid PROVE P[j] = Comment
  <2>1. j \in start..solid /\ ~ (j <= Max(own))
    BY <1>1, <1>3, <1>4, <1>6, <1>8
  <2>2. j \notin own
    BY <1>8, <2>1
  <2>. QED  BY <2>1, <2>2
<1>9. P[Max(own)] # Comment
  <2>1. P[start] # Comment
    BY <1>2 DEF Headers, Comment
  <2>. QED  BY <1>8, <2>1
<1>. HIDE DEF own
<1>10. e \in start..below
  BY <1>1, <1>3, <1>4, <1>6, <1>8
<1>11. e \in 1..Len(P) /\ e \in 0..Len(P) /\ start \in 0..e /\ start # 0
  BY <1>1, <1>3, <1>4, <1>10
<1>12. SectionOf(P, e) = {s}
  <2>1. \A h \in Headers(P) : h <= e => h <= start
    BY <1>1, <1>3, <1>4, <1>10
  <2>. HIDE DEF e
  <2>2. Under(P, e) = start
    BY <1>2, <1>11, <2>1, UnderOf
  <2>3. {start} \ {0} = {start}
    BY <1>11
  <2>. QED  BY <1>2, <2>2, <2>3 DEF SectionOf
<1>13. ASSUME P[e] = Comment, NEW j \in (e + 1)..Len(P) PROVE P[j] = Blank
  <2>1. next = {} /\ e = solid
    BY <1>9, <1>13
  <2>2. j \in 1..Len(P) /\ j > solid
    BY <1>11, <2>1
  <2>. QED  BY <1>7, <2>1, <2>2
<1>14. Silent(P, e)
  <2>1. below \in e..Len(P)
    BY <1>1, <1>3, <1>4, <1>10
  <2>2. ASSUME NEW l \in (e + 1)..below PROVE P[l] \in {Comment, Blank}
    <3>1. l \in Int /\ e \in Int /\ solid \in Int
      BY <1>1, <1>3, <1>4, <1>6, <1>10
    <3>2. CASE l > solid
      <4>1. l \in (solid + 1)..below
        BY <2>2, <3>1, <3>2
      <4>. QED  BY <1>7a, <4>1
    <3>3. CASE l <= solid
      <4>1. e = Max(own)
        BY <2>2, <3>1, <3>3
      <4>2. l \in (Max(own) + 1)..solid
        BY <2>2, <3>1, <3>3, <4>1
      <4>. QED  BY <1>8a, <4>2
    <3>. QED  BY <3>1, <3>2, <3>3
  <2>. HIDE DEF e
  <2>. QED  BY <1>5a, <2>1, <2>2 DEF Silent
<1>. HIDE DEF e
<1>. QED  BY <1>0, <1>11, <1>12, <1>13, <1>14

LEMMA EndIs ==
  ASSUME NEW P \in Seq(Line), NEW s \in Names(P)
  PROVE  LET e == SectionEnd(P, s)
         IN  /\ e \in 1..Len(P) /\ SectionOf(P, e) = {s}
             /\ P[e] = Comment => \A j \in (e + 1)..Len(P) : P[j] = Blank
<1>. QED  BY EndLies

(* The first lines of a text read as they do in it.                          *)
LEMMA PrefixIs ==
  ASSUME NEW P \in Seq(Line), NEW i \in 0..Len(P)
  PROVE  LET M == SubSeq(P, 1, i)
         IN  /\ M \in Seq(Line) /\ Len(M) = i /\ \A j \in 1..i : M[j] = P[j]
             /\ \A j \in 0..i : Under(M, j) = Under(P, j) /\ SectionOf(M, j) = SectionOf(P, j)
             /\ At(M) = SectionOf(P, i)
             /\ NamedOnce(P) => NamedOnce(M)
             /\ \A T : Given(M, T) \subseteq Given(P, T)
<1>. DEFINE M == SubSeq(P, 1, i)
<1>1. Len(P) \in Nat /\ P \in [1..Len(P) -> Line] /\ DOMAIN P = 1..Len(P)
  BY LenProperties
<1>2. M \in Seq(Line) /\ Len(M) = i /\ \A j \in 1..i : M[j] = P[j]
  <2>1. \A j \in 1..i : P[j] \in Line
    BY <1>1
  <2>2. 1 \in Int /\ i \in Int
    BY <1>1
  <2>3. /\ M \in Seq(Line) /\ Len(M) = IF 1 <= i THEN i - 1 + 1 ELSE 0
        /\ \A j \in 1..(i - 1 + 1) : M[j] = P[1 + j - 1]
    BY <2>1, <2>2, SubSeqProperties
  <2>. HIDE DEF M
  <2>4. Len(M) = i /\ i - 1 + 1 = i
    BY <1>1, <2>3
  <2>5. \A j \in 1..i : 1 + j - 1 = j
    BY <1>1
  <2>. QED  BY <2>3, <2>4, <2>5
<1>. HIDE DEF M
<1>3. ASSUME NEW j \in 0..i
      PROVE  Under(M, j) = Under(P, j) /\ SectionOf(M, j) = SectionOf(P, j)
  <2>1. j \in 0..Len(P) /\ j <= Len(M) /\ \A k \in 1..j : M[k] = P[k]
    BY <1>1, <1>2
  <2>. QED  BY <1>2, <2>1, UnderSame
<1>4. At(M) = SectionOf(P, i)
  <2>1. i \in 0..i
    BY <1>1
  <2>. QED  BY <1>2, <1>3, <2>1 DEF At
<1>5. DOMAIN M = 1..i /\ \A j \in 1..i : j \in 0..i /\ j \in 1..Len(P)
  BY <1>1, <1>2, LenProperties
<1>6. ASSUME NamedOnce(P) PROVE NamedOnce(M)
  <2>1. \A h \in Headers(M) : h \in Headers(P) /\ M[h] = P[h]
    BY <1>1, <1>2, <1>5 DEF Headers
  <2>. QED  BY <1>1, <1>2, <1>3, <1>5, <1>6, <2>1 DEF NamedOnce
<1>7. ASSUME NEW T, NEW y \in Given(M, T) PROVE y \in Given(P, T)
  <2>1. PICK j \in 1..i : y = M[j] /\ M[j].kind = "key" /\ SectionOf(M, j) = T
    BY <1>2, GivenIs
  <2>2. j \in 1..Len(P) /\ y = P[j] /\ P[j].kind = "key" /\ SectionOf(P, j) = T
    BY <1>2, <1>3, <1>5, <2>1
  <2>. QED  BY <2>2, GivenIs
<1>. QED  BY <1>2, <1>3, <1>4, <1>6, <1>7 DEF M

(* No keys, no text.                                                         *)
LEMMA NoBlocks == Blocks({}) = <<>>
<1>. DEFINE n == Len(Shipped)
            seqs == [i \in DOMAIN Shipped |-> <<>>]
<1>1. n \in Nat /\ DOMAIN Shipped = 1..n
  BY ShippedIs
<1>2. seqs \in [1..n -> Seq(Line)] /\ \A i \in 1..n : seqs[i] = <<>>
  BY <1>1, EmptySeq
<1>3. Blocks({}) = FlattenSeq(seqs)
  <2>1. seqs = [i \in DOMAIN Shipped |-> IF i \in {} THEN Block(i) ELSE <<>>]
    OBVIOUS
  <2>. HIDE DEF seqs
  <2>. QED  BY <2>1 DEF Blocks
<1>. HIDE DEF seqs
<1>4. PICK acc \in [0..n -> Seq(Line)] : Joins(acc, n, <<>>, seqs) /\ FlattenSeq(seqs) = acc[n]
  BY <1>1, <1>2, FlattenIs
<1>. DEFINE S == {i \in 0..n : acc[i] = <<>>}
<1>5. 0 \in S
  BY <1>1, <1>4 DEF Joins
<1>6. ASSUME NEW i \in 1..n, i - 1 \in S PROVE i \in S
  <2>1. i \in 0..n /\ i - 1 \in 0..n
    BY <1>1
  <2>2. acc[i] = acc[i - 1] \o seqs[i] /\ acc[i - 1] = <<>> /\ seqs[i] = <<>>
    BY <1>2, <1>4, <1>6 DEF Joins
  <2>3. <<>> \o <<>> = <<>>
    BY EmptySeq, ConcatEmptySeq
  <2>. QED  BY <2>1, <2>2, <2>3
<1>7. n \in S
  <2>. HIDE DEF S
  <2>1. 0..n \subseteq S
    BY <1>1, <1>5, <1>6, UpTo
  <2>. QED  BY <1>1, <2>1
<1>. QED  BY <1>3, <1>4, <1>7

(* The sections of the defaults that end in the first i lines of old. *)
Ended(old, i) == {s \in Names(Shipped) \cap Names(old) : SectionEnd(old, s) <= i}

(* What is inserted behind line i. *)
LEMMA InsertedIs ==
  ASSUME NEW old \in Seq(Line), NEW i \in 1..Len(old)
  PROVE  \/ /\ Inserted(old, i) = <<>>
            /\ \A T : Brings(old, Ended(old, i), T) = Brings(old, Ended(old, i - 1), T)
         \/ \E s \in Names(Shipped) \cap Names(old) :
              /\ SectionEnd(old, s) = i /\ Inserted(old, i) = Blocks(Missing(old, s))
              /\ Ended(old, i) = Ended(old, i - 1) \cup {s} /\ s \notin Ended(old, i - 1)
<1>. DEFINE both == Names(Shipped) \cap Names(old)
            here == {s \in both : Missing(old, s) # {} /\ SectionEnd(old, s) = i}
            J == UNION {Missing(old, s) : s \in here}
<1>1. Inserted(old, i) = Blocks(J)
  BY DEF Inserted
<1>2. Len(old) \in Nat /\ \A s \in both : SectionEnd(old, s) \in 1..Len(old) /\ SectionOf(old, SectionEnd(old, s)) = {s}
  BY EndIs, LenProperties
<1>3. \A s, t \in both : SectionEnd(old, s) = i /\ SectionEnd(old, t) = i => s = t
  <2>1. \A s, t \in both : SectionEnd(old, s) = i /\ SectionEnd(old, t) = i => {s} = {t}
    BY <1>2
  <2>. QED  BY <2>1
<1>4. ASSUME NEW s \in both
      PROVE  s \in Ended(old, i) <=> s \in Ended(old, i - 1) \/ SectionEnd(old, s) = i
  <2>1. SectionEnd(old, s) \in Int
    BY <1>2
  <2>. HIDE DEF both
  <2>2. SectionEnd(old, s) <= i <=> SectionEnd(old, s) <= i - 1 \/ SectionEnd(old, s) = i
    BY <1>2, <2>1
  <2>. QED  BY <2>2 DEF Ended, both
<1>5. Ended(old, i) \subseteq both /\ Ended(old, i - 1) \subseteq both
  BY DEF Ended
<1>6. CASE here = {}
  <2>1. J = {}
    BY <1>6
  <2>2. Inserted(old, i) = <<>>
    BY <1>1, <2>1, NoBlocks
  <2>3. ASSUME NEW T PROVE Brings(old, Ended(old, i), T) = Brings(old, Ended(old, i - 1), T)
    <3>1. \A s \in both : SectionEnd(old, s) = i => Missing(old, s) = {}
      BY <1>6
    <3>. DEFINE later == Ended(old, i)
                before == Ended(old, i - 1)
    <3>2. \A s \in both : Missing(old, s) # {} => (s \in later <=> s \in before)
      BY <1>4, <3>1
    <3>. HIDE DEF both, later, before
    <3>3. \A y : y \in Brings(old, later, T) <=> y \in Brings(old, before, T)
      BY <1>5, <3>2 DEF Brings, later, before
    <3>4. Brings(old, later, T) = Brings(old, before, T)
      BY <3>3
    <3>. QED  BY <3>4 DEF later, before
  <2>. QED  BY <2>2, <2>3
<1>7. CASE here # {}
  <2>1. PICK s \in both : Missing(old, s) # {} /\ SectionEnd(old, s) = i
    BY <1>7
  <2>2. here = {s}
    BY <1>3, <2>1
  <2>3. J = Missing(old, s)
    BY <2>2
  <2>4. Ended(old, i) = Ended(old, i - 1) \cup {s}
    BY <1>3, <1>4, <1>5, <2>1
  <2>5. s \notin Ended(old, i - 1)
    <3>1. ~ (i <= i - 1)
      BY <1>2
    <3>. QED  BY <2>1, <3>1 DEF Ended
  <2>. QED  BY <1>1, <2>1, <2>3, <2>4, <2>5
<1>. QED  BY <1>6, <1>7

LEMMA BlocksText ==
  ASSUME NEW J
  PROVE  Blocks(J) \in Seq(Line)
<1>. DEFINE n == Len(Shipped)
            seqs == [k \in DOMAIN Shipped |-> IF k \in J THEN Block(k) ELSE <<>>]
<1>1. Blocks(J) = FlattenSeq(seqs)
  BY DEF Blocks
<1>2. n \in Nat /\ DOMAIN Shipped = 1..n
  BY ShippedIs
<1>3. seqs \in [1..n -> Seq(Line)]
  <2>1. \A k \in 1..n : Block(k) \in Seq(Line)
    BY BlockLine, EmptySeq
  <2>2. <<>> \in Seq(Line)
    BY EmptySeq
  <2>. QED  BY <1>2, <2>1, <2>2
<1>. HIDE DEF seqs
<1>4. PICK f \in [0..n -> Seq(Line)] : FlattenSeq(seqs) = f[n]
  BY <1>2, <1>3, FlattenIs
<1>. QED  BY <1>1, <1>2, <1>4

LEMMA InsertedText ==
  ASSUME NEW old \in Seq(Line), NEW i \in 1..Len(old)
  PROVE  Inserted(old, i) \in Seq(Line)
BY BlocksText DEF Inserted

(* P is what becomes of the first i lines of old. *)
Carried(old, i, P) ==
  LET M == SubSeq(old, 1, i)
  IN  /\ Merged(M, old, Ended(old, i), P) /\ Names(P) = Names(M) /\ At(P) = At(M)

(* The line itself ... *)
LEMMA LineKept ==
  ASSUME NEW old \in Seq(Line), NamedOnce(old), NEW i \in 1..Len(old), NEW O \in Seq(Line), Carried(old, i - 1, O)
  PROVE  LET M == SubSeq(old, 1, i)
             R == O \o <<old[i]>>
         IN  /\ R \in Seq(Line) /\ Merged(M, old, Ended(old, i - 1), R)
             /\ Names(R) = Names(M) /\ At(R) = SectionOf(old, i) /\ At(M) = SectionOf(old, i)
<1>. DEFINE x == old[i]
            L == SubSeq(old, 1, i - 1)
            M == SubSeq(old, 1, i)
            R == O \o <<x>>
            D == Ended(old, i - 1)
<1>1. Len(old) \in Nat /\ i \in 0..Len(old) /\ i - 1 \in 0..Len(old) /\ x \in Line
  BY LenProperties
<1>2. L \in Seq(Line)
  BY <1>1, PrefixIs
<1>3. M \in Seq(Line) /\ NamedOnce(M) /\ At(M) = SectionOf(old, i)
  BY <1>1, PrefixIs
<1>4. M = L \o <<x>>
  <2>1. 1 \in 1..Len(old) /\ i \in 1..Len(old)
    BY <1>1
  <2>. QED  BY <2>1, SubSeqRecursiveSecond
<1>. HIDE DEF L, M, x
<1>5. Reads(L, x, M)
  BY <1>1, <1>2, <1>4, WithLine
<1>6. R \in Seq(Line) /\ Reads(O, x, R)
  BY <1>1, WithLine
<1>. HIDE DEF R
<1>7. Merged(L, old, D, O) /\ Names(O) = Names(L) /\ At(O) = At(L)
  BY DEF Carried, L
<1>8. Fresh(L, x)
  BY <1>3, <1>5 DEF Reads
<1>. HIDE DEF D
<1>9. ASSUME x.kind = "key", NEW y \in Given(O, At(O)) PROVE y.name # x.name
  <2>. DEFINE T == At(L)
  <2>1. y \in Given(L, T) \cup Brings(old, D, T)
    BY <1>7, <1>9 DEF Merged
  <2>2. CASE y \in Given(L, T)
    BY <1>8, <1>9, <2>2 DEF Fresh
  <2>3. CASE y \in Brings(old, D, T)
    <3>1. PICK s \in D : \E k \in Missing(old, s) : T = {s} /\ y = Shipped[k]
      BY <2>3 DEF Brings
    <3>5. PICK j \in Missing(old, s) : T = {s} /\ y = Shipped[j]
      BY <3>1
    <3>2. SectionOf(old, i) = {s}
      <4>1. x.kind # "header"
        BY <1>9
      <4>. QED  BY <1>3, <1>5, <3>1, <4>1 DEF Reads
    <3>3. i \in KeysIn(old, s)
      BY <1>9, <3>2, KeysAre DEF x
    <3>4. x.name \in KeyNames(old, s)
      BY <3>3 DEF KeyNames, x
    <3>. QED  BY <3>5, <3>4 DEF Missing
  <2>. QED  BY <2>1, <2>2, <2>3
<1>10. Fresh(O, x)
  BY <1>7, <1>8, <1>9 DEF Fresh
<1>11. NamedOnce(R)
  BY <1>6, <1>7, <1>10 DEF Reads, Merged
<1>12. Names(R) = Names(M) /\ At(R) = At(M)
  BY <1>5, <1>6, <1>7 DEF Reads
<1>13. ASSUME NEW T PROVE Given(R, T) = Given(M, T) \cup Brings(old, D, T)
  <2>. DEFINE more == IF x.kind = "key" /\ T = At(L) THEN {x} ELSE {}
  <2>1. Given(R, T) = Given(O, T) \cup more
    BY <1>6, <1>7 DEF Reads
  <2>2. Given(M, T) = Given(L, T) \cup more
    BY <1>5 DEF Reads
  <2>3. Given(O, T) = Given(L, T) \cup Brings(old, D, T)
    BY <1>7 DEF Merged
  <2>. HIDE DEF more
  <2>. QED  BY <2>1, <2>2, <2>3
<1>. QED  BY <1>3, <1>6, <1>11, <1>12, <1>13 DEF Merged, M, R, D, x

(* ... and what is inserted behind it. *)
LEMMA NextKept ==
  ASSUME NEW old \in Seq(Line), NamedOnce(old), NEW i \in 1..Len(old), NEW O \in Seq(Line), Carried(old, i - 1, O)
  PROVE  Carried(old, i, (O \o <<old[i]>>) \o Inserted(old, i))
<1>. DEFINE M == SubSeq(old, 1, i)
            R == O \o <<old[i]>>
            Q == R \o Inserted(old, i)
            D == Ended(old, i - 1)
            E == Ended(old, i)
<1>1. /\ R \in Seq(Line) /\ Merged(M, old, D, R)
      /\ Names(R) = Names(M) /\ At(R) = SectionOf(old, i) /\ At(M) = SectionOf(old, i)
  BY LineKept
<1>2. \A T : Given(M, T) \subseteq Given(old, T)
  <2>1. i \in 0..Len(old)
    BY LenProperties
  <2>. QED  BY <2>1, PrefixIs
<1>. HIDE DEF M, R
<1>3. CASE Inserted(old, i) = <<>> /\ \A T : Brings(old, E, T) = Brings(old, D, T)
  <2>1. Q = R
    BY <1>1, <1>3, ConcatEmptySeq
  <2>. HIDE DEF D, E, Q
  <2>2. Merged(M, old, E, Q)
    BY <1>1, <1>3, <2>1 DEF Merged
  <2>. QED  BY <1>1, <2>1, <2>2 DEF Carried, M, E, Q, R
<1>4. CASE \E s \in Names(Shipped) \cap Names(old) :
              /\ SectionEnd(old, s) = i /\ Inserted(old, i) = Blocks(Missing(old, s))
              /\ E = D \cup {s} /\ s \notin D
  <2>1. PICK s \in Names(Shipped) \cap Names(old) :
              /\ SectionEnd(old, s) = i /\ Inserted(old, i) = Blocks(Missing(old, s))
              /\ E = D \cup {s} /\ s \notin D
    BY <1>4
  <2>. DEFINE J == Missing(old, s)
  <2>2. SectionOf(old, i) = {s}
    BY <2>1, EndIs
  <2>3. J \subseteq KeysIn(Shipped, s) /\ \A j \in J : Shipped[j].name \notin KeyNames(old, s)
    BY DEF Missing
  <2>. HIDE DEF J, D, E
  <2>4. ASSUME NEW j \in J, NEW y \in Given(R, {s}) PROVE y.name # Shipped[j].name
    <3>1. y \in Given(M, {s}) \cup Brings(old, D, {s})
      BY <1>1, <2>4 DEF Merged
    <3>2. CASE y \in Given(M, {s})
      <4>1. y \in Given(old, {s})
        BY <1>2, <3>2
      <4>2. PICK k \in 1..Len(old) : y = old[k] /\ old[k].kind = "key" /\ SectionOf(old, k) = {s}
        BY <4>1, GivenIs
      <4>3. k \in KeysIn(old, s)
        BY <4>2, KeysAre
      <4>4. y.name \in KeyNames(old, s)
        BY <4>2, <4>3 DEF KeyNames
      <4>. QED  BY <2>3, <4>4
    <3>3. CASE y \in Brings(old, D, {s})
      <4>1. PICK t \in D : {s} = {t}
        BY <3>3 DEF Brings
      <4>. QED  BY <2>1, <4>1
    <3>. QED  BY <3>1, <3>2, <3>3
  <2>5. Filled(R, s, J, R \o Blocks(J))
    <3>1. At(R) = {s} /\ NamedOnce(R)
      BY <1>1, <2>2 DEF Merged
    <3>. QED  BY <1>1, <2>3, <2>4, <3>1, BlocksFilled
  <2>6. Filled(R, s, J, Q)
    BY <2>1, <2>5 DEF J
  <2>. HIDE DEF Q
  <2>7. ASSUME NEW T PROVE Given(Q, T) = Given(M, T) \cup Brings(old, E, T)
    <3>1. Given(Q, T) = Given(R, T) \cup Added(T, s, J)
      BY <2>6 DEF Filled
    <3>2. Given(R, T) = Given(M, T) \cup Brings(old, D, T)
      BY <1>1 DEF Merged
    <3>3. Brings(old, D \cup {s}, T) = Brings(old, D, T) \cup Added(T, s, Missing(old, s))
      BY BroughtNext
    <3>. QED  BY <2>1, <3>1, <3>2, <3>3 DEF J
  <2>8. Merged(M, old, E, Q)
    BY <2>6, <2>7 DEF Filled, Merged
  <2>9. Names(Q) = Names(M) /\ At(Q) = At(M)
    BY <1>1, <2>2, <2>6 DEF Filled
  <2>. QED  BY <2>8, <2>9 DEF Carried, M, E, Q, R
<1>. QED  BY <1>3, <1>4, InsertedIs

(* The lines of old, each with what is inserted behind it ...                *)
LinesOf(old) == [i \in DOMAIN old |-> <<old[i]>> \o Inserted(old, i)]

LEMMA LinesAre ==
  ASSUME NEW old \in Seq(Line)
  PROVE  LinesOf(old) \in [1..Len(old) -> Seq(Line)]
<1>1. DOMAIN old = 1..Len(old) /\ old \in [1..Len(old) -> Line]
  BY LenProperties
<1>2. ASSUME NEW i \in 1..Len(old) PROVE <<old[i]>> \o Inserted(old, i) \in Seq(Line)
  <2>. DEFINE one == <<old[i]>>
  <2>1. one \in Seq(Line)
    BY <1>1
  <2>2. Inserted(old, i) \in Seq(Line)
    BY InsertedText
  <2>. HIDE DEF one
  <2>3. one \o Inserted(old, i) \in Seq(Line)
    BY <2>1, <2>2, ConcatProperties
  <2>. QED  BY <2>3 DEF one
<1>. QED  BY <1>1, <1>2 DEF LinesOf

(* ... carry over what is read in old, line by line.                         *)
LEMMA BodyKept ==
  ASSUME NEW old \in Seq(Line), NamedOnce(old), NEW acc \in [0..Len(old) -> Seq(Line)],
         Joins(acc, Len(old), <<>>, LinesOf(old))
  PROVE  /\ \A i \in 0..Len(old) : Carried(old, i, acc[i])
         /\ \A i \in 1..Len(old) : acc[i] = (acc[i - 1] \o <<old[i]>>) \o Inserted(old, i)
<1>. DEFINE n == Len(old)
            S == {i \in 0..n : Carried(old, i, acc[i])}
<1>1. n \in Nat /\ DOMAIN old = 1..n /\ old \in [1..n -> Line]
  BY LenProperties
<1>2. ASSUME NEW i \in 1..n PROVE acc[i] = (acc[i - 1] \o <<old[i]>>) \o Inserted(old, i)
  <2>1. i - 1 \in 0..n
    BY <1>1
  <2>. DEFINE O == acc[i - 1]
              one == <<old[i]>>
              more == Inserted(old, i)
  <2>2. LinesOf(old)[i] = one \o more
    BY <1>1 DEF LinesOf
  <2>3. acc[i] = O \o LinesOf(old)[i]
    BY DEF Joins
  <2>4. O \in Seq(Line)
    BY <2>1
  <2>7. one \in Seq(Line)
    BY <1>1
  <2>8. more \in Seq(Line)
    BY InsertedText
  <2>. HIDE DEF O, one, more
  <2>5. O \o (one \o more) = (O \o one) \o more
    BY <2>4, <2>7, <2>8, Regrouped
  <2>6. acc[i] = (O \o one) \o more
    BY <2>2, <2>3, <2>5
  <2>. QED  BY <2>6 DEF O, one, more
<1>3. 0 \in S
  <2>. DEFINE M == SubSeq(old, 1, 0)
              empty == <<>>
  <2>1. M = <<>>
    BY SubSeqEmpty
  <2>2. acc[0] = M /\ 0 \in 0..n
    BY <1>1, <2>1 DEF Joins
  <2>3. Ended(old, 0) = {}
    <3>1. \A s \in Names(old) : SectionEnd(old, s) \in 1..n
      BY EndIs
    <3>2. \A s \in Names(old) : ~ (SectionEnd(old, s) <= 0)
      BY <1>1, <3>1
    <3>. QED  BY <3>2 DEF Ended
  <2>4. M \in Seq(Line) /\ NamedOnce(M)
    <3>1. 0 \in 0..Len(old)
      BY <1>1
    <3>. QED  BY <3>1, PrefixIs
  <2>. HIDE DEF M
  <2>5. \A T : Given(M, T) = Given(M, T) \cup Brings(old, {}, T)
    BY DEF Brings
  <2>6. Merged(M, old, {}, M)
    BY <2>4, <2>5 DEF Merged
  <2>7. Carried(old, 0, M)
    BY <2>3, <2>6 DEF Carried, M
  <2>. QED  BY <2>2, <2>7
<1>4. ASSUME NEW i \in 1..n, i - 1 \in S PROVE i \in S
  <2>1. i \in 0..n /\ i - 1 \in 0..n
    BY <1>1
  <2>2. acc[i - 1] \in Seq(Line) /\ Carried(old, i - 1, acc[i - 1])
    BY <1>4, <2>1
  <2>3. Carried(old, i, (acc[i - 1] \o <<old[i]>>) \o Inserted(old, i))
    BY <2>2, NextKept
  <2>4. Carried(old, i, acc[i])
    BY <1>2, <2>3
  <2>. QED  BY <2>1, <2>4
<1>5. 0..n \subseteq S
  <2>. HIDE DEF S, n
  <2>. QED  BY <1>1, <1>3, <1>4, UpTo
<1>. QED  BY <1>2, <1>5

(* The new file begins with the lines of old and what is inserted behind them. *)
Body(old, acc) ==
  /\ acc \in [0..Len(old) -> Seq(Line)] /\ Joins(acc, Len(old), <<>>, LinesOf(old))
  /\ Apply(old) = acc[Len(old)] \o TailOf(old)

LEMMA BodyIs ==
  ASSUME NEW old \in Seq(Line)
  PROVE  \E acc : Body(old, acc)
<1>. DEFINE n == Len(old)
            seqs == LinesOf(old)
<1>1. n \in Nat /\ seqs \in [1..n -> Seq(Line)]
  BY LinesAre, LenProperties
<1>2. Apply(old) = FlattenSeq(seqs) \o TailOf(old)
  BY DEF Apply, LinesOf, TailOf
<1>. HIDE DEF seqs
<1>3. PICK acc \in [0..n -> Seq(Line)] : Joins(acc, n, <<>>, seqs) /\ FlattenSeq(seqs) = acc[n]
  BY <1>1, FlattenIs
<1>. QED  BY <1>2, <1>3 DEF Body, seqs

(* The upgrade has the sections of both, and the keys of old and the missing ones. *)
LEMMA Applied ==
  ASSUME NEW old \in Seq(Line), NamedOnce(old)
  PROVE  /\ Merged(old, old, Names(Shipped), Apply(old))
         /\ Names(Apply(old)) = Names(old) \cup Names(Shipped)
<1>. DEFINE n == Len(old)
<1>1. PICK acc : Body(old, acc)
  BY BodyIs
<1>2. n \in Nat /\ SubSeq(old, 1, n) = old
  BY LenProperties, SubSeqFull
<1>. DEFINE P == acc[n]
            D == Ended(old, n)
            R == P \o TailOf(old)
<1>3. n \in 0..n
  BY <1>2
<1>4. Carried(old, n, P)
  BY <1>1, <1>3, BodyKept DEF Body
<1>5. Merged(old, old, D, P) /\ Names(P) = Names(old)
  BY <1>2, <1>4 DEF Carried
<1>6. D = Names(Shipped) \cap Names(old)
  <2>1. \A s \in Names(old) : SectionEnd(old, s) \in 1..n
    BY EndIs
  <2>2. \A s \in Names(old) : SectionEnd(old, s) <= n
    BY <1>2, <2>1
  <2>. QED  BY <2>2 DEF Ended
<1>7. R = Apply(old)
  BY <1>1 DEF Body
<1>. HIDE DEF P, R, D
<1>8. P \in Seq(Line) /\ NamedOnce(P)
  BY <1>5 DEF Merged
<1>9. Merged(P, old, MissingSections(old), R) /\ Names(R) = Names(old) \cup Names(Shipped)
  BY <1>5, <1>8, TailMerged DEF R
<1>10. ASSUME NEW T PROVE Given(R, T) = Given(old, T) \cup Brings(old, Names(Shipped), T)
  <2>1. Given(P, T) = Given(old, T) \cup Brings(old, D, T)
    BY <1>5 DEF Merged
  <2>2. Given(R, T) = Given(P, T) \cup Brings(old, MissingSections(old), T)
    BY <1>9 DEF Merged
  <2>3. \A s : s \in Names(Shipped) <=> s \in D \/ s \in MissingSections(old)
    BY <1>6 DEF MissingSections
  <2>. DEFINE rest == MissingSections(old)
  <2>. HIDE DEF rest
  <2>4. Brings(old, Names(Shipped), T) = Brings(old, D, T) \cup Brings(old, rest, T)
    <3>1. \A y : y \in Brings(old, Names(Shipped), T) <=> y \in Brings(old, D, T) \/ y \in Brings(old, rest, T)
      BY <2>3 DEF Brings, rest
    <3>. QED  BY <3>1
  <2>. QED  BY <2>1, <2>2, <2>4 DEF rest
<1>11. Merged(old, old, Names(Shipped), R)
  BY <1>9, <1>10 DEF Merged
<1>. QED  BY <1>7, <1>9, <1>11

-----------------------------------------------------------------------------
(* Configuration: what an upgrade leaves as it was.                          *)

(* The value of a key where it is given, else the default. *)
Value(P, s, k) ==
  LET given == {i \in KeysIn(P, s) : P[i].name = k}
  IN  IF given = {} THEN Default(s, k) ELSE P[Max(given)].value

LEMMA ValueIs ==
  ASSUME NEW P \in Seq(Line), NamedOnce(P), NEW s, NEW k
  PROVE  /\ \A y \in Given(P, {s}) : y.name = k => Value(P, s, k) = y.value
         /\ (\A y \in Given(P, {s}) : y.name # k) => Value(P, s, k) = Default(s, k)
<1>. DEFINE given == {i \in KeysIn(P, s) : P[i].name = k}
<1>1. Len(P) \in Nat
  BY LenProperties
<1>2. \A i : i \in given <=> i \in 1..Len(P) /\ P[i].kind = "key" /\ SectionOf(P, i) = {s} /\ P[i].name = k
  BY KeysAre
<1>3. \A y : y \in Given(P, {s}) /\ y.name = k <=> \E i \in given : y = P[i]
  <2>1. \A y : y \in Given(P, {s}) <=> \E i \in 1..Len(P) : y = P[i] /\ P[i].kind = "key" /\ SectionOf(P, i) = {s}
    BY GivenIs
  <2>2. ASSUME NEW y, y \in Given(P, {s}), y.name = k PROVE \E i \in given : y = P[i]
    <3>1. PICK i \in 1..Len(P) : y = P[i] /\ P[i].kind = "key" /\ SectionOf(P, i) = {s}
      BY <2>1, <2>2
    <3>2. i \in given
      BY <1>2, <2>2, <3>1
    <3>. QED  BY <3>1, <3>2
  <2>3. ASSUME NEW i \in given PROVE P[i] \in Given(P, {s}) /\ P[i].name = k
    BY <1>2, <2>1
  <2>. QED  BY <2>2, <2>3
<1>4. Value(P, s, k) = IF given = {} THEN Default(s, k) ELSE P[Max(given)].value
  BY DEF Value
<1>. HIDE DEF given
<1>5. ASSUME NEW i \in given, NEW j \in given PROVE i = j
  <2>0. i \in 1..Len(P) /\ j \in 1..Len(P) /\ SectionOf(P, i) = {s} /\ SectionOf(P, j) = {s}
    BY <1>2
  <2>1. i \in 0..Len(P) /\ j \in 0..Len(P) /\ SectionOf(P, i) = SectionOf(P, j)
    BY <1>1, <2>0
  <2>2. HeadersOnce(P)
    BY DEF NamedOnce, HeadersOnce
  <2>3. Under(P, i) = Under(P, j)
    BY <2>1, <2>2, SameUnder
  <2>4. i \in DOMAIN P /\ j \in DOMAIN P
    BY <1>2, LenProperties
  <2>. QED  BY <1>2, <2>3, <2>4 DEF NamedOnce
<1>6. ASSUME NEW y \in Given(P, {s}), y.name = k PROVE Value(P, s, k) = y.value
  <2>1. PICK i \in given : y = P[i]
    BY <1>3, <1>6
  <2>2. given \subseteq 0..Len(P) /\ given # {}
    BY <1>1, <1>2, <2>1
  <2>3. Max(given) \in given
    BY <1>1, <2>2, MaxOf
  <2>4. Max(given) = i
    BY <1>5, <2>1, <2>3
  <2>. QED  BY <1>4, <2>1, <2>2, <2>4
<1>7. ASSUME \A y \in Given(P, {s}) : y.name # k PROVE Value(P, s, k) = Default(s, k)
  <2>1. given = {}
    BY <1>3, <1>7
  <2>. QED  BY <1>4, <2>1
<1>. QED  BY <1>6, <1>7

(* Whatever is missing is there, and what the file says is the same.          *)
LEMMA ApplySays ==
  ASSUME NEW old \in Seq(Line), NamedOnce(old)
  PROVE  /\ Apply(old) \in Seq(Line) /\ NamedOnce(Apply(old)) /\ UpToDate(Apply(old))
         /\ Settings(Apply(old)) = Settings(old)
<1>. DEFINE new == Apply(old)
<1>1. Merged(old, old, Names(Shipped), new) /\ Names(new) = Names(old) \cup Names(Shipped)
  BY Applied
<1>. HIDE DEF new
<1>2. new \in Seq(Line) /\ NamedOnce(new)
  BY <1>1 DEF Merged
<1>3. ASSUME NEW s \in Names(Shipped), NEW i \in Missing(old, s)
      PROVE  Shipped[i] \in Given(new, {s})
  <2>1. i \in DOMAIN Shipped
    BY DEF Missing, KeysIn
  <2>2. Shipped[i] \in Brings(old, Names(Shipped), {s})
    BY <2>1 DEF Brings
  <2>. QED  BY <1>1, <2>2 DEF Merged
<1>4. ASSUME NEW s PROVE Given(old, {s}) \subseteq Given(new, {s})
  BY <1>1 DEF Merged
<1>5. \A P \in Seq(Line) : \A s, k : k \in KeyNames(P, s) <=> \E y \in Given(P, {s}) : y.name = k
  <2>1. SUFFICES ASSUME NEW P \in Seq(Line), NEW s, NEW k
                 PROVE  k \in KeyNames(P, s) <=> \E y \in Given(P, {s}) : y.name = k
    OBVIOUS
  <2>2. \A i : i \in KeysIn(P, s) <=> i \in 1..Len(P) /\ P[i].kind = "key" /\ SectionOf(P, i) = {s}
    BY KeysAre
  <2>3. \A y : y \in Given(P, {s}) <=> \E i \in 1..Len(P) : y = P[i] /\ P[i].kind = "key" /\ SectionOf(P, i) = {s}
    BY GivenIs
  <2>4. k \in KeyNames(P, s) <=> \E i \in KeysIn(P, s) : P[i].name = k
    BY DEF KeyNames
  <2>5. (\E i \in KeysIn(P, s) : P[i].name = k) => \E y \in Given(P, {s}) : y.name = k
    BY <2>2, <2>3
  <2>6. ASSUME NEW y \in Given(P, {s}), y.name = k PROVE \E i \in KeysIn(P, s) : P[i].name = k
    <3>1. PICK i \in 1..Len(P) : y = P[i] /\ P[i].kind = "key" /\ SectionOf(P, i) = {s}
      BY <2>3
    <3>2. i \in KeysIn(P, s)
      BY <2>2, <3>1
    <3>. QED  BY <2>6, <3>1, <3>2
  <2>. QED  BY <2>4, <2>5, <2>6
<1>6. UpToDate(new)
  <2>1. MissingSections(new) = {}
    BY <1>1 DEF MissingSections
  <2>2. ASSUME NEW s \in Names(Shipped), NEW i \in Missing(new, s) PROVE FALSE
    <3>1. i \in KeysIn(Shipped, s) /\ Shipped[i].name \notin KeyNames(new, s)
      BY <2>2 DEF Missing
    <3>2. CASE i \in Missing(old, s)
      <4>1. Shipped[i] \in Given(new, {s})
        BY <1>3, <3>2
      <4>. QED  BY <1>2, <1>5, <3>1, <4>1
    <3>3. CASE Shipped[i].name \in KeyNames(old, s)
      <4>1. PICK y \in Given(old, {s}) : y.name = Shipped[i].name
        BY <1>5, <3>3
      <4>2. y \in Given(new, {s})
        BY <1>4
      <4>. QED  BY <1>2, <1>5, <3>1, <4>1, <4>2
    <3>. QED  BY <3>1, <3>2, <3>3 DEF Missing
  <2>. QED  BY <2>1, <2>2 DEF UpToDate
<1>7. ASSUME NEW s \in DOMAIN BuiltIn, NEW k \in DOMAIN BuiltIn[s]
      PROVE  Value(new, s, k) = Value(old, s, k)
  <2>1. CASE \E y \in Given(old, {s}) : y.name = k
    <3>1. PICK y \in Given(old, {s}) : y.name = k
      BY <2>1
    <3>2. Value(old, s, k) = y.value
      BY <3>1, ValueIs
    <3>3. y \in Given(new, {s})
      BY <1>4
    <3>4. Value(new, s, k) = y.value
      BY <1>2, <3>1, <3>3, ValueIs
    <3>. QED  BY <3>2, <3>4
  <2>2. CASE ~ \E y \in Given(old, {s}) : y.name = k
    <3>1. Value(old, s, k) = Default(s, k)
      BY <2>2, ValueIs
    <3>2. PICK i \in KeysIn(Shipped, s) : Shipped[i].name = k /\ Shipped[i].value = BuiltIn[s][k]
      BY ConfigAssumption
    <3>3. k \notin KeyNames(old, s)
      BY <1>5, <2>2
    <3>4. i \in Missing(old, s)
      BY <3>2, <3>3 DEF Missing
    <3>5. s \in Names(Shipped)
      <4>1. i \in 1..Len(Shipped) /\ Shipped[i].kind = "key" /\ SectionOf(Shipped, i) = {s}
        BY <3>2, KeysAre, ShippedIs
      <4>2. Shipped[i] \in Given(Shipped, {s})
        BY <4>1, GivenIs, ShippedIs
      <4>. QED  BY <4>2, GivenNamed, ShippedIs
    <3>6. Shipped[i] \in Given(new, {s})
      BY <1>3, <3>4, <3>5
    <3>7. Value(new, s, k) = Shipped[i].value
      <4>. DEFINE y == Shipped[i]
      <4>1. y \in Given(new, {s}) /\ y.name = k
        BY <3>2, <3>6
      <4>. HIDE DEF y
      <4>2. Value(new, s, k) = y.value
        BY <1>2, <4>1, ValueIs
      <4>. QED  BY <4>2 DEF y
    <3>. QED  BY <3>1, <3>2, <3>7 DEF Default
  <2>. QED  BY <2>1, <2>2
<1>8. \A P : Settings(P) = [s \in DOMAIN BuiltIn |-> [k \in DOMAIN BuiltIn[s] |-> Value(P, s, k)]]
  BY DEF Settings, Value
<1>9. Settings(new) = Settings(old)
  <2>1. \A s \in DOMAIN BuiltIn : [k \in DOMAIN BuiltIn[s] |-> Value(new, s, k)] = [k \in DOMAIN BuiltIn[s] |-> Value(old, s, k)]
    BY <1>7
  <2>. QED  BY <1>8, <2>1
<1>. QED  BY <1>2, <1>6, <1>9 DEF new

(* A text whose lines are all in another, in their order, is found in it.     *)
LEMMA FoundInOrder ==
  ASSUME NEW old \in Seq(Line), NEW new \in Seq(Line), NEW f \in [1..Len(old) -> 1..Len(new)],
         \A i \in 1..Len(old) : new[f[i]] = old[i],
         \A i \in 2..Len(old) : f[i - 1] < f[i]
  PROVE  InOrder(old, new)
<1>. DEFINE n == Len(new)
            k == Len(old)
            A == 0..k
            more(i, m) == IF m < k /\ old[m + 1] = new[i] THEN m + 1 ELSE m
            step == [p \in (1..n) \X A |-> more(p[1], p[2])]
            found == CHOOSE g : g = [i \in 0..n |-> IF i = 0 THEN 0 ELSE more(i, g[i - 1])]
<1>1. n \in Nat /\ k \in Nat
  BY LenProperties
<1>2. InOrder(old, new) <=> found[n] = k
  BY DEF InOrder
<1>3. \A i \in 1..n, m \in A : more(i, m) \in A
  BY <1>1
<1>. HIDE DEF n, k
<1>4. PICK h \in [0..n -> A] : h[0] = 0 /\ \A i \in 1..n : h[i] = more(i, h[i - 1])
  <2>1. 0 \in A
    BY <1>1
  <2>. HIDE DEF A, more
  <2>2. step \in [(1..n) \X A -> A]
    BY <1>3
  <2>. HIDE DEF step
  <2>3. PICK h \in [0..n -> A] : Recursion(h, n, 0, step)
    BY <1>1, <2>1, <2>2, RecursionIs
  <2>4. ASSUME NEW i \in 1..n PROVE h[i] = more(i, h[i - 1])
    <3>1. i - 1 \in 0..n
      BY <1>1
    <3>2. h[i - 1] \in A
      BY <2>3, <3>1
    <3>3. h[i] = step[<<i, h[i - 1]>>]
      BY <2>3 DEF Recursion
    <3>. QED  BY <3>2, <3>3 DEF step
  <2>. QED  BY <2>3, <2>4 DEF Recursion
<1>5. h = [i \in 0..n |-> IF i = 0 THEN 0 ELSE more(i, h[i - 1])]
  <2>. HIDE DEF A, more
  <2>1. \A i \in 0..n : i # 0 => i \in 1..n
    BY <1>1
  <2>. QED  BY <1>4, <2>1
<1>6. found = [i \in 0..n |-> IF i = 0 THEN 0 ELSE more(i, found[i - 1])]
  <2>. HIDE DEF more
  <2>. QED  BY <1>5
<1>. HIDE DEF found
<1>7. \A i \in 0..n : found[i] \in A
  <2>. DEFINE S == {i \in 0..n : found[i] \in A}
  <2>1. 0 \in S
    BY <1>1, <1>6
  <2>2. ASSUME NEW i \in 1..n, i - 1 \in S PROVE i \in S
    <3>1. i \in 0..n /\ i # 0
      BY <1>1
    <3>. HIDE DEF A, more
    <3>2. found[i] = more(i, found[i - 1]) /\ found[i - 1] \in A
      BY <1>6, <2>2, <3>1
    <3>. QED  BY <1>3, <3>1, <3>2
  <2>3. 0..n \subseteq S
    <3>. HIDE DEF S
    <3>. QED  BY <1>1, <2>1, <2>2, UpTo
  <2>. QED  BY <2>3
<1>8. f \in [1..k -> 1..n] /\ (\A i \in 1..k : new[f[i]] = old[i]) /\ \A i \in 2..k : f[i - 1] < f[i]
  BY DEF n, k
<1>. DEFINE S == {j \in 0..n : \A i \in 1..k : f[i] <= j => i <= found[j]}
<1>9. 0 \in S
  <2>1. \A i \in 1..k : ~ (f[i] <= 0)
    BY <1>1, <1>8
  <2>. QED  BY <1>1, <2>1
<1>10. ASSUME NEW j \in 1..n, j - 1 \in S PROVE j \in S
  <2>1. j \in 0..n /\ j - 1 \in 0..n /\ j # 0
    BY <1>1
  <2>. DEFINE m == found[j - 1]
  <2>2. found[j] = more(j, m) /\ m \in 0..k
    BY <1>6, <1>7, <2>1
  <2>. HIDE DEF m
  <2>3. ASSUME NEW i \in 1..k, f[i] <= j PROVE i <= found[j]
    <3>1. f[i] \in 1..n
      BY <1>8
    <3>2. CASE f[i] <= j - 1
      <4>1. i <= m
        BY <1>10, <3>2 DEF m
      <4>. QED  BY <1>1, <2>2, <4>1
    <3>3. CASE f[i] = j
      <4>1. i - 1 <= m
        <5>1. CASE i = 1
          BY <1>1, <2>2, <5>1
        <5>2. CASE i # 1
          <6>1. i \in 2..k /\ i - 1 \in 1..k
            BY <1>1, <5>2
          <6>2. f[i - 1] < f[i] /\ f[i - 1] \in 1..n
            BY <1>8, <6>1
          <6>3. f[i - 1] <= j - 1
            BY <1>1, <3>1, <3>3, <6>2
          <6>. QED  BY <1>10, <6>1, <6>3 DEF m
        <5>. QED  BY <5>1, <5>2
      <4>2. CASE i <= m
        BY <1>1, <2>2, <4>2
      <4>3. CASE ~ (i <= m)
        <5>1. m = i - 1 /\ m + 1 = i /\ m < k
          BY <1>1, <2>2, <4>1, <4>3
        <5>2. old[m + 1] = new[j]
          BY <1>8, <3>3, <5>1
        <5>3. found[j] = m + 1
          BY <2>2, <5>1, <5>2
        <5>. QED  BY <1>1, <5>1, <5>3
      <4>. QED  BY <4>2, <4>3
    <3>. QED  BY <1>1, <2>3, <3>1, <3>2, <3>3
  <2>. QED  BY <2>1, <2>3
<1>11. n \in S
  <2>1. 0..n \subseteq S
    <3>. HIDE DEF S
    <3>. QED  BY <1>1, <1>9, <1>10, UpTo
  <2>. QED  BY <1>1, <2>1
<1>12. found[n] = k
  <2>1. found[n] \in 0..k
    BY <1>1, <1>7
  <2>2. CASE k = 0
    BY <2>1, <2>2
  <2>3. CASE k # 0
    <3>1. k \in 1..k /\ f[k] <= n
      BY <1>1, <1>8, <2>3
    <3>2. k <= found[n]
      BY <1>11, <3>1
    <3>. QED  BY <1>1, <2>1, <3>2
  <2>. QED  BY <2>2, <2>3
<1>. QED  BY <1>2, <1>12

(* In the same section is under the same header.                             *)
LEMMA SameSection ==
  ASSUME NEW P \in Seq(Line), NEW i \in 0..Len(P), NEW R \in Seq(Line), NEW j \in 0..Len(R),
         SectionOf(P, i) = SectionOf(R, j)
  PROVE  /\ (Under(P, i) = 0) = (Under(R, j) = 0)
         /\ Under(P, i) # 0 => R[Under(R, j)] = P[Under(P, i)]
<1>. DEFINE u == Under(P, i)
            v == Under(R, j)
<1>1. {P[h].name : h \in {u} \ {0}} = {R[h].name : h \in {v} \ {0}}
  BY DEF SectionOf
<1>2. /\ u = 0 \/ u \in Headers(P)
      /\ v = 0 \/ v \in Headers(R)
  BY UnderIs
<1>. HIDE DEF u, v
<1>3. u = 0 <=> v = 0
  BY <1>1
<1>4. ASSUME u # 0 PROVE R[v] = P[u]
  <2>1. v # 0 /\ P[u].name = R[v].name
    BY <1>1, <1>4
  <2>2. u \in DOMAIN P /\ P[u].kind = "header" /\ v \in DOMAIN R /\ R[v].kind = "header"
    BY <1>2, <1>4, <2>1 DEF Headers
  <2>3. P[u] \in Line /\ R[v] \in Line
    BY <2>2, LenProperties
  <2>4. P[u] = Header(P[u].name) /\ R[v] = Header(R[v].name)
    BY <2>2, <2>3, LineIs
  <2>. QED  BY <2>1, <2>4
<1>. QED  BY <1>3, <1>4 DEF u, v

(* R begins with the text P.                                                 *)
Prefix(P, R) == Len(P) <= Len(R) /\ \A p \in 1..Len(P) : R[p] = P[p]

LEMMA PrefixOfConcat ==
  ASSUME NEW P \in Seq(Line), NEW s \in Seq(Line)
  PROVE  Prefix(P, P \o s)
<1>1. /\ Len(P \o s) = Len(P) + Len(s)
      /\ \A i \in 1..Len(P) + Len(s) : (P \o s)[i] = IF i <= Len(P) THEN P[i] ELSE s[i - Len(P)]
  BY ConcatProperties
<1>2. Len(P) \in Nat /\ Len(s) \in Nat
  BY LenProperties
<1>. DEFINE R == P \o s
<1>. HIDE DEF R
<1>3. Len(R) = Len(P) + Len(s) /\ \A i \in 1..Len(P) : R[i] = P[i]
  BY <1>1, <1>2 DEF R
<1>4. Prefix(P, R)
  BY <1>2, <1>3 DEF Prefix
<1>. QED  BY <1>4 DEF R

LEMMA PrefixThrough ==
  ASSUME NEW P \in Seq(Line), NEW Q \in Seq(Line), NEW R \in Seq(Line), Prefix(P, Q), Prefix(Q, R)
  PROVE  Prefix(P, R)
<1>1. Len(P) \in Nat /\ Len(Q) \in Nat /\ Len(R) \in Nat
  BY LenProperties
<1>. QED  BY <1>1 DEF Prefix

(* Every line of old is in its upgrade, in its order and in its section, a key with *)
(* the comment above it: a section never ends between the two.               *)
LEMMA ApplyExtends ==
  ASSUME NEW old \in Seq(Line), NamedOnce(old)
  PROVE  Extends(old, Apply(old))
<1>. DEFINE n == Len(old)
            new == Apply(old)
<1>1. PICK acc : Body(old, acc)
  BY BodyIs
<1>2. n \in Nat /\ DOMAIN old = 1..n /\ old \in [1..n -> Line]
  BY LenProperties
<1>3. new \in Seq(Line)
  BY ApplySays
<1>4. acc \in [0..n -> Seq(Line)] /\ new = acc[n] \o TailOf(old)
  BY <1>1 DEF Body
<1>5. /\ \A i \in 0..n : Carried(old, i, acc[i])
      /\ \A i \in 1..n : acc[i] = (acc[i - 1] \o <<old[i]>>) \o Inserted(old, i)
  BY <1>1, BodyKept DEF Body
<1>6. TailOf(old) \in Seq(Line)
  <2>1. n \in 0..n /\ SubSeq(old, 1, n) = old
    BY <1>2, SubSeqFull
  <2>2. Carried(old, n, acc[n])
    BY <1>5, <2>1
  <2>3. NamedOnce(acc[n]) /\ Names(acc[n]) = Names(old) /\ acc[n] \in Seq(Line)
    BY <2>1, <2>2 DEF Carried, Merged
  <2>. QED  BY <2>3, TailMerged
<1>. HIDE DEF new
<1>. DEFINE R(i) == acc[i - 1] \o <<old[i]>>
            f == [i \in 1..n |-> Len(acc[i - 1]) + 1]
<1>7. ASSUME NEW i \in 1..n
      PROVE  /\ acc[i - 1] \in Seq(Line) /\ acc[i] \in Seq(Line) /\ R(i) \in Seq(Line)
             /\ f[i] = Len(acc[i - 1]) + 1 /\ f[i] \in Nat /\ f[i] \in 1..Len(R(i)) /\ Len(R(i)) = f[i]
             /\ R(i)[f[i]] = old[i] /\ At(R(i)) = SectionOf(old, i)
             /\ acc[i] = R(i) \o Inserted(old, i) /\ Prefix(R(i), acc[i])
  <2>1. i - 1 \in 0..n /\ i \in 0..n
    BY <1>2
  <2>. DEFINE O == acc[i - 1]
              x == old[i]
  <2>2. O \in Seq(Line) /\ acc[i] \in Seq(Line) /\ x \in Line /\ Carried(old, i - 1, O)
    BY <1>2, <1>4, <1>5, <2>1
  <2>3. At(R(i)) = SectionOf(old, i) /\ acc[i] = R(i) \o Inserted(old, i)
    BY <1>5, <2>2, LineKept
  <2>4. f[i] = Len(O) + 1
    BY <1>2
  <2>. HIDE DEF O, x, f
  <2>5. O \o <<x>> \in Seq(Line) /\ OneMore(O, x, O \o <<x>>, Len(O))
    BY <2>2, WithLine
  <2>6. Len(O \o <<x>>) = Len(O) + 1 /\ (O \o <<x>>)[Len(O) + 1] = x /\ Len(O) \in Nat
    BY <2>2, <2>5, LenProperties DEF OneMore
  <2>7. R(i) = O \o <<x>>
    BY DEF O, x
  <2>. HIDE DEF R
  <2>8. Len(R(i)) = f[i] /\ R(i)[f[i]] = x /\ f[i] \in Nat /\ f[i] \in 1..f[i]
    BY <2>4, <2>6, <2>7
  <2>9. Prefix(R(i), acc[i])
    BY <2>3, <2>5, <2>7, InsertedText, PrefixOfConcat
  <2>. QED  BY <2>2, <2>3, <2>4, <2>5, <2>7, <2>8, <2>9 DEF O, x
<1>. HIDE DEF R, f
<1>8. ASSUME NEW i \in 0..n PROVE Prefix(acc[i], acc[n])
  <2>. DEFINE S == {m \in 0..n : m < i \/ Prefix(acc[i], acc[m])}
  <2>1. Prefix(acc[i], acc[i])
    BY <1>4, LenProperties DEF Prefix
  <2>2. 0 \in S
    <3>1. CASE i = 0
      BY <1>2, <2>1, <3>1
    <3>2. CASE i # 0
      BY <1>2, <3>2
    <3>. QED  BY <3>1, <3>2
  <2>3. ASSUME NEW m \in 1..n, m - 1 \in S PROVE m \in S
    <3>1. m \in 0..n /\ m - 1 \in 0..n
      BY <1>2
    <3>2. CASE m < i
      BY <3>1, <3>2
    <3>3. CASE m = i
      BY <2>1, <3>1, <3>3
    <3>4. CASE m > i
      <4>1. Prefix(acc[i], acc[m - 1])
        BY <1>2, <2>3, <3>1, <3>4
      <4>2. Prefix(acc[m - 1], R(m))
        <5>. DEFINE one == <<old[m]>>
        <5>1. one \in Seq(Line)
          BY <1>2
        <5>. HIDE DEF one
        <5>2. Prefix(acc[m - 1], acc[m - 1] \o one)
          BY <1>7, <5>1, PrefixOfConcat
        <5>. QED  BY <5>2 DEF one, R
      <4>3. Prefix(R(m), acc[m])
        BY <1>7
      <4>4. acc[i] \in Seq(Line) /\ acc[m - 1] \in Seq(Line) /\ acc[m] \in Seq(Line) /\ R(m) \in Seq(Line)
        BY <1>4, <1>7
      <4>5. Prefix(acc[i], R(m))
        BY <4>1, <4>2, <4>4, PrefixThrough
      <4>6. Prefix(acc[i], acc[m])
        BY <4>3, <4>4, <4>5, PrefixThrough
      <4>. QED  BY <3>1, <4>6
    <3>. QED  BY <1>2, <3>1, <3>2, <3>3, <3>4
  <2>4. 0..n \subseteq S
    <3>. HIDE DEF S, n
    <3>. QED  BY <1>2, <2>2, <2>3, UpTo
  <2>5. n \in S /\ ~ (n < i)
    BY <1>2, <2>4
  <2>. QED  BY <2>5
<1>9. ASSUME NEW i \in 1..n PROVE Prefix(R(i), new)
  <2>1. i \in 0..n /\ n \in 0..n
    BY <1>2
  <2>2. Prefix(R(i), acc[i]) /\ Prefix(acc[i], acc[n])
    BY <1>7, <1>8, <2>1
  <2>3. acc[n] \in Seq(Line) /\ acc[i] \in Seq(Line) /\ R(i) \in Seq(Line)
    BY <1>4, <1>7, <2>1
  <2>4. Prefix(acc[n], new)
    BY <1>4, <1>6, <2>3, PrefixOfConcat
  <2>5. Prefix(R(i), acc[n])
    BY <2>2, <2>3, PrefixThrough
  <2>. QED  BY <1>3, <2>3, <2>4, <2>5, PrefixThrough
<1>10. ASSUME NEW i \in 1..n
       PROVE  f[i] \in 1..Len(new) /\ new[f[i]] = old[i] /\ SectionOf(new, f[i]) = SectionOf(old, i)
  <2>1. R(i) \in Seq(Line) /\ Len(R(i)) = f[i] /\ f[i] \in 1..f[i] /\ R(i)[f[i]] = old[i] /\ At(R(i)) = SectionOf(old, i)
    BY <1>7
  <2>2. Prefix(R(i), new)
    BY <1>9
  <2>3. f[i] <= Len(new) /\ \A p \in 1..f[i] : new[p] = R(i)[p]
    BY <2>1, <2>2 DEF Prefix
  <2>4. Len(new) \in Nat /\ f[i] \in Nat
    BY <1>3, <1>7, LenProperties
  <2>5. f[i] \in 0..Len(R(i))
    BY <2>1, <2>4
  <2>6. SectionOf(new, f[i]) = SectionOf(R(i), f[i])
    BY <1>3, <2>1, <2>3, <2>5, UnderSame
  <2>. QED  BY <2>1, <2>3, <2>4, <2>6 DEF At
<1>11. ASSUME NEW i \in 2..n PROVE f[i - 1] < f[i]
  <2>1. i - 1 \in 1..n /\ i \in 1..n
    BY <1>2
  <2>2. Prefix(R(i - 1), acc[i - 1]) /\ Len(R(i - 1)) = f[i - 1] /\ f[i] = Len(acc[i - 1]) + 1 /\ f[i - 1] \in Nat
    BY <1>7, <2>1
  <2>3. Len(acc[i - 1]) \in Nat
    BY <1>7, <2>1, LenProperties
  <2>. QED  BY <2>2, <2>3 DEF Prefix
<1>12. InOrder(old, new)
  <2>1. f \in [1..n -> 1..Len(new)]
    <3>1. f = [i \in 1..n |-> f[i]]
      BY DEF f
    <3>. QED  BY <1>10, <3>1
  <2>. QED  BY <1>3, <1>10, <1>11, <2>1, FoundInOrder
<1>13. ASSUME NEW i \in 1..n, old[i].kind \in {"key", "header"}, i > 1, old[i - 1] = Comment
       PROVE  f[i] > 1 /\ new[f[i] - 1] = Comment
  <2>1. i - 1 \in 1..n /\ i \in 2..n
    BY <1>2, <1>13
  <2>2. acc[i - 1] = R(i - 1) \o Inserted(old, i - 1) /\ R(i - 1) \in Seq(Line) /\ Len(R(i - 1)) = f[i - 1]
    BY <1>7, <2>1
  <2>3. CASE Inserted(old, i - 1) = <<>>
    <3>1. acc[i - 1] = R(i - 1)
      BY <2>2, <2>3, ConcatEmptySeq
    <3>2. f[i] = f[i - 1] + 1 /\ f[i - 1] \in Nat /\ f[i - 1] \in 1..Len(new) /\ new[f[i - 1]] = old[i - 1]
      BY <1>7, <1>10, <2>1, <2>2, <3>1
    <3>3. f[i] - 1 = f[i - 1] /\ f[i] > 1
      BY <1>3, <3>2, LenProperties
    <3>. QED  BY <1>13, <3>2, <3>3
  <2>4. CASE \E s \in Names(Shipped) \cap Names(old) : SectionEnd(old, s) = i - 1
    <3>1. \A j \in ((i - 1) + 1)..n : old[j] = Blank
      BY <1>13, <2>4, EndIs
    <3>2. i \in ((i - 1) + 1)..n
      BY <1>2
    <3>3. old[i] = Blank
      BY <3>1, <3>2
    <3>. QED  BY <1>13, <3>3 DEF Blank
  <2>. QED  BY <2>1, <2>3, <2>4, InsertedIs
<1>14. ASSUME NEW i \in 1..n, old[i].kind \in {"key", "header"}
       PROVE  \E j \in DOMAIN new :
                /\ new[j] = old[i]
                /\ (Under(old, i) = 0) = (Under(new, j) = 0)
                /\ Under(old, i) # 0 => new[Under(new, j)] = old[Under(old, i)]
                /\ i > 1 /\ old[i - 1] = Comment => j > 1 /\ new[j - 1] = Comment
  <2>. DEFINE j == f[i]
  <2>1. j \in 1..Len(new) /\ new[j] = old[i] /\ SectionOf(new, j) = SectionOf(old, i)
    BY <1>10
  <2>2. i > 1 /\ old[i - 1] = Comment => j > 1 /\ new[j - 1] = Comment
    BY <1>13, <1>14
  <2>. HIDE DEF j
  <2>3. j \in 0..Len(new) /\ i \in 0..Len(old) /\ j \in DOMAIN new
    BY <1>2, <1>3, <2>1, LenProperties
  <2>4. /\ (Under(old, i) = 0) = (Under(new, j) = 0)
        /\ Under(old, i) # 0 => new[Under(new, j)] = old[Under(old, i)]
    BY <1>3, <2>1, <2>3, SameSection
  <2>. QED  BY <2>1, <2>2, <2>3, <2>4
<1>. QED  BY <1>2, <1>12, <1>14 DEF Extends, new

(* A file extends itself.                                                    *)
LEMMA ExtendsItself ==
  ASSUME NEW P \in Seq(Line)
  PROVE  Extends(P, P)
<1>. DEFINE n == Len(P)
            f == [i \in 1..n |-> i]
<1>1. n \in Nat /\ DOMAIN P = 1..n
  BY LenProperties
<1>2. f \in [1..n -> 1..n] /\ \A i \in 1..n : f[i] = i
  OBVIOUS
<1>. HIDE DEF f
<1>3. \A i \in 2..n : f[i - 1] < f[i]
  <2>1. ASSUME NEW i \in 2..n PROVE f[i - 1] < f[i]
    <3>1. i - 1 \in 1..n /\ i \in 1..n
      BY <1>1
    <3>2. f[i - 1] = i - 1 /\ f[i] = i
      BY <1>2, <3>1
    <3>. QED  BY <1>1, <3>2
  <2>. QED  BY <2>1
<1>4. \A i \in 1..n : P[f[i]] = P[i]
  BY <1>2
<1>5. InOrder(P, P)
  BY <1>2, <1>3, <1>4, FoundInOrder
<1>. QED  BY <1>1, <1>5 DEF Extends

-----------------------------------------------------------------------------
(* Configuration: values of several lines.                                   *)

(* The last line up to i that says something ...                             *)
LEMMA SaidIs ==
  ASSUME NEW P \in Seq(Line), NEW i \in 0..Len(P)
  PROVE  /\ Said(P, i) \in 0..i
         /\ Said(P, i) = 0 \/ P[Said(P, i)] \notin {Comment, Blank}
         /\ \A j \in 1..i : P[j] \notin {Comment, Blank} => j <= Said(P, i)
<1>. DEFINE S == {0} \cup {j \in DOMAIN P : j <= i /\ P[j] \notin {Comment, Blank}}
<1>1. Len(P) \in Nat /\ DOMAIN P = 1..Len(P) /\ i \in Nat
  BY LenProperties
<1>2. S \subseteq 0..i /\ S # {}
  BY <1>1
<1>3. Max(S) \in S /\ \A j \in S : j <= Max(S)
  <2>. HIDE DEF S
  <2>. QED  BY <1>1, <1>2, MaxOf
<1>4. Said(P, i) = Max(S)
  BY DEF Said
<1>5. \A j \in 1..i : P[j] \notin {Comment, Blank} => j \in S
  BY <1>1
<1>6. Max(S) \in 0..i /\ (Max(S) = 0 \/ P[Max(S)] \notin {Comment, Blank})
  BY <1>2, <1>3
<1>. HIDE DEF S
<1>. QED  BY <1>3, <1>4, <1>5, <1>6

(* ... and the only such.                                                    *)
LEMMA SaidOf ==
  ASSUME NEW P \in Seq(Line), NEW i \in 0..Len(P), NEW u \in 0..i,
         u = 0 \/ P[u] \notin {Comment, Blank},
         \A j \in 1..i : P[j] \notin {Comment, Blank} => j <= u
  PROVE  Said(P, i) = u
<1>. DEFINE m == Said(P, i)
<1>1. m \in 0..i /\ (m = 0 \/ P[m] \notin {Comment, Blank})
      /\ \A j \in 1..i : P[j] \notin {Comment, Blank} => j <= m
  BY SaidIs
<1>2. i \in Nat
  BY LenProperties
<1>. HIDE DEF m
<1>3. m <= u
  BY <1>1, <1>2
<1>4. u <= m
  BY <1>1, <1>2
<1>5. m = u
  BY <1>1, <1>2, <1>3, <1>4
<1>. QED  BY <1>5 DEF m

(* Whether a value goes on behind a line: not before the first one, ...       *)
LEMMA UnendedFirst ==
  ASSUME NEW P \in Seq(Line)
  PROVE  ~Unended(P, 0)
<1>1. 0 \in 0..Len(P)
  BY LenProperties
<1>2. Said(P, 0) \in 0..0
  BY <1>1, SaidIs
<1>. QED  BY <1>2 DEF Unended

(* ... after one that says something as it says, ...                         *)
LEMMA UnendedSaid ==
  ASSUME NEW P \in Seq(Line), NEW i \in 1..Len(P), P[i] \notin {Comment, Blank}
  PROVE  Unended(P, i) <=> GoesOn(P[i])
<1>1. i \in 0..Len(P) /\ i \in 0..i /\ \A j \in 1..i : j <= i
  BY LenProperties
<1>2. Said(P, i) = i
  BY <1>1, SaidOf
<1>3. i # 0
  BY LenProperties
<1>. QED  BY <1>2, <1>3 DEF Unended

(* ... after comments and blanks as before them, ...                         *)
LEMMA UnendedPlain ==
  ASSUME NEW P \in Seq(Line), NEW a \in 0..Len(P), NEW b \in a..Len(P),
         \A l \in (a + 1)..b : P[l] \in {Comment, Blank}
  PROVE  Unended(P, b) <=> Unended(P, a)
<1>. DEFINE m == Said(P, a)
<1>1. Len(P) \in Nat
  BY LenProperties
<1>2. m \in 0..a /\ (m = 0 \/ P[m] \notin {Comment, Blank})
      /\ \A j \in 1..a : P[j] \notin {Comment, Blank} => j <= m
  BY SaidIs
<1>. HIDE DEF m
<1>3. m \in 0..b /\ b \in 0..Len(P)
  BY <1>1, <1>2
<1>4. ASSUME NEW j \in 1..b, P[j] \notin {Comment, Blank} PROVE j <= m
  <2>1. j \notin (a + 1)..b
    BY <1>4
  <2>2. j \in 1..a
    BY <1>1, <2>1
  <2>. QED  BY <1>2, <1>4, <2>2
<1>5. Said(P, b) = m
  BY <1>2, <1>3, <1>4, SaidOf
<1>. QED  BY <1>5 DEF Unended, m

(* ... and the same where two texts begin alike.                             *)
LEMMA UnendedSame ==
  ASSUME NEW P \in Seq(Line), NEW R \in Seq(Line), NEW i \in 0..Len(P), i <= Len(R),
         \A j \in 1..i : R[j] = P[j]
  PROVE  Unended(R, i) <=> Unended(P, i)
<1>. DEFINE m == Said(P, i)
<1>1. Len(P) \in Nat /\ Len(R) \in Nat
  BY LenProperties
<1>2. m \in 0..i /\ (m = 0 \/ P[m] \notin {Comment, Blank})
      /\ \A j \in 1..i : P[j] \notin {Comment, Blank} => j <= m
  BY SaidIs
<1>. HIDE DEF m
<1>3. i \in 0..Len(R) /\ (m # 0 => R[m] = P[m])
  BY <1>1, <1>2
<1>4. Said(R, i) = m
  BY <1>2, <1>3, SaidOf
<1>. QED  BY <1>3, <1>4 DEF Unended, m

(* The further lines of P are where a value goes on, and `on' tells whether     *)
(* one does behind P.                                                          *)
Follows(P) ==
  \A i \in DOMAIN P : P[i] \notin {Comment, Blank} => (P[i].kind = "rest" <=> Unended(P, i - 1))
Running(P, on) == P \in Seq(Line) /\ Follows(P) /\ (Unended(P, Len(P)) <=> on)

LEMMA RunsOn ==
  ASSUME NEW P, NEW on, NEW off, Running(P, on), on <=> off
  PROVE  Running(P, off)
BY DEF Running

(* One more line.                                                            *)
LEMMA RunLine ==
  ASSUME NEW P, NEW on, Running(P, on), NEW x \in Line
  PROVE  /\ x \in {Comment, Blank} => Running(P \o <<x>>, on)
         /\ x \notin {Comment, Blank} /\ (x.kind = "rest" <=> on) => Running(P \o <<x>>, GoesOn(x))
<1>. DEFINE n == Len(P)
            R == P \o <<x>>
<1>1. P \in Seq(Line) /\ Follows(P) /\ (Unended(P, n) <=> on)
  BY DEF Running
<1>2. OneMore(P, x, R, n)
  BY <1>1, WithLine
<1>. HIDE DEF R
<1>3. R \in Seq(Line) /\ Len(R) = n + 1 /\ R[n + 1] = x /\ \A i \in 1..n : R[i] = P[i]
  BY <1>2 DEF OneMore
<1>4. n \in Nat /\ DOMAIN P = 1..n /\ DOMAIN R = 1..(n + 1)
  BY <1>1, <1>3, LenProperties
<1>5. ASSUME NEW i \in 0..n PROVE Unended(R, i) <=> Unended(P, i)
  <2>1. i <= Len(R) /\ \A j \in 1..i : R[j] = P[j]
    BY <1>3, <1>4
  <2>. QED  BY <1>1, <1>3, <2>1, UnendedSame
<1>6. Unended(R, n) <=> on
  <2>1. n \in 0..n
    BY <1>4
  <2>. QED  BY <1>1, <1>5, <2>1
<1>7. ASSUME x \in {Comment, Blank} \/ (x.kind = "rest" <=> on) PROVE Follows(R)
  <2>1. SUFFICES ASSUME NEW i \in 1..(n + 1), R[i] \notin {Comment, Blank}
                 PROVE  R[i].kind = "rest" <=> Unended(R, i - 1)
    BY <1>4 DEF Follows
  <2>2. CASE i \in 1..n
    <3>1. i - 1 \in 0..n /\ R[i] = P[i]
      BY <1>3, <1>4, <2>2
    <3>2. P[i].kind = "rest" <=> Unended(P, i - 1)
      BY <1>1, <1>4, <2>1, <2>2, <3>1 DEF Follows
    <3>. QED  BY <1>5, <3>1, <3>2
  <2>3. CASE i = n + 1
    <3>1. R[i] = x /\ i - 1 = n
      BY <1>3, <1>4, <2>3
    <3>. QED  BY <1>6, <1>7, <2>1, <3>1
  <2>. QED  BY <1>4, <2>2, <2>3
<1>8. n + 1 \in 1..Len(R)
  BY <1>3, <1>4
<1>9. ASSUME x \in {Comment, Blank} PROVE Running(R, on)
  <2>1. n \in 0..Len(R) /\ n + 1 \in n..Len(R) /\ \A l \in (n + 1)..(n + 1) : R[l] \in {Comment, Blank}
    BY <1>3, <1>4, <1>9
  <2>2. Unended(R, n + 1) <=> Unended(R, n)
    BY <1>3, <2>1, UnendedPlain
  <2>. QED  BY <1>3, <1>6, <1>7, <1>9, <2>2 DEF Running
<1>10. ASSUME x \notin {Comment, Blank}, x.kind = "rest" <=> on PROVE Running(R, GoesOn(x))
  <2>1. Unended(R, n + 1) <=> GoesOn(x)
    BY <1>3, <1>8, <1>10, UnendedSaid
  <2>. QED  BY <1>3, <1>7, <1>10, <2>1 DEF Running
<1>. QED  BY <1>9, <1>10 DEF R

(* The next line of a text that a value goes on in as in P.                    *)
LEMMA RunNext ==
  ASSUME NEW Q \in Seq(Line), Follows(Q), NEW i \in 1..Len(Q), NEW P, Running(P, Unended(Q, i - 1))
  PROVE  Running(P \o <<Q[i]>>, Unended(Q, i))
<1>. DEFINE x == Q[i]
<1>1. Len(Q) \in Nat /\ DOMAIN Q = 1..Len(Q) /\ x \in Line
  BY LenProperties
<1>2. CASE x \in {Comment, Blank}
  <2>1. i - 1 \in 0..Len(Q) /\ i \in (i - 1)..Len(Q) /\ \A l \in (i - 1 + 1)..i : Q[l] \in {Comment, Blank}
    BY <1>1, <1>2
  <2>2. Unended(Q, i) <=> Unended(Q, i - 1)
    BY <2>1, UnendedPlain
  <2>3. Running(P \o <<x>>, Unended(Q, i - 1))
    BY <1>1, <1>2, RunLine
  <2>4. Running(P \o <<x>>, Unended(Q, i))
    BY <2>2, <2>3, RunsOn
  <2>. QED  BY <2>4
<1>3. CASE x \notin {Comment, Blank}
  <2>1. x.kind = "rest" <=> Unended(Q, i - 1)
    BY <1>1, <1>3 DEF Follows
  <2>2. Unended(Q, i) <=> GoesOn(x)
    BY <1>3, UnendedSaid
  <2>3. Running(P \o <<x>>, GoesOn(x))
    BY <1>1, <1>3, <2>1, RunLine
  <2>4. Running(P \o <<x>>, Unended(Q, i))
    BY <2>2, <2>3, RunsOn
  <2>. QED  BY <2>4
<1>. QED  BY <1>2, <1>3

(* Some lines of such a text, from a place where a value goes on as it does behind P. *)
LEMMA RunLines ==
  ASSUME NEW Q \in Seq(Line), Follows(Q), NEW a \in 1..Len(Q), NEW b \in a..Len(Q),
         NEW P, Running(P, Unended(Q, a - 1))
  PROVE  Running(P \o SubSeq(Q, a, b), Unended(Q, b))
<1>. DEFINE R(l) == P \o SubSeq(Q, a, a + l - 1)
            m == b - a + 1
            S == {l \in 0..m : Running(R(l), Unended(Q, a + l - 1))}
<1>0. Len(Q) \in Nat /\ m \in Nat /\ P \in Seq(Line)
  BY LenProperties DEF Running
<1>1. 0 \in S
  <2>1. SubSeq(Q, a, a + 0 - 1) = <<>> /\ a + 0 - 1 = a - 1
    BY <1>0, SubSeqEmpty
  <2>2. R(0) = P
    BY <1>0, <2>1, ConcatEmptySeq
  <2>. HIDE DEF R, m
  <2>. QED  BY <1>0, <2>1, <2>2
<1>2. ASSUME NEW l \in 1..m, l - 1 \in S PROVE l \in S
  <2>. DEFINE c == a + l - 1
  <2>1. c \in a..Len(Q) /\ c \in 1..Len(Q) /\ a + (l - 1) - 1 = c - 1 /\ l \in 0..m
    BY <1>0
  <2>2. Running(P \o SubSeq(Q, a, c - 1), Unended(Q, c - 1))
    BY <1>2, <2>1
  <2>. HIDE DEF c
  <2>3. P \o SubSeq(Q, a, c) = (P \o SubSeq(Q, a, c - 1)) \o <<Q[c]>>
    BY <1>0, <2>1, LineBehind
  <2>. DEFINE O == P \o SubSeq(Q, a, c - 1)
  <2>. HIDE DEF O
  <2>4. Running(O \o <<Q[c]>>, Unended(Q, c))
    BY <2>1, <2>2, RunNext DEF O
  <2>5. Running(P \o SubSeq(Q, a, c), Unended(Q, c))
    BY <2>3, <2>4 DEF O
  <2>. QED  BY <2>1, <2>5 DEF c
<1>3. m \in S
  <2>1. 0..m \subseteq S
    <3>. HIDE DEF S, m
    <3>. QED  BY <1>0, <1>1, <1>2, UpTo
  <2>. HIDE DEF S, m
  <2>. QED  BY <1>0, <2>1
<1>4. a + m - 1 = b
  BY <1>0
<1>. QED  BY <1>3, <1>4

-----------------------------------------------------------------------------
(* Configuration: the blocks of some headers and keys, one behind the other. *)

(* The defaults are such a text, and a value goes on behind none of them.    *)
LEMMA ShippedRuns == Follows(Shipped) /\ ~Unended(Shipped, Len(Shipped))
BY ShippedIs DEF Complete, Follows

(* The header or key before a place is the last one before it.               *)
LEMMA LastItem ==
  ASSUME NEW i \in 1..(Len(Shipped) + 1)
  PROVE  /\ Preceding(i) \in 0..(i - 1) /\ (Preceding(i) = 0 \/ Preceding(i) \in Items)
         /\ \A j \in Items : j < i => j <= Preceding(i)
<1>. DEFINE S == {0} \cup {j \in 1..(i - 1) : Shipped[j].kind \in {"header", "key"}}
<1>1. S \subseteq 0..(i - 1) /\ S # {} /\ i - 1 \in Nat
  BY ShippedIs
<1>2. Preceding(i) = Max(S)
  BY DEF Preceding
<1>3. Max(S) \in S /\ \A j \in S : j <= Max(S)
  <2>. HIDE DEF S
  <2>. QED  BY <1>1, MaxOf
<1>4. \A j \in Items : j < i => j \in S
  BY ShippedIs DEF Items
<1>5. Max(S) \in 0..(i - 1)
  BY <1>1, <1>3
<1>6. Max(S) = 0 \/ Max(S) \in Items
  BY <1>3, ShippedIs DEF Items
<1>. HIDE DEF S
<1>. QED  BY <1>2, <1>3, <1>4, <1>5, <1>6

LEMMA ItemsAre == Items \subseteq 1..Len(Shipped) /\ 0 \notin Items /\ Len(Shipped) + 1 \notin Items
BY ShippedIs DEF Items

LEMMA NextItem ==
  ASSUME NEW i \in 1..Len(Shipped)
  PROVE  Preceding(i + 1) = IF i \in Items THEN i ELSE Preceding(i)
<1>. DEFINE p == Preceding(i)
            q == Preceding(i + 1)
<1>1. Len(Shipped) \in Nat /\ i \in 1..(Len(Shipped) + 1) /\ i + 1 \in 1..(Len(Shipped) + 1)
  BY ShippedIs
<1>2. p \in 0..(i - 1) /\ (p = 0 \/ p \in Items) /\ \A j \in Items : j < i => j <= p
  BY <1>1, LastItem
<1>3. q \in 0..(i + 1 - 1) /\ (q = 0 \/ q \in Items) /\ \A j \in Items : j < i + 1 => j <= q
  BY <1>1, LastItem
<1>. HIDE DEF p, q
<1>4. i \in Int /\ p \in Int /\ q \in Int /\ 0 <= p /\ p < i /\ 0 <= q /\ q <= i
  BY <1>1, <1>2, <1>3
<1>5. CASE i \in Items
  <2>1. i <= q
    BY <1>3, <1>4, <1>5
  <2>. QED  BY <1>4, <1>5, <2>1 DEF p, q
<1>6. CASE i \notin Items
  <2>1. p <= q
    <3>1. CASE p = 0
      BY <1>4, <3>1
    <3>2. CASE p \in Items
      <4>1. p < i + 1
        BY <1>4
      <4>. QED  BY <1>3, <3>2, <4>1
    <3>. QED  BY <1>2, <3>1, <3>2
  <2>2. q <= p
    <3>1. CASE q = 0
      BY <1>4, <3>1
    <3>2. CASE q \in Items
      <4>1. q # i
        BY <1>6, <3>2
      <4>2. q < i
        BY <1>4, <4>1
      <4>. QED  BY <1>2, <3>2, <4>2
    <3>. QED  BY <1>3, <3>1, <3>2
  <2>3. p = q
    BY <1>4, <2>1, <2>2
  <2>. QED  BY <1>6, <2>3 DEF p, q
<1>. QED  BY <1>5, <1>6

(* A block goes on from the header or key before it.                         *)
LEMMA RunBlock ==
  ASSUME NEW i \in 1..Len(Shipped), NEW P, Running(P, Unended(Shipped, Preceding(i)))
  PROVE  Running(P \o Block(i), Unended(Shipped, i))
<1>. DEFINE a == Preceding(i) + 1
<1>1. Preceding(i) \in 0..(i - 1) /\ Len(Shipped) \in Nat /\ Shipped \in Seq(Line)
  BY PrecedingIs, ShippedIs
<1>2. a \in 1..Len(Shipped) /\ i \in a..Len(Shipped) /\ a - 1 = Preceding(i)
  BY <1>1
<1>3. Block(i) = SubSeq(Shipped, a, i)
  BY DEF Block
<1>. HIDE DEF a
<1>. QED  BY <1>1, <1>2, <1>3, ShippedRuns, RunLines

(* Whether a value goes on behind the blocks of those of I that come up to line j. *)
LeftOn(I, j) == Preceding(j + 1) \in I /\ Unended(Shipped, Preceding(j + 1))

LEMMA LeftOnNext ==
  ASSUME NEW I \in SUBSET Items, Unsplit(I), NEW j \in 1..Len(Shipped)
  PROVE  /\ j \in I => /\ LeftOn(I, j - 1) <=> Unended(Shipped, Preceding(j))
                       /\ LeftOn(I, j) <=> Unended(Shipped, j)
         /\ j \notin I => (LeftOn(I, j) <=> LeftOn(I, j - 1))
<1>1. j - 1 + 1 = j
  BY ShippedIs
<1>2. LeftOn(I, j - 1) <=> Preceding(j) \in I /\ Unended(Shipped, Preceding(j))
  BY <1>1 DEF LeftOn
<1>3. LeftOn(I, j) <=> Preceding(j + 1) \in I /\ Unended(Shipped, Preceding(j + 1))
  BY DEF LeftOn
<1>4. j \in Items => (Unended(Shipped, Preceding(j)) => (j \in I <=> Preceding(j) \in I))
  BY DEF Unsplit
<1>5. Preceding(j + 1) = IF j \in Items THEN j ELSE Preceding(j)
  BY NextItem
<1>6. CASE j \in Items
  BY <1>2, <1>3, <1>4, <1>5, <1>6
<1>7. CASE j \notin Items
  BY <1>2, <1>3, <1>5, <1>7
<1>. QED  BY <1>6, <1>7

LEMMA LeftOnEnds ==
  ASSUME NEW I \in SUBSET Items, Unsplit(I)
  PROVE  ~LeftOn(I, 0) /\ ~LeftOn(I, Len(Shipped))
<1>1. Len(Shipped) \in Nat /\ 0 \notin I /\ Len(Shipped) + 1 \notin I
  BY ShippedIs, ItemsAre
<1>2. ~LeftOn(I, 0)
  <2>1. 0 + 1 \in 1..(Len(Shipped) + 1) /\ 0 + 1 - 1 = 0
    BY <1>1
  <2>2. Preceding(0 + 1) \in 0..0
    BY <2>1, LastItem
  <2>. QED  BY <1>1, <2>2 DEF LeftOn
<1>3. ~LeftOn(I, Len(Shipped))
  <2>. DEFINE k == Len(Shipped) + 1
  <2>1. k \in Items \cup {Len(Shipped) + 1}
    OBVIOUS
  <2>. HIDE DEF k
  <2>2. Unended(Shipped, Preceding(k)) => (k \in I <=> Preceding(k) \in I)
    BY <2>1 DEF Unsplit
  <2>3. ~ (Preceding(k) \in I /\ Unended(Shipped, Preceding(k)))
    BY <1>1, <2>2 DEF k
  <2>. QED  BY <2>3 DEF LeftOn, k
<1>. QED  BY <1>2, <1>3

(* The blocks of those of I between two places, where no value of several lines is split. *)
LEMMA RunPart ==
  ASSUME NEW I \in SUBSET Items, Unsplit(I), NEW lo \in 0..Len(Shipped), NEW hi \in lo..Len(Shipped),
         NEW J, J = I \cap ((lo + 1)..hi), NEW P, Running(P, LeftOn(I, lo))
  PROVE  Running(P \o Blocks(J), LeftOn(I, hi))
<1>. DEFINE n == Len(Shipped)
            seqs == [i \in DOMAIN Shipped |-> IF i \in J THEN Block(i) ELSE <<>>]
            within(i) == IF i < lo THEN lo ELSE IF i > hi THEN hi ELSE i
<1>1. n \in Nat /\ DOMAIN Shipped = 1..n /\ P \in Seq(Line) /\ J \subseteq I
  BY ShippedIs DEF Running
<1>2. seqs \in [1..n -> Seq(Line)]
  <2>1. \A i \in 1..n : Block(i) \in Seq(Line)
    BY BlockLine, EmptySeq
  <2>2. <<>> \in Seq(Line)
    BY EmptySeq
  <2>. QED  BY <1>1, <2>1, <2>2
<1>3. \A i \in 1..n : seqs[i] = IF i \in J THEN Block(i) ELSE <<>>
  BY <1>1
<1>4. Blocks(J) = FlattenSeq(seqs)
  BY DEF Blocks
<1>. HIDE DEF seqs
<1>5. PICK acc \in [0..n -> Seq(Line)] : Joins(acc, n, P, seqs) /\ acc[n] = P \o FlattenSeq(seqs)
  BY <1>1, <1>2, FlattenAfter
<1>. DEFINE S == {i \in 0..n : Running(acc[i], LeftOn(I, within(i)))}
<1>6. 0 \in S
  <2>1. acc[0] = P /\ 0 \in 0..n
    BY <1>1, <1>5 DEF Joins
  <2>2. within(0) = lo
    BY <1>1
  <2>. HIDE DEF within
  <2>. QED  BY <2>1, <2>2
<1>7. ASSUME NEW i \in 1..n, i - 1 \in S PROVE i \in S
  <2>1. i \in 0..n /\ i - 1 \in 0..n
    BY <1>1
  <2>. DEFINE O == acc[i - 1]
  <2>2. acc[i] = O \o seqs[i] /\ O \in Seq(Line)
    BY <1>5, <2>1 DEF Joins
  <2>3. Running(O, LeftOn(I, within(i - 1)))
    BY <1>7
  <2>4. CASE i \in J
    <3>1. i \in I /\ within(i) = i /\ within(i - 1) = i - 1
      BY <1>1, <2>4
    <3>2. seqs[i] = Block(i)
      BY <1>3, <2>4
    <3>. HIDE DEF within, O
    <3>3. /\ LeftOn(I, i - 1) <=> Unended(Shipped, Preceding(i))
          /\ LeftOn(I, i) <=> Unended(Shipped, i)
      BY <3>1, LeftOnNext
    <3>4. Running(O, LeftOn(I, i - 1))
      BY <2>3, <3>1
    <3>5. Running(O, Unended(Shipped, Preceding(i)))
      BY <3>3, <3>4, RunsOn
    <3>6. Running(O \o Block(i), Unended(Shipped, i))
      BY <3>5, RunBlock
    <3>7. Running(O \o Block(i), LeftOn(I, i))
      BY <3>3, <3>6, RunsOn
    <3>. QED  BY <2>1, <2>2, <3>1, <3>2, <3>7
  <2>5. CASE i \notin J
    <3>1. acc[i] = O
      <4>1. seqs[i] = <<>>
        BY <1>3, <2>5
      <4>. HIDE DEF O
      <4>. QED  BY <2>2, <4>1, ConcatEmptySeq
    <3>2. LeftOn(I, within(i)) <=> LeftOn(I, within(i - 1))
      <4>1. CASE i \in (lo + 1)..hi
        <5>1. i \notin I /\ within(i) = i /\ within(i - 1) = i - 1
          BY <1>1, <2>5, <4>1
        <5>. HIDE DEF within
        <5>. QED  BY <5>1, LeftOnNext
      <4>2. CASE i \notin (lo + 1)..hi
        <5>1. within(i) = within(i - 1)
          BY <1>1, <4>2
        <5>. HIDE DEF within
        <5>. QED  BY <5>1
      <4>. QED  BY <4>1, <4>2
    <3>. HIDE DEF within, O
    <3>3. Running(O, LeftOn(I, within(i)))
      BY <2>3, <3>2, RunsOn
    <3>. QED  BY <2>1, <3>1, <3>3
  <2>. QED  BY <2>4, <2>5
<1>8. n \in S
  <2>. HIDE DEF S
  <2>1. 0..n \subseteq S
    BY <1>1, <1>6, <1>7, UpTo
  <2>2. n \in 0..n
    BY <1>1
  <2>. QED  BY <2>1, <2>2
<1>9. within(n) = hi
  <2>. HIDE DEF n
  <2>1. n \in Nat /\ lo \in Int /\ hi \in Int /\ lo <= hi /\ hi <= n
    BY <1>1 DEF n
  <2>. QED  BY <2>1
<1>. HIDE DEF within
<1>. QED  BY <1>4, <1>5, <1>8, <1>9

(* Where there are none of I nothing is put behind.                          *)
LEMMA RunPast ==
  ASSUME NEW I \in SUBSET Items, Unsplit(I), NEW lo \in 0..Len(Shipped), NEW hi \in lo..Len(Shipped),
         I \cap ((lo + 1)..hi) = {}, NEW P, Running(P, LeftOn(I, lo))
  PROVE  Running(P, LeftOn(I, hi))
<1>. DEFINE J == I \cap ((lo + 1)..hi)
<1>1. J = {}
  OBVIOUS
<1>. HIDE DEF J
<1>2. Running(P \o Blocks(J), LeftOn(I, hi))
  BY RunPart DEF J
<1>3. Blocks(J) = <<>> /\ P \in Seq(Line)
  BY <1>1, NoBlocks DEF Running
<1>4. P \o Blocks(J) = P
  BY <1>3, ConcatEmptySeq
<1>. QED  BY <1>2, <1>4

-----------------------------------------------------------------------------
(* Configuration: the sections at the end, and the whole of an upgrade.      *)

(* The lines of the section from header i on go up to line e.                *)
Spans(i, e) ==
  /\ i \in Headers(Shipped) /\ e \in i..Len(Shipped)
  /\ \A h \in Headers(Shipped) : h <= e => h <= i
  /\ e = Len(Shipped) \/ \E h \in Headers(Shipped) : h = e + 1

LEMMA SpansAre ==
  ASSUME NEW i, NEW e, Spans(i, e)
  PROVE  /\ i \in 1..Len(Shipped) /\ i \in Headers(Shipped) /\ i \in Items /\ Shipped[i].kind = "header"
         /\ e \in Nat /\ i <= e /\ e <= Len(Shipped)
<1>1. Len(Shipped) \in Nat /\ i \in 1..Len(Shipped) /\ i \in Headers(Shipped) /\ i \in Items /\ Shipped[i].kind = "header"
  BY ShippedIs DEF Spans, Headers, Items
<1>2. e \in i..Len(Shipped)
  BY DEF Spans
<1>. QED  BY <1>1, <1>2

LEMMA UnderLast ==
  ASSUME NEW i, NEW e, Spans(i, e), NEW k \in i..e
  PROVE  Under(Shipped, k) = i
<1>1. Len(Shipped) \in Nat /\ i \in 1..Len(Shipped) /\ e \in Nat /\ e <= Len(Shipped) /\ i \in Headers(Shipped)
  BY ShippedIs, SpansAre
<1>2. \A h \in Headers(Shipped) : h \in 1..Len(Shipped)
  BY ShippedIs DEF Headers
<1>3. \A h \in Headers(Shipped) : h <= k => h <= i
  <2>1. \A h \in Headers(Shipped) : h <= e => h <= i
    BY DEF Spans
  <2>. QED  BY <1>1, <1>2, <2>1
<1>4. k \in 0..Len(Shipped) /\ i \in 0..k
  BY <1>1
<1>. QED  BY <1>1, <1>3, <1>4, ShippedIs, UnderOf

(* The keys of a missing section are what there is of missing sections behind its *)
(* header; of one that is there, nothing is.                                 *)
LEMMA SectionKeys ==
  ASSUME NEW old, NEW i, NEW e, Spans(i, e)
  PROVE  LET s == Shipped[i].name
         IN  /\ s \in MissingSections(old) =>
                  i \in InMissing(old) /\ KeysIn(Shipped, s) = InMissing(old) \cap ((i + 1)..e)
             /\ s \notin MissingSections(old) => InMissing(old) \cap (i..e) = {}
<1>. DEFINE s == Shipped[i].name
<1>1. Len(Shipped) \in Nat /\ DOMAIN Shipped = 1..Len(Shipped) /\ i \in 1..Len(Shipped) /\ Shipped[i].kind = "header"
      /\ e \in Nat /\ i <= e /\ e <= Len(Shipped)
  BY ShippedIs, SpansAre
<1>2. \A k \in i..e : Under(Shipped, k) = i
  BY UnderLast
<1>3. i \in i..e /\ i \in Items
  BY <1>1, SpansAre
<1>4. ASSUME s \notin MissingSections(old) PROVE InMissing(old) \cap (i..e) = {}
  BY <1>2, <1>4 DEF InMissing
<1>5. ASSUME s \in MissingSections(old), NEW k \in InMissing(old) \cap ((i + 1)..e)
      PROVE  k \in KeysIn(Shipped, s)
  <2>1. k \in i..e /\ k # i /\ ~ (k <= i) /\ k <= e
    BY <1>1
  <2>2. k \in Items /\ k \notin Headers(Shipped)
    <3>1. \A h \in Headers(Shipped) : h <= e => h <= i
      BY DEF Spans
    <3>2. k \notin Headers(Shipped)
      BY <2>1, <3>1
    <3>3. k \in InMissing(old)
      OBVIOUS
    <3>. QED  BY <3>2, <3>3 DEF InMissing
  <2>3. k \in DOMAIN Shipped /\ Shipped[k].kind = "key"
    BY <2>2 DEF Items, Headers
  <2>4. Under(Shipped, k) = i /\ i # 0
    BY <1>1, <1>2, <2>1
  <2>. QED  BY <2>3, <2>4 DEF KeysIn
<1>6. ASSUME s \in MissingSections(old), NEW k \in KeysIn(Shipped, s)
      PROVE  k \in InMissing(old) \cap ((i + 1)..e)
  <2>. DEFINE u == Under(Shipped, k)
  <2>1. k \in 1..Len(Shipped) /\ Shipped[k].kind = "key" /\ u # 0 /\ Shipped[u].name = s
    BY <1>1 DEF KeysIn
  <2>2. k \in 0..Len(Shipped)
    BY <1>1, <2>1
  <2>3. u \in 0..k /\ (u = 0 \/ u \in Headers(Shipped)) /\ \A h \in Headers(Shipped) : h <= k => h <= u
    BY <2>2, ShippedIs, UnderIs
  <2>4. k \in InMissing(old)
    BY <1>1, <1>6, <2>1 DEF InMissing, Items
  <2>. HIDE DEF u
  <2>5. u = i
    <3>1. i \in Headers(Shipped) /\ u \in Headers(Shipped) /\ Shipped[u].name = Shipped[i].name
      BY <2>1, <2>3, SpansAre
    <3>2. HeadersOnce(Shipped)
      BY ShippedIs
    <3>. QED  BY <3>1, <3>2 DEF HeadersOnce
  <2>6. k # i
    BY <1>1, <2>1
  <2>7. k <= e
    <3>1. CASE e = Len(Shipped)
      BY <1>1, <2>1, <3>1
    <3>2. CASE \E h \in Headers(Shipped) : h = e + 1
      <4>1. PICK h \in Headers(Shipped) : h = e + 1
        BY <3>2
      <4>2. ~ (h <= i)
        BY <1>1, <4>1
      <4>3. ~ (h <= k)
        BY <2>3, <2>5, <4>2
      <4>. QED  BY <1>1, <2>1, <4>1, <4>3
    <3>. QED  BY <3>1, <3>2 DEF Spans
  <2>8. k \in (i + 1)..e
    BY <1>1, <2>1, <2>3, <2>5, <2>6, <2>7
  <2>. QED  BY <2>4, <2>8
<1>7. ASSUME s \in MissingSections(old) PROVE i \in InMissing(old)
  BY <1>2, <1>3, <1>7 DEF InMissing
<1>. QED  BY <1>4, <1>5, <1>6, <1>7

(* A section put behind a text, with all of its keys.                        *)
LEMMA RunSection ==
  ASSUME NEW I \in SUBSET Items, Unsplit(I), NEW i \in Headers(Shipped), i \in I, NEW e \in i..Len(Shipped),
         KeysIn(Shipped, Shipped[i].name) = I \cap ((i + 1)..e), NEW P, Running(P, LeftOn(I, i - 1))
  PROVE  Running(P \o Section(i), LeftOn(I, e))
<1>. DEFINE solid == {j \in (Preceding(i) + 1)..i : Shipped[j] # Blank}
            first == Min(solid)
            text == SubSeq(Shipped, first, i)
            J == KeysIn(Shipped, Shipped[i].name)
            blank == <<Blank>>
            A == P \o blank
            B == A \o text
<1>1. Len(Shipped) \in Nat /\ Shipped \in Seq(Line) /\ i \in 1..Len(Shipped) /\ Shipped[i].kind = "header" /\ P \in Seq(Line)
  BY ShippedIs DEF Headers, Running
<1>2. Preceding(i) \in 0..(i - 1)
  BY <1>1, PrecedingIs
<1>3. first \in (Preceding(i) + 1)..i /\ \A l \in (Preceding(i) + 1)..(first - 1) : Shipped[l] = Blank
  <2>1. Shipped[i] # Blank
    BY <1>1 DEF Blank
  <2>2. i \in solid /\ solid \subseteq Nat
    BY <1>1, <1>2, <2>1
  <2>3. Min(solid) \in solid /\ \A j \in solid : Min(solid) <= j
    <3>. HIDE DEF solid
    <3>. QED  BY <2>2, MinOf
  <2>4. ASSUME NEW l \in (Preceding(i) + 1)..(first - 1) PROVE Shipped[l] = Blank
    <3>1. first \in (Preceding(i) + 1)..i
      BY <2>3
    <3>. HIDE DEF first
    <3>2. l \in (Preceding(i) + 1)..i /\ ~ (first <= l)
      BY <1>1, <1>2, <3>1
    <3>3. l \notin solid
      BY <2>3, <3>2 DEF first
    <3>. QED  BY <3>2, <3>3
  <2>. QED  BY <2>3, <2>4
<1>. HIDE DEF first
<1>4. first \in 1..Len(Shipped) /\ i \in first..Len(Shipped) /\ first - 1 \in Preceding(i)..Len(Shipped)
      /\ Preceding(i) \in 0..Len(Shipped)
  BY <1>1, <1>2, <1>3
<1>5. Unended(Shipped, first - 1) <=> Unended(Shipped, Preceding(i))
  <2>1. \A l \in (Preceding(i) + 1)..(first - 1) : Shipped[l] \in {Comment, Blank}
    BY <1>3
  <2>. QED  BY <1>1, <1>4, <2>1, UnendedPlain
<1>6. /\ LeftOn(I, i - 1) <=> Unended(Shipped, Preceding(i))
      /\ LeftOn(I, i) <=> Unended(Shipped, i)
  BY <1>1, LeftOnNext
<1>7. Running(A, Unended(Shipped, first - 1))
  <2>1. Blank \in Line /\ Blank \in {Comment, Blank}
    BY DEF Line
  <2>2. Running(A, LeftOn(I, i - 1))
    BY <2>1, RunLine
  <2>. HIDE DEF A
  <2>. QED  BY <1>5, <1>6, <2>2, RunsOn
<1>8. Running(B, LeftOn(I, i))
  <2>. HIDE DEF A
  <2>1. Running(A \o SubSeq(Shipped, first, i), Unended(Shipped, i))
    BY <1>1, <1>4, <1>7, ShippedRuns, RunLines
  <2>. HIDE DEF B
  <2>2. Running(B, Unended(Shipped, i))
    BY <2>1 DEF B
  <2>. QED  BY <1>6, <2>2, RunsOn
<1>9. Running(B \o Blocks(J), LeftOn(I, e))
  <2>. HIDE DEF B
  <2>1. i \in 0..Len(Shipped) /\ e \in i..Len(Shipped)
    BY <1>1
  <2>. QED  BY <1>8, <2>1, RunPart
<1>10. P \o Section(i) = B \o Blocks(J)
  <2>1. Section(i) = (blank \o text) \o Blocks(J)
    BY DEF Section, first
  <2>2. blank \in Seq(Line)
    BY DEF Line
  <2>3. text \in Seq(Line)
    <3>1. first \in Int /\ i \in Int /\ \A l \in first..i : Shipped[l] \in Line
      BY <1>1, <1>4, ShippedIs
    <3>. QED  BY <3>1, SubSeqProperties
  <2>4. Blocks(J) \in Seq(Line)
    BY BlocksText DEF KeysIn
  <2>. HIDE DEF blank, text, J
  <2>5. blank \o text \in Seq(Line)
    BY <2>2, <2>3, ConcatProperties
  <2>6. P \o ((blank \o text) \o Blocks(J)) = (P \o (blank \o text)) \o Blocks(J)
    BY <1>1, <2>4, <2>5, Regrouped, ZenonT(30)
  <2>7. P \o (blank \o text) = (P \o blank) \o text
    BY <1>1, <2>2, <2>3, Regrouped, ZenonT(30)
  <2>. QED  BY <2>1, <2>6, <2>7
<1>. QED  BY <1>9, <1>10

(* The next header that follows line j is behind line e, if there is one.    *)
NoneIn(j, e) ==
  /\ \A h \in Headers(Shipped) : h <= e => h <= j
  /\ e = Len(Shipped) \/ \E h \in Headers(Shipped) : h = e + 1

(* No header or key is above the first section.                              *)
LEMMA NoneAbove ==
  ASSUME NEW e \in 0..Len(Shipped), NoneIn(0, e)
  PROVE  Items \cap (1..e) = {}
<1>1. Len(Shipped) \in Nat /\ DOMAIN Shipped = 1..Len(Shipped) /\ Shipped \in Seq(Line)
  BY ShippedIs
<1>2. \A h \in Headers(Shipped) : h \in 1..Len(Shipped)
  BY <1>1 DEF Headers
<1>3. ASSUME NEW h \in Headers(Shipped), h <= e PROVE FALSE
  <2>1. h <= 0
    BY <1>3 DEF NoneIn
  <2>. QED  BY <1>2, <2>1
<1>4. ASSUME NEW k \in Items, k \in 1..e PROVE FALSE
  <2>1. k \in 1..Len(Shipped) /\ k <= e /\ k \in 0..Len(Shipped)
    BY <1>1, <1>4
  <2>2. k \notin Headers(Shipped)
    BY <1>3, <2>1
  <2>3. Shipped[k].kind = "key"
    BY <1>1, <1>4, <2>2 DEF Items, Headers
  <2>. DEFINE u == Under(Shipped, k)
  <2>4. u # 0
    BY <1>1, <2>1, <2>3, ConfigAssumption
  <2>5. u \in 0..k /\ (u = 0 \/ u \in Headers(Shipped))
    BY <1>1, <2>1, UnderIs
  <2>. HIDE DEF u
  <2>6. u \in Headers(Shipped) /\ u <= e
    BY <1>1, <2>1, <2>4, <2>5
  <2>. QED  BY <1>3, <2>6
<1>. QED  BY <1>4

(* The missing sections put behind a text split no value among them.         *)
LEMMA RunTail ==
  ASSUME NEW old, Unsplit(InMissing(old)), NEW P, Running(P, FALSE)
  PROVE  Running(P \o TailOf(old), FALSE)
<1>. DEFINE n == Len(Shipped)
            I == InMissing(old)
            seqs == [i \in DOMAIN Shipped |->
                       IF i \in Headers(Shipped) /\ Shipped[i].name \in MissingSections(old)
                       THEN Section(i) ELSE <<>>]
            New == {i \in Headers(Shipped) : Shipped[i].name \in MissingSections(old)}
<1>1. n \in Nat /\ DOMAIN Shipped = 1..n /\ New \subseteq 1..n /\ P \in Seq(Line)
      /\ \A h \in Headers(Shipped) : h \in 1..n
  BY ShippedIs DEF Headers, Running
<1>2. seqs \in [1..n -> Seq(Line)]
  <2>1. \A i \in Headers(Shipped) : Section(i) \in Seq(Line)
    BY SectionIs
  <2>2. <<>> \in Seq(Line)
    BY EmptySeq
  <2>. QED  BY <1>1, <2>1, <2>2
<1>3. \A i \in 1..n : seqs[i] = IF i \in New THEN Section(i) ELSE <<>>
  BY <1>1
<1>4. TailOf(old) = FlattenSeq(seqs)
  BY DEF TailOf
<1>. HIDE DEF seqs
<1>5. PICK acc \in [0..n -> Seq(Line)] : Joins(acc, n, P, seqs) /\ acc[n] = P \o FlattenSeq(seqs)
  BY <1>1, <1>2, FlattenAfter
<1>6. I \in SUBSET Items /\ Unsplit(I)
  BY DEF InMissing
<1>. HIDE DEF I
<1>7. ~LeftOn(I, 0) /\ ~LeftOn(I, n)
  BY <1>6, LeftOnEnds
<1>. DEFINE S == {j \in 0..n : \A e \in j..n : NoneIn(j, e) => Running(acc[j], LeftOn(I, e))}
<1>8. 0 \in S
  <2>1. acc[0] = P /\ 0 \in 0..n
    BY <1>1, <1>5 DEF Joins
  <2>2. ASSUME NEW e \in 0..n, NoneIn(0, e) PROVE Running(P, LeftOn(I, e))
    <3>1. Items \cap (1..e) = {}
      BY <2>2, NoneAbove
    <3>2. I \cap ((0 + 1)..e) = {}
      BY <1>6, <3>1
    <3>3. Running(P, LeftOn(I, 0))
      BY <1>7 DEF Running
    <3>4. 0 \in 0..n
      BY <1>1
    <3>. QED  BY <1>6, <3>2, <3>3, <3>4, RunPast
  <2>. QED  BY <2>1, <2>2
<1>9. ASSUME NEW j \in 1..n, j - 1 \in S PROVE j \in S
  <2>1. j \in 0..n /\ j - 1 \in 0..n
    BY <1>1
  <2>. DEFINE O == acc[j - 1]
  <2>2. acc[j] = O \o seqs[j] /\ O \in Seq(Line)
    BY <1>5, <2>1 DEF Joins
  <2>3. \A e \in (j - 1)..n : NoneIn(j - 1, e) => Running(O, LeftOn(I, e))
    BY <1>9
  <2>4. j \notin New => acc[j] = O
    <3>1. j \notin New => seqs[j] = <<>>
      BY <1>3
    <3>. HIDE DEF O
    <3>. QED  BY <2>2, <3>1, ConcatEmptySeq
  <2>. HIDE DEF O
  <2>5. SUFFICES ASSUME NEW e \in j..n, NoneIn(j, e) PROVE Running(acc[j], LeftOn(I, e))
    BY <2>1
  <2>6. e \in Nat /\ j <= e /\ e <= n
    BY <1>1
  <2>7. CASE j \notin Headers(Shipped)
    <3>1. NoneIn(j - 1, e)
      <4>1. ASSUME NEW h \in Headers(Shipped), h <= e PROVE h <= j - 1
        <5>1. h <= j
          BY <2>5, <4>1 DEF NoneIn
        <5>2. h # j /\ h \in Int
          BY <1>1, <2>7
        <5>. QED  BY <1>1, <5>1, <5>2
      <4>. QED  BY <2>5, <4>1 DEF NoneIn
    <3>2. e \in (j - 1)..n
      BY <1>1, <2>6
    <3>. QED  BY <2>3, <2>4, <2>7, <3>1, <3>2
  <2>8. CASE j \in Headers(Shipped)
    <3>1. Running(O, LeftOn(I, j - 1))
      <4>1. NoneIn(j - 1, j - 1)
        <5>1. j = j - 1 + 1
          BY <1>1
        <5>. QED  BY <2>8, <5>1 DEF NoneIn
      <4>2. j - 1 \in (j - 1)..n
        BY <1>1
      <4>. QED  BY <2>3, <4>1, <4>2
    <3>2. Spans(j, e)
      BY <2>5, <2>8 DEF Spans, NoneIn
    <3>. DEFINE s == Shipped[j].name
    <3>3. CASE s \in MissingSections(old)
      <4>1. j \in I /\ KeysIn(Shipped, s) = I \cap ((j + 1)..e)
        BY <3>2, <3>3, SectionKeys DEF I
      <4>2. Running(O \o Section(j), LeftOn(I, e))
        BY <1>6, <2>8, <3>1, <4>1, RunSection
      <4>3. seqs[j] = Section(j)
        BY <1>3, <2>8, <3>3
      <4>. QED  BY <2>2, <4>2, <4>3
    <3>4. CASE s \notin MissingSections(old)
      <4>1. I \cap (j..e) = {}
        BY <3>2, <3>4, SectionKeys DEF I
      <4>2. I \cap ((j - 1 + 1)..e) = {} /\ e \in (j - 1)..n
        <5>1. j - 1 + 1 = j
          BY <1>1
        <5>2. e \in (j - 1)..n
          BY <1>1, <2>6
        <5>. QED  BY <4>1, <5>1, <5>2
      <4>3. Running(O, LeftOn(I, e))
        BY <1>6, <2>1, <3>1, <4>2, RunPast
      <4>. QED  BY <2>4, <3>4, <4>3
    <3>. QED  BY <3>3, <3>4
  <2>. QED  BY <2>7, <2>8
<1>10. n \in S
  <2>. HIDE DEF S
  <2>1. 0..n \subseteq S
    BY <1>1, <1>8, <1>9, UpTo
  <2>2. n \in 0..n
    BY <1>1
  <2>. QED  BY <2>1, <2>2
<1>11. n \in n..n /\ NoneIn(n, n)
  BY <1>1 DEF NoneIn
<1>12. Running(acc[n], LeftOn(I, n))
  BY <1>10, <1>11
<1>. QED  BY <1>4, <1>5, <1>7, <1>12 DEF Running

(* A section ends where no value goes on.                                    *)
LEMMA EndComplete ==
  ASSUME NEW old \in Seq(Line), Complete(old), NEW s \in Names(old)
  PROVE  ~Unended(old, SectionEnd(old, s))
<1>. DEFINE e == SectionEnd(old, s)
<1>1. e \in 1..Len(old) /\ Silent(old, e)
  BY EndLies
<1>. HIDE DEF e
<1>2. Len(old) \in Nat /\ DOMAIN old = 1..Len(old)
  BY LenProperties
<1>3. PICK b \in e..Len(old) : /\ \A l \in (e + 1)..b : old[l] \in {Comment, Blank}
                               /\ b = Len(old) \/ b + 1 \in Headers(old)
  BY <1>1 DEF Silent
<1>4. Unended(old, b) <=> Unended(old, e)
  <2>1. e \in 0..Len(old)
    BY <1>1, <1>2
  <2>. QED  BY <1>3, <2>1, UnendedPlain
<1>5. CASE b = Len(old)
  BY <1>4, <1>5 DEF Complete, e
<1>6. CASE b + 1 \in Headers(old)
  <2>. DEFINE h == b + 1
  <2>1. h \in DOMAIN old /\ old[h].kind = "header" /\ h - 1 = b
    BY <1>1, <1>2, <1>6 DEF Headers
  <2>. HIDE DEF h
  <2>2. old[h] \notin {Comment, Blank} /\ old[h].kind # "rest"
    BY <2>1 DEF Comment, Blank
  <2>3. ~Unended(old, h - 1)
    BY <2>1, <2>2 DEF Complete
  <2>. QED  BY <1>4, <2>1, <2>3 DEF e
<1>. QED  BY <1>3, <1>5, <1>6

(* The lines of old with what is inserted behind them go on as they do in old. *)
LEMMA RunBody ==
  ASSUME NEW old \in Seq(Line), NamedOnce(old), Complete(old), Together(old),
         NEW acc, Body(old, acc)
  PROVE  Running(acc[Len(old)], FALSE)
<1>. DEFINE n == Len(old)
            S == {i \in 0..n : Running(acc[i], Unended(old, i))}
<1>1. n \in Nat /\ DOMAIN old = 1..n /\ Follows(old) /\ ~Unended(old, n)
  BY LenProperties DEF Complete, Follows
<1>2. /\ acc \in [0..n -> Seq(Line)] /\ acc[0] = <<>>
      /\ \A i \in 1..n : acc[i] = (acc[i - 1] \o <<old[i]>>) \o Inserted(old, i)
  BY BodyKept DEF Body, Joins
<1>3. 0 \in S
  <2>. DEFINE empty == <<>>
  <2>1. empty \in Seq(Line) /\ DOMAIN empty = {} /\ Len(empty) = 0
    BY EmptySeq
  <2>. HIDE DEF empty
  <2>2. Running(empty, FALSE)
    BY <2>1, UnendedFirst DEF Running, Follows
  <2>3. ~Unended(old, 0)
    BY UnendedFirst
  <2>4. Running(empty, Unended(old, 0))
    BY <2>2, <2>3 DEF Running
  <2>. QED  BY <1>1, <1>2, <2>4 DEF empty
<1>4. ASSUME NEW i \in 1..n, i - 1 \in S PROVE i \in S
  <2>1. i \in 0..n /\ i - 1 \in 0..n
    BY <1>1
  <2>. DEFINE O == acc[i - 1]
              R == O \o <<old[i]>>
  <2>2. Running(R, Unended(old, i))
    <3>1. Running(O, Unended(old, i - 1))
      BY <1>4
    <3>. HIDE DEF O
    <3>. QED  BY <1>1, <3>1, RunNext
  <2>3. acc[i] = R \o Inserted(old, i)
    BY <1>2
  <2>. HIDE DEF R
  <2>4. R \in Seq(Line)
    BY <2>2 DEF Running
  <2>5. CASE Inserted(old, i) = <<>>
    <3>1. acc[i] = R
      BY <2>3, <2>4, <2>5, ConcatEmptySeq
    <3>. QED  BY <2>1, <2>2, <3>1
  <2>6. CASE \E s \in Names(Shipped) \cap Names(old) :
               SectionEnd(old, s) = i /\ Inserted(old, i) = Blocks(Missing(old, s))
    <3>1. PICK s \in Names(Shipped) \cap Names(old) :
                 SectionEnd(old, s) = i /\ Inserted(old, i) = Blocks(Missing(old, s))
      BY <2>6
    <3>2. ~Unended(old, i)
      BY <3>1, EndComplete
    <3>. DEFINE I == Missing(old, s)
                m == Len(Shipped)
    <3>3. I \in SUBSET Items /\ Unsplit(I)
      <4>1. I \subseteq Items
        BY DEF Missing, KeysIn, Items
      <4>2. Unsplit(I)
        BY DEF Together
      <4>. QED  BY <4>1, <4>2
    <3>. HIDE DEF I
    <3>4. m \in Nat /\ I \subseteq 1..m
      BY <3>3, ShippedIs, ItemsAre
    <3>5. I = I \cap ((0 + 1)..m) /\ 0 \in 0..m /\ m \in 0..m
      <4>. HIDE DEF m
      <4>1. 0 + 1 = 1 /\ 0 \in 0..m /\ m \in 0..m
        BY <3>4
      <4>2. I = I \cap (1..m)
        BY <3>4
      <4>. QED  BY <4>1, <4>2
    <3>6. ~LeftOn(I, 0) /\ ~LeftOn(I, m)
      BY <3>3, LeftOnEnds
    <3>7. Running(R, LeftOn(I, 0))
      BY <2>2, <3>2, <3>6 DEF Running
    <3>8. Running(R \o Blocks(I), LeftOn(I, m))
      BY <3>3, <3>5, <3>7, RunPart
    <3>9. Running(acc[i], Unended(old, i))
      BY <2>3, <3>1, <3>2, <3>6, <3>8 DEF I, Running
    <3>. QED  BY <2>1, <3>9
  <2>7. \/ Inserted(old, i) = <<>>
        \/ \E s \in Names(Shipped) \cap Names(old) :
               SectionEnd(old, s) = i /\ Inserted(old, i) = Blocks(Missing(old, s))
    BY InsertedIs
  <2>. QED  BY <2>5, <2>6, <2>7
<1>5. n \in S
  <2>. HIDE DEF S
  <2>1. 0..n \subseteq S
    BY <1>1, <1>3, <1>4, UpTo
  <2>2. n \in 0..n
    BY <1>1
  <2>. QED  BY <2>1, <2>2
<1>. QED  BY <1>1, <1>5 DEF Running

(* An upgrade that splits no value leaves none that goes on where it must not. *)
LEMMA ApplyComplete ==
  ASSUME NEW old \in Seq(Line), NamedOnce(old), Complete(old), Together(old)
  PROVE  Complete(Apply(old))
<1>1. PICK acc : Body(old, acc)
  BY BodyIs
<1>. DEFINE P == acc[Len(old)]
<1>2. Apply(old) = P \o TailOf(old) /\ Running(P, FALSE)
  BY <1>1, RunBody DEF Body
<1>. HIDE DEF P
<1>3. Unsplit(InMissing(old))
  BY DEF Together
<1>4. Running(Apply(old), FALSE)
  BY <1>2, <1>3, RunTail
<1>. QED  BY <1>4 DEF Running, Follows, Complete

-----------------------------------------------------------------------------
(* Configuration: the file, its copy and the upgrade.                        *)

(* The states of the two files and of the upgrade.                           *)
Text(P) == P \in Seq(Line) /\ NamedOnce(P)

FileType ==
  /\ Text(file) /\ Text(bak) /\ Text(mine) /\ planned \in Seq(Line)
  /\ pc \in {"idle", "backup", "empty", "write"} /\ torn \in {"no", "torn", "lost"}
  /\ edits \in Nat /\ cuts \in Nat

(* What is about to be written is the upgrade of the file, or of its copy      *)
(* once the file is emptied.                                                   *)
PlannedInv ==
  /\ pc \in {"backup", "empty"} => planned = Apply(file) /\ ~UpToDate(file)
  /\ pc = "empty" => bak = file
  /\ pc = "write" => planned = Apply(bak)

(* Where what the user saved is.                                               *)
MineInv ==
  /\ torn = "no" /\ pc # "write" => file = mine \/ file = Apply(mine)
  /\ torn = "no" /\ pc = "write" => bak = mine
  /\ torn = "torn" => bak = mine /\ pc \in {"idle", "backup"}

(* No value is torn in what the user saved, nor in the copy: a file that an     *)
(* upgrade may have left with one is up to date, and no copy is made of it.     *)
CompleteInv == Complete(mine) /\ Complete(bak) /\ (Complete(file) \/ UpToDate(file))

(* Inductive: the copy is of the file that is upgraded, and an upgraded file is never *)
(* upgraded again, so that the file whose copy is made is the one the user saved. *)
ConfigInv == FileType /\ PlannedInv /\ MineInv /\ CompleteInv

(* The emptied file is a text too.                                           *)
LEMMA EmptyText == Text(<<>>) /\ Complete(<<>>)
<1>. DEFINE empty == <<>>
<1>1. empty \in Seq(Line) /\ DOMAIN empty = {} /\ Len(empty) = 0
  BY EmptySeq
<1>. HIDE DEF empty
<1>2. NamedOnce(empty)
  BY <1>1 DEF NamedOnce, Headers
<1>3. ~Unended(empty, Len(empty))
  BY <1>1, UnendedFirst
<1>4. Complete(empty)
  BY <1>1, <1>3 DEF Complete
<1>. QED  BY <1>1, <1>2, <1>4 DEF Text, empty

(* The first file is one users typed, or the defaults ...                    *)
LEMMA ConfigInit == FileInit => ConfigInv
<1>. SUFFICES ASSUME FileInit PROVE ConfigInv
  OBVIOUS
<1>1. Typed \subseteq Line /\ MaxLines \in Nat
  BY ConfigAssumption
<1>2. ASSUME NEW P \in Texts PROVE Text(P) /\ Complete(P)
  <2>1. P \in BoundedSeq(Typed, MaxLines) /\ NamedOnce(P) /\ Complete(P)
    BY DEF Texts, WellFormed
  <2>2. PICK m \in 0..MaxLines : P \in [1..m -> Typed]
    BY <2>1 DEF BoundedSeq, SeqOf
  <2>3. m \in Nat /\ P \in [1..m -> Line]
    BY <1>1, <2>2
  <2>4. P \in Seq(Line)
    BY <2>3
  <2>. QED  BY <2>1, <2>4 DEF Text
<1>3. Text(Shipped) /\ Complete(Shipped)
  BY ShippedIs DEF Text
<1>4. Text(file) /\ Complete(file) /\ mine = file
  BY <1>2, <1>3 DEF FileInit
<1>5. Text(bak) /\ Complete(bak) /\ planned \in Seq(Line)
  BY EmptyText, EmptySeq DEF FileInit
<1>. QED  BY <1>4, <1>5 DEF FileInit, ConfigInv, FileType, PlannedInv, MineInv, CompleteInv

(* ... an edit leaves a file that TOML reads ...                             *)
LEMMA Edited ==
  ASSUME Text(file), Edit
  PROVE  Text(file') /\ Complete(file')
<1>1. file' \in {InsertAt(file, i, l) : i \in 1..(Len(file) + 1), l \in Typed}
               \cup {RemoveAt(file, i) : i \in DOMAIN file} /\ NamedOnce(file') /\ Complete(file')
  BY DEF Edit, WellFormed
<1>2. Len(file) \in Nat /\ file \in [1..Len(file) -> Line] /\ DOMAIN file = 1..Len(file) /\ file \in Seq(Line)
  BY LenProperties DEF Text
<1>3. \A a, b \in Int : a >= 1 /\ b <= Len(file) => SubSeq(file, a, b) \in Seq(Line)
  <2>1. SUFFICES ASSUME NEW a \in Int, NEW b \in Int, a >= 1, b <= Len(file)
                 PROVE  SubSeq(file, a, b) \in Seq(Line)
    OBVIOUS
  <2>2. \A i \in a..b : file[i] \in Line
    BY <1>2, <2>1
  <2>. QED  BY <2>2, SubSeqProperties
<1>4. CASE \E i \in 1..(Len(file) + 1), l \in Typed : file' = InsertAt(file, i, l)
  <2>1. PICK i \in 1..(Len(file) + 1), l \in Typed : file' = InsertAt(file, i, l)
    BY <1>4
  <2>. DEFINE a == SubSeq(file, 1, i - 1)
              b == <<l>>
              c == SubSeq(file, i, Len(file))
  <2>2. a \in Seq(Line) /\ c \in Seq(Line)
    <3>1. 1 \in Int /\ i - 1 \in Int /\ i - 1 <= Len(file) /\ i \in Int /\ i >= 1 /\ Len(file) \in Int
      BY <1>2
    <3>. QED  BY <1>2, <1>3, <3>1
  <2>3. b \in Seq(Line)
    <3>1. l \in Line
      BY ConfigAssumption
    <3>. QED  BY <3>1
  <2>4. file' = (a \o b) \o c
    BY <2>1 DEF InsertAt
  <2>. HIDE DEF a, b, c
  <2>5. a \o b \in Seq(Line)
    BY <2>2, <2>3, ConcatProperties
  <2>6. file' \in Seq(Line)
    BY <2>2, <2>4, <2>5, ConcatProperties
  <2>. QED  BY <1>1, <2>6 DEF Text
<1>5. CASE \E i \in DOMAIN file : file' = RemoveAt(file, i)
  <2>1. PICK i \in 1..Len(file) : file' = RemoveAt(file, i)
    BY <1>2, <1>5
  <2>. DEFINE a == SubSeq(file, 1, i - 1)
              c == SubSeq(file, i + 1, Len(file))
  <2>2. a \in Seq(Line) /\ c \in Seq(Line)
    <3>1. 1 \in Int /\ i - 1 \in Int /\ i - 1 <= Len(file) /\ i + 1 \in Int /\ i + 1 >= 1 /\ Len(file) \in Int
      BY <1>2
    <3>. QED  BY <1>2, <1>3, <3>1
  <2>3. file' = a \o c
    BY <2>1 DEF RemoveAt
  <2>. HIDE DEF a, c
  <2>4. file' \in Seq(Line)
    BY <2>2, <2>3, ConcatProperties
  <2>. QED  BY <1>1, <2>4 DEF Text
<1>. QED  BY <1>1, <1>4, <1>5

(* ... and so does an upgrade that tears no value: all that is shown of it above, in one ... *)
LEMMA ApplyText ==
  ASSUME NEW P, Text(P)
  PROVE  /\ Text(Apply(P)) /\ UpToDate(Apply(P)) /\ Extends(P, Apply(P))
         /\ Complete(P) /\ Together(P) => Complete(Apply(P))
BY ApplySays, ApplyExtends, ApplyComplete DEF Text

(* ... so that what is loaded is the same, if anything is.                          *)
LEMMA ApplyLoad ==
  ASSUME NEW P, Text(P), Complete(P)
  PROVE  /\ Load(Apply(P)) = Load(P) \/ Load(Apply(P)) = Refused
         /\ Together(P) => Load(Apply(P)) = Load(P)
<1>1. WellFormed(P) /\ Load(P) = Settings(P)
  BY DEF WellFormed, Text, Load
<1>2. Settings(Apply(P)) = Settings(P)
  BY ApplySays DEF Text
<1>3. Load(Apply(P)) = Settings(P) \/ (~WellFormed(Apply(P)) /\ Load(Apply(P)) = Refused)
  BY <1>2 DEF Load
<1>4. Together(P) => WellFormed(Apply(P))
  BY ApplyText DEF WellFormed, Text
<1>. QED  BY <1>1, <1>3, <1>4

(* Every step keeps the invariant; emptying the file needs that it was not up to date. *)
LEMMA ConfigStep == ConfigInv /\ [FileNext]_fileVars => ConfigInv'
<1>. SUFFICES ASSUME ConfigInv, [FileNext]_fileVars PROVE ConfigInv'
  OBVIOUS
<1>. USE DEF ConfigInv
<1>1. CASE Begin
  <2>1. Text(Apply(file)) /\ Apply(file) \in Seq(Line)
    BY ApplyText DEF FileType, Text
  <2>2. FileType'
    BY <1>1, <2>1 DEF Begin, FileType, Text
  <2>3. PlannedInv' /\ MineInv' /\ CompleteInv'
    BY <1>1 DEF Begin, PlannedInv, MineInv, CompleteInv
  <2>. QED  BY <2>2, <2>3
<1>2. CASE Backup
  <2>1. FileType'
    BY <1>2 DEF Backup, Copy, FileType, Text
  <2>2. PlannedInv'
    BY <1>2 DEF Backup, Copy, PlannedInv
  <2>3. MineInv'
    BY <1>2 DEF Backup, Copy, MineInv, FileType
  <2>4. CompleteInv'
    BY <1>2 DEF Backup, Copy, PlannedInv, CompleteInv
  <2>. QED  BY <2>1, <2>2, <2>3, <2>4
<1>3. CASE Empty
  <2>1. FileType'
    BY <1>3, EmptyText DEF Empty, FileType, Text
  <2>2. PlannedInv'
    BY <1>3 DEF Empty, PlannedInv
  <2>3. torn = "no" => file = mine
    <3>1. ~UpToDate(file)
      BY <1>3 DEF Empty, PlannedInv
    <3>2. file # Apply(mine)
      BY <3>1, ApplyText DEF FileType
    <3>. QED  BY <1>3, <3>2 DEF Empty, MineInv
  <2>4. MineInv'
    BY <1>3, <2>3 DEF Empty, MineInv, PlannedInv
  <2>5. CompleteInv'
    BY <1>3, EmptyText DEF Empty, CompleteInv
  <2>. QED  BY <2>1, <2>2, <2>4, <2>5
<1>4. CASE Write
  <2>1. planned = Apply(bak)
    BY <1>4 DEF Write, PlannedInv
  <2>2. Text(planned)
    BY <2>1, ApplyText DEF FileType
  <2>3. FileType'
    BY <1>4, <2>2, EmptySeq DEF Write, FileType, Text
  <2>4. PlannedInv' /\ MineInv'
    BY <1>4, <2>1 DEF Write, PlannedInv, MineInv
  <2>5. CompleteInv'
    <3>1. UpToDate(planned)
      BY <2>1, ApplyText DEF FileType
    <3>. QED  BY <1>4, <3>1 DEF Write, CompleteInv
  <2>. QED  BY <2>3, <2>4, <2>5
<1>5. CASE CutShort
  <2>1. FileType'
    BY <1>5, EmptySeq DEF CutShort, FileType, Text
  <2>2. PlannedInv'
    BY <1>5 DEF CutShort, PlannedInv
  <2>3. MineInv'
    BY <1>5 DEF CutShort, MineInv, FileType
  <2>4. CompleteInv'
    BY <1>5 DEF CutShort, CompleteInv
  <2>. QED  BY <2>1, <2>2, <2>3, <2>4
<1>6. CASE Edit
  <2>1. Text(file') /\ Complete(file')
    BY <1>6, Edited DEF FileType
  <2>2. FileType'
    BY <1>6, <2>1 DEF Edit, FileType, Text
  <2>3. PlannedInv' /\ MineInv'
    BY <1>6 DEF Edit, PlannedInv, MineInv
  <2>4. CompleteInv'
    BY <1>6, <2>1 DEF Edit, CompleteInv
  <2>. QED  BY <2>2, <2>3, <2>4
<1>7. CASE UNCHANGED fileVars
  BY <1>7 DEF fileVars, FileType, Text, PlannedInv, MineInv, CompleteInv
<1>. QED  BY <1>1, <1>2, <1>3, <1>4, <1>5, <1>6, <1>7 DEF FileNext

(* ConfigInv, the types of both files with what holds of them between the steps of an *)
(* upgrade, holds throughout, for files and defaults of any length, with any of *)
(* their values going on in a second line, and for any number of edits and cuts. *)
THEOREM UpgradeInductive == FileSpec => []ConfigInv
<1>. QED  BY ConfigInit, ConfigStep, PTL DEF FileSpec

(* "A backup is written first": what the user saved is in the file or in its copy, but for *)
(* an upgrade that follows one cut short, whichever values an upgrade tears. *)
THEOREM NothingLost == FileSpec => []KeptSomewhere
<1>1. ConfigInv => KeptSomewhere
  <2>. SUFFICES ASSUME ConfigInv PROVE KeptSomewhere
    OBVIOUS
  <2>1. Extends(mine, mine) /\ Extends(mine, Apply(mine))
    BY ExtendsItself, ApplyText DEF ConfigInv, FileType, Text
  <2>. QED  BY <2>1 DEF ConfigInv, FileType, MineInv, KeptSomewhere
<1>. QED  BY <1>1, UpgradeInductive, PTL

(* Whoever loads the file, before, in the midst of or after an upgrade, loads the settings *)
(* that the user saved, but from a file emptied or left empty. Where the upgrade *)
(* parts a value of the defaults from its second line (off_task_urls of the      *)
(* shipped ones, unless [classify] and [drift] are both missing, or neither that *)
(* key nor the header of [drift] is) the load may be refused, but it never gives *)
(* other settings.                                                              *)
THEOREM SettingsStand == FileSpec => []SameSettings
<1>1. ConfigInv => SameSettings
  <2>. SUFFICES ASSUME ConfigInv PROVE SameSettings
    OBVIOUS
  <2>1. /\ Load(Apply(mine)) = Load(mine) \/ Load(Apply(mine)) = Refused
        /\ Together(mine) => Load(Apply(mine)) = Load(mine)
    BY ApplyLoad DEF ConfigInv, FileType, CompleteInv
  <2>. QED  BY <2>1 DEF ConfigInv, MineInv, SameSettings
<1>. QED  BY <1>1, UpgradeInductive, PTL

(* An upgrade keeps every line in its order and its section and adds everything that is *)
(* missing, so that the next one has nothing to do. It leaves a file that TOML reads *)
(* if it brings each value of several lines together with the header or key that follows *)
(* it in the defaults; otherwise nothing is said, and the file it leaves may be refused. *)
THEOREM OnlyAdds == FileSpec => Upgraded
<1>1. ConfigInv /\ [FileNext]_fileVars
        => [pc = "write" /\ pc' = "idle" /\ cuts' = cuts
              => /\ Extends(bak, file') /\ UpToDate(file')
                 /\ Together(bak) => WellFormed(file')]_fileVars
  <2>. SUFFICES ASSUME ConfigInv, FileNext, pc = "write", pc' = "idle", cuts' = cuts
                PROVE  /\ Extends(bak, file') /\ UpToDate(file')
                       /\ Together(bak) => WellFormed(file')
    OBVIOUS
  <2>1. Write
    <3>1. ~CutShort
      <4>1. cuts \in Nat
        BY DEF ConfigInv, FileType
      <4>. QED  BY <4>1 DEF CutShort
    <3>. QED  BY <3>1 DEF FileNext, Begin, Backup, Empty, Edit
  <2>2. file' = Apply(bak)
    BY <2>1 DEF Write, ConfigInv, PlannedInv
  <2>3. Text(bak) /\ Complete(bak)
    BY DEF ConfigInv, FileType, CompleteInv
  <2>. QED  BY <2>2, <2>3, ApplyText DEF Text, WellFormed
<1>. QED  BY <1>1, UpgradeInductive, PTL DEF FileSpec, Upgraded
=============================================================================
