---------------------------- MODULE LadderProofs ----------------------------
(***************************************************************************)
(* Proofs about Ladder, the tracker beneath it, Spans, and what is read of  *)
(* both, Day: for any windows, sessions, intervals and verdicts, days of    *)
(* any length, and any number of rows, labels and restarts.                 *)
(***************************************************************************)
EXTENDS Day, FiniteSetTheorems, SequenceTheorems, WellFoundedInduction, TLAPS

Row == [session : SessionIds, key : Keys, start : Nat, end : Nat, seen : Nat]
Tracker == [rows : Seq(Row), span : [row : Nat, flushed : Nat], session : SessionIds]
Events == {NoEvent} \cup [window : Windows, at : Nat]

(* A nonempty set of indices has a largest one: the differences to the bound  *)
(* have a least one.                                                          *)
LEMMA MaxOfIndices ==
  ASSUME NEW n \in Nat, NEW S \in SUBSET (1..n), S # {}
  PROVE  \E m \in S : \A j \in S : j <= m
<1>. DEFINE T == {n - j : j \in S}
<1>1. T \subseteq Nat /\ T # {}
  <2>1. \A j \in S : n - j \in Nat
    OBVIOUS
  <2>2. T \subseteq Nat
    BY <2>1
  <2>. QED  BY <2>2
<1>2. PICK x \in T : \A y \in T : <<y, x>> \notin OpToRel(<, Nat)
  <2>. HIDE DEF T
  <2>. QED  BY <1>1, NatLessThanWellFounded, WFMin
<1>3. \A y \in T : ~ (y < x)
  BY <1>1, <1>2 DEF OpToRel
<1>4. PICK m \in S : x = n - m
  OBVIOUS
<1>5. ASSUME NEW j \in S PROVE j <= m
  BY <1>3, <1>4
<1>. QED  BY <1>5

(* A state of the tracker: the open span is the last row.                    *)
TrackerOK(t) ==
  /\ t \in Tracker
  /\ t.span = NoSpan \/ (t.span.row # 0 /\ t.span.row = Len(t.rows))

(* What the tracker's handlers leave of the table: they append, and rewrite  *)
(* the open row alone, which no closed one becomes again.                    *)
Follows(t, u) ==
  /\ Len(t.rows) <= Len(u.rows)
  /\ \A r \in 1..Len(t.rows) :
       /\ u.rows[r].session = t.rows[r].session
       /\ u.rows[r].key = t.rows[r].key
       /\ u.rows[r].start = t.rows[r].start
       /\ r # t.span.row => u.rows[r] = t.rows[r] /\ r # u.span.row

-----------------------------------------------------------------------------
(* What each handler of the tracker returns. *)

(* A span is open if it has a row.                                           *)
LEMMA OpenIs ==
  ASSUME NEW t, TrackerOK(t)
  PROVE  /\ IsOpen(t) <=> t.span.row # 0
         /\ IsOpen(t) => t.span.row = Len(t.rows) /\ t.span.row \in 1..Len(t.rows)
                         /\ OpenRow(t) \in Row
<1>1. /\ t.rows \in Seq(Row) /\ Len(t.rows) \in Nat /\ t.span \in [row : Nat, flushed : Nat]
      /\ t.span = NoSpan \/ (t.span.row # 0 /\ t.span.row = Len(t.rows))
  BY DEF TrackerOK, Tracker
<1>2. IsOpen(t) <=> t.span.row # 0
  BY <1>1 DEF IsOpen, NoSpan
<1>3. ASSUME IsOpen(t)
      PROVE  t.span.row = Len(t.rows) /\ t.span.row \in 1..Len(t.rows)
  BY <1>1, <1>2, <1>3 DEF IsOpen
<1>. QED  BY <1>1, <1>2, <1>3, ElementOfSeq DEF OpenRow

(* Closed rewrites the end of the open row, and nothing is open.             *)
LEMMA ClosedIs ==
  ASSUME NEW t, TrackerOK(t), IsOpen(t), NEW end \in Nat
  PROVE  LET u == Closed(t, end)
             start == OpenRow(t).start
         IN /\ TrackerOK(u) /\ u.span = NoSpan /\ u.session = t.session
            /\ Len(u.rows) = Len(t.rows)
            /\ \A r \in 1..Len(t.rows) :
                 u.rows[r] = IF r = t.span.row
                             THEN [t.rows[r] EXCEPT !.end = IF end > start THEN end ELSE start]
                             ELSE t.rows[r]
<1>. DEFINE start == OpenRow(t).start
            row == [OpenRow(t) EXCEPT !.end = IF end > start THEN end ELSE start]
            u == Closed(t, end)
<1>1. /\ t \in Tracker /\ t.rows \in Seq(Row) /\ t.span.row \in 1..Len(t.rows)
      /\ OpenRow(t) \in Row /\ t.session \in SessionIds
  BY OpenIs DEF TrackerOK, Tracker
<1>2. row \in Row
  <2>1. start \in Nat
    BY <1>1 DEF Row
  <2>2. (IF end > start THEN end ELSE start) \in Nat
    BY <2>1
  <2>. QED  BY <1>1, <2>2 DEF Row
<1>3. u = [t EXCEPT !.rows = [t.rows EXCEPT ![t.span.row] = row], !.span = NoSpan]
  BY DEF Closed, Credited, OpenRow
<1>. HIDE DEF row, u
<1>4. /\ [t.rows EXCEPT ![t.span.row] = row] \in Seq(Row)
      /\ Len([t.rows EXCEPT ![t.span.row] = row]) = Len(t.rows)
      /\ \A r \in 1..Len(t.rows) :
           [t.rows EXCEPT ![t.span.row] = row][r] = IF r = t.span.row THEN row ELSE t.rows[r]
  BY <1>1, <1>2, ExceptSeq
<1>5. /\ u.rows = [t.rows EXCEPT ![t.span.row] = row]
      /\ u.span = NoSpan /\ u.session = t.session
      /\ u \in Tracker
  <2>1. NoSpan \in [row : Nat, flushed : Nat]
    BY DEF NoSpan
  <2>. QED  BY <1>1, <1>3, <1>4, <2>1 DEF Tracker
<1>6. TrackerOK(u)
  BY <1>5 DEF TrackerOK
<1>7. \A r \in 1..Len(t.rows) : u.rows[r] = IF r = t.span.row THEN row ELSE t.rows[r]
  BY <1>4, <1>5
<1>8. row = [t.rows[t.span.row] EXCEPT !.end = IF end > start THEN end ELSE start]
  BY DEF row, OpenRow
<1>9. Len(u.rows) = Len(t.rows)
  BY <1>4, <1>5
<1>. QED  BY <1>5, <1>6, <1>7, <1>8, <1>9 DEF u

(* u is t with a span opened at ts.                                          *)
IsOpened(t, u, key, ts) ==
  LET n == Len(t.rows)
  IN /\ TrackerOK(u) /\ u.span = [row |-> n + 1, flushed |-> ts]
     /\ u.session = t.session /\ Len(u.rows) = n + 1
     /\ \A r \in 1..n : u.rows[r] = t.rows[r]
     /\ u.rows[n + 1] = [session |-> t.session, key |-> key,
                         start |-> ts, end |-> ts, seen |-> ts]

(* Opened appends a row, the open one.                                       *)
LEMMA OpenedIs ==
  ASSUME NEW t, TrackerOK(t), NEW key \in Keys, NEW ts \in Nat
  PROVE  IsOpened(t, Opened(t, key, ts), key, ts)
<1>. DEFINE row == [session |-> t.session, key |-> key, start |-> ts, end |-> ts, seen |-> ts]
            n == Len(t.rows)
            u == Opened(t, key, ts)
<1>1. /\ t \in Tracker /\ t.rows \in Seq(Row) /\ t.session \in SessionIds /\ n \in Nat
  BY DEF TrackerOK, Tracker
<1>2. row \in Row
  BY <1>1 DEF Row
<1>3. u = [t EXCEPT !.rows = Append(t.rows, row), !.span = [row |-> n + 1, flushed |-> ts]]
  BY DEF Opened
<1>. HIDE DEF row, u
<1>4. /\ Append(t.rows, row) \in Seq(Row) /\ Len(Append(t.rows, row)) = n + 1
      /\ \A r \in 1..n : Append(t.rows, row)[r] = t.rows[r]
      /\ Append(t.rows, row)[n + 1] = row
  BY <1>1, <1>2, AppendProperties
<1>5. /\ u.rows = Append(t.rows, row) /\ u.span = [row |-> n + 1, flushed |-> ts]
      /\ u.session = t.session /\ u \in Tracker
  <2>1. [row |-> n + 1, flushed |-> ts] \in [row : Nat, flushed : Nat]
    BY <1>1
  <2>. QED  BY <1>1, <1>3, <1>4, <2>1 DEF Tracker
<1>6. TrackerOK(u)
  BY <1>1, <1>4, <1>5 DEF TrackerOK
<1>. QED  BY <1>4, <1>5, <1>6 DEF u, row, IsOpened

(* u is t with its open span seen again at at, credited to until at a flush. *)
IsSeenAgain(t, u, at, time, until) ==
  LET old == OpenRow(t)
      new == u.rows[t.span.row]
  IN /\ TrackerOK(u) /\ u.span.row = t.span.row /\ u.session = t.session
     /\ Len(u.rows) = Len(t.rows)
     /\ \A r \in 1..Len(t.rows) : r # t.span.row => u.rows[r] = t.rows[r]
     /\ new \in Row /\ new.seen = at
     /\ new.session = old.session /\ new.key = old.key /\ new.start = old.start
     /\ IF time - t.span.flushed >= FlushEvery
        THEN /\ u.span.flushed = time
             /\ new.end = IF until > old.start THEN until ELSE old.start
        ELSE u.span.flushed = t.span.flushed /\ new.end = old.end

(* SeenAgain changes when the open row was seen and, at a flush, its end.    *)
LEMMA SeenAgainIs ==
  ASSUME NEW t, TrackerOK(t), IsOpen(t), NEW at \in Nat, NEW time \in Nat
  PROVE  IsSeenAgain(t, SeenAgain(t, at, time), at, time, Earlier(time, at + Stale))
<1>. DEFINE old == OpenRow(t)
            until == Earlier(time, at + Stale)
            row == [old EXCEPT !.seen = at]
            end == IF until > old.start THEN until ELSE old.start
            row2 == [row EXCEPT !.end = end]
            u == SeenAgain(t, at, time)
            rows1 == [t.rows EXCEPT ![t.span.row] = row]
            rows2 == [rows1 EXCEPT ![t.span.row] = row2]
            s == [t EXCEPT !.rows = rows1]
<1>1. /\ t \in Tracker /\ t.rows \in Seq(Row) /\ t.span.row \in 1..Len(t.rows)
      /\ old \in Row /\ t.session \in SessionIds /\ t.span.row = Len(t.rows)
      /\ t.span \in [row : Nat, flushed : Nat] /\ t.span.row # 0
  BY OpenIs DEF TrackerOK, Tracker
<1>2. row \in Row /\ row.start = old.start
  BY <1>1 DEF Row
<1>3. row2 \in Row
  <2>1. Stale \in Nat /\ old.start \in Nat
    BY <1>1, SpansAssumption DEF Row
  <2>2. end \in Nat
    BY <2>1 DEF Earlier
  <2>. HIDE DEF row, end
  <2>. QED  BY <1>2, <2>2 DEF Row
<1>4. /\ rows1 \in Seq(Row) /\ Len(rows1) = Len(t.rows)
      /\ \A r \in 1..Len(t.rows) : rows1[r] = IF r = t.span.row THEN row ELSE t.rows[r]
  <2>. HIDE DEF row
  <2>. QED  BY <1>1, <1>2, ExceptSeq
<1>5. /\ rows2 \in Seq(Row) /\ Len(rows2) = Len(t.rows)
      /\ \A r \in 1..Len(t.rows) : rows2[r] = IF r = t.span.row THEN row2 ELSE t.rows[r]
  <2>. HIDE DEF row, row2, rows1
  <2>1. /\ [rows1 EXCEPT ![t.span.row] = row2] \in Seq(Row)
        /\ Len([rows1 EXCEPT ![t.span.row] = row2]) = Len(rows1)
        /\ \A r \in 1..Len(rows1) :
             [rows1 EXCEPT ![t.span.row] = row2][r] = IF r = t.span.row THEN row2 ELSE rows1[r]
    BY <1>1, <1>3, <1>4, ExceptSeq
  <2>. QED  BY <1>4, <2>1
<1>6. /\ s \in Tracker /\ s.rows = rows1 /\ s.span = t.span /\ s.session = t.session
  <2>. HIDE DEF rows1
  <2>. QED  BY <1>1, <1>4 DEF Tracker
<1>7. OpenRow(s) = row
  <2>. HIDE DEF rows1, row, s
  <2>. QED  BY <1>1, <1>4, <1>6 DEF OpenRow
<1>8. CASE time - t.span.flushed >= FlushEvery
  <2>1. Credited(s, until) = rows2
    <3>. HIDE DEF s, row, rows1, until
    <3>1. Credited(s, until) =
            [s.rows EXCEPT ![s.span.row] =
               [s.rows[s.span.row] EXCEPT !.end = IF until > OpenRow(s).start
                                                  THEN until ELSE OpenRow(s).start]]
      BY DEF Credited
    <3>2. s.rows[s.span.row] = row /\ OpenRow(s).start = old.start
      BY <1>2, <1>7 DEF OpenRow
    <3>. QED  BY <1>6, <3>1, <3>2
  <2>2. u = [s EXCEPT !.rows = rows2, !.span.flushed = time]
    <3>1. s = [t EXCEPT !.rows[t.span.row].seen = at]
      BY DEF OpenRow
    <3>. HIDE DEF s, rows2
    <3>. QED  BY <1>8, <2>1, <3>1 DEF SeenAgain, OpenRow
  <2>. HIDE DEF s, rows2, row2, row, u
  <2>3. /\ u.rows = rows2 /\ u.session = t.session
        /\ u.span = [t.span EXCEPT !.flushed = time]
    BY <1>6, <2>2 DEF Tracker
  <2>4. /\ u.span \in [row : Nat, flushed : Nat] /\ u.span.row = t.span.row /\ u.span.flushed = time
    BY <1>1, <2>3
  <2>5. u \in Tracker
    BY <1>1, <1>5, <1>6, <2>2, <2>3, <2>4 DEF Tracker
  <2>6. TrackerOK(u)
    BY <1>1, <1>5, <2>3, <2>4, <2>5 DEF TrackerOK
  <2>7. /\ Len(u.rows) = Len(t.rows) /\ u.rows[t.span.row] = row2
        /\ \A r \in 1..Len(t.rows) : r # t.span.row => u.rows[r] = t.rows[r]
    BY <1>1, <1>5, <2>3
  <2>8. /\ row2 \in Row /\ row2.seen = at /\ row2.session = old.session /\ row2.key = old.key
        /\ row2.start = old.start /\ row2.end = end
    BY <1>1, <1>3 DEF row2, row, Row
  <2>. QED  BY <1>8, <2>3, <2>4, <2>6, <2>7, <2>8 DEF u, IsSeenAgain
<1>9. CASE ~ (time - t.span.flushed >= FlushEvery)
  <2>1. u = s
    BY <1>9 DEF SeenAgain, OpenRow
  <2>. HIDE DEF s, row, u, rows1
  <2>2. TrackerOK(u)
    BY <1>1, <1>4, <1>6, <2>1 DEF TrackerOK
  <2>3. /\ Len(u.rows) = Len(t.rows) /\ u.rows[t.span.row] = row
        /\ \A r \in 1..Len(t.rows) : r # t.span.row => u.rows[r] = t.rows[r]
    BY <1>1, <1>4, <1>6, <2>1
  <2>4. /\ row.seen = at /\ row.session = old.session /\ row.key = old.key
        /\ row.start = old.start /\ row.end = old.end
    BY <1>1 DEF row, Row
  <2>. QED  BY <1>2, <1>6, <1>9, <2>1, <2>2, <2>3, <2>4 DEF u, IsSeenAgain
<1>. QED  BY <1>8, <1>9

-----------------------------------------------------------------------------
(* A tick of the tracker keeps the open span the last row, and rewrites no    *)
(* closed one: for either watcher.                                            *)

Seen == {Nothing} \cup [key : Keys, at : Nat]

(* What two handlers leave, one after the other.                             *)
LEMMA FollowsBoth ==
  ASSUME NEW t, NEW u, NEW v, TrackerOK(t), TrackerOK(u), TrackerOK(v),
         Follows(t, u), Follows(u, v)
  PROVE  Follows(t, v)
<1>1. Len(t.rows) \in Nat /\ Len(u.rows) \in Nat /\ Len(v.rows) \in Nat
  BY DEF TrackerOK, Tracker
<1>2. Len(t.rows) <= Len(u.rows) /\ Len(u.rows) <= Len(v.rows)
  BY DEF Follows
<1>3. \A r \in 1..Len(t.rows) : r \in 1..Len(u.rows)
  BY <1>1, <1>2
<1>. QED  BY <1>1, <1>2, <1>3 DEF Follows

(* Closing the open span, if there is one, leaves none.                      *)
LEMMA ClosedFollows ==
  ASSUME NEW t, TrackerOK(t), NEW end \in Nat
  PROVE  LET u == Closed(t, end)
         IN TrackerOK(u) /\ Follows(t, u) /\ u.session = t.session /\ u.span = NoSpan
<1>. DEFINE u == Closed(t, end)
<1>1. CASE ~ IsOpen(t)
  <2>1. u = t /\ t.span = NoSpan
    BY <1>1 DEF Closed, IsOpen
  <2>2. Len(t.rows) \in Nat /\ t.span.row = 0
    BY <2>1 DEF TrackerOK, Tracker, NoSpan
  <2>. QED  BY <2>1, <2>2 DEF Follows
<1>2. CASE IsOpen(t)
  <2>1. /\ TrackerOK(u) /\ u.span = NoSpan /\ u.session = t.session /\ Len(u.rows) = Len(t.rows)
        /\ \A r \in 1..Len(t.rows) :
             u.rows[r] = IF r = t.span.row
                         THEN [t.rows[r] EXCEPT !.end = IF end > OpenRow(t).start THEN end
                                                        ELSE OpenRow(t).start]
                         ELSE t.rows[r]
    BY <1>2, ClosedIs
  <2>. HIDE DEF u
  <2>2. /\ \A r \in 1..Len(t.rows) : t.rows[r] \in Row
        /\ Len(t.rows) \in Nat /\ u.span.row = 0
    BY <2>1, ElementOfSeq DEF TrackerOK, Tracker, NoSpan
  <2>3. ASSUME NEW r \in 1..Len(t.rows)
        PROVE  /\ u.rows[r].session = t.rows[r].session
               /\ u.rows[r].key = t.rows[r].key
               /\ u.rows[r].start = t.rows[r].start
               /\ r # t.span.row => u.rows[r] = t.rows[r] /\ r # u.span.row
    <3>1. t.rows[r] \in Row
      BY <2>2
    <3>2. CASE r = t.span.row
      BY <2>1, <3>1, <3>2 DEF Row
    <3>3. CASE r # t.span.row
      <4>1. u.rows[r] = t.rows[r]
        BY <2>1, <3>3
      <4>2. r # u.span.row
        BY <2>2
      <4>. QED  BY <3>3, <4>1, <4>2
    <3>. QED  BY <3>2, <3>3
  <2>4. Follows(t, u)
    BY <2>1, <2>2, <2>3 DEF Follows
  <2>. QED  BY <2>1, <2>4 DEF u
<1>. QED  BY <1>1, <1>2

(* The change of session.                                                    *)
LEMMA InSessionFollows ==
  ASSUME NEW t, TrackerOK(t), NEW s \in SessionIds, NEW time \in Nat
  PROVE  LET u == InSession(t, s, time)
         IN /\ TrackerOK(u) /\ Follows(t, u) /\ u.session = s
            /\ u.rows = IF s = t.session THEN t.rows ELSE Closed(t, time).rows
            /\ u.span = IF s = t.session THEN t.span ELSE NoSpan
<1>1. CASE s = t.session
  <2>1. InSession(t, s, time) = t
    BY <1>1 DEF InSession
  <2>2. Len(t.rows) \in Nat
    BY DEF TrackerOK, Tracker
  <2>. QED  BY <1>1, <2>1, <2>2 DEF Follows
<1>2. CASE s # t.session
  <2>. DEFINE c == Closed(t, time)
              u == [c EXCEPT !.session = s]
  <2>1. InSession(t, s, time) = u
    BY <1>2 DEF InSession
  <2>2. TrackerOK(c) /\ Follows(t, c) /\ c.span = NoSpan
    BY ClosedFollows
  <2>. HIDE DEF c
  <2>3. u \in Tracker /\ u.rows = c.rows /\ u.span = c.span /\ u.session = s
    BY <2>2 DEF TrackerOK, Tracker
  <2>. HIDE DEF u
  <2>4. TrackerOK(u) /\ Follows(t, u)
    BY <2>2, <2>3 DEF TrackerOK, Follows
  <2>. QED  BY <1>2, <2>1, <2>2, <2>3, <2>4 DEF c
<1>. QED  BY <1>1, <1>2

(* Opening a span when none is open.                                         *)
LEMMA OpenedFollows ==
  ASSUME NEW t, TrackerOK(t), t.span = NoSpan, NEW key \in Keys, NEW ts \in Nat
  PROVE  Follows(t, Opened(t, key, ts))
<1>. DEFINE u == Opened(t, key, ts)
            n == Len(t.rows)
<1>0. IsOpened(t, u, key, ts)
  BY OpenedIs
<1>. HIDE DEF u
<1>1. /\ u.span = [row |-> n + 1, flushed |-> ts] /\ Len(u.rows) = n + 1
      /\ \A r \in 1..n : u.rows[r] = t.rows[r]
  BY <1>0 DEF IsOpened
<1>2. n \in Nat /\ u.span.row = n + 1
  BY <1>1 DEF TrackerOK, Tracker
<1>. QED  BY <1>1, <1>2 DEF Follows, u

(* A snapshot.                                                               *)
LEMMA SightedFollows ==
  ASSUME NEW t, TrackerOK(t), NEW time \in Nat, NEW snap \in Seen
  PROVE  LET u == Sighted(t, snap, time)
         IN TrackerOK(u) /\ Follows(t, u) /\ u.session = t.session
<1>. DEFINE u == Sighted(t, snap, time)
<1>0. Follows(t, t)
  BY DEF Follows, TrackerOK, Tracker
<1>1. CASE snap = Nothing
  <2>1. u = Gap(t, time)
    BY <1>1 DEF Sighted
  <2>2. CASE IsOpen(t) /\ time - OpenRow(t).seen >= Stale
    <3>1. OpenRow(t).seen \in Nat
      BY <2>2, OpenIs DEF Row
    <3>2. u = Closed(t, OpenRow(t).seen)
      BY <2>1, <2>2 DEF Gap
    <3>. QED  BY <3>1, <3>2, ClosedFollows
  <2>3. CASE ~ (IsOpen(t) /\ time - OpenRow(t).seen >= Stale)
    <3>1. u = t
      BY <2>1, <2>3 DEF Gap
    <3>. HIDE DEF u
    <3>2. TrackerOK(u) /\ Follows(t, u) /\ u.session = t.session
      BY <1>0, <3>1
    <3>. QED  BY <3>2 DEF u
  <2>. QED  BY <2>2, <2>3
<1>2. CASE snap # Nothing /\ ~ IsOpen(t)
  <2>1. snap.key \in Keys /\ snap.at \in Nat
    BY <1>2 DEF Seen
  <2>2. u = Opened(t, snap.key, snap.at) /\ t.span = NoSpan
    BY <1>2 DEF Sighted, IsOpen
  <2>. HIDE DEF u
  <2>3. TrackerOK(u) /\ u.session = t.session
    <3>1. IsOpened(t, u, snap.key, snap.at)
      BY <2>1, <2>2, OpenedIs
    <3>. QED  BY <3>1 DEF IsOpened
  <2>4. Follows(t, u)
    BY <2>1, <2>2, OpenedFollows
  <2>. QED  BY <2>3, <2>4 DEF u
<1>3. CASE snap # Nothing /\ IsOpen(t) /\ snap.key = OpenRow(t).key
  <2>1. snap.key \in Keys /\ snap.at \in Nat
    BY <1>3 DEF Seen
  <2>2. u = SeenAgain(t, snap.at, time)
    BY <1>3 DEF Sighted
  <2>. HIDE DEF u
  <2>3. /\ TrackerOK(u) /\ u.span.row = t.span.row /\ u.session = t.session
        /\ Len(u.rows) = Len(t.rows)
        /\ \A r \in 1..Len(t.rows) : r # t.span.row => u.rows[r] = t.rows[r]
        /\ LET old == OpenRow(t)
               new == u.rows[t.span.row]
           IN new.session = old.session /\ new.key = old.key /\ new.start = old.start
    <3>1. IsSeenAgain(t, u, snap.at, time, Earlier(time, snap.at + Stale))
      BY <1>3, <2>1, <2>2, SeenAgainIs
    <3>. QED  BY <3>1 DEF IsSeenAgain
  <2>4. Follows(t, u)
    <3>1. Len(t.rows) \in Nat
      BY DEF TrackerOK, Tracker
    <3>. QED  BY <2>3, <3>1 DEF Follows, OpenRow
  <2>. QED  BY <2>3, <2>4 DEF u
<1>4. CASE snap # Nothing /\ IsOpen(t) /\ snap.key # OpenRow(t).key
  <2>1. snap.key \in Keys /\ snap.at \in Nat
    BY <1>4 DEF Seen
  <2>. DEFINE c == Closed(t, snap.at)
  <2>2. u = Opened(c, snap.key, snap.at)
    BY <1>4 DEF Sighted
  <2>3. TrackerOK(c) /\ Follows(t, c) /\ c.session = t.session /\ c.span = NoSpan
    BY <2>1, ClosedFollows
  <2>. HIDE DEF c, u
  <2>4. TrackerOK(u) /\ u.session = c.session
    <3>1. IsOpened(c, u, snap.key, snap.at)
      BY <2>1, <2>2, <2>3, OpenedIs
    <3>. QED  BY <3>1 DEF IsOpened
  <2>5. Follows(c, u)
    BY <2>1, <2>2, <2>3, OpenedFollows
  <2>. QED  BY <2>3, <2>4, <2>5, FollowsBoth DEF u
<1>. QED  BY <1>1, <1>2, <1>3, <1>4

(* A whole tick, from the state of the moment.                               *)
LEMMA TickFollows ==
  ASSUME TrackerOK(Tracked), NEW time \in Nat, NEW snap \in Seen, NEW s \in SessionIds,
         NEW overrun \in BOOLEAN
  PROVE  LET u == TickOf(s, snap, overrun, time)
         IN /\ TrackerOK(u) /\ Follows(Tracked, u)
            /\ u.session = IF overrun THEN 0 ELSE s
<1>. DEFINE a == InSession(Tracked, s, time)
            b == Sighted(a, snap, time)
            u == TickOf(s, snap, overrun, time)
<1>1. TrackerOK(a) /\ Follows(Tracked, a) /\ a.session = s
  BY InSessionFollows
<1>. HIDE DEF a
<1>2. TrackerOK(b) /\ Follows(a, b) /\ b.session = a.session
  BY <1>1, SightedFollows
<1>3. u = IF overrun THEN InSession(b, 0, time) ELSE b
  BY DEF TickOf, a
<1>. HIDE DEF b, u
<1>4. Follows(Tracked, b)
  BY <1>1, <1>2, FollowsBoth
<1>5. CASE overrun
  <2>1. 0 \in SessionIds
    BY SpansAssumption DEF SessionIds
  <2>2. TrackerOK(u) /\ Follows(b, u) /\ u.session = 0
    BY <1>2, <1>3, <1>5, <2>1, InSessionFollows
  <2>. QED  BY <1>2, <1>4, <1>5, <2>2, FollowsBoth DEF u
<1>6. CASE ~ overrun
  BY <1>1, <1>2, <1>3, <1>4, <1>6 DEF u
<1>. QED  BY <1>5, <1>6

-----------------------------------------------------------------------------
(* What the rows say, where the stamp of a snapshot is the moment of its poll *)
(* (the native watcher).                                                      *)

(* What holds of a row at the time T: a row credited beyond its last sighting *)
(* is closed, and the open one was credited by its last flush.                *)
RowSound(t, r, T) ==
  LET row == t.rows[r]
  IN /\ row.start <= row.end /\ row.start <= row.seen /\ row.end <= T /\ row.seen <= T
     /\ FlushEvery > 0 => row.seen - row.end < FlushEvery
     /\ \E pause \in Gaps : row.end - row.seen < Stale + pause
     /\ r = t.span.row => row.end = t.span.flushed /\ row.end <= row.seen

Ordered(t) ==
  \A r, q \in 1..Len(t.rows) : r < q => t.rows[r].end <= t.rows[q].start

Sound(t, T) == (\A r \in 1..Len(t.rows) : RowSound(t, r, T)) /\ Ordered(t)

(* The open span was seen less than Stale before T.                          *)
Recent(t, T) == IsOpen(t) => T - OpenRow(t).seen < Stale

(* The boundary S of the tracker's session is one of its spans.              *)
Parted(t, S) ==
  \A r \in 1..Len(t.rows) :
    /\ t.rows[r].session # t.session => t.rows[r].end <= S
    /\ r = t.span.row => t.rows[r].session = t.session /\ t.rows[r].start >= S

(* Closing a span no earlier than it was seen, nor too late, keeps it sound.  *)
LEMMA ClosedSound ==
  ASSUME NEW t, TrackerOK(t), NEW T0 \in Nat, NEW T \in Nat, T0 <= T, Sound(t, T0),
         NEW end \in Nat, end <= T,
         IsOpen(t) => /\ OpenRow(t).seen <= end
                      /\ \E pause \in Gaps : end - OpenRow(t).seen < Stale + pause
  PROVE  /\ Sound(Closed(t, end), T)
         /\ \A r \in 1..Len(t.rows) : r = t.span.row => Closed(t, end).rows[r].end = end
<1>. DEFINE u == Closed(t, end)
<1>0. /\ Len(t.rows) \in Nat /\ t.span.row \in Nat /\ t.span.flushed \in Nat
      /\ \A r \in 1..Len(t.rows) : t.rows[r] \in Row
  BY ElementOfSeq DEF TrackerOK, Tracker
<1>1. CASE ~ IsOpen(t)
  <2>1. u = t /\ t.span.row = 0
    BY <1>1 DEF Closed, IsOpen, NoSpan
  <2>2. ASSUME NEW r \in 1..Len(t.rows)
        PROVE  RowSound(t, r, T)
    <3>1. RowSound(t, r, T0) /\ t.rows[r] \in Row
      BY <1>0 DEF Sound
    <3>2. /\ t.rows[r].end \in Nat /\ t.rows[r].seen \in Nat /\ t.rows[r].start \in Nat
      BY <3>1 DEF Row
    <3>3. t.rows[r].end <= T /\ t.rows[r].seen <= T
      BY <3>1, <3>2 DEF RowSound
    <3>. QED  BY <3>1, <3>3 DEF RowSound
  <2>3. Sound(t, T)
    BY <2>2 DEF Sound
  <2>4. \A r \in 1..Len(t.rows) : r # t.span.row
    BY <1>0, <2>1
  <2>. QED  BY <2>1, <2>3, <2>4
<1>2. CASE IsOpen(t)
  <2>. DEFINE n == t.span.row
              start == OpenRow(t).start
  <2>1. /\ u.span = NoSpan /\ Len(u.rows) = Len(t.rows)
        /\ \A r \in 1..Len(t.rows) :
             u.rows[r] = IF r = n THEN [t.rows[r] EXCEPT !.end = IF end > start THEN end ELSE start]
                         ELSE t.rows[r]
    BY <1>2, ClosedIs
  <2>. HIDE DEF u
  <2>2. n = Len(t.rows) /\ n \in 1..Len(t.rows) /\ OpenRow(t) = t.rows[n] /\ t.rows[n] \in Row
    BY <1>0, <1>2, OpenIs DEF OpenRow
  <2>3. /\ RowSound(t, n, T0) /\ t.rows[n].seen <= end
        /\ \E pause \in Gaps : end - t.rows[n].seen < Stale + pause
    BY <1>2, <2>2 DEF Sound
  <2>4. /\ t.rows[n].seen \in Nat /\ t.rows[n].start \in Nat
        /\ t.rows[n].start <= t.rows[n].seen /\ t.rows[n].seen <= T0
    BY <2>2, <2>3 DEF Row, RowSound
  <2>5. (IF end > start THEN end ELSE start) = end
    BY <2>2, <2>3, <2>4
  <2>6. u.rows[n] = [t.rows[n] EXCEPT !.end = end]
    BY <2>1, <2>2, <2>5
  <2>7. /\ u.rows[n].end = end /\ u.rows[n].seen = t.rows[n].seen
        /\ u.rows[n].start = t.rows[n].start
    BY <2>2, <2>6 DEF Row
  <2>8. u.span.row = 0
    BY <2>1 DEF NoSpan
  <2>9. RowSound(u, n, T)
    <3>1. u.rows[n].start <= u.rows[n].end /\ u.rows[n].start <= u.rows[n].seen
      BY <2>3, <2>4, <2>7
    <3>2. u.rows[n].end <= T /\ u.rows[n].seen <= T
      BY <2>3, <2>4, <2>7
    <3>3. FlushEvery > 0 => u.rows[n].seen - u.rows[n].end < FlushEvery
      BY <2>3, <2>4, <2>7, SpansAssumption
    <3>4. n # u.span.row
      BY <2>2, <2>8
    <3>. QED  BY <2>3, <2>7, <3>1, <3>2, <3>3, <3>4 DEF RowSound
  <2>10. ASSUME NEW r \in 1..Len(t.rows), r # n
         PROVE  RowSound(u, r, T) /\ u.rows[r] = t.rows[r]
    <3>1. RowSound(t, r, T0) /\ u.rows[r] = t.rows[r] /\ t.rows[r] \in Row
      BY <1>0, <2>1, <2>10 DEF Sound
    <3>2. t.rows[r].end \in Nat /\ t.rows[r].seen \in Nat
      BY <3>1 DEF Row
    <3>3. t.rows[r].end <= T /\ t.rows[r].seen <= T
      BY <3>1, <3>2 DEF RowSound
    <3>4. r # u.span.row
      BY <2>8
    <3>. QED  BY <3>1, <3>3, <3>4 DEF RowSound
  <2>11. ASSUME NEW r \in 1..Len(u.rows), NEW q \in 1..Len(u.rows), r < q
         PROVE  u.rows[r].end <= u.rows[q].start
    <3>1. r \in 1..Len(t.rows) /\ q \in 1..Len(t.rows) /\ r # n
      BY <1>0, <2>1, <2>2, <2>11
    <3>2. u.rows[r] = t.rows[r]
      BY <2>10, <3>1
    <3>3. u.rows[q].start = t.rows[q].start
      BY <2>7, <2>10, <3>1
    <3>4. t.rows[r].end <= t.rows[q].start
      BY <2>11, <3>1 DEF Sound, Ordered
    <3>. QED  BY <3>2, <3>3, <3>4
  <2>12. Sound(u, T)
    BY <2>1, <2>9, <2>10, <2>11 DEF Sound, Ordered
  <2>. QED  BY <2>7, <2>12 DEF u
<1>. QED  BY <1>1, <1>2

(* A row credited with no more than it was seen is vouched for.               *)
LEMMA NotBeyond ==
  ASSUME NEW end \in Nat, NEW seen \in Nat, end <= seen
  PROVE  \E pause \in Gaps : end - seen < Stale + pause
<1>1. PICK pause \in Gaps : TRUE
  BY SpansAssumption
<1>2. pause \in Nat /\ Stale \in Nat \ {0}
  BY SpansAssumption
<1>3. end - seen < Stale + pause
  BY <1>2
<1>. QED  BY <1>3

(* Opening a span at the moment of the poll.                                 *)
LEMMA OpenedSound ==
  ASSUME NEW t, TrackerOK(t), t.span = NoSpan, NEW T \in Nat, Sound(t, T),
         NEW key \in Keys, NEW S \in Nat, S <= T, Parted(t, S)
  PROVE  LET u == Opened(t, key, T)
         IN Sound(u, T) /\ Recent(u, T) /\ Parted(u, S)
<1>. DEFINE u == Opened(t, key, T)
            n == Len(t.rows)
            row == [session |-> t.session, key |-> key, start |-> T, end |-> T, seen |-> T]
<1>0. IsOpened(t, u, key, T)
  BY OpenedIs
<1>. HIDE DEF u
<1>1. /\ TrackerOK(u) /\ u.span = [row |-> n + 1, flushed |-> T]
      /\ u.session = t.session /\ Len(u.rows) = n + 1
      /\ \A r \in 1..n : u.rows[r] = t.rows[r]
      /\ u.rows[n + 1] = row
  BY <1>0 DEF IsOpened
<1>2. /\ n \in Nat /\ t.span.row = 0 /\ u.span.row = n + 1 /\ u.span.flushed = T
      /\ \A r \in 1..n : t.rows[r] \in Row
  BY <1>1, ElementOfSeq DEF TrackerOK, Tracker, NoSpan
<1>3. RowSound(u, n + 1, T)
  <2>1. \E pause \in Gaps : T - T < Stale + pause
    BY NotBeyond
  <2>. QED  BY <1>1, <1>2, <2>1 DEF RowSound
<1>4. ASSUME NEW r \in 1..n
      PROVE  RowSound(u, r, T) /\ u.rows[r].end <= T
  <2>1. RowSound(t, r, T) /\ u.rows[r] = t.rows[r] /\ r # u.span.row
    BY <1>1, <1>2 DEF Sound
  <2>. QED  BY <2>1 DEF RowSound
<1>5. ASSUME NEW r \in 1..(n + 1), NEW q \in 1..(n + 1), r < q
      PROVE  u.rows[r].end <= u.rows[q].start
  <2>1. r \in 1..n /\ u.rows[r] = t.rows[r]
    BY <1>1, <1>2, <1>5
  <2>2. CASE q = n + 1
    BY <1>1, <1>4, <2>1, <2>2
  <2>3. CASE q # n + 1
    <3>1. q \in 1..n /\ u.rows[q] = t.rows[q]
      BY <1>1, <1>2, <2>3
    <3>. QED  BY <1>5, <2>1, <3>1 DEF Sound, Ordered
  <2>. QED  BY <2>2, <2>3
<1>6. \A r \in 1..(n + 1) : r \in 1..n \/ r = n + 1
  BY <1>2
<1>7. Sound(u, T)
  BY <1>1, <1>3, <1>4, <1>5, <1>6 DEF Sound, Ordered
<1>8. Recent(u, T)
  <2>1. OpenRow(u).seen = T
    BY <1>1, <1>2 DEF OpenRow
  <2>. QED  BY <2>1, SpansAssumption DEF Recent
<1>9. Parted(u, S)
  <2>1. ASSUME NEW r \in 1..n
        PROVE  /\ u.rows[r].session # u.session => u.rows[r].end <= S
               /\ r # u.span.row
    BY <1>1, <1>2 DEF Parted
  <2>2. u.rows[n + 1].session = u.session /\ u.rows[n + 1].start >= S
    BY <1>1
  <2>. QED  BY <1>1, <1>6, <2>1, <2>2 DEF Parted
<1>. QED  BY <1>7, <1>8, <1>9 DEF u

(* Seeing the open span again at the moment of the poll.                      *)
LEMMA SeenAgainSound ==
  ASSUME NEW t, TrackerOK(t), IsOpen(t), NEW T \in Nat, Sound(t, T),
         NEW S \in Nat, Parted(t, S)
  PROVE  LET u == SeenAgain(t, T, T)
         IN Sound(u, T) /\ Recent(u, T) /\ Parted(u, S)
<1>. DEFINE u == SeenAgain(t, T, T)
            n == t.span.row
            new == u.rows[n]
            until == Earlier(T, T + Stale)
<1>1. /\ Len(t.rows) \in Nat /\ n = Len(t.rows) /\ n \in 1..Len(t.rows)
      /\ OpenRow(t) = t.rows[n] /\ t.span.flushed \in Nat
      /\ \A r \in 1..Len(t.rows) : t.rows[r] \in Row
  BY OpenIs, ElementOfSeq DEF TrackerOK, Tracker, OpenRow
<1>2. /\ RowSound(t, n, T) /\ t.rows[n].end \in Nat /\ t.rows[n].start \in Nat
      /\ t.rows[n].seen \in Nat
  BY <1>1 DEF Sound, Row
<1>3. until = T
  BY SpansAssumption DEF Earlier
<1>4. /\ u.span.row = n /\ u.session = t.session /\ Len(u.rows) = Len(t.rows)
      /\ \A r \in 1..Len(t.rows) : r # n => u.rows[r] = t.rows[r]
      /\ new \in Row /\ new.seen = T
      /\ new.session = t.rows[n].session /\ new.start = t.rows[n].start
      /\ IF T - t.span.flushed >= FlushEvery
         THEN /\ u.span.flushed = T
              /\ new.end = IF until > t.rows[n].start THEN until ELSE t.rows[n].start
         ELSE u.span.flushed = t.span.flushed /\ new.end = t.rows[n].end
  <2>1. IsSeenAgain(t, u, T, T, until)
    BY SeenAgainIs
  <2>. HIDE DEF u, until
  <2>. QED  BY <1>1, <2>1 DEF IsSeenAgain
<1>. HIDE DEF u, until
<1>5. /\ t.rows[n].end = t.span.flushed /\ t.rows[n].start <= t.rows[n].end
      /\ t.rows[n].end <= T /\ t.rows[n].start <= T
  BY <1>2 DEF RowSound
<1>6. /\ new.end = u.span.flushed /\ new.start <= new.end /\ new.end <= T
      /\ FlushEvery > 0 => T - new.end < FlushEvery
  <2>1. CASE T - t.span.flushed >= FlushEvery
    <3>1. new.end = T /\ u.span.flushed = T
      BY <1>2, <1>3, <1>4, <1>5, <2>1
    <3>. QED  BY <1>2, <1>4, <1>5, <3>1
  <2>2. CASE ~ (T - t.span.flushed >= FlushEvery)
    <3>1. new.end = t.rows[n].end /\ u.span.flushed = t.span.flushed
      BY <1>4, <2>2
    <3>. QED  BY <1>1, <1>2, <1>4, <1>5, <2>2, <3>1, SpansAssumption
  <2>. QED  BY <2>1, <2>2
<1>7. RowSound(u, n, T)
  <2>1. \E pause \in Gaps : new.end - T < Stale + pause
    <3>1. new.end \in Nat
      BY <1>4 DEF Row
    <3>. QED  BY <1>6, <3>1, NotBeyond
  <2>2. new.start <= T
    BY <1>4, <1>5
  <2>. QED  BY <1>4, <1>6, <2>1, <2>2 DEF RowSound
<1>8. ASSUME NEW r \in 1..Len(t.rows), r # n
      PROVE  RowSound(u, r, T)
  BY <1>4, <1>8 DEF Sound, RowSound
<1>9. Ordered(u)
  <2>1. ASSUME NEW r \in 1..Len(t.rows), NEW q \in 1..Len(t.rows), r < q
        PROVE  u.rows[r].end <= u.rows[q].start
    <3>1. r # n
      BY <1>1, <2>1
    <3>2. u.rows[r] = t.rows[r] /\ u.rows[q].start = t.rows[q].start
      BY <1>4, <3>1
    <3>. QED  BY <2>1, <3>2 DEF Sound, Ordered
  <2>. QED  BY <1>4, <2>1 DEF Ordered
<1>10. Sound(u, T)
  BY <1>4, <1>7, <1>8, <1>9 DEF Sound
<1>11. Recent(u, T)
  BY <1>4, SpansAssumption DEF Recent, OpenRow
<1>12. Parted(u, S)
  BY <1>1, <1>4 DEF Parted
<1>. QED  BY <1>10, <1>11, <1>12 DEF u

(* The change of session at T, when the last tick was at T0.                  *)
LEMMA InSessionSound ==
  ASSUME NEW t, TrackerOK(t), NEW T0 \in Nat, NEW T \in Nat, T = T0 \/ T - T0 \in Gaps,
         Sound(t, T0), Recent(t, T0), NEW s \in SessionIds,
         NEW S \in Nat, S <= T0, Parted(t, S)
  PROVE  LET u == InSession(t, s, T)
         IN /\ Sound(u, T) /\ Recent(u, T0)
            /\ Parted(u, IF s = t.session THEN S ELSE T)
<1>. DEFINE u == InSession(t, s, T)
            c == Closed(t, T)
<1>0. T0 <= T
  BY SpansAssumption
<1>1. CASE s = t.session
  <2>1. u = t
    BY <1>1 DEF InSession
  <2>2. ASSUME NEW r \in 1..Len(t.rows)
        PROVE  RowSound(t, r, T)
    <3>1. RowSound(t, r, T0) /\ t.rows[r] \in Row
      BY ElementOfSeq DEF Sound, TrackerOK, Tracker
    <3>2. t.rows[r].end \in Nat /\ t.rows[r].seen \in Nat
      BY <3>1 DEF Row
    <3>3. t.rows[r].end <= T /\ t.rows[r].seen <= T
      BY <1>0, <3>1, <3>2 DEF RowSound
    <3>. QED  BY <3>1, <3>3 DEF RowSound
  <2>3. Sound(t, T)
    BY <2>2 DEF Sound
  <2>. QED  BY <1>1, <2>1, <2>3
<1>2. CASE s # t.session
  <2>1. TrackerOK(u) /\ u.session = s /\ u.rows = c.rows /\ u.span = NoSpan /\ Follows(t, u)
    BY <1>2, InSessionFollows
  <2>2. ASSUME IsOpen(t)
        PROVE  /\ OpenRow(t).seen <= T
               /\ \E pause \in Gaps : T - OpenRow(t).seen < Stale + pause
    <3>1. /\ OpenRow(t) \in Row /\ t.span.row \in 1..Len(t.rows)
          /\ OpenRow(t) = t.rows[t.span.row]
      BY <2>2, OpenIs DEF OpenRow
    <3>2. OpenRow(t).seen \in Nat /\ OpenRow(t).seen <= T0
      BY <3>1 DEF Sound, RowSound, Row
    <3>3. T0 - OpenRow(t).seen < Stale
      BY <2>2 DEF Recent
    <3>4. PICK pause \in Gaps : T - T0 <= pause
      <4>1. CASE T = T0
        <5>1. PICK g \in Gaps : TRUE
          BY SpansAssumption
        <5>2. g \in Nat /\ T - T0 = 0
          BY <4>1, SpansAssumption
        <5>3. T - T0 <= g
          BY <5>2
        <5>. QED  BY <5>3
      <4>2. CASE T - T0 \in Gaps
        BY <4>2
      <4>. QED  BY <4>1, <4>2
    <3>5. pause \in Nat /\ Stale \in Nat
      BY SpansAssumption
    <3>6. T - OpenRow(t).seen < Stale + pause
      BY <3>2, <3>3, <3>4, <3>5
    <3>. QED  BY <1>0, <3>2, <3>6
  <2>3. Sound(c, T)
    BY <1>0, <2>2, ClosedSound
  <2>4. c.span = NoSpan
    BY ClosedFollows
  <2>. HIDE DEF c, u
  <2>5. Sound(u, T)
    BY <2>1, <2>3, <2>4 DEF Sound, RowSound, Ordered
  <2>6. Recent(u, T0)
    BY <2>1 DEF Recent, IsOpen
  <2>7. u.span.row = 0
    BY <2>1 DEF NoSpan
  <2>8. Parted(u, T)
    BY <2>5, <2>7 DEF Parted, Sound, RowSound
  <2>. QED  BY <1>2, <2>5, <2>6, <2>8 DEF u
<1>. QED  BY <1>1, <1>2

(* A snapshot at T, when the last tick was at T0.                             *)
LEMMA SightedSound ==
  ASSUME NEW t, TrackerOK(t), NEW T0 \in Nat, NEW T \in Nat, T - T0 \in Gaps,
         Sound(t, T), Recent(t, T0),
         NEW S \in Nat, S <= T, Parted(t, S),
         NEW snap \in {Nothing} \cup [key : Keys, at : {T}]
  PROVE  LET u == Sighted(t, snap, T)
         IN Sound(u, T) /\ Recent(u, T) /\ Parted(u, S)
<1>. DEFINE u == Sighted(t, snap, T)
            n == t.span.row
<1>0. IsOpen(t) =>
        /\ OpenRow(t) \in Row /\ n \in 1..Len(t.rows) /\ OpenRow(t) = t.rows[n]
        /\ OpenRow(t).seen \in Nat /\ OpenRow(t).seen <= T
        /\ OpenRow(t).end \in Nat /\ OpenRow(t).end <= OpenRow(t).seen
        /\ T0 - OpenRow(t).seen < Stale
  <2>1. IsOpen(t) => OpenRow(t) \in Row /\ n \in 1..Len(t.rows) /\ OpenRow(t) = t.rows[n]
    BY OpenIs DEF OpenRow
  <2>2. IsOpen(t) => RowSound(t, n, T)
    BY <2>1 DEF Sound
  <2>. QED  BY <2>1, <2>2 DEF RowSound, Row, Recent
<1>1. ASSUME NEW end \in Nat, end <= T, IsOpen(t), OpenRow(t).seen <= end,
             \E pause \in Gaps : end - OpenRow(t).seen < Stale + pause
      PROVE  Sound(Closed(t, end), T) /\ Parted(Closed(t, end), S) /\ Closed(t, end).span = NoSpan
  <2>. DEFINE c == Closed(t, end)
  <2>1. Sound(c, T)
    <3>1. T <= T
      OBVIOUS
    <3>. QED  BY <1>1, <3>1, ClosedSound
  <2>2. /\ c.span = NoSpan /\ c.session = t.session /\ Follows(t, c)
    BY ClosedFollows
  <2>3. /\ Len(c.rows) = Len(t.rows)
        /\ \A r \in 1..Len(t.rows) : r # n => c.rows[r] = t.rows[r]
    <3>1. \A r \in 1..Len(t.rows) : r # n => c.rows[r] = t.rows[r]
      BY <2>2 DEF Follows
    <3>2. Len(c.rows) = Len(t.rows)
      BY <1>1, ClosedIs
    <3>. QED  BY <3>1, <3>2
  <2>. HIDE DEF c
  <2>4. c.span.row = 0
    BY <2>2 DEF NoSpan
  <2>5. ASSUME NEW r \in 1..Len(c.rows)
        PROVE  /\ c.rows[r].session # c.session => c.rows[r].end <= S
               /\ r # c.span.row
    <3>1. CASE r = n
      <4>1. c.rows[r].session = c.session
        BY <2>2, <2>3, <3>1 DEF Parted, Follows
      <4>. QED  BY <2>4, <4>1
    <3>2. CASE r # n
      <4>1. c.rows[r] = t.rows[r]
        BY <2>3, <3>2
      <4>2. c.rows[r].session # c.session => c.rows[r].end <= S
        BY <2>2, <2>3, <4>1 DEF Parted
      <4>. QED  BY <2>4, <4>2
    <3>. QED  BY <3>1, <3>2
  <2>6. Parted(c, S)
    BY <2>5 DEF Parted
  <2>. QED  BY <2>1, <2>2, <2>6 DEF c
<1>2. CASE snap = Nothing
  <2>1. u = Gap(t, T)
    BY <1>2 DEF Sighted
  <2>2. CASE IsOpen(t) /\ T - OpenRow(t).seen >= Stale
    <3>. DEFINE end == OpenRow(t).seen
    <3>1. u = Closed(t, end)
      BY <2>1, <2>2 DEF Gap
    <3>2. end \in Nat /\ end <= T /\ \E pause \in Gaps : end - end < Stale + pause
      <4>1. end \in Nat /\ end <= T /\ end <= end
        BY <1>0, <2>2
      <4>. HIDE DEF end
      <4>. QED  BY <4>1, NotBeyond
    <3>. HIDE DEF u
    <3>3. Sound(u, T) /\ Parted(u, S) /\ u.span = NoSpan
      BY <1>1, <2>2, <3>1, <3>2
    <3>. QED  BY <3>3 DEF u, Recent, IsOpen
  <2>3. CASE ~ (IsOpen(t) /\ T - OpenRow(t).seen >= Stale)
    <3>1. u = t
      BY <2>1, <2>3 DEF Gap
    <3>2. Recent(t, T)
      BY <1>0, <2>3, SpansAssumption DEF Recent
    <3>. HIDE DEF u
    <3>. QED  BY <3>1, <3>2 DEF u
  <2>. QED  BY <2>2, <2>3
<1>3. CASE snap # Nothing
  <2>1. snap.key \in Keys /\ snap.at = T
    BY <1>3
  <2>2. CASE ~ IsOpen(t)
    <3>1. u = Opened(t, snap.key, T) /\ t.span = NoSpan
      BY <1>3, <2>1, <2>2 DEF Sighted, IsOpen
    <3>. HIDE DEF u
    <3>2. Sound(u, T) /\ Recent(u, T) /\ Parted(u, S)
      BY <2>1, <3>1, OpenedSound
    <3>. QED  BY <3>2 DEF u
  <2>3. CASE IsOpen(t) /\ snap.key = OpenRow(t).key
    <3>1. u = SeenAgain(t, T, T)
      BY <1>3, <2>1, <2>3 DEF Sighted
    <3>. HIDE DEF u
    <3>2. Sound(u, T) /\ Recent(u, T) /\ Parted(u, S)
      BY <2>3, <3>1, SeenAgainSound
    <3>. QED  BY <3>2 DEF u
  <2>4. CASE IsOpen(t) /\ snap.key # OpenRow(t).key
    <3>. DEFINE c == Closed(t, T)
    <3>1. u = Opened(c, snap.key, T)
      BY <1>3, <2>1, <2>4 DEF Sighted
    <3>2. T - OpenRow(t).seen < Stale + (T - T0)
      <4>1. Stale \in Nat
        BY SpansAssumption
      <4>. QED  BY <1>0, <2>4, <4>1
    <3>3. Sound(c, T) /\ Parted(c, S) /\ c.span = NoSpan
      BY <1>0, <1>1, <2>4, <3>2
    <3>4. TrackerOK(c)
      BY ClosedFollows
    <3>. HIDE DEF u, c
    <3>5. Sound(u, T) /\ Recent(u, T) /\ Parted(u, S)
      BY <2>1, <3>1, <3>3, <3>4, OpenedSound
    <3>. QED  BY <3>5 DEF u
  <2>. QED  BY <2>2, <2>3, <2>4
<1>. QED  BY <1>2, <1>3

(* What the native watcher and a tick at `time' leave of a sound table.       *)
LEMMA TickSound ==
  ASSUME Watcher = "native", now \in Nat, since \in 0..now, TrackerOK(Tracked),
         Sound(Tracked, now), Recent(Tracked, now), Parted(Tracked, since),
         NEW pause \in Gaps, NEW s \in SessionIds, NEW overrun \in BOOLEAN,
         overrun => s = session /\ session # 0,
         NEW snap \in {Nothing} \cup [key : Keys, at : {now + pause}]
  PROVE  LET time == now + pause
             u == TickOf(s, snap, overrun, time)
         IN /\ Sound(u, time) /\ Recent(u, time)
            /\ Parted(u, IF u.session = session THEN since ELSE time)
<1>. DEFINE time == now + pause
            a == InSession(Tracked, s, time)
            b == Sighted(a, snap, time)
            u == TickOf(s, snap, overrun, time)
            S == IF s = session THEN since ELSE time
<1>1. /\ pause \in Nat /\ time \in Nat /\ since \in Nat /\ since <= now /\ now <= time
      /\ time - now \in Gaps /\ S \in Nat /\ S <= time
  BY SpansAssumption
<1>2. Tracked.session = session
  BY DEF Tracked
<1>3. TrackerOK(a) /\ a.session = s
  BY <1>1, InSessionFollows
<1>4. Sound(a, time) /\ Recent(a, now) /\ Parted(a, S)
  BY <1>1, <1>2, InSessionSound
<1>5. snap \in Seen
  BY <1>1 DEF Seen
<1>. HIDE DEF a
<1>6. TrackerOK(b) /\ b.session = s
  BY <1>1, <1>3, <1>5, SightedFollows
<1>7. Sound(b, time) /\ Recent(b, time) /\ Parted(b, S)
  <2>. HIDE DEF S, time
  <2>1. snap \in {Nothing} \cup [key : Keys, at : {time}]
    BY DEF time
  <2>. QED  BY <1>1, <1>3, <1>4, <2>1, SightedSound
<1>8. u = IF overrun THEN InSession(b, 0, time) ELSE b
  BY DEF TickOf, a
<1>. HIDE DEF b, u
<1>9. CASE overrun
  <2>1. 0 \in SessionIds /\ s # 0 /\ session # 0
    BY <1>9, SpansAssumption DEF SessionIds
  <2>2. u.session = 0 /\ Sound(u, time) /\ Recent(u, time) /\ Parted(u, time)
    <3>. HIDE DEF S, time
    <3>1. u = InSession(b, 0, time) /\ u.session = 0
      <4>1. InSession(b, 0, time).session = 0
        <5>1. time \in Nat /\ 0 \in SessionIds /\ TrackerOK(b)
          BY <1>1, <1>6, <2>1
        <5>. QED  BY <5>1, InSessionFollows
      <4>. QED  BY <1>8, <1>9, <4>1
    <3>2. /\ Sound(InSession(b, 0, time), time) /\ Recent(InSession(b, 0, time), time)
          /\ Parted(InSession(b, 0, time), IF 0 = b.session THEN S ELSE time)
      <4>1. /\ time \in Nat /\ (time = time \/ time - time \in Gaps)
            /\ 0 \in SessionIds /\ S \in Nat /\ S <= time
        BY <1>1, <2>1
      <4>. QED  BY <1>6, <1>7, <4>1, InSessionSound, Zenon
    <3>. QED  BY <1>6, <2>1, <3>1, <3>2
  <2>. QED  BY <2>1, <2>2 DEF u
<1>10. CASE ~ overrun
  <2>1. u = b /\ u.session = s
    BY <1>6, <1>8, <1>10
  <2>. QED  BY <1>7, <2>1 DEF u
<1>. QED  BY <1>9, <1>10

-----------------------------------------------------------------------------
(* The classifier. *)

Label == [source : {"rule", "llm", "user"}, on : BOOLEAN]
Verdicts == [SessionIds -> [Windows -> {"none", "on", "off"}]]
Ladders ==
  [labels : Seq(Seq(Label)), cache : Verdicts, pending : SUBSET Nat, opened : Nat,
   asked : SUBSET Nat, last : Nat]

(* The labels of the event r that the user did not give. *)
Machine(c, r) == {k \in DOMAIN c.labels[r] : c.labels[r][k].source # "user"}

(* What holds of an event: one that waits belongs to a session and Izy has    *)
(* not labelled it; one of a session was labelled by Izy at most once; one    *)
(* the classifier is through with is settled, or on its way to be.            *)
EventOK(c, t, r) ==
  LET row == t.rows[r]
  IN /\ r \in c.pending => row.session # 0 /\ row.key \in Windows /\ Machine(c, r) = {}
     /\ row.session # 0 => \A i, j \in Machine(c, r) : i = j
     /\ r <= c.last /\ row.session # 0 /\ row.key # Away /\ Minutes(t, r) >= MinDuration
          => c.labels[r] # <<>> \/ r \in c.pending \cup c.asked

LadderOK(c, t) ==
  /\ c \in Ladders /\ Len(c.labels) = Len(t.rows) /\ c.last <= Len(t.rows)
  /\ c.pending \subseteq 1..c.last /\ c.asked \subseteq 1..c.last
  /\ t.span.row \notin 1..c.last
  /\ \A r \in 1..Len(t.rows) : EventOK(c, t, r)

(* What the user said of an event of a session, or Izy said before, is left   *)
(* alone, unless it waits.                                                    *)
Stands(c, u, t) ==
  \A r \in 1..Len(c.labels) :
    c.labels[r] # <<>> /\ t.rows[r].session # 0 /\ r \notin c.pending
      => u.labels[r] = c.labels[r] /\ r \notin u.pending

(* A sequence written as a function of its indices.                           *)
LEMMA MappedSeq ==
  ASSUME NEW S, NEW n \in Nat, NEW f \in [1..n -> S]
  PROVE  f \in Seq(S) /\ Len(f) = n
OBVIOUS

(* One more label.                                                            *)
LEMMA LabelAdded ==
  ASSUME NEW said \in Seq(Label), NEW label \in Label
  PROVE  LET new == Append(said, label)
         IN /\ new \in Seq(Label) /\ new # <<>> /\ DOMAIN new = 1..(Len(said) + 1)
            /\ \A k \in 1..Len(said) : new[k] = said[k]
            /\ new[Len(said) + 1] = label /\ Len(new) = Len(said) + 1
            /\ Len(said) \in Nat /\ DOMAIN said = 1..Len(said)
<1>. DEFINE new == Append(said, label)
<1>1. /\ new \in Seq(Label) /\ Len(new) = Len(said) + 1
      /\ \A k \in 1..Len(said) : new[k] = said[k]
      /\ new[Len(said) + 1] = label
  BY AppendProperties
<1>2. DOMAIN new = 1..(Len(said) + 1) /\ Len(said) \in Nat /\ DOMAIN said = 1..Len(said)
  BY <1>1, LenProperties
<1>3. new # <<>>
  <2>. HIDE DEF new
  <2>. QED  BY <1>1, <1>2
<1>. QED  BY <1>1, <1>2, <1>3

(* The free tiers say nothing, or one thing that is not the user's.           *)
LEMMA FreeLabelIs ==
  ASSUME NEW c, NEW t, LadderOK(c, t), TrackerOK(t), NEW r \in 1..Len(t.rows),
         t.rows[r].key # Away
  PROVE  \/ FreeLabel(c, t, r) = <<>>
         \/ \E label \in Label : label.source # "user" /\ FreeLabel(c, t, r) = <<label>>
<1>. DEFINE s == t.rows[r].session
            w == t.rows[r].key
            Lab(source, verdict) == [source |-> source, on |-> verdict = "on"]
<1>1. s \in SessionIds /\ w \in Windows
  <2>1. t.rows[r] \in Row
    BY ElementOfSeq DEF TrackerOK, Tracker
  <2>. QED  BY <2>1 DEF Row, Keys
<1>2. Lab("rule", FreeTier[w]) \in Label /\ Lab("rule", "on") \in Label
      /\ Lab("llm", c.cache[s][w]) \in Label
  BY DEF Label
<1>3. Lab("rule", FreeTier[w]).source # "user" /\ Lab("rule", "on").source # "user"
      /\ Lab("llm", c.cache[s][w]).source # "user"
  OBVIOUS
<1>4. \/ FreeLabel(c, t, r) = <<>>
      \/ FreeLabel(c, t, r) = <<Lab("rule", FreeTier[w])>>
      \/ FreeLabel(c, t, r) = <<Lab("rule", "on")>>
      \/ FreeLabel(c, t, r) = <<Lab("llm", c.cache[s][w])>>
  BY DEF FreeLabel
<1>. HIDE DEF Lab
<1>. QED  BY <1>2, <1>3, <1>4

(* A flush settles what waits.                                               *)
LEMMA FlushedOK ==
  ASSUME NEW c, NEW t, LadderOK(c, t), TrackerOK(t), NEW a \in Answers(c.pending)
  PROVE  LET u == Flushed(c, t, a)
         IN LadderOK(u, t) /\ Stands(c, u, t) /\ u.pending = {}
<1>. DEFINE u == Flushed(c, t, a)
            sure == Sure(c.pending, a)
            n == Len(t.rows)
            new == [r \in DOMAIN c.labels |->
                      IF r \in sure
                      THEN Append(c.labels[r], [source |-> "llm", on |-> a[r] = "on"])
                      ELSE c.labels[r]]
<1>1. /\ n \in Nat /\ \A r \in 1..n : t.rows[r] \in Row
      /\ c \in Ladders /\ Len(c.labels) = n /\ c.last \in Nat /\ c.last <= n
      /\ c.labels \in Seq(Seq(Label)) /\ c.cache \in Verdicts
      /\ c.pending \subseteq 1..c.last /\ c.asked \subseteq 1..c.last
      /\ DOMAIN c.labels = 1..n
      /\ \A r \in 1..n : c.labels[r] \in Seq(Label)
  <2>1. n \in Nat /\ \A r \in 1..n : t.rows[r] \in Row
    BY ElementOfSeq DEF TrackerOK, Tracker
  <2>2. /\ c \in Ladders /\ Len(c.labels) = n /\ c.last \in Nat /\ c.last <= n
        /\ c.labels \in Seq(Seq(Label)) /\ c.cache \in Verdicts
        /\ c.pending \subseteq 1..c.last /\ c.asked \subseteq 1..c.last
    BY DEF LadderOK, Ladders
  <2>3. DOMAIN c.labels = 1..n /\ \A r \in 1..n : c.labels[r] \in Seq(Label)
    BY <2>2, ElementOfSeq, LenProperties
  <2>. QED  BY <2>1, <2>2, <2>3
<1>2. sure \subseteq c.pending /\ sure \subseteq 1..n
      /\ \A r \in sure : a[r] \in {"on", "off"}
  BY <1>1 DEF Sure, Answers
<1>3. ASSUME NEW r \in 1..n
      PROVE  /\ new[r] = IF r \in sure
                         THEN Append(c.labels[r], [source |-> "llm", on |-> a[r] = "on"])
                         ELSE c.labels[r]
             /\ [source |-> "llm", on |-> a[r] = "on"] \in Label
             /\ new[r] \in Seq(Label)
  <2>1. [source |-> "llm", on |-> a[r] = "on"] \in Label
    BY DEF Label
  <2>2. new[r] = IF r \in sure
                 THEN Append(c.labels[r], [source |-> "llm", on |-> a[r] = "on"])
                 ELSE c.labels[r]
    BY <1>1
  <2>. HIDE DEF new
  <2>3. c.labels[r] \in Seq(Label)
    BY <1>1
  <2>. QED  BY <2>1, <2>2, <2>3, LabelAdded
<1>4. new \in Seq(Seq(Label)) /\ Len(new) = n
  <2>1. new \in [1..n -> Seq(Label)]
    BY <1>1, <1>3
  <2>. HIDE DEF new
  <2>. QED  BY <1>1, <2>1, MappedSeq
<1>5. CacheWith(c, t, a) \in Verdicts
  <2>. DEFINE kept(s, w) ==
                LET same == {r \in sure : t.rows[r].session = s /\ t.rows[r].key = w}
                IN IF same = {} THEN c.cache[s][w] ELSE a[Max(same)]
  <2>1. ASSUME NEW s \in SessionIds, NEW w \in Windows
        PROVE  kept(s, w) \in {"none", "on", "off"}
    <3>. DEFINE same == {r \in sure : t.rows[r].session = s /\ t.rows[r].key = w}
    <3>1. CASE same = {}
      BY <1>1, <3>1 DEF Verdicts
    <3>2. CASE same # {}
      <4>1. same \in SUBSET (1..n) /\ same \subseteq sure
        BY <1>2
      <4>. HIDE DEF same
      <4>2. \E m \in same : \A j \in same : j <= m
        BY <1>1, <3>2, <4>1, MaxOfIndices
      <4>3. Max(same) \in same
        <5>1. \E m \in same : \A j \in same : m >= j
          BY <4>1, <4>2
        <5>. QED  BY <5>1 DEF Max
      <4>4. a[Max(same)] \in {"on", "off"}
        BY <1>2, <4>1, <4>3
      <4>. QED  BY <3>2, <4>4 DEF same
    <3>. QED  BY <3>1, <3>2
  <2>2. CacheWith(c, t, a) = [s \in SessionIds |-> [w \in Windows |-> kept(s, w)]]
    BY DEF CacheWith
  <2>. HIDE DEF kept
  <2>3. \A s \in SessionIds : [w \in Windows |-> kept(s, w)] \in [Windows -> {"none", "on", "off"}]
    BY <2>1
  <2>. QED  BY <2>2, <2>3 DEF Verdicts
<1>6. u = [c EXCEPT !.labels = new, !.cache = CacheWith(c, t, a), !.pending = {}, !.opened = 0,
                    !.asked = c.asked \cup ToAsk(c.pending, a)]
  BY DEF Flushed
<1>7. ToAsk(c.pending, a) = c.pending \ sure
  BY DEF ToAsk
<1>. HIDE DEF u, new, sure
<1>8. /\ u.labels = new /\ u.pending = {} /\ u.asked = c.asked \cup (c.pending \ sure)
      /\ u.last = c.last
  BY <1>1, <1>6, <1>7 DEF Ladders
<1>9. u \in Ladders
  <2>1. c.asked \cup ToAsk(c.pending, a) \in SUBSET Nat
    BY <1>1, <1>7
  <2>. QED  BY <1>1, <1>4, <1>5, <1>6, <2>1 DEF Ladders
<1>10. ASSUME NEW r \in 1..n
       PROVE  EventOK(u, t, r)
  <2>1. EventOK(c, t, r) /\ c.labels[r] \in Seq(Label)
    BY <1>1 DEF LadderOK
  <2>2. CASE r \in sure
    <3>. DEFINE label == [source |-> "llm", on |-> a[r] = "on"]
    <3>1. u.labels[r] = Append(c.labels[r], label) /\ label \in Label /\ r \in c.pending
      BY <1>2, <1>3, <1>8, <2>2
    <3>. HIDE DEF label
    <3>2. /\ u.labels[r] # <<>> /\ DOMAIN u.labels[r] = 1..(Len(c.labels[r]) + 1)
          /\ \A k \in 1..Len(c.labels[r]) : u.labels[r][k] = c.labels[r][k]
          /\ Len(c.labels[r]) \in Nat /\ DOMAIN c.labels[r] = 1..Len(c.labels[r])
      BY <2>1, <3>1, LabelAdded
    <3>3. Machine(c, r) = {}
      BY <2>1, <3>1 DEF EventOK
    <3>4. ASSUME NEW k \in Machine(u, r)
          PROVE  k = Len(c.labels[r]) + 1
      <4>1. k \in 1..(Len(c.labels[r]) + 1) /\ u.labels[r][k].source # "user"
        BY <3>2 DEF Machine
      <4>2. CASE k \in 1..Len(c.labels[r])
        <5>1. k \in Machine(c, r)
          BY <3>2, <4>1, <4>2 DEF Machine
        <5>. QED  BY <3>3, <5>1
      <4>. QED  BY <3>2, <4>1, <4>2
    <3>. QED  BY <1>8, <3>2, <3>4 DEF EventOK
  <2>3. CASE r \notin sure
    <3>1. u.labels[r] = c.labels[r]
      BY <1>3, <1>8, <2>3
    <3>2. Machine(u, r) = Machine(c, r)
      BY <3>1 DEF Machine
    <3>3. r \in c.pending \cup c.asked => r \in u.asked
      BY <1>8, <2>3
    <3>. QED  BY <1>8, <2>1, <3>1, <3>2, <3>3 DEF EventOK
  <2>. QED  BY <2>2, <2>3
<1>11. LadderOK(u, t)
  <2>1. u.pending \subseteq 1..u.last /\ u.asked \subseteq 1..u.last /\ u.last <= n
    BY <1>1, <1>8
  <2>2. t.span.row \notin 1..u.last /\ Len(u.labels) = n
    BY <1>4, <1>8 DEF LadderOK
  <2>. QED  BY <1>9, <1>10, <2>1, <2>2 DEF LadderOK
<1>12. Stands(c, u, t)
  <2>1. ASSUME NEW r \in 1..n, r \notin c.pending
        PROVE  u.labels[r] = c.labels[r] /\ r \notin u.pending
    BY <1>2, <1>3, <1>8, <2>1
  <2>. QED  BY <1>1, <2>1 DEF Stands
<1>. QED  BY <1>8, <1>11, <1>12 DEF u

(* The new events: those after the last one, up to the open span.             *)
LEMMA FreshIs ==
  ASSUME NEW c, NEW t, LadderOK(c, t), TrackerOK(t)
  PROVE  LET fresh == Fresh(c, t)
             after == IF fresh = {} THEN c.last ELSE Max(fresh)
         IN /\ fresh \subseteq 1..Len(t.rows) /\ \A r \in fresh : r > c.last
            /\ after \in Nat /\ c.last <= after /\ after <= Len(t.rows)
            /\ t.span.row \notin 1..after
            /\ \A r \in 1..after : r > c.last => r \in fresh
            /\ fresh \subseteq 1..after
<1>. DEFINE fresh == Fresh(c, t)
            n == Len(t.rows)
            after == IF fresh = {} THEN c.last ELSE Max(fresh)
<1>1. /\ n \in Nat /\ c.last \in Nat /\ c.last <= n /\ t.span.row \in Nat
      /\ t.span.row \notin 1..c.last
      /\ t.span.row = 0 \/ t.span.row = n
  BY DEF TrackerOK, Tracker, LadderOK, Ladders, NoSpan
<1>2. fresh \subseteq 1..n /\ \A r \in fresh : r > c.last
  BY <1>1 DEF Fresh
<1>3. CASE fresh = {}
  BY <1>1, <1>2, <1>3
<1>4. CASE fresh # {}
  <2>. HIDE DEF fresh
  <2>1. \E m \in fresh : \A j \in fresh : j <= m
    BY <1>1, <1>2, <1>4, MaxOfIndices
  <2>2. Max(fresh) \in fresh /\ \A j \in fresh : Max(fresh) >= j
    <3>1. \E m \in fresh : \A j \in fresh : m >= j
      BY <1>1, <1>2, <2>1
    <3>. QED  BY <3>1 DEF Max
  <2>3. after \in fresh /\ \A j \in fresh : after >= j
    BY <1>4, <2>2
  <2>. HIDE DEF after
  <2>4. after \in 1..n /\ c.last < after
    BY <1>1, <1>2, <2>3
  <2>5. after # t.span.row /\ \A r \in (c.last + 1)..n : r # t.span.row => r \in fresh
    BY <1>1, <2>3 DEF fresh, Fresh
  <2>6. t.span.row \notin 1..after
    BY <1>1, <2>4, <2>5
  <2>7. \A r \in 1..after : r > c.last => r \in fresh
    BY <1>1, <2>4, <2>5, <2>6
  <2>8. fresh \subseteq 1..after
    BY <1>1, <1>2, <2>3, <2>4
  <2>. QED  BY <1>1, <1>2, <2>4, <2>6, <2>7, <2>8 DEF fresh, after
<1>. QED  BY <1>3, <1>4

(* Considering the new events settles each, or lets it wait.                  *)
LEMMA ConsideredOK ==
  ASSUME NEW c, NEW t, LadderOK(c, t), TrackerOK(t), NEW time \in Nat
  PROVE  LET u == Considered(c, t, time)
         IN LadderOK(u, t) /\ Stands(c, u, t)
<1>. DEFINE u == Considered(c, t, time)
            n == Len(t.rows)
            fresh == Fresh(c, t)
            after == IF fresh = {} THEN c.last ELSE Max(fresh)
            judged == {r \in fresh : Judgeable(c, t, r)}
            paid == {r \in judged : FreeLabel(c, t, r) = <<>> /\ t.rows[r].session # 0}
            new == [r \in DOMAIN c.labels |->
                      IF r \in judged THEN c.labels[r] \o FreeLabel(c, t, r) ELSE c.labels[r]]
            open == IF c.pending = {} /\ paid # {} THEN time ELSE c.opened
<1>1. /\ n \in Nat /\ \A r \in 1..n : t.rows[r] \in Row
      /\ c \in Ladders /\ Len(c.labels) = n /\ c.last \in Nat /\ c.last <= n
      /\ c.labels \in Seq(Seq(Label)) /\ c.cache \in Verdicts /\ c.opened \in Nat
      /\ c.pending \subseteq 1..c.last /\ c.asked \subseteq 1..c.last
      /\ DOMAIN c.labels = 1..n
      /\ \A r \in 1..n : c.labels[r] \in Seq(Label)
  <2>1. n \in Nat /\ \A r \in 1..n : t.rows[r] \in Row
    BY ElementOfSeq DEF TrackerOK, Tracker
  <2>2. /\ c \in Ladders /\ Len(c.labels) = n /\ c.last \in Nat /\ c.last <= n
        /\ c.labels \in Seq(Seq(Label)) /\ c.cache \in Verdicts /\ c.opened \in Nat
        /\ c.pending \subseteq 1..c.last /\ c.asked \subseteq 1..c.last
    BY DEF LadderOK, Ladders
  <2>3. DOMAIN c.labels = 1..n /\ \A r \in 1..n : c.labels[r] \in Seq(Label)
    BY <2>2, ElementOfSeq, LenProperties
  <2>. QED  BY <2>1, <2>2, <2>3
<1>2. /\ fresh \subseteq 1..n /\ \A r \in fresh : r > c.last
      /\ after \in Nat /\ c.last <= after /\ after <= n
      /\ t.span.row \notin 1..after
      /\ \A r \in 1..after : r > c.last => r \in fresh
      /\ fresh \subseteq 1..after
  BY FreshIs
<1>3. u = [c EXCEPT !.labels = new, !.pending = c.pending \cup paid, !.opened = open,
                    !.last = after]
  BY DEF Considered
<1>. HIDE DEF u, after, fresh, open
<1>4. open \in Nat
  BY <1>1 DEF open
<1>5. ASSUME NEW r \in judged
      PROVE  /\ r \in fresh /\ t.rows[r].key # Away /\ t.rows[r].key \in Windows
             /\ t.rows[r].session # 0 => c.labels[r] = <<>>
             /\ \/ FreeLabel(c, t, r) = <<>>
                \/ \E label \in Label : label.source # "user" /\ FreeLabel(c, t, r) = <<label>>
  <2>1. r \in fresh /\ Judgeable(c, t, r)
    BY DEF judged
  <2>2. t.rows[r].key # Away /\ (t.rows[r].session # 0 => c.labels[r] = <<>>)
    BY <2>1 DEF Judgeable
  <2>3. t.rows[r].key \in Windows
    BY <1>1, <1>2, <2>1, <2>2 DEF Row, Keys
  <2>. QED  BY <1>2, <2>1, <2>2, <2>3, FreeLabelIs
<1>6. ASSUME NEW r \in 1..n
      PROVE  /\ new[r] = IF r \in judged THEN c.labels[r] \o FreeLabel(c, t, r) ELSE c.labels[r]
             /\ new[r] \in Seq(Label)
  <2>1. new[r] = IF r \in judged THEN c.labels[r] \o FreeLabel(c, t, r) ELSE c.labels[r]
    BY <1>1
  <2>. HIDE DEF new, judged
  <2>2. CASE r \in judged
    <3>1. FreeLabel(c, t, r) \in Seq(Label)
      <4>1. \A label \in Label : <<label>> \in Seq(Label)
        OBVIOUS
      <4>2. <<>> \in Seq(Label)
        OBVIOUS
      <4>. QED  BY <1>5, <2>2, <4>1, <4>2
    <3>. QED  BY <1>1, <2>1, <2>2, <3>1, ConcatProperties
  <2>3. CASE r \notin judged
    BY <1>1, <2>1, <2>3
  <2>. QED  BY <2>1, <2>2, <2>3
<1>7. new \in Seq(Seq(Label)) /\ Len(new) = n
  <2>1. new \in [1..n -> Seq(Label)]
    BY <1>1, <1>6
  <2>. HIDE DEF new
  <2>. QED  BY <1>1, <2>1, MappedSeq
<1>8. paid \subseteq fresh /\ paid \subseteq judged
      /\ \A r \in paid : FreeLabel(c, t, r) = <<>> /\ t.rows[r].session # 0
  OBVIOUS
<1>. HIDE DEF new, paid
<1>9. /\ u.labels = new /\ u.pending = c.pending \cup paid /\ u.asked = c.asked
      /\ u.last = after
  BY <1>1, <1>3 DEF Ladders
<1>10. u \in Ladders
  <2>1. c.pending \cup paid \in SUBSET Nat
    <3>1. \A r \in c.pending \cup paid : r \in 1..c.last \/ r \in 1..n
      BY <1>1, <1>2, <1>8
    <3>2. \A r \in c.pending \cup paid : r \in Nat
      BY <1>1, <3>1
    <3>. QED  BY <3>2
  <2>. QED  BY <1>1, <1>2, <1>3, <1>4, <1>7, <2>1 DEF Ladders
<1>11. ASSUME NEW r \in 1..n
       PROVE  EventOK(u, t, r)
  <2>1. /\ EventOK(c, t, r) /\ c.labels[r] \in Seq(Label)
        /\ u.labels[r] = IF r \in judged THEN c.labels[r] \o FreeLabel(c, t, r) ELSE c.labels[r]
    BY <1>1, <1>6, <1>9 DEF LadderOK
  <2>2. CASE r \in judged /\ t.rows[r].session = 0
    <3>1. r \notin c.pending /\ r \notin paid
      BY <1>8, <2>1, <2>2 DEF EventOK
    <3>. QED  BY <1>9, <2>2, <3>1 DEF EventOK
  <2>3. CASE r \in judged /\ t.rows[r].session # 0
    <3>. DEFINE free == FreeLabel(c, t, r)
    <3>1. c.labels[r] = <<>> /\ t.rows[r].key \in Windows /\ r > c.last /\ r \notin c.pending
      BY <1>1, <1>2, <1>5, <2>3
    <3>. HIDE DEF judged
    <3>2. CASE free = <<>>
      <4>1. u.labels[r] = <<>>
        BY <2>1, <2>3, <3>1, <3>2, ConcatEmptySeq
      <4>2. r \in paid
        BY <2>3, <3>2 DEF paid
      <4>3. Machine(u, r) = {}
        BY <4>1 DEF Machine
      <4>. QED  BY <1>9, <2>3, <3>1, <4>2, <4>3 DEF EventOK
    <3>3. CASE free # <<>>
      <4>1. PICK label \in Label : free = <<label>>
        BY <1>5, <2>3, <3>3
      <4>2. u.labels[r] = <<label>>
        <5>1. u.labels[r] = <<>> \o <<label>> /\ <<label>> \in Seq(Label)
          BY <2>1, <2>3, <3>1, <4>1
        <5>. QED  BY <5>1, ConcatEmptySeq
      <4>3. DOMAIN u.labels[r] = {1} /\ u.labels[r] # <<>>
        BY <4>2
      <4>4. \A i \in Machine(u, r) : i = 1
        BY <4>3 DEF Machine
      <4>5. r \notin u.pending
        BY <1>8, <1>9, <3>1, <3>3
      <4>. QED  BY <4>3, <4>4, <4>5 DEF EventOK
    <3>. QED  BY <3>2, <3>3
  <2>4. CASE r \notin judged
    <3>1. u.labels[r] = c.labels[r] /\ Machine(u, r) = Machine(c, r)
      BY <2>1, <2>4 DEF Machine
    <3>2. r \in u.pending <=> r \in c.pending
      BY <1>8, <1>9, <2>4
    <3>3. ASSUME r <= u.last, t.rows[r].session # 0, t.rows[r].key # Away,
                 Minutes(t, r) >= MinDuration
          PROVE  u.labels[r] # <<>> \/ r \in u.pending \cup u.asked
      <4>1. CASE r <= c.last
        BY <1>9, <2>1, <3>1, <3>2, <3>3, <4>1 DEF EventOK
      <4>2. CASE ~ (r <= c.last)
        <5>1. r \in fresh
          BY <1>1, <1>2, <1>9, <3>3, <4>2
        <5>2. ~ Judgeable(c, t, r)
          BY <2>4, <5>1 DEF judged
        <5>3. c.labels[r] # <<>>
          BY <3>3, <5>2 DEF Judgeable, Minutes
        <5>. QED  BY <3>1, <5>3
      <4>. QED  BY <4>1, <4>2
    <3>. QED  BY <2>1, <3>1, <3>2, <3>3 DEF EventOK
  <2>. QED  BY <2>2, <2>3, <2>4
<1>12. LadderOK(u, t)
  <2>1. 1..c.last \subseteq 1..after
    BY <1>1, <1>2
  <2>2. u.pending \subseteq 1..after /\ u.asked \subseteq 1..after
    BY <1>1, <1>2, <1>8, <1>9, <2>1
  <2>3. u.last = after /\ u.last <= n
    BY <1>2, <1>9
  <2>4. t.span.row \notin 1..u.last /\ Len(u.labels) = n
    BY <1>2, <1>7, <1>9
  <2>. QED  BY <1>10, <1>11, <2>2, <2>3, <2>4 DEF LadderOK
<1>13. Stands(c, u, t)
  <2>1. ASSUME NEW r \in 1..n, c.labels[r] # <<>>, t.rows[r].session # 0, r \notin c.pending
        PROVE  u.labels[r] = c.labels[r] /\ r \notin u.pending
    <3>1. r \notin judged
      BY <1>5, <2>1
    <3>. QED  BY <1>6, <1>8, <1>9, <2>1, <3>1
  <2>. QED  BY <1>1, <2>1 DEF Stands
<1>. QED  BY <1>12, <1>13 DEF u

-----------------------------------------------------------------------------
(* A tick of the ladder, and what else is done to the labels. *)

(* The ladder of the moment, with an empty list of labels for each new event. *)
Grown(t) ==
  [Classifier EXCEPT !.labels = labels \o [i \in 1..(Len(t.rows) - Len(labels)) |-> <<>>]]

(* New rows change nothing of what holds of the events.                       *)
LEMMA GrownOK ==
  ASSUME NEW t, TrackerOK(t), TrackerOK(Tracked), Follows(Tracked, t),
         LadderOK(Classifier, Tracked)
  PROVE  /\ LadderOK(Grown(t), t) /\ Grown(t).pending = pending
         /\ \A r \in 1..Len(labels) : r \in 1..Len(t.rows) /\ Grown(t).labels[r] = labels[r]
         /\ Len(labels) = Len(rows) /\ DOMAIN labels = 1..Len(rows)
<1>. DEFINE g == Grown(t)
            n == Len(rows)
            m == Len(t.rows)
            fresh == [i \in 1..(m - n) |-> <<>>]
<1>1. /\ Classifier \in Ladders /\ labels \in Seq(Seq(Label)) /\ Len(labels) = n
      /\ last \in Nat /\ last <= n /\ pending \subseteq 1..last /\ asked \subseteq 1..last
      /\ span.row \notin 1..last
      /\ \A r \in 1..n : EventOK(Classifier, Tracked, r)
  BY DEF LadderOK, Ladders, Classifier, Tracked
<1>2. n \in Nat /\ m \in Nat /\ n <= m
  BY DEF TrackerOK, Tracker, Follows, Tracked
<1>3. /\ \A r \in 1..n : t.rows[r].session = rows[r].session
      /\ \A r \in 1..n : r # span.row => t.rows[r] = rows[r] /\ r # t.span.row
  BY DEF Follows, Tracked
<1>4. fresh \in Seq(Seq(Label)) /\ Len(fresh) = m - n
  <2>1. m - n \in Nat
    BY <1>2
  <2>2. <<>> \in Seq(Label)
    OBVIOUS
  <2>3. fresh \in [1..(m - n) -> Seq(Label)]
    BY <2>2
  <2>. HIDE DEF fresh
  <2>. QED  BY <2>1, <2>3, MappedSeq
<1>5. \A i \in 1..(m - n) : fresh[i] = <<>>
  OBVIOUS
<1>6. g = [Classifier EXCEPT !.labels = labels \o fresh]
  BY <1>1 DEF Grown
<1>. HIDE DEF fresh, g
<1>7. /\ labels \o fresh \in Seq(Seq(Label)) /\ Len(labels \o fresh) = m
      /\ \A r \in 1..n : (labels \o fresh)[r] = labels[r]
      /\ \A r \in (n + 1)..m : (labels \o fresh)[r] = <<>>
  <2>1. /\ labels \o fresh \in Seq(Seq(Label))
        /\ Len(labels \o fresh) = n + (m - n)
        /\ \A i \in 1..(n + (m - n)) :
             (labels \o fresh)[i] = IF i <= n THEN labels[i] ELSE fresh[i - n]
    <3>1. /\ labels \o fresh \in Seq(Seq(Label))
          /\ Len(labels \o fresh) = Len(labels) + Len(fresh)
          /\ \A i \in 1..(Len(labels) + Len(fresh)) :
               (labels \o fresh)[i] = IF i <= Len(labels) THEN labels[i]
                                      ELSE fresh[i - Len(labels)]
      <4>1. labels \in Seq(Seq(Label)) /\ fresh \in Seq(Seq(Label))
        BY <1>1, <1>4
      <4>. HIDE DEF n, m
      <4>. QED  BY <4>1, ConcatProperties
    <3>2. Len(labels) = n /\ Len(fresh) = m - n
      BY <1>1, <1>4
    <3>. HIDE DEF n, m
    <3>. QED  BY <3>1, <3>2
  <2>2. Len(labels \o fresh) = m
    BY <1>2, <2>1
  <2>3. \A r \in 1..n : (labels \o fresh)[r] = labels[r]
    BY <1>2, <2>1
  <2>4. ASSUME NEW r \in (n + 1)..m
        PROVE  (labels \o fresh)[r] = <<>>
    <3>1. r \in 1..(n + (m - n)) /\ ~ (r <= n) /\ r - n \in 1..(m - n)
      BY <1>2
    <3>2. (labels \o fresh)[r] = fresh[r - n]
      BY <2>1, <3>1
    <3>. QED  BY <1>5, <3>1, <3>2
  <2>. QED  BY <2>1, <2>2, <2>3, <2>4
<1>8. /\ g.labels = labels \o fresh /\ g.pending = pending /\ g.asked = asked /\ g.last = last
      /\ g \in Ladders
  BY <1>1, <1>6, <1>7 DEF Ladders, Classifier
<1>9. ASSUME NEW r \in 1..m
      PROVE  EventOK(g, t, r)
  <2>1. CASE r <= n
    <3>1. r \in 1..n /\ g.labels[r] = labels[r] /\ EventOK(Classifier, Tracked, r)
      BY <1>1, <1>7, <1>8, <2>1
    <3>2. Machine(g, r) = Machine(Classifier, r)
      BY <3>1 DEF Machine, Classifier
    <3>3. CASE r <= last
      <4>1. r # span.row
        BY <1>1, <3>3
      <4>2. t.rows[r] = rows[r]
        BY <1>3, <3>1, <4>1
      <4>. QED  BY <1>8, <3>1, <3>2, <4>2 DEF EventOK, Tracked, Classifier, Minutes
    <3>4. CASE ~ (r <= last)
      <4>1. r \notin pending
        BY <1>1, <3>4
      <4>2. t.rows[r].session = rows[r].session
        BY <1>3, <3>1
      <4>. QED  BY <1>8, <3>1, <3>2, <3>4, <4>1, <4>2 DEF EventOK, Tracked, Classifier
    <3>. QED  BY <3>3, <3>4
  <2>2. CASE ~ (r <= n)
    <3>1. g.labels[r] = <<>> /\ r \notin pending /\ ~ (r <= last)
      BY <1>1, <1>2, <1>7, <1>8, <2>2
    <3>2. Machine(g, r) = {}
      BY <3>1 DEF Machine
    <3>. QED  BY <1>8, <3>1, <3>2 DEF EventOK
  <2>. QED  BY <2>1, <2>2
<1>10. t.span.row \notin 1..last
  <2>1. ASSUME t.span.row \in 1..last
        PROVE  FALSE
    <3>1. t.span.row \in 1..n
      BY <1>1, <1>2, <2>1
    <3>2. t.span.row # span.row
      BY <1>1, <2>1
    <3>. QED  BY <1>3, <3>1, <3>2
  <2>. QED  BY <2>1
<1>11. LadderOK(g, t)
  <2>1. last <= m
    BY <1>1, <1>2
  <2>. QED  BY <1>1, <1>7, <1>8, <1>9, <1>10, <2>1 DEF LadderOK
<1>12. \A r \in 1..Len(labels) : r \in 1..m /\ g.labels[r] = labels[r]
  BY <1>1, <1>2, <1>7, <1>8
<1>13. DOMAIN labels = 1..n
  BY <1>1, LenProperties
<1>. QED  BY <1>1, <1>8, <1>11, <1>12, <1>13 DEF g

(* Two steps of the classifier, one after the other.                          *)
LEMMA StandsBoth ==
  ASSUME NEW c, NEW d, NEW u, NEW t, LadderOK(c, t), LadderOK(d, t),
         Stands(c, d, t), Stands(d, u, t)
  PROVE  Stands(c, u, t)
<1>1. Len(c.labels) = Len(d.labels)
  BY DEF LadderOK
<1>. QED  BY <1>1 DEF Stands

(* What a tick makes of the labels.                                           *)
LEMMA OutcomesOK ==
  ASSUME NEW t, TrackerOK(t), TrackerOK(Tracked), Follows(Tracked, t),
         LadderOK(Classifier, Tracked), NEW forced \in BOOLEAN, NEW time \in Nat,
         NEW u \in Outcomes(t, forced, time)
  PROVE  LadderOK(u, t) /\ Stands(Grown(t), u, t)
<1>. DEFINE g == Grown(t)
<1>1. LadderOK(g, t)
  BY GrownOK
<1>2. Stands(g, g, t)
  BY DEF Stands
<1>3. PICK c, d :
        /\ c = g \/ c \in Settled(g, t)
        /\ d = Considered(c, t, time)
        /\ u = d \/ u \in Settled(d, t)
  <2>1. Outcomes(t, forced, time) =
          LET first == IF forced THEN Settled(g, t) ELSE {g}
              second == {Considered(c, t, time) : c \in first}
          IN UNION {IF BatchReady(c, time) THEN Settled(c, t) ELSE {c} : c \in second}
    BY DEF Outcomes, Grown, Classifier
  <2>. HIDE DEF g
  <2>. QED  BY <2>1
<1>. HIDE DEF g
<1>4. LadderOK(c, t) /\ Stands(g, c, t)
  <2>1. CASE c = g
    BY <1>1, <1>2, <2>1
  <2>2. CASE c \in Settled(g, t)
    BY <1>1, <2>2, FlushedOK DEF Settled
  <2>. QED  BY <1>3, <2>1, <2>2
<1>5. LadderOK(d, t) /\ Stands(c, d, t)
  BY <1>3, <1>4, ConsideredOK
<1>6. Stands(g, d, t)
  BY <1>1, <1>4, <1>5, StandsBoth
<1>7. CASE u = d
  BY <1>5, <1>6, <1>7 DEF g
<1>8. CASE u \in Settled(d, t)
  <2>1. LadderOK(u, t) /\ Stands(d, u, t)
    BY <1>5, <1>8, FlushedOK DEF Settled
  <2>. QED  BY <1>1, <1>5, <1>6, <2>1, StandsBoth DEF g
<1>. QED  BY <1>3, <1>7, <1>8

(* The user labels an event.                                                 *)
Said(c, r, label, verdicts) ==
  [labels |-> [c.labels EXCEPT ![r] = Append(c.labels[r], label)], cache |-> verdicts,
   pending |-> c.pending, opened |-> c.opened, asked |-> c.asked, last |-> c.last]

(* The label comes last, and is not one of Izy's.                             *)
LEMMA SaidOK ==
  ASSUME NEW c, NEW t, LadderOK(c, t), TrackerOK(t), NEW r \in 1..Len(t.rows),
         NEW label \in Label, label.source = "user", NEW verdicts \in Verdicts
  PROVE  LET u == Said(c, r, label, verdicts)
         IN /\ LadderOK(u, t)
            /\ \A q \in 1..Len(t.rows) : q # r => u.labels[q] = c.labels[q]
            /\ u.labels[r][Len(u.labels[r])].source = "user"
<1>. DEFINE u == Said(c, r, label, verdicts)
            said == Append(c.labels[r], label)
            n == Len(t.rows)
            new == [c.labels EXCEPT ![r] = said]
<1>1. /\ c \in Ladders /\ Len(c.labels) = n /\ n \in Nat /\ c.labels \in Seq(Seq(Label))
      /\ c.labels[r] \in Seq(Label)
  BY ElementOfSeq DEF LadderOK, Ladders, TrackerOK, Tracker
<1>2. /\ said \in Seq(Label) /\ said # <<>> /\ DOMAIN said = 1..(Len(c.labels[r]) + 1)
      /\ \A k \in 1..Len(c.labels[r]) : said[k] = c.labels[r][k]
      /\ said[Len(c.labels[r]) + 1] = label /\ Len(said) = Len(c.labels[r]) + 1
      /\ Len(c.labels[r]) \in Nat /\ DOMAIN c.labels[r] = 1..Len(c.labels[r])
  BY <1>1, LabelAdded
<1>3. label.source = "user"
  OBVIOUS
<1>4. u = [labels |-> new, cache |-> verdicts, pending |-> c.pending, opened |-> c.opened,
           asked |-> c.asked, last |-> c.last]
  BY DEF Said
<1>. HIDE DEF said, u
<1>5. /\ new \in Seq(Seq(Label)) /\ Len(new) = n
      /\ \A q \in 1..n : new[q] = IF q = r THEN said ELSE c.labels[q]
  BY <1>1, <1>2, ExceptSeq
<1>. HIDE DEF new
<1>6. /\ u.labels = new /\ u.pending = c.pending /\ u.asked = c.asked /\ u.last = c.last
      /\ u \in Ladders
  BY <1>1, <1>4, <1>5 DEF Ladders
<1>7. Machine(u, r) = Machine(c, r)
  <2>1. u.labels[r] = said
    BY <1>5, <1>6
  <2>2. ASSUME NEW k \in 1..(Len(c.labels[r]) + 1), said[k].source # "user"
        PROVE  k \in 1..Len(c.labels[r])
    BY <1>2, <1>3, <2>2
  <2>. QED  BY <1>2, <2>1, <2>2 DEF Machine
<1>8. ASSUME NEW q \in 1..n
      PROVE  EventOK(u, t, q)
  <2>1. EventOK(c, t, q)
    BY DEF LadderOK
  <2>2. u.labels[q] = IF q = r THEN said ELSE c.labels[q]
    BY <1>5, <1>6
  <2>3. Machine(u, q) = Machine(c, q)
    BY <1>7, <2>2 DEF Machine
  <2>4. c.labels[q] # <<>> => u.labels[q] # <<>>
    BY <1>2, <2>2
  <2>. QED  BY <1>6, <2>1, <2>3, <2>4 DEF EventOK
<1>9. LadderOK(u, t)
  BY <1>1, <1>5, <1>6, <1>8 DEF LadderOK
<1>10. \A q \in 1..n : q # r => u.labels[q] = c.labels[q]
  BY <1>5, <1>6
<1>11. u.labels[r] = said /\ said[Len(said)].source = "user"
  BY <1>2, <1>3, <1>5, <1>6
<1>. QED  BY <1>9, <1>10, <1>11 DEF u

(* A start finds the labels, and remembers nothing else.                      *)
LEMMA ForgottenOK ==
  ASSUME NEW c, NEW t, LadderOK(c, t), TrackerOK(t), NEW u, TrackerOK(u),
         Len(u.rows) = Len(t.rows),
         \A r \in 1..Len(t.rows) : u.rows[r].session = t.rows[r].session,
         NEW d \in Ladders, d.labels = c.labels, d.pending = {}, d.asked = {}, d.last = 0
  PROVE  LadderOK(d, u)
<1>1. Len(u.rows) \in Nat /\ Len(c.labels) = Len(t.rows)
  BY DEF LadderOK, TrackerOK, Tracker
<1>2. ASSUME NEW r \in 1..Len(u.rows)
      PROVE  EventOK(d, u, r)
  <2>1. EventOK(c, t, r) /\ Machine(d, r) = Machine(c, r) /\ ~ (r <= 0)
    BY <1>1 DEF LadderOK, Machine
  <2>. QED  BY <2>1 DEF EventOK
<1>. QED  BY <1>1, <1>2 DEF LadderOK

-----------------------------------------------------------------------------
(* The inductive invariant.                                                   *)

TypeOK ==
  /\ now \in Nat /\ since \in 0..now /\ event \in Events
  /\ TrackerOK(Tracked) /\ alerted \in BOOLEAN

IInv == TypeOK /\ LadderOK(Classifier, Tracked)

(* And what the native watcher adds to it.                                    *)
Native == Sound(Tracked, now) /\ Recent(Tracked, now) /\ Parted(Tracked, since)

(* The first span.                                                            *)
LEMMA FirstIs ==
  ASSUME NEW s \in SessionIds, NEW key \in Keys, NEW ts \in Nat
  PROVE  LET t == Opened([rows |-> <<>>, span |-> NoSpan, session |-> s], key, ts)
         IN TrackerOK(t) /\ t.session = s /\ Len(t.rows) = 1 /\ t.span.row = 1
<1>1. PICK none : none = [rows |-> <<>>, span |-> NoSpan, session |-> s]
  OBVIOUS
<1>2. TrackerOK(none) /\ Len(none.rows) = 0 /\ none.session = s
  BY <1>1 DEF TrackerOK, Tracker, NoSpan
<1>. DEFINE u == Opened(none, key, ts)
            n == Len(none.rows)
<1>3. /\ TrackerOK(u) /\ u.span = [row |-> n + 1, flushed |-> ts]
      /\ u.session = none.session /\ Len(u.rows) = n + 1
      /\ \A r \in 1..n : u.rows[r] = none.rows[r]
      /\ u.rows[n + 1] = [session |-> none.session, key |-> key,
                          start |-> ts, end |-> ts, seen |-> ts]
  <2>1. IsOpened(none, u, key, ts)
    BY <1>2, OpenedIs
  <2>. HIDE DEF u
  <2>. QED  BY <2>1 DEF IsOpened
<1>. HIDE DEF u
<1>4. TrackerOK(u) /\ u.session = s /\ Len(u.rows) = 1 /\ u.span.row = 1
  BY <1>2, <1>3
<1>. QED  BY <1>1, <1>4 DEF u

(* Initially.                                                                 *)
LEMMA InitInv == Init => IInv
<1>. SUFFICES ASSUME Init PROVE IInv
  OBVIOUS
<1>. DEFINE none == [rows |-> <<>>, span |-> NoSpan, session |-> session]
<1>1. /\ now = 0 /\ since = 0 /\ session \in SessionIds /\ event \in Events
      /\ labels = <<<<>>>> /\ cache = [s \in SessionIds |-> [w \in Windows |-> "none"]]
      /\ pending = {} /\ opened = 0 /\ asked = {} /\ last = 0 /\ alerted = FALSE
  BY DEF Init, SpansInit, Events
<1>2. PICK snap \in Snapshots(event, 0) \ {Nothing} :
        LET t == Opened(none, snap.key, snap.at) IN rows = t.rows /\ span = t.span
  BY DEF Init, SpansInit
<1>3. snap.key \in Keys /\ snap.at \in Nat
  BY <1>1, <1>2 DEF Snapshots, Sampled, Reported, Events, Keys, NoEvent
<1>. DEFINE t == Opened(none, snap.key, snap.at)
<1>5. TrackerOK(t) /\ t.session = session /\ Len(t.rows) = 1 /\ t.span.row = 1
  BY <1>1, <1>3, FirstIs
<1>. HIDE DEF t
<1>6. Tracked = t
  BY <1>2, <1>5 DEF Tracked, TrackerOK, Tracker, t
<1>7. TypeOK
  <2>1. TrackerOK(Tracked)
    BY <1>5, <1>6
  <2>2. now = 0 /\ since = 0 /\ event \in Events /\ alerted = FALSE
    BY <1>1
  <2>3. now \in Nat /\ since \in 0..now
    BY <2>2
  <2>4. alerted \in BOOLEAN
    BY <2>2
  <2>. QED  BY <2>1, <2>2, <2>3, <2>4 DEF TypeOK
<1>8. LadderOK(Classifier, Tracked)
  <2>1. Classifier \in Ladders
    <3>1. labels \in Seq(Seq(Label)) /\ cache \in Verdicts
      BY <1>1 DEF Verdicts
    <3>. QED  BY <1>1, <3>1 DEF Ladders, Classifier
  <2>2. Len(labels) = 1 /\ labels[1] = <<>>
    BY <1>1
  <2>3. EventOK(Classifier, t, 1)
    <3>1. Machine(Classifier, 1) = {}
      BY <2>2 DEF Machine, Classifier
    <3>2. Classifier.pending = {} /\ Classifier.last = 0
      BY <1>1 DEF Classifier
    <3>. QED  BY <3>1, <3>2 DEF EventOK
  <2>4. /\ Classifier.pending = {} /\ Classifier.last = 0 /\ Classifier.asked = {}
        /\ Len(Classifier.labels) = 1
    BY <1>1, <2>2 DEF Classifier
  <2>. HIDE DEF none
  <2>5. LadderOK(Classifier, t)
    BY <1>5, <2>1, <2>3, <2>4 DEF LadderOK
  <2>. QED  BY <1>6, <2>5
<1>. QED  BY <1>7, <1>8 DEF IInv

(* What a poll may return, and what the watcher saw then.                     *)
LEMMA PollIs ==
  ASSUME TypeOK, NEW time \in Nat, NEW e \in LatestEvents(time), NEW snap \in Snapshots(e, time)
  PROVE  /\ e \in Events /\ snap \in Seen
         /\ Watcher = "native" => snap \in {Nothing} \cup [key : Keys, at : {time}]
<1>1. now \in Nat /\ event \in Events
  BY DEF TypeOK
<1>2. e \in Events
  <2>1. CASE Watcher = "native"
    BY <2>1 DEF LatestEvents, Events
  <2>2. CASE Watcher # "native" /\ e # event
    <3>1. e \in [window : Windows, at : (now + 1)..time]
      BY <2>2 DEF LatestEvents
    <3>. QED  BY <1>1, <3>1 DEF Events
  <2>. QED  BY <1>1, <2>1, <2>2
<1>3. CASE Watcher = "native"
  <2>1. snap \in [key : Keys, at : {time}] \cup {Nothing}
    BY <1>3 DEF Snapshots, Sampled
  <2>. QED  BY <1>2, <2>1 DEF Seen
<1>4. CASE Watcher # "native"
  <2>1. CASE e = NoEvent
    BY <1>2, <1>4, <2>1 DEF Snapshots, Reported, Seen
  <2>2. CASE e # NoEvent
    <3>1. e.window \in Windows /\ e.at \in Nat
      BY <1>2, <2>2 DEF Events
    <3>2. snap \in [key : {e.window, Away}, at : {e.at}] \cup {Nothing}
      BY <1>4, <2>2 DEF Snapshots, Reported
    <3>. QED  BY <1>2, <1>4, <3>1, <3>2 DEF Seen, Keys
  <2>. QED  BY <2>1, <2>2
<1>. QED  BY <1>3, <1>4

(* A tick, by what it leaves.                                                 *)
LEMMA TickIs ==
  ASSUME IInv, Tick
  PROVE  \E t, c, time :
           /\ TrackerOK(t) /\ Follows(Tracked, t)
           /\ LadderOK(c, t) /\ Stands(Grown(t), c, t)
           /\ time \in Nat /\ now <= time
           /\ Watcher = "native" /\ Native =>
                Sound(t, time) /\ Recent(t, time)
                /\ Parted(t, IF t.session = session THEN since ELSE time)
           /\ \E e \in Events : SpansBecome(t, e, time)
           /\ BecomesClassifier(c) /\ alerted' = AlertedAfter(c, t)
<1>1. /\ now \in Nat /\ since \in 0..now /\ TrackerOK(Tracked) /\ session \in SessionIds
      /\ LadderOK(Classifier, Tracked)
  BY DEF IInv, TypeOK, TrackerOK, Tracker, Tracked
<1>2. PICK pause \in Gaps, s \in NextSessions, overrun \in BOOLEAN, ended \in BOOLEAN :
        /\ overrun => s = session /\ session # 0
        /\ LET time == now + pause
           IN \E e \in LatestEvents(time) : \E snap \in Snapshots(e, time) :
                LET t == TickOf(s, snap, overrun, time)
                IN /\ SpansBecome(t, e, time)
                   /\ \E c \in Outcomes(t, overrun \/ ended, time) :
                        BecomesClassifier(c) /\ alerted' = AlertedAfter(c, t)
  BY DEF Tick
<1>. DEFINE time == now + pause
<1>3. pause \in Nat /\ time \in Nat /\ now <= time
  BY <1>1, SpansAssumption
<1>4. PICK e \in LatestEvents(time) : \E snap \in Snapshots(e, time) :
        LET t == TickOf(s, snap, overrun, time)
        IN /\ SpansBecome(t, e, time)
           /\ \E c \in Outcomes(t, overrun \/ ended, time) :
                BecomesClassifier(c) /\ alerted' = AlertedAfter(c, t)
  BY <1>2
<1>5. PICK snap \in Snapshots(e, time) :
        LET t == TickOf(s, snap, overrun, time)
        IN /\ SpansBecome(t, e, time)
           /\ \E c \in Outcomes(t, overrun \/ ended, time) :
                BecomesClassifier(c) /\ alerted' = AlertedAfter(c, t)
  BY <1>4
<1>. DEFINE t == TickOf(s, snap, overrun, time)
<1>6. PICK c \in Outcomes(t, overrun \/ ended, time) :
        BecomesClassifier(c) /\ alerted' = AlertedAfter(c, t)
  BY <1>5
<1>7. /\ e \in Events /\ snap \in Seen
      /\ Watcher = "native" => snap \in {Nothing} \cup [key : Keys, at : {time}]
  <2>. HIDE DEF time
  <2>. QED  BY <1>3, PollIs DEF IInv
<1>8. s \in SessionIds
  BY <1>1, SpansAssumption DEF NextSessions, Unused, SessionIds
<1>9. TrackerOK(t) /\ Follows(Tracked, t)
  <2>. HIDE DEF time
  <2>. QED  BY <1>1, <1>3, <1>7, <1>8, TickFollows
<1>10. ASSUME Watcher = "native", Native
       PROVE  /\ Sound(t, time) /\ Recent(t, time)
              /\ Parted(t, IF t.session = session THEN since ELSE time)
  BY <1>1, <1>2, <1>7, <1>8, <1>10, TickSound DEF Native
<1>. HIDE DEF t
<1>11. LadderOK(c, t) /\ Stands(Grown(t), c, t)
  <2>1. (overrun \/ ended) \in BOOLEAN
    OBVIOUS
  <2>. HIDE DEF time
  <2>. QED  BY <1>1, <1>3, <1>9, <2>1, OutcomesOK
<1>12. SpansBecome(t, e, time)
  BY <1>5 DEF t
<1>. HIDE DEF time
<1>. QED  BY <1>3, <1>6, <1>7, <1>9, <1>10, <1>11, <1>12

(* A tracker is its fields.                                                   *)
LEMMA TrackedIs ==
  ASSUME NEW t, TrackerOK(t)
  PROVE  t = [rows |-> t.rows, span |-> t.span, session |-> t.session]
BY DEF TrackerOK, Tracker

(* And so is a classifier.                                                    *)
LEMMA ClassifierIs ==
  ASSUME NEW c \in Ladders
  PROVE  c = [labels |-> c.labels, cache |-> c.cache, pending |-> c.pending,
              opened |-> c.opened, asked |-> c.asked, last |-> c.last]
BY DEF Ladders

(* A tick keeps the invariant, and what the native watcher adds.              *)
LEMMA TickInv ==
  ASSUME IInv, Tick
  PROVE  IInv' /\ (Watcher = "native" /\ Native => Native')
<1>1. PICK t, c, time :
        /\ TrackerOK(t) /\ Follows(Tracked, t)
        /\ LadderOK(c, t) /\ Stands(Grown(t), c, t)
        /\ time \in Nat /\ now <= time
        /\ Watcher = "native" /\ Native =>
             Sound(t, time) /\ Recent(t, time)
             /\ Parted(t, IF t.session = session THEN since ELSE time)
        /\ \E e \in Events : SpansBecome(t, e, time)
        /\ BecomesClassifier(c) /\ alerted' = AlertedAfter(c, t)
  BY TickIs
<1>2. /\ now' = time /\ rows' = t.rows /\ span' = t.span /\ session' = t.session
      /\ since' = IF t.session = session THEN since ELSE time
      /\ event' \in Events
  BY <1>1 DEF SpansBecome
<1>3. Tracked' = t
  BY <1>1, <1>2, TrackedIs DEF Tracked
<1>4. Classifier' = c
  <2>1. c \in Ladders
    BY <1>1 DEF LadderOK
  <2>. QED  BY <1>1, <2>1, ClassifierIs DEF Classifier, BecomesClassifier
<1>5. since' \in 0..now'
  BY <1>1, <1>2 DEF IInv, TypeOK
<1>6. alerted' \in BOOLEAN
  <2>1. AlertedAfter(c, t) \in BOOLEAN
    BY DEF AlertedAfter, IInv, TypeOK
  <2>. QED  BY <1>1, <2>1
<1>7. TrackerOK(Tracked') /\ LadderOK(Classifier', Tracked')
  BY <1>1, <1>3, <1>4
<1>8. IInv'
  BY <1>1, <1>2, <1>5, <1>6, <1>7 DEF IInv, TypeOK
<1>9. ASSUME Watcher = "native", Native
      PROVE  Native'
  <2>1. Sound(t, time) /\ Recent(t, time) /\ Parted(t, since')
    BY <1>1, <1>2, <1>9
  <2>. QED  BY <1>2, <1>3, <2>1 DEF Native
<1>. QED  BY <1>8, <1>9

(* A stop, which closes the open span now, or a crash, which leaves its row.  *)
LEMMA StoppedSound ==
  ASSUME NEW t, TrackerOK(t), NEW T \in Nat, Sound(t, T), Recent(t, T),
         NEW S \in Nat, Parted(t, S), NEW clean \in BOOLEAN,
         NEW v, v.rows = (IF clean THEN Closed(t, T) ELSE t).rows, v.span = NoSpan
  PROVE  /\ Sound(v, T) /\ Recent(v, T) /\ Parted(v, T)
         /\ v.session = t.session => Parted(v, S)
<1>. DEFINE u == IF clean THEN Closed(t, T) ELSE t
<1>1. v.span.row = 0
  BY DEF NoSpan
<1>2. Sound(u, T) /\ Len(u.rows) = Len(t.rows) /\ Len(t.rows) \in Nat
  <2>1. CASE clean
    <3>1. ASSUME IsOpen(t)
          PROVE  /\ OpenRow(t).seen <= T
                 /\ \E pause \in Gaps : T - OpenRow(t).seen < Stale + pause
      <4>1. OpenRow(t) = t.rows[t.span.row] /\ t.span.row \in 1..Len(t.rows) /\ OpenRow(t) \in Row
        BY <3>1, OpenIs DEF OpenRow
      <4>2. OpenRow(t).seen \in Nat /\ OpenRow(t).seen <= T /\ T - OpenRow(t).seen < Stale
        BY <3>1, <4>1 DEF Row, Sound, RowSound, Recent
      <4>3. PICK pause \in Gaps : TRUE
        BY SpansAssumption
      <4>4. pause \in Nat /\ Stale \in Nat
        BY SpansAssumption
      <4>5. T - OpenRow(t).seen < Stale + pause
        BY <4>2, <4>4
      <4>. QED  BY <4>2, <4>5
    <3>2. Sound(Closed(t, T), T)
      <4>1. T <= T
        OBVIOUS
      <4>. QED  BY <3>1, <4>1, ClosedSound
    <3>3. Len(Closed(t, T).rows) = Len(t.rows)
      <4>1. CASE IsOpen(t)
        BY <4>1, ClosedIs
      <4>2. CASE ~ IsOpen(t)
        BY <4>2 DEF Closed
      <4>. QED  BY <4>1, <4>2
    <3>4. Len(t.rows) \in Nat
      BY DEF TrackerOK, Tracker
    <3>. QED  BY <2>1, <3>2, <3>3, <3>4
  <2>2. CASE ~ clean
    BY <2>2 DEF TrackerOK, Tracker
  <2>. QED  BY <2>1, <2>2
<1>3. \A r \in 1..Len(t.rows) : u.rows[r].session = t.rows[r].session
                               /\ (r # t.span.row => u.rows[r] = t.rows[r])
  <2>1. CASE clean
    <3>1. Follows(t, Closed(t, T))
      BY ClosedFollows
    <3>. QED  BY <2>1, <3>1 DEF Follows
  <2>2. CASE ~ clean
    BY <2>2
  <2>. QED  BY <2>1, <2>2
<1>4. v.rows = u.rows
  OBVIOUS
<1>. HIDE DEF u
<1>5. Sound(v, T)
  <2>1. ASSUME NEW r \in 1..Len(v.rows)
        PROVE  RowSound(v, r, T)
    <3>1. RowSound(u, r, T) /\ r # v.span.row
      BY <1>1, <1>2, <1>4 DEF Sound
    <3>. QED  BY <1>4, <3>1 DEF RowSound
  <2>. QED  BY <1>2, <1>4, <2>1 DEF Sound, Ordered
<1>6. Recent(v, T)
  BY DEF Recent, IsOpen
<1>7. Parted(v, T)
  BY <1>1, <1>5 DEF Parted, Sound, RowSound
<1>8. ASSUME v.session = t.session
      PROVE  Parted(v, S)
  <2>1. ASSUME NEW r \in 1..Len(v.rows)
        PROVE  /\ v.rows[r].session # v.session => v.rows[r].end <= S
               /\ r # v.span.row
    <3>1. r \in 1..Len(t.rows) /\ v.rows[r].session = t.rows[r].session
      BY <1>2, <1>3, <1>4
    <3>2. CASE r = t.span.row
      BY <1>1, <1>8, <3>1, <3>2 DEF Parted
    <3>3. CASE r # t.span.row
      <4>1. v.rows[r] = t.rows[r]
        BY <1>3, <1>4, <3>1, <3>3
      <4>2. t.rows[r].session # t.session => t.rows[r].end <= S
        BY <3>1 DEF Parted
      <4>. QED  BY <1>1, <1>8, <4>1, <4>2
    <3>. QED  BY <3>2, <3>3
  <2>. QED  BY <2>1 DEF Parted
<1>. QED  BY <1>5, <1>6, <1>7, <1>8

(* A restart, by what it leaves.                                              *)
LEMMA RestartIs ==
  ASSUME IInv, Restart
  PROVE  \E clean \in BOOLEAN : \E c :
           /\ LadderOK(c, Tracked) /\ Stands(Classifier, c, Tracked)
           /\ labels' = c.labels /\ cache' = c.cache
           /\ pending' = {} /\ opened' = 0 /\ asked' = {} /\ last' = 0 /\ alerted' = FALSE
           /\ rows' = (IF clean THEN Closed(Tracked, now) ELSE Tracked).rows
           /\ span' = NoSpan /\ now' = now /\ event' = event
           /\ \/ session' = session /\ since' = since
              \/ session' = 0 /\ since' = now
<1>1. PICK clean \in BOOLEAN, keep \in BOOLEAN :
        /\ SpansRestart(clean, keep)
        /\ \E c \in IF clean THEN Settled(Classifier, Tracked) ELSE {Classifier} :
             labels' = c.labels /\ cache' = c.cache
        /\ pending' = {} /\ opened' = 0 /\ asked' = {} /\ last' = 0 /\ alerted' = FALSE
  BY DEF Restart
<1>2. PICK c \in IF clean THEN Settled(Classifier, Tracked) ELSE {Classifier} :
        labels' = c.labels /\ cache' = c.cache
  BY <1>1
<1>3. LadderOK(Classifier, Tracked) /\ TrackerOK(Tracked)
  BY DEF IInv, TypeOK
<1>4. LadderOK(c, Tracked) /\ Stands(Classifier, c, Tracked)
  <2>1. CASE clean
    <3>1. \A a \in Answers(Classifier.pending) :
            LET u == Flushed(Classifier, Tracked, a)
            IN LadderOK(u, Tracked) /\ Stands(Classifier, u, Tracked) /\ u.pending = {}
      BY <1>3, FlushedOK
    <3>. QED  BY <2>1, <3>1 DEF Settled
  <2>2. CASE ~ clean
    <3>1. c = Classifier
      BY <2>2
    <3>2. Stands(Classifier, Classifier, Tracked)
      BY DEF Stands
    <3>. QED  BY <1>3, <3>1, <3>2
  <2>. QED  BY <2>1, <2>2
<1>5. /\ rows' = (IF clean THEN Closed(Tracked, now) ELSE Tracked).rows
      /\ span' = NoSpan /\ now' = now /\ event' = event
      /\ \/ session' = session /\ since' = since
         \/ session' = 0 /\ since' = now
  BY <1>1 DEF SpansRestart
<1>. QED  BY <1>1, <1>2, <1>4, <1>5

(* A restart keeps the invariant.                                             *)
LEMMA RestartInv ==
  ASSUME IInv, Restart
  PROVE  IInv' /\ (Native => Native')
<1>1. PICK clean \in BOOLEAN : \E c :
        /\ LadderOK(c, Tracked) /\ Stands(Classifier, c, Tracked)
        /\ labels' = c.labels /\ cache' = c.cache
        /\ pending' = {} /\ opened' = 0 /\ asked' = {} /\ last' = 0 /\ alerted' = FALSE
        /\ rows' = (IF clean THEN Closed(Tracked, now) ELSE Tracked).rows
        /\ span' = NoSpan /\ now' = now /\ event' = event
        /\ \/ session' = session /\ since' = since
           \/ session' = 0 /\ since' = now
  BY RestartIs
<1>2. PICK c :
        /\ LadderOK(c, Tracked)
        /\ labels' = c.labels /\ cache' = c.cache
        /\ pending' = {} /\ opened' = 0 /\ asked' = {} /\ last' = 0 /\ alerted' = FALSE
        /\ rows' = (IF clean THEN Closed(Tracked, now) ELSE Tracked).rows
        /\ span' = NoSpan /\ now' = now /\ event' = event
        /\ \/ session' = session /\ since' = since
           \/ session' = 0 /\ since' = now
  BY <1>1
<1>3. /\ now \in Nat /\ since \in 0..now /\ event \in Events /\ TrackerOK(Tracked)
      /\ session \in SessionIds
  BY DEF IInv, TypeOK, TrackerOK, Tracker, Tracked
<1>. DEFINE u == IF clean THEN Closed(Tracked, now) ELSE Tracked
<1>4. /\ TrackerOK(u) /\ Len(u.rows) = Len(rows)
      /\ \A r \in 1..Len(rows) : u.rows[r].session = rows[r].session
  <2>1. CASE clean
    <3>1. TrackerOK(u) /\ Follows(Tracked, u)
      BY <1>3, <2>1, ClosedFollows
    <3>2. Len(u.rows) = Len(Tracked.rows)
      <4>1. CASE IsOpen(Tracked)
        BY <1>3, <2>1, <4>1, ClosedIs
      <4>2. CASE ~ IsOpen(Tracked)
        BY <2>1, <4>2 DEF Closed
      <4>. QED  BY <4>1, <4>2
    <3>3. Tracked.rows = rows
      BY DEF Tracked
    <3>. HIDE DEF u
    <3>. QED  BY <3>1, <3>2, <3>3 DEF Follows
  <2>2. CASE ~ clean
    BY <1>3, <2>2 DEF Tracked
  <2>. QED  BY <2>1, <2>2
<1>5. rows' = u.rows
  BY <1>2
<1>. HIDE DEF u
<1>6. PICK v : v = Tracked'
  OBVIOUS
<1>7. v.rows = u.rows /\ v.span = NoSpan /\ v.session = session' /\ v \in Tracker
  <2>1. session' \in SessionIds
    BY <1>2, <1>3, SpansAssumption DEF SessionIds
  <2>2. u.rows \in Seq(Row)
    BY <1>4 DEF TrackerOK, Tracker
  <2>3. v = [rows |-> u.rows, span |-> NoSpan, session |-> session']
    BY <1>2, <1>5, <1>6 DEF Tracked
  <2>. QED  BY <2>1, <2>2, <2>3 DEF Tracker, NoSpan
<1>8. TrackerOK(v)
  BY <1>7 DEF TrackerOK
<1>9. PICK d : d = Classifier'
  OBVIOUS
<1>10. /\ d.labels = c.labels /\ d.pending = {} /\ d.asked = {} /\ d.last = 0 /\ d \in Ladders
  <2>1. c.labels \in Seq(Seq(Label)) /\ c.cache \in Verdicts
    BY <1>2 DEF LadderOK, Ladders
  <2>2. d = [labels |-> c.labels, cache |-> c.cache, pending |-> {}, opened |-> 0,
             asked |-> {}, last |-> 0]
    BY <1>2, <1>9 DEF Classifier
  <2>. QED  BY <2>1, <2>2 DEF Ladders
<1>11. LadderOK(d, v)
  <2>1. /\ Len(v.rows) = Len(Tracked.rows)
        /\ \A r \in 1..Len(Tracked.rows) : v.rows[r].session = Tracked.rows[r].session
    BY <1>4, <1>7 DEF Tracked
  <2>. QED  BY <1>2, <1>3, <1>8, <1>10, <2>1, ForgottenOK
<1>12. IInv'
  <2>1. TrackerOK(Tracked') /\ LadderOK(Classifier', Tracked')
    BY <1>6, <1>8, <1>9, <1>11
  <2>2. now' \in Nat /\ since' \in 0..now' /\ event' \in Events
    BY <1>2, <1>3
  <2>3. alerted' \in BOOLEAN
    BY <1>2
  <2>. QED  BY <2>1, <2>2, <2>3 DEF IInv, TypeOK
<1>13. ASSUME Native
       PROVE  Native'
  <2>1. Sound(Tracked, now) /\ Recent(Tracked, now) /\ Parted(Tracked, since) /\ since \in Nat
    BY <1>3, <1>13 DEF Native
  <2>2. /\ Sound(v, now) /\ Recent(v, now) /\ Parted(v, now)
        /\ v.session = Tracked.session => Parted(v, since)
    BY <1>3, <1>7, <2>1, StoppedSound DEF u
  <2>3. v.session = session' /\ Tracked.session = session
    BY <1>7 DEF Tracked
  <2>4. Parted(v, since')
    BY <1>2, <2>2, <2>3
  <2>. QED  BY <1>2, <1>6, <2>2, <2>4 DEF Native
<1>. QED  BY <1>12, <1>13

(* A label by the user: an answer, a correction, or the hourly one.           *)
Saying ==
  \E r \in DOMAIN rows, on \in BOOLEAN :
    Answer(r, on) \/ SelfLabel(r, on) \/ (\E w \in Windows : Relabel(r, w, on))

(* It is added to one event, and the others keep theirs.                      *)
LEMMA SayingIs ==
  ASSUME IInv, Saying
  PROVE  /\ LadderOK(Classifier', Tracked) /\ UNCHANGED <<spanVars, memory>>
         /\ \E r \in 1..Len(rows) :
              /\ \A q \in 1..Len(rows) : q # r => labels'[q] = labels[q]
              /\ labels'[r][Len(labels'[r])].source = "user"
<1>1. /\ LadderOK(Classifier, Tracked) /\ TrackerOK(Tracked)
      /\ rows \in Seq(Row) /\ cache \in Verdicts
  BY DEF IInv, TypeOK, TrackerOK, Tracker, Tracked, LadderOK, Ladders, Classifier
<1>2. PICK r \in DOMAIN rows, on \in BOOLEAN :
        Answer(r, on) \/ SelfLabel(r, on) \/ (\E w \in Windows : Relabel(r, w, on))
  BY DEF Saying
<1>3. r \in 1..Len(rows) /\ rows[r] \in Row
  BY <1>1, LenProperties, ElementOfSeq
<1>4. labels' = Labelled(r, on) /\ UNCHANGED <<spanVars, memory>>
  BY <1>2 DEF Answer, SelfLabel, Relabel, Recorded
<1>5. cache' \in Verdicts
  <2>1. ASSUME NEW w \in Windows, Recorded(r, w, on)
        PROVE  cache' \in Verdicts
    <3>1. rows[r].session \in SessionIds
      BY <1>3 DEF Row
    <3>2. CASE rows[r].session = 0
      BY <1>1, <2>1, <3>2 DEF Recorded
    <3>3. CASE rows[r].session # 0
      <4>1. cache' = [cache EXCEPT ![rows[r].session][w] = IF on THEN "on" ELSE "off"]
        BY <2>1, <3>3 DEF Recorded
      <4>2. cache[rows[r].session] \in [Windows -> {"none", "on", "off"}]
        BY <1>1, <3>1 DEF Verdicts
      <4>3. [cache[rows[r].session] EXCEPT ![w] = IF on THEN "on" ELSE "off"]
              \in [Windows -> {"none", "on", "off"}]
        BY <4>2
      <4>. QED  BY <1>1, <3>1, <4>1, <4>3 DEF Verdicts
    <3>. QED  BY <3>2, <3>3
  <2>2. CASE Answer(r, on)
    <3>1. rows[r].key \in Windows
      BY <1>3, <2>2 DEF Answer, Row, Keys
    <3>. QED  BY <2>1, <2>2, <3>1 DEF Answer
  <2>3. CASE SelfLabel(r, on)
    BY <1>1, <2>3 DEF SelfLabel
  <2>4. CASE \E w \in Windows : Relabel(r, w, on)
    BY <2>1, <2>4 DEF Relabel
  <2>. QED  BY <1>2, <2>2, <2>3, <2>4
<1>6. PICK u : u = Classifier'
  OBVIOUS
<1>7. PICK verdicts \in Verdicts : verdicts = cache'
  BY <1>5
<1>. PICK label \in Label : label = [source |-> "user", on |-> on]
  BY DEF Label
<1>. DEFINE new == [labels EXCEPT ![r] = Append(labels[r], label)]
<1>8. u = [labels |-> new, cache |-> verdicts, pending |-> pending, opened |-> opened,
           asked |-> asked, last |-> last]
  <2>1. pending' = pending /\ opened' = opened /\ asked' = asked /\ last' = last
    BY <1>4 DEF memory
  <2>2. labels' = new
    BY <1>4 DEF Labelled
  <2>. HIDE DEF new
  <2>. QED  BY <1>6, <1>7, <2>1, <2>2 DEF Classifier
<1>9. /\ LadderOK(u, Tracked)
      /\ \A q \in 1..Len(Tracked.rows) : q # r => u.labels[q] = Classifier.labels[q]
      /\ u.labels[r][Len(u.labels[r])].source = "user"
  <2>1. PICK c, t : c = Classifier /\ t = Tracked
    OBVIOUS
  <2>2. /\ c.labels = labels /\ c.pending = pending /\ c.opened = opened /\ c.asked = asked
        /\ c.last = last /\ t.rows = rows
    BY <2>1 DEF Classifier, Tracked
  <2>3. u = Said(c, r, label, verdicts)
    BY <1>8, <2>2 DEF Said
  <2>4. LadderOK(c, t) /\ TrackerOK(t) /\ r \in 1..Len(t.rows) /\ label.source = "user"
    BY <1>1, <1>3, <2>1, <2>2
  <2>. HIDE DEF new
  <2>5. /\ LadderOK(u, t)
        /\ \A q \in 1..Len(t.rows) : q # r => u.labels[q] = c.labels[q]
        /\ u.labels[r][Len(u.labels[r])].source = "user"
    BY <2>3, <2>4, SaidOK
  <2>. QED  BY <2>1, <2>5
<1>10. u.labels = labels'
  BY <1>6 DEF Classifier
<1>11. Tracked.rows = rows /\ Classifier.labels = labels
  BY DEF Tracked, Classifier
<1>. QED  BY <1>3, <1>4, <1>6, <1>9, <1>10, <1>11

(* A label by the user keeps the invariant.                                   *)
LEMMA SayingInv ==
  ASSUME IInv, Saying
  PROVE  IInv' /\ (Native => Native')
<1>1. LadderOK(Classifier', Tracked) /\ UNCHANGED <<spanVars, memory>>
  BY SayingIs
<1>2. /\ now' = now /\ since' = since /\ event' = event /\ alerted' = alerted
      /\ rows' = rows /\ span' = span /\ session' = session
  BY <1>1 DEF spanVars, memory
<1>3. Tracked' = Tracked
  BY <1>2 DEF Tracked
<1>4. LadderOK(Classifier', Tracked')
  BY <1>1, <1>3
<1>5. TypeOK'
  <2>1. TrackerOK(Tracked')
    BY <1>3 DEF IInv, TypeOK
  <2>. QED  BY <1>2, <2>1 DEF IInv, TypeOK
<1>6. ASSUME Native
      PROVE  Native'
  BY <1>2, <1>3, <1>6 DEF Native
<1>. QED  BY <1>4, <1>5, <1>6 DEF IInv

(* A stuttering step keeps it.                                                *)
LEMMA StutterInv ==
  ASSUME IInv, UNCHANGED vars
  PROVE  IInv' /\ (Native => Native')
<1>1. /\ now' = now /\ since' = since /\ event' = event /\ alerted' = alerted
      /\ rows' = rows /\ span' = span /\ session' = session
      /\ labels' = labels /\ cache' = cache /\ pending' = pending /\ opened' = opened
      /\ asked' = asked /\ last' = last
  BY DEF vars, spanVars, table, memory
<1>2. Tracked' = Tracked
  BY <1>1 DEF Tracked
<1>3. Classifier' = Classifier
  BY <1>1 DEF Classifier
<1>4. TypeOK' /\ LadderOK(Classifier', Tracked')
  <2>1. TrackerOK(Tracked') /\ LadderOK(Classifier', Tracked')
    BY <1>2, <1>3 DEF IInv, TypeOK
  <2>. QED  BY <1>1, <2>1 DEF IInv, TypeOK
<1>5. ASSUME Native
      PROVE  Native'
  BY <1>1, <1>2, <1>5 DEF Native
<1>. QED  BY <1>4, <1>5 DEF IInv

(* A step is a tick, a label by the user, or a restart.                       *)
LEMMA NextIs == Next <=> Tick \/ Saying \/ Restart
BY DEF Next, Running, Saying

(* Every step keeps the invariant.                                            *)
LEMMA StepInv ==
  ASSUME IInv, [Next]_vars
  PROVE  IInv' /\ (Watcher = "native" /\ Native => Native')
<1>1. CASE Tick
  BY <1>1, TickInv
<1>2. CASE Saying
  BY <1>2, SayingInv
<1>3. CASE Restart
  BY <1>3, RestartInv
<1>4. CASE UNCHANGED vars
  BY <1>4, StutterInv
<1>. QED  BY <1>1, <1>2, <1>3, <1>4, NextIs

(* Initially, the native watcher.                                             *)
LEMMA InitNative ==
  ASSUME Init, Watcher = "native"
  PROVE  Native
<1>1. now = 0 /\ since = 0 /\ session \in SessionIds
  BY DEF Init, SpansInit
<1>2. PICK none : none = [rows |-> <<>>, span |-> NoSpan, session |-> session]
  OBVIOUS
<1>3. PICK snap \in Snapshots(event, 0) \ {Nothing} :
        rows = Opened(none, snap.key, snap.at).rows /\ span = Opened(none, snap.key, snap.at).span
  BY <1>2 DEF Init, SpansInit
<1>4. snap.key \in Keys /\ snap.at = 0
  BY <1>3 DEF Snapshots, Sampled
<1>5. TrackerOK(none) /\ none.span = NoSpan /\ Len(none.rows) = 0 /\ none.session = session
  BY <1>1, <1>2 DEF TrackerOK, Tracker, NoSpan
<1>6. Sound(none, 0) /\ Parted(none, 0)
  BY <1>5 DEF Sound, Ordered, Parted
<1>. DEFINE t == Opened(none, snap.key, 0)
<1>7. Sound(t, 0) /\ Recent(t, 0) /\ Parted(t, 0)
  BY <1>4, <1>5, <1>6, OpenedSound
<1>8. TrackerOK(t) /\ t.session = session
  BY <1>1, <1>2, <1>4, FirstIs
<1>. HIDE DEF t
<1>9. Tracked = t
  BY <1>3, <1>4, <1>8, TrackedIs DEF Tracked, t
<1>. QED  BY <1>1, <1>7, <1>9 DEF Native

(* The inductive invariant holds in every state, whichever the watcher.       *)
THEOREM Inductive == Spec => []IInv
<1>1. Init => IInv
  BY InitInv
<1>2. IInv /\ [Next]_vars => IInv'
  BY StepInv
<1>. QED  BY <1>1, <1>2, PTL DEF Spec

(* With the native watcher, so does what it adds.                             *)
THEOREM InductiveNative ==
  ASSUME Watcher = "native"
  PROVE  Spec => [](IInv /\ Native)
<1>1. Init => IInv /\ Native
  BY InitInv, InitNative
<1>2. (IInv /\ Native) /\ [Next]_vars => (IInv /\ Native)'
  BY StepInv
<1>. QED  BY <1>1, <1>2, PTL DEF Spec

-----------------------------------------------------------------------------
(* What follows. *)

(* A span the classifier is through with, of a session, long enough and of a  *)
(* present user, is labelled, waits, or the user was asked of it, whatever    *)
(* refusals, restarts and ends of sessions came between (_classify_new_events, *)
(* flush, needs_asking).                                                      *)
THEOREM NoSpanPassedOver == Spec => []NothingUnjudged
<1>1. ASSUME IInv
      PROVE  NothingUnjudged
  <2>1. /\ LadderOK(Classifier, Tracked) /\ Len(rows) \in Nat /\ last \in Nat
        /\ last <= Len(rows)
    BY <1>1 DEF IInv, TypeOK, LadderOK, Ladders, Classifier, Tracked, TrackerOK, Tracker
  <2>2. ASSUME NEW r \in 1..last
        PROVE  rows[r].session # 0 /\ rows[r].key # Away /\ Minutes(Tracked, r) >= MinDuration
                 => labels[r] # <<>> \/ r \in pending \cup asked
    <3>1. r \in 1..Len(rows) /\ r <= last
      BY <2>1
    <3>2. EventOK(Classifier, Tracked, r)
      BY <2>1, <3>1 DEF LadderOK, Tracked
    <3>. QED  BY <3>1, <3>2 DEF EventOK, Classifier, Tracked
  <2>. QED  BY <2>2 DEF NothingUnjudged
<1>. QED  BY <1>1, Inductive, PTL

(* Izy itself labels a span of a session at most once, although every restart *)
(* takes it through the whole table again (consider's check for a label,      *)
(* flush's emptied queue).                                                    *)
THEOREM JudgedByIzyOnce == Spec => []JudgedOnce
<1>1. ASSUME IInv
      PROVE  JudgedOnce
  <2>1. LadderOK(Classifier, Tracked) /\ rows \in Seq(Row)
    BY <1>1 DEF IInv, TypeOK, TrackerOK, Tracker, Tracked
  <2>2. ASSUME NEW r \in DOMAIN rows, rows[r].session # 0
        PROVE  \A i, j \in {k \in DOMAIN labels[r] : labels[r][k].source # "user"} : i = j
    <3>1. r \in 1..Len(rows)
      BY <2>1, LenProperties
    <3>2. EventOK(Classifier, Tracked, r)
      BY <2>1, <3>1 DEF LadderOK, Tracked
    <3>. QED  BY <2>2, <3>2 DEF EventOK, Machine, Classifier, Tracked
  <2>. QED  BY <2>2 DEF JudgedOnce
<1>. QED  BY <1>1, Inductive, PTL

(* The tracker's sessions part its spans, which do not overlap: "time spent on *)
(* this intent" is exact (src/izy/tracker.py:60-61), with the watcher that     *)
(* stamps a snapshot with the moment of the poll.                             *)
THEOREM TimeIsExact ==
  ASSUME Watcher = "native"
  PROVE  Spec => []SpansExact
<1>1. ASSUME IInv, Native
      PROVE  SpansExact
  <2>1. rows \in Seq(Row) /\ DOMAIN rows = 1..Len(rows)
    BY <1>1, LenProperties DEF IInv, TypeOK, TrackerOK, Tracker, Tracked
  <2>2. Ordered(Tracked) /\ Parted(Tracked, since)
    BY <1>1 DEF Native, Sound
  <2>3. \A r, q \in DOMAIN rows : r < q => rows[r].end <= rows[q].start
    BY <2>1, <2>2 DEF Ordered, Tracked
  <2>4. ASSUME NEW r \in DOMAIN rows
        PROVE  /\ rows[r].session # session => rows[r].end <= since
               /\ span.row = r => rows[r].session = session /\ rows[r].start >= since
    BY <2>1, <2>2 DEF Parted, Tracked
  <2>. QED  BY <2>3, <2>4 DEF SpansExact
<1>. QED  BY <1>1, InductiveNative, PTL

(* No row is credited with Stale, and the pause of a tick, beyond the last    *)
(* sighting of its window, whatever closed it (_handle_gap, set_session,      *)
(* stop).                                                                     *)
THEOREM TimeIsVouchedFor ==
  ASSUME Watcher = "native"
  PROVE  Spec => []Vouched
<1>1. ASSUME IInv, Native
      PROVE  Vouched
  <2>1. rows \in Seq(Row) /\ DOMAIN rows = 1..Len(rows)
    BY <1>1, LenProperties DEF IInv, TypeOK, TrackerOK, Tracker, Tracked
  <2>2. \A r \in 1..Len(rows) : RowSound(Tracked, r, now)
    BY <1>1 DEF Native, Sound, Tracked
  <2>. QED  BY <2>1, <2>2 DEF Vouched, RowSound, Tracked
<1>. QED  BY <1>1, InductiveNative, PTL

(* What the table holds of a row is less than a flush interval behind its     *)
(* last sighting: that is what a crash can lose (_flush, tests/test_tracker).  *)
(* Where every tick flushes (an interval of 0), nothing is ever less than 0.  *)
THEOREM CrashLosesAFlush ==
  ASSUME Watcher = "native", FlushEvery > 0
  PROVE  Spec => []CrashLoses
<1>1. ASSUME IInv, Native
      PROVE  CrashLoses
  <2>1. rows \in Seq(Row) /\ DOMAIN rows = 1..Len(rows)
    BY <1>1, LenProperties DEF IInv, TypeOK, TrackerOK, Tracker, Tracked
  <2>2. \A r \in 1..Len(rows) : RowSound(Tracked, r, now)
    BY <1>1 DEF Native, Sound, Tracked
  <2>. QED  BY <2>1, <2>2 DEF CrashLoses, RowSound, Tracked
<1>. QED  BY <1>1, InductiveNative, PTL

(* The user has the last word on an event of a session that does not wait: no *)
(* step writes a label after the user's but another of the user's (consider's *)
(* check for a label, _classify_new_events after a restart).                  *)
THEOREM UserHasTheLastWord == Spec => CorrectionStands
<1>. DEFINE Kept(r) ==
              LET said == labels[r]
              IN /\ said # <<>> /\ said[Len(said)].source = "user"
                 /\ rows[r].session # 0 /\ r \notin pending
                 => labels'[r] = said \/ labels'[r][Len(labels'[r])].source = "user"
<1>1. ASSUME IInv, [Next]_vars
      PROVE  \A r \in DOMAIN labels : Kept(r)
  <2>1. /\ LadderOK(Classifier, Tracked) /\ TrackerOK(Tracked)
        /\ Len(labels) = Len(rows) /\ DOMAIN labels = 1..Len(rows)
    <3>1. /\ LadderOK(Classifier, Tracked) /\ TrackerOK(Tracked)
          /\ labels \in Seq(Seq(Label)) /\ Len(labels) = Len(rows)
      BY <1>1 DEF IInv, TypeOK, LadderOK, Ladders, Classifier, Tracked
    <3>. QED  BY <3>1, LenProperties
  <2>2. CASE Tick
    <3>1. PICK t, c, time :
            /\ TrackerOK(t) /\ Follows(Tracked, t)
            /\ Stands(Grown(t), c, t) /\ LadderOK(c, t) /\ BecomesClassifier(c)
      BY <1>1, <2>2, TickIs
    <3>2. /\ Grown(t).pending = pending /\ LadderOK(Grown(t), t)
          /\ \A r \in 1..Len(labels) : r \in 1..Len(t.rows) /\ Grown(t).labels[r] = labels[r]
      BY <2>1, <3>1, GrownOK
    <3>3. ASSUME NEW r \in DOMAIN labels, labels[r] # <<>>, rows[r].session # 0, r \notin pending
          PROVE  labels'[r] = labels[r]
      <4>1. r \in 1..Len(Grown(t).labels) /\ Grown(t).labels[r] = labels[r]
        BY <2>1, <3>2, <3>3 DEF LadderOK
      <4>2. t.rows[r].session = rows[r].session
        BY <2>1, <3>1, <3>3 DEF Follows, Tracked
      <4>3. c.labels[r] = Grown(t).labels[r]
        BY <3>1, <3>2, <3>3, <4>1, <4>2 DEF Stands
      <4>4. labels' = c.labels
        BY <3>1 DEF BecomesClassifier
      <4>. QED  BY <4>1, <4>3, <4>4
    <3>. QED  BY <3>3
  <2>3. CASE Saying
    <3>1. PICK r \in 1..Len(rows) :
            /\ \A q \in 1..Len(rows) : q # r => labels'[q] = labels[q]
            /\ labels'[r][Len(labels'[r])].source = "user"
      BY <1>1, <2>3, SayingIs
    <3>. QED  BY <2>1, <3>1
  <2>4. CASE Restart
    <3>1. PICK c : Stands(Classifier, c, Tracked) /\ labels' = c.labels
      <4>1. PICK clean \in BOOLEAN : \E c :
              Stands(Classifier, c, Tracked) /\ labels' = c.labels
        BY <1>1, <2>4, RestartIs
      <4>. QED  BY <4>1
    <3>. QED  BY <2>1, <3>1 DEF Stands, Classifier, Tracked
  <2>5. CASE UNCHANGED vars
    BY <2>5 DEF vars, table
  <2>. QED  BY <1>1, <2>2, <2>3, <2>4, <2>5, NextIs
<1>2. IInv /\ [Next]_vars => [\A r \in DOMAIN labels : Kept(r)]_vars
  BY <1>1
<1>. QED  BY <1>2, Inductive, PTL DEF Spec, CorrectionStands

(* No judgement off task, no minutes.                                         *)
LEMMA NoMinutes ==
  ASSUME NEW c, NEW t, OffRun(c, t) = {}
  PROVE  OffMinutes(c, t) = 0
BY DEF OffMinutes, MapThenSumSet, MapThenFoldSet

(* An alert follows an event judged off task that came after the session's    *)
(* last away event.                                                           *)
LEMMA AlertIs ==
  ASSUME NEW c, NEW t, TrackerOK(t), LadderOK(c, t), OffMinutes(c, t) > 0
  PROVE  \E r \in DOMAIN t.rows :
           /\ \E i \in DOMAIN c.labels[r] : ~ c.labels[r][i].on
           /\ \A q \in DOMAIN t.rows :
                t.rows[q].session = t.session /\ t.rows[q].key = Away => q < r
<1>1. DOMAIN t.rows = 1..Len(t.rows) /\ Len(t.rows) \in Nat
  BY LenProperties DEF TrackerOK, Tracker
<1>2. PICK j \in OffRun(c, t) : TRUE
  <2>1. ~ (0 > 0)
    OBVIOUS
  <2>. QED  BY <2>1, NoMinutes
<1>3. /\ j \in Judgements(c, t) /\ OffTask(c, j)
      /\ \A k \in Judgements(c, t) : Before(k, j) => OffTask(c, k)
  BY <1>2 DEF OffRun
<1>4. PICK r \in DOMAIN t.rows :
        j \in {r} \X (IF t.rows[r].key = Away THEN {0} ELSE DOMAIN c.labels[r])
  BY <1>3 DEF Judgements
<1>5. /\ j[1] = r /\ j[2] # 0 /\ t.rows[r].key # Away /\ j[2] \in DOMAIN c.labels[r]
      /\ ~ c.labels[r][j[2]].on
  BY <1>3, <1>4 DEF OffTask
<1>6. ASSUME NEW q \in DOMAIN t.rows, t.rows[q].session = t.session, t.rows[q].key = Away
      PROVE  q < r
  <2>1. <<q, 0>> \in Judgements(c, t)
    BY <1>6 DEF Judgements
  <2>2. ~ OffTask(c, <<q, 0>>)
    BY DEF OffTask
  <2>3. ~ (q > r)
    BY <1>3, <1>5, <2>1, <2>2 DEF Before
  <2>4. q # r
    BY <1>5, <1>6
  <2>. QED  BY <1>1, <2>3, <2>4
<1>. QED  BY <1>5, <1>6

(* Nobody comes back to an alert about drift that had already ended           *)
(* (DriftDetector.state counts the away events, src/izy/drift.py:53-56).      *)
THEOREM NoAlertAfterReturn == Spec => NoAlertOnReturn
<1>. DEFINE Deserved ==
              ~alerted /\ alerted' =>
                \E r \in DOMAIN rows' :
                  /\ \E i \in DOMAIN labels'[r] : ~labels'[r][i].on
                  /\ \A q \in DOMAIN rows' :
                       rows'[q].session = session' /\ rows'[q].key = Away => q < r
<1>1. ASSUME IInv, [Next]_vars
      PROVE  Deserved
  <2>1. CASE Tick
    <3>1. PICK t, c, time :
            /\ TrackerOK(t) /\ LadderOK(c, t)
            /\ \E e \in Events : SpansBecome(t, e, time)
            /\ BecomesClassifier(c) /\ alerted' = AlertedAfter(c, t)
      BY <1>1, <2>1, TickIs
    <3>2. rows' = t.rows /\ session' = t.session /\ labels' = c.labels
      BY <3>1 DEF SpansBecome, BecomesClassifier
    <3>3. ASSUME ~alerted, alerted'
          PROVE  OffMinutes(c, t) > 0
      BY <3>1, <3>3 DEF AlertedAfter
    <3>. QED  BY <3>1, <3>2, <3>3, AlertIs
  <2>2. CASE Saying
    BY <1>1, <2>2, SayingIs DEF memory
  <2>3. CASE Restart
    BY <2>3 DEF Restart
  <2>4. CASE UNCHANGED vars
    BY <2>4 DEF vars, memory
  <2>. QED  BY <1>1, <2>1, <2>2, <2>3, <2>4, NextIs
<1>2. IInv /\ [Next]_vars => [Deserved]_vars
  BY <1>1
<1>. QED  BY <1>2, Inductive, PTL DEF Spec, NoAlertOnReturn

-----------------------------------------------------------------------------
(* Day: what is read of a day.  Its readings are recursive functions, of       *)
(* which facts are proved from row to row.                                    *)

(* What holds of 0, and of each index with the one before it, holds of all:   *)
(* there is no first one it fails for.                                        *)
LEMMA UpTo ==
  ASSUME NEW n \in Nat, NEW S, 0 \in S, \A i \in 1..n : i - 1 \in S => i \in S
  PROVE  0..n \subseteq S
<1>. DEFINE T == (0..n) \ S
<1>. SUFFICES ASSUME T # {} PROVE FALSE
  OBVIOUS
<1>1. T \subseteq Nat
  OBVIOUS
<1>2. PICK x \in T : \A y \in T : <<y, x>> \notin OpToRel(<, Nat)
  <2>. HIDE DEF T
  <2>. QED  BY <1>1, NatLessThanWellFounded, WFMin
<1>3. \A y \in T : ~ (y < x)
  BY <1>1, <1>2 DEF OpToRel
<1>4. x \in 1..n
  <2>1. x \in 0..n /\ x # 0
    BY <1>2
  <2>. QED  BY <2>1
<1>5. x - 1 \in S
  BY <1>3, <1>4
<1>. QED  BY <1>2, <1>4, <1>5

(* A recursion along the indices has a result.                                *)
Recursion(f, n, base, step) ==
  f[0] = base /\ \A i \in 1..n : f[i] = step[<<i, f[i - 1]>>]

LEMMA RecursionIs ==
  ASSUME NEW n \in Nat, NEW A, NEW base \in A, NEW step \in [(1..n) \X A -> A]
  PROVE  \E f \in [0..n -> A] : Recursion(f, n, base, step)
<1>. DEFINE Upto(m, f) == f[0] = base /\ \A i \in 1..m : f[i] = step[<<i, f[i - 1]>>]
            S == {m \in 0..n : \E f \in [0..m -> A] : Upto(m, f)}
<1>1. 0 \in S
  <2>. DEFINE f == [i \in 0..0 |-> base]
  <2>1. f \in [0..0 -> A] /\ f[0] = base
    OBVIOUS
  <2>2. Upto(0, f)
    BY <2>1
  <2>. HIDE DEF f, Upto
  <2>3. \E h \in [0..0 -> A] : Upto(0, h)
    BY <2>1, <2>2
  <2>. QED  BY <2>3
<1>2. ASSUME NEW m \in 1..n, m - 1 \in S PROVE m \in S
  <2>1. PICK f \in [0..(m - 1) -> A] : Upto(m - 1, f)
    BY <1>2
  <2>. DEFINE next == step[<<m, f[m - 1]>>]
              g == [i \in 0..m |-> IF i = m THEN next ELSE f[i]]
  <2>2. next \in A
    OBVIOUS
  <2>3. g \in [0..m -> A]
    BY <2>2
  <2>4. g[0] = base
    BY <2>1
  <2>5. ASSUME NEW i \in 1..m PROVE g[i] = step[<<i, g[i - 1]>>]
    <3>1. g[i - 1] = f[i - 1]
      OBVIOUS
    <3>2. CASE i = m
      <4>1. g[m] = next
        OBVIOUS
      <4>. QED  BY <3>1, <3>2, <4>1
    <3>3. CASE i # m
      <4>1. i \in 1..(m - 1) /\ g[i] = f[i]
        BY <3>3
      <4>. QED  BY <2>1, <3>1, <4>1
    <3>. QED  BY <3>2, <3>3
  <2>6. Upto(m, g)
    BY <2>4, <2>5
  <2>7. \E h \in [0..m -> A] : Upto(m, h)
    BY <2>3, <2>6
  <2>. QED  BY <2>7
<1>3. 0..n \subseteq S
  <2>. HIDE DEF S
  <2>. QED  BY <1>1, <1>2, UpTo
<1>. QED  BY <1>3 DEF Recursion

(* The sums of CreditOf and the readings of Report, by row.                   *)
SumOf(S) ==
  CHOOSE sum : sum = [r \in 0..Len(rows) |->
    IF r = 0 THEN 0 ELSE sum[r - 1] + (IF r \in S THEN Credit(r) ELSE 0)]
ReadOf(d) ==
  CHOOSE read : read = [r \in 0..Len(rows) |->
    IF r = 0 THEN Blank ELSE IF Within(d, r) THEN Read(read[r - 1], r) ELSE read[r - 1]]

Kinds == {"on", "off", "afk", "unjudged"}
Reading ==
  [totals : [Kinds -> Int], previous : {"none", "on", "off"},
   culprit : Windows \cup {Nothing}, drift : [Windows -> [times : Int, lost : Int]]]

LEMMA CreditIs ==
  ASSUME rows \in Seq(Row), NEW r \in 1..Len(rows)
  PROVE  rows[r] \in Row /\ Credit(r) \in Int
<1>1. rows[r] \in Row
  BY ElementOfSeq
<1>. QED  BY <1>1 DEF Credit, Minutes, Tracked, Row

LEMMA SumIs ==
  ASSUME rows \in Seq(Row), NEW S
  PROVE  /\ CreditOf(S) = SumOf(S)[Len(rows)]
         /\ SumOf(S) \in [0..Len(rows) -> Int]
         /\ SumOf(S)[0] = 0
         /\ \A r \in 1..Len(rows) :
              SumOf(S)[r] = SumOf(S)[r - 1] + (IF r \in S THEN Credit(r) ELSE 0)
<1>. DEFINE n == Len(rows)
            gain(r) == IF r \in S THEN Credit(r) ELSE 0
            A == Int
            step == [p \in (1..n) \X A |-> p[2] + gain(p[1])]
            sum == SumOf(S)
<1>1. n \in Nat
  OBVIOUS
<1>2. \A r \in 1..n : gain(r) \in Int
  BY CreditIs
<1>. HIDE DEF n, gain
<1>3. step \in [(1..n) \X A -> A] /\ 0 \in A
  BY <1>2
<1>. HIDE DEF A, step
<1>4. PICK f \in [0..n -> A] : Recursion(f, n, 0, step)
  BY <1>1, <1>3, RecursionIs
<1>5. \A r \in 1..n : f[r] = f[r - 1] + gain(r)
  <2>1. ASSUME NEW r \in 1..n PROVE f[r] = f[r - 1] + gain(r)
    <3>1. f[r - 1] \in Int
      BY <1>1, <1>4 DEF A
    <3>. QED  BY <1>4, <3>1 DEF A, step, Recursion
  <2>. QED  BY <2>1
<1>6. f = [r \in 0..n |-> IF r = 0 THEN 0 ELSE f[r - 1] + gain(r)]
  BY <1>1, <1>4, <1>5 DEF Recursion
<1>7. sum = [r \in 0..n |-> IF r = 0 THEN 0 ELSE sum[r - 1] + gain(r)]
  BY <1>6 DEF SumOf, n, gain
<1>8. CreditOf(S) = sum[n]
  BY DEF CreditOf, SumOf, n
<1>. HIDE DEF sum
<1>9. sum \in [0..n -> Int]
  <2>. DEFINE T == {r \in 0..n : sum[r] \in Int}
  <2>1. 0 \in T
    BY <1>1, <1>7
  <2>2. ASSUME NEW r \in 1..n, r - 1 \in T PROVE r \in T
    <3>1. r \in 0..n /\ r # 0 /\ sum[r - 1] \in Int /\ gain(r) \in Int
      BY <1>1, <1>2, <2>2
    <3>2. sum[r] = sum[r - 1] + gain(r)
      BY <1>7, <3>1
    <3>. QED  BY <3>1, <3>2
  <2>3. 0..n \subseteq T
    <3>. HIDE DEF T
    <3>. QED  BY <1>1, <2>1, <2>2, UpTo
  <2>4. \A r \in 0..n : sum[r] \in Int
    BY <2>3
  <2>. QED  BY <1>7, <2>4
<1>10. sum[0] = 0
  BY <1>1, <1>7
<1>11. \A r \in 1..n : sum[r] = sum[r - 1] + gain(r)
  BY <1>1, <1>7
<1>. QED  BY <1>8, <1>9, <1>10, <1>11 DEF n, gain, sum

LEMMA KindIs ==
  ASSUME rows \in Seq(Row), NEW r \in 1..Len(rows)
  PROVE  /\ KindOf(r) \in Kinds
         /\ KindOf(r) = "afk" <=> rows[r].key = Away
         /\ KindOf(r) # "afk" => rows[r].key \in Windows
<1>1. rows[r].key \in Windows \cup {Away}
  BY CreditIs DEF Row, Keys
<1>. QED  BY <1>1 DEF KindOf, Verdict, Kinds

LEMMA ReadTyped ==
  ASSUME rows \in Seq(Row), NEW acc \in Reading, NEW r \in 1..Len(rows)
  PROVE  Read(acc, r) \in Reading
<1>. DEFINE kind == KindOf(r)
            to == Culprit(acc, kind, rows[r].key)
            gain == Credit(r)
<1>1. gain \in Int /\ kind \in Kinds /\ (kind # "afk" => rows[r].key \in Windows)
  BY CreditIs, KindIs
<1>2. /\ acc.totals \in [Kinds -> Int] /\ acc.previous \in {"none", "on", "off"}
      /\ acc.culprit \in Windows \cup {Nothing}
      /\ acc.drift \in [Windows -> [times : Int, lost : Int]]
  BY DEF Reading
<1>. HIDE DEF kind, gain
<1>3. to \in Windows \cup {Nothing}
  BY <1>1, <1>2 DEF Culprit
<1>4. Previous(acc, kind) \in {"none", "on", "off"}
  BY <1>1, <1>2 DEF Previous, Kinds
<1>5. [acc.totals EXCEPT ![kind] = @ + gain] \in [Kinds -> Int]
  BY <1>1, <1>2
<1>. HIDE DEF to
<1>. DEFINE drift == [w \in Windows |->
              IF kind # "off" \/ w # to THEN acc.drift[w]
              ELSE [times |-> acc.drift[w].times + (IF acc.previous = "on" THEN 1 ELSE 0),
                    lost |-> acc.drift[w].lost + gain]]
<1>6. drift \in [Windows -> [times : Int, lost : Int]]
  <2>1. ASSUME NEW w \in Windows
        PROVE  drift[w] \in [times : Int, lost : Int]
    <3>1. acc.drift[w] \in [times : Int, lost : Int]
      BY <1>2
    <3>2. acc.drift[w].times \in Int /\ acc.drift[w].lost \in Int
      BY <3>1
    <3>3. acc.drift[w].times + (IF acc.previous = "on" THEN 1 ELSE 0) \in Int
          /\ acc.drift[w].lost + gain \in Int
      BY <1>1, <3>2
    <3>. QED  BY <3>1, <3>3
  <2>. HIDE DEF drift
  <2>2. drift = [w \in Windows |-> drift[w]]
    BY DEF drift
  <2>. QED  BY <2>1, <2>2
<1>7. Read(acc, r) = [totals |-> [acc.totals EXCEPT ![kind] = @ + gain],
                      previous |-> Previous(acc, kind), culprit |-> to, drift |-> drift]
  BY DEF Read, kind, to, gain
<1>. HIDE DEF drift
<1>. QED  BY <1>3, <1>4, <1>5, <1>6, <1>7 DEF Reading

LEMMA BlankTyped == Blank \in Reading
BY DEF Blank, Reading, Kinds

LEMMA ReadIs ==
  ASSUME rows \in Seq(Row), NEW d
  PROVE  /\ Report(d) = ReadOf(d)[Len(rows)]
         /\ ReadOf(d) \in [0..Len(rows) -> Reading]
         /\ ReadOf(d)[0] = Blank
         /\ \A r \in 1..Len(rows) :
              ReadOf(d)[r] = IF Within(d, r) THEN Read(ReadOf(d)[r - 1], r)
                             ELSE ReadOf(d)[r - 1]
<1>. DEFINE n == Len(rows)
            next(acc, r) == IF Within(d, r) THEN Read(acc, r) ELSE acc
            step == [p \in (1..n) \X Reading |-> next(p[2], p[1])]
            read == ReadOf(d)
<1>1. n \in Nat
  OBVIOUS
<1>2. \A r \in 1..n, acc \in Reading : next(acc, r) \in Reading
  BY ReadTyped
<1>3. Blank \in Reading
  BY BlankTyped
<1>. HIDE DEF n, next
<1>4. step \in [(1..n) \X Reading -> Reading]
  BY <1>2
<1>. HIDE DEF step
<1>5. PICK f \in [0..n -> Reading] : Recursion(f, n, Blank, step)
  BY <1>1, <1>3, <1>4, RecursionIs
<1>6. \A r \in 1..n : f[r] = next(f[r - 1], r)
  <2>1. ASSUME NEW r \in 1..n PROVE f[r] = next(f[r - 1], r)
    <3>1. f[r - 1] \in Reading
      BY <1>1, <1>5
    <3>. QED  BY <1>5, <3>1 DEF step, Recursion
  <2>. QED  BY <2>1
<1>7. f = [r \in 0..n |-> IF r = 0 THEN Blank ELSE next(f[r - 1], r)]
  BY <1>1, <1>5, <1>6 DEF Recursion
<1>8. read = [r \in 0..n |-> IF r = 0 THEN Blank ELSE next(read[r - 1], r)]
  BY <1>7 DEF ReadOf, n, next
<1>9. Report(d) = read[n]
  BY DEF Report, ReadOf, n
<1>. HIDE DEF read
<1>10. \A r \in 1..n : read[r] = next(read[r - 1], r)
  BY <1>1, <1>8
<1>11. read[0] = Blank
  BY <1>1, <1>8
<1>12. read \in [0..n -> Reading]
  <2>. DEFINE T == {r \in 0..n : read[r] \in Reading}
  <2>1. 0 \in T
    BY <1>1, <1>3, <1>11
  <2>2. ASSUME NEW r \in 1..n, r - 1 \in T PROVE r \in T
    <3>1. r \in 0..n /\ read[r - 1] \in Reading
      BY <1>1, <2>2
    <3>. QED  BY <1>2, <1>10, <3>1
  <2>3. 0..n \subseteq T
    <3>. HIDE DEF T
    <3>. QED  BY <1>1, <2>1, <2>2, UpTo
  <2>4. \A r \in 0..n : read[r] \in Reading
    BY <2>3
  <2>. QED  BY <1>8, <2>4
<1>. QED  BY <1>9, <1>10, <1>11, <1>12 DEF n, next, read

(* The events of the day, and those of one kind.                              *)
Today(d) == {r \in 1..Len(rows) : Within(d, r)}
OfKind(d, k) == {r \in Today(d) : KindOf(r) = k}

(* The retrospective's totals are the sums of what is credited to the kinds.  *)
LEMMA TotalsAre ==
  ASSUME rows \in Seq(Row), NEW d, NEW k \in Kinds
  PROVE  Report(d).totals[k] = CreditOf(OfKind(d, k))
<1>. DEFINE n == Len(rows)
            read == ReadOf(d)
            sum == SumOf(OfKind(d, k))
            T == {r \in 0..n : read[r].totals[k] = sum[r]}
<1>1. n \in Nat
  OBVIOUS
<1>2. /\ Report(d) = read[n] /\ read[0] = Blank
      /\ \A r \in 1..n :
           read[r] = IF Within(d, r) THEN Read(read[r - 1], r) ELSE read[r - 1]
      /\ read \in [0..n -> Reading]
  BY ReadIs
<1>3. /\ CreditOf(OfKind(d, k)) = sum[n] /\ sum[0] = 0
      /\ \A r \in 1..n :
           sum[r] = sum[r - 1] + (IF r \in OfKind(d, k) THEN Credit(r) ELSE 0)
      /\ sum \in [0..n -> Int]
  BY SumIs
<1>. HIDE DEF read, sum
<1>4. 0 \in T
  BY <1>1, <1>2, <1>3 DEF Blank, Kinds
<1>5. ASSUME NEW r \in 1..n, r - 1 \in T PROVE r \in T
  <2>1. /\ r \in 0..n /\ read[r - 1].totals[k] = sum[r - 1] /\ sum[r - 1] \in Int
        /\ read[r - 1] \in Reading /\ Credit(r) \in Int /\ KindOf(r) \in Kinds
    <3>1. r \in 0..n /\ r - 1 \in 0..n /\ read[r - 1].totals[k] = sum[r - 1]
      BY <1>1, <1>5
    <3>2. Credit(r) \in Int /\ KindOf(r) \in Kinds
      BY CreditIs, KindIs
    <3>. QED  BY <1>2, <1>3, <3>1, <3>2
  <2>2. r \in OfKind(d, k) <=> Within(d, r) /\ KindOf(r) = k
    BY DEF OfKind, Today
  <2>3. CASE Within(d, r)
    <3>1. read[r].totals = [read[r - 1].totals EXCEPT ![KindOf(r)] = @ + Credit(r)]
      BY <1>2, <2>3 DEF Read
    <3>2. read[r - 1].totals \in [Kinds -> Int]
      BY <2>1 DEF Reading
    <3>3. read[r].totals[k] = read[r - 1].totals[k] + (IF KindOf(r) = k THEN Credit(r) ELSE 0)
      BY <2>1, <3>1, <3>2
    <3>. QED  BY <1>3, <2>1, <2>2, <2>3, <3>3
  <2>4. CASE ~Within(d, r)
    <3>1. read[r] = read[r - 1]
      BY <1>2, <2>4
    <3>2. sum[r] = sum[r - 1]
      BY <1>3, <2>1, <2>2, <2>4
    <3>. QED  BY <2>1, <3>1, <3>2
  <2>. QED  BY <2>3, <2>4
<1>6. 0..n \subseteq T
  <2>. HIDE DEF T
  <2>. QED  BY <1>1, <1>4, <1>5, UpTo
<1>. QED  BY <1>1, <1>2, <1>3, <1>6

LEMMA SumsOfFour ==
  ASSUME NEW x \in Int, NEW y \in Int, NEW u \in Int, NEW v \in Int,
         NEW a \in Int, NEW b \in Int, NEW c \in Int, NEW e \in Int
  PROVE  (x + a) + (y + b) + (u + c) + (v + e) = (x + y + u + v) + (a + b + c + e)
OBVIOUS

(* The kinds part the day.                                                    *)
LEMMA KindsPart ==
  ASSUME rows \in Seq(Row), NEW d
  PROVE  CreditOf(OfKind(d, "on")) + CreditOf(OfKind(d, "off")) + CreditOf(OfKind(d, "afk"))
           + CreditOf(OfKind(d, "unjudged")) = CreditOf(Today(d))
<1>. DEFINE n == Len(rows)
            on == SumOf(OfKind(d, "on"))
            off == SumOf(OfKind(d, "off"))
            afk == SumOf(OfKind(d, "afk"))
            open == SumOf(OfKind(d, "unjudged"))
            all == SumOf(Today(d))
            gain(S, r) == IF r \in S THEN Credit(r) ELSE 0
            T == {r \in 0..n : on[r] + off[r] + afk[r] + open[r] = all[r]}
<1>1. n \in Nat
  OBVIOUS
<1>2. /\ CreditOf(OfKind(d, "on")) = on[n] /\ CreditOf(OfKind(d, "off")) = off[n]
      /\ CreditOf(OfKind(d, "afk")) = afk[n] /\ CreditOf(OfKind(d, "unjudged")) = open[n]
      /\ CreditOf(Today(d)) = all[n]
  BY SumIs
<1>3. on[0] = 0 /\ off[0] = 0 /\ afk[0] = 0 /\ open[0] = 0 /\ all[0] = 0
  BY SumIs
<1>4. \A r \in 0..n :
        on[r] \in Int /\ off[r] \in Int /\ afk[r] \in Int /\ open[r] \in Int /\ all[r] \in Int
  BY SumIs
<1>5. \A r \in 1..n :
        /\ on[r] = on[r - 1] + gain(OfKind(d, "on"), r)
        /\ off[r] = off[r - 1] + gain(OfKind(d, "off"), r)
        /\ afk[r] = afk[r - 1] + gain(OfKind(d, "afk"), r)
        /\ open[r] = open[r - 1] + gain(OfKind(d, "unjudged"), r)
        /\ all[r] = all[r - 1] + gain(Today(d), r)
  BY SumIs
<1>. HIDE DEF on, off, afk, open, all
<1>6. 0 \in T
  BY <1>1, <1>3
<1>7. ASSUME NEW r \in 1..n, r - 1 \in T PROVE r \in T
  <2>1. r - 1 \in 0..n /\ r \in 0..n /\ Credit(r) \in Int /\ KindOf(r) \in Kinds
    BY <1>1, CreditIs, KindIs
  <2>2. \A k : r \in OfKind(d, k) <=> r \in Today(d) /\ KindOf(r) = k
    BY DEF OfKind
  <2>. DEFINE g == gain(Today(d), r)
  <2>3. g \in Int
    BY <2>1
  <2>4. gain(OfKind(d, "on"), r) + gain(OfKind(d, "off"), r) + gain(OfKind(d, "afk"), r)
          + gain(OfKind(d, "unjudged"), r) = g
    BY <2>1, <2>2 DEF Kinds
  <2>5. \A k : gain(OfKind(d, k), r) \in Int
    BY <2>1
  <2>. HIDE DEF g, gain
  <2>6. on[r - 1] + off[r - 1] + afk[r - 1] + open[r - 1] = all[r - 1]
    BY <1>7
  <2>7. PICK x \in Int, y \in Int, u \in Int, v \in Int :
          /\ x = on[r - 1] /\ y = off[r - 1] /\ u = afk[r - 1] /\ v = open[r - 1]
          /\ all[r - 1] = x + y + u + v
    BY <1>4, <2>1, <2>6
  <2>8. PICK a \in Int, b \in Int, c \in Int, e \in Int :
          /\ a = gain(OfKind(d, "on"), r) /\ b = gain(OfKind(d, "off"), r)
          /\ c = gain(OfKind(d, "afk"), r) /\ e = gain(OfKind(d, "unjudged"), r)
    BY <2>5
  <2>9. /\ on[r] = x + a /\ off[r] = y + b /\ afk[r] = u + c /\ open[r] = v + e
        /\ all[r] = (x + y + u + v) + (a + b + c + e)
    BY <1>5, <2>4, <2>7, <2>8 DEF g
  <2>10. (x + a) + (y + b) + (u + c) + (v + e) = (x + y + u + v) + (a + b + c + e)
    <3>1. /\ x \in Int /\ y \in Int /\ u \in Int /\ v \in Int
          /\ a \in Int /\ b \in Int /\ c \in Int /\ e \in Int
      BY <2>7, <2>8
    <3>. QED  BY <3>1, SumsOfFour
  <2>11. on[r] + off[r] + afk[r] + open[r] = all[r]
    BY <2>9, <2>10
  <2>. QED  BY <2>1, <2>11
<1>8. 0..n \subseteq T
  <2>. HIDE DEF T
  <2>. QED  BY <1>1, <1>6, <1>7, UpTo
<1>9. on[n] + off[n] + afk[n] + open[n] = all[n]
  BY <1>1, <1>8
<1>. QED  BY <1>2, <1>9

(* The three readings of a day agree, of every day and at every moment, for    *)
(* any number of events, labels, corrections and restarts.                    *)
THEOREM ReadingsAlwaysAgree == Spec => []ReadingsAgree
<1>1. ASSUME rows \in Seq(Row) PROVE ReadingsAgree
  <2>. SUFFICES ASSUME NEW d \in Days
       PROVE  LET totals == Report(d).totals
                  counters == Counters(d)
                  printed == Printed(d)
              IN /\ \A k \in {"on", "off", "afk"} :
                      totals[k] = counters[k] /\ totals[k] = printed[k]
                 /\ totals["on"] + totals["off"] + totals["afk"] + totals["unjudged"]
                      = printed.tracked
    BY DEF ReadingsAgree
  <2>1. DOMAIN rows = 1..Len(rows)
    BY <1>1
  <2>2. \A r \in 1..Len(rows) :
          /\ KindOf(r) = "afk" <=> rows[r].key = Away
          /\ KindOf(r) = "on" <=> rows[r].key # Away /\ OnTask(r) = "1"
          /\ KindOf(r) = "off" <=> rows[r].key # Away /\ OnTask(r) = "0"
          /\ OnTask(r) \in {"NULL", "0", "1"}
    BY DEF KindOf, Verdict, OnTask
  <2>3. /\ Counters(d).afk = CreditOf(OfKind(d, "afk"))
        /\ Counters(d).on = CreditOf(OfKind(d, "on"))
        /\ Counters(d).off = CreditOf(OfKind(d, "off"))
    <3>. DEFINE today == {r \in DOMAIN rows : Within(d, r)}
                away == {r \in today : rows[r].key = Away}
    <3>1. away = OfKind(d, "afk")
      BY <2>1, <2>2 DEF OfKind, Today
    <3>2. {r \in today \ away : OnTask(r) = "1"} = OfKind(d, "on")
      BY <2>1, <2>2 DEF OfKind, Today
    <3>3. {r \in today \ away : OnTask(r) = "0"} = OfKind(d, "off")
      BY <2>1, <2>2 DEF OfKind, Today
    <3>. QED  BY <3>1, <3>2, <3>3 DEF Counters
  <2>4. /\ Printed(d).tracked = CreditOf(Today(d))
        /\ Printed(d).afk = CreditOf(OfKind(d, "afk"))
        /\ Printed(d).on = CreditOf(OfKind(d, "on"))
        /\ Printed(d).off = CreditOf(OfKind(d, "off"))
    <3>. DEFINE day == {r \in DOMAIN rows : Within(d, r)}
                judged == {r \in day : OnTask(r) # "NULL" /\ rows[r].key # Away}
    <3>1. {r \in day : rows[r].key = Away} = OfKind(d, "afk")
      BY <2>1, <2>2 DEF OfKind, Today
    <3>2. {r \in judged : OnTask(r) = "1"} = OfKind(d, "on")
      BY <2>1, <2>2 DEF OfKind, Today
    <3>3. {r \in judged : OnTask(r) # "1"} = OfKind(d, "off")
      BY <2>1, <2>2 DEF OfKind, Today
    <3>4. day = Today(d)
      BY <2>1 DEF Today
    <3>. QED  BY <3>1, <3>2, <3>3, <3>4 DEF Printed
  <2>5. \A k \in Kinds : Report(d).totals[k] = CreditOf(OfKind(d, k))
    BY <1>1, TotalsAre
  <2>6. CreditOf(OfKind(d, "on")) + CreditOf(OfKind(d, "off")) + CreditOf(OfKind(d, "afk"))
           + CreditOf(OfKind(d, "unjudged")) = CreditOf(Today(d))
    BY <1>1, KindsPart
  <2>. QED  BY <2>3, <2>4, <2>5, <2>6 DEF Kinds
<1>2. IInv => rows \in Seq(Row)
  BY TrackedIs DEF IInv, TypeOK, TrackerOK, Tracker, Tracked
<1>. QED  BY <1>1, <1>2, Inductive, PTL

-----------------------------------------------------------------------------
(* Drift.  W are the events of a day and K[q] is the kind of q.  Event p      *)
(* pulled the user out before r: it was off task, nothing was judged between  *)
(* it and the event on task before it, and from that one to r nobody was on   *)
(* task or away.                                                              *)
Pulled(W, K, r, p) ==
  /\ p \in W /\ p <= r /\ K[p] = "off"
  /\ \E f \in W :
       /\ f < p /\ K[f] = "on"
       /\ \A q \in W : f < q /\ q < p => K[q] = "unjudged"
       /\ \A q \in W : f < q /\ q <= r => K[q] \notin {"on", "afk"}

(* The user was on task last, and not away since.                             *)
Focused(W, K, r) ==
  \E f \in W : f <= r /\ K[f] = "on" /\ \A q \in W : f < q /\ q <= r => K[q] = "unjudged"

(* One event at most pulled the user out.                                     *)
LEMMA PulledOnce ==
  ASSUME NEW n \in Nat, NEW W \in SUBSET (1..n), NEW K, NEW r \in Nat,
         NEW p, NEW q, Pulled(W, K, r, p), Pulled(W, K, r, q)
  PROVE  p = q
<1>1. ASSUME NEW x, NEW y, Pulled(W, K, r, x), Pulled(W, K, r, y) PROVE ~ (x < y)
  <2>. SUFFICES ASSUME x < y PROVE FALSE
    OBVIOUS
  <2>1. PICK f \in W :
          /\ f < x /\ K[f] = "on"
          /\ \A z \in W : f < z /\ z <= r => K[z] \notin {"on", "afk"}
    BY <1>1 DEF Pulled
  <2>2. PICK g \in W :
          /\ g < y /\ K[g] = "on"
          /\ \A z \in W : g < z /\ z < y => K[z] = "unjudged"
          /\ \A z \in W : g < z /\ z <= r => K[z] \notin {"on", "afk"}
    BY <1>1 DEF Pulled
  <2>3. /\ x \in W /\ y \in W /\ x <= r /\ y <= r /\ K[x] = "off"
        /\ x \in Nat /\ y \in Nat /\ f \in Nat /\ g \in Nat
    BY <1>1 DEF Pulled
  <2>4. ~ (f < g)
    BY <2>1, <2>2, <2>3
  <2>5. ~ (g < x)
    BY <2>2, <2>3
  <2>. QED  BY <2>1, <2>3, <2>4, <2>5
<1>2. p \in Nat /\ q \in Nat
  BY DEF Pulled
<1>. QED  BY <1>1, <1>2

(* An event pulls the user out before itself, or before a later one.          *)
LEMMA PulledItself ==
  ASSUME NEW n \in Nat, NEW W \in SUBSET (1..n), NEW K, NEW r \in Nat,
         NEW p, Pulled(W, K, r, p)
  PROVE  Pulled(W, K, p, p)
<1>1. \A q \in W : q \in Nat
  OBVIOUS
<1>2. p \in W /\ p <= r /\ K[p] = "off"
  BY DEF Pulled
<1>3. PICK f \in W :
        /\ f < p /\ K[f] = "on"
        /\ \A q \in W : f < q /\ q < p => K[q] = "unjudged"
        /\ \A q \in W : f < q /\ q <= r => K[q] \notin {"on", "afk"}
  BY DEF Pulled
<1>4. \A q \in W : f < q /\ q <= p => K[q] \notin {"on", "afk"}
  BY <1>1, <1>2, <1>3
<1>5. p <= p
  BY <1>1, <1>2
<1>. QED  BY <1>2, <1>3, <1>4, <1>5 DEF Pulled

(* The largest and the least of a set.                                        *)
LEMMA MaxIs ==
  ASSUME NEW S \in SUBSET Nat, NEW m \in S, \A j \in S : j <= m
  PROVE  Max(S) = m
<1>1. \A x \in S : x \in Nat
  OBVIOUS
<1>2. \E x \in S : \A y \in S : x >= y
  BY <1>1
<1>3. Max(S) \in S /\ \A y \in S : Max(S) >= y
  BY <1>2 DEF Max
<1>4. m \in Nat /\ Max(S) \in Nat /\ Max(S) >= m /\ Max(S) <= m
  BY <1>1, <1>3
<1>. QED  BY <1>4

LEMMA MinIs ==
  ASSUME NEW S \in SUBSET Nat, NEW m \in S, \A j \in S : m <= j
  PROVE  Min(S) = m
<1>1. \A x \in S : x \in Nat
  OBVIOUS
<1>2. \E x \in S : \A y \in S : x <= y
  BY <1>1
<1>3. Min(S) \in S /\ \A y \in S : Min(S) <= y
  BY <1>2 DEF Min
<1>4. m \in Nat /\ Min(S) \in Nat /\ Min(S) <= m /\ m <= Min(S)
  BY <1>1, <1>3
<1>. QED  BY <1>4

(* What an off-task event r is charged to, as PulledOutBy finds it.            *)
Puller(W, K, r) ==
  LET focused == {q \in W : q < r /\ K[q] = "on"}
      after == {q \in W : q > Max(focused) /\ q <= r}
  IN IF focused = {} \/ \E q \in after : K[q] = "afk" THEN {}
     ELSE {Min({q \in after : K[q] = "off"})}

LEMMA PulledIs ==
  ASSUME NEW n \in Nat, NEW W \in SUBSET (1..n), NEW K, \A q \in W : K[q] \in Kinds,
         NEW r \in W, K[r] = "off"
  PROVE  {p \in 1..n : Pulled(W, K, r, p)} = Puller(W, K, r)
<1>. DEFINE focused == {q \in W : q < r /\ K[q] = "on"}
            after == {q \in W : q > Max(focused) /\ q <= r}
            off == {q \in after : K[q] = "off"}
            pulled == {p \in 1..n : Pulled(W, K, r, p)}
<1>. SUFFICES pulled = IF focused = {} \/ \E q \in after : K[q] = "afk" THEN {}
                       ELSE {Min(off)}
  BY DEF Puller
<1>0. \A q \in W : q \in Nat
  OBVIOUS
<1>1. CASE focused = {}
  <2>1. ASSUME NEW p, Pulled(W, K, r, p) PROVE FALSE
    <3>1. PICK f \in W : f < p /\ K[f] = "on" /\ p <= r /\ p \in W
      BY <2>1 DEF Pulled
    <3>. QED  BY <1>0, <1>1, <3>1
  <2>. QED  BY <1>1, <2>1
<1>2. CASE focused # {}
  <2>1. focused \in SUBSET (1..n)
    OBVIOUS
  <2>2. PICK m \in focused : \A j \in focused : j <= m
    <3>. HIDE DEF focused
    <3>. QED  BY <1>2, <2>1, MaxOfIndices
  <2>3. Max(focused) = m
    <3>1. focused \in SUBSET Nat
      BY <1>0
    <3>. HIDE DEF focused
    <3>. QED  BY <2>2, <3>1, MaxIs
  <2>4. m \in W /\ m < r /\ K[m] = "on" /\ m \in Nat
    OBVIOUS
  <2>5. \A q \in W : m < q /\ q <= r => K[q] # "on"
    BY <1>0, <2>2, <2>4
  <2>6. \A q : q \in after <=> q \in W /\ m < q /\ q <= r
    BY <1>0, <2>3, <2>4
  <2>. HIDE DEF focused, after
  <2>7. ASSUME NEW p, Pulled(W, K, r, p)
        PROVE  /\ \A q \in W : m < q /\ q <= r => K[q] # "afk"
    <3>1. p \in W /\ p <= r
      BY <2>7 DEF Pulled
    <3>2. PICK f \in W :
            /\ f < p /\ K[f] = "on"
            /\ \A q \in W : f < q /\ q <= r => K[q] \notin {"on", "afk"}
      BY <2>7 DEF Pulled
    <3>3. f <= m
      <4>1. f \in focused
        BY <1>0, <3>1, <3>2 DEF focused
      <4>. QED  BY <2>2, <4>1
    <3>. QED  BY <1>0, <2>4, <3>2, <3>3
  <2>8. CASE \E q \in after : K[q] = "afk"
    <3>1. pulled = {}
      BY <2>6, <2>7, <2>8
    <3>. QED  BY <2>8, <3>1
  <2>9. CASE ~ \E q \in after : K[q] = "afk"
    <3>1. off # {} /\ off \subseteq Nat
      <4>1. r \in off
        BY <1>0, <2>4, <2>6
      <4>2. \A q \in off : q \in Nat
        BY <1>0, <2>6
      <4>. QED  BY <4>1, <4>2
    <3>2. PICK p \in off : \A q \in off : <<q, p>> \notin OpToRel(<, Nat)
      <4>. HIDE DEF off
      <4>. QED  BY <3>1, NatLessThanWellFounded, WFMin
    <3>3. \A q \in off : p <= q
      <4>1. ASSUME NEW q \in off PROVE p <= q
        <5>1. p \in Nat /\ q \in Nat /\ <<q, p>> \notin OpToRel(<, Nat)
          BY <3>1, <3>2
        <5>. QED  BY <5>1 DEF OpToRel
      <4>. QED  BY <4>1
    <3>4. Min(off) = p
      <4>. HIDE DEF off
      <4>. QED  BY <3>1, <3>2, <3>3, MinIs
    <3>5. p \in W /\ m < p /\ p <= r /\ K[p] = "off"
      BY <2>6, <3>2
    <3>6. \A q \in W : m < q /\ q < p => K[q] = "unjudged"
      <4>1. ASSUME NEW q \in W, m < q, q < p PROVE K[q] = "unjudged"
        <5>1. q <= r /\ ~ (p <= q)
          BY <1>0, <3>5, <4>1
        <5>2. q \in after
          BY <2>6, <4>1, <5>1
        <5>3. K[q] # "off"
          BY <3>3, <5>1, <5>2
        <5>. QED  BY <2>5, <2>9, <4>1, <5>1, <5>2, <5>3 DEF Kinds
      <4>. QED  BY <4>1
    <3>7. Pulled(W, K, r, p)
      <4>1. \A q \in W : m < q /\ q <= r => K[q] \notin {"on", "afk"}
        BY <2>5, <2>6, <2>9
      <4>. QED  BY <2>4, <3>5, <3>6, <4>1 DEF Pulled
    <3>8. pulled = {p}
      <4>1. \A q : Pulled(W, K, r, q) => q = p
        BY <1>0, <3>7, PulledOnce
      <4>2. p \in 1..n
        BY <3>5
      <4>. QED  BY <3>7, <4>1, <4>2
    <3>. HIDE DEF off, pulled
    <3>. QED  BY <1>2, <2>9, <3>4, <3>8
  <2>. HIDE DEF off, pulled
  <2>. QED  BY <2>8, <2>9
<1>. QED  BY <1>1, <1>2

(* How they follow from event to event.                                       *)
Follow(W, K, r) ==
  /\ r \notin W \/ K[r] = "unjudged" =>
       /\ Focused(W, K, r) <=> Focused(W, K, r - 1)
       /\ \A p : Pulled(W, K, r, p) <=> Pulled(W, K, r - 1, p)
  /\ r \in W /\ K[r] \in {"on", "afk"} =>
       /\ Focused(W, K, r) <=> K[r] = "on"
       /\ \A p : ~Pulled(W, K, r, p)
  /\ r \in W /\ K[r] = "off" =>
       /\ ~Focused(W, K, r)
       /\ Focused(W, K, r - 1) => Pulled(W, K, r, r)
       /\ ~Focused(W, K, r - 1) =>
            \A p : Pulled(W, K, r, p) <=> Pulled(W, K, r - 1, p)
  /\ Pulled(W, K, r, r) <=> r \in W /\ K[r] = "off" /\ Focused(W, K, r - 1)

LEMMA PulledNext ==
  ASSUME NEW n \in Nat, NEW W \in SUBSET (1..n), NEW K, NEW r \in 1..n
  PROVE  Follow(W, K, r)
<1>0. r \in Nat /\ r - 1 \in Nat /\ \A q \in W : q \in Nat /\ (q <= r <=> q <= r - 1 \/ q = r)
                                             /\ (q < r <=> q <= r - 1)
  OBVIOUS
<1>1. ASSUME r \notin W \/ K[r] = "unjudged"
      PROVE  /\ Focused(W, K, r) <=> Focused(W, K, r - 1)
             /\ \A p : Pulled(W, K, r, p) <=> Pulled(W, K, r - 1, p)
  <2>1. Focused(W, K, r) <=> Focused(W, K, r - 1)
    BY <1>0, <1>1 DEF Focused
  <2>2. ASSUME NEW p PROVE Pulled(W, K, r, p) <=> Pulled(W, K, r - 1, p)
    BY <1>0, <1>1 DEF Pulled
  <2>. QED  BY <2>1, <2>2
<1>2. ASSUME r \in W, K[r] \in {"on", "afk"}
      PROVE  /\ Focused(W, K, r) <=> K[r] = "on"
             /\ \A p : ~Pulled(W, K, r, p)
  <2>1. Focused(W, K, r) <=> K[r] = "on"
    BY <1>0, <1>2 DEF Focused
  <2>2. ASSUME NEW p, Pulled(W, K, r, p) PROVE FALSE
    <3>1. p \in W /\ p <= r
      BY <2>2 DEF Pulled
    <3>2. PICK f \in W : f < p /\ \A q \in W : f < q /\ q <= r => K[q] \notin {"on", "afk"}
      BY <2>2 DEF Pulled
    <3>3. f < r
      BY <1>0, <3>1, <3>2
    <3>. QED  BY <1>0, <1>2, <3>2, <3>3
  <2>. QED  BY <2>1, <2>2
<1>3. Pulled(W, K, r, r) <=> r \in W /\ K[r] = "off" /\ Focused(W, K, r - 1)
  BY <1>0 DEF Focused, Pulled
<1>4. ASSUME r \in W, K[r] = "off"
      PROVE  /\ ~Focused(W, K, r)
             /\ ~Focused(W, K, r - 1) =>
                  \A p : Pulled(W, K, r, p) <=> Pulled(W, K, r - 1, p)
  <2>1. ~Focused(W, K, r)
    BY <1>0, <1>4 DEF Focused
  <2>2. ASSUME ~Focused(W, K, r - 1), NEW p, Pulled(W, K, r, p)
        PROVE  Pulled(W, K, r - 1, p)
    <3>1. p # r
      BY <1>3, <2>2
    <3>. QED  BY <1>0, <2>2, <3>1 DEF Pulled
  <2>3. ASSUME NEW p, Pulled(W, K, r - 1, p)
        PROVE  Pulled(W, K, r, p)
    BY <1>0, <1>4, <2>3 DEF Pulled
  <2>. QED  BY <2>1, <2>2, <2>3
<1>. QED  BY <1>1, <1>2, <1>3, <1>4 DEF Follow

(* What Read carries: whether the user was on task last, and whose app the     *)
(* run is charged to.                                                         *)
KindAt == [r \in 1..Len(rows) |-> KindOf(r)]
Carries(W, K, acc, r) ==
  /\ acc.previous = "on" <=> Focused(W, K, r)
  /\ \A p : Pulled(W, K, r, p) => acc.culprit = rows[p].key
  /\ (\A p : ~Pulled(W, K, r, p)) => acc.culprit = Nothing

LEMMA CarriesNext ==
  ASSUME rows \in Seq(Row), NEW d, NEW acc \in Reading, NEW r \in 1..Len(rows),
         Carries(Today(d), KindAt, acc, r - 1)
  PROVE  Carries(Today(d), KindAt, IF Within(d, r) THEN Read(acc, r) ELSE acc, r)
<1>. DEFINE W == Today(d)
            K == KindAt
            next == Read(acc, r)
<1>1. /\ Len(rows) \in Nat /\ W \in SUBSET (1..Len(rows)) /\ r \in Nat
      /\ K[r] = KindOf(r) /\ KindOf(r) \in Kinds
      /\ r \in W <=> Within(d, r)
  BY KindIs DEF Today, KindAt
<1>2. /\ next.previous = Previous(acc, KindOf(r))
      /\ next.culprit = Culprit(acc, KindOf(r), rows[r].key)
  BY DEF Read
<1>. HIDE DEF W, K, next
<1>3. Follow(W, K, r)
  BY <1>1, PulledNext
<1>4. Carries(W, K, acc, r - 1)
  BY DEF W, K
<1>5. CASE r \notin W
  BY <1>1, <1>3, <1>4, <1>5 DEF Carries, Follow, W, K
<1>6. CASE r \in W /\ K[r] = "unjudged"
  <2>1. next.previous = acc.previous /\ next.culprit = acc.culprit
    BY <1>1, <1>2, <1>6 DEF Previous, Culprit
  <2>2. Carries(W, K, next, r)
    BY <1>3, <1>4, <1>6, <2>1 DEF Carries, Follow
  <2>. QED  BY <1>1, <1>6, <2>2 DEF W, K, next
<1>7. CASE r \in W /\ K[r] \in {"on", "afk"}
  <2>1. (next.previous = "on" <=> K[r] = "on") /\ next.culprit = Nothing
    BY <1>1, <1>2, <1>7 DEF Previous, Culprit
  <2>2. Carries(W, K, next, r)
    BY <1>3, <1>7, <2>1 DEF Carries, Follow
  <2>. QED  BY <1>1, <1>7, <2>2 DEF W, K, next
<1>8. CASE r \in W /\ K[r] = "off"
  <2>1. next.previous = "off"
    BY <1>1, <1>2, <1>8 DEF Previous
  <2>2. next.culprit = IF acc.previous = "on" THEN rows[r].key ELSE acc.culprit
    BY <1>1, <1>2, <1>8 DEF Culprit
  <2>3. CASE acc.previous = "on"
    <3>1. Pulled(W, K, r, r)
      BY <1>3, <1>4, <1>8, <2>3 DEF Carries, Follow
    <3>2. \A p : Pulled(W, K, r, p) => p = r
      BY <1>1, <3>1, PulledOnce
    <3>3. Carries(W, K, next, r)
      BY <1>3, <1>8, <2>1, <2>2, <2>3, <3>1, <3>2 DEF Carries, Follow
    <3>. QED  BY <1>1, <1>8, <3>3 DEF W, K, next
  <2>4. CASE acc.previous # "on"
    <3>1. Carries(W, K, next, r)
      BY <1>3, <1>4, <1>8, <2>1, <2>2, <2>4 DEF Carries, Follow
    <3>. QED  BY <1>1, <1>8, <3>1 DEF W, K, next
  <2>. QED  BY <2>3, <2>4
<1>. QED  BY <1>1, <1>5, <1>6, <1>7, <1>8 DEF Kinds

LEMMA Carried ==
  ASSUME rows \in Seq(Row), NEW d, NEW r \in 0..Len(rows)
  PROVE  Carries(Today(d), KindAt, ReadOf(d)[r], r)
<1>. DEFINE n == Len(rows)
            read == ReadOf(d)
            T == {i \in 0..n : Carries(Today(d), KindAt, read[i], i)}
<1>1. n \in Nat
  OBVIOUS
<1>2. /\ read[0] = Blank /\ read \in [0..n -> Reading]
      /\ \A i \in 1..n :
           read[i] = IF Within(d, i) THEN Read(read[i - 1], i) ELSE read[i - 1]
  BY ReadIs
<1>. HIDE DEF read
<1>3. 0 \in T
  <2>1. \A q \in Today(d) : q \in Nat /\ ~ (q <= 0)
    BY DEF Today
  <2>2. ~Focused(Today(d), KindAt, 0) /\ \A p : ~Pulled(Today(d), KindAt, 0, p)
    BY <2>1 DEF Focused, Pulled
  <2>. QED  BY <1>1, <1>2, <2>2 DEF Carries, Blank
<1>4. ASSUME NEW i \in 1..n, i - 1 \in T PROVE i \in T
  <2>1. i \in 0..n /\ i - 1 \in 0..n /\ Carries(Today(d), KindAt, read[i - 1], i - 1)
    BY <1>1, <1>4
  <2>2. read[i - 1] \in Reading
    BY <1>2, <2>1
  <2>3. Carries(Today(d), KindAt, read[i], i)
    BY <1>2, <2>1, <2>2, CarriesNext
  <2>. QED  BY <2>1, <2>3
<1>5. 0..n \subseteq T
  <2>. HIDE DEF T
  <2>. QED  BY <1>1, <1>3, <1>4, UpTo
<1>. QED  BY <1>5 DEF read

(* What an app is charged with: the events where it pulled the user out, up   *)
(* to r, and those of the runs that followed.                                 *)
Began(d, w, r) == {p \in 1..r : Pulled(Today(d), KindAt, p, p) /\ rows[p].key = w}
Charged(d, w) ==
  {r \in OfKind(d, "off") : \E p : Pulled(Today(d), KindAt, r, p) /\ rows[p].key = w}

(* An event adds to what an app is charged with what it must.                 *)
Adds(d, w, acc, next, r) ==
  /\ next.drift[w].times = acc.drift[w].times + (IF r \in Began(d, w, r) THEN 1 ELSE 0)
  /\ next.drift[w].lost =
       acc.drift[w].lost + (IF r \in Charged(d, w) THEN Credit(r) ELSE 0)

LEMMA DriftNext ==
  ASSUME rows \in Seq(Row), NEW d, NEW w \in Windows, NEW acc \in Reading,
         NEW r \in 1..Len(rows), Carries(Today(d), KindAt, acc, r - 1)
  PROVE  Adds(d, w, acc, IF Within(d, r) THEN Read(acc, r) ELSE acc, r)
<1>. DEFINE W == Today(d)
            K == KindAt
            next == Read(acc, r)
            to == Culprit(acc, KindOf(r), rows[r].key)
<1>1. /\ Len(rows) \in Nat /\ W \in SUBSET (1..Len(rows)) /\ r \in Nat
      /\ K[r] = KindOf(r) /\ KindOf(r) \in Kinds /\ Credit(r) \in Int
      /\ r \in W <=> Within(d, r)
  BY KindIs, CreditIs DEF Today, KindAt
<1>2. acc.drift[w].times \in Int /\ acc.drift[w].lost \in Int
  BY DEF Reading
<1>3. /\ r \in Began(d, w, r) <=> Pulled(W, K, r, r) /\ rows[r].key = w
      /\ r \in Charged(d, w) <=>
           /\ r \in W /\ K[r] = "off"
           /\ \E p : Pulled(W, K, r, p) /\ rows[p].key = w
  BY <1>1 DEF Began, Charged, OfKind
<1>4. Carries(W, K, acc, r - 1)
  BY DEF W, K
<1>5. Carries(W, K, IF Within(d, r) THEN next ELSE acc, r)
  BY CarriesNext
<1>. HIDE DEF W, K
<1>6. Pulled(W, K, r, r) <=> r \in W /\ K[r] = "off" /\ Focused(W, K, r - 1)
  BY <1>1, PulledNext DEF Follow
<1>7. CASE r \notin W
  BY <1>1, <1>2, <1>3, <1>6, <1>7 DEF Adds
<1>8. CASE r \in W
  <2>1. next.drift[w] =
          IF KindOf(r) # "off" \/ w # to THEN acc.drift[w]
          ELSE [times |-> acc.drift[w].times + (IF acc.previous = "on" THEN 1 ELSE 0),
                lost |-> acc.drift[w].lost + Credit(r)]
    BY DEF Read
  <2>2. next.culprit = to
    BY DEF Read
  <2>3. CASE K[r] # "off"
    BY <1>1, <1>2, <1>3, <1>6, <1>8, <2>1, <2>3 DEF Adds
  <2>4. CASE K[r] = "off"
    <3>1. to = IF acc.previous = "on" THEN rows[r].key ELSE acc.culprit
      BY <1>1, <2>4 DEF Culprit
    <3>2. Pulled(W, K, r, r) <=> acc.previous = "on"
      BY <1>4, <1>6, <1>8, <2>4 DEF Carries
    <3>. HIDE DEF next, to
    <3>3. /\ \A p : Pulled(W, K, r, p) => to = rows[p].key
          /\ (\A p : ~Pulled(W, K, r, p)) => to = Nothing
      BY <1>1, <1>5, <1>8, <2>2 DEF Carries
    <3>4. w # Nothing
      BY SpansAssumption
    <3>5. r \in Charged(d, w) <=> w = to
      BY <1>3, <1>8, <2>4, <3>3, <3>4
    <3>6. next.drift[w].times =
            acc.drift[w].times + (IF r \in Began(d, w, r) THEN 1 ELSE 0)
      BY <1>1, <1>2, <1>3, <2>1, <2>4, <3>1, <3>2
    <3>7. next.drift[w].lost =
            acc.drift[w].lost + (IF r \in Charged(d, w) THEN Credit(r) ELSE 0)
      BY <1>1, <1>2, <2>1, <2>4, <3>5
    <3>. QED  BY <1>1, <1>8, <3>6, <3>7 DEF next, Adds
  <2>. QED  BY <2>3, <2>4
<1>. QED  BY <1>7, <1>8

(* What the retrospective charges an app with.                                *)
LEMMA DriftIs ==
  ASSUME rows \in Seq(Row), NEW d, NEW w \in Windows
  PROVE  Report(d).drift[w] = [times |-> Cardinality(Began(d, w, Len(rows))),
                               lost |-> CreditOf(Charged(d, w))]
<1>. DEFINE n == Len(rows)
            read == ReadOf(d)
            sum == SumOf(Charged(d, w))
            began(r) == Began(d, w, r)
            T == {r \in 0..n : /\ IsFiniteSet(began(r))
                               /\ read[r].drift[w].times = Cardinality(began(r))
                               /\ read[r].drift[w].lost = sum[r]}
<1>1. n \in Nat
  OBVIOUS
<1>2. /\ Report(d) = read[n] /\ read[0] = Blank /\ read \in [0..n -> Reading]
      /\ \A r \in 1..n :
           read[r] = IF Within(d, r) THEN Read(read[r - 1], r) ELSE read[r - 1]
  BY ReadIs
<1>3. /\ CreditOf(Charged(d, w)) = sum[n] /\ sum[0] = 0
      /\ \A r \in 1..n :
           sum[r] = sum[r - 1] + (IF r \in Charged(d, w) THEN Credit(r) ELSE 0)
  BY SumIs
<1>4. \A r \in 0..n : Carries(Today(d), KindAt, read[r], r)
  BY Carried
<1>5. began(0) = {} /\ \A r \in 1..n :
        /\ began(r) = IF r \in began(r) THEN began(r - 1) \cup {r} ELSE began(r - 1)
        /\ r \notin began(r - 1)
  <2>1. began(0) = {}
    BY DEF Began
  <2>2. ASSUME NEW r \in 1..n
        PROVE  /\ began(r) = IF r \in began(r) THEN began(r - 1) \cup {r} ELSE began(r - 1)
               /\ r \notin began(r - 1)
    <3>1. \A p : p \in 1..r <=> p \in 1..(r - 1) \/ p = r
      BY <1>1
    <3>2. r \notin 1..(r - 1)
      BY <1>1
    <3>. QED  BY <3>1, <3>2 DEF Began
  <2>. QED  BY <2>1, <2>2
<1>. HIDE DEF read, sum, began
<1>6. 0 \in T
  <2>1. Blank.drift[w].times = 0 /\ Blank.drift[w].lost = 0
    BY DEF Blank
  <2>2. 0 \in 0..n
    BY <1>1
  <2>. QED  BY <1>2, <1>3, <1>5, <2>1, <2>2, FS_EmptySet
<1>7. ASSUME NEW r \in 1..n, r - 1 \in T PROVE r \in T
  <2>1. r \in 0..n /\ r - 1 \in 0..n
    BY <1>1
  <2>2. /\ IsFiniteSet(began(r - 1))
        /\ read[r - 1].drift[w].times = Cardinality(began(r - 1))
        /\ read[r - 1].drift[w].lost = sum[r - 1]
    BY <1>7
  <2>3. read[r - 1] \in Reading /\ Carries(Today(d), KindAt, read[r - 1], r - 1)
    BY <1>2, <1>4, <2>1
  <2>4. /\ read[r].drift[w].times =
             read[r - 1].drift[w].times + (IF r \in began(r) THEN 1 ELSE 0)
        /\ read[r].drift[w].lost =
             read[r - 1].drift[w].lost + (IF r \in Charged(d, w) THEN Credit(r) ELSE 0)
    <3>1. Adds(d, w, read[r - 1], read[r], r)
      BY <1>2, <2>3, DriftNext
    <3>. QED  BY <3>1 DEF Adds, began
  <2>5. /\ IsFiniteSet(began(r))
        /\ Cardinality(began(r)) =
             Cardinality(began(r - 1)) + (IF r \in began(r) THEN 1 ELSE 0)
    <3>1. Cardinality(began(r - 1)) \in Nat
      BY <2>2, FS_CardinalityType
    <3>2. CASE r \in began(r)
      BY <1>5, <2>2, <3>2, FS_AddElement
    <3>3. CASE r \notin began(r)
      BY <1>5, <2>2, <3>1, <3>3
    <3>. QED  BY <3>2, <3>3
  <2>. QED  BY <1>3, <2>1, <2>2, <2>4, <2>5
<1>8. 0..n \subseteq T
  <2>. HIDE DEF T
  <2>. QED  BY <1>1, <1>6, <1>7, UpTo
<1>9. /\ Report(d).drift[w].times = Cardinality(began(n))
      /\ Report(d).drift[w].lost = CreditOf(Charged(d, w))
  BY <1>1, <1>2, <1>3, <1>8
<1>10. Report(d) \in Reading
  BY <1>1, <1>2
<1>11. Report(d).drift[w] \in [times : Int, lost : Int]
  BY <1>10 DEF Reading
<1>. QED  BY <1>9, <1>11 DEF began

(* "This app pulled you out, and the whole run that follows is charged to it":  *)
(* so it is, of every day, for any number of events, labels and restarts.     *)
THEOREM DriftIsCharged == Spec => []DriftCharged
<1>1. ASSUME rows \in Seq(Row) PROVE DriftCharged
  <2>. SUFFICES ASSUME NEW d \in Days
       PROVE  LET off == {r \in DOMAIN rows : Within(d, r) /\ KindOf(r) = "off"}
                  pulled == [r \in off |-> PulledOutBy(d, r)]
                  began(w) == {q \in UNION Range(pulled) : rows[q].key = w}
              IN Report(d).drift =
                   [w \in Windows |->
                      [times |-> Cardinality(began(w)),
                       lost |-> CreditOf({r \in off : pulled[r] \cap began(w) # {}})]]
    BY DEF DriftCharged
  <2>. DEFINE n == Len(rows)
              W == Today(d)
              K == KindAt
              off == {r \in DOMAIN rows : Within(d, r) /\ KindOf(r) = "off"}
              pulled == [r \in off |-> PulledOutBy(d, r)]
              began(w) == {q \in UNION Range(pulled) : rows[q].key = w}
  <2>1. /\ n \in Nat /\ W \in SUBSET (1..n) /\ DOMAIN rows = 1..n
        /\ \A q \in W : K[q] = KindOf(q) /\ K[q] \in Kinds
    BY <1>1, KindIs DEF Today, KindAt
  <2>2. off = OfKind(d, "off") /\ \A r : r \in off <=> r \in W /\ K[r] = "off"
    BY <2>1 DEF OfKind, Today
  <2>3. \A r \in off : PulledOutBy(d, r) = {p \in 1..n : Pulled(W, K, r, p)}
    <3>1. ASSUME NEW r \in off
          PROVE  PulledOutBy(d, r) = {p \in 1..n : Pulled(W, K, r, p)}
      <4>. DEFINE day == {q \in DOMAIN rows : Within(d, q)}
                  focused == {q \in W : q < r /\ K[q] = "on"}
                  after == {q \in W : q > Max(focused) /\ q <= r}
      <4>1. day = W
        BY <2>1 DEF Today
      <4>2. {q \in day : q < r /\ KindOf(q) = "on"} = focused
        BY <2>1, <4>1
      <4>3. {p \in 1..n : Pulled(W, K, r, p)} = Puller(W, K, r)
        <5>. HIDE DEF W, K
        <5>. QED  BY <2>1, <2>2, PulledIs
      <4>4. /\ (\E q \in after : K[q] = "afk") <=> \E q \in after : KindOf(q) = "afk"
            /\ {q \in after : K[q] = "off"} = {q \in after : KindOf(q) = "off"}
        BY <2>1
      <4>5. PulledOutBy(d, r) =
              IF focused = {} \/ \E q \in after : KindOf(q) = "afk" THEN {}
              ELSE {Min({q \in after : KindOf(q) = "off"})}
        BY <4>1, <4>2 DEF PulledOutBy
      <4>. QED  BY <4>3, <4>4, <4>5 DEF Puller
    <3>. QED  BY <3>1
  <2>. HIDE DEF n, W, K, off
  <2>4. \A r \in W : r \in Nat /\ r \in 1..n
    BY <2>1
  <2>5. \A r \in off : \A p : Pulled(W, K, r, p) => p \in off /\ Pulled(W, K, p, p)
    <3>1. ASSUME NEW r \in off, NEW p, Pulled(W, K, r, p)
          PROVE  p \in off /\ Pulled(W, K, p, p)
      <4>1. p \in off
        BY <2>2, <3>1 DEF Pulled
      <4>2. Pulled(W, K, p, p)
        BY <2>1, <2>2, <2>4, <3>1, PulledItself
      <4>. QED  BY <4>1, <4>2
    <3>. QED  BY <3>1
  <2>6. \A p : p \in UNION Range(pulled) <=> Pulled(W, K, p, p)
    <3>1. \A p : p \in UNION Range(pulled) <=> \E r \in off : p \in PulledOutBy(d, r)
      BY DEF Range
    <3>2. \A r \in off : \A p : p \in PulledOutBy(d, r) <=> p \in 1..n /\ Pulled(W, K, r, p)
      BY <2>3
    <3>3. \A p : Pulled(W, K, p, p) => p \in off /\ p \in 1..n
      BY <2>2, <2>4 DEF Pulled
    <3>. QED  BY <2>5, <3>1, <3>2, <3>3
  <2>7. ASSUME NEW w \in Windows
        PROVE  /\ began(w) = Began(d, w, n)
               /\ {r \in off : pulled[r] \cap began(w) # {}} = Charged(d, w)
    <3>1. \A p : Pulled(W, K, p, p) => p \in 1..n
      BY <2>4 DEF Pulled
    <3>2. began(w) = Began(d, w, n)
      BY <2>6, <3>1 DEF Began, W, K
    <3>3. ASSUME NEW r \in off
          PROVE  pulled[r] \cap began(w) # {} <=>
                   \E p : Pulled(W, K, r, p) /\ rows[p].key = w
      <4>1. pulled[r] = {p \in 1..n : Pulled(W, K, r, p)}
        BY <2>3
      <4>. HIDE DEF pulled
      <4>2. \A p : p \in began(w) <=> Pulled(W, K, p, p) /\ rows[p].key = w
        BY <2>6
      <4>. HIDE DEF began
      <4>. QED  BY <2>5, <3>1, <4>1, <4>2
    <3>. HIDE DEF pulled, began
    <3>4. {r \in off : pulled[r] \cap began(w) # {}} = Charged(d, w)
      BY <2>2, <3>3 DEF Charged, W, K
    <3>. QED  BY <3>2, <3>4
  <2>8. ASSUME NEW w \in Windows
        PROVE  Report(d).drift[w] =
                 [times |-> Cardinality(began(w)),
                  lost |-> CreditOf({r \in off : pulled[r] \cap began(w) # {}})]
    BY <1>1, <2>7, DriftIs DEF n
  <2>9. Report(d).drift \in [Windows -> [times : Int, lost : Int]]
    <3>1. Report(d) \in Reading
      BY <1>1, <2>1, ReadIs DEF n
    <3>. QED  BY <3>1 DEF Reading
  <2>. HIDE DEF pulled, began
  <2>10. Report(d).drift =
           [w \in Windows |->
              [times |-> Cardinality(began(w)),
               lost |-> CreditOf({r \in off : pulled[r] \cap began(w) # {}})]]
    BY <2>8, <2>9
  <2>. QED  BY <2>10 DEF off, pulled, began
<1>2. IInv => rows \in Seq(Row)
  BY TrackedIs DEF IInv, TypeOK, TrackerOK, Tracker, Tracked
<1>. QED  BY <1>1, <1>2, Inductive, PTL

(* With the native watcher the rows are in the order of their start, in which  *)
(* the retrospective reads them.                                              *)
InOrder == \A r, q \in DOMAIN rows : r < q => rows[r].start <= rows[q].start

THEOREM RowsInOrder ==
  ASSUME Watcher = "native"
  PROVE  Spec => []InOrder
<1>1. ASSUME IInv, Native
      PROVE  InOrder
  <2>1. rows \in Seq(Row) /\ DOMAIN rows = 1..Len(rows)
    BY <1>1, LenProperties DEF IInv, TypeOK, TrackerOK, Tracker, Tracked
  <2>2. \A r \in 1..Len(rows) : RowSound(Tracked, r, now)
    BY <1>1 DEF Native, Sound, Tracked
  <2>3. Ordered(Tracked)
    BY <1>1 DEF Native, Sound
  <2>4. ASSUME NEW r \in DOMAIN rows, NEW q \in DOMAIN rows, r < q
        PROVE  rows[r].start <= rows[q].start
    <3>1. rows[r].start \in Nat /\ rows[r].end \in Nat /\ rows[q].start \in Nat
      BY <2>1, CreditIs DEF Row
    <3>2. rows[r].start <= rows[r].end /\ rows[r].end <= rows[q].start
      BY <2>1, <2>2, <2>3, <2>4 DEF RowSound, Ordered, Tracked
    <3>. QED  BY <3>1, <3>2
  <2>. QED  BY <2>4 DEF InOrder
<1>. QED  BY <1>1, InductiveNative, PTL
=============================================================================
