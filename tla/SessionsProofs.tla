--------------------------- MODULE SessionsProofs ---------------------------
(***************************************************************************)
(* Proofs about Sessions, for every instance: any number of command line    *)
(* processes, any plans, grace, break length and resync period.             *)
(***************************************************************************)
EXTENDS Sessions, FiniteSetTheorems, SequenceTheorems, WellFoundedInduction, TLAPS

-----------------------------------------------------------------------------
(* What the operators on the table return.                                   *)

(* end_session: the same rows, of which at most this one has newly ended.    *)
LEMMA EndedFacts ==
  ASSUME NEW s \in Seq(Session), NEW i \in DOMAIN s,
         NEW length \in 0..AgeCap, NEW outcome \in Outcomes \cup {None}
  PROVE  LET t == Ended(s, i, length, outcome)
         IN  /\ t \in Seq(Session) /\ Len(t) = Len(s) /\ DOMAIN t = DOMAIN s
             /\ \A j \in DOMAIN s : ~ IsOpen(s, j) => t[j] = s[j]
             /\ OpenRows(t) = OpenRows(s) \ {i}
<1>. DEFINE r == [s[i] EXCEPT !.length = length, !.outcome = outcome]
            t == [s EXCEPT ![i] = r]
<1>0. s[i] \in Session /\ r \in Session /\ r.length = length
  <2>1. s[i] \in Session
    OBVIOUS
  <2>. QED  BY <2>1 DEF Session
<1>. HIDE DEF r
<1>1. t \in Seq(Session) /\ Len(t) = Len(s) /\ DOMAIN t = DOMAIN s
  BY <1>0
<1>2. /\ \A j \in DOMAIN s \ {i} : t[j] = s[j]
      /\ t[i].length = length
  BY <1>0
<1>3. length # Running /\ Running \in Int
  BY SessionsAssumption DEF Running
<1>. HIDE DEF t
<1>4. CASE IsOpen(s, i)
  <2>1. Ended(s, i, length, outcome) = t
    BY <1>4 DEF Ended, t, r
  <2>2. \A j \in DOMAIN s : ~ IsOpen(s, j) => t[j] = s[j]
    BY <1>2, <1>4
  <2>3. OpenRows(t) = OpenRows(s) \ {i}
    BY <1>1, <1>2, <1>3 DEF OpenRows, IsOpen
  <2>. QED  BY <1>1, <2>1, <2>2, <2>3
<1>5. CASE ~ IsOpen(s, i)
  <2>1. Ended(s, i, length, outcome) = s
    BY <1>5 DEF Ended
  <2>. QED  BY <1>5, <2>1 DEF OpenRows
<1>. QED  BY <1>4, <1>5

(* start_session: one more row, which is open.                               *)
LEMMA StartedFacts ==
  ASSUME NEW s \in Seq(Session), NEW plan \in Plans
  PROVE  LET t == Started(s, plan)
         IN  /\ t \in Seq(Session) /\ Len(t) = Len(s) + 1
             /\ DOMAIN t = DOMAIN s \cup {Len(s) + 1}
             /\ \A j \in DOMAIN s : t[j] = s[j]
             /\ OpenRows(t) = OpenRows(s) \cup {Len(s) + 1}
<1>. DEFINE r == [plan |-> plan, age |-> 0, length |-> Running, outcome |-> None]
            t == Append(s, r)
<1>1. r \in Session /\ r.length = Running
  BY SessionsAssumption DEF Session
<1>. HIDE DEF r
<1>2. /\ t \in Seq(Session) /\ Len(t) = Len(s) + 1
      /\ DOMAIN t = DOMAIN s \cup {Len(s) + 1}
      /\ \A j \in DOMAIN s : t[j] = s[j]
      /\ t[Len(s) + 1] = r
  BY <1>1
<1>3. Started(s, plan) = t
  BY DEF Started, r
<1>. HIDE DEF t
<1>4. OpenRows(t) = OpenRows(s) \cup {Len(s) + 1}
  BY <1>1, <1>2 DEF OpenRows, IsOpen
<1>. QED  BY <1>2, <1>3, <1>4

(* A nonempty set of indices has a largest one: the differences to the bound  *)
(* have a least one.                                                          *)
LEMMA MaxOfIndices ==
  ASSUME NEW n \in Nat, NEW S \in SUBSET (1..n), S # {}
  PROVE  \E m \in S : \A j \in S : j <= m
<1>. DEFINE T == {n - j : j \in S}
<1>1. T \subseteq Nat /\ T # {}
  <2>1. \A j \in S : n - j \in Nat
    OBVIOUS
  <2>2. T \subseteq Nat
    BY <2>1
  <2>. QED  BY <2>2
<1>2. PICK x \in T : \A y \in T : <<y, x>> \notin OpToRel(<, Nat)
  <2>. HIDE DEF T
  <2>. QED  BY <1>1, NatLessThanWellFounded, WFMin
<1>3. \A y \in T : ~ (y < x)
  BY <1>1, <1>2 DEF OpToRel
<1>4. PICK m \in S : x = n - m
  OBVIOUS
<1>5. ASSUME NEW j \in S PROVE j <= m
  <2>1. n - j \in T /\ j \in Int /\ m \in Int
    OBVIOUS
  <2>2. ~ (n - j < n - m)
    <3>. HIDE DEF T
    <3>. QED  BY <1>3, <1>4, <2>1
  <2>. QED  BY <2>1, <2>2
<1>. QED  BY <1>5

(* open_session: the newest open row, if there is one.                       *)
LEMMA NewestFacts ==
  ASSUME NEW s \in Seq(Session)
  PROVE  \/ Newest(s) = 0 /\ OpenRows(s) = {}
         \/ Newest(s) \in OpenRows(s) /\ Newest(s) \in DOMAIN s /\ Newest(s) # 0
<1>1. OpenRows(s) \in SUBSET (1..Len(s)) /\ Len(s) \in Nat /\ DOMAIN s = 1..Len(s)
  BY DEF OpenRows
<1>2. OpenRows(s) # {} => \E m \in OpenRows(s) : \A j \in OpenRows(s) : j <= m
  BY <1>1, MaxOfIndices
<1>. QED  BY <1>1, <1>2 DEF Newest

(* A row's age, and its end when it is stale, are lengths it may have.       *)
LEMMA LengthFacts ==
  ASSUME NEW s \in Seq(Session), NEW i \in DOMAIN s
  PROVE  /\ s[i].age \in 0..AgeCap
         /\ s[i].plan \in Plans /\ s[i].plan + Grace \in 0..AgeCap
<1>1. s[i] \in Session
  OBVIOUS
<1>2. s[i].age \in 0..AgeCap /\ s[i].plan \in Plans
  BY <1>1 DEF Session
<1>3. s[i].plan \in Nat /\ Grace \in Nat /\ AgeCap \in Nat /\ s[i].plan + Grace < AgeCap
  BY <1>2, SessionsAssumption
<1>. QED  BY <1>2, <1>3

(* What a command line process may be about to do only grows with the table. *)
LEMMA CliStateGrows ==
  ASSUME DOMAIN sess \subseteq DOMAIN sess'
  PROVE  CliState \subseteq CliState'
BY DEF CliState, Idle

-----------------------------------------------------------------------------
(* The strengthening: a focus was announced exactly while a session runs.    *)
PhaseInv ==
  /\ up => (lastPhase = "focus" <=> mine # 0) /\ lastPhase # "none"
  /\ ~ up => breakLeft = 0

IInv == TypeOK /\ PhaseInv

(* The break after a session is the phase that is announced then.            *)
LEMMA AfterFocusFacts ==
  /\ AfterFocus = IF BreakLen > 0 THEN "break" ELSE "idle"
  /\ AfterFocus \in {"idle", "break"}
BY DEF AfterFocus, PhaseOf

(* The daemon starts, and recovers what an earlier one left open.            *)
LEMMA DaemonStartKeeps ==
  ASSUME IInv, DaemonStart
  PROVE  IInv'
<1>. DEFINE i == Newest(sess)
<1>1. TypeOK /\ sess \in Seq(Session)
  BY DEF IInv, TypeOK
<1>2. i = 0 \/ i \in DOMAIN sess
  BY <1>1, NewestFacts
<1>3. sess' \in Seq(Session) /\ DOMAIN sess' = DOMAIN sess /\ mine' \in {0} \cup DOMAIN sess
  <2>1. CASE i # 0 /\ IsStale(sess, i)
    <3>1. sess' = Ended(sess, i, sess[i].plan + Grace, None) /\ mine' = 0
      BY <2>1 DEF DaemonStart
    <3>. QED  BY <1>1, <1>2, <2>1, <3>1, EndedFacts, LengthFacts
  <2>2. CASE ~ (i # 0 /\ IsStale(sess, i))
    BY <1>1, <1>2, <2>2 DEF DaemonStart
  <2>. QED  BY <2>1, <2>2
<1>. HIDE DEF i
<1>4. CliState \subseteq CliState'
  BY <1>3, CliStateGrows
<1>5. /\ up' = TRUE /\ breakLeft' = 0 /\ sinceResync' = ResyncEvery /\ asked' = {}
      /\ cli' = cli /\ crashes' = crashes
      /\ lastPhase' = IF mine' # 0 THEN "focus" ELSE "idle"
  BY DEF DaemonStart, PhaseOf
<1>6. TypeOK'
  BY <1>1, <1>3, <1>4, <1>5, SessionsAssumption DEF TypeOK
<1>. QED  BY <1>5, <1>6 DEF IInv, PhaseInv

(* start_session in the daemon, over one that may be running.                *)
LEMMA UserStartKeeps ==
  ASSUME IInv, NEW plan \in Plans, UserStart(plan)
  PROVE  IInv'
<1>. DEFINE ended == IF mine = 0 THEN sess ELSE Ended(sess, mine, sess[mine].age, None)
<1>1. TypeOK /\ sess \in Seq(Session) /\ (mine = 0 \/ mine \in DOMAIN sess)
  BY DEF IInv, TypeOK
<1>2. ended \in Seq(Session) /\ Len(ended) = Len(sess) /\ DOMAIN ended = DOMAIN sess
  BY <1>1, EndedFacts, LengthFacts
<1>. HIDE DEF ended
<1>3. sess' = Started(ended, plan) /\ mine' = Len(sess) + 1
  BY DEF UserStart, ended
<1>4. /\ sess' \in Seq(Session) /\ DOMAIN sess' = DOMAIN sess \cup {mine'}
      /\ mine' \in DOMAIN sess' /\ mine' # 0
  <2>1. Len(sess) \in Nat /\ mine' # 0
    BY <1>1, <1>3
  <2>2. /\ Started(ended, plan) \in Seq(Session)
        /\ DOMAIN Started(ended, plan) = DOMAIN ended \cup {Len(ended) + 1}
    BY <1>2, StartedFacts
  <2>. QED  BY <1>2, <1>3, <2>1, <2>2
<1>5. CliState \subseteq CliState'
  BY <1>4, CliStateGrows
<1>6. /\ up' = up /\ up = TRUE /\ breakLeft' = 0 /\ lastPhase' = "focus"
      /\ UNCHANGED <<sinceResync, asked, cli, crashes>>
  BY DEF UserStart, IInv, TypeOK
<1>7. TypeOK'
  BY <1>1, <1>4, <1>5, <1>6, SessionsAssumption DEF TypeOK
<1>. QED  BY <1>4, <1>6, <1>7 DEF IInv, PhaseInv

(* end_session in the daemon.                                                *)
LEMMA UserEndKeeps ==
  ASSUME IInv, NEW outcome \in Outcomes \cup {None}, UserEnd(outcome)
  PROVE  IInv'
<1>1. TypeOK /\ sess \in Seq(Session) /\ mine \in DOMAIN sess
  BY DEF IInv, TypeOK, UserEnd
<1>2. sess' \in Seq(Session) /\ DOMAIN sess' = DOMAIN sess
  BY <1>1, EndedFacts, LengthFacts DEF UserEnd
<1>3. CliState \subseteq CliState'
  BY <1>2, CliStateGrows
<1>4. /\ up' = up /\ up = TRUE /\ mine' = 0 /\ breakLeft' = BreakLen /\ lastPhase' = AfterFocus
      /\ UNCHANGED <<sinceResync, asked, cli, crashes>>
  BY DEF UserEnd, IInv, TypeOK
<1>5. TypeOK'
  BY <1>1, <1>2, <1>3, <1>4, AfterFocusFacts, SessionsAssumption DEF TypeOK
<1>. QED  BY <1>4, <1>5, AfterFocusFacts DEF IInv, PhaseInv

(* set_outcome of a row.                                                     *)
LEMMA OutcomeFacts ==
  ASSUME NEW s \in Seq(Session), NEW i \in DOMAIN s, NEW outcome \in Outcomes
  PROVE  LET t == [s EXCEPT ![i] = [@ EXCEPT !.outcome = outcome]]
         IN  /\ t \in Seq(Session) /\ DOMAIN t = DOMAIN s /\ Len(t) = Len(s)
             /\ \A j \in DOMAIN s : t[j].length = s[j].length
             /\ \A j \in DOMAIN s \ {i} : t[j] = s[j]
             /\ t[i].outcome = outcome
<1>. DEFINE r == [s[i] EXCEPT !.outcome = outcome]
<1>1. s[i] \in Session /\ r \in Session /\ r.length = s[i].length /\ r.outcome = outcome
  <2>1. s[i] \in Session
    OBVIOUS
  <2>. QED  BY <2>1 DEF Session
<1>. HIDE DEF r
<1>2. LET t == [s EXCEPT ![i] = r]
      IN  /\ t \in Seq(Session) /\ DOMAIN t = DOMAIN s /\ Len(t) = Len(s)
          /\ \A j \in DOMAIN s : t[j].length = s[j].length
          /\ \A j \in DOMAIN s \ {i} : t[j] = s[j]
          /\ t[i].outcome = outcome
  BY <1>1
<1>. QED  BY <1>2 DEF r

(* set_outcome, by the prompt or a client.                                   *)
LEMMA AnswerKeeps ==
  ASSUME IInv, NEW outcome \in Outcomes,
         \/ \E i \in asked : Answer(i, outcome)
         \/ \E i \in DOMAIN sess : ApiOutcome(i, outcome)
  PROVE  IInv'
<1>1. TypeOK /\ sess \in Seq(Session)
  BY DEF IInv, TypeOK
<1>2. PICK i \in DOMAIN sess : sess' = [sess EXCEPT ![i] = [@ EXCEPT !.outcome = outcome]]
  BY <1>1 DEF TypeOK, Answer, ApiOutcome
<1>3. sess' \in Seq(Session) /\ DOMAIN sess' = DOMAIN sess
  BY <1>1, <1>2, OutcomeFacts
<1>4. CliState \subseteq CliState'
  BY <1>3, CliStateGrows
<1>5. /\ asked' \subseteq asked
      /\ UNCHANGED <<up, mine, breakLeft, sinceResync, lastPhase, cli, crashes>>
  BY DEF Answer, ApiOutcome, daemon
<1>6. TypeOK'
  BY <1>1, <1>3, <1>4, <1>5 DEF TypeOK
<1>. QED  BY <1>5, <1>6 DEF IInv, PhaseInv
-----------------------------------------------------------------------------
(* What a change of phase announces.                                         *)
LEMMA ContextsFacts ==
  /\ Contexts("focus", "focus") = <<>>
  /\ \A old : old # "focus" => Contexts(old, "focus") = <<"session_start">>
  /\ Contexts("focus", AfterFocus) = <<"session_end">> \o Phases!OnBreak
<1>. USE AfterFocusFacts DEF Contexts, Phases!OnBreak
<1>1. Contexts("focus", "focus") = <<>>
  OBVIOUS
<1>2. ASSUME NEW old, old # "focus"
      PROVE  Contexts(old, "focus") = <<"session_start">>
  BY <1>2
<1>3. Contexts("focus", AfterFocus) = <<"session_end">> \o Phases!OnBreak
  OBVIOUS
<1>. QED  BY <1>1, <1>2, <1>3

(* A tick leaves the session, the break and the phase as they are, or goes on  *)
(* with a session, or ends in the break after one.                            *)
LEMMA TickCases ==
  ASSUME IInv, Tick
  PROVE  /\ sess' \in Seq(Session) /\ DOMAIN sess' = DOMAIN sess
         /\ asked' \subseteq DOMAIN sess /\ sinceResync' \in 0..ResyncEvery
         /\ \/ UNCHANGED <<mine, breakLeft, lastPhase>> /\ notices' = <<>>
            \/ /\ mine' \in DOMAIN sess \ {0} /\ breakLeft' = 0 /\ lastPhase' = "focus"
               /\ notices' = IF mine = 0 THEN <<"session_start">> ELSE <<>>
            \/ /\ mine' = 0 /\ breakLeft' = BreakLen /\ lastPhase' = AfterFocus
               /\ notices' = (IF mine = 0 THEN <<"session_start">> ELSE <<>>)
                             \o (<<"session_end">> \o Phases!OnBreak)
<1>. DEFINE due     == sinceResync >= ResyncEvery
            i       == IF due THEN Newest(sess) ELSE mine
            changed == i # mine
            left    == IF changed THEN BreakAfter(i) ELSE breakLeft
            seen    == IF changed THEN PhaseOf(i, left) ELSE lastPhase
            said    == IF changed THEN Contexts(lastPhase, seen) ELSE <<>>
            overrun == i # 0 /\ sess[i].age >= sess[i].plan
            ending  == <<"session_end">> \o Phases!OnBreak
<1>1. /\ sess \in Seq(Session) /\ mine \in {0} \cup DOMAIN sess
      /\ asked \subseteq DOMAIN sess /\ sinceResync \in 0..ResyncEvery
  BY DEF IInv, TypeOK
<1>2. i \in {0} \cup DOMAIN sess
  BY <1>1, NewestFacts
<1>3. /\ mine # 0 => lastPhase = "focus" /\ breakLeft = 0
      /\ mine = 0 => lastPhase # "focus"
  BY DEF IInv, PhaseInv, TypeOK, Tick
<1>4. sinceResync' \in 0..ResyncEvery
  BY <1>1, SessionsAssumption DEF Tick
<1>5. ending \in Seq({"session_end", "on_break"}) /\ <<>> \o ending = ending
  <2>1. Phases!OnBreak \in Seq({"session_end", "on_break"}) /\ <<"session_end">> \in Seq({"session_end", "on_break"})
    <3>1. <<"on_break">> \in Seq({"session_end", "on_break"}) /\ <<>> \in Seq({"session_end", "on_break"})
      OBVIOUS
    <3>2. Phases!OnBreak = <<"on_break">> \/ Phases!OnBreak = <<>>
      BY DEF Phases!OnBreak
    <3>3. <<"session_end">> \in Seq({"session_end", "on_break"})
      OBVIOUS
    <3>. QED  BY <3>1, <3>2, <3>3
  <2>2. ending \in Seq({"session_end", "on_break"})
    BY <2>1, ConcatProperties
  <2>. HIDE DEF ending
  <2>. QED  BY <2>2, ConcatEmptySeq
<1>6. overrun =>
        /\ sess' = Ended(sess, i, sess[i].age, None)
        /\ mine' = 0 /\ breakLeft' = BreakLen /\ asked' = asked \cup {i}
        /\ lastPhase' = AfterFocus
        /\ notices' = said \o Contexts(seen, AfterFocus)
  BY DEF Tick
<1>7. ~ overrun =>
        /\ sess' = sess /\ mine' = i /\ breakLeft' = left /\ asked' = asked
        /\ lastPhase' = seen /\ notices' = said
  BY DEF Tick
<1>8. /\ i # 0 => left = 0 /\ seen = "focus"
      /\ i # 0 => said = IF mine = 0 THEN <<"session_start">> ELSE <<>>
  <2>1. i # 0 => left = 0 /\ seen = "focus"
    BY <1>3 DEF BreakAfter, PhaseOf
  <2>2. i # 0 /\ mine = 0 => said = <<"session_start">>
    BY <1>3, <2>1, ContextsFacts
  <2>3. i # 0 /\ mine # 0 => said = <<>>
    BY <1>3, <2>1, ContextsFacts
  <2>. QED  BY <2>1, <2>2, <2>3
<1>9. /\ i = 0 /\ mine = 0 => left = breakLeft /\ seen = lastPhase /\ said = <<>>
      /\ i = 0 /\ mine # 0 => left = BreakLen /\ seen = AfterFocus /\ said = ending
  <2>1. i = 0 /\ mine = 0 => left = breakLeft /\ seen = lastPhase /\ said = <<>>
    OBVIOUS
  <2>2. i = 0 /\ mine # 0 => left = BreakLen /\ seen = AfterFocus
    BY DEF BreakAfter, AfterFocus
  <2>3. i = 0 /\ mine # 0 => said = ending
    BY <1>3, <2>2, ContextsFacts
  <2>. QED  BY <2>1, <2>2, <2>3
<1>10. overrun => i # 0
  OBVIOUS
<1>11. overrun => Ended(sess, i, sess[i].age, None) \in Seq(Session)
                  /\ DOMAIN Ended(sess, i, sess[i].age, None) = DOMAIN sess
  BY <1>1, <1>2, EndedFacts, LengthFacts
<1>. HIDE DEF overrun, i, left, seen, said
<1>12. CASE overrun
  <2>1. /\ sess' \in Seq(Session) /\ DOMAIN sess' = DOMAIN sess
        /\ asked' \subseteq DOMAIN sess
    BY <1>1, <1>2, <1>6, <1>10, <1>11, <1>12
  <2>2. /\ mine' = 0 /\ breakLeft' = BreakLen /\ lastPhase' = AfterFocus
        /\ notices' = (IF mine = 0 THEN <<"session_start">> ELSE <<>>) \o ending
    BY <1>6, <1>8, <1>10, <1>12, ContextsFacts
  <2>. QED  BY <1>4, <2>1, <2>2
<1>13. CASE ~ overrun
  <2>1. /\ sess' \in Seq(Session) /\ DOMAIN sess' = DOMAIN sess
        /\ asked' \subseteq DOMAIN sess
    BY <1>1, <1>7, <1>13
  <2>2. CASE i # 0
    <3>1. /\ mine' \in DOMAIN sess \ {0} /\ breakLeft' = 0 /\ lastPhase' = "focus"
          /\ notices' = IF mine = 0 THEN <<"session_start">> ELSE <<>>
      BY <1>2, <1>7, <1>8, <1>13, <2>2
    <3>. QED  BY <1>4, <2>1, <3>1
  <2>3. CASE i = 0 /\ mine # 0
    <3>1. /\ mine' = 0 /\ breakLeft' = BreakLen /\ lastPhase' = AfterFocus
          /\ notices' = (IF mine = 0 THEN <<"session_start">> ELSE <<>>) \o ending
      BY <1>5, <1>7, <1>9, <1>13, <2>3
    <3>. QED  BY <1>4, <2>1, <3>1
  <2>4. CASE i = 0 /\ mine = 0
    BY <1>4, <1>7, <1>9, <1>13, <2>1, <2>4
  <2>. QED  BY <2>2, <2>3, <2>4
<1>. QED  BY <1>12, <1>13

(* A tick: resync, overrun, the break and the hook of the phase.             *)
LEMMA TickKeeps ==
  ASSUME IInv, Tick
  PROVE  IInv'
<1>1. TypeOK /\ up = TRUE /\ UNCHANGED <<up, cli, crashes>>
  BY DEF IInv, TypeOK, Tick
<1>2. /\ sess' \in Seq(Session) /\ DOMAIN sess' = DOMAIN sess
      /\ asked' \subseteq DOMAIN sess /\ sinceResync' \in 0..ResyncEvery
  BY TickCases
<1>3. CliState \subseteq CliState'
  BY <1>2, CliStateGrows
<1>4. /\ mine' \in {0} \cup DOMAIN sess
      /\ mine' # 0 => breakLeft' = 0
      /\ breakLeft' \in 0..BreakLen /\ lastPhase' \in {"none", "idle", "focus", "break"}
      /\ (lastPhase' = "focus" <=> mine' # 0) /\ lastPhase' # "none"
  <2>1. CASE UNCHANGED <<mine, breakLeft, lastPhase>>
    BY <1>1, <2>1 DEF IInv, TypeOK, PhaseInv
  <2>2. CASE mine' \in DOMAIN sess \ {0} /\ breakLeft' = 0 /\ lastPhase' = "focus"
    BY <2>2, SessionsAssumption
  <2>3. CASE mine' = 0 /\ breakLeft' = BreakLen /\ lastPhase' = AfterFocus
    BY <2>3, AfterFocusFacts, SessionsAssumption
  <2>. QED  BY <2>1, <2>2, <2>3, TickCases
<1>5. TypeOK'
  BY <1>1, <1>2, <1>3, <1>4 DEF TypeOK
<1>. QED  BY <1>1, <1>4, <1>5 DEF IInv, PhaseInv

(* The daemon dies.                                                          *)
LEMMA CrashKeeps ==
  ASSUME IInv, Crash
  PROVE  IInv'
<1>1. CliState \subseteq CliState'
  BY CliStateGrows DEF Crash
<1>2. /\ TypeOK /\ up' = FALSE /\ mine' = 0 /\ breakLeft' = 0 /\ lastPhase' = "none"
      /\ asked' = {} /\ crashes < MaxCrashes /\ crashes' = crashes + 1
      /\ UNCHANGED <<sess, sinceResync, cli>>
  BY DEF IInv, Crash
<1>3. crashes' \in 0..MaxCrashes
  BY <1>2, SessionsAssumption DEF TypeOK
<1>4. 0 \in 0..BreakLen
  BY SessionsAssumption
<1>5. TypeOK'
  BY <1>1, <1>2, <1>3, <1>4 DEF TypeOK
<1>. QED  BY <1>2, <1>5 DEF IInv, PhaseInv

(* A command line process's step writes the table and its own state.         *)
LEMMA CliKeeps ==
  ASSUME IInv, UNCHANGED daemon,
         sess' \in Seq(Session), DOMAIN sess \subseteq DOMAIN sess',
         cli' \in [Clis -> CliState]
  PROVE  IInv'
<1>1. CliState \subseteq CliState'
  BY CliStateGrows
<1>2. TypeOK /\ UNCHANGED <<up, mine, breakLeft, sinceResync, lastPhase, asked, crashes>>
  BY DEF IInv, daemon
<1>3. TypeOK'
  BY <1>1, <1>2 DEF TypeOK
<1>. QED  BY <1>2, <1>3 DEF IInv, PhaseInv

(* A command reads the table and decides what to write.                      *)
LEMMA CliDecideKeeps ==
  ASSUME IInv, NEW c \in Clis,
         \/ \E p \in Plans : CliStart(c, p)
         \/ \E o \in Outcomes \cup {None} : CliStop(c, o)
  PROVE  IInv'
<1>1. sess \in Seq(Session) /\ cli \in [Clis -> CliState]
  BY DEF IInv, TypeOK
<1>2. Newest(sess) = 0 \/ Newest(sess) \in DOMAIN sess
  BY <1>1, NewestFacts
<1>3. ASSUME NEW p \in Plans, CliStart(c, p)
      PROVE  cli' \in [Clis -> CliState]
  <2>1. [pc |-> "insert", plan |-> p] \in CliState
    BY DEF CliState
  <2>2. Newest(sess) \in DOMAIN sess =>
          [pc |-> "end", row |-> Newest(sess), stale |-> IsStale(sess, Newest(sess)),
           outcome |-> None, then |-> [pc |-> "insert", plan |-> p]] \in CliState
    BY DEF CliState, IsStale
  <2>. QED  BY <1>1, <1>2, <1>3, <2>1, <2>2 DEF CliStart
<1>4. ASSUME NEW o \in Outcomes \cup {None}, CliStop(c, o)
      PROVE  cli' \in [Clis -> CliState]
  <2>1. Newest(sess) \in DOMAIN sess =>
          [pc |-> "end", row |-> Newest(sess), stale |-> IsStale(sess, Newest(sess)),
           outcome |-> o, then |-> Idle] \in CliState
    BY DEF CliState, IsStale, Idle
  <2>. QED  BY <1>1, <1>2, <1>4, <2>1 DEF CliStop
<1>5. UNCHANGED sess /\ UNCHANGED daemon
  BY DEF CliStart, CliStop
<1>6. cli' \in [Clis -> CliState]
  BY <1>3, <1>4
<1>. QED  BY <1>1, <1>5, <1>6, CliKeeps

(* The next statement of a command.                                          *)
LEMMA CliStepKeeps ==
  ASSUME IInv, NEW c \in Clis, CliStep(c)
  PROVE  IInv'
<1>1. sess \in Seq(Session) /\ cli \in [Clis -> CliState] /\ cli[c] \in CliState
  BY DEF IInv, TypeOK
<1>2. Idle \in CliState /\ UNCHANGED daemon
  BY DEF CliState, CliStep, CliEnd, CliInsert
<1>3. CASE CliEnd(c)
  <2>1. /\ cli[c].row \in DOMAIN sess /\ cli[c].outcome \in Outcomes \cup {None}
        /\ cli[c].then \in CliState
    BY <1>1, <1>3 DEF CliEnd, CliState, Idle
  <2>2. sess' \in Seq(Session) /\ DOMAIN sess' = DOMAIN sess
    BY <1>1, <1>3, <2>1, EndedFacts, LengthFacts DEF CliEnd
  <2>3. cli' \in [Clis -> CliState]
    BY <1>1, <1>3, <2>1 DEF CliEnd
  <2>. QED  BY <1>2, <2>2, <2>3, CliKeeps
<1>4. CASE CliInsert(c)
  <2>1. cli[c].plan \in Plans
    BY <1>1, <1>4 DEF CliInsert, CliState, Idle
  <2>2. sess' \in Seq(Session) /\ DOMAIN sess \subseteq DOMAIN sess'
    <3>1. ASSUME NEW p \in Plans
          PROVE  /\ Started(sess, p) \in Seq(Session)
                 /\ DOMAIN sess \subseteq DOMAIN Started(sess, p)
      BY <1>1, StartedFacts
    <3>2. (\E p \in Plans : sess' = Started(sess, p)) \/ sess' = sess
      BY <1>4, <2>1 DEF CliInsert
    <3>. QED  BY <1>1, <3>1, <3>2
  <2>3. cli' \in [Clis -> CliState]
    BY <1>1, <1>2, <1>4 DEF CliInsert
  <2>. QED  BY <1>2, <2>2, <2>3, CliKeeps
<1>. QED  BY <1>3, <1>4 DEF CliStep

(* Time passes for the rows; which of them are open does not change.         *)
LEMMA ElapseFacts ==
  ASSUME NEW s \in Seq(Session), NEW d \in Nat
  PROVE  LET t == [i \in DOMAIN s |-> [s[i] EXCEPT !.age = Cap(s[i].age + d, AgeCap)]]
         IN  /\ t \in Seq(Session) /\ DOMAIN t = DOMAIN s /\ Len(t) = Len(s)
             /\ \A i \in DOMAIN s : t[i].length = s[i].length /\ t[i].outcome = s[i].outcome
<1>. DEFINE r(i) == [s[i] EXCEPT !.age = Cap(s[i].age + d, AgeCap)]
            t == [i \in DOMAIN s |-> r(i)]
<1>1. ASSUME NEW i \in DOMAIN s
      PROVE  r(i) \in Session /\ r(i).length = s[i].length /\ r(i).outcome = s[i].outcome
  <2>1. s[i] \in Session
    OBVIOUS
  <2>2. s[i].age \in Nat /\ AgeCap \in Nat
    BY <2>1, SessionsAssumption DEF Session
  <2>3. Cap(s[i].age + d, AgeCap) \in 0..AgeCap
    BY <2>2 DEF Cap
  <2>. QED  BY <2>1, <2>3 DEF Session
<1>. HIDE DEF r
<1>2. DOMAIN s = 1..Len(s) /\ Len(s) \in Nat
  OBVIOUS
<1>3. t \in [1..Len(s) -> Session]
  BY <1>1, <1>2
<1>4. t \in Seq(Session) /\ DOMAIN t = DOMAIN s /\ Len(t) = Len(s)
  BY <1>2, <1>3
<1>5. /\ t \in Seq(Session) /\ DOMAIN t = DOMAIN s /\ Len(t) = Len(s)
      /\ \A i \in DOMAIN s : t[i].length = s[i].length /\ t[i].outcome = s[i].outcome
  BY <1>1, <1>4
<1>. QED  BY <1>5 DEF r

(* Time passes, and the rows grow older.                                     *)
LEMMA ElapseKeeps ==
  ASSUME IInv, NEW d \in Steps, Elapse(d)
  PROVE  IInv'
<1>1. TypeOK /\ sess \in Seq(Session) /\ d \in Nat
  BY SessionsAssumption DEF IInv, TypeOK
<1>2. sess' \in Seq(Session) /\ DOMAIN sess' = DOMAIN sess
  BY <1>1, ElapseFacts DEF Elapse
<1>3. CliState \subseteq CliState'
  BY <1>2, CliStateGrows
<1>4. /\ breakLeft' \in 0..BreakLen
      /\ breakLeft = 0 => breakLeft' = 0
      /\ sinceResync' \in 0..ResyncEvery
  BY <1>1, SessionsAssumption DEF TypeOK, Elapse, Cap
<1>5. UNCHANGED <<up, mine, lastPhase, asked, cli, crashes>>
  BY DEF Elapse
<1>6. TypeOK'
  BY <1>1, <1>2, <1>3, <1>4, <1>5 DEF TypeOK
<1>. QED  BY <1>4, <1>5, <1>6 DEF IInv, PhaseInv

-----------------------------------------------------------------------------
(* In every state the variables have their types, and the phase was          *)
(* announced as "focus" exactly while the daemon holds a session.             *)
THEOREM Inductive == Spec => []IInv
<1>1. Init => IInv
  <2>. SUFFICES ASSUME Init
                PROVE  TypeOK /\ PhaseInv
    BY DEF IInv
  <2>1. sess \in Seq(Session)
    BY DEF Init
  <2>2. cli \in [Clis -> CliState]
    BY DEF Init, CliState
  <2>3. 0 \in 0..BreakLen /\ ResyncEvery \in 0..ResyncEvery /\ 0 \in 0..MaxCrashes
    BY SessionsAssumption
  <2>. QED  BY <2>1, <2>2, <2>3 DEF Init, TypeOK, PhaseInv
<1>2. IInv /\ [Next]_vars => IInv'
  <2>. SUFFICES ASSUME IInv, [Next]_vars
                PROVE  IInv'
    OBVIOUS
  <2>1. CASE Next
    BY <2>1, DaemonStartKeeps, UserStartKeeps, UserEndKeeps, AnswerKeeps, TickKeeps,
       CrashKeeps, CliDecideKeeps, CliStepKeeps, ElapseKeeps DEF Next
  <2>2. CASE UNCHANGED vars
    BY <2>2 DEF vars, daemon, IInv, TypeOK, PhaseInv, CliState
  <2>. QED  BY <2>1, <2>2
<1>. QED  BY <1>1, <1>2, PTL DEF Spec

(* The type invariant, for every instance.                                   *)
THEOREM TypeCorrect == Spec => []TypeOK
BY Inductive, PTL DEF IInv

-----------------------------------------------------------------------------
(* A session that has ended keeps its end, and its outcome.                  *)
Kept(s, t) ==
  \A i \in DOMAIN s : ~ IsOpen(s, i) =>
    i \in DOMAIN t /\ t[i].length = s[i].length /\ t[i].outcome = s[i].outcome

(* end_session keeps the end of those that had ended ...                     *)
LEMMA EndedKept ==
  ASSUME NEW s \in Seq(Session), NEW i \in DOMAIN s,
         NEW length \in 0..AgeCap, NEW outcome \in Outcomes \cup {None}
  PROVE  Kept(s, Ended(s, i, length, outcome))
<1>. DEFINE t == Ended(s, i, length, outcome)
<1>1. DOMAIN t = DOMAIN s /\ \A j \in DOMAIN s : ~ IsOpen(s, j) => t[j] = s[j]
  BY EndedFacts
<1>. HIDE DEF t
<1>. QED  BY <1>1 DEF Kept, t

(* ... and so does start_session.                                            *)
LEMMA StartedKept ==
  ASSUME NEW s \in Seq(Session), NEW r \in Seq(Session), Kept(s, r), NEW plan \in Plans
  PROVE  Kept(s, Started(r, plan))
<1>. DEFINE t == Started(r, plan)
<1>1. DOMAIN r \subseteq DOMAIN t /\ \A j \in DOMAIN r : t[j] = r[j]
  BY StartedFacts
<1>. HIDE DEF t
<1>. QED  BY <1>1 DEF Kept, t

(* Every step but an answer keeps the ended sessions as they are.            *)
LEMMA StepKeepsEnded ==
  ASSUME IInv, Next
  PROVE  \/ Kept(sess, sess')
         \/ \E i \in asked, o \in Outcomes : Answer(i, o)
         \/ \E i \in DOMAIN sess, o \in Outcomes : ApiOutcome(i, o)
<1>1. /\ sess \in Seq(Session) /\ cli \in [Clis -> CliState]
      /\ mine = 0 \/ mine \in DOMAIN sess
  BY DEF IInv, TypeOK
<1>2. Newest(sess) = 0 \/ Newest(sess) \in DOMAIN sess
  BY <1>1, NewestFacts
<1>3. sess' = sess => Kept(sess, sess')
  BY DEF Kept
<1>4. CASE DaemonStart
  <2>1. CASE Newest(sess) # 0 /\ IsStale(sess, Newest(sess))
    <3>1. sess' = Ended(sess, Newest(sess), sess[Newest(sess)].plan + Grace, None)
      BY <1>4, <2>1 DEF DaemonStart
    <3>. QED  BY <1>1, <1>2, <2>1, <3>1, EndedKept, LengthFacts
  <2>2. CASE ~ (Newest(sess) # 0 /\ IsStale(sess, Newest(sess)))
    BY <1>3, <1>4, <2>2 DEF DaemonStart
  <2>. QED  BY <2>1, <2>2
<1>5. ASSUME NEW plan \in Plans, UserStart(plan)
      PROVE  Kept(sess, sess')
  <2>. DEFINE ended == IF mine = 0 THEN sess ELSE Ended(sess, mine, sess[mine].age, None)
  <2>1. ended \in Seq(Session) /\ Kept(sess, ended)
    <3>1. CASE mine = 0
      BY <1>1, <3>1 DEF Kept
    <3>2. CASE mine \in DOMAIN sess
      <4>1. sess[mine].age \in 0..AgeCap
        BY <1>1, <3>2, LengthFacts
      <4>2. mine # 0
        BY <1>1, <3>2
      <4>3. ended = Ended(sess, mine, sess[mine].age, None)
        BY <4>2
      <4>. QED  BY <1>1, <3>2, <4>1, <4>3, EndedFacts, EndedKept
    <3>. QED  BY <1>1, <3>1, <3>2
  <2>. HIDE DEF ended
  <2>2. sess' = Started(ended, plan)
    BY <1>5 DEF UserStart, ended
  <2>. QED  BY <1>1, <2>1, <2>2, StartedKept
<1>6. ASSUME NEW o \in Outcomes \cup {None}, UserEnd(o)
      PROVE  Kept(sess, sess')
  BY <1>1, <1>6, EndedKept, LengthFacts DEF UserEnd
<1>7. CASE Tick
  <2>. DEFINE i == IF sinceResync >= ResyncEvery THEN Newest(sess) ELSE mine
  <2>1. i = 0 \/ i \in DOMAIN sess
    BY <1>1, <1>2
  <2>2. sess' = sess \/ (i # 0 /\ sess' = Ended(sess, i, sess[i].age, None))
    BY <1>7 DEF Tick
  <2>. HIDE DEF i
  <2>. QED  BY <1>1, <1>3, <2>1, <2>2, EndedKept, LengthFacts
<1>8. ASSUME NEW c \in Clis, CliEnd(c)
      PROVE  Kept(sess, sess')
  <2>1. cli[c].row \in DOMAIN sess /\ cli[c].outcome \in Outcomes \cup {None}
    BY <1>1, <1>8 DEF CliEnd, CliState, Idle
  <2>. QED  BY <1>1, <1>8, <2>1, EndedKept, LengthFacts DEF CliEnd
<1>9. ASSUME NEW c \in Clis, CliInsert(c)
      PROVE  Kept(sess, sess')
  <2>1. cli[c].plan \in Plans
    BY <1>1, <1>9 DEF CliInsert, CliState, Idle
  <2>2. Kept(sess, sess)
    BY DEF Kept
  <2>. QED  BY <1>1, <1>3, <1>9, <2>1, <2>2, StartedKept DEF CliInsert
<1>10. ASSUME NEW d \in Steps, Elapse(d)
       PROVE  Kept(sess, sess')
  <2>1. /\ DOMAIN sess' = DOMAIN sess
        /\ \A i \in DOMAIN sess : /\ sess'[i].length = sess[i].length
                                  /\ sess'[i].outcome = sess[i].outcome
    <3>1. d \in Nat
      BY SessionsAssumption
    <3>. QED  BY <1>1, <1>10, <3>1, ElapseFacts DEF Elapse
  <2>. QED  BY <2>1 DEF Kept
<1>11. CASE Crash \/ (\E c \in Clis, p \in Plans : CliStart(c, p))
            \/ (\E c \in Clis, o \in Outcomes \cup {None} : CliStop(c, o))
  BY <1>3, <1>11 DEF Crash, CliStart, CliStop
<1>. QED  BY <1>4, <1>5, <1>6, <1>7, <1>8, <1>9, <1>10, <1>11 DEF Next, CliStep

(* The first to end a session decides when it ended, for any number of       *)
(* processes.                                                                 *)
THEOREM EndsOnce == Spec => EndIsFinal
<1>. DEFINE Final == \A i \in DOMAIN sess : ~ IsOpen(sess, i) =>
        /\ i \in DOMAIN sess' /\ sess'[i].length = sess[i].length
        /\ sess'[i].outcome # sess[i].outcome => RecordsOnly(i)
<1>1. IInv /\ [Next]_vars => [Final]_vars
  <2>. SUFFICES ASSUME IInv, Next
                PROVE  Final
    OBVIOUS
  <2>1. sess \in Seq(Session) /\ asked \subseteq DOMAIN sess
    BY DEF IInv, TypeOK
  <2>2. CASE Kept(sess, sess')
    BY <2>2 DEF Kept
  <2>3. ASSUME NEW i \in DOMAIN sess, NEW o \in Outcomes,
               sess' = [sess EXCEPT ![i] = [@ EXCEPT !.outcome = o]],
               UNCHANGED <<up, mine, breakLeft, sinceResync, lastPhase, cli, crashes>>
        PROVE  Final
    <3>1. /\ DOMAIN sess' = DOMAIN sess /\ \A j \in DOMAIN sess : sess'[j].length = sess[j].length
          /\ \A j \in DOMAIN sess \ {i} : sess'[j] = sess[j]
          /\ sess'[i].outcome = o
      BY <2>1, <2>3, OutcomeFacts
    <3>2. RecordsOnly(i)
      BY <2>3, <3>1 DEF RecordsOnly
    <3>. QED  BY <2>3, <3>1, <3>2
  <2>. HIDE DEF Final
  <2>4. CASE \E i \in asked, o \in Outcomes : Answer(i, o)
    BY <2>1, <2>3, <2>4 DEF Answer
  <2>5. CASE \E i \in DOMAIN sess, o \in Outcomes : ApiOutcome(i, o)
    BY <2>3, <2>5 DEF ApiOutcome, daemon
  <2>. QED  BY <2>2, <2>4, <2>5, StepKeepsEnded
<1>. QED  BY <1>1, Inductive, PTL DEF Spec, EndIsFinal

-----------------------------------------------------------------------------
(* The phase, from what the daemon holds.                                    *)
LEMMA PhaseFacts ==
  ASSUME IInv
  PROVE  /\ ~ up => Phase = "off"
         /\ up => Phase = IF mine # 0 THEN "focus" ELSE IF breakLeft > 0 THEN "break" ELSE "idle"
BY DEF Phase, PhaseOf

(* The phase after a step.                                                   *)
LEMMA PrimedPhaseFacts ==
  ASSUME IInv'
  PROVE  /\ ~ up' => Phase' = "off"
         /\ up' => Phase' = IF mine' # 0 THEN "focus" ELSE IF breakLeft' > 0 THEN "break" ELSE "idle"
BY DEF Phase, PhaseOf

(* A step that leaves a focus, if there was one, for a new session.          *)
LEMMA UserStartPhase ==
  ASSUME IInv, IInv', NEW plan \in Plans, UserStart(plan)
  PROVE  Phases!Begin \/ Phases!Replace
<1>1. up /\ up' /\ Phase' = "focus"
  <2>1. sess \in Seq(Session) /\ mine' = Len(sess) + 1
    BY DEF IInv, TypeOK, UserStart
  <2>. QED  BY <2>1, PrimedPhaseFacts DEF UserStart, IInv, TypeOK
<1>2. CASE mine = 0
  <2>1. lastPhase # "focus" /\ Phase \in {"idle", "break"}
    BY <1>1, <1>2, PhaseFacts DEF IInv, PhaseInv
  <2>2. <<"session_start">> \in Seq({"session_start"})
    OBVIOUS
  <2>3. notices' = <<>> \o <<"session_start">>
    BY <1>2, <2>1, ContextsFacts DEF UserStart
  <2>4. notices' = <<"session_start">>
    BY <2>2, <2>3, ConcatEmptySeq
  <2>. QED  BY <1>1, <2>1, <2>4 DEF Phases!Begin
<1>3. CASE mine # 0
  <2>1. lastPhase = "focus" /\ Phase = "focus" /\ AfterFocus # "focus"
    BY <1>1, <1>3, PhaseFacts, AfterFocusFacts DEF IInv, PhaseInv
  <2>2. notices' = (<<"session_end">> \o Phases!OnBreak) \o <<"session_start">>
    BY <1>3, <2>1, ContextsFacts DEF UserStart
  <2>3. notices' = <<"session_end">> \o Phases!OnBreak \o <<"session_start">>
    BY <2>2
  <2>. QED  BY <1>1, <2>1, <2>3 DEF Phases!Replace
<1>. QED  BY <1>2, <1>3

(* A tick announces what the abstract phases allow.                          *)
LEMMA TickPhase ==
  ASSUME IInv, IInv', Tick
  PROVE  Phases!PhasesNext
<1>1. up /\ up'
  BY DEF Tick, IInv, TypeOK
<1>2. CASE UNCHANGED <<mine, breakLeft, lastPhase>> /\ notices' = <<>>
  BY <1>1, <1>2, PhaseFacts, PrimedPhaseFacts DEF Phases!Quiet, Phases!PhasesNext
<1>3. CASE /\ mine' \in DOMAIN sess \ {0} /\ breakLeft' = 0 /\ lastPhase' = "focus"
           /\ notices' = IF mine = 0 THEN <<"session_start">> ELSE <<>>
  <2>1. Phase' = "focus"
    BY <1>1, <1>3, PrimedPhaseFacts
  <2>2. CASE mine = 0
    BY <1>1, <1>3, <2>1, <2>2, PhaseFacts DEF Phases!Begin, Phases!PhasesNext
  <2>3. CASE mine # 0
    BY <1>1, <1>3, <2>1, <2>3, PhaseFacts DEF Phases!Quiet, Phases!PhasesNext
  <2>. QED  BY <2>2, <2>3
<1>4. CASE /\ mine' = 0 /\ breakLeft' = BreakLen /\ lastPhase' = AfterFocus
           /\ notices' = (IF mine = 0 THEN <<"session_start">> ELSE <<>>)
                         \o (<<"session_end">> \o Phases!OnBreak)
  <2>1. Phase' = Phases!AfterFocus
    BY <1>1, <1>4, PrimedPhaseFacts DEF Phases!AfterFocus
  <2>2. CASE mine = 0
    <3>1. Phases!OnBreak = <<"on_break">> \/ Phases!OnBreak = <<>>
      BY DEF Phases!OnBreak
    <3>2. <<"session_start">> \o (<<"session_end">> \o Phases!OnBreak)
            = <<"session_start", "session_end">> \o Phases!OnBreak
      BY <3>1
    <3>. QED  BY <1>1, <1>4, <2>1, <2>2, <3>2, PhaseFacts DEF Phases!Glimpse, Phases!PhasesNext
  <2>3. CASE mine # 0
    <3>1. <<>> \o (<<"session_end">> \o Phases!OnBreak) = <<"session_end">> \o Phases!OnBreak
      <4>1. Phases!OnBreak = <<"on_break">> \/ Phases!OnBreak = <<>>
        BY DEF Phases!OnBreak
      <4>. QED  BY <4>1
    <3>. QED  BY <1>1, <1>4, <2>1, <2>3, <3>1, PhaseFacts DEF Phases!Leave, Phases!PhasesNext
  <2>. QED  BY <2>2, <2>3
<1>. QED  BY <1>2, <1>3, <1>4, TickCases

(* Every step of the daemon, and of the processes around it, is a step of    *)
(* FocusPhases or changes nothing it shows.                                   *)
THEOREM RefinesPhases == Spec => ImplementsPhases
<1>1. Init => Phases!PhasesInit
  BY DEF Init, Phases!PhasesInit, Phase
<1>2. IInv /\ IInv' /\ [Next]_vars => [Phases!PhasesNext]_(Phases!phaseVars)
  <2>. SUFFICES ASSUME IInv, IInv', [Next]_vars
                PROVE  [Phases!PhasesNext]_(Phases!phaseVars)
    OBVIOUS
  <2>. USE PhaseFacts, PrimedPhaseFacts DEF Phases!PhasesNext
  <2>1. CASE DaemonStart
    <3>1. up' /\ breakLeft' = 0 /\ ~ up /\ notices' = <<>>
      BY <2>1 DEF DaemonStart
    <3>2. Phase' \in {"idle", "focus"}
      BY <3>1
    <3>. QED  BY <3>1, <3>2 DEF Phases!Boot
  <2>2. ASSUME NEW p \in Plans, UserStart(p)
        PROVE  Phases!PhasesNext
    BY <2>2, UserStartPhase
  <2>3. ASSUME NEW o \in Outcomes \cup {None}, UserEnd(o)
        PROVE  Phases!PhasesNext
    <3>1. /\ up /\ up' /\ mine # 0 /\ mine' = 0 /\ breakLeft' = BreakLen
          /\ lastPhase = "focus"
      BY <2>3 DEF UserEnd, IInv, TypeOK, PhaseInv
    <3>2. notices' = <<"session_end">> \o Phases!OnBreak
      BY <2>3, <3>1, ContextsFacts DEF UserEnd
    <3>. QED  BY <3>1, <3>2 DEF Phases!Leave, Phases!AfterFocus
  <2>4. CASE Tick
    BY <2>4, TickPhase
  <2>5. CASE Crash
    BY <2>5 DEF Crash, Phases!Off
  <2>6. ASSUME UNCHANGED <<up, mine, breakLeft>>, notices' = <<>>
        PROVE  Phases!PhasesNext
    BY <2>6 DEF Phases!Quiet
  <2>7. ASSUME NEW i \in asked, NEW o \in Outcomes, Answer(i, o)
        PROVE  Phases!PhasesNext
    BY <2>6, <2>7 DEF Answer
  <2>8. ASSUME NEW i \in DOMAIN sess, NEW o \in Outcomes, ApiOutcome(i, o)
        PROVE  Phases!PhasesNext
    BY <2>6, <2>8 DEF ApiOutcome, daemon
  <2>9. ASSUME NEW c \in Clis,
               \/ \E p \in Plans : CliStart(c, p)
               \/ \E o \in Outcomes \cup {None} : CliStop(c, o)
               \/ CliStep(c)
        PROVE  Phases!PhasesNext
    BY <2>6, <2>9 DEF CliStart, CliStop, CliStep, CliEnd, CliInsert, daemon
  <2>10. ASSUME NEW d \in Steps, Elapse(d)
         PROVE  Phases!PhasesNext
    <3>1. /\ UNCHANGED <<up, mine>> /\ notices' = <<>>
          /\ breakLeft' = 0 \/ (breakLeft' > 0 /\ breakLeft > 0)
      BY <2>10, SessionsAssumption DEF Elapse, IInv, TypeOK
    <3>2. CASE ~ up \/ mine # 0
      BY <3>1, <3>2 DEF Phases!Quiet
    <3>3. CASE up /\ mine = 0
      <4>1. CASE breakLeft > 0 /\ breakLeft' = 0
        BY <3>1, <3>3, <4>1 DEF Phases!Lapse
      <4>2. CASE ~ (breakLeft > 0) /\ breakLeft' = 0
        BY <3>1, <3>3, <4>2 DEF Phases!Quiet
      <4>3. CASE breakLeft' > 0 /\ breakLeft > 0
        BY <3>1, <3>3, <4>3 DEF Phases!Quiet
      <4>. QED  BY <3>1, <4>1, <4>2, <4>3
    <3>. QED  BY <3>2, <3>3
  <2>11. CASE UNCHANGED vars
    BY <2>11 DEF vars, daemon, Phase, Phases!phaseVars
  <2>. QED  BY <2>1, <2>2, <2>3, <2>4, <2>5, <2>7, <2>8, <2>9, <2>10, <2>11 DEF Next
<1>. QED  BY <1>1, <1>2, Inductive, PTL DEF Spec, ImplementsPhases, Phases!PhasesSpec

-----------------------------------------------------------------------------
(* Without a command line process beside it, the daemon leaves no session     *)
(* open but its own; while it is down, there is at most the one it left.      *)
WriterInv ==
  /\ up => OpenRows(sess) \subseteq {mine}
  /\ \E i \in Nat : OpenRows(sess) \subseteq {i}

(* Without commands, the daemon's session is the only open one.              *)
LEMMA WriterStep ==
  ASSUME IInv, IInv', WriterInv, Next, Clis = {}
  PROVE  WriterInv'
<1>1. /\ sess \in Seq(Session) /\ (mine = 0 \/ mine \in DOMAIN sess)
      /\ sess' \in Seq(Session) /\ mine' \in Nat
      /\ OpenRows(sess) \subseteq DOMAIN sess
  BY DEF IInv, TypeOK, OpenRows
<1>2. ASSUME OpenRows(sess') \subseteq {mine'}
      PROVE  WriterInv'
  BY <1>1, <1>2 DEF WriterInv
<1>3. ASSUME UNCHANGED <<up, mine>>, OpenRows(sess') = OpenRows(sess)
      PROVE  WriterInv'
  BY <1>3 DEF WriterInv
<1>4. CASE DaemonStart
  <2>. DEFINE i == Newest(sess)
  <2>1. PICK k \in Nat : OpenRows(sess) \subseteq {k}
    BY DEF WriterInv
  <2>2. \/ i = 0 /\ OpenRows(sess) = {}
        \/ i \in OpenRows(sess) /\ i \in DOMAIN sess /\ i # 0
    BY <1>1, NewestFacts
  <2>3. OpenRows(sess) \subseteq {i}
    BY <2>1, <2>2
  <2>4. CASE i # 0 /\ IsStale(sess, i)
    <3>1. sess' = Ended(sess, i, sess[i].plan + Grace, None) /\ i \in DOMAIN sess
      BY <1>4, <2>2, <2>4 DEF DaemonStart
    <3>2. OpenRows(Ended(sess, i, sess[i].plan + Grace, None)) = OpenRows(sess) \ {i}
      BY <1>1, <3>1, EndedFacts, LengthFacts
    <3>. QED  BY <1>2, <2>3, <3>1, <3>2
  <2>5. CASE ~ (i # 0 /\ IsStale(sess, i))
    <3>1. sess' = sess /\ mine' = i
      BY <1>4, <2>5 DEF DaemonStart
    <3>. QED  BY <1>2, <2>3, <3>1
  <2>. QED  BY <2>4, <2>5
<1>5. ASSUME NEW plan \in Plans, UserStart(plan)
      PROVE  WriterInv'
  <2>. DEFINE ended == IF mine = 0 THEN sess ELSE Ended(sess, mine, sess[mine].age, None)
  <2>1. OpenRows(sess) \subseteq {mine}
    BY <1>5 DEF UserStart, WriterInv
  <2>2. ended \in Seq(Session) /\ Len(ended) = Len(sess) /\ OpenRows(ended) = {}
    <3>1. CASE mine = 0
      <4>1. 0 \notin DOMAIN sess
        BY <1>1
      <4>. QED  BY <1>1, <2>1, <3>1, <4>1
    <3>2. CASE mine # 0
      <4>1. mine \in DOMAIN sess /\ sess[mine].age \in 0..AgeCap
        BY <1>1, <3>2, LengthFacts
      <4>2. ended = Ended(sess, mine, sess[mine].age, None)
        BY <3>2
      <4>. QED  BY <1>1, <2>1, <4>1, <4>2, EndedFacts
    <3>. QED  BY <3>1, <3>2
  <2>. HIDE DEF ended
  <2>3. sess' = Started(ended, plan) /\ mine' = Len(sess) + 1
    BY <1>5 DEF UserStart, ended
  <2>4. OpenRows(Started(ended, plan)) = {mine'}
    BY <2>2, <2>3, StartedFacts
  <2>. QED  BY <1>2, <2>3, <2>4
<1>6. ASSUME NEW o \in Outcomes \cup {None}, UserEnd(o)
      PROVE  WriterInv'
  <2>1. OpenRows(sess) \subseteq {mine} /\ mine \in DOMAIN sess /\ mine # 0
    BY <1>1, <1>6 DEF UserEnd, WriterInv
  <2>2. OpenRows(Ended(sess, mine, sess[mine].age, o)) = OpenRows(sess) \ {mine}
    BY <1>1, <2>1, EndedFacts, LengthFacts
  <2>. QED  BY <1>2, <1>6, <2>1, <2>2 DEF UserEnd
<1>7. CASE Tick
  <2>. DEFINE i == IF sinceResync >= ResyncEvery THEN Newest(sess) ELSE mine
              overrun == i # 0 /\ sess[i].age >= sess[i].plan
  <2>1. OpenRows(sess) \subseteq {i} /\ (i = 0 \/ i \in DOMAIN sess)
    BY <1>1, <1>7, NewestFacts DEF Tick, WriterInv
  <2>2. overrun => sess' = Ended(sess, i, sess[i].age, None) /\ i # 0
    BY <1>7 DEF Tick
  <2>3. ~ overrun => sess' = sess /\ mine' = i
    BY <1>7 DEF Tick
  <2>. HIDE DEF overrun, i
  <2>4. CASE overrun
    <3>1. OpenRows(Ended(sess, i, sess[i].age, None)) = OpenRows(sess) \ {i}
      BY <1>1, <2>1, <2>2, <2>4, EndedFacts, LengthFacts
    <3>. QED  BY <1>2, <2>1, <2>2, <2>4, <3>1
  <2>5. CASE ~ overrun
    BY <1>2, <2>1, <2>3, <2>5
  <2>. QED  BY <2>4, <2>5
<1>8. ASSUME NEW i \in DOMAIN sess, NEW o \in Outcomes,
             sess' = [sess EXCEPT ![i] = [@ EXCEPT !.outcome = o]], UNCHANGED <<up, mine>>
      PROVE  WriterInv'
  <2>1. DOMAIN sess' = DOMAIN sess /\ \A j \in DOMAIN sess : sess'[j].length = sess[j].length
    BY <1>1, <1>8, OutcomeFacts
  <2>. QED  BY <1>3, <1>8, <2>1 DEF OpenRows, IsOpen
<1>9. CASE \E i \in asked, o \in Outcomes : Answer(i, o)
  BY <1>8, <1>9 DEF Answer, IInv, TypeOK
<1>10. CASE \E i \in DOMAIN sess, o \in Outcomes : ApiOutcome(i, o)
  <2>1. sess # <<>> => Len(sess) \in DOMAIN sess
    BY <1>1
  <2>. QED  BY <1>8, <1>10, <2>1 DEF ApiOutcome, daemon
<1>11. ASSUME NEW d \in Steps, Elapse(d)
       PROVE  WriterInv'
  <2>1. d \in Nat /\ sess \in Seq(Session)
    BY <1>1, SessionsAssumption
  <2>2. /\ DOMAIN sess' = DOMAIN sess
        /\ \A j \in DOMAIN sess : /\ sess'[j].length = sess[j].length
                                  /\ sess'[j].outcome = sess[j].outcome
    BY <1>11, <2>1, ElapseFacts DEF Elapse
  <2>. QED  BY <1>3, <1>11, <2>2 DEF Elapse, OpenRows, IsOpen
<1>12. CASE Crash
  BY <1>12 DEF Crash, WriterInv
<1>. QED  BY <1>4, <1>5, <1>6, <1>7, <1>9, <1>10, <1>11, <1>12 DEF Next

(* The daemon alone never leaves two sessions open: what the run with a      *)
(* command line process shows comes from the window between its two           *)
(* statements and the daemon's resync.                                        *)
THEOREM OneWriter == Clis = {} => (Spec => []AtMostOneOpen)
<1>. SUFFICES ASSUME Clis = {}
              PROVE  Spec => []AtMostOneOpen
  OBVIOUS
<1>1. Init => WriterInv
  BY DEF Init, WriterInv, OpenRows, IsOpen
<1>2. IInv /\ IInv' /\ WriterInv /\ [Next]_vars => WriterInv'
  BY WriterStep DEF vars, daemon, WriterInv
<1>3. WriterInv => AtMostOneOpen
  <2>. SUFFICES ASSUME WriterInv
                PROVE  AtMostOneOpen
    OBVIOUS
  <2>1. PICK i \in Nat : OpenRows(sess) \subseteq {i}
    BY DEF WriterInv
  <2>2. OpenRows(sess) = {} \/ OpenRows(sess) = {i}
    BY <2>1
  <2>3. Cardinality({}) = 0 /\ Cardinality({i}) = 1
    BY FS_EmptySet, FS_Singleton
  <2>. QED  BY <2>2, <2>3 DEF AtMostOneOpen
<1>. QED  BY <1>1, <1>2, <1>3, Inductive, PTL DEF Spec

=============================================================================
