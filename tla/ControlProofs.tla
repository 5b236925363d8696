--------------------------- MODULE ControlProofs ----------------------------
(***************************************************************************)
(* Proofs about Control, for queues of any size from 2 on and any number of *)
(* requests, ticks and prompts.                                             *)
(***************************************************************************)
EXTENDS Control, SequenceTheorems, TLAPS

Postures == {"asleep", "neutral", "soft-alert"}
Slots == {"start_session", "end_session", "stop"}

TypeOK ==
  /\ requests \in Nat /\ queue \in Seq(Nat) /\ batch \in Seq(Nat) /\ ran \in Seq(Nat)
  /\ worker \in {"new", "idle", "ticking", "stopped"}
  /\ inbox \in Seq(Slots)
  /\ session \in BOOLEAN /\ mascot \in Postures \cup {"none"} /\ astray \in BOOLEAN
  /\ bus \in [tick : Nat, mascot : Postures \cup {"none"}]
  /\ stream \in [state : {"off", "registered", "on"}, first : Nat, buffer : Seq(Nat), shown : Nat]
  /\ gui \in {"running", "stopping", "quitting", "leaving", "exited"}
  /\ stopped \in BOOLEAN
  /\ signalled \in Postures \cup {"none"} /\ screen \in Postures

(* Outside of a tick nothing is drained and not yet run. *)
DrainInv == worker # "ticking" => batch = <<>>

(* Before the worker has started, nobody has told of a posture. *)
MascotInv == worker = "new" => mascot = "none"

-----------------------------------------------------------------------------
(* The types, step by step. *)

(* The posture that the state of the session and of drift calls for.         *)
LEMMA PostureType == ASSUME NEW r \in BOOLEAN, NEW d \in BOOLEAN
                     PROVE  Posture(r, d) \in Postures
BY DEF Posture, Postures

(* What _update_mascot leaves, with or without a signal.                     *)
LEMMA BecomesType ==
  ASSUME TypeOK, NEW r \in BOOLEAN, NEW posture \in Postures, NEW d \in BOOLEAN,
         Becomes(r, posture, d)
  PROVE  /\ session' \in BOOLEAN /\ mascot' \in Postures /\ astray' \in BOOLEAN
         /\ signalled' \in Postures \cup {"none"}
BY DEF TypeOK, Becomes

(* _offer on a subscriber's queue.                                           *)
LEMMA OfferedType ==
  ASSUME NEW b \in Seq(Nat), NEW n \in Nat
  PROVE  Offered(b, n) \in Seq(Nat)
<1>1. CASE Len(b) < QueueSize
  BY <1>1, AppendProperties DEF Offered
<1>2. CASE ~(Len(b) < QueueSize)
  <2>1. b # <<>>
    BY <1>2, ControlAssumption
  <2>2. Tail(b) \in Seq(Nat)
    BY <2>1, HeadTailProperties
  <2>. QED  BY <1>2, <2>2, AppendProperties DEF Offered
<1>. QED  BY <1>1, <1>2

(* Every step keeps the types.                                               *)
LEMMA TypeStep ==
  ASSUME TypeOK, [Next]_vars
  PROVE  TypeOK'
<1>. USE DEF TypeOK
<1>1. CASE Submit
  <2>1. requests' \in Nat /\ queue' \in Seq(Nat)
    BY <1>1, AppendProperties DEF Submit
  <2>. QED  BY <1>1, <2>1 DEF Submit, pipeline, ui
<1>2. CASE Subscribe \/ DeliverFirst \/ Receive \/ Disconnect
  <2>1. stream' \in [state : {"off", "registered", "on"}, first : Nat, buffer : Seq(Nat), shown : Nat]
    <3>1. CASE Subscribe
      <4>1. bus.tick \in Nat /\ <<>> \in Seq(Nat)
        OBVIOUS
      <4>2. \E state \in {"registered", "on"} :
              stream' = [state |-> state, first |-> bus.tick, buffer |-> <<>>, shown |-> 0]
        BY <3>1 DEF Subscribe, NotConnected
      <4>. QED  BY <4>1, <4>2
    <3>2. CASE DeliverFirst
      <4>1. Offered(stream.buffer, stream.first) \in Seq(Nat)
        BY OfferedType
      <4>. QED  BY <3>2, <4>1 DEF DeliverFirst
    <3>3. CASE Receive
      <4>1. Head(stream.buffer) \in Nat /\ Tail(stream.buffer) \in Seq(Nat)
        BY <3>3, HeadTailProperties DEF Receive
      <4>. QED  BY <3>3, <4>1 DEF Receive
    <3>4. CASE Disconnect
      BY <3>4 DEF Disconnect, NotConnected
    <3>. QED  BY <1>2, <3>1, <3>2, <3>3, <3>4
  <2>. QED  BY <1>2, <2>1 DEF Subscribe, DeliverFirst, Receive, Disconnect, api, pipeline, ui
<1>3. CASE Start
  <2>1. PICK r \in BOOLEAN, d \in BOOLEAN : Becomes(r, Posture(r, d), TRUE)
    BY <1>3 DEF Start
  <2>2. /\ session' \in BOOLEAN /\ mascot' \in Postures /\ astray' \in BOOLEAN
        /\ signalled' \in Postures \cup {"none"}
    BY <2>1, PostureType, BecomesType
  <2>. QED  BY <1>3, <2>2 DEF Start, api, ui
<1>4. CASE TickBegins
  BY <1>4 DEF TickBegins, pipeline, ui
<1>5. CASE RunCommand
  <2>1. PICK name \in Commands :
          /\ batch' = Left(name = "unknown")
          /\ CASE name = "start_session" -> Becomes(TRUE, Posture(TRUE, FALSE), FALSE)
               [] name = "end_session" /\ session -> Becomes(FALSE, Posture(FALSE, FALSE), FALSE)
               [] OTHER -> UNCHANGED <<pipeline, astray, signalled>>
    BY <1>5 DEF RunCommand
  <2>2. /\ session' \in BOOLEAN /\ mascot' \in Postures \cup {"none"} /\ astray' \in BOOLEAN
        /\ signalled' \in Postures \cup {"none"}
    <3>1. CASE Becomes(TRUE, Posture(TRUE, FALSE), FALSE)
      BY <3>1, PostureType, BecomesType
    <3>2. CASE Becomes(FALSE, Posture(FALSE, FALSE), FALSE)
      BY <3>2, PostureType, BecomesType
    <3>3. CASE UNCHANGED <<pipeline, astray, signalled>>
      BY <3>3 DEF pipeline
    <3>. QED  BY <2>1, <3>1, <3>2, <3>3
  <2>3. batch' \in Seq(Nat) /\ ran' \in Seq(Nat)
    BY <1>5, <2>1, HeadTailProperties, AppendProperties DEF RunCommand, Left
  <2>. QED  BY <1>5, <2>2, <2>3 DEF RunCommand, api, ui
<1>6. CASE TickEnds
  <2>1. PICK r \in BOOLEAN, d \in BOOLEAN :
          Becomes(r, Posture(r, d), TRUE) /\ Published(Posture(r, d))
    BY <1>6 DEF TickEnds
  <2>2. /\ session' \in BOOLEAN /\ mascot' \in Postures /\ astray' \in BOOLEAN
        /\ signalled' \in Postures \cup {"none"}
    BY <2>1, PostureType, BecomesType
  <2>3. bus' \in [tick : Nat, mascot : Postures \cup {"none"}]
    BY <2>1, PostureType DEF Published
  <2>4. stream' \in [state : {"off", "registered", "on"}, first : Nat, buffer : Seq(Nat), shown : Nat]
    <3>1. Offered(stream.buffer, bus.tick + 1) \in Seq(Nat)
      BY OfferedType
    <3>. QED  BY <2>1, <3>1 DEF Published
  <2>. QED  BY <1>6, <2>2, <2>3, <2>4 DEF TickEnds, api, ui
<1>7. CASE TakeRequest
  <2>1. inbox' \in Seq(Slots)
    BY <1>7, HeadTailProperties DEF TakeRequest
  <2>2. /\ session' \in BOOLEAN /\ mascot' \in Postures \cup {"none"} /\ astray' \in BOOLEAN
        /\ signalled' \in Postures \cup {"none"}
    <3>1. CASE Becomes(TRUE, Posture(TRUE, FALSE), TRUE)
      BY <3>1, PostureType, BecomesType
    <3>2. CASE Becomes(FALSE, Posture(FALSE, FALSE), TRUE)
      BY <3>2, PostureType, BecomesType
    <3>3. CASE UNCHANGED <<pipeline, astray, signalled>>
      BY <3>3 DEF pipeline
    <3>. QED  BY <1>7, <3>1, <3>2, <3>3 DEF TakeRequest
  <2>. QED  BY <1>7, <2>1, <2>2 DEF TakeRequest, api, ui
<1>8. CASE TakeStop
  <2>1. inbox' \in Seq(Slots)
    BY <1>8, HeadTailProperties DEF TakeStop
  <2>. QED  BY <1>8, <2>1 DEF TakeStop, api, pipeline
<1>9. CASE Show
  BY <1>9 DEF Show, api, pipeline, ui
<1>10. ASSUME NEW request \in {"start_session", "end_session"}, AnswerPrompt(request)
       PROVE  TypeOK'
  <2>1. inbox' \in Seq(Slots)
    BY <1>10, AppendProperties DEF AnswerPrompt, Slots
  <2>. QED  BY <1>10, <2>1 DEF AnswerPrompt, api, pipeline, ui
<1>11. CASE DismissOutcome
  <2>1. /\ session' \in BOOLEAN /\ mascot' \in Postures \cup {"none"} /\ astray' \in BOOLEAN
        /\ screen' \in Postures
    BY <1>11 DEF DismissOutcome, Posture, Postures, pipeline
  <2>. QED  BY <1>11, <2>1 DEF DismissOutcome, api, ui
<1>12. CASE Terminate \/ Quit \/ AboutToQuit
  <2>1. Append(inbox, "stop") \in Seq(Slots)
    BY AppendProperties DEF Slots
  <2>. QED  BY <1>12, <2>1 DEF Terminate, Quit, AboutToQuit, StopTracker, api, pipeline
<1>13. CASE UNCHANGED vars
  BY <1>13 DEF vars, api, pipeline, ui
<1>. QED
  BY <1>1, <1>2, <1>3, <1>4, <1>5, <1>6, <1>7, <1>8, <1>9, <1>10, <1>11, <1>12, <1>13
     DEF Next, Worker

-----------------------------------------------------------------------------
(* Commands. *)

(* The queue, the batch and what has run are one sequence of requests ...    *)
LEMMA Associative ==
  ASSUME NEW s \in Seq(Nat), NEW t \in Seq(Nat), NEW u \in Seq(Nat)
  PROVE  (s \o t) \o u = s \o (t \o u)
<1>1. \A S : \A x, y, z \in Seq(S) : (x \o y) \o z = x \o (y \o z)
  BY ConcatAssociative, SMTT(60)
<1>. QED  BY <1>1, SMTT(60)

(* ... whose first may be taken off ...                                      *)
LEMMA HeadFirst ==
  ASSUME NEW b \in Seq(Nat), b # <<>>
  PROVE  b = <<Head(b)>> \o Tail(b)
<1>. DEFINE one == <<Head(b)>>
            all == one \o Tail(b)
<1>1. /\ Head(b) \in Nat /\ Tail(b) \in Seq(Nat) /\ Len(Tail(b)) = Len(b) - 1
      /\ \A i \in 1..Len(Tail(b)) : Tail(b)[i] = b[i + 1]
      /\ Len(b) \in Nat \ {0} /\ Head(b) = b[1]
  BY HeadTailProperties, EmptySeq
<1>2. one \in Seq(Nat) /\ Len(one) = 1 /\ one[1] = b[1]
  BY <1>1
<1>3. /\ all \in Seq(Nat) /\ Len(all) = Len(one) + Len(Tail(b))
      /\ \A i \in 1..(Len(one) + Len(Tail(b))) :
           all[i] = IF i <= Len(one) THEN one[i] ELSE Tail(b)[i - Len(one)]
  <2>. HIDE DEF one
  <2>. QED  BY <1>1, <1>2, ConcatProperties
<1>. HIDE DEF one, all
<1>4. Len(all) = Len(b)
  BY <1>1, <1>2, <1>3
<1>5. ASSUME NEW i \in 1..Len(b)
      PROVE  b[i] = all[i]
  <2>1. CASE i = 1
    BY <1>1, <1>2, <1>3, <2>1
  <2>2. CASE i > 1
    <3>1. i - 1 \in 1..Len(Tail(b)) /\ i - 1 + 1 = i
      BY <1>1, <2>2
    <3>2. all[i] = Tail(b)[i - 1]
      BY <1>1, <1>2, <1>3, <2>2
    <3>. QED  BY <1>1, <3>1, <3>2
  <2>. QED  BY <2>1, <2>2
<1>6. b = all
  BY <1>3, <1>4, <1>5, SeqEqual
<1>. QED  BY <1>6 DEF all, one

(* ... and put behind what has run, as running a command does ...            *)
LEMMA ConcatHead ==
  ASSUME NEW a \in Seq(Nat), NEW b \in Seq(Nat), NEW c \in Seq(Nat), b # <<>>
  PROVE  Append(a, Head(b)) \o Tail(b) \o c = a \o b \o c
<1>1. Head(b) \in Nat /\ Tail(b) \in Seq(Nat)
  BY HeadTailProperties
<1>2. <<Head(b)>> \in Seq(Nat)
  BY <1>1
<1>3. Append(a, Head(b)) = a \o <<Head(b)>>
  BY <1>1, AppendIsConcat
<1>4. PICK one \in Seq(Nat), rest \in Seq(Nat) : one = <<Head(b)>> /\ rest = Tail(b)
  BY <1>1, <1>2
<1>5. (a \o one) \o rest = a \o (one \o rest)
  BY Associative, SMTT(60)
<1>6. b = one \o rest
  BY <1>4, HeadFirst, Zenon
<1>. QED  BY <1>3, <1>4, <1>5, <1>6, Zenon

(* ... while a submission puts one at the end.                               *)
LEMMA AppendToConcat ==
  ASSUME NEW s \in Seq(Nat), NEW t \in Seq(Nat), NEW n \in Nat
  PROVE  s \o Append(t, n) = Append(s \o t, n)
<1>. DEFINE one == <<n>>
<1>1. one \in Seq(Nat)
  OBVIOUS
<1>2. Append(t, n) = t \o one /\ s \o t \in Seq(Nat)
  BY AppendIsConcat, ConcatProperties
<1>3. Append(s \o t, n) = (s \o t) \o one
  BY <1>2, AppendIsConcat
<1>. HIDE DEF one
<1>4. (s \o t) \o one = s \o (t \o one)
  BY <1>1, Associative
<1>. QED  BY <1>2, <1>3, <1>4

(* Every step keeps the requests in their order, each once.                  *)
LEMMA RunsStep ==
  ASSUME TypeOK, DrainInv, RunsEachOnce, [Next]_vars
  PROVE  DrainInv' /\ RunsEachOnce'
<1>. USE DEF TypeOK
<1>1. CASE Submit
  <2>1. UNCHANGED <<batch, ran, worker>> /\ requests' = requests + 1
        /\ queue' = Append(queue, requests + 1)
    BY <1>1 DEF Submit
  <2>2. ran \o batch \o Append(queue, requests + 1) = Append(ran \o batch \o queue, requests + 1)
    <3>. DEFINE before == ran \o batch
    <3>1. before \in Seq(Nat) /\ queue \in Seq(Nat) /\ requests + 1 \in Nat
      BY ConcatProperties
    <3>. HIDE DEF before, TypeOK
    <3>2. before \o Append(queue, requests + 1) = Append(before \o queue, requests + 1)
      BY <3>1, AppendToConcat
    <3>. QED  BY <3>2 DEF before
  <2>3. Append([r \in 1..requests |-> r], requests + 1) = [r \in 1..(requests + 1) |-> r]
    BY SMT
  <2>. QED  BY <2>1, <2>2, <2>3 DEF DrainInv, RunsEachOnce
<1>2. CASE TickBegins
  <2>1. batch = <<>> /\ batch' = queue /\ queue' = <<>> /\ worker' = "ticking"
        /\ UNCHANGED <<ran, requests>>
    BY <1>2 DEF TickBegins, DrainInv
  <2>2. ran \o <<>> \o queue = ran \o queue \o <<>>
    BY ConcatEmptySeq, ConcatProperties
  <2>. QED  BY <2>1, <2>2 DEF DrainInv, RunsEachOnce
<1>3. CASE RunCommand
  <2>1. /\ worker' = "ticking" /\ ran' = Append(ran, Head(batch)) /\ batch' = Tail(batch)
        /\ batch # <<>> /\ UNCHANGED <<requests, queue>>
    BY <1>3 DEF RunCommand, Left, api
  <2>2. Append(ran, Head(batch)) \o Tail(batch) \o queue = ran \o batch \o queue
    <3>1. ran \in Seq(Nat) /\ batch \in Seq(Nat) /\ queue \in Seq(Nat)
      OBVIOUS
    <3>. HIDE DEF TypeOK
    <3>. QED  BY <2>1, <3>1, ConcatHead, Zenon
  <2>. QED  BY <2>1, <2>2 DEF DrainInv, RunsEachOnce
<1>4. ASSUME UNCHANGED <<ran, batch, queue, requests>>,
             worker' # "ticking" => worker # "ticking" \/ batch = <<>>
      PROVE  DrainInv' /\ RunsEachOnce'
  BY <1>4 DEF DrainInv, RunsEachOnce
<1>. QED
  BY <1>1, <1>2, <1>3, <1>4
     DEF Next, Worker, Subscribe, DeliverFirst, Receive, Disconnect, Start, TickEnds, TakeRequest,
         TakeStop, Show, AnswerPrompt, DismissOutcome, Terminate, Quit, AboutToQuit, StopTracker,
         vars, api

-----------------------------------------------------------------------------
(* The mascot. *)

(* What _update_mascot signals is what the screen will show.                 *)
LEMMA BecomesFollows ==
  ASSUME NEW r \in BOOLEAN, NEW posture \in Postures, NEW d \in BOOLEAN, TypeOK,
         Becomes(r, posture, d), ScreenFollows, MascotInv, UNCHANGED screen,
         worker # "new" \/ d
  PROVE  ~astray' => mascot' = IF signalled' = "none" THEN screen' ELSE signalled'
BY DEF Becomes, Told, ScreenFollows, MascotInv, TypeOK, Postures

(* Every step keeps the screen behind the mascot, but for what went astray.  *)
LEMMA MascotStep ==
  ASSUME TypeOK, MascotInv, ScreenFollows, [Next]_vars
  PROVE  MascotInv' /\ ScreenFollows'
<1>1. CASE Start
  <2>1. PICK r \in BOOLEAN, d \in BOOLEAN : Becomes(r, Posture(r, d), TRUE)
    BY <1>1 DEF Start
  <2>2. worker' = "idle" /\ UNCHANGED screen
    BY <1>1 DEF Start
  <2>. QED  BY <2>1, <2>2, PostureType, BecomesFollows DEF ScreenFollows, MascotInv
<1>2. CASE RunCommand
  <2>1. worker' # "new" /\ worker # "new" /\ UNCHANGED screen
    BY <1>2 DEF RunCommand
  <2>2. CASE Becomes(TRUE, Posture(TRUE, FALSE), FALSE)
    BY <2>1, <2>2, PostureType, BecomesFollows DEF ScreenFollows, MascotInv
  <2>3. CASE Becomes(FALSE, Posture(FALSE, FALSE), FALSE)
    BY <2>1, <2>3, PostureType, BecomesFollows DEF ScreenFollows, MascotInv
  <2>4. CASE UNCHANGED <<pipeline, astray, signalled>>
    BY <2>1, <2>4 DEF ScreenFollows, MascotInv, pipeline
  <2>. QED  BY <1>2, <2>2, <2>3, <2>4 DEF RunCommand
<1>3. CASE TickEnds
  <2>1. PICK r \in BOOLEAN, d \in BOOLEAN : Becomes(r, Posture(r, d), TRUE)
    BY <1>3 DEF TickEnds
  <2>2. worker' = "idle" /\ worker # "new" /\ UNCHANGED screen
    BY <1>3 DEF TickEnds
  <2>. QED  BY <2>1, <2>2, PostureType, BecomesFollows DEF ScreenFollows, MascotInv
<1>4. CASE TakeRequest
  <2>1. worker' # "new" /\ worker # "new" /\ UNCHANGED screen
    BY <1>4 DEF TakeRequest
  <2>2. CASE Becomes(TRUE, Posture(TRUE, FALSE), TRUE)
    BY <2>1, <2>2, PostureType, BecomesFollows DEF ScreenFollows, MascotInv
  <2>3. CASE Becomes(FALSE, Posture(FALSE, FALSE), TRUE)
    BY <2>1, <2>3, PostureType, BecomesFollows DEF ScreenFollows, MascotInv
  <2>4. CASE UNCHANGED <<pipeline, astray, signalled>>
    BY <2>1, <2>4 DEF ScreenFollows, MascotInv, pipeline
  <2>. QED  BY <1>4, <2>2, <2>3, <2>4 DEF TakeRequest
<1>5. CASE Show
  BY <1>5 DEF Show, ScreenFollows, MascotInv, pipeline
<1>6. CASE DismissOutcome
  <2>1. worker # "new" /\ UNCHANGED <<worker, signalled>>
    BY <1>6 DEF DismissOutcome
  <2>2. CASE session
    BY <1>6, <2>1, <2>2 DEF DismissOutcome, Told, ScreenFollows, MascotInv
  <2>3. CASE ~session
    BY <1>6, <2>1, <2>3 DEF DismissOutcome, pipeline, ScreenFollows, MascotInv
  <2>. QED  BY <2>2, <2>3
<1>7. ASSUME mascot' = mascot, astray' = astray, signalled' = signalled, screen' = screen,
             worker' = worker \/ (worker # "new" /\ worker' # "new")
      PROVE  MascotInv' /\ ScreenFollows'
  BY <1>7 DEF MascotInv, ScreenFollows
<1>8. CASE TickBegins \/ TakeStop
  BY <1>7, <1>8 DEF TickBegins, TakeStop, pipeline
<1>9. CASE Submit \/ Subscribe \/ DeliverFirst \/ Receive \/ Disconnect
  <2>1. UNCHANGED <<mascot, astray, signalled, screen, worker>>
    BY <1>9 DEF pipeline, Submit, Subscribe, DeliverFirst, Receive, Disconnect
  <2>. QED  BY <1>7, <2>1
<1>10. CASE \/ \E request \in {"start_session", "end_session"} : AnswerPrompt(request)
            \/ Terminate \/ Quit \/ AboutToQuit \/ UNCHANGED vars
  <2>1. UNCHANGED <<mascot, astray, signalled, screen, worker>>
    BY <1>10 DEF pipeline, AnswerPrompt, Terminate, Quit, AboutToQuit, StopTracker, vars
  <2>. QED  BY <1>7, <2>1
<1>. QED
  BY <1>1, <1>2, <1>3, <1>4, <1>5, <1>6, <1>8, <1>9, <1>10 DEF Next, Worker

-----------------------------------------------------------------------------
(* The stream of snapshots to a client. *)

(* What a client has got and has still to get, when it was given the snapshot *)
(* `first' on subscribing, has shown the snapshot `shown' and `latest' is out: *)
(* snapshots come in order, except the first, which may come late, but once.  *)
InOrder(buffer, first, shown, latest) ==
  /\ Len(buffer) <= QueueSize /\ shown <= latest /\ first <= latest
  /\ \A i \in 1..Len(buffer) :
       /\ buffer[i] <= latest
       /\ buffer[i] > shown \/ buffer[i] = first
       /\ \A j \in 1..Len(buffer) : i < j =>
            buffer[i] # buffer[j] /\ (buffer[i] < buffer[j] \/ buffer[j] = first)

(* The latest is shown, or on its way; or nothing came since the first did,   *)
(* late.                                                                      *)
Coming(buffer, first, shown, latest) ==
  latest # first =>
    \/ latest = shown
    \/ \E i \in 1..Len(buffer) : buffer[i] = latest
    \/ shown = first /\ buffer = <<>>

(* The first is not yet delivered: the latest is at the end.                  *)
FirstToCome(buffer, first, shown, latest) ==
  /\ shown = 0 /\ first > 0 /\ \A i \in 1..Len(buffer) : buffer[i] # first
  /\ latest # first => buffer # <<>> /\ buffer[Len(buffer)] = latest

StreamInv ==
  /\ stream.state # "off" =>
       /\ InOrder(stream.buffer, stream.first, stream.shown, bus.tick)
       /\ Coming(stream.buffer, stream.first, stream.shown, bus.tick)
  /\ stream.state = "registered" =>
       FirstToCome(stream.buffer, stream.first, stream.shown, bus.tick)

(* c is the queue b with n offered to it: all of b, or all but its head, and n. *)
IsOffered(b, c, n) ==
  /\ c \in Seq(Nat)
  /\ \E drop \in {0, 1} :
       /\ Len(c) = Len(b) + 1 - drop
       /\ drop = 1 => Len(b) = QueueSize
       /\ drop = 0 => Len(b) < QueueSize
       /\ \A i \in 1..(Len(b) - drop) : c[i] = b[i + drop]
  /\ c[Len(c)] = n

(* A full queue loses its head; the new snapshot is at the end.               *)
LEMMA OfferedIs ==
  ASSUME NEW b \in Seq(Nat), NEW n \in Nat, Len(b) <= QueueSize
  PROVE  IsOffered(b, Offered(b, n), n)
<1>1. QueueSize \in Nat /\ QueueSize > 1 /\ Len(b) \in Nat
  BY ControlAssumption, LenProperties
<1>2. CASE Len(b) < QueueSize
  <2>1. Offered(b, n) = Append(b, n)
    BY <1>2 DEF Offered
  <2>2. /\ Append(b, n) \in Seq(Nat) /\ Len(Append(b, n)) = Len(b) + 1
        /\ \A i \in 1..Len(b) : Append(b, n)[i] = b[i]
        /\ Append(b, n)[Len(b) + 1] = n
    BY AppendProperties
  <2>. QED  BY <1>1, <1>2, <2>1, <2>2 DEF IsOffered
<1>3. CASE ~(Len(b) < QueueSize)
  <2>. DEFINE c == Tail(b)
  <2>1. Offered(b, n) = Append(c, n)
    BY <1>3 DEF Offered
  <2>2. Len(b) = QueueSize
    BY <1>1, <1>3
  <2>3. b # <<>>
    BY <1>1, <2>2
  <2>4. c \in Seq(Nat) /\ Len(c) = Len(b) - 1 /\ \A i \in 1..Len(c) : c[i] = b[i + 1]
    BY <2>3, HeadTailProperties
  <2>. HIDE DEF c
  <2>5. /\ Append(c, n) \in Seq(Nat) /\ Len(Append(c, n)) = Len(c) + 1
        /\ \A i \in 1..Len(c) : Append(c, n)[i] = c[i]
        /\ Append(c, n)[Len(c) + 1] = n
    BY <2>4, AppendProperties
  <2>6. \A i \in 1..(Len(b) - 1) : Append(c, n)[i] = b[i + 1]
    BY <1>1, <2>4, <2>5
  <2>7. Len(Append(c, n)) = Len(b) + 1 - 1 /\ Append(c, n)[Len(Append(c, n))] = n
    BY <1>1, <2>4, <2>5
  <2>8. PICK o : o = Offered(b, n)
    OBVIOUS
  <2>9. /\ o \in Seq(Nat) /\ Len(o) = Len(b) + 1 - 1 /\ o[Len(o)] = n
        /\ \A i \in 1..(Len(b) - 1) : o[i] = b[i + 1]
    BY <2>1, <2>5, <2>6, <2>7, <2>8
  <2>10. IsOffered(b, o, n)
    BY <2>2, <2>9 DEF IsOffered
  <2>. QED  BY <2>8, <2>10
<1>. QED  BY <1>2, <1>3

(* publish: the new snapshot is the newest in the queue.                     *)
LEMMA PublishInOrder ==
  ASSUME NEW b \in Seq(Nat), NEW first \in Nat, NEW shown \in Nat, NEW latest \in Nat,
         InOrder(b, first, shown, latest)
  PROVE  LET c == Offered(b, latest + 1)
         IN  /\ InOrder(c, first, shown, latest + 1) /\ Coming(c, first, shown, latest + 1)
             /\ FirstToCome(b, first, shown, latest) => FirstToCome(c, first, shown, latest + 1)
<1>. DEFINE c == Offered(b, latest + 1)
<1>0. IsOffered(b, c, latest + 1)
  <2>1. Len(b) <= QueueSize /\ latest + 1 \in Nat
    BY DEF InOrder
  <2>. QED  BY <2>1, OfferedIs, Zenon
<1>. HIDE DEF c
<1>1. Len(b) <= QueueSize /\ Len(b) \in Nat /\ QueueSize \in Nat /\ QueueSize > 1
  BY ControlAssumption, LenProperties DEF InOrder
<1>2. PICK drop \in {0, 1} :
        /\ Len(c) = Len(b) + 1 - drop
        /\ drop = 1 => Len(b) = QueueSize
        /\ drop = 0 => Len(b) < QueueSize
        /\ \A i \in 1..(Len(b) - drop) : c[i] = b[i + drop]
  BY <1>0 DEF IsOffered
<1>3. c \in Seq(Nat) /\ c[Len(c)] = latest + 1
  BY <1>0 DEF IsOffered
<1>4. /\ Len(c) \in 1..QueueSize
      /\ \A i \in 1..Len(c) : i = Len(c) \/ (i + drop \in 1..Len(b) /\ c[i] = b[i + drop])
  <2>1. CASE drop = 0
    BY <1>1, <1>2, <2>1
  <2>2. CASE drop = 1
    BY <1>1, <1>2, <2>2
  <2>. QED  BY <2>1, <2>2
<1>5. \A i \in 1..Len(b) : b[i] \in Nat
  OBVIOUS
<1>6. InOrder(c, first, shown, latest + 1)
  <2>1. ASSUME NEW i \in 1..Len(c)
        PROVE  c[i] <= latest + 1 /\ (c[i] > shown \/ c[i] = first)
    <3>1. CASE i = Len(c)
      BY <1>3, <3>1 DEF InOrder
    <3>2. CASE i + drop \in 1..Len(b) /\ c[i] = b[i + drop]
      BY <1>5, <3>2 DEF InOrder
    <3>. QED  BY <1>4, <3>1, <3>2
  <2>2. ASSUME NEW i \in 1..Len(c), NEW j \in 1..Len(c), i < j
        PROVE  c[i] # c[j] /\ (c[i] < c[j] \/ c[j] = first)
    <3>1. i + drop \in 1..Len(b) /\ c[i] = b[i + drop] /\ b[i + drop] <= latest
      BY <1>4, <2>2 DEF InOrder
    <3>2. CASE j = Len(c)
      <4>1. PICK x \in Nat : x = c[i] /\ x <= latest
        BY <1>5, <3>1
      <4>2. c[j] = latest + 1
        BY <1>3, <3>2
      <4>3. x # latest + 1 /\ x < latest + 1
        BY <4>1
      <4>. QED  BY <4>1, <4>2, <4>3
    <3>3. CASE j # Len(c)
      <4>1. j + drop \in 1..Len(b) /\ c[j] = b[j + drop] /\ i + drop < j + drop
        BY <1>4, <2>2, <3>3
      <4>. QED  BY <3>1, <4>1 DEF InOrder
    <3>. QED  BY <3>2, <3>3
  <2>. QED  BY <1>4, <2>1, <2>2 DEF InOrder
<1>7. Coming(c, first, shown, latest + 1)
  BY <1>3, <1>4 DEF Coming
<1>8. ASSUME FirstToCome(b, first, shown, latest)
      PROVE  FirstToCome(c, first, shown, latest + 1)
  <2>1. shown = 0 /\ first > 0 /\ first <= latest
    BY <1>8 DEF FirstToCome, InOrder
  <2>2. ASSUME NEW i \in 1..Len(c)
        PROVE  c[i] # first
    <3>1. CASE i = Len(c)
      BY <1>3, <2>1, <3>1
    <3>2. CASE i + drop \in 1..Len(b) /\ c[i] = b[i + drop]
      BY <1>8, <3>2 DEF FirstToCome
    <3>. QED  BY <1>4, <3>1, <3>2
  <2>3. c # <<>>
    BY <1>4
  <2>. QED  BY <1>3, <2>1, <2>2, <2>3 DEF FirstToCome
<1>. QED  BY <1>6, <1>7, <1>8 DEF c

(* The client reads the first of its queue.                                  *)
LEMMA ReceiveInOrder ==
  ASSUME NEW b \in Seq(Nat), NEW first \in Nat, NEW shown \in Nat, NEW latest \in Nat,
         InOrder(b, first, shown, latest), Coming(b, first, shown, latest), b # <<>>
  PROVE  /\ InOrder(Tail(b), first, Head(b), latest)
         /\ Coming(Tail(b), first, Head(b), latest)
<1>. DEFINE c == Tail(b)
<1>1. /\ c \in Seq(Nat) /\ Len(c) = Len(b) - 1 /\ \A i \in 1..Len(c) : c[i] = b[i + 1]
      /\ Head(b) = b[1] /\ Len(b) \in Nat \ {0} /\ Len(c) \in Nat
      /\ \A i \in 1..Len(b) : b[i] \in Nat
  BY HeadTailProperties, EmptySeq, LenProperties
<1>. HIDE DEF c
<1>2. Len(c) = 0 => c = <<>>
  BY <1>1, EmptySeq
<1>3. QueueSize \in Nat
  BY ControlAssumption
<1>4. InOrder(c, first, b[1], latest)
  <2>1. Len(c) <= QueueSize /\ b[1] <= latest /\ first <= latest
    BY <1>1, <1>3 DEF InOrder
  <2>2. ASSUME NEW i \in 1..Len(c)
        PROVE  c[i] <= latest /\ (c[i] > b[1] \/ c[i] = first)
    <3>1. i + 1 \in 1..Len(b) /\ 1 \in 1..Len(b) /\ 1 < i + 1 /\ c[i] = b[i + 1]
      BY <1>1
    <3>. QED  BY <1>1, <3>1 DEF InOrder
  <2>3. ASSUME NEW i \in 1..Len(c), NEW j \in 1..Len(c), i < j
        PROVE  c[i] # c[j] /\ (c[i] < c[j] \/ c[j] = first)
    <3>1. i + 1 \in 1..Len(b) /\ j + 1 \in 1..Len(b) /\ i + 1 < j + 1
          /\ c[i] = b[i + 1] /\ c[j] = b[j + 1]
      <4>1. i + 1 \in 1..Len(b) /\ j + 1 \in 1..Len(b)
        BY <1>1
      <4>2. i + 1 < j + 1
        BY <1>1, <2>3
      <4>. QED  BY <1>1, <4>1, <4>2
    <3>. QED  BY <3>1 DEF InOrder
  <2>. QED  BY <2>1, <2>2, <2>3 DEF InOrder
<1>5. Coming(c, first, b[1], latest)
  <2>. SUFFICES ASSUME latest # first
                PROVE  \/ latest = b[1] \/ \E i \in 1..Len(c) : c[i] = latest
                       \/ b[1] = first /\ c = <<>>
    BY DEF Coming
  <2>1. CASE \E i \in 1..Len(b) : b[i] = latest
    <3>1. PICK i \in 1..Len(b) : b[i] = latest
      BY <2>1
    <3>2. CASE i # 1
      <4>1. i - 1 \in 1..Len(c) /\ (i - 1) + 1 = i
        BY <1>1, <3>2
      <4>2. c[i - 1] = b[i]
        BY <1>1, <4>1
      <4>. QED  BY <3>1, <4>1, <4>2
    <3>. QED  BY <3>1, <3>2
  <2>2. CASE latest = shown
    <3>1. \A i \in 1..Len(b) : b[i] = first
      BY <1>1, <2>2 DEF InOrder
    <3>2. Len(b) = 1
      <4>1. 1 \in 1..Len(b) /\ (Len(b) # 1 => 2 \in 1..Len(b) /\ 1 < 2)
        BY <1>1
      <4>. QED  BY <3>1, <4>1 DEF InOrder
    <3>. QED  BY <1>1, <1>2, <3>1, <3>2
  <2>. QED  BY <2>1, <2>2 DEF Coming
<1>. QED  BY <1>1, <1>4, <1>5 DEF c

(* The snapshot of the subscription, delivered late, behind newer ones.      *)
LEMMA DeliverInOrder ==
  ASSUME NEW b \in Seq(Nat), NEW first \in Nat, NEW shown \in Nat, NEW latest \in Nat,
         InOrder(b, first, shown, latest), FirstToCome(b, first, shown, latest)
  PROVE  LET c == Offered(b, first)
         IN  InOrder(c, first, shown, latest) /\ Coming(c, first, shown, latest)
<1>. DEFINE c == Offered(b, first)
<1>0. IsOffered(b, c, first)
  <2>1. Len(b) <= QueueSize /\ first \in Nat
    BY DEF InOrder
  <2>. QED  BY <2>1, OfferedIs, Zenon
<1>. HIDE DEF c
<1>1. Len(b) <= QueueSize /\ Len(b) \in Nat /\ QueueSize \in Nat /\ QueueSize > 1
  BY ControlAssumption, LenProperties DEF InOrder
<1>2. PICK drop \in {0, 1} :
        /\ Len(c) = Len(b) + 1 - drop
        /\ drop = 1 => Len(b) = QueueSize
        /\ drop = 0 => Len(b) < QueueSize
        /\ \A i \in 1..(Len(b) - drop) : c[i] = b[i + drop]
  BY <1>0 DEF IsOffered
<1>3. c \in Seq(Nat) /\ c[Len(c)] = first
  BY <1>0 DEF IsOffered
<1>4. /\ Len(c) \in 1..QueueSize
      /\ \A i \in 1..Len(c) : i = Len(c) \/ (i + drop \in 1..Len(b) /\ c[i] = b[i + drop])
  <2>1. CASE drop = 0
    BY <1>1, <1>2, <2>1
  <2>2. CASE drop = 1
    BY <1>1, <1>2, <2>2
  <2>. QED  BY <2>1, <2>2
<1>5. \A i \in 1..Len(b) : b[i] \in Nat
  OBVIOUS
<1>6. InOrder(c, first, shown, latest)
  <2>1. ASSUME NEW i \in 1..Len(c)
        PROVE  c[i] <= latest /\ (c[i] > shown \/ c[i] = first)
    <3>1. CASE i = Len(c)
      BY <1>3, <3>1 DEF InOrder
    <3>2. CASE i + drop \in 1..Len(b) /\ c[i] = b[i + drop]
      BY <1>5, <3>2 DEF InOrder
    <3>. QED  BY <1>4, <3>1, <3>2
  <2>2. ASSUME NEW i \in 1..Len(c), NEW j \in 1..Len(c), i < j
        PROVE  c[i] # c[j] /\ (c[i] < c[j] \/ c[j] = first)
    <3>1. i + drop \in 1..Len(b) /\ c[i] = b[i + drop] /\ b[i + drop] # first
      BY <1>4, <2>2 DEF FirstToCome
    <3>2. CASE j = Len(c)
      BY <1>3, <1>5, <3>1, <3>2
    <3>3. CASE j # Len(c)
      <4>1. j + drop \in 1..Len(b) /\ c[j] = b[j + drop] /\ i + drop < j + drop
        BY <1>4, <2>2, <3>3
      <4>. QED  BY <3>1, <4>1 DEF InOrder
    <3>. QED  BY <3>2, <3>3
  <2>. QED  BY <1>1, <1>4, <2>1, <2>2 DEF InOrder
<1>7. Coming(c, first, shown, latest)
  <2>. SUFFICES ASSUME latest # first
                PROVE  \E i \in 1..Len(c) : c[i] = latest
    BY DEF Coming
  <2>1. Len(b) > 0 /\ b[Len(b)] = latest
    BY <1>1 DEF FirstToCome
  <2>2. Len(b) - drop \in 1..Len(c) /\ Len(b) - drop \in 1..(Len(b) - drop)
    BY <1>1, <1>2, <2>1
  <2>3. c[Len(b) - drop] = b[Len(b)]
    BY <1>1, <1>2, <2>2
  <2>. QED  BY <2>1, <2>2, <2>3
<1>. QED  BY <1>6, <1>7 DEF c

(* Every step keeps a subscriber's queue in that order.                      *)
LEMMA StreamStep ==
  ASSUME TypeOK, StreamInv, [Next]_vars
  PROVE  StreamInv'
<1>1. /\ stream.buffer \in Seq(Nat) /\ stream.first \in Nat /\ stream.shown \in Nat
      /\ bus.tick \in Nat
  BY DEF TypeOK
<1>2. CASE Subscribe
  <2>1. /\ stream'.state = (IF bus.tick = 0 THEN "on" ELSE "registered")
        /\ stream'.first = bus.tick /\ stream'.buffer = <<>> /\ stream'.shown = 0
        /\ bus' = bus
    BY <1>2 DEF Subscribe, NotConnected
  <2>2. Len(stream'.buffer) = 0 /\ QueueSize \in Nat
    BY <2>1, EmptySeq, ControlAssumption
  <2>3. InOrder(stream'.buffer, stream'.first, stream'.shown, bus'.tick)
    BY <1>1, <2>1, <2>2 DEF InOrder
  <2>4. Coming(stream'.buffer, stream'.first, stream'.shown, bus'.tick)
    BY <2>1 DEF Coming
  <2>5. bus.tick # 0 => FirstToCome(stream'.buffer, stream'.first, stream'.shown, bus'.tick)
    BY <1>1, <2>1, <2>2 DEF FirstToCome
  <2>. QED  BY <2>1, <2>3, <2>4, <2>5 DEF StreamInv
<1>3. CASE DeliverFirst
  <2>1. /\ stream.state = "registered" /\ stream'.state = "on" /\ bus' = bus
        /\ stream'.first = stream.first /\ stream'.shown = stream.shown
        /\ stream'.buffer = Offered(stream.buffer, stream.first)
    BY <1>3 DEF DeliverFirst, TypeOK
  <2>2. /\ InOrder(stream.buffer, stream.first, stream.shown, bus.tick)
        /\ FirstToCome(stream.buffer, stream.first, stream.shown, bus.tick)
    BY <2>1 DEF StreamInv
  <2>3. /\ InOrder(Offered(stream.buffer, stream.first), stream.first, stream.shown, bus.tick)
        /\ Coming(Offered(stream.buffer, stream.first), stream.first, stream.shown, bus.tick)
    BY <1>1, <2>2, DeliverInOrder
  <2>. QED  BY <2>1, <2>3 DEF StreamInv
<1>4. CASE Receive
  <2>1. /\ stream.state = "on" /\ stream'.state = "on" /\ bus' = bus /\ stream.buffer # <<>>
        /\ stream'.first = stream.first /\ stream'.shown = Head(stream.buffer)
        /\ stream'.buffer = Tail(stream.buffer)
    BY <1>4 DEF Receive, TypeOK
  <2>2. /\ InOrder(stream.buffer, stream.first, stream.shown, bus.tick)
        /\ Coming(stream.buffer, stream.first, stream.shown, bus.tick)
    BY <2>1 DEF StreamInv
  <2>3. /\ InOrder(Tail(stream.buffer), stream.first, Head(stream.buffer), bus.tick)
        /\ Coming(Tail(stream.buffer), stream.first, Head(stream.buffer), bus.tick)
    BY <1>1, <2>1, <2>2, ReceiveInOrder
  <2>. QED  BY <2>1, <2>3 DEF StreamInv
<1>5. CASE Disconnect
  <2>1. stream'.state = "off"
    BY <1>5 DEF Disconnect, NotConnected
  <2>. QED  BY <2>1 DEF StreamInv
<1>6. CASE TickEnds
  <2>1. PICK posture : Published(posture)
    BY <1>6 DEF TickEnds
  <2>2. bus'.tick = bus.tick + 1
    BY <2>1 DEF Published
  <2>3. CASE stream.state = "off"
    BY <2>1, <2>3 DEF Published, StreamInv
  <2>4. CASE stream.state # "off"
    <3>1. /\ stream'.state = stream.state
          /\ stream'.first = stream.first /\ stream'.shown = stream.shown
          /\ stream'.buffer = Offered(stream.buffer, bus.tick + 1)
      BY <2>1, <2>4 DEF Published, TypeOK
    <3>2. InOrder(stream.buffer, stream.first, stream.shown, bus.tick)
      BY <2>4 DEF StreamInv
    <3>. DEFINE c == Offered(stream.buffer, bus.tick + 1)
    <3>3. /\ InOrder(c, stream.first, stream.shown, bus.tick + 1)
          /\ Coming(c, stream.first, stream.shown, bus.tick + 1)
          /\ FirstToCome(stream.buffer, stream.first, stream.shown, bus.tick) =>
               FirstToCome(c, stream.first, stream.shown, bus.tick + 1)
      BY <1>1, <3>2, PublishInOrder
    <3>. QED  BY <2>2, <3>1, <3>3 DEF StreamInv
  <2>. QED  BY <2>3, <2>4
<1>7. ASSUME UNCHANGED <<bus, stream>>
      PROVE  StreamInv'
  BY <1>7 DEF StreamInv
<1>8. CASE Submit \/ Start \/ TickBegins \/ RunCommand \/ TakeRequest \/ TakeStop \/ Show
  BY <1>7, <1>8 DEF Submit, Start, TickBegins, RunCommand, TakeRequest, TakeStop, Show
<1>9. CASE \/ \E request \in {"start_session", "end_session"} : AnswerPrompt(request)
           \/ DismissOutcome \/ Terminate \/ Quit \/ AboutToQuit \/ UNCHANGED vars
  BY <1>7, <1>9 DEF AnswerPrompt, DismissOutcome, Terminate, Quit, AboutToQuit, StopTracker, vars
<1>. QED
  BY <1>2, <1>3, <1>4, <1>5, <1>6, <1>8, <1>9 DEF Next, Worker

(* In that order the latest snapshot is shown or on its way.                 *)
LEMMA StreamArrives ==
  ASSUME TypeOK, StreamInv
  PROVE  LatestArrives
<1>1. stream.buffer \in Seq(Nat) /\ DOMAIN stream.buffer = 1..Len(stream.buffer)
  BY LenProperties DEF TypeOK
<1>2. ToSet(stream.buffer) = {stream.buffer[i] : i \in 1..Len(stream.buffer)}
  BY <1>1 DEF ToSet
<1>. QED  BY <1>2 DEF StreamInv, Coming, LatestArrives

-----------------------------------------------------------------------------
(* Stopping. *)

Waiting == gui \in {"stopping", "leaving"}

(* The UI thread waits for the worker only while the worker's stop is queued,  *)
(* behind everything else, and there is a worker to take it.                  *)
StopInv ==
  /\ \A i \in 1..Len(inbox) : inbox[i] = "stop" <=> (Waiting /\ i = Len(inbox))
  /\ Waiting => worker # "stopped" /\ inbox # <<>>
  /\ gui = "running" => ~stopped
  /\ ~stopped => worker # "stopped" /\ ~Waiting

(* Every step keeps the stop queued while the UI thread waits for it.        *)
LEMMA StopStep ==
  ASSUME TypeOK, StopInv, [Next]_vars
  PROVE  StopInv'
<1>1. inbox \in Seq(Slots) /\ Len(inbox) \in Nat
  BY LenProperties DEF TypeOK
<1>2. ASSUME inbox # <<>>, inbox' = Tail(inbox)
      PROVE  /\ Head(inbox) = inbox[1] /\ Len(inbox) \in Nat \ {0}
             /\ Len(inbox') = Len(inbox) - 1 /\ inbox' \in Seq(Slots)
             /\ \A i \in 1..Len(inbox') : inbox'[i] = inbox[i + 1]
             /\ Len(inbox) # 1 => inbox' # <<>>
  <2>1. /\ Head(inbox) = inbox[1] /\ Len(inbox) \in Nat \ {0}
        /\ Len(inbox') = Len(inbox) - 1 /\ inbox' \in Seq(Slots)
        /\ \A i \in 1..Len(inbox') : inbox'[i] = inbox[i + 1]
    BY <1>1, <1>2, HeadTailProperties, EmptySeq
  <2>2. inbox' = <<>> => Len(inbox') = 0
    BY EmptySeq
  <2>. QED  BY <2>1, <2>2
<1>3. ASSUME NEW slot \in Slots, inbox' = Append(inbox, slot)
      PROVE  /\ Len(inbox') = Len(inbox) + 1 /\ inbox' # <<>>
             /\ inbox'[Len(inbox')] = slot
             /\ \A i \in 1..Len(inbox) : inbox'[i] = inbox[i]
  BY <1>1, <1>3, AppendProperties
<1>4. CASE TakeRequest
  <2>1. /\ worker = "idle" /\ worker' = "idle" /\ inbox # <<>> /\ Head(inbox) # "stop"
        /\ inbox' = Tail(inbox) /\ UNCHANGED <<gui, stopped>>
    BY <1>4 DEF TakeRequest, ui
  <2>2. \A i \in 1..Len(inbox') : i + 1 \in 1..Len(inbox) /\ (i = Len(inbox') <=> i + 1 = Len(inbox))
    BY <1>2, <2>1
  <2>3. \A i \in 1..Len(inbox') : inbox'[i] = "stop" <=> (Waiting' /\ i = Len(inbox'))
    BY <1>2, <2>1, <2>2 DEF StopInv, Waiting
  <2>4. Waiting => Len(inbox) # 1
    <3>1. 1 \in 1..Len(inbox) /\ inbox[1] # "stop"
      BY <1>2, <2>1
    <3>. QED  BY <3>1 DEF StopInv
  <2>. QED  BY <1>2, <2>1, <2>3, <2>4 DEF StopInv, Waiting
<1>5. CASE TakeStop
  <2>1. /\ worker' = "stopped" /\ inbox # <<>> /\ Head(inbox) = "stop" /\ inbox' = Tail(inbox)
        /\ gui' \in {"quitting", "exited"} /\ UNCHANGED stopped
    BY <1>5 DEF TakeStop
  <2>2. 1 \in 1..Len(inbox) /\ inbox[1] = "stop"
    BY <1>2, <2>1
  <2>3. Waiting /\ Len(inbox) = 1 /\ stopped = TRUE
    BY <2>2 DEF StopInv, TypeOK
  <2>4. \A i \in 1..Len(inbox') : FALSE
    BY <1>2, <2>1, <2>3
  <2>. QED  BY <2>1, <2>3, <2>4 DEF StopInv, Waiting
<1>6. ASSUME NEW request \in {"start_session", "end_session"}, AnswerPrompt(request)
      PROVE  StopInv'
  <2>1. /\ gui = "running" /\ inbox' = Append(inbox, request)
        /\ UNCHANGED <<gui, stopped, worker>>
    BY <1>6 DEF AnswerPrompt, ui
  <2>2. request \in Slots /\ request # "stop"
    BY DEF Slots
  <2>3. \A i \in 1..Len(inbox') : i = Len(inbox') \/ i \in 1..Len(inbox)
    BY <1>1, <1>3, <2>1, <2>2
  <2>4. \A i \in 1..Len(inbox') : inbox'[i] # "stop"
    BY <1>3, <2>1, <2>2, <2>3 DEF StopInv, Waiting
  <2>. QED  BY <2>1, <2>4 DEF StopInv, Waiting
<1>7. ASSUME NEW waiting \in {"stopping", "leaving"}, NEW after \in {"quitting", "exited"},
             ~Waiting, StopTracker(waiting, after)
      PROVE  StopInv'
  <2>1. CASE stopped
    <3>1. gui' = after /\ stopped' = TRUE /\ UNCHANGED <<inbox, worker>>
      BY <1>7, <2>1 DEF StopTracker, Stops
    <3>. QED  BY <1>7, <3>1 DEF StopInv, Waiting
  <2>2. CASE ~stopped
    <3>1. /\ gui' = waiting /\ stopped' = TRUE /\ inbox' = Append(inbox, "stop")
          /\ UNCHANGED worker
      BY <1>7, <2>2 DEF StopTracker, Stops
    <3>2. "stop" \in Slots
      BY DEF Slots
    <3>3. \A i \in 1..Len(inbox') : i = Len(inbox') \/ (i # Len(inbox') /\ i \in 1..Len(inbox))
      BY <1>1, <1>3, <3>1, <3>2
    <3>4. \A i \in 1..Len(inbox') : inbox'[i] = "stop" <=> i = Len(inbox')
      BY <1>3, <1>7, <3>1, <3>2, <3>3 DEF StopInv
    <3>5. inbox' # <<>>
      BY <1>3, <3>1, <3>2
    <3>. QED  BY <2>2, <3>1, <3>4, <3>5 DEF StopInv, Waiting
  <2>. QED  BY <2>1, <2>2 DEF TypeOK
<1>8. CASE Terminate \/ AboutToQuit
  BY <1>7, <1>8 DEF Terminate, AboutToQuit, Waiting
<1>9. CASE Quit
  <2>1. gui = "running" /\ gui' = "quitting" /\ UNCHANGED <<inbox, worker, stopped>>
    BY <1>9 DEF Quit
  <2>. QED  BY <2>1 DEF StopInv, Waiting
<1>10. ASSUME UNCHANGED <<inbox, gui, stopped>>,
              worker' = worker \/ (worker # "stopped" /\ worker' # "stopped")
       PROVE  StopInv'
  BY <1>10 DEF StopInv, Waiting
<1>11. CASE Start \/ TickBegins \/ RunCommand \/ TickEnds
  <2>1. /\ UNCHANGED <<inbox, gui, stopped>>
        /\ worker' = worker \/ (worker # "stopped" /\ worker' # "stopped")
    BY <1>11 DEF Start, TickBegins, RunCommand, TickEnds, ui
  <2>. QED  BY <1>10, <2>1
<1>12. CASE \/ Submit \/ Subscribe \/ DeliverFirst \/ Receive \/ Disconnect
            \/ Show \/ DismissOutcome \/ UNCHANGED vars
  <2>1. UNCHANGED <<inbox, gui, stopped, worker>>
    BY <1>12 DEF Submit, Subscribe, DeliverFirst, Receive, Disconnect, Show, DismissOutcome, vars, ui
  <2>. QED  BY <1>10, <2>1
<1>. QED
  BY <1>4, <1>5, <1>6, <1>8, <1>9, <1>11, <1>12 DEF Next, Worker

-----------------------------------------------------------------------------
(* The properties. *)

IInv == TypeOK /\ DrainInv /\ RunsEachOnce /\ MascotInv /\ ScreenFollows /\ StreamInv /\ StopInv

(* The types, the commands under way, the mascot, the stream and the stop,   *)
(* in one                                                                    *)
(* invariant.                                                                *)
THEOREM Inductive == Spec => []IInv
<1>1. Init => IInv
  <2>. SUFFICES ASSUME Init PROVE IInv
    OBVIOUS
  <2>1. TypeOK
    BY EmptySeq DEF Init, TypeOK, NotConnected, Postures
  <2>2. RunsEachOnce
    <3>1. ran \o batch \o queue = <<>> /\ requests = 0
      BY DEF Init
    <3>. QED  BY <3>1 DEF RunsEachOnce
  <2>3. DrainInv /\ MascotInv /\ ScreenFollows
    BY DEF Init, DrainInv, MascotInv, ScreenFollows
  <2>4. StreamInv
    BY DEF Init, StreamInv, NotConnected
  <2>5. StopInv
    BY EmptySeq DEF Init, StopInv, Waiting
  <2>. QED  BY <2>1, <2>2, <2>3, <2>4, <2>5 DEF IInv
<1>2. IInv /\ [Next]_vars => IInv'
  BY TypeStep, RunsStep, MascotStep, StreamStep, StopStep DEF IInv
<1>. QED  BY <1>1, <1>2, PTL DEF Spec

(* Every request is run once and in the order of submission, or still is on   *)
(* its way (src/izy/pipeline.py, _drain_commands).                            *)
THEOREM CommandsRunOnce == Spec => []RunsEachOnce
<1>1. IInv => RunsEachOnce
  BY DEF IInv
<1>. QED  BY <1>1, Inductive, PTL

(* A slow client loses old snapshots, never the latest (src/izy/ipc.py,       *)
(* _offer), for queues of any size from 2 on.                                 *)
THEOREM LatestIsNeverDropped == Spec => []LatestArrives
<1>1. IInv => LatestArrives
  BY StreamArrives DEF IInv
<1>. QED  BY <1>1, Inductive, PTL

(* The mascot on the screen is the pipeline's, or the signal that makes it so *)
(* is queued (src/izy/pipeline.py, _update_mascot; src/izy/worker.py).        *)
THEOREM MascotFollows == Spec => []ScreenFollows
<1>1. IInv => ScreenFollows
  BY DEF IInv
<1>. QED  BY <1>1, Inductive, PTL

(* The UI thread never waits for a worker that has quit: whenever it waits,   *)
(* the worker is there and its stop is queued, so that the deadlock that      *)
(* TrackerThread.stop (src/izy/worker.py) fears cannot be.                    *)
THEOREM NeverWaitsInVain ==
  Spec => [](gui \in {"stopping", "leaving"} =>
               worker # "stopped" /\ inbox # <<>> /\ inbox[Len(inbox)] = "stop")
<1>1. TypeOK /\ StopInv => (gui \in {"stopping", "leaving"} =>
               worker # "stopped" /\ inbox # <<>> /\ inbox[Len(inbox)] = "stop")
  <2>1. TypeOK /\ inbox # <<>> => Len(inbox) \in 1..Len(inbox)
    BY EmptySeq DEF TypeOK
  <2>. QED  BY <2>1 DEF StopInv, Waiting
<1>2. IInv => TypeOK /\ StopInv
  BY DEF IInv
<1>. QED  BY <1>1, <1>2, Inductive, PTL
=============================================================================
