---------------------------- MODULE AlertsProofs ----------------------------
(* Proofs about Alerts, for any number of subjects, checks, operators,     *)
(* workers, messages and saves.                                            *)
EXTENDS Alerts, FiniteSetTheorems, TLAPS

\* A check under way is about a subject whose status was found; only one check of a
\* subject is in a transaction; and the message it has inserted is its own.
ObsOK ==
  /\ \A o \in Observers :
       /\ obs[o].step # "idle" => obs[o].subject \in Subjects
       /\ obs[o].step \in {"read", "written"} => obs[o].status \in Statuses
       /\ obs[o].step = "listed" => ~obs[o].alerted
       /\ obs[o].version <= settings.version
       /\ obs[o].step # "written" => obs[o].id = 0
       /\ obs[o].id # 0 =>
            /\ obs[o].id < next
            /\ messages[obs[o].id].fate = "writing"
            /\ messages[obs[o].id].subject = obs[o].subject
            /\ messages[obs[o].id].version = obs[o].version
            /\ messages[obs[o].id].problem <=> obs[o].status = "reauthorization_required"
  /\ \A o, p \in Observers :
       /\ \A s \in Subjects : InTransaction(o, s) /\ InTransaction(p, s) => o = p
       /\ obs[o].id # 0 /\ obs[o].id = obs[p].id => o = p
  /\ \A i \in Ids : i >= next => messages[i].fate = "unused"

\* One save at a time has the settings locked, and no check is writing a row that
\* the save has updated.
FormOK ==
  /\ \A a \in Operators : form[a].step = "updated" =>
       /\ settings.version <= MaxSaves
       /\ \A s \in form[a].rows : ~HeldByCheck(s)
  /\ \A a, b \in Operators :
       form[a].step = "updated" /\ form[b].step = "updated" => a = b

\* A round has deliveries left, and a worker sends a message that was queued.
WorkOK ==
  \A w \in Workers :
    /\ work[w].dest <= settings.version
    /\ work[w].step # "idle" => work[w].left # 0
    /\ work[w].step \in {"sending", "sent"} =>
         /\ work[w].id \in Ids
         /\ messages[work[w].id].fate \notin {"unused", "writing"}

\* Nothing is newer than the settings in force.
SeenOK ==
  /\ settings.dest <= settings.version
  /\ \A s \in Subjects : seen[s] <= settings.version

\* While a message is sent, it is not due.
Leased == \A w \in Workers : work[w].step = "sending" => ~Due(work[w].id)

\* A subject without a mark has no alert, and so has one that a check has read no
\* mark of; the check that queues an alert queues the first.
Unmarked ==
  /\ \A s \in Subjects : ~state[s].alerted => marked[s] = {}
  /\ \A o \in Observers :
       /\ obs[o].step = "read" /\ ~obs[o].alerted => marked[obs[o].subject] = {}
       /\ obs[o].step = "written" /\ ~obs[o].alerted
            /\ obs[o].status \notin {"connected", "disabled"}
            => marked[obs[o].subject] = {}
       /\ obs[o].step = "written" /\ obs[o].alerted
            => obs[o].status \notin {"connected", "disabled"}
       /\ obs[o].id # 0 /\ messages[obs[o].id].problem
            => obs[o].alerted /\ marked[obs[o].subject] = {}

\* The alert a mark stands for.
Kept(s) == \E i \in marked[s] : messages[i].fate \in {"queued", "delivered", "failed", "expired"}

\* A check that read the mark, and queues no alert of its own, leaves the one there is.
Marks ==
  \A o \in Observers :
    obs[o].step # "idle" /\ obs[o].alerted /\ obs[o].subject \notin raced
      => Kept(obs[o].subject) \/ (obs[o].id # 0 /\ messages[obs[o].id].problem)

\* A check that is about to record a problem while alerts are on records its mark.
Alerting ==
  \A o \in Observers :
    obs[o].step = "written" /\ obs[o].status = "reauthorization_required"
      /\ obs[o].version = settings.version /\ WebhookOn => obs[o].alerted

\* A problem that was checked under the settings in force has its mark.
ProblemIsMarked ==
  \A s \in Subjects :
    state[s].status = "reauthorization_required" /\ seen[s] = settings.version /\ WebhookOn
      => state[s].alerted

\* The alert of a mark was queued, under the settings in force or missed by the save.
MarkedOK ==
  \A s \in Subjects : \A i \in marked[s] :
    /\ messages[i].fate \notin {"unused", "writing"}
    /\ s \notin raced => UpTo(i, settings.version)

\* A queued message is one of the settings in force, or was missed.
QueueOK ==
  \A i \in Queued : \A u \in messages[i].version + 1 .. settings.version :
    <<u, messages[i].subject>> \in missed

\* So is one that is sent, of the settings its destination was read from.
SendingOK ==
  \A w \in Workers : work[w].step = "sending" =>
    \A u \in messages[work[w].id].version + 1 .. work[w].dest :
      <<u, messages[work[w].id].subject>> \in missed

\* A message that is written while a save commits was missed by that save.
Overtaken ==
  \A o \in Observers :
    obs[o].id # 0 => \A u \in obs[o].version + 1 .. settings.version :
                       <<u, obs[o].subject>> \in missed

\* What the checks and the operators keep, and what the workers do.
Producing == /\ ObsOK /\ FormOK /\ SeenOK /\ Unmarked /\ Marks /\ Alerting /\ Overtaken
             /\ OneAlertPerProblem /\ MarkedAlertIsKept /\ ProblemIsMarked /\ MarkedOK
             /\ QueueOK
Delivering == WorkOK /\ Leased /\ SendingOK /\ NoDuplicateDelivery

IInv == TypeOK /\ Producing /\ Delivering

LEMMA Constants ==
  /\ Idle \in Observer /\ Blank \in Form /\ Resting \in Worker
  /\ Unused \in Message /\ NoRow \in Row
  /\ 0 \in Versions /\ 1 \in Versions /\ Versions \subseteq Nat
  /\ Ids \subseteq Nat /\ 0 \notin Ids
<1>1. /\ 0 \in Versions /\ 1 \in Versions /\ Versions \subseteq Nat
      /\ Ids \subseteq Nat /\ 0 \notin Ids
  BY AlertsAssumption DEF Versions, Ids
<1> QED BY <1>1, AlertsAssumption
  DEF Idle, Observer, Blank, Form, Resting, Worker, Unused, Message, NoRow, Row, Fates

LEMMA InitOK == Init => IInv
<1> SUFFICES ASSUME Init PROVE IInv
  OBVIOUS
<1> USE Constants
<1>1. TypeOK
  <2>1. settings \in Settings
    <3>1. /\ [on |-> FALSE, dest |-> 0, version |-> 1] \in Settings
          /\ [on |-> TRUE, dest |-> 1, version |-> 1] \in Settings
      BY DEF Settings
    <3> QED BY <3>1 DEF Init
  <2>4. next \in 1 .. MaxMessages + 1
    BY AlertsAssumption DEF Init
  <2>2. /\ state \in [Subjects -> Row] /\ messages \in [Ids -> Message]
        /\ obs \in [Observers -> Observer] /\ form \in [Operators -> Form]
        /\ work \in [Workers -> Worker]
    BY DEF Init
  <2>3. sends \in [Ids -> 0 .. 4] /\ marked \in [Subjects -> SUBSET Ids]
        /\ seen \in [Subjects -> Versions]
    BY DEF Init
  <2> QED BY <2>1, <2>2, <2>3, <2>4 DEF Init, TypeOK
<1>2. ObsOK /\ FormOK /\ SeenOK
  BY <1>1 DEF Init, ObsOK, FormOK, SeenOK, Idle, Blank, Unused, InTransaction, Versions
<1>3. Unmarked /\ Marks /\ Alerting /\ Overtaken
  BY DEF Init, Unmarked, Marks, Alerting, Overtaken, Idle
<1>4. OneAlertPerProblem /\ MarkedAlertIsKept /\ ProblemIsMarked /\ MarkedOK /\ QueueOK
  BY DEF Init, OneAlertPerProblem, MarkedAlertIsKept, ProblemIsMarked, MarkedOK, QueueOK,
         Queued, Unused, NoRow
<1>5. Delivering
  BY DEF Init, Delivering, WorkOK, Leased, SendingOK, NoDuplicateDelivery, Resting, Settings, Versions
<1> QED BY <1>1, <1>2, <1>3, <1>4, <1>5 DEF IInv, Producing

-----------------------------------------------------------------------------
(* Steps of the workers                                                    *)

\* A step of a worker makes no message due, and deletes at most queued ones.
Handled ==
  /\ messages' \in [Ids -> Message]
  /\ \A i \in Ids :
       /\ messages'[i].subject = messages[i].subject
       /\ messages'[i].problem = messages[i].problem
       /\ messages'[i].version = messages[i].version
       /\ \/ messages'[i].fate = messages[i].fate
          \/ /\ messages[i].fate = "queued"
             /\ messages'[i].fate \in {"delivered", "failed", "expired"}

\* It keeps what the checks and the operators rely on.
LEMMA ProducingKept ==
  ASSUME TypeOK, Producing, Handled,
         UNCHANGED <<settings, state, next, obs, form, marked, seen, missed, raced>>
  PROVE  Producing'
<1> USE DEF Producing, Handled
<1>1. \A o \in Observers : obs[o].id # 0 => obs[o].id \in Ids
  BY DEF TypeOK, Observer
<1>2. ObsOK'
  BY <1>1 DEF ObsOK, InTransaction
<1>3. FormOK' /\ SeenOK' /\ Alerting' /\ Overtaken' /\ OneAlertPerProblem'
      /\ ProblemIsMarked'
  BY DEF FormOK, SeenOK, Alerting, Overtaken, OneAlertPerProblem, ProblemIsMarked,
         HeldByCheck, WebhookOn
<1>4. \A s \in Subjects : Kept(s) => Kept(s)'
  BY DEF Kept, TypeOK
<1>5. Unmarked'
  BY <1>1 DEF Unmarked
<1>6. Marks'
  BY <1>1, <1>4 DEF Marks, ObsOK
<1>7. MarkedAlertIsKept'
  BY <1>4 DEF MarkedAlertIsKept, Kept
<1>8. QueueOK'
  BY DEF QueueOK, Queued
<1>9. MarkedOK'
  <2>1. \A s \in Subjects : marked[s] \subseteq Ids
    BY DEF TypeOK
  <2> QED BY <2>1 DEF MarkedOK, UpTo
<1> QED BY <1>2, <1>3, <1>5, <1>6, <1>7, <1>8, <1>9

LEMMA GoneOK ==
  ASSUME NEW m \in Message, NEW f \in Fates
  PROVE  /\ Gone(m, f) \in Message
         /\ Gone(m, f).subject = m.subject /\ Gone(m, f).problem = m.problem
         /\ Gone(m, f).version = m.version
         /\ Gone(m, f).fate = f /\ Gone(m, f).ready = FALSE
  BY DEF Gone, Message

\* The rest of the state has its type if what a worker changes has.
LEMMA WorkerTypes ==
  ASSUME TypeOK, Handled, NEW w \in Workers, NEW r \in Worker,
         work' = [work EXCEPT ![w] = r], sends' \in [Ids -> 0 .. 4], unsettled' \subseteq Ids,
         UNCHANGED <<settings, state, next, gone, obs, form, marked, seen, missed, raced>>
  PROVE  TypeOK'
<1>1. work' \in [Workers -> Worker]
  BY DEF TypeOK
<1> QED BY <1>1 DEF TypeOK, Handled

\* What one worker changes keeps what all of them rely on.
LEMMA DeliveringKept ==
  ASSUME TypeOK, Delivering, Handled, NEW w \in Workers, NEW r \in Worker,
         work' = [work EXCEPT ![w] = r], UNCHANGED <<settings, missed>>,
         \A i \in Ids : messages'[i].ready => messages[i].ready,
         r.dest <= settings.version,
         r.step # "idle" => r.left # 0,
         r.step \in {"sending", "sent"} =>
           r.id \in Ids /\ messages[r.id].fate \notin {"unused", "writing"},
         r.step = "sending" =>
           /\ Due(r.id) /\ ~messages'[r.id].ready
           /\ \A u \in messages[r.id].version + 1 .. r.dest : <<u, messages[r.id].subject>> \in missed
  PROVE  Delivering'
<1> USE DEF Delivering, Handled
<1>1. work'[w] = r /\ \A x \in Workers : x # w => work'[x] = work[x]
  BY DEF TypeOK
<1>2. WorkOK'
  BY <1>1 DEF WorkOK
<1>3. \A i \in Ids : Due(i)' => Due(i)
  BY DEF Due, Queued
<1>4. Leased'
  <2> SUFFICES ASSUME NEW x \in Workers, work'[x].step = "sending" PROVE ~Due(work[x].id)'
    BY DEF Leased
  <2>1. CASE x = w
    BY <1>1, <2>1 DEF Due
  <2>2. CASE x # w
    BY <1>1, <1>3, <2>2 DEF Leased, WorkOK
  <2> QED BY <2>1, <2>2
<1>5. SendingOK'
  <2> SUFFICES ASSUME NEW x \in Workers, work'[x].step = "sending",
                      NEW u \in messages'[work'[x].id].version + 1 .. work'[x].dest
               PROVE  <<u, messages'[work'[x].id].subject>> \in missed
    BY DEF SendingOK
  <2>1. CASE x = w
    BY <1>1, <2>1
  <2>2. CASE x # w
    <3>1. work[x].id \in Ids /\ work'[x] = work[x]
      BY <1>1, <2>2 DEF WorkOK
    <3> QED BY <3>1 DEF SendingOK
  <2> QED BY <2>1, <2>2
<1>6. NoDuplicateDelivery'
  <2>1. \A x \in Workers : x # w /\ work[x].step = "sending" /\ r.step = "sending"
                            => work[x].id # r.id
    BY DEF Leased
  <2> QED BY <1>1, <2>1 DEF NoDuplicateDelivery
<1> QED BY <1>2, <1>4, <1>5, <1>6

LEMMA WorkerKeeps ==
  ASSUME IInv, Handled, NEW w \in Workers, NEW r \in Worker,
         work' = [work EXCEPT ![w] = r], sends' \in [Ids -> 0 .. 4], unsettled' \subseteq Ids,
         UNCHANGED <<settings, state, next, gone, obs, form, marked, seen, missed, raced>>,
         \A i \in Ids : messages'[i].ready => messages[i].ready,
         r.dest <= settings.version,
         r.step # "idle" => r.left # 0,
         r.step \in {"sending", "sent"} =>
           r.id \in Ids /\ messages[r.id].fate \notin {"unused", "writing"},
         r.step = "sending" =>
           /\ Due(r.id) /\ ~messages'[r.id].ready
           /\ \A u \in messages[r.id].version + 1 .. r.dest : <<u, messages[r.id].subject>> \in missed
  PROVE  IInv'
<1>1. TypeOK'
  BY WorkerTypes DEF IInv
<1>2. Producing'
  BY ProducingKept DEF IInv
<1>3. Delivering'
  BY DeliveringKept DEF IInv
<1> QED BY <1>1, <1>2, <1>3 DEF IInv

LEMMA SameMessages == ASSUME TypeOK, UNCHANGED messages PROVE Handled
  BY DEF TypeOK, Handled

LEMMA RestingOK ==
  ASSUME TypeOK
  PROVE  Resting \in Worker /\ Resting.step = "idle" /\ Resting.dest <= settings.version
<1>1. Resting \in Worker
  BY Constants
<1>2. settings.version \in Nat
  BY Constants DEF TypeOK, Settings
<1> QED BY <1>1, <1>2 DEF Resting

LEMMA ReadEndpointOK == ASSUME IInv, NEW w \in Workers, ReadEndpoint(w) PROVE IInv'
<1> DEFINE r == [Resting EXCEPT !.step = "round", !.dest = settings.dest, !.left = Batch]
<1>0. TypeOK /\ Handled
  BY SameMessages DEF IInv, ReadEndpoint, db
<1>1. /\ r \in Worker /\ r.step = "round" /\ r.left # 0
      /\ r.dest <= settings.version
  <2>1. settings.dest \in Versions /\ Batch \in 0 .. Batch /\ Batch # 0
    BY <1>0, AlertsAssumption DEF TypeOK, Settings
  <2>2. settings.dest <= settings.version
    BY DEF IInv, Producing, SeenOK
  <2>3. Resting \in Worker
    BY Constants
  <2> QED BY <2>1, <2>2, <2>3 DEF Resting, Worker
<1>2. work' = [work EXCEPT ![w] = r]
  BY DEF ReadEndpoint
<1>3. /\ sends' \in [Ids -> 0 .. 4] /\ unsettled' \subseteq Ids
      /\ UNCHANGED <<settings, state, messages, next, gone, obs, form, marked, seen, missed, raced>>
  BY <1>0 DEF TypeOK, ReadEndpoint, db, history
<1> HIDE DEF r
<1> QED BY <1>0, <1>1, <1>2, <1>3, WorkerKeeps

LEMMA EndRoundOK == ASSUME IInv, NEW w \in Workers, EndRound(w) PROVE IInv'
<1>0. TypeOK /\ Handled
  BY SameMessages DEF IInv, EndRound, db
<1>1. work' = [work EXCEPT ![w] = Resting]
  BY DEF EndRound
<1>2. /\ sends' \in [Ids -> 0 .. 4] /\ unsettled' \subseteq Ids
      /\ UNCHANGED <<settings, state, messages, next, gone, obs, form, marked, seen, missed, raced>>
  BY <1>0 DEF TypeOK, EndRound, db, history
<1> QED BY <1>0, <1>1, <1>2, RestingOK, WorkerKeeps

\* A worker that goes on with its round, or rests.
LEMMA NextOfRoundOK ==
  ASSUME IInv, Handled, NEW w \in Workers, NextOfRound(w), work[w].step # "idle",
         sends' \in [Ids -> 0 .. 4], unsettled' \subseteq Ids,
         UNCHANGED <<settings, state, next, gone, obs, form, marked, seen, missed, raced>>,
         \A i \in Ids : messages'[i].ready => messages[i].ready
  PROVE  IInv'
<1> DEFINE n == [Resting EXCEPT !.step = "round", !.dest = work[w].dest,
                                !.left = work[w].left - 1]
           r == IF work[w].left = 1 THEN Resting ELSE n
<1>1. work[w] \in Worker /\ work[w].left # 0 /\ work[w].dest <= settings.version /\ TypeOK
  BY DEF IInv, TypeOK, Delivering, WorkOK
<1>2. work[w].left # 1 => work[w].left - 1 \in 0 .. Batch /\ work[w].left - 1 # 0
  BY <1>1, AlertsAssumption DEF Worker
<1>3. work[w].left # 1 => n \in Worker /\ n.step = "round" /\ n.left # 0
                          /\ n.dest = work[w].dest
  <2>1. Resting \in Worker /\ work[w].dest \in Versions
    BY <1>1, Constants DEF Worker
  <2> QED BY <1>2, <2>1 DEF Resting, Worker
<1> HIDE DEF n
<1>4. /\ r \in Worker /\ r.dest <= settings.version
      /\ r.step = "idle" \/ (r.step = "round" /\ r.left # 0)
  BY <1>1, <1>3, RestingOK
<1>5. work' = [work EXCEPT ![w] = r]
  BY DEF NextOfRound, n
<1> HIDE DEF r
<1> QED BY <1>4, <1>5, WorkerKeeps

LEMMA NextDeliveryOK == ASSUME IInv, NEW w \in Workers, NextDelivery(w) PROVE IInv'
<1>1. PICK i \in Ids :
        /\ Due(i)
        /\ messages' = [messages EXCEPT ![i].ready = Lease]
        /\ work' = [work EXCEPT ![w].step = "sending", ![w].id = i,
                                ![w].attempts = messages[i].attempts]
  BY DEF NextDelivery
<1> DEFINE r == [work[w] EXCEPT !.step = "sending", !.id = i, !.attempts = messages[i].attempts]
<1>2. TypeOK /\ work[w] \in Worker /\ work[w].step = "round" /\ messages[i] \in Message
  BY DEF IInv, TypeOK, NextDelivery
<1>3. /\ r \in Worker /\ r.step = "sending" /\ r.id = i /\ r.left = work[w].left
      /\ r.dest = work[w].dest
  BY <1>2 DEF Worker, Message
<1>4. work' = [work EXCEPT ![w] = r]
  BY <1>1, <1>2 DEF TypeOK, Worker
<1>5. Handled /\ ~messages'[i].ready /\ \A j \in Ids : messages'[j].ready => messages[j].ready
  BY <1>1, <1>2 DEF Handled, TypeOK, Message, Lease
<1>6. messages[i].fate = "queued"
  BY <1>1 DEF Due, Queued
<1>7. work[w].dest <= settings.version /\ work[w].left # 0
  BY <1>2 DEF IInv, Delivering, WorkOK
<1>8. \A u \in messages[i].version + 1 .. work[w].dest : <<u, messages[i].subject>> \in missed
  <2>1. \A u \in messages[i].version + 1 .. settings.version :
          <<u, messages[i].subject>> \in missed
    BY <1>1 DEF IInv, Producing, QueueOK, Due
  <2>2. /\ settings.version \in Nat /\ work[w].dest \in Nat /\ messages[i].version \in Nat
    BY <1>2, Constants DEF TypeOK, Settings, Worker, Message
  <2> QED BY <1>7, <2>1, <2>2
<1>9. /\ sends' \in [Ids -> 0 .. 4] /\ unsettled' \subseteq Ids
      /\ UNCHANGED <<settings, state, next, gone, obs, form, marked, seen, missed, raced>>
  BY <1>2 DEF TypeOK, NextDelivery, history
<1> HIDE DEF r
<1> QED BY <1>1, <1>3, <1>4, <1>5, <1>6, <1>7, <1>8, <1>9, WorkerKeeps

LEMMA SendWebhookOK ==
  ASSUME IInv, NEW w \in Workers, NEW ok \in BOOLEAN, SendWebhook(w, ok) PROVE IInv'
<1> DEFINE r == [work[w] EXCEPT !.step = "sent", !.ok = ok]
<1>1. TypeOK /\ Handled /\ work[w] \in Worker /\ work[w].step = "sending"
  BY SameMessages DEF IInv, TypeOK, SendWebhook, db
<1>2. /\ r \in Worker /\ r.step = "sent" /\ r.id = work[w].id /\ r.left = work[w].left
      /\ r.dest = work[w].dest
  BY <1>1 DEF Worker
<1>3. work' = [work EXCEPT ![w] = r]
  BY <1>1 DEF SendWebhook, TypeOK, Worker
<1>4. /\ work[w].dest <= settings.version /\ work[w].left # 0 /\ work[w].id \in Ids
      /\ messages[work[w].id].fate \notin {"unused", "writing"}
  BY <1>1 DEF IInv, Delivering, WorkOK
<1>5. sends' \in [Ids -> 0 .. 4]
  BY <1>1, <1>4 DEF SendWebhook, TypeOK
<1>6. /\ unsettled' \subseteq Ids
      /\ UNCHANGED <<settings, state, messages, next, gone, obs, form, marked, seen, missed, raced>>
  BY <1>1 DEF TypeOK, SendWebhook, db
<1> HIDE DEF r
<1> QED BY <1>1, <1>2, <1>3, <1>4, <1>5, <1>6, WorkerKeeps

LEMMA FinishDeliveryOK == ASSUME IInv, NEW w \in Workers, FinishDelivery(w) PROVE IInv'
<1> DEFINE i == work[w].id
<1>1. TypeOK /\ work[w].step = "sent" /\ i \in Ids /\ messages[i] \in Message
  BY DEF IInv, TypeOK, Delivering, WorkOK, FinishDelivery
<1>2. /\ Handled /\ \A j \in Ids : messages'[j].ready => messages[j].ready
  <2>1. CASE i \notin Queued
    BY <1>1, <2>1, SameMessages DEF FinishDelivery, TypeOK
  <2>2. CASE i \in Queued
    <3> DEFINE retry == [messages[i] EXCEPT !.attempts = messages[i].attempts + 1,
                                            !.ready = FALSE]
               m == IF work[w].ok THEN Gone(messages[i], "delivered")
                    ELSE IF LastAttempt(w) THEN Gone(messages[i], "failed") ELSE retry
    <3>1. messages' = [messages EXCEPT ![i] = m]
      BY <2>2 DEF FinishDelivery
    <3>2. /\ m \in Message /\ m.subject = messages[i].subject
          /\ m.problem = messages[i].problem /\ m.version = messages[i].version
          /\ m.fate \in {"queued", "delivered", "failed"} /\ m.ready = FALSE
      <4>1. /\ retry \in Message /\ retry.subject = messages[i].subject
            /\ retry.problem = messages[i].problem /\ retry.version = messages[i].version
            /\ retry.fate = "queued" /\ retry.ready = FALSE
        <5>1. messages[i].attempts + 1 \in Nat /\ messages[i].fate = "queued"
          BY <1>1, <2>2 DEF Message, Queued
        <5>2. ASSUME NEW c \in Message, c.fate = "queued", NEW k \in Nat
              PROVE  LET d == [c EXCEPT !.attempts = k, !.ready = FALSE]
                     IN /\ d \in Message /\ d.subject = c.subject
                        /\ d.problem = c.problem /\ d.version = c.version
                        /\ d.fate = "queued" /\ d.ready = FALSE
          BY <5>2 DEF Message
        <5> QED BY <1>1, <5>1, <5>2
      <4>2. "delivered" \in Fates /\ "failed" \in Fates
        BY DEF Fates
      <4> HIDE DEF retry
      <4>3. CASE work[w].ok
        BY <1>1, <4>2, <4>3, GoneOK
      <4>4. CASE ~work[w].ok /\ LastAttempt(w)
        BY <1>1, <4>2, <4>4, GoneOK
      <4>5. CASE ~work[w].ok /\ ~LastAttempt(w)
        BY <4>1, <4>5
      <4> QED BY <4>3, <4>4, <4>5
    <3> HIDE DEF m
    <3>3. messages[i].fate = "queued"
      BY <2>2 DEF Queued
    <3> QED BY <1>1, <3>1, <3>2, <3>3 DEF Handled, TypeOK
  <2> QED BY <2>1, <2>2
<1>3. /\ sends' \in [Ids -> 0 .. 4] /\ unsettled' \subseteq Ids
      /\ UNCHANGED <<settings, state, next, gone, obs, form, marked, seen, missed, raced>>
  BY <1>1 DEF TypeOK, FinishDelivery, history
<1>4. NextOfRound(w)
  BY DEF FinishDelivery
<1> QED BY <1>1, <1>2, <1>3, <1>4, NextOfRoundOK

LEMMA FinishFailsOK == ASSUME IInv, NEW w \in Workers, FinishFails(w) PROVE IInv'
<1>1. TypeOK /\ Handled /\ work[w].step \in {"sending", "sent"} /\ work[w].id \in Ids
  BY SameMessages DEF IInv, TypeOK, Delivering, WorkOK, FinishFails, db
<1>2. /\ sends' \in [Ids -> 0 .. 4] /\ unsettled' \subseteq Ids
      /\ UNCHANGED <<settings, state, messages, next, gone, obs, form, marked, seen, missed, raced>>
  BY <1>1 DEF TypeOK, FinishFails, db
<1>3. CASE NextOfRound(w)
  BY <1>1, <1>2, <1>3, NextOfRoundOK
<1>4. CASE work' = [work EXCEPT ![w] = Resting]
  BY <1>1, <1>2, <1>4, RestingOK, WorkerKeeps
<1> QED BY <1>3, <1>4 DEF FinishFails

-----------------------------------------------------------------------------
(* Steps of time: only the messages and what is recorded of them change    *)

LEMMA FallDueOK == ASSUME IInv, NEW i \in Ids, FallDue(i) PROVE IInv'
<1> USE DEF IInv
<1>1. /\ i \in Queued /\ ~LeaseHeld(i) /\ messages[i] \in Message
      /\ messages' = [messages EXCEPT ![i].ready = TRUE]
  BY DEF FallDue, TypeOK
<1>2. Handled
  BY <1>1 DEF Handled, TypeOK, Message
<1>3. TypeOK'
  BY <1>2 DEF FallDue, TypeOK, Handled
<1>4. Producing'
  BY <1>2, ProducingKept DEF FallDue
<1>5. \A w \in Workers : work[w].step = "sending" => work[w].id # i
  BY <1>1 DEF LeaseHeld
<1>6. Leased'
  BY <1>1, <1>5 DEF FallDue, Leased, Due, Queued, TypeOK, Delivering, WorkOK, Message
<1>7. WorkOK' /\ SendingOK' /\ NoDuplicateDelivery'
  BY <1>2 DEF FallDue, WorkOK, SendingOK, NoDuplicateDelivery, Delivering, Handled
<1> QED BY <1>3, <1>4, <1>6, <1>7 DEF Delivering

LEMMA PruneDeliveryOK == ASSUME IInv, NEW i \in Ids, PruneDelivery(i) PROVE IInv'
<1> USE DEF IInv
<1> DEFINE m == Gone(messages[i], "expired")
<1>1. /\ messages[i] \in Message /\ messages[i].fate = "queued"
      /\ messages' = [messages EXCEPT ![i] = m]
  BY DEF PruneDelivery, TypeOK, Queued
<1>2. /\ m \in Message /\ m.subject = messages[i].subject /\ m.problem = messages[i].problem
      /\ m.version = messages[i].version /\ m.fate = "expired" /\ m.ready = FALSE
  BY <1>1, GoneOK DEF Fates
<1> HIDE DEF m
<1>3. Handled
  BY <1>1, <1>2 DEF Handled, TypeOK
<1>4. TypeOK'
  BY <1>3 DEF PruneDelivery, TypeOK, Handled, history
<1>5. Producing'
  BY <1>3, ProducingKept DEF PruneDelivery, history
<1>6. Leased'
  BY <1>1, <1>2 DEF PruneDelivery, Leased, Due, Queued, TypeOK, Delivering, WorkOK
<1>7. WorkOK' /\ SendingOK' /\ NoDuplicateDelivery'
  BY <1>3 DEF PruneDelivery, WorkOK, SendingOK, NoDuplicateDelivery, Delivering, Handled, history
<1> QED BY <1>4, <1>5, <1>6, <1>7 DEF Delivering

-----------------------------------------------------------------------------
(* Steps of the checks and the operators                                   *)

\* A step that deletes at most queued messages, and otherwise touches those being
\* written, keeps what the workers rely on.
LEMMA DeliveringStays ==
  ASSUME TypeOK, Delivering, TypeOK', UNCHANGED work,
         settings.version <= settings'.version, missed \subseteq missed',
         \A i \in Ids : messages[i].fate \notin {"unused", "writing"} =>
           /\ messages'[i].subject = messages[i].subject
           /\ messages'[i].version = messages[i].version
           /\ messages'[i].fate \notin {"unused", "writing"}
           /\ Due(i)' => Due(i)
  PROVE  Delivering'
<1>1. \A w \in Workers : work[w].dest \in Nat
  BY Constants DEF TypeOK, Worker
<1>2. settings.version \in Nat /\ settings'.version \in Nat
  BY Constants DEF TypeOK, Settings
<1>3. WorkOK'
  BY <1>1, <1>2 DEF Delivering, WorkOK
<1>4. Leased'
  BY DEF Delivering, Leased, WorkOK
<1>5. SendingOK' /\ NoDuplicateDelivery'
  BY DEF Delivering, SendingOK, NoDuplicateDelivery, WorkOK
<1> QED BY <1>3, <1>4, <1>5 DEF Delivering

\* A step that changes only the forms and the deleted subjects.
LEMMA FormStepOK ==
  ASSUME IInv, form' \in [Operators -> Form], FormOK', gone' \subseteq Subjects,
         UNCHANGED <<settings, state, messages, next, obs, work, history>>
  PROVE  IInv'
<1> USE DEF IInv, history
<1>1. TypeOK'
  BY DEF TypeOK
<1>2. Delivering'
  <2>1. settings.version \in Nat
    BY Constants DEF TypeOK, Settings
  <2>2. settings.version <= settings'.version
    BY <2>1
  <2> QED BY <1>1, <2>2, DeliveringStays DEF Due, Queued
<1>3. ObsOK' /\ SeenOK' /\ Unmarked' /\ Marks' /\ Alerting' /\ Overtaken'
  BY DEF Producing, ObsOK, SeenOK, Unmarked, Marks, Alerting, Overtaken, InTransaction, Kept,
         WebhookOn
<1>4. OneAlertPerProblem' /\ MarkedAlertIsKept' /\ ProblemIsMarked' /\ MarkedOK' /\ QueueOK'
  BY DEF Producing, OneAlertPerProblem, MarkedAlertIsKept, ProblemIsMarked, MarkedOK, UpTo,
         QueueOK, Queued, WebhookOn
<1> QED BY <1>1, <1>2, <1>3, <1>4 DEF Producing

LEMMA BeginSaveOK ==
  ASSUME IInv, NEW a \in Operators, NEW on \in BOOLEAN, NEW new \in BOOLEAN,
         NEW clear \in BOOLEAN, BeginSave(a, on, new, clear)
  PROVE  IInv'
<1> DEFINE f == [Blank EXCEPT !.step = "checked", !.on = on, !.new = new, !.clear = clear]
<1>1. f \in Form /\ f.step = "checked"
  BY Constants DEF Blank, Form
<1>2. form' = [form EXCEPT ![a] = f]
  BY DEF BeginSave
<1> HIDE DEF f
<1>3. form' \in [Operators -> Form] /\ FormOK'
  BY <1>1, <1>2 DEF IInv, TypeOK, Producing, FormOK, BeginSave, HeldByCheck, db
<1>4. gone' \subseteq Subjects
  BY DEF BeginSave, IInv, TypeOK, db
<1> QED BY <1>3, <1>4, FormStepOK DEF BeginSave, db

LEMMA SaveFailsOK == ASSUME IInv, NEW a \in Operators, SaveFails(a) PROVE IInv'
<1>1. Blank \in Form /\ Blank.step = "idle"
  BY Constants DEF Blank
<1>2. form' \in [Operators -> Form] /\ FormOK'
  BY <1>1 DEF IInv, TypeOK, Producing, FormOK, SaveFails, HeldByCheck, db
<1>3. gone' \subseteq Subjects
  BY DEF SaveFails, IInv, TypeOK, db
<1> QED BY <1>2, <1>3, FormStepOK DEF SaveFails, db

LEMMA UpdateSettingsOK == ASSUME IInv, NEW a \in Operators, UpdateSettings(a) PROVE IInv'
<1> DEFINE rows == {s \in Subjects : Exists(s)}
           f == [form[a] EXCEPT !.step = "updated", !.rows = rows]
<1>1. f \in Form /\ f.step = "updated" /\ f.rows = rows
  BY DEF IInv, TypeOK, Form
<1>2. form' = [form EXCEPT ![a] = f]
  BY DEF UpdateSettings, IInv, TypeOK, Form
<1>3. \A s \in rows : ~HeldByCheck(s)
  BY DEF UpdateSettings, WaitForChecks
<1>4. settings.version <= MaxSaves
  <2>1. settings.version \in 1 .. MaxSaves
    BY DEF UpdateSettings
  <2> QED BY <2>1, AlertsAssumption
<1> HIDE DEF f, rows
<1>5. form' \in [Operators -> Form]
  BY <1>1, <1>2 DEF IInv, TypeOK
<1>6. FormOK'
  <2>1. form'[a] = f /\ \A b \in Operators : b # a => form'[b] = form[b]
    BY <1>2 DEF IInv, TypeOK
  <2>2. \A b \in Operators : b # a => form'[b].step # "updated"
    BY <2>1 DEF UpdateSettings
  <2>3. UNCHANGED <<settings, obs>>
    BY DEF UpdateSettings, db
  <2> QED BY <1>1, <1>3, <1>4, <2>1, <2>2, <2>3 DEF FormOK, HeldByCheck
<1>7. gone' \subseteq Subjects
  BY DEF UpdateSettings, IInv, TypeOK, db
<1> QED BY <1>5, <1>6, <1>7, FormStepOK DEF UpdateSettings, db

\* A check that has listed its subject has read nothing yet.
LEMMA DeleteSubjectOK ==
  ASSUME IInv, NEW s \in Subjects, NEW O \in SUBSET Observers, DeleteSubject(s, O)
  PROVE  IInv'
<1> USE DEF IInv
<1> DEFINE r == [Idle EXCEPT !.step = "listed", !.subject = s]
<1>1. /\ r \in Observer /\ r.step = "listed" /\ r.subject = s
      /\ r.alerted = FALSE /\ r.id = 0 /\ r.version = 0
  BY Constants DEF Idle, Observer
<1>2. obs' = [p \in Observers |-> IF p \in O THEN r ELSE obs[p]]
  BY DEF DeleteSubject
<1> HIDE DEF r
<1>3. /\ \A p \in O : obs'[p] = r
      /\ \A p \in Observers : p \in O \/ obs'[p] = obs[p]
  BY <1>2
<1>4. UNCHANGED <<settings, state, messages, next, form, work, history>>
  BY DEF DeleteSubject
<1>13. gone' \subseteq Subjects
  BY DEF DeleteSubject, TypeOK
<1>5. settings.version \in Nat
  BY Constants DEF TypeOK, Settings
<1>6. TypeOK'
  <2>1. obs' \in [Observers -> Observer]
    BY <1>1, <1>2 DEF TypeOK
  <2> QED BY <1>4, <1>13, <2>1 DEF TypeOK, history
<1>7. Delivering'
  BY <1>4, <1>5, <1>6, DeliveringStays DEF Due, Queued, history
<1>8. ObsOK'
  BY <1>1, <1>3, <1>4, <1>5 DEF ObsOK, Producing, InTransaction
<1>9. SeenOK' /\ OneAlertPerProblem' /\ MarkedAlertIsKept' /\ ProblemIsMarked' /\ MarkedOK'
      /\ QueueOK'
  BY <1>4 DEF Producing, SeenOK, OneAlertPerProblem, MarkedAlertIsKept, ProblemIsMarked,
     MarkedOK, UpTo, QueueOK, Queued, WebhookOn, history
<1>12. FormOK'
  BY <1>1, <1>3, <1>4 DEF Producing, FormOK, HeldByCheck
<1>10. Unmarked' /\ Alerting' /\ Overtaken'
  <2>1. Unmarked'
    <3>1. UNCHANGED <<state, messages, marked>>
      BY <1>4 DEF history
    <3>2. \A p \in Observers : obs'[p] = obs[p] \/ (obs'[p].step = "listed" /\ obs'[p].id = 0)
      BY <1>1, <1>3
    <3> QED BY <3>1, <3>2 DEF Producing, Unmarked
  <2>2. Alerting'
    BY <1>1, <1>3, <1>4 DEF Producing, Alerting, WebhookOn
  <2>3. Overtaken'
    BY <1>1, <1>3, <1>4 DEF Producing, Overtaken, history
  <2> QED BY <2>1, <2>2, <2>3
<1>11. Marks'
  BY <1>1, <1>3, <1>4 DEF Producing, Marks, Kept, history
<1> QED BY <1>6, <1>7, <1>8, <1>9, <1>10, <1>11, <1>12 DEF Producing

LEMMA ReadStateOK ==
  ASSUME IInv, NEW o \in Observers, NEW s \in Subjects, NEW status \in Found,
         ReadState(o, s, status)
  PROVE  IInv'
<1> USE DEF IInv
<1> DEFINE r == [Idle EXCEPT !.step = "read", !.subject = s, !.status = status,
                             !.alerted = state[s].alerted]
<1>1. status \in Statuses /\ state[s] \in Row
  BY AlertsAssumption DEF TypeOK
<1>2. /\ r \in Observer /\ r.step = "read" /\ r.subject = s /\ r.status = status
      /\ r.alerted = state[s].alerted /\ r.id = 0 /\ r.version = 0
  BY <1>1, Constants DEF Row, Idle, Observer
<1>3. obs' = [obs EXCEPT ![o] = r]
  BY DEF ReadState
<1> HIDE DEF r
<1>4. obs'[o] = r /\ \A p \in Observers : p # o => obs'[p] = obs[p]
  BY <1>3 DEF TypeOK
<1>5. UNCHANGED <<settings, state, messages, next, gone, form, work, history>>
  BY DEF ReadState, db
<1>6. settings.version \in Nat
  BY Constants DEF TypeOK, Settings
<1>7. TypeOK'
  BY <1>2, <1>3, <1>5 DEF TypeOK, history
<1>8. Delivering'
  BY <1>5, <1>6, <1>7, DeliveringStays DEF Due, Queued, history
<1>9. ObsOK'
  <2>1. \A p \in Observers : ~InTransaction(p, s)
    BY DEF ReadState, AdvisoryLockFree
  <2> QED BY <1>1, <1>2, <1>4, <1>5, <1>6, <2>1 DEF ObsOK, Producing, InTransaction
<1>10. SeenOK' /\ OneAlertPerProblem' /\ MarkedAlertIsKept' /\ ProblemIsMarked' /\ MarkedOK'
       /\ QueueOK'
  BY <1>5 DEF Producing, SeenOK, OneAlertPerProblem, MarkedAlertIsKept, ProblemIsMarked,
     MarkedOK, UpTo, QueueOK, Queued, WebhookOn, history
<1>13. FormOK'
  BY <1>2, <1>4, <1>5 DEF Producing, FormOK, HeldByCheck
<1>11. Unmarked' /\ Alerting' /\ Overtaken'
  BY <1>2, <1>4, <1>5 DEF Producing, Unmarked, Alerting, Overtaken, WebhookOn, history
<1>12. Marks'
  BY <1>2, <1>4, <1>5 DEF Producing, Marks, MarkedAlertIsKept, Kept, history
<1> QED BY <1>7, <1>8, <1>9, <1>10, <1>11, <1>12, <1>13 DEF Producing

\* A subject's row goes when no transaction has written it.
LEMMA PruneStateOK == ASSUME IInv, NEW s \in Subjects, PruneState(s) PROVE IInv'
<1> USE DEF IInv
<1>1. /\ state' = [state EXCEPT ![s] = NoRow] /\ marked' = [marked EXCEPT ![s] = {}]
      /\ UNCHANGED <<settings, messages, next, gone, obs, form, work, sends, unsettled, seen,
                     missed>>
  BY DEF PruneState
<1>2. /\ \A t \in Subjects : t # s => state'[t] = state[t] /\ marked'[t] = marked[t]
      /\ state'[s].alerted = FALSE /\ state'[s].status = "none" /\ marked'[s] = {}
  BY <1>1 DEF TypeOK, NoRow
<1>3. /\ raced \subseteq raced' /\ raced' \subseteq raced \cup {s}
      /\ \A o \in Observers : InTransaction(o, s) /\ obs[o].alerted => s \in raced'
  BY DEF PruneState
<1>4. TypeOK'
  BY <1>1, <1>3, Constants DEF TypeOK
<1>5. settings.version \in Nat
  BY Constants DEF TypeOK, Settings
<1>6. Delivering'
  BY <1>1, <1>4, <1>5, DeliveringStays DEF Due, Queued
<1>7. ObsOK' /\ FormOK' /\ SeenOK' /\ Alerting' /\ Overtaken' /\ QueueOK'
  BY <1>1 DEF Producing, ObsOK, FormOK, SeenOK, Alerting, Overtaken, QueueOK, Queued,
     InTransaction, HeldByCheck, WebhookOn
<1>8. \A o \in Observers :
        /\ obs[o].step # "idle" => obs[o].subject \in Subjects
        /\ obs[o].step # "idle" /\ obs[o].alerted => obs[o].step \in {"read", "written"}
  BY DEF Producing, ObsOK, TypeOK, Observer
<1>9. \A o \in Observers : obs[o].id # 0 => obs[o].step = "written"
  BY DEF Producing, ObsOK
<1>10. Unmarked'
  <2>1. \A t \in Subjects : marked[t] = {} => marked'[t] = {}
    BY <1>2
  <2>2. \A t \in Subjects : ~state'[t].alerted => marked'[t] = {}
    BY <1>2, <2>1 DEF Producing, Unmarked
  <2>3. \A o \in Observers : obs[o].step # "idle" /\ marked[obs[o].subject] = {}
                              => marked'[obs[o].subject] = {}
    BY <1>8, <2>1
  <2> QED BY <1>1, <1>9, <2>2, <2>3 DEF Producing, Unmarked
<1>11. Marks'
  <2> SUFFICES ASSUME NEW o \in Observers, obs[o].step # "idle", obs[o].alerted,
                      obs[o].subject \notin raced',
                      ~(obs[o].id # 0 /\ messages[obs[o].id].problem)
               PROVE  Kept(obs[o].subject)'
    BY <1>1 DEF Marks
  <2>1. obs[o].subject # s
    BY <1>3, <1>8 DEF InTransaction
  <2>2. Kept(obs[o].subject)
    BY <1>3 DEF Producing, Marks
  <2> QED BY <1>1, <1>2, <1>8, <2>1, <2>2 DEF Kept
<1>12. OneAlertPerProblem' /\ MarkedAlertIsKept' /\ ProblemIsMarked' /\ MarkedOK'
  BY <1>1, <1>2, <1>3 DEF Producing, OneAlertPerProblem, MarkedAlertIsKept, ProblemIsMarked,
     MarkedOK, UpTo, WebhookOn
<1> QED BY <1>4, <1>6, <1>7, <1>10, <1>11, <1>12 DEF Producing

LEMMA WriteStateOK == ASSUME IInv, NEW o \in Observers, WriteState(o) PROVE IInv'
<1> USE DEF IInv
<1> DEFINE s == obs[o].subject
           queued == NeedsAlert(o) /\ WebhookOn
           r == [obs[o] EXCEPT !.step = "written", !.alerted = Mark(o, queued),
                               !.id = IF queued THEN next ELSE 0, !.version = settings.version]
           m == [Unused EXCEPT !.subject = s, !.version = settings.version,
                               !.problem = (obs[o].status = "reauthorization_required"),
                               !.ready = TRUE, !.fate = "writing"]
<1>1. /\ obs[o] \in Observer /\ obs[o].step = "read" /\ s \in Subjects
      /\ obs[o].status \in Statuses /\ obs[o].id = 0
  BY DEF WriteState, TypeOK, Producing, ObsOK
<1>2. queued => next \in Ids
  BY DEF WriteState
<1>3. settings.version \in Versions /\ settings.version \in Nat
  BY Constants DEF TypeOK, Settings
<1>4. /\ m \in Message /\ m.subject = s /\ m.version = settings.version
      /\ (m.problem <=> obs[o].status = "reauthorization_required") /\ m.fate = "writing"
  BY <1>1, <1>3, Constants DEF Unused, Message, Fates
<1>5. queued \in BOOLEAN /\ Mark(o, queued) \in BOOLEAN
  BY DEF Mark
<1>6. /\ r \in Observer /\ r.step = "written" /\ r.alerted = Mark(o, queued)
      /\ r.id = (IF queued THEN next ELSE 0) /\ r.version = settings.version
      /\ r.subject = s /\ r.status = obs[o].status
  BY <1>1, <1>2, <1>3, <1>5 DEF Observer
<1>7. obs' = [obs EXCEPT ![o] = r]
  BY <1>1 DEF WriteState, TypeOK, Observer
<1>8. /\ queued => messages' = [messages EXCEPT ![next] = m] /\ next' = next + 1
      /\ ~queued => UNCHANGED <<messages, next>>
  BY DEF WriteState
<1>9. UNCHANGED <<settings, state, gone, form, work, history>>
  BY DEF WriteState
<1>10. ~HeldBySave(s)
  BY DEF WriteState
<1>11. Mark(o, queued) = (/\ obs[o].status \notin {"connected", "disabled"}
                          /\ obs[o].alerted \/ queued)
  BY DEF Mark
<1>12. queued => \/ obs[o].status = "reauthorization_required" /\ ~obs[o].alerted
                 \/ obs[o].status = "connected" /\ obs[o].alerted
  BY DEF NeedsAlert
<1>13. obs[o].status = "reauthorization_required" /\ WebhookOn => obs[o].alerted \/ queued
  BY DEF NeedsAlert
<1> HIDE DEF s, queued, r, m
<1>14. obs'[o] = r /\ \A p \in Observers : p # o => obs'[p] = obs[p]
  BY <1>7 DEF TypeOK
<1>15. /\ next \in Nat /\ next >= 1 /\ (queued => next \in Ids /\ next' \in 1 .. MaxMessages + 1)
       /\ next <= next'
  BY <1>2, <1>8, AlertsAssumption DEF TypeOK, Ids
<1>16. \A i \in Ids : messages'[i] = IF queued /\ i = next THEN m ELSE messages[i]
  BY <1>8, <1>15 DEF TypeOK
<1>17. \A i \in Ids : messages[i].fate \notin {"unused"} => messages'[i] = messages[i]
  BY <1>15, <1>16 DEF Producing, ObsOK
<1>18. TypeOK'
  BY <1>4, <1>6, <1>7, <1>8, <1>9, <1>15 DEF TypeOK, history
<1>19. Delivering'
  BY <1>3, <1>9, <1>17, <1>18, DeliveringStays DEF Due, Queued, history
<1>20. ObsOK'
  <2>1. \A p \in Observers : p # o => /\ obs'[p] = obs[p]
                                      /\ obs[p].id # 0 => /\ messages'[obs[p].id] = messages[obs[p].id]
                                                          /\ obs[p].id < next
    BY <1>14, <1>17 DEF Producing, ObsOK, TypeOK, Observer
  <2>2. \A p \in Observers :
          /\ obs'[p].step # "idle" => obs'[p].subject \in Subjects
          /\ obs'[p].step \in {"read", "written"} => obs'[p].status \in Statuses
          /\ obs'[p].step = "listed" => ~obs'[p].alerted
          /\ obs'[p].version <= settings.version
          /\ obs'[p].step # "written" => obs'[p].id = 0
    BY <1>1, <1>3, <1>6, <1>14 DEF Producing, ObsOK
  <2>3. \A p \in Observers : obs'[p].id # 0 =>
          /\ obs'[p].id < next' /\ messages'[obs'[p].id].fate = "writing"
          /\ messages'[obs'[p].id].subject = obs'[p].subject
          /\ messages'[obs'[p].id].version = obs'[p].version
          /\ messages'[obs'[p].id].problem <=> obs'[p].status = "reauthorization_required"
    <3> SUFFICES ASSUME NEW p \in Observers, obs'[p].id # 0
                 PROVE  /\ obs'[p].id < next' /\ messages'[obs'[p].id].fate = "writing"
                        /\ messages'[obs'[p].id].subject = obs'[p].subject
                        /\ messages'[obs'[p].id].version = obs'[p].version
                        /\ messages'[obs'[p].id].problem
                             <=> obs'[p].status = "reauthorization_required"
      OBVIOUS
    <3>1. CASE p = o
      <4>1. queued /\ obs'[p] = r /\ r.id = next
        BY <1>6, <1>14, <3>1
      <4>2. messages'[next] = m /\ next < next'
        BY <1>8, <1>15, <1>16, <4>1
      <4> QED BY <1>4, <1>6, <4>1, <4>2
    <3>2. CASE p # o
      BY <1>8, <1>15, <2>1, <3>2 DEF Producing, ObsOK, TypeOK, Observer, Ids
    <3> QED BY <3>1, <3>2
  <2>4. \A p, q \in Observers :
          /\ \A t \in Subjects : InTransaction(p, t)' /\ InTransaction(q, t)' => p = q
          /\ obs'[p].id # 0 /\ obs'[p].id = obs'[q].id => p = q
    <3>1. \A p \in Observers, t \in Subjects : InTransaction(p, t)' => InTransaction(p, t)
      BY <1>1, <1>6, <1>14 DEF InTransaction, s
    <3>2. \A p \in Observers : p # o /\ obs'[p].id # 0 => obs'[p].id # r.id
      BY <1>6, <1>15, <2>1
    <3> QED BY <1>14, <3>1, <3>2 DEF Producing, ObsOK
  <2>5. \A i \in Ids : i >= next' => messages'[i].fate = "unused"
    BY <1>8, <1>15, <1>16 DEF Producing, ObsOK, Ids
  <2> QED BY <1>9, <2>2, <2>3, <2>4, <2>5 DEF ObsOK
<1>21. FormOK'
  <2>1. \A t \in Subjects : HeldByCheck(t)' => HeldByCheck(t) \/ t = s
    BY <1>6, <1>14 DEF HeldByCheck
  <2>2. \A a \in Operators : form[a].step = "updated" => s \notin form[a].rows
    BY <1>10 DEF HeldBySave
  <2>3. \A a \in Operators : form[a].rows \subseteq Subjects
    BY DEF TypeOK, Form
  <2> QED BY <1>9, <2>1, <2>2, <2>3 DEF Producing, FormOK
<1>22. \A t \in Subjects : Kept(t) => Kept(t)'
  BY <1>9, <1>17 DEF Kept, TypeOK, history
<1>23. Marks'
  <2> SUFFICES ASSUME NEW p \in Observers, obs'[p].step # "idle", obs'[p].alerted,
                      obs'[p].subject \notin raced
               PROVE  \/ Kept(obs[p].subject)'
                      \/ obs'[p].id # 0 /\ messages'[obs'[p].id].problem
    BY <1>9 DEF Marks, Kept, history
  <2>1. CASE p # o
    <3>1. obs[p].id # 0 => messages'[obs[p].id] = messages[obs[p].id]
      BY <1>17 DEF Producing, ObsOK, TypeOK, Observer
    <3>2. obs[p].subject \in Subjects
      BY <1>14, <2>1 DEF Producing, ObsOK
    <3> QED BY <1>14, <1>22, <2>1, <3>1, <3>2 DEF Producing, Marks
  <2>2. CASE p = o
    <3>1. obs[o].alerted \/ queued
      BY <1>6, <1>11, <1>14, <2>2
    <3>2. CASE obs[o].alerted
      <4>1. Kept(s)
        BY <1>1, <1>6, <1>14, <2>2, <3>2 DEF Producing, Marks, s
      <4> QED BY <1>1, <1>6, <1>14, <1>22, <2>2, <4>1
    <3>3. CASE ~obs[o].alerted
      <4>1. queued /\ obs[o].status = "reauthorization_required"
        BY <1>12, <3>1, <3>3
      <4> QED BY <1>4, <1>6, <1>14, <1>15, <1>16, <2>2, <4>1
    <3> QED BY <3>2, <3>3
  <2> QED BY <2>1, <2>2
<1>24. Unmarked'
  <2>1. \A p \in Observers : p # o /\ obs[p].id # 0 => messages'[obs[p].id] = messages[obs[p].id]
    BY <1>17 DEF Producing, ObsOK, TypeOK, Observer
  <2>2. r.alerted = FALSE /\ r.status \notin {"connected", "disabled"} => marked[s] = {}
    BY <1>1, <1>6, <1>11 DEF Producing, Unmarked, s
  <2>3. r.id # 0 /\ messages'[r.id].problem => r.alerted /\ marked[s] = {}
    <3> SUFFICES ASSUME r.id # 0, messages'[r.id].problem PROVE r.alerted /\ marked[s] = {}
      OBVIOUS
    <3>1. queued /\ messages'[next] = m
      BY <1>6, <1>15, <1>16
    <3>2. ~obs[o].alerted /\ obs[o].status = "reauthorization_required"
      BY <1>4, <1>6, <1>12, <3>1
    <3> QED BY <1>1, <1>6, <1>11, <3>1, <3>2 DEF Producing, Unmarked, s
  <2>4. r.alerted => r.status \notin {"connected", "disabled"}
    BY <1>6, <1>11
  <2>5. UNCHANGED <<state, marked>>
    BY <1>9 DEF history
  <2>6. \A t \in Subjects : ~state'[t].alerted => marked'[t] = {}
    BY <2>5 DEF Producing, Unmarked
  <2>7. ASSUME NEW p \in Observers, p # o
        PROVE  LET q == obs'[p]
               IN /\ q.step = "read" /\ ~q.alerted => marked[q.subject] = {}
                  /\ q.step = "written" /\ ~q.alerted /\ q.status \notin {"connected", "disabled"}
                       => marked[q.subject] = {}
                  /\ q.step = "written" /\ q.alerted
                       => q.status \notin {"connected", "disabled"}
                  /\ q.id # 0 /\ messages'[q.id].problem
                       => q.alerted /\ marked[q.subject] = {}
    BY <1>14, <2>1, <2>7 DEF Producing, Unmarked
  <2> QED BY <1>6, <1>14, <2>2, <2>3, <2>4, <2>5, <2>6, <2>7 DEF Unmarked
<1>25. Alerting'
  BY <1>6, <1>9, <1>11, <1>13, <1>14 DEF Producing, Alerting, WebhookOn
<1>26. Overtaken'
  BY <1>3, <1>6, <1>9, <1>14 DEF Producing, Overtaken, history
<1>27. OneAlertPerProblem' /\ ProblemIsMarked' /\ SeenOK'
  BY <1>9 DEF Producing, OneAlertPerProblem, ProblemIsMarked, SeenOK, WebhookOn, history
<1>28. MarkedAlertIsKept'
  BY <1>9, <1>22 DEF Producing, MarkedAlertIsKept, Kept, history
<1>29. QueueOK'
  BY <1>4, <1>9, <1>16, <1>17 DEF Producing, QueueOK, Queued, history
<1>30. MarkedOK'
  <2>1. \A t \in Subjects : \A i \in marked[t] : i \in Ids /\ messages'[i] = messages[i]
    BY <1>17 DEF Producing, MarkedOK, TypeOK
  <2> QED BY <1>9, <2>1 DEF Producing, MarkedOK, UpTo, history
<1> QED
  BY <1>18, <1>19, <1>20, <1>21, <1>23, <1>24, <1>25, <1>26, <1>27, <1>28, <1>29, <1>30
  DEF Producing

\* The end of a transaction concerns its own message only, which is queued or, the
\* insertion being undone, was never there.
LEMMA EndedOK ==
  ASSUME IInv, NEW o \in Observers, NEW committed \in BOOLEAN, Ended(o, committed),
         obs' = [obs EXCEPT ![o] = Idle], UNCHANGED <<next, form, settings, work>>
  PROVE  /\ messages' \in [Ids -> Message]
         /\ obs' \in [Observers -> Observer] /\ obs'[o] = Idle
         /\ \A p \in Observers : p # o => obs'[p] = obs[p]
         /\ \A i \in Ids : i # obs[o].id => messages'[i] = messages[i]
         /\ obs[o].id # 0 => /\ obs[o].id \in Ids
                             /\ messages[obs[o].id].fate = "writing"
                             /\ messages'[obs[o].id] = IF committed
                                  THEN [messages[obs[o].id] EXCEPT !.fate = "queued"]
                                  ELSE Unused
         /\ ObsOK' /\ FormOK'
<1> USE DEF IInv
<1> DEFINE i == obs[o].id
<1>1. obs[o] \in Observer /\ obs' \in [Observers -> Observer] /\ obs'[o] = Idle
      /\ \A p \in Observers : p # o => obs'[p] = obs[p]
  BY Constants DEF TypeOK
<1>2. i # 0 => i \in Ids /\ messages[i].fate = "writing" /\ messages[i] \in Message /\ i < next
  BY <1>1 DEF Observer, TypeOK, Producing, ObsOK
<1>3. i # 0 => messages' = [messages EXCEPT ![i] = IF committed
                              THEN [messages[i] EXCEPT !.fate = "queued"] ELSE Unused]
  BY DEF Ended
<1>4. i = 0 => messages' = messages
  BY DEF Ended
<1>5. i # 0 => (IF committed THEN [messages[i] EXCEPT !.fate = "queued"] ELSE Unused) \in Message
  BY <1>2, Constants DEF Message, Fates
<1>6. /\ messages' \in [Ids -> Message]
      /\ \A j \in Ids : j # i => messages'[j] = messages[j]
      /\ i # 0 => messages'[i] = IF committed
                                   THEN [messages[i] EXCEPT !.fate = "queued"] ELSE Unused
  BY <1>2, <1>3, <1>4, <1>5 DEF TypeOK
<1>7. \A p \in Observers : p # o /\ obs[p].id # 0 =>
        obs[p].id \in Ids /\ messages'[obs[p].id] = messages[obs[p].id]
  BY <1>6 DEF TypeOK, Observer, Producing, ObsOK
<1>8. Idle.step = "idle" /\ Idle.id = 0 /\ Idle.version = 0
  BY DEF Idle
<1>9. settings.version \in Nat
  BY Constants DEF TypeOK, Settings
<1>10. ObsOK'
  <2>1. \A p \in Observers :
          /\ obs'[p].step # "idle" => obs'[p].subject \in Subjects
          /\ obs'[p].step \in {"read", "written"} => obs'[p].status \in Statuses
          /\ obs'[p].step = "listed" => ~obs'[p].alerted
          /\ obs'[p].version <= settings.version
          /\ obs'[p].step # "written" => obs'[p].id = 0
          /\ obs'[p].id # 0 =>
               /\ obs'[p].id < next
               /\ messages'[obs'[p].id].fate = "writing"
               /\ messages'[obs'[p].id].subject = obs'[p].subject
               /\ messages'[obs'[p].id].version = obs'[p].version
               /\ messages'[obs'[p].id].problem
                    <=> obs'[p].status = "reauthorization_required"
    BY <1>1, <1>7, <1>8, <1>9 DEF Producing, ObsOK
  <2>2. \A p, q \in Observers :
          /\ \A s \in Subjects : InTransaction(p, s)' /\ InTransaction(q, s)' => p = q
          /\ obs'[p].id # 0 /\ obs'[p].id = obs'[q].id => p = q
    BY <1>1, <1>8 DEF Producing, ObsOK, InTransaction
  <2>3. \A j \in Ids : j >= next => messages'[j].fate = "unused"
    BY <1>2, <1>6 DEF Producing, ObsOK, TypeOK, Ids
  <2> QED BY <2>1, <2>2, <2>3 DEF ObsOK
<1>11. FormOK'
  BY <1>1, <1>8 DEF Producing, FormOK, HeldByCheck
<1> QED BY <1>1, <1>2, <1>6, <1>10, <1>11

LEMMA ObserveFailsOK == ASSUME IInv, NEW o \in Observers, ObserveFails(o) PROVE IInv'
<1> USE DEF IInv
<1>1. /\ Ended(o, FALSE) /\ obs' = [obs EXCEPT ![o] = Idle]
      /\ UNCHANGED <<settings, state, next, gone, form, work, history>>
  BY DEF ObserveFails
<1>2. /\ messages' \in [Ids -> Message]
      /\ obs' \in [Observers -> Observer] /\ obs'[o] = Idle
      /\ \A p \in Observers : p # o => obs'[p] = obs[p]
      /\ \A i \in Ids : i # obs[o].id => messages'[i] = messages[i]
      /\ obs[o].id # 0 => /\ messages[obs[o].id].fate = "writing"
                          /\ messages'[obs[o].id] = Unused
      /\ ObsOK' /\ FormOK'
  BY <1>1, EndedOK
<1>3. \A i \in Ids : \/ messages'[i] = messages[i]
                     \/ messages[i].fate = "writing" /\ messages'[i].fate = "unused"
  BY <1>2, Constants DEF Unused
<1>4. Idle.step = "idle" /\ Idle.id = 0
  BY DEF Idle
<1>5. TypeOK'
  BY <1>1, <1>2 DEF TypeOK, history
<1>6. settings.version \in Nat
  BY Constants DEF TypeOK, Settings
<1>7. Delivering'
  BY <1>1, <1>3, <1>5, <1>6, DeliveringStays DEF Due, Queued, history
<1>8. \A p \in Observers : p # o /\ obs[p].id # 0 => messages'[obs[p].id] = messages[obs[p].id]
  BY <1>2 DEF TypeOK, Observer, Producing, ObsOK
<1>9. \A s \in Subjects : Kept(s) => Kept(s)'
  BY <1>1, <1>3 DEF Kept, TypeOK, history
<1>10. Unmarked' /\ Alerting' /\ Overtaken'
  BY <1>1, <1>2, <1>4, <1>8 DEF Producing, Unmarked, Alerting, Overtaken, WebhookOn, history
<1>11. Marks'
  <2>1. \A p \in Observers : obs[p].step # "idle" => obs[p].subject \in Subjects
    BY DEF Producing, ObsOK
  <2>2. \A p \in Observers : obs'[p].step # "idle" => p # o /\ obs'[p] = obs[p]
    BY <1>2, <1>4
  <2>3. \A p \in Observers : obs'[p].step # "idle" /\ Kept(obs[p].subject)
                               => Kept(obs[p].subject)'
    BY <1>1, <1>9, <2>1, <2>2 DEF Kept, history
  <2> QED BY <1>1, <1>8, <2>2, <2>3 DEF Producing, Marks, Kept, history
<1>12. OneAlertPerProblem' /\ MarkedAlertIsKept' /\ ProblemIsMarked' /\ SeenOK' /\ QueueOK'
  BY <1>1, <1>3, <1>9 DEF Producing, OneAlertPerProblem, MarkedAlertIsKept, Kept,
     ProblemIsMarked, SeenOK, QueueOK, Queued, WebhookOn, history
<1>13. MarkedOK'
  <2>1. \A t \in Subjects : \A i \in marked[t] : i \in Ids /\ messages'[i] = messages[i]
    BY <1>3 DEF Producing, MarkedOK, TypeOK
  <2> QED BY <1>1, <2>1 DEF Producing, MarkedOK, UpTo, history
<1> QED BY <1>2, <1>5, <1>7, <1>10, <1>11, <1>12, <1>13 DEF Producing

LEMMA CommitStateOK == ASSUME IInv, NEW o \in Observers, CommitState(o) PROVE IInv'
<1> USE DEF IInv
<1> DEFINE s == obs[o].subject
           i == obs[o].id
           alert == IF i # 0 /\ messages[i].problem THEN {i} ELSE {}
<1>1. /\ obs[o].step = "written" /\ obs[o] \in Observer /\ s \in Subjects
      /\ obs[o].status \in Statuses /\ obs[o].alerted \in BOOLEAN /\ i \in Ids \cup {0}
      /\ obs[o].version \in Versions
  BY DEF CommitState, TypeOK, Observer, Producing, ObsOK
<1>2. /\ Ended(o, TRUE) /\ obs' = [obs EXCEPT ![o] = Idle]
      /\ UNCHANGED <<settings, next, gone, form, work, sends, unsettled, missed>>
  BY DEF CommitState
<1>3. /\ messages' \in [Ids -> Message]
      /\ obs' \in [Observers -> Observer] /\ obs'[o] = Idle
      /\ \A p \in Observers : p # o => obs'[p] = obs[p]
      /\ \A j \in Ids : j # i => messages'[j] = messages[j]
      /\ i # 0 => /\ i \in Ids /\ messages[i].fate = "writing"
                  /\ messages'[i] = [messages[i] EXCEPT !.fate = "queued"]
      /\ ObsOK' /\ FormOK'
  BY <1>2, EndedOK
<1>4. i # 0 => /\ messages'[i].fate = "queued" /\ messages'[i].subject = messages[i].subject
               /\ messages'[i].version = messages[i].version
  BY <1>3 DEF TypeOK, Message
<1>23. \A j \in Ids : \/ messages'[j] = messages[j]
                      \/ messages[j].fate = "writing" /\ messages'[j].fate = "queued"
  BY <1>3, <1>4, Constants
<1>5. /\ state' = [state EXCEPT ![s] = [status |-> obs[o].status, alerted |-> obs[o].alerted]]
      /\ marked' = [marked EXCEPT ![s] = IF obs[o].status \in {"connected", "disabled"}
                                           THEN {} ELSE @ \cup alert]
      /\ seen' = [seen EXCEPT ![s] = obs[o].version]
      /\ raced' = IF obs[o].alerted /\ alert = {} THEN raced ELSE raced \ {s}
  BY DEF CommitState
<1>6. /\ alert \subseteq Ids
      /\ alert # {} => /\ i # 0 /\ messages[i].problem /\ alert = {i} /\ marked[s] = {}
                       /\ obs[o].alerted
  BY <1>1 DEF Producing, Unmarked
<1>7. alert = {} => ~(i # 0 /\ messages[i].problem)
  OBVIOUS
<1>8. obs[o].alerted => obs[o].status \notin {"connected", "disabled"}
  BY <1>1 DEF Producing, Unmarked
<1> HIDE DEF s, i, alert
<1>9. /\ state'[s].status = obs[o].status /\ state'[s].alerted = obs[o].alerted
      /\ marked'[s] = IF obs[o].status \in {"connected", "disabled"} THEN {}
                      ELSE marked[s] \cup alert
      /\ seen'[s] = obs[o].version
      /\ \A t \in Subjects : t # s => /\ state'[t] = state[t] /\ marked'[t] = marked[t]
                                      /\ seen'[t] = seen[t] /\ (t \in raced' <=> t \in raced)
  BY <1>1, <1>5 DEF TypeOK
<1>10. TypeOK'
  <2>1. [status |-> obs[o].status, alerted |-> obs[o].alerted] \in Row
    BY <1>1 DEF Row
  <2>2. state' \in [Subjects -> Row] /\ marked' \in [Subjects -> SUBSET Ids]
        /\ seen' \in [Subjects -> Versions] /\ raced' \subseteq Subjects
    BY <1>1, <1>5, <1>6, <2>1 DEF TypeOK
  <2> QED BY <1>2, <1>3, <2>2 DEF TypeOK
<1>11. settings.version \in Nat
  BY Constants DEF TypeOK, Settings
<1>12. Delivering'
  <2>1. \A j \in Ids : messages[j].fate \notin {"unused", "writing"} => messages'[j] = messages[j]
    BY <1>23
  <2> QED BY <1>2, <1>10, <1>11, <2>1, DeliveringStays DEF Due, Queued
<1>13. \A p \in Observers : obs'[p].step \in {"read", "written"} =>
         /\ p # o /\ obs'[p] = obs[p] /\ obs[p].subject \in Subjects /\ obs[p].subject # s
  BY <1>1, <1>3 DEF Producing, ObsOK, InTransaction, TypeOK, Observer, s, Idle
<1>14. \A p \in Observers : obs'[p].id # 0 =>
         /\ obs'[p].step = "written" /\ messages'[obs[p].id] = messages[obs[p].id]
  BY <1>1, <1>3 DEF Producing, ObsOK, TypeOK, Observer, i, Idle
<1>15. SeenOK' /\ ProblemIsMarked'
  <2>1. obs[o].version <= settings.version
    BY DEF Producing, ObsOK
  <2>2. obs[o].status = "reauthorization_required" /\ obs[o].version = settings.version
          /\ WebhookOn => obs[o].alerted
    BY <1>1 DEF Producing, Alerting
  <2>3. SeenOK'
    BY <1>2, <1>9, <2>1 DEF Producing, SeenOK
  <2>4. ProblemIsMarked'
    BY <1>2, <1>9, <2>2 DEF Producing, ProblemIsMarked, WebhookOn
  <2> QED BY <2>3, <2>4
<1>16. OneAlertPerProblem'
  <2>1. \A j, k \in marked'[s] : j = k
    BY <1>1, <1>6, <1>9 DEF Producing, OneAlertPerProblem
  <2> QED BY <1>9, <2>1 DEF Producing, OneAlertPerProblem
<1>17. Unmarked'
  <2>1. ~obs[o].alerted => marked'[s] = {}
    <3> SUFFICES ASSUME ~obs[o].alerted, obs[o].status \notin {"connected", "disabled"}
                 PROVE  marked'[s] = {}
      BY <1>9
    <3>1. alert = {}
      BY <1>6
    <3>2. marked[s] = {}
      BY <1>1 DEF Producing, Unmarked, s
    <3> QED BY <1>9, <3>1, <3>2
  <2>2. \A t \in Subjects : ~state'[t].alerted => marked'[t] = {}
    BY <1>9, <2>1 DEF Producing, Unmarked
  <2>3. \A p \in Observers : obs'[p].step \in {"read", "written"} =>
          obs'[p] = obs[p] /\ marked'[obs'[p].subject] = marked[obs[p].subject]
    BY <1>9, <1>13
  <2> SUFFICES ASSUME NEW p \in Observers, obs'[p].step \in {"read", "written"}
               PROVE  /\ obs'[p].step = "read" /\ ~obs'[p].alerted
                            => marked'[obs'[p].subject] = {}
                      /\ obs'[p].step = "written" /\ ~obs'[p].alerted
                            /\ obs'[p].status \notin {"connected", "disabled"}
                            => marked'[obs'[p].subject] = {}
                      /\ obs'[p].step = "written" /\ obs'[p].alerted
                            => obs'[p].status \notin {"connected", "disabled"}
                      /\ obs'[p].id # 0 /\ messages'[obs'[p].id].problem
                            => obs'[p].alerted /\ marked'[obs'[p].subject] = {}
    BY <1>14, <2>2 DEF Unmarked
  <2>4. /\ obs'[p] = obs[p] /\ marked'[obs'[p].subject] = marked[obs[p].subject]
        /\ obs'[p].id # 0 => messages'[obs[p].id] = messages[obs[p].id]
    BY <1>14, <2>3
  <2> QED BY <2>4 DEF Producing, Unmarked
<1>18. \A t \in Subjects : t # s /\ Kept(t) => Kept(t)'
  BY <1>9, <1>23 DEF Kept, TypeOK
<1>19. Marks'
  <2> SUFFICES ASSUME NEW p \in Observers, obs'[p].step # "idle", obs'[p].alerted,
                      obs'[p].subject \notin raced'
               PROVE  \/ \E j \in marked'[obs'[p].subject] :
                           messages'[j].fate \in {"queued", "delivered", "failed", "expired"}
                      \/ obs'[p].id # 0 /\ messages'[obs'[p].id].problem
    BY DEF Marks, Kept
  <2>4. obs'[p].step \in {"read", "written"}
    BY <1>3 DEF ObsOK, Observer
  <2>1. /\ obs'[p] = obs[p] /\ obs[p].subject \in Subjects /\ obs[p].subject # s
        /\ obs[p].subject \notin raced
    BY <1>9, <1>13, <2>4
  <2>2. CASE Kept(obs[p].subject)
    <3>1. \E j \in marked'[obs[p].subject] :
            messages'[j].fate \in {"queued", "delivered", "failed", "expired"}
      BY <1>18, <2>1, <2>2 DEF Kept
    <3> QED BY <2>1, <3>1
  <2>3. CASE obs[p].id # 0 /\ messages[obs[p].id].problem
    BY <1>14, <2>1, <2>3
  <2> QED BY <2>1, <2>2, <2>3 DEF Producing, Marks
<1>20. MarkedAlertIsKept'
  <2>1. ASSUME obs[o].alerted, s \notin raced'
        PROVE  \E j \in marked'[s] :
                 messages'[j].fate \in {"queued", "delivered", "failed", "expired"}
    <3>1. CASE alert # {}
      BY <1>3, <1>4, <1>6, <1>8, <1>9, <2>1, <3>1
    <3>2. CASE alert = {}
      <4>1. s \notin raced
        BY <1>5, <2>1, <3>2
      <4>2. Kept(s)
        BY <1>1, <1>7, <2>1, <3>2, <4>1 DEF Producing, Marks, s, i
      <4>3. marked[s] \subseteq marked'[s] /\ marked[s] \subseteq Ids
        BY <1>1, <1>8, <1>9, <2>1 DEF TypeOK
      <4> QED BY <1>23, <4>2, <4>3 DEF Kept
    <3> QED BY <3>1, <3>2
  <2>2. \A t \in Subjects : t # s /\ state'[t].alerted /\ t \notin raced' => Kept(t)'
    BY <1>9, <1>18 DEF Producing, MarkedAlertIsKept, Kept
  <2> QED BY <1>9, <2>1, <2>2 DEF MarkedAlertIsKept, Kept
<1>21. Alerting' /\ Overtaken'
  BY <1>2, <1>13, <1>14 DEF Producing, Alerting, Overtaken, WebhookOn
<1>22. QueueOK'
  <2>1. i # 0 => \A u \in messages'[i].version + 1 .. settings.version :
                   <<u, messages'[i].subject>> \in missed
    BY <1>4 DEF Producing, Overtaken, ObsOK, i
  <2>2. \A j \in Ids : j # i => messages'[j] = messages[j]
    BY <1>3
  <2> QED BY <1>2, <2>1, <2>2 DEF Producing, QueueOK, Queued, Ids
<1>24. MarkedOK'
  <2>1. ASSUME NEW t \in Subjects, NEW j \in marked[t]
        PROVE  /\ j \in Ids /\ messages'[j] = messages[j]
               /\ messages[j].fate \notin {"unused", "writing"}
    BY <1>23 DEF Producing, MarkedOK, TypeOK
  <2>2. \A t \in Subjects : t # s => \A j \in marked'[t] :
          /\ messages'[j].fate \notin {"unused", "writing"}
          /\ t \notin raced' => UpTo(j, settings.version)'
    BY <1>2, <1>9, <2>1 DEF Producing, MarkedOK, UpTo
  <2>3. ASSUME NEW j \in marked'[s]
        PROVE  /\ messages'[j].fate \notin {"unused", "writing"}
               /\ s \notin raced' => UpTo(j, settings.version)'
    <3>1. obs[o].alerted
      BY <1>1, <1>9, <1>17, <2>3 DEF Unmarked
    <3>2. CASE alert = {}
      <4>1. j \in marked[s] /\ raced' = raced
        BY <1>5, <1>9, <2>3, <3>1, <3>2
      <4> QED BY <1>1, <1>2, <2>1, <4>1 DEF Producing, MarkedOK, UpTo
    <3>3. CASE alert # {}
      <4>1. j = i /\ i # 0
        BY <1>6, <1>9, <2>3, <3>3
      <4>2. UpTo(i, settings.version)
        BY <4>1 DEF Producing, Overtaken, ObsOK, UpTo, i
      <4> QED BY <1>2, <1>4, <4>1, <4>2 DEF UpTo
    <3> QED BY <3>2, <3>3
  <2> QED BY <1>2, <2>2, <2>3 DEF MarkedOK
<1> QED BY <1>3, <1>10, <1>12, <1>15, <1>16, <1>17, <1>19, <1>20, <1>21, <1>22, <1>24
    DEF Producing

LEMMA CommitSaveOK == ASSUME IInv, NEW a \in Operators, CommitSave(a) PROVE IInv'
<1> USE DEF IInv
<1> DEFINE f == form[a]
           v == settings.version + 1
<1>1. f \in Form /\ f.step = "updated" /\ f.rows \subseteq Subjects
  BY DEF CommitSave, TypeOK, Form
<1>2. /\ settings' = [on |-> f.on /\ ~f.clear, version |-> v,
                      dest |-> IF f.new THEN v ELSE IF f.clear THEN 0 ELSE settings.dest]
      /\ state' = [s \in Subjects |->
           [state[s] EXCEPT !.alerted = IF s \in f.rows THEN FALSE ELSE @]]
      /\ messages' = [i \in Ids |->
           IF i \in Queued THEN Gone(messages[i], "dropped") ELSE messages[i]]
      /\ marked' = [s \in Subjects |-> IF s \in f.rows THEN {} ELSE marked[s]]
      /\ missed' = missed \cup {<<v, s>> : s \in {t \in Subjects \ f.rows : HeldByCheck(t)}}
      /\ raced' = raced \cup {s \in Subjects \ f.rows : state[s].alerted}
                        \cup {s \in Subjects : \E o \in Observers :
                                                 InTransaction(o, s) /\ obs[o].alerted}
      /\ form' = [form EXCEPT ![a] = Blank]
      /\ UNCHANGED <<next, gone, obs, work, sends, unsettled, seen>>
  BY DEF CommitSave, ResetMarks, Dropped
<1>3. settings.version \in Nat /\ v \in Versions /\ settings.dest \in Versions
      /\ settings.version <= MaxSaves
  <2>1. settings.version \in Nat /\ settings.dest \in Versions
    BY Constants DEF TypeOK, Settings
  <2>2. settings.version <= MaxSaves
    BY <1>1 DEF Producing, FormOK
  <2> QED BY <2>1, <2>2, AlertsAssumption DEF Versions
<1>4. settings' \in Settings /\ settings'.version = v
      /\ settings'.dest <= v
  <2>1. (f.on /\ ~f.clear) \in BOOLEAN
    BY <1>1 DEF Form
  <2>2. settings.dest <= settings.version /\ settings.dest \in Nat
    BY <1>3, Constants DEF Producing, SeenOK
  <2>3. 0 <= v /\ v <= v /\ settings.dest <= v
    BY <1>3, <2>2
  <2>4. /\ (f.on /\ ~f.clear) \in BOOLEAN
        /\ (IF f.new THEN v ELSE IF f.clear THEN 0 ELSE settings.dest) \in Versions
        /\ (IF f.new THEN v ELSE IF f.clear THEN 0 ELSE settings.dest) <= v
    BY <1>3, <2>1, <2>3, Constants
  <2> HIDE DEF f, v
  <2> QED BY <1>2, <1>3, <2>4 DEF Settings
<1>5. \A s \in Subjects : /\ state'[s].status = state[s].status
                          /\ state'[s].alerted = IF s \in f.rows THEN FALSE
                                                 ELSE state[s].alerted
                          /\ state'[s] \in Row
  BY <1>2 DEF TypeOK, Row
<1>6. \A i \in Ids : /\ i \in Queued => messages'[i] = Gone(messages[i], "dropped")
                     /\ i \notin Queued => messages'[i] = messages[i]
  BY <1>2
<1>7. \A i \in Queued : /\ Gone(messages[i], "dropped") \in Message
                        /\ Gone(messages[i], "dropped").subject = messages[i].subject
                        /\ Gone(messages[i], "dropped").version = messages[i].version
                        /\ Gone(messages[i], "dropped").fate = "dropped"
  BY GoneOK DEF Queued, TypeOK, Fates
<1>8. TypeOK'
  <2>1. messages' \in [Ids -> Message]
    BY <1>2, <1>7 DEF TypeOK
  <2>2. state' \in [Subjects -> Row]
    BY <1>2, <1>5
  <2>3. form' \in [Operators -> Form]
    BY <1>2, Constants DEF TypeOK
  <2>4. marked' \in [Subjects -> SUBSET Ids]
    BY <1>2 DEF TypeOK
  <2>5. missed' \subseteq Versions \X Subjects /\ raced' \subseteq Subjects
    BY <1>2, <1>3 DEF TypeOK
  <2> QED BY <1>2, <1>4, <2>1, <2>2, <2>3, <2>4, <2>5 DEF TypeOK
<1> HIDE DEF f, v
<1>9. Delivering'
  <2>1. missed \subseteq missed'
    BY <1>2
  <2>2. settings.version <= settings'.version
    BY <1>3, <1>4 DEF v
  <2>3. \A i \in Ids : messages[i].fate \notin {"unused", "writing"} =>
          /\ messages'[i].subject = messages[i].subject
          /\ messages'[i].version = messages[i].version
          /\ messages'[i].fate \notin {"unused", "writing"}
          /\ Due(i)' => Due(i)
    BY <1>6, <1>7 DEF Due, Queued
  <2> QED BY <1>2, <1>8, <2>1, <2>2, <2>3, DeliveringStays
<1>10. v = settings.version + 1
  BY DEF v
<1>11. \A o \in Observers : obs[o].id # 0 =>
         /\ obs[o].id \in Ids /\ messages'[obs[o].id] = messages[obs[o].id]
         /\ obs[o].step = "written" /\ obs[o].subject \in Subjects
  BY <1>6 DEF Producing, ObsOK, TypeOK, Observer, Queued
<1>12. ObsOK'
  <2>1. \A o \in Observers : obs[o].version <= v
    <3> SUFFICES ASSUME NEW o \in Observers PROVE obs[o].version <= v
      OBVIOUS
    <3>1. obs[o].version \in Nat
      BY Constants DEF TypeOK, Observer
    <3>2. obs[o].version <= settings.version
      BY DEF Producing, ObsOK
    <3> QED BY <1>3, <1>10, <3>1, <3>2
  <2>2. \A i \in Ids : i >= next => messages'[i].fate = "unused"
    BY <1>6 DEF Producing, ObsOK, Queued
  <2> QED BY <1>2, <1>4, <1>11, <2>1, <2>2 DEF Producing, ObsOK, InTransaction
<1>13. FormOK'
  <2>1. \A b \in Operators : form'[b].step # "updated"
    BY <1>1, <1>2 DEF Producing, FormOK, TypeOK, f, Blank
  <2> QED BY <2>1 DEF FormOK
<1>14. \A s \in Subjects : seen[s] \in Nat /\ seen[s] < v
  <2> SUFFICES ASSUME NEW s \in Subjects PROVE seen[s] \in Nat /\ seen[s] < v
    OBVIOUS
  <2>1. seen[s] \in Nat
    BY Constants DEF TypeOK
  <2>2. seen[s] <= settings.version
    BY DEF Producing, SeenOK
  <2> QED BY <1>3, <1>10, <2>1, <2>2
<1>15. SeenOK' /\ ProblemIsMarked'
  <2>1. v \in Nat
    BY <1>3, <1>10
  <2>2. \A s \in Subjects : seen'[s] <= settings'.version /\ seen'[s] # settings'.version
    BY <1>2, <1>4, <1>14, <2>1
  <2> QED BY <1>4, <2>2 DEF SeenOK, ProblemIsMarked
<1>16. \A s \in Subjects : marked'[s] = IF s \in f.rows THEN {} ELSE marked[s]
  BY <1>2
<1>17. Unmarked'
  <2>1. \A s \in Subjects : ~state'[s].alerted => marked'[s] = {}
    BY <1>5, <1>16 DEF Producing, Unmarked
  <2>2. \A o \in Observers : obs[o].step # "idle" /\ marked[obs[o].subject] = {}
                               => marked'[obs[o].subject] = {}
    BY <1>16 DEF Producing, ObsOK
  <2> QED BY <1>2, <1>11, <2>1, <2>2 DEF Producing, Unmarked
<1>18. Marks'
  <2>1. \A o \in Observers : obs[o].step # "idle" /\ obs[o].alerted => obs[o].subject \in raced'
    BY <1>2 DEF Producing, ObsOK, InTransaction, TypeOK, Observer
  <2> QED BY <1>2, <2>1 DEF Marks
<1>19. Alerting'
  BY <1>2, <1>3, <1>4, <1>10, Constants DEF Producing, Alerting, ObsOK, TypeOK, Observer
<1>20. Overtaken'
  <2> SUFFICES ASSUME NEW o \in Observers, obs[o].id # 0, NEW u \in obs[o].version + 1 .. v
               PROVE  <<u, obs[o].subject>> \in missed'
    BY <1>2, <1>4 DEF Overtaken
  <2>1. CASE u = v
    <3>1. HeldByCheck(obs[o].subject) /\ obs[o].subject \in Subjects
      BY <1>11 DEF HeldByCheck
    <3>2. obs[o].subject \notin f.rows
      BY <1>1, <3>1 DEF Producing, FormOK, f
    <3> QED BY <1>2, <2>1, <3>1, <3>2
  <2>2. CASE u # v
    <3>1. obs[o].version \in Nat
      BY Constants DEF TypeOK, Observer
    <3>2. u \in obs[o].version + 1 .. settings.version
      BY <1>3, <1>10, <2>2, <3>1
    <3> QED BY <1>2, <3>2 DEF Producing, Overtaken
  <2> QED BY <2>1, <2>2
<1>21. OneAlertPerProblem'
  BY <1>16 DEF Producing, OneAlertPerProblem
<1>22. MarkedAlertIsKept'
  BY <1>2, <1>5 DEF MarkedAlertIsKept
<1>23. QueueOK'
  BY <1>6, <1>7 DEF QueueOK, Queued
<1>24. MarkedOK'
  <2>1. \A s \in Subjects : marked'[s] # {} => s \in raced' /\ marked'[s] = marked[s]
    BY <1>2, <1>16 DEF Producing, Unmarked
  <2>2. \A s \in Subjects : \A i \in marked[s] :
          i \in Ids /\ messages'[i].fate \notin {"unused", "writing"}
    BY <1>6, <1>7 DEF Producing, MarkedOK, TypeOK
  <2> QED BY <2>1, <2>2 DEF MarkedOK
<1> QED
  BY <1>8, <1>9, <1>12, <1>13, <1>15, <1>17, <1>18, <1>19, <1>20, <1>21, <1>22, <1>23, <1>24
  DEF Producing

-----------------------------------------------------------------------------
LEMMA NextOK == IInv /\ [Next]_vars => IInv'
<1> SUFFICES ASSUME IInv, [Next]_vars PROVE IInv'
  OBVIOUS
<1>1. ASSUME NEW o \in Observers, ObserverStep(o) PROVE IInv'
  BY <1>1, ReadStateOK, WriteStateOK, CommitStateOK, ObserveFailsOK DEF ObserverStep
<1>2. ASSUME NEW a \in Operators, OperatorStep(a) PROVE IInv'
  BY <1>2, BeginSaveOK, UpdateSettingsOK, CommitSaveOK, SaveFailsOK DEF OperatorStep
<1>3. ASSUME NEW w \in Workers, WorkerStep(w) PROVE IInv'
  BY <1>3, ReadEndpointOK, NextDeliveryOK, EndRoundOK, SendWebhookOK, FinishDeliveryOK,
     FinishFailsOK DEF WorkerStep
<1>4. ASSUME NEW i \in Ids, FallDue(i) \/ PruneDelivery(i) PROVE IInv'
  BY <1>4, FallDueOK, PruneDeliveryOK
<1>5. ASSUME NEW s \in Subjects,
             (\E O \in SUBSET Observers : DeleteSubject(s, O)) \/ PruneState(s)
      PROVE  IInv'
  BY <1>5, DeleteSubjectOK, PruneStateOK
<1>6. CASE UNCHANGED vars
  <2>1. form' \in [Operators -> Form] /\ FormOK' /\ gone' \subseteq Subjects
    BY <1>6 DEF IInv, TypeOK, Producing, FormOK, HeldByCheck, vars, db
  <2> QED BY <1>6, <2>1, FormStepOK DEF vars, db
<1> QED BY <1>1, <1>2, <1>3, <1>4, <1>5, <1>6 DEF Next

THEOREM Invariance == Spec => []IInv
  BY InitOK, NextOK, PTL DEF Spec

\* Every variable keeps its type.
THEOREM TypeCorrect == Spec => []TypeOK
<1>1. IInv => TypeOK
  BY DEF IInv
<1> QED BY <1>1, Invariance, PTL

\* Checks of one subject at the same time never raise a second alert for a problem
\* that has one (Observe, its advisory lock and its mark).
THEOREM AlertsAreRaisedOnce == Spec => []OneAlertPerProblem
<1>1. IInv => OneAlertPerProblem
  BY DEF IInv, Producing
<1> QED BY <1>1, Invariance, PTL

\* A mark that keeps alerts from being raised stands for an alert that no save
\* dropped (Observe, SaveOperationSettings), but for the races raced records.
THEOREM MarksStandForAlerts == Spec => []MarkedAlertIsKept
<1>1. IInv => MarkedAlertIsKept
  BY DEF IInv, Producing
<1> QED BY <1>1, Invariance, PTL

\* A problem checked under the settings in force, with alerts on, is marked, and its
\* mark stands for an alert that was queued for the destination of those settings
\* and not dropped (Observe, SaveOperationSettings), but for the races that raced
\* and missed record.
THEOREM ProblemsAreAlerted == Spec => []ProblemIsAlerted
<1>1. IInv => ProblemIsAlerted
  <2> SUFFICES ASSUME IInv, NEW s \in Subjects, state[s].status = "reauthorization_required",
                      seen[s] = settings.version, WebhookOn
               PROVE  /\ state[s].alerted
                      /\ s \notin raced =>
                           \E i \in marked[s] :
                             /\ messages[i].fate \in {"queued", "delivered", "failed", "expired"}
                             /\ UpTo(i, settings.version)
    BY DEF ProblemIsAlerted
  <2>1. state[s].alerted
    BY DEF IInv, Producing, ProblemIsMarked
  <2>2. ASSUME s \notin raced
        PROVE  \E i \in marked[s] :
                 /\ messages[i].fate \in {"queued", "delivered", "failed", "expired"}
                 /\ UpTo(i, settings.version)
    BY <2>1, <2>2 DEF IInv, Producing, MarkedAlertIsKept, MarkedOK
  <2> QED BY <2>1, <2>2
<1> QED BY <1>1, Invariance, PTL

\* Two workers never send the same message at the same time (NextDelivery).
THEOREM DeliveriesAreLeased == Spec => []NoDuplicateDelivery
<1>1. IInv => NoDuplicateDelivery
  BY DEF IInv, Delivering
<1> QED BY <1>1, Invariance, PTL

\* No message queued under old settings is queued, or sent to a new destination,
\* after a save (SaveOperationSettings), but those its row locks could not reach.
THEOREM OldMessagesAreDropped == Spec => []OldMessagesStayBehind
<1>1. IInv => OldMessagesStayBehind
  BY DEF IInv, Producing, Delivering, QueueOK, SendingOK, OldMessagesStayBehind,
         UpTo
<1> QED BY <1>1, Invariance, PTL
-----------------------------------------------------------------------------
(* How often a message is sent                                             *)

\* Who has sent message i and not yet stored the outcome.
SentBy(i) == {w \in Workers : work[w].step = "sent" /\ work[w].id = i}

\* A message nobody could take yet was neither sent nor attempted.
Untried ==
  \A i \in Ids : messages[i].fate \in {"unused", "writing"} =>
    sends[i] = 0 /\ messages[i].attempts = 0

\* Every attempt that is stored, or is about to be, was sent; the count of sends
\* stops at 4.  Any number of workers may have sent a message whose lease ended.
Sufficient ==
  /\ \A i \in Queued : \A S \in SUBSET SentBy(i) :
       IsFiniteSet(S) => sends[i] = 4 \/ sends[i] >= messages[i].attempts + Cardinality(S)
  /\ \A w \in Workers :
       LET k == sends[work[w].id]
       IN /\ work[w].step = "sending" => k = 4 \/ k >= work[w].attempts
          /\ work[w].step = "sent" => k = 4 \/ k >= work[w].attempts + 1
  /\ \A i \in Ids : messages[i].fate = "failed" => sends[i] >= 3

Holds(w, i) == work[w].step \in {"sending", "sent"} /\ work[w].id = i

\* A message whose outcomes are all stored in time is held by one worker at most,
\* with the attempts it has, and every send but the one under way is stored.
Settled(i) ==
  /\ \A w, x \in Workers : Holds(w, i) /\ Holds(x, i) => w = x
  /\ \A w \in Workers : Holds(w, i) =>
       /\ work[w].attempts <= 2
       /\ sends[i] <= work[w].attempts + (IF work[w].step = "sent" THEN 1 ELSE 0)
       /\ i \in Queued => work[w].attempts = messages[i].attempts
       /\ i \in Queued /\ work[w].step = "sent" => ~messages[i].ready
  /\ i \in Queued =>
       /\ messages[i].attempts <= 2
       /\ (\A w \in Workers : ~Holds(w, i)) => sends[i] <= messages[i].attempts
  /\ sends[i] <= 3

Counted == Untried /\ Sufficient /\ \A i \in Ids \ unsettled : Settled(i)

\* The facts about types that counting needs.
LEMMA CountTypes ==
  ASSUME IInv
  PROVE  /\ \A i \in Ids : sends[i] \in 0 .. 4 /\ messages[i].attempts \in Nat
         /\ \A w \in Workers : work[w].attempts \in Nat
         /\ \A w \in Workers, i \in Ids :
              Holds(w, i) => messages[i].fate \notin {"unused", "writing"}
         /\ \A w \in Workers : work[w].step \in {"sending", "sent"} => work[w].id \in Ids
  BY DEF IInv, TypeOK, Message, Worker, Delivering, WorkOK, Holds

LEMMA CountedInit == Init => Counted
<1> SUFFICES ASSUME Init PROVE Counted
  OBVIOUS
<1>1. /\ \A i \in Ids : messages[i] = Unused /\ sends[i] = 0
      /\ \A w \in Workers : work[w].step = "idle"
  BY DEF Init, Resting
<1> QED BY <1>1 DEF Counted, Untried, Sufficient, Settled, Holds, Queued, Unused

\* What a step of a check, an operator or time does to message i, if anything.
Written(i) ==
  \/ messages'[i] = messages[i]
  \/ /\ messages[i].fate \in {"unused", "writing"}
     /\ messages'[i].fate \in {"unused", "writing", "queued"}
     /\ messages'[i].attempts = 0
  \/ messages'[i].fate \in {"expired", "dropped"}

LEMMA CountedStays ==
  ASSUME IInv, Counted, UNCHANGED <<work, sends, unsettled>>, \A i \in Ids : Written(i)
  PROVE  Counted'
<1> USE CountTypes
<1>1. Untried'
  BY DEF Counted, Untried, Written
<1>2. Sufficient'
  <2>1. ASSUME NEW i \in Queued', NEW S \in SUBSET SentBy(i)', IsFiniteSet(S)
        PROVE  sends'[i] = 4 \/ sends'[i] >= messages'[i].attempts + Cardinality(S)
    <3>1. i \in Ids /\ S \in SUBSET SentBy(i) /\ messages'[i].fate = "queued"
      BY DEF Queued, SentBy
    <3>2. CASE messages'[i] = messages[i]
      BY <2>1, <3>1, <3>2 DEF Counted, Sufficient, Queued
    <3>3. CASE messages[i].fate \in {"unused", "writing"} /\ messages'[i].attempts = 0
      <4>1. S = {}
        BY <3>1, <3>3 DEF SentBy, Holds
      <4> QED BY <3>1, <3>3, <4>1, FS_EmptySet DEF Counted, Untried
    <3> QED BY <3>1, <3>2, <3>3 DEF Written
  <2>2. \A i \in Ids : messages'[i].fate = "failed" => sends'[i] >= 3
    BY DEF Counted, Sufficient, Written
  <2> QED BY <2>1, <2>2 DEF Sufficient, Counted
<1>3. ASSUME NEW i \in Ids \ unsettled PROVE Settled(i)'
  <2>1. Settled(i)
    BY DEF Counted
  <2>2. CASE messages'[i] = messages[i]
    BY <2>1, <2>2 DEF Settled, Holds, Queued
  <2>3. CASE /\ messages[i].fate \in {"unused", "writing"} /\ messages'[i].attempts = 0
    BY <2>1, <2>3 DEF Settled, Holds, Queued, Counted, Untried
  <2>4. CASE messages'[i].fate \in {"expired", "dropped"}
    BY <2>1, <2>4 DEF Settled, Holds, Queued
  <2> QED BY <2>2, <2>3, <2>4 DEF Written
<1> QED BY <1>1, <1>2, <1>3 DEF Counted

\* A worker goes on without a message, or forgets one whose outcome is lost.
LEMMA CountedDrops ==
  ASSUME IInv, Counted, NEW w \in Workers, NEW r \in Worker,
         work' = [work EXCEPT ![w] = r], r.step \in {"idle", "round"},
         UNCHANGED <<messages, sends>>, unsettled \subseteq unsettled',
         \A i \in Ids \ unsettled' : Holds(w, i) => i \notin Queued
  PROVE  Counted'
<1> USE CountTypes
<1>1. /\ work'[w] = r /\ \A x \in Workers : x # w => work'[x] = work[x]
      /\ \A x \in Workers, i \in Ids : Holds(x, i)' => Holds(x, i) /\ x # w
  BY DEF IInv, TypeOK, Holds
<1>2. Untried'
  BY DEF Counted, Untried
<1>3. Sufficient'
  <2>1. \A i \in Ids : SentBy(i)' \subseteq SentBy(i)
    BY <1>1 DEF SentBy
  <2>2. \A i \in Queued' : \A S \in SUBSET SentBy(i)' :
          IsFiniteSet(S) => sends'[i] = 4 \/ sends'[i] >= messages'[i].attempts + Cardinality(S)
    BY <2>1 DEF Counted, Sufficient, Queued
  <2> QED BY <1>1, <2>2 DEF Counted, Sufficient
<1>4. ASSUME NEW i \in Ids \ unsettled' PROVE Settled(i)'
  <2>1. Settled(i) /\ (Holds(w, i) => i \notin Queued)
    BY DEF Counted
  <2>2. \A x \in Workers : x # w => (Holds(x, i)' <=> Holds(x, i))
    BY <1>1 DEF Holds
  <2>3. Queued' = Queued
    BY DEF Queued
  <2> QED BY <1>1, <2>1, <2>2, <2>3 DEF Settled
<1> QED BY <1>2, <1>3, <1>4 DEF Counted

\* The types of what NextOfRound leaves.
LEMMA RoundGoesOn ==
  ASSUME IInv, NEW w \in Workers, work[w].step \in {"sending", "sent"}, NextOfRound(w)
  PROVE  \E r \in Worker : work' = [work EXCEPT ![w] = r] /\ r.step \in {"idle", "round"}
<1> DEFINE n == [Resting EXCEPT !.step = "round", !.dest = work[w].dest,
                                !.left = work[w].left - 1]
<1>1. work[w] \in Worker /\ work[w].left # 0
  BY DEF IInv, TypeOK, Delivering, WorkOK
<1>2. work[w].left # 1 => work[w].left - 1 \in 0 .. Batch
  BY <1>1, AlertsAssumption DEF Worker
<1>3. work[w].left # 1 => n \in Worker /\ n.step = "round"
  <2>1. Resting \in Worker /\ work[w].dest \in Versions
    BY <1>1, Constants DEF Worker
  <2> QED BY <1>2, <2>1 DEF Resting, Worker
<1>4. Resting \in Worker /\ Resting.step = "idle"
  BY RestingOK DEF IInv
<1>5. work' = [work EXCEPT ![w] = IF work[w].left = 1 THEN Resting ELSE n]
  BY DEF NextOfRound
<1> HIDE DEF n
<1> QED BY <1>3, <1>4, <1>5

LEMMA CountedNextDelivery ==
  ASSUME IInv, Counted, NEW w \in Workers, NextDelivery(w) PROVE Counted'
<1> USE CountTypes
<1>1. PICK i \in Ids :
        /\ Due(i)
        /\ messages' = [messages EXCEPT ![i].ready = FALSE]
        /\ work' = [work EXCEPT ![w].step = "sending", ![w].id = i,
                                ![w].attempts = messages[i].attempts]
  BY DEF NextDelivery, Lease
<1>2. /\ work[w].step = "round" /\ UNCHANGED <<sends, unsettled>>
      /\ i \in Queued /\ messages[i].ready
  BY <1>1 DEF NextDelivery, history, Due
<1>3. /\ work'[w].step = "sending" /\ work'[w].id = i /\ work'[w].attempts = messages[i].attempts
      /\ \A x \in Workers : x # w => work'[x] = work[x]
  BY <1>1 DEF IInv, TypeOK, Worker
<1>4. \A j \in Ids :
        /\ messages'[j].fate = messages[j].fate
        /\ messages'[j].attempts = messages[j].attempts
        /\ messages'[j].ready => messages[j].ready
        /\ SentBy(j)' = SentBy(j)
  BY <1>1, <1>2, <1>3 DEF IInv, TypeOK, Message, SentBy
<1>5. Queued' = Queued
  BY <1>4 DEF Queued
<1>6. Untried'
  BY <1>2, <1>4 DEF Counted, Untried
<1>7. Sufficient'
  <2>1. sends[i] = 4 \/ sends[i] >= messages[i].attempts
    <3>1. {} \in SUBSET SentBy(i) /\ IsFiniteSet({}) /\ Cardinality({}) = 0
      BY FS_EmptySet
    <3>2. sends[i] = 4 \/ sends[i] >= messages[i].attempts + 0
      BY <1>2, <3>1 DEF Counted, Sufficient
    <3> QED BY <3>2
  <2>2. \A x \in Workers :
          /\ work'[x].step = "sending" => sends[work'[x].id] = 4
                                           \/ sends[work'[x].id] >= work'[x].attempts
          /\ work'[x].step = "sent" => sends[work'[x].id] = 4
                                        \/ sends[work'[x].id] >= work'[x].attempts + 1
    BY <1>3, <2>1 DEF Counted, Sufficient
  <2>3. \A j \in Queued' : \A S \in SUBSET SentBy(j)' :
          IsFiniteSet(S) => sends[j] = 4 \/ sends[j] >= messages'[j].attempts + Cardinality(S)
    <3> SUFFICES ASSUME NEW j \in Queued, NEW S \in SUBSET SentBy(j), IsFiniteSet(S)
                 PROVE  sends[j] = 4 \/ sends[j] >= messages[j].attempts + Cardinality(S)
      BY <1>4, <1>5 DEF Queued
    <3> QED BY DEF Counted, Sufficient
  <2>4. \A j \in Ids : messages'[j].fate = "failed" => sends[j] >= 3
    BY <1>4 DEF Counted, Sufficient
  <2> QED BY <1>2, <2>2, <2>3, <2>4 DEF Sufficient
<1>8. ASSUME NEW j \in Ids \ unsettled PROVE Settled(j)'
  <2>1. Settled(j)
    BY DEF Counted
  <2>2. CASE j = i
    <3>1. \A x \in Workers : ~Holds(x, i)
      BY <1>1, <1>2, <2>1, <2>2 DEF Holds, Settled, IInv, Delivering, Leased
    <3>2. sends[i] <= messages[i].attempts /\ messages[i].attempts <= 2
      BY <1>2, <2>1, <2>2, <3>1 DEF Settled
    <3>3. \A x \in Workers : Holds(x, i)' <=> x = w
      BY <1>3, <3>1 DEF Holds
    <3> QED BY <1>2, <1>3, <1>4, <2>2, <3>2, <3>3 DEF Settled
  <2>3. CASE j # i
    <3>1. \A x \in Workers : /\ Holds(x, j)' <=> Holds(x, j)
                             /\ Holds(x, j) => work'[x] = work[x]
      BY <1>2, <1>3, <2>3 DEF Holds
    <3> QED BY <1>2, <1>4, <1>5, <2>1, <3>1 DEF Settled
  <2> QED BY <2>2, <2>3
<1> QED BY <1>2, <1>6, <1>7, <1>8 DEF Counted

LEMMA CountedSendWebhook ==
  ASSUME IInv, Counted, NEW w \in Workers, NEW ok \in BOOLEAN, SendWebhook(w, ok) PROVE Counted'
<1> USE CountTypes
<1> DEFINE i == work[w].id
<1>1. /\ work[w].step = "sending" /\ i \in Ids /\ Holds(w, i) /\ UNCHANGED <<messages, unsettled>>
  BY DEF SendWebhook, db, Holds
<1>2. /\ work'[w].step = "sent" /\ work'[w].id = i /\ work'[w].attempts = work[w].attempts
      /\ \A x \in Workers : x # w => work'[x] = work[x]
  BY DEF SendWebhook, IInv, TypeOK, Worker
<1>3. /\ sends'[i] = IF sends[i] < 4 THEN sends[i] + 1 ELSE sends[i]
      /\ \A j \in Ids : j # i => sends'[j] = sends[j]
      /\ \A j \in Ids : sends'[j] >= sends[j]
  BY <1>1 DEF SendWebhook, IInv, TypeOK
<1>4. Queued' = Queued
  BY <1>1 DEF Queued
<1>5. Untried'
  BY <1>1, <1>3 DEF Counted, Untried
<1>6. Sufficient'
  <2>1. ASSUME NEW j \in Queued, NEW S \in SUBSET SentBy(j)', IsFiniteSet(S)
        PROVE  sends'[j] = 4 \/ sends'[j] >= messages[j].attempts + Cardinality(S)
    <3>1. j \in Ids
      BY DEF Queued
    <3>2. CASE j # i
      <4>1. S \in SUBSET SentBy(j)
        BY <1>1, <1>2, <3>2 DEF SentBy
      <4> QED BY <1>3, <2>1, <3>1, <3>2, <4>1 DEF Counted, Sufficient
    <3>3. CASE j = i
      <4> DEFINE T == S \ {w}
      <4>1. /\ T \in SUBSET SentBy(j) /\ IsFiniteSet(T) /\ Cardinality(T) \in Nat
            /\ Cardinality(S) \in Nat /\ Cardinality(S) <= Cardinality(T) + 1
        <5>1. T \in SUBSET SentBy(j)
          BY <1>2, <3>3 DEF SentBy
        <5>2. IsFiniteSet(T) /\ Cardinality(T) = IF w \in S THEN Cardinality(S) - 1 ELSE Cardinality(S)
          BY <2>1, FS_RemoveElement
        <5>3. Cardinality(S) \in Nat /\ Cardinality(T) \in Nat
          BY <2>1, <5>2, FS_CardinalityType
        <5> HIDE DEF T
        <5> QED BY <5>1, <5>2, <5>3
      <4>2. sends[j] = 4 \/ sends[j] >= messages[j].attempts + Cardinality(T)
        BY <4>1 DEF Counted, Sufficient
      <4> HIDE DEF T
      <4> QED BY <1>3, <3>1, <3>3, <4>1, <4>2
    <3> QED BY <3>2, <3>3
  <2>2. \A x \in Workers :
          /\ work'[x].step = "sending" => sends'[work'[x].id] = 4
                                           \/ sends'[work'[x].id] >= work'[x].attempts
          /\ work'[x].step = "sent" => sends'[work'[x].id] = 4
                                        \/ sends'[work'[x].id] >= work'[x].attempts + 1
    <3> SUFFICES ASSUME NEW x \in Workers, work'[x].step \in {"sending", "sent"}
                 PROVE  \/ sends'[work'[x].id] = 4
                        \/ sends'[work'[x].id] >= work'[x].attempts
                                                  + (IF work'[x].step = "sent" THEN 1 ELSE 0)
      <4>1. \A x \in Workers : work'[x].attempts \in Nat
        BY <1>2
      <4> QED BY <4>1
    <3>1. CASE x = w
      <4>1. sends[i] = 4 \/ sends[i] >= work[w].attempts
        BY <1>1 DEF Counted, Sufficient
      <4> QED BY <1>1, <1>2, <1>3, <3>1, <4>1
    <3>2. CASE x # w
      <4>1. work'[x] = work[x] /\ work[x].id \in Ids
        BY <1>2, <3>2
      <4>2. \/ sends[work[x].id] = 4
            \/ sends[work[x].id] >= work[x].attempts + (IF work[x].step = "sent" THEN 1 ELSE 0)
        BY <4>1 DEF Counted, Sufficient
      <4> HIDE DEF i
      <4> QED BY <1>1, <1>3, <4>1, <4>2
    <3> QED BY <3>1, <3>2
  <2>3. \A j \in Ids : messages[j].fate = "failed" => sends'[j] >= 3
    BY <1>1, <1>3 DEF Counted, Sufficient
  <2> QED BY <1>1, <1>4, <2>1, <2>2, <2>3 DEF Sufficient
<1>7. ASSUME NEW j \in Ids \ unsettled PROVE Settled(j)'
  <2>1. Settled(j)
    BY DEF Counted
  <2>2. CASE j = i
    <3>1. \A x \in Workers : Holds(x, i) <=> x = w
      BY <1>1, <2>1, <2>2 DEF Settled
    <3>2. \A x \in Workers : Holds(x, i)' <=> x = w
      BY <1>2, <3>1 DEF Holds
    <3>3. /\ work[w].attempts <= 2 /\ sends[i] <= work[w].attempts
          /\ i \in Queued => work[w].attempts = messages[i].attempts /\ messages[i].attempts <= 2
          /\ i \in Queued => ~messages[i].ready
      <4>1. i \in Queued => ~messages[i].ready
        BY <1>1 DEF IInv, Delivering, Leased, Due
      <4> QED BY <1>1, <2>1, <2>2, <4>1 DEF Settled
    <3> QED BY <1>1, <1>2, <1>3, <1>4, <2>2, <3>2, <3>3 DEF Settled
  <2>3. CASE j # i
    <3>1. \A x \in Workers : /\ Holds(x, j)' <=> Holds(x, j)
                             /\ Holds(x, j) => work'[x] = work[x]
      BY <1>1, <1>2, <2>3 DEF Holds
    <3> QED BY <1>1, <1>3, <1>4, <2>1, <2>3, <3>1 DEF Settled
  <2> QED BY <2>2, <2>3
<1> QED BY <1>1, <1>5, <1>6, <1>7 DEF Counted

LEMMA CountedFinishDelivery ==
  ASSUME IInv, Counted, NEW w \in Workers, FinishDelivery(w) PROVE Counted'
<1> USE CountTypes
<1>0. PICK i \in Ids : i = work[w].id
  BY DEF FinishDelivery
<1>1. /\ work[w].step = "sent" /\ Holds(w, i) /\ UNCHANGED <<sends, unsettled>>
  BY <1>0 DEF FinishDelivery, history, Holds
<1>2. PICK r \in Worker : work' = [work EXCEPT ![w] = r] /\ r.step \in {"idle", "round"}
  BY <1>1, RoundGoesOn DEF FinishDelivery
<1>3. CASE i \notin Queued
  <2>1. messages' = messages
    BY <1>0, <1>3 DEF FinishDelivery
  <2>2. \A j \in Ids \ unsettled' : Holds(w, j) => j \notin Queued
    BY <1>0, <1>3 DEF Holds
  <2> QED BY <1>1, <1>2, <2>1, <2>2, CountedDrops
<1>4. CASE i \in Queued
  <2>1. /\ \A j \in Ids : j # i => messages'[j] = messages[j]
        /\ \/ messages'[i].fate = "delivered"
           \/ messages'[i].fate = "failed" /\ work[w].attempts >= 2
           \/ /\ messages'[i].fate = "queued" /\ ~(work[w].attempts >= 2)
              /\ messages'[i].attempts = messages[i].attempts + 1
    <3>1. messages[i] \in Message /\ messages[i].fate = "queued"
      BY <1>1, <1>4 DEF IInv, TypeOK, Queued
    <3>2. /\ Gone(messages[i], "delivered").fate = "delivered"
          /\ Gone(messages[i], "failed").fate = "failed"
      BY <3>1, GoneOK DEF Fates
    <3>3. LET d == [messages[i] EXCEPT !.attempts = messages[i].attempts + 1, !.ready = FALSE]
          IN d.fate = "queued" /\ d.attempts = messages[i].attempts + 1
      BY <3>1 DEF Message
    <3>4. messages' = [messages EXCEPT ![i] =
             IF work[w].ok THEN Gone(messages[i], "delivered")
             ELSE IF LastAttempt(w) THEN Gone(messages[i], "failed")
             ELSE [messages[i] EXCEPT !.attempts = messages[i].attempts + 1, !.ready = FALSE]]
      BY <1>0, <1>4 DEF FinishDelivery
    <3> QED BY <1>1, <3>2, <3>3, <3>4 DEF LastAttempt, IInv, TypeOK
  <2>2. /\ work'[w].step \in {"idle", "round"}
        /\ \A x \in Workers : x # w => work'[x] = work[x]
        /\ \A x \in Workers, j \in Ids : Holds(x, j)' <=> Holds(x, j) /\ x # w
    BY <1>2 DEF IInv, TypeOK, Holds
  <2>3. /\ w \in SentBy(i) /\ \A j \in Ids : SentBy(j)' = SentBy(j) \ {w}
    BY <1>0, <1>1, <2>2 DEF SentBy
  <2>4. \A j \in Ids : j # i => (j \in Queued' <=> j \in Queued)
    BY <2>1 DEF Queued
  <2>5. Untried'
    BY <1>1, <2>1 DEF Counted, Untried
  <2>6. Sufficient'
    <3>1. ASSUME NEW j \in Queued', NEW S \in SUBSET SentBy(j)', IsFiniteSet(S)
          PROVE  sends[j] = 4 \/ sends[j] >= messages'[j].attempts + Cardinality(S)
      <4>1. j \in Ids
        BY DEF Queued
      <4>2. CASE j # i
        <5>1. S \in SUBSET SentBy(j) /\ j \in Queued /\ messages'[j] = messages[j]
          BY <2>1, <2>3, <2>4, <4>1, <4>2
        <5> QED BY <3>1, <5>1 DEF Counted, Sufficient
      <4>3. CASE j = i
        <5>1. S \cup {w} \in SUBSET SentBy(i) /\ w \notin S
          BY <2>3, <4>1, <4>3
        <5>2. /\ IsFiniteSet(S \cup {w}) /\ Cardinality(S \cup {w}) = Cardinality(S) + 1
              /\ Cardinality(S) \in Nat
          BY <3>1, <5>1, FS_AddElement, FS_CardinalityType
        <5>3. sends[i] = 4 \/ sends[i] >= messages[i].attempts + (Cardinality(S) + 1)
          BY <1>4, <5>1, <5>2 DEF Counted, Sufficient
        <5>4. messages'[i].attempts = messages[i].attempts + 1
          BY <2>1, <4>3 DEF Queued
        <5> QED BY <4>1, <4>3, <5>2, <5>3, <5>4
      <4> QED BY <4>2, <4>3
    <3>2. \A j \in Ids : messages'[j].fate = "failed" => sends[j] >= 3
      <4>1. sends[i] = 4 \/ sends[i] >= work[w].attempts + 1
        BY <1>0, <1>1 DEF Counted, Sufficient
      <4> QED BY <1>1, <2>1, <4>1 DEF Counted, Sufficient
    <3> QED BY <1>1, <2>2, <3>1, <3>2 DEF Counted, Sufficient
  <2>7. ASSUME NEW j \in Ids \ unsettled PROVE Settled(j)'
    <3>1. Settled(j)
      BY DEF Counted
    <3>2. CASE j = i
      <4>1. \A x \in Workers : ~Holds(x, i)'
        BY <1>1, <2>2, <3>1, <3>2 DEF Settled
      <4>2. /\ sends[i] <= work[w].attempts + 1 /\ sends[i] <= 3
            /\ work[w].attempts = messages[i].attempts
        BY <1>1, <1>4, <3>1, <3>2 DEF Settled
      <4>3. i \in Queued' => messages'[i].attempts = messages[i].attempts + 1
                              /\ ~(work[w].attempts >= 2)
        BY <2>1 DEF Queued
      <4> QED BY <1>1, <3>2, <4>1, <4>2, <4>3 DEF Settled
    <3>3. CASE j # i
      <4>1. \A x \in Workers : /\ Holds(x, j)' <=> Holds(x, j)
                               /\ Holds(x, j) => work'[x] = work[x]
        BY <1>1, <2>2, <3>3 DEF Holds
      <4> QED BY <1>1, <2>1, <2>4, <3>1, <3>3, <4>1 DEF Settled
    <3> QED BY <3>2, <3>3
  <2> QED BY <1>1, <2>5, <2>6, <2>7 DEF Counted
<1> QED BY <1>3, <1>4

LEMMA CountedFinishFails ==
  ASSUME IInv, Counted, NEW w \in Workers, FinishFails(w) PROVE Counted'
<1>1. /\ work[w].step \in {"sending", "sent"} /\ UNCHANGED <<messages, sends>>
      /\ unsettled' = unsettled \cup {work[w].id}
  BY DEF FinishFails, db
<1>2. PICK r \in Worker : work' = [work EXCEPT ![w] = r] /\ r.step \in {"idle", "round"}
  <2>1. CASE NextOfRound(w)
    BY <1>1, <2>1, RoundGoesOn
  <2>2. CASE work' = [work EXCEPT ![w] = Resting]
    BY <2>2, Constants DEF Resting
  <2> QED BY <2>1, <2>2 DEF FinishFails
<1>3. \A i \in Ids \ unsettled' : Holds(w, i) => i \notin Queued
  BY <1>1 DEF Holds
<1> QED BY <1>1, <1>2, <1>3, CountedDrops

LEMMA CountedFallDue ==
  ASSUME IInv, Counted, NEW i \in Ids, FallDue(i) PROVE Counted'
<1> USE CountTypes
<1>1. /\ i \in Queued /\ ~LeaseHeld(i) /\ UNCHANGED <<work, sends>>
      /\ messages' = [messages EXCEPT ![i].ready = TRUE]
      /\ unsettled \subseteq unsettled'
      /\ i \notin unsettled' => \A w \in Workers : ~(work[w].step = "sent" /\ work[w].id = i)
  BY DEF FallDue
<1>2. \A j \in Ids : /\ messages'[j].fate = messages[j].fate
                     /\ messages'[j].attempts = messages[j].attempts
                     /\ j # i => messages'[j] = messages[j]
  BY <1>1 DEF IInv, TypeOK, Message
<1>3. Queued' = Queued /\ \A j \in Ids : SentBy(j)' = SentBy(j)
  BY <1>1, <1>2 DEF Queued, SentBy
<1>4. Untried'
  BY <1>1, <1>2 DEF Counted, Untried
<1>5. Sufficient'
  <2>1. ASSUME NEW j \in Queued, NEW S \in SUBSET SentBy(j), IsFiniteSet(S)
        PROVE  sends[j] = 4 \/ sends[j] >= messages'[j].attempts + Cardinality(S)
    BY <1>2, <2>1 DEF Counted, Sufficient, Queued
  <2>2. \A j \in Queued' : \A S \in SUBSET SentBy(j)' :
          IsFiniteSet(S) => sends'[j] = 4 \/ sends'[j] >= messages'[j].attempts + Cardinality(S)
    <3> SUFFICES ASSUME NEW j \in Queued', NEW S \in SUBSET SentBy(j)', IsFiniteSet(S)
                 PROVE  sends[j] = 4 \/ sends[j] >= messages'[j].attempts + Cardinality(S)
      BY <1>1
    <3>1. j \in Queued /\ S \in SUBSET SentBy(j)
      BY <1>3 DEF Queued
    <3> QED BY <2>1, <3>1
  <2> QED BY <1>1, <1>2, <2>2 DEF Counted, Sufficient
<1>6. ASSUME NEW j \in Ids \ unsettled' PROVE Settled(j)'
  <2>1. Settled(j)
    BY <1>1 DEF Counted
  <2>2. CASE j = i
    <3>1. \A w \in Workers : ~Holds(w, i)
      BY <1>1, <2>2 DEF Holds, LeaseHeld
    <3> QED BY <1>1, <1>2, <1>3, <2>1, <2>2, <3>1 DEF Settled, Holds
  <2>3. CASE j # i
    BY <1>1, <1>2, <1>3, <2>1, <2>3 DEF Settled, Holds
  <2> QED BY <2>2, <2>3
<1> QED BY <1>4, <1>5, <1>6 DEF Counted

LEMMA CountedWorker ==
  ASSUME IInv, Counted, NEW w \in Workers, WorkerStep(w) PROVE Counted'
<1>1. CASE ReadEndpoint(w) \/ EndRound(w)
  <2>1. /\ work[w].step \in {"idle", "round"}
        /\ UNCHANGED <<messages, sends, unsettled>>
    BY <1>1 DEF ReadEndpoint, EndRound, db, history
  <2>2. PICK r \in Worker : work' = [work EXCEPT ![w] = r] /\ r.step \in {"idle", "round"}
    <3>1. CASE ReadEndpoint(w)
      <4> DEFINE r == [Resting EXCEPT !.step = "round", !.dest = settings.dest, !.left = Batch]
      <4>1. settings.dest \in Versions /\ Batch \in 0 .. Batch /\ Resting \in Worker
        BY AlertsAssumption, Constants DEF IInv, TypeOK, Settings
      <4>2. r \in Worker /\ r.step = "round"
        BY <4>1 DEF Resting, Worker
      <4> QED BY <3>1, <4>2 DEF ReadEndpoint
    <3>2. CASE EndRound(w)
      BY <3>2, Constants DEF EndRound, Resting
    <3> QED BY <1>1, <3>1, <3>2
  <2>3. \A i \in Ids \ unsettled' : Holds(w, i) => i \notin Queued
    BY <2>1 DEF Holds
  <2> QED BY <2>1, <2>2, <2>3, CountedDrops
<1> QED BY <1>1, CountedNextDelivery, CountedSendWebhook, CountedFinishDelivery,
           CountedFinishFails DEF WorkerStep

LEMMA CountedObserver ==
  ASSUME IInv, Counted, NEW o \in Observers, ObserverStep(o) PROVE Counted'
<1>1. obs[o].id # 0 => obs[o].id \in Ids /\ messages[obs[o].id] \in Message
                        /\ messages[obs[o].id].fate = "writing"
                        /\ messages[obs[o].id].attempts = 0
  <2>1. obs[o].id # 0 => obs[o].id \in Ids /\ messages[obs[o].id] \in Message
                         /\ messages[obs[o].id].fate = "writing"
    BY DEF IInv, Producing, ObsOK, TypeOK, Observer
  <2> QED BY <2>1 DEF Counted, Untried
<1>2. UNCHANGED <<work, sends, unsettled>>
  BY DEF ObserverStep, ReadState, WriteState, CommitState, ObserveFails, history
<1>3. CASE \E s \in Subjects, status \in Found : ReadState(o, s, status)
  <2>1. messages' = messages
    BY <1>3 DEF ReadState, db
  <2> QED BY <1>2, <2>1, CountedStays DEF Written
<1>4. CASE WriteState(o)
  <2>1. \A i \in Ids : messages'[i] = messages[i] \/
          (messages[i].fate = "unused" /\ messages'[i].fate = "writing" /\ messages'[i].attempts = 0)
    <3>1. CASE messages' = messages
      BY <3>1
    <3>2. CASE /\ next \in Ids
               /\ \E v \in Versions, b \in BOOLEAN : messages' = [messages EXCEPT ![next] =
                    [Unused EXCEPT !.subject = obs[o].subject, !.version = v,
                                   !.problem = b, !.ready = TRUE, !.fate = "writing"]]
      <4>1. messages[next].fate = "unused"
        BY <3>2, AlertsAssumption DEF IInv, Producing, ObsOK, TypeOK, Ids
      <4> QED BY <3>2, <4>1 DEF IInv, TypeOK, Unused
    <3>3. settings.version \in Versions
      BY DEF IInv, TypeOK, Settings
    <3> QED BY <1>4, <3>1, <3>2, <3>3 DEF WriteState
  <2> QED BY <1>2, <2>1, CountedStays DEF Written
<1>5. CASE CommitState(o) \/ ObserveFails(o)
  <2>1. \A i \in Ids : messages'[i] = messages[i] \/
          (messages[i].fate = "writing" /\ messages'[i].fate \in {"queued", "unused"}
             /\ messages'[i].attempts = 0)
    <3>1. Ended(o, TRUE) \/ Ended(o, FALSE)
      BY <1>5 DEF CommitState, ObserveFails
    <3>2. LET d == [messages[obs[o].id] EXCEPT !.fate = "queued"]
          IN obs[o].id # 0 => d.fate = "queued" /\ d.attempts = 0
      BY <1>1 DEF Message
    <3>3. Unused.fate = "unused" /\ Unused.attempts = 0
      BY DEF Unused
    <3> QED BY <1>1, <3>1, <3>2, <3>3 DEF Ended, IInv, TypeOK
  <2> QED BY <1>2, <2>1, CountedStays DEF Written
<1> QED BY <1>3, <1>4, <1>5 DEF ObserverStep

LEMMA CountedNext == IInv /\ Counted /\ [Next]_vars => Counted'
<1> SUFFICES ASSUME IInv, Counted, [Next]_vars PROVE Counted'
  OBVIOUS
<1>1. ASSUME NEW a \in Operators, OperatorStep(a) PROVE Counted'
  <2>1. UNCHANGED <<work, sends, unsettled>>
    BY <1>1 DEF OperatorStep, BeginSave, UpdateSettings, CommitSave, SaveFails, history
  <2>2. \A i \in Ids : Written(i)
    <3>1. CASE messages' = messages
      BY <3>1 DEF Written
    <3>2. CASE messages' = [i \in Ids |->
                 IF i \in Dropped THEN Gone(messages[i], "dropped") ELSE messages[i]]
      <4>1. \A i \in Ids : Gone(messages[i], "dropped").fate = "dropped"
        BY GoneOK DEF Fates, IInv, TypeOK
      <4> QED BY <3>2, <4>1 DEF Written
    <3> QED BY <1>1, <3>1, <3>2 DEF OperatorStep, BeginSave, UpdateSettings, CommitSave,
                                  SaveFails, db
  <2> QED BY <2>1, <2>2, CountedStays
<1>2. ASSUME NEW i \in Ids, PruneDelivery(i) PROVE Counted'
  <2>1. Gone(messages[i], "expired").fate = "expired"
    BY GoneOK DEF Fates, IInv, TypeOK
  <2>2. /\ messages' = [messages EXCEPT ![i] = Gone(messages[i], "expired")]
        /\ UNCHANGED <<work, sends, unsettled>>
    BY <1>2 DEF PruneDelivery, history
  <2>3. \A j \in Ids : Written(j)
    BY <2>1, <2>2 DEF Written, IInv, TypeOK
  <2> QED BY <2>2, <2>3, CountedStays
<1>3. ASSUME \/ \E s \in Subjects, O \in SUBSET Observers : DeleteSubject(s, O)
             \/ \E s \in Subjects : PruneState(s)
             \/ UNCHANGED vars
      PROVE  Counted'
  <2>1. UNCHANGED <<messages, work, sends, unsettled>>
    BY <1>3 DEF DeleteSubject, PruneState, vars, db, history
  <2> QED BY <2>1, CountedStays DEF Written
<1> QED BY <1>1, <1>2, <1>3, CountedWorker, CountedObserver, CountedFallDue DEF Next

\* A message is given up after three attempts at least, and is sent three times at
\* most unless an outcome was stored late or never (FinishDelivery).
THEOREM MessagesAreTriedThrice == Spec => []ThreeAttempts
<1>1. IInv /\ Counted => ThreeAttempts
  BY CountTypes DEF Counted, Sufficient, Settled, ThreeAttempts
<1>2. Spec => []Counted
  BY Invariance, CountedInit, CountedNext, PTL DEF Spec
<1> QED BY <1>1, <1>2, Invariance, PTL
=============================================================================
