------------------------------- MODULE Alerts -------------------------------
(***************************************************************************)
(* Authorization alerts: checks that record the status of a subject (a    *)
(* connection, a model provider or the Codex subscription) and queue an   *)
(* alert when it loses or regains its authorization (Observe), operators  *)
(* who change where alerts go (SaveOperationSettings), and the workers    *)
(* that deliver the queue to the webhook (deliver).                       *)
(*                                                                         *)
(* They meet in the database only.  Observe and SaveOperationSettings are *)
(* transactions of several statements, each of which sees what has been   *)
(* committed when it starts; an action is one statement, or several that  *)
(* no other transaction can come between.  Settings are numbered by the   *)
(* save that wrote them and a destination by the save that entered it; 0  *)
(* is none.  Time is not modelled: a message may fall due at any moment,  *)
(* except that a lease outlasts the request it covers.                    *)
(***************************************************************************)
EXTENDS Naturals, FiniteSets

CONSTANTS
  Subjects,     \* what is checked
  Deletable,    \* the connections and providers among them; Codex stays
  Found,        \* the statuses that checks find
  Observers,    \* checks and sign-ins under way at the same time
  Operators,    \* settings forms being saved at the same time
  Workers,      \* delivery loops, one for each running process
  Batch,        \* the deliveries of one round (5 in the code)
  MaxMessages,  \* bound: the messages queued
  MaxSaves,     \* bound: the saves of the settings
  NoSubject     \* what a check that is not under way is about

\* "unreachable" stands for every status that says nothing of the authorization.
Statuses == {"connected", "reauthorization_required", "disabled", "unreachable"}

ASSUME AlertsAssumption ==
  /\ Deletable \subseteq Subjects /\ Found \subseteq Statuses
  /\ Batch \in Nat \ {0}
  /\ MaxMessages \in Nat \ {0}
  /\ MaxSaves \in Nat
  /\ NoSubject \notin Subjects

VARIABLES
  settings,  \* operation_settings
  state,     \* operation_states
  messages,  \* webhook_deliveries, and what became of each message
  next,      \* the sequence that numbers webhook_deliveries
  gone,      \* the subjects that have been deleted
  obs,       \* what each observer is doing and has read
  form,      \* the form each operator is saving
  work,      \* the destination and the delivery each worker holds
  sends,     \* history: how often each message was sent, counted up to 4
  unsettled, \* history: messages with an outcome that was stored late or never
  marked,    \* history: the alerts queued since a subject's mark was last reset
  seen,      \* history: the settings in force at the last check of each subject
  missed,    \* history: <<save, subject>>: the save did not wait for its check
  raced      \* history: subjects that kept, or may get back, a mark that was reset

db      == <<settings, state, messages, next, gone>>
history == <<sends, unsettled, marked, seen, missed, raced>>
vars    == <<db, obs, form, work, history>>

-----------------------------------------------------------------------------
Ids      == 1 .. MaxMessages
Versions == 0 .. MaxSaves + 1

Settings == [on : BOOLEAN, dest : Versions, version : Versions]

Row   == [status : Statuses \cup {"none"}, alerted : BOOLEAN]
NoRow == [status |-> "none", alerted |-> FALSE]

Fates   == {"unused", "writing", "queued",
            "delivered", "failed", "expired", "dropped"}   \* the row is deleted
Message == [subject : Subjects \cup {NoSubject}, problem : BOOLEAN,
            version : Versions, attempts : Nat, ready : BOOLEAN, fate : Fates]
Unused  == [subject |-> NoSubject, problem |-> FALSE, version |-> 0,
            attempts |-> 0, ready |-> FALSE, fate |-> "unused"]

Observer == [step : {"idle", "listed", "read", "written"},
             subject : Subjects \cup {NoSubject}, status : Statuses \cup {"none"},
             alerted : BOOLEAN, id : Ids \cup {0}, version : Versions]
Idle     == [step |-> "idle", subject |-> NoSubject, status |-> "none",
             alerted |-> FALSE, id |-> 0, version |-> 0]

Form == [step : {"idle", "checked", "updated"}, on : BOOLEAN, new : BOOLEAN,
         clear : BOOLEAN, rows : SUBSET Subjects]
Blank == [step |-> "idle", on |-> FALSE, new |-> FALSE, clear |-> FALSE, rows |-> {}]

Worker == [step : {"idle", "round", "sending", "sent"}, dest : Versions,
           left : 0 .. Batch, id : Ids \cup {0}, attempts : Nat, ok : BOOLEAN]
Resting == [step |-> "idle", dest |-> 0, left |-> 0, id |-> 0, attempts |-> 0,
            ok |-> FALSE]

\* Message m once its row is deleted.
Gone(m, fate) == [m EXCEPT !.fate = fate, !.attempts = 0, !.ready = FALSE]

\* A row is there once the transaction that inserted it has committed.
Exists(s) == state[s].status # "none"

Queued == {i \in Ids : messages[i].fate = "queued"}

WebhookOn == settings.on /\ settings.dest # 0

\* Alerts are off, or have been going to the first destination.
Init ==
  /\ settings \in {[on |-> FALSE, dest |-> 0, version |-> 1],
                  [on |-> TRUE,  dest |-> 1, version |-> 1]}
  /\ state = [s \in Subjects |-> NoRow]
  /\ messages = [i \in Ids |-> Unused]
  /\ next = 1
  /\ gone = {}
  /\ obs = [o \in Observers |-> Idle]
  /\ form = [a \in Operators |-> Blank]
  /\ work = [w \in Workers |-> Resting]
  /\ sends = [i \in Ids |-> 0] /\ unsettled = {}
  /\ marked = [s \in Subjects |-> {}]
  /\ seen = [s \in Subjects |-> 0]
  /\ missed = {} /\ raced = {}

-----------------------------------------------------------------------------
(* Observe: a transaction under an advisory lock of its subject            *)

InTransaction(o, s) == obs[o].step \in {"read", "written"} /\ obs[o].subject = s

\* No lock at all: what one transaction reads another may change.
NoLock(s) == TRUE

AdvisoryLockFree(s) == \A o \in Observers : ~InTransaction(o, s)

\* A check has listed the subject, and may get to it after its deletion.
Listed(o, s) ==
  \/ obs[o].step = "idle" /\ s \notin gone
  \/ obs[o].step = "listed" /\ obs[o].subject = s

\* This status was found: the lock is taken and the mark read.
ReadState(o, s, status) ==
  /\ Listed(o, s)
  /\ AdvisoryLockFree(s)
  /\ obs' = [obs EXCEPT ![o] = [Idle EXCEPT !.step = "read", !.subject = s,
                                 !.status = status, !.alerted = state[s].alerted]]
  /\ UNCHANGED <<db, form, work, history>>

\* An update of a row waits for the save that has updated it, and a save or a
\* deletion waits for the check that has.
HeldBySave(s)  == \E a \in Operators : form[a].step = "updated" /\ s \in form[a].rows
HeldByCheck(s) == \E o \in Observers : obs[o].step = "written" /\ obs[o].subject = s

\* Only a change of status is worth an alert.
OnTransition(o) ==
  \/ obs[o].status = "reauthorization_required" /\ state[obs[o].subject].status # obs[o].status
  \/ obs[o].status = "connected" /\ obs[o].alerted

\* An alert for every problem that has none, and one for its end.
NeedsAlert(o) ==
  \/ obs[o].status = "reauthorization_required" /\ ~obs[o].alerted
  \/ obs[o].status = "connected" /\ obs[o].alerted

\* Any other status clears the mark.
MarkWhileBroken(o, queued) ==
  obs[o].status = "reauthorization_required" /\ (obs[o].alerted \/ queued)

\* A transient failure keeps the mark, and an alert that went nowhere sets none.
Mark(o, queued) ==
  obs[o].status \notin {"connected", "disabled"} /\ (obs[o].alerted \/ queued)

\* The row is inserted or updated, and the message inserted if alerts are on.
WriteState(o) ==
  LET s == obs[o].subject
      queued == NeedsAlert(o) /\ WebhookOn
  IN /\ obs[o].step = "read"
     /\ ~HeldBySave(s) /\ ~HeldByCheck(s)
     /\ queued => next \in Ids
     /\ obs' = [obs EXCEPT ![o].step = "written", ![o].alerted = Mark(o, queued),
                           ![o].id = IF queued THEN next ELSE 0,
                           ![o].version = settings.version]
     /\ IF queued
        THEN /\ messages' = [messages EXCEPT ![next] =
                  [Unused EXCEPT !.subject = s, !.version = settings.version,
                                 !.problem = (obs[o].status = "reauthorization_required"),
                                 !.ready = TRUE, !.fate = "writing"]]
             /\ next' = next + 1
        ELSE UNCHANGED <<messages, next>>
     /\ UNCHANGED <<settings, state, gone, form, work, history>>

\* The message of the transaction that o is ending, if it has one.
Ended(o, committed) ==
  messages' = IF obs[o].id = 0 THEN messages
              ELSE [messages EXCEPT ![obs[o].id] =
                     IF committed THEN [@ EXCEPT !.fate = "queued"] ELSE Unused]

CommitState(o) ==
  LET s == obs[o].subject
      alert == IF obs[o].id # 0 /\ messages[obs[o].id].problem THEN {obs[o].id} ELSE {}
  IN /\ obs[o].step = "written"
     /\ state' = [state EXCEPT ![s] = [status |-> obs[o].status, alerted |-> obs[o].alerted]]
     /\ Ended(o, TRUE)
     /\ marked' = [marked EXCEPT ![s] = IF obs[o].status \in {"connected", "disabled"}
                                         THEN {} ELSE @ \cup alert]
     /\ seen' = [seen EXCEPT ![s] = obs[o].version]
     /\ raced' = IF obs[o].alerted /\ alert = {} THEN raced ELSE raced \ {s}
     /\ obs' = [obs EXCEPT ![o] = Idle]
     /\ UNCHANGED <<settings, next, gone, form, work, sends, unsettled, missed>>

\* A statement fails, the time limit of the check passes or the process stops:
\* the transaction is rolled back, and the check forgotten.
ObserveFails(o) ==
  /\ obs[o].step # "idle"
  /\ Ended(o, FALSE)
  /\ obs' = [obs EXCEPT ![o] = Idle]
  /\ UNCHANGED <<settings, state, next, gone, form, work, history>>

-----------------------------------------------------------------------------
(* SaveOperationSettings, from the settings form                           *)

\* The form is refused if alerts are on and it leaves them no webhook.
BeginSave(a, on, new, clear) ==
  /\ form[a].step = "idle"
  /\ on => ~clear /\ (new \/ settings.dest # 0)
  /\ form' = [form EXCEPT ![a] = [Blank EXCEPT !.step = "checked", !.on = on,
                                               !.new = new, !.clear = clear]]
  /\ UNCHANGED <<db, obs, work, history>>

\* The marks are reset without waiting for the checks that are writing theirs.
WaitForNothing == TRUE

WaitForChecks == \A s \in Subjects : Exists(s) => ~HeldByCheck(s)

\* The settings are locked and written, then the mark of every row that is there
\* once no check holds one.
UpdateSettings(a) ==
  /\ form[a].step = "checked"
  /\ \A b \in Operators : form[b].step # "updated"
  /\ WaitForChecks
  /\ settings.version \in 1 .. MaxSaves
  /\ form' = [form EXCEPT ![a].step = "updated",
                          ![a].rows = {s \in Subjects : Exists(s)}]
  /\ UNCHANGED <<db, obs, work, history>>

\* Only the messages no worker has taken yet.
DropUntaken == {i \in Queued : messages[i].ready}

Dropped == Queued

\* The marks stay.
KeepMarks(a) == {}

ResetMarks(a) == form[a].rows

\* The queue is emptied and everything committed, in one step: a check that ends
\* between the two ends after both.
CommitSave(a) ==
  LET f == form[a]
      v == settings.version + 1
  IN /\ f.step = "updated"
     /\ settings' = [on |-> f.on /\ ~f.clear, version |-> v,
                     dest |-> IF f.new THEN v ELSE IF f.clear THEN 0 ELSE settings.dest]
     /\ state' = [s \in Subjects |->
          [state[s] EXCEPT !.alerted = IF s \in ResetMarks(a) THEN FALSE ELSE @]]
     /\ messages' = [i \in Ids |->
          IF i \in Dropped THEN Gone(messages[i], "dropped") ELSE messages[i]]
     /\ marked' = [s \in Subjects |-> IF s \in f.rows THEN {} ELSE marked[s]]
     /\ missed' = missed \cup {<<v, s>> : s \in {t \in Subjects \ f.rows : HeldByCheck(t)}}
     /\ raced' = raced \cup {s \in Subjects \ f.rows : state[s].alerted}
                       \cup {s \in Subjects : \E o \in Observers :
                                               InTransaction(o, s) /\ obs[o].alerted}
     /\ form' = [form EXCEPT ![a] = Blank]
     /\ UNCHANGED <<next, gone, obs, work, sends, unsettled, seen>>

SaveFails(a) ==
  /\ form[a].step # "idle"
  /\ form' = [form EXCEPT ![a] = Blank]
  /\ UNCHANGED <<db, obs, work, history>>

-----------------------------------------------------------------------------
(* deliver: rounds of deliveries, each under a lease                       *)

Due(i) == i \in Queued /\ messages[i].ready

ReadEndpoint(w) ==
  /\ work[w].step = "idle"
  /\ WebhookOn
  /\ work' = [work EXCEPT ![w] = [Resting EXCEPT !.step = "round", !.dest = settings.dest,
                                                 !.left = Batch]]
  /\ UNCHANGED <<db, obs, form, history>>

\* The message stays due while it is being sent.
NoLease == TRUE

Lease == FALSE

\* The first message that is due is taken: it falls due again when the lease ends.
NextDelivery(w) ==
  /\ work[w].step = "round"
  /\ \E i \in Ids :
       /\ Due(i)
       /\ \A j \in 1 .. i - 1 : ~Due(j)
       /\ messages' = [messages EXCEPT ![i].ready = Lease]
       /\ work' = [work EXCEPT ![w].step = "sending", ![w].id = i,
                               ![w].attempts = messages[i].attempts]
  /\ UNCHANGED <<settings, state, next, gone, obs, form, history>>

\* Nothing is due, or the row could not be read: the round ends.
EndRound(w) ==
  /\ work[w].step = "round"
  /\ work' = [work EXCEPT ![w] = Resting]
  /\ UNCHANGED <<db, obs, form, history>>

\* The destination accepts the message, or does not, or its answer is lost.
SendWebhook(w, ok) ==
  /\ work[w].step = "sending"
  /\ work' = [work EXCEPT ![w].step = "sent", ![w].ok = ok]
  /\ sends' = [sends EXCEPT ![work[w].id] = IF @ < 4 THEN @ + 1 ELSE @]
  /\ UNCHANGED <<db, obs, form, unsettled, marked, seen, missed, raced>>

\* The next delivery of the round, if it has one.
NextOfRound(w) ==
  LET r == work[w]
  IN work' = [work EXCEPT ![w] =
       IF r.left = 1 THEN Resting
       ELSE [Resting EXCEPT !.step = "round", !.dest = r.dest, !.left = r.left - 1]]

\* One attempt too many.
FourAttempts(w) == work[w].attempts >= 3

LastAttempt(w) == work[w].attempts >= 2

FinishDelivery(w) ==
  LET i == work[w].id
      m == messages[i]
  IN /\ work[w].step = "sent"
     /\ IF i \notin Queued THEN UNCHANGED messages
        ELSE messages' = [messages EXCEPT ![i] =
               IF work[w].ok THEN Gone(m, "delivered")
               ELSE IF LastAttempt(w) THEN Gone(m, "failed")
               ELSE [m EXCEPT !.attempts = m.attempts + 1, !.ready = FALSE]]
     /\ NextOfRound(w)
     /\ UNCHANGED <<settings, state, next, gone, obs, form, history>>

\* The outcome is not stored, or the process stops before it is.
FinishFails(w) ==
  /\ work[w].step \in {"sending", "sent"}
  /\ unsettled' = unsettled \cup {work[w].id}
  /\ \/ NextOfRound(w) /\ work[w].step = "sent"
     \/ work' = [work EXCEPT ![w] = Resting]
  /\ UNCHANGED <<db, obs, form, sends, marked, seen, missed, raced>>

\* A lease lasts longer than a request, not longer than a database that hangs.
LeaseHeld(i) == \E w \in Workers : work[w].step = "sending" /\ work[w].id = i

\* The lease ends, or the time of the next attempt has come.
FallDue(i) ==
  /\ i \in Queued /\ ~messages[i].ready
  /\ ~LeaseHeld(i)
  /\ messages' = [messages EXCEPT ![i].ready = TRUE]
  /\ unsettled' = IF \E w \in Workers : work[w].step = "sent" /\ work[w].id = i
                    THEN unsettled \cup {i} ELSE unsettled
  /\ UNCHANGED <<settings, state, next, gone, obs, form, work, sends, marked, seen,
                 missed, raced>>

-----------------------------------------------------------------------------
(* PruneOperations, and the deletion of what is checked                    *)

\* The checks O have listed the subject before, and record its status after.
DeleteSubject(s, O) ==
  /\ s \in Deletable \ gone
  /\ \A o \in O : obs[o].step = "idle"
  /\ gone' = gone \cup {s}
  /\ obs' = [o \in Observers |->
               IF o \in O THEN [Idle EXCEPT !.step = "listed", !.subject = s] ELSE obs[o]]
  /\ UNCHANGED <<settings, state, messages, next, form, work, history>>

\* A message that is a day old is deleted.
PruneDelivery(i) ==
  /\ i \in Queued
  /\ messages' = [messages EXCEPT ![i] = Gone(@, "expired")]
  /\ UNCHANGED <<settings, state, next, gone, obs, form, work, history>>

PruneState(s) ==
  /\ s \in gone /\ Exists(s)
  /\ ~HeldBySave(s) /\ ~HeldByCheck(s)
  /\ state' = [state EXCEPT ![s] = NoRow]
  /\ marked' = [marked EXCEPT ![s] = {}]
  /\ raced' = IF \E o \in Observers : InTransaction(o, s) /\ obs[o].alerted
                THEN raced \cup {s} ELSE raced
  /\ UNCHANGED <<settings, messages, next, gone, obs, form, work, sends, unsettled, seen,
                 missed>>

-----------------------------------------------------------------------------
ObserverStep(o) ==
  \/ \E s \in Subjects, status \in Found : ReadState(o, s, status)
  \/ WriteState(o) \/ CommitState(o) \/ ObserveFails(o)

OperatorStep(a) ==
  \/ \E on, new, clear \in BOOLEAN : BeginSave(a, on, new, clear)
  \/ UpdateSettings(a) \/ CommitSave(a) \/ SaveFails(a)

WorkerStep(w) ==
  \/ ReadEndpoint(w) \/ NextDelivery(w) \/ EndRound(w)
  \/ \E ok \in BOOLEAN : SendWebhook(w, ok)
  \/ FinishDelivery(w) \/ FinishFails(w)

Next ==
  \/ \E o \in Observers : ObserverStep(o)
  \/ \E a \in Operators : OperatorStep(a)
  \/ \E w \in Workers : WorkerStep(w)
  \/ \E i \in Ids : FallDue(i) \/ PruneDelivery(i)
  \/ \E s \in Subjects, O \in SUBSET Observers : DeleteSubject(s, O)
  \/ \E s \in Subjects : PruneState(s)

Spec == Init /\ [][Next]_vars

-----------------------------------------------------------------------------
(* Properties                                                              *)

\* Every variable has its type.
TypeOK ==
  /\ settings \in Settings
  /\ state \in [Subjects -> Row]
  /\ messages \in [Ids -> Message]
  /\ next \in 1 .. MaxMessages + 1
  /\ gone \subseteq Subjects
  /\ obs \in [Observers -> Observer]
  /\ form \in [Operators -> Form]
  /\ work \in [Workers -> Worker]
  /\ sends \in [Ids -> 0 .. 4] /\ unsettled \subseteq Ids
  /\ marked \in [Subjects -> SUBSET Ids]
  /\ seen \in [Subjects -> Versions]
  /\ missed \subseteq Versions \X Subjects /\ raced \subseteq Subjects

\* Alerts are queued once per problem (Observe): checks of one subject at the
\* same time, transient failures, crashes and saves between their statements
\* never raise a second alert before the mark of the first was reset, by the
\* subject's recovery, its being disabled or a save.
OneAlertPerProblem ==
  \A s \in Subjects : \A i, j \in marked[s] : i = j

\* A subject whose mark says that an alert was raised, which raises no other, has
\* one that a save did not drop: it is queued or was delivered, given up or a day
\* old.  The exception is a check that read the mark, or made its row, while a save
\* was resetting the marks.
MarkedAlertIsKept ==
  \A s \in Subjects :
    state[s].alerted /\ s \notin raced =>
      \E i \in marked[s] : messages[i].fate \in {"queued", "delivered", "failed", "expired"}

\* No save up to version v came after message i that saw, or waited for, the row
\* of the message's subject.
UpTo(i, v) == \A u \in messages[i].version + 1 .. v : <<u, messages[i].subject>> \in missed

\* A problem found while alerts are on is marked, also one that was found before
\* they were turned on or sent elsewhere, as soon as it is checked again, and its
\* mark stands for an alert that the destination of now gets or got: queued under
\* the settings in force and not dropped.  The exceptions are those of the two
\* properties around this one: the check that read the mark while a save was
\* resetting it, and the one whose row the save did not see.
ProblemIsAlerted ==
  \A s \in Subjects :
    state[s].status = "reauthorization_required" /\ seen[s] = settings.version /\ WebhookOn
      => /\ state[s].alerted
         /\ s \notin raced =>
              \E i \in marked[s] :
                /\ messages[i].fate \in {"queued", "delivered", "failed", "expired"}
                /\ UpTo(i, settings.version)

\* Old queued messages are not sent to a newly configured destination: none is
\* queued once a save has committed, and no worker sends one there.  The exception
\* is the message of a check whose row the save did not see and did not wait for.
OldMessagesStayBehind ==
  /\ \A i \in Queued : UpTo(i, settings.version)
  /\ \A w \in Workers : work[w].step = "sending" => UpTo(work[w].id, work[w].dest)

\* A lease prevents duplicate delivery by concurrent workers (NextDelivery): two
\* never send the same message at the same time.
NoDuplicateDelivery ==
  \A w, x \in Workers :
    work[w].step = "sending" /\ work[x].step = "sending" /\ work[w].id = work[x].id => w = x

\* A message is given up after three attempts, no fewer, and sent no more often
\* unless the outcome of an attempt was stored late or never (FinishDelivery).
ThreeAttempts ==
  \A i \in Ids :
    /\ messages[i].fate = "failed" => sends[i] >= 3
    /\ i \notin unsettled => sends[i] <= 3
=============================================================================
