--------------------------- MODULE Delivery_proofs ---------------------------
(***************************************************************************)
(* Theorems about Delivery, for every set of alerts and chats, every       *)
(* max_jobs and max_tries, and every number of failures, crashes and       *)
(* commands.                                                               *)
(***************************************************************************)
EXTENDS Delivery, TLAPS

USE WorkerAssumption, BoundAssumption

LEMMA TypeInit == Init => TypeOK
BY DEF Init, TypeOK

\* A message leaves an inbox as it is, or adds a copy to one chat's.
LEMMA DeliverType ==
  ASSUME TypeOK, NEW a \in Alerts, NEW c \in Chats,
         inbox' \in {inbox, [inbox EXCEPT ![a] = Deliver(c, @)]}
  PROVE  /\ inbox' \in [Alerts -> [Chats -> Nat]]
         /\ \A b \in Alerts, d \in Chats :
              /\ inbox'[b][d] >= inbox[b][d]
              /\ inbox'[b][d] <= inbox[b][d] + 1
              /\ b # a \/ d # c => inbox'[b][d] = inbox[b][d]
<1>1. inbox \in [Alerts -> [Chats -> Nat]]
  BY DEF TypeOK
<1>2. CASE inbox' = inbox
  BY <1>1, <1>2
<1>3. CASE inbox' = [inbox EXCEPT ![a] = [inbox[a] EXCEPT ![c] = inbox[a][c] + 1]]
  BY <1>1, <1>3
<1>4. QED
  BY <1>2, <1>3 DEF Deliver

LEMMA TypeNext == TypeOK /\ [Next]_vars => TypeOK'
<1> SUFFICES ASSUME TypeOK, [Next]_vars PROVE TypeOK'
  OBVIOUS
<1> USE DEF TypeOK, redisVars, jobVars, chatVars, inboxVars
<1>1. CASE UNCHANGED vars
  BY <1>1 DEF vars
<1>2. ASSUME NEW a \in Alerts, Dispatched(a) PROVE TypeOK'
  BY <1>2 DEF Dispatched
<1>3. ASSUME NEW c \in Chats, Register(c) \/ MarkStopped(c) \/ AckStop(c) PROVE TypeOK'
  BY <1>3 DEF Register, MarkStopped, AckStop, Command
<1>4. CASE Crash
  BY <1>4 DEF Crash
<1>5. ASSUME NEW a \in Alerts, JobStep(a) PROVE TypeOK'
  <2>1. CASE StartJob(a)
    BY <2>1 DEF StartJob
  <2>2. CASE Exhausted(a)
    BY <2>2 DEF Exhausted, Finish
  <2>3. CASE ReadSubscribers(a)
    BY <2>3 DEF ReadSubscribers
  <2>4. ASSUME NEW c \in Chats, SendOk(a, c) PROVE TypeOK'
    <3>1. inbox' \in [Alerts -> [Chats -> Nat]]
      BY <2>4 DEF SendOk, Deliver
    <3>2. QED
      BY <2>4, <3>1 DEF SendOk, Sent
  <2>5. ASSUME NEW c \in Chats, SendFails(a, c) PROVE TypeOK'
    <3>1. inbox' \in [Alerts -> [Chats -> Nat]]
      BY <2>5, DeliverType DEF SendFails
    <3>2. faults' \in 0..MaxFaults
      BY <2>5 DEF SendFails, Fault
    <3>3. pc' \in [Alerts -> {"idle", "read", "skip", "send", "status"}]
      BY <2>5 DEF SendFails, Sent
    <3>4. todo' \in [Alerts -> SUBSET Chats]
      BY <2>5 DEF SendFails, Sent
    <3>5. QED
      BY <2>5, <3>1, <3>2, <3>3, <3>4 DEF SendFails, Sent
  <2>6. CASE UpdateStatus(a)
    BY <2>6 DEF UpdateStatus, Finish, Outcome
  <2>7. CASE JobFails(a)
    BY <2>7 DEF JobFails, Finish, Fault
  <2>8. QED
    BY <1>5, <2>1, <2>2, <2>3, <2>4, <2>5, <2>6, <2>7 DEF JobStep
<1>6. QED
  BY <1>1, <1>2, <1>3, <1>4, <1>5 DEF Next

\* Every reachable state is well-typed.
THEOREM TypeCorrect == Spec => []TypeOK
BY TypeInit, TypeNext, PTL DEF Spec

-----------------------------------------------------------------------------
(* Safety: the inductive invariant, by what it speaks of. *)

\* A running job is still queued, a queued one has neither ended nor failed, and a job
\* whose alert has no row was never started.
QueueInv ==
  \A a \in Alerts :
    /\ pc[a] # "idle" => a \in queue
    /\ a \in queue => status[a] = "queued" /\ a \notin failedJobs
    /\ status[a] = "none" => a \notin failedJobs /\ tries[a] = 0
    /\ a \notin queue => todo[a] = {}

\* An alert still "queued" has its job, or arq has given that job up as a failure.
QueuedHasJob ==
  \A a \in Alerts : status[a] = "queued" => a \in queue \/ a \in failedJobs

\* Between two starts of a job lies a crash: a start that no crash has cut yet is the
\* one start that exceeds the crashes.
TriesInv ==
  \A a \in Alerts :
    /\ tries[a] <= crashes + 1
    /\ a \in queue /\ pc[a] = "idle" => tries[a] <= crashes

\* A run adds one copy at most, to a chat it has still to send to.
CopiesInv ==
  \A a \in Alerts, c \in Chats :
    /\ inbox[a][c] <= tries[a]
    /\ pc[a] = "read" \/ (pc[a] = "send" /\ c \in todo[a]) => inbox[a][c] < tries[a]

\* A job that has counted a message has delivered one.
CountInv == \A a \in Alerts : sent[a] > 0 => \E c \in Chats : inbox[a][c] > 0

DeliveryInv ==
  /\ TypeOK /\ QueueInv /\ QueuedHasJob /\ TriesInv /\ CopiesInv /\ CountInv

LEMMA DeliveryInit == Init => DeliveryInv
<1> SUFFICES ASSUME Init PROVE DeliveryInv
  OBVIOUS
<1>1. TypeOK
  BY TypeInit
<1>2. QueueInv /\ TriesInv /\ CopiesInv
  BY DEF Init, QueueInv, TriesInv, CopiesInv
<1>3. CountInv /\ QueuedHasJob
  BY DEF Init, CountInv, QueuedHasJob
<1>4. QED
  BY <1>1, <1>2, <1>3 DEF DeliveryInv

LEMMA DeliveryNext == DeliveryInv /\ [Next]_vars => DeliveryInv'
<1> SUFFICES ASSUME DeliveryInv, [Next]_vars PROVE DeliveryInv'
  OBVIOUS
<1> DEFINE Rest == QueueInv' /\ TriesInv' /\ CopiesInv' /\ CountInv' /\ QueuedHasJob'
<1>1. TypeOK /\ TypeOK'
  BY TypeNext DEF DeliveryInv
<1> SUFFICES Rest
  BY <1>1 DEF DeliveryInv
<1> USE <1>1 DEF DeliveryInv, QueueInv, TriesInv, CopiesInv, CountInv, QueuedHasJob,
          TypeOK, redisVars, jobVars, chatVars, inboxVars
<1>2. CASE UNCHANGED vars
  BY <1>2 DEF vars
<1>3. ASSUME NEW a \in Alerts, Dispatched(a) PROVE Rest
  BY <1>3 DEF Dispatched
<1>4. ASSUME NEW c \in Chats, Register(c) \/ MarkStopped(c) \/ AckStop(c) PROVE Rest
  BY <1>4 DEF Register, MarkStopped, AckStop
<1>5. CASE Crash
  BY <1>5 DEF Crash
<1>6. ASSUME NEW a \in Alerts, JobStep(a) PROVE Rest
  <2>1. CASE StartJob(a)
    BY <2>1 DEF StartJob
  <2>2. CASE Exhausted(a)
    BY <2>2 DEF Exhausted, Finish
  <2>3. CASE ReadSubscribers(a)
    BY <2>3 DEF ReadSubscribers
  <2>4. ASSUME NEW c \in Chats, SendOk(a, c) \/ SendFails(a, c) PROVE Rest
    <3>1. inbox' \in {inbox, [inbox EXCEPT ![a] = Deliver(c, @)]}
      BY <2>4 DEF SendOk, SendFails
    <3>2. \A b \in Alerts, d \in Chats :
            /\ inbox'[b][d] >= inbox[b][d]
            /\ inbox'[b][d] <= inbox[b][d] + 1
            /\ b # a \/ d # c => inbox'[b][d] = inbox[b][d]
      BY <3>1, DeliverType
    <3>3. QueueInv' /\ TriesInv' /\ QueuedHasJob'
      BY <2>4 DEF SendOk, SendFails, Sent, Fault
    <3>4. CopiesInv'
      BY <2>4, <3>2 DEF SendOk, SendFails, Sent
    <3>5. CountInv'
      <4>1. CASE SendOk(a, c)
        <5>1. inbox'[a][c] > 0
          BY <4>1 DEF SendOk, Deliver
        <5>2. sent' = [sent EXCEPT ![a] = @ + 1]
          BY <4>1 DEF SendOk
        <5>3. QED
          BY <3>2, <5>1, <5>2
      <4>2. CASE SendFails(a, c)
        BY <3>2, <4>2 DEF SendFails
      <4>3. QED
        BY <2>4, <4>1, <4>2
    <3>6. QED
      BY <3>3, <3>4, <3>5
  <2>5. CASE UpdateStatus(a)
    BY <2>5 DEF UpdateStatus, Finish, Outcome
  <2>6. CASE JobFails(a)
    BY <2>6 DEF JobFails, Finish, Fault
  <2>7. QED
    BY <1>6, <2>1, <2>2, <2>3, <2>4, <2>5, <2>6 DEF JobStep
<1>7. QED
  BY <1>2, <1>3, <1>4, <1>5, <1>6 DEF Next

LEMMA DeliveryAlways == Spec => []DeliveryInv
BY DeliveryInit, DeliveryNext, PTL DEF Spec

\* A chat gets at most one copy of an alert, and one more for each crash of the worker
\* (jobs.py:30-67, worker.py:49-63).
THEOREM CopiesAreBounded == Spec => []CopiesBounded
<1>1. DeliveryInv => CopiesBounded
  BY DEF DeliveryInv, CopiesInv, TriesInv, CopiesBounded
<1>2. QED
  BY <1>1, DeliveryAlways, PTL

-----------------------------------------------------------------------------
(* The refinement of Broadcast. *)

\* The alerts of the worker, as Broadcast sees them.
Outcomes == [a \in Alerts |-> OutcomeOf(a)]
Reached  == [a \in Alerts |-> ReachedBy(a)]

\* What changes neither the outcomes nor who was reached is a stutter of Broadcast.
LEMMA SameIsStutter ==
  ASSUME UNCHANGED <<status, queue, failedJobs, inbox>>
  PROVE  Outcomes' = Outcomes /\ Reached' = Reached
BY DEF Outcomes, Reached, OutcomeOf, ReachedBy

\* Every step of the worker is a step of Broadcast, or a stutter.
LEMMA StepKeepsPromise ==
  ASSUME DeliveryInv, [Next]_vars
  PROVE  [Promise!Next]_<<Outcomes, Reached>>
<1> DEFINE Keeps == Promise!Next \/ UNCHANGED <<Outcomes, Reached>>
<1> SUFFICES Keeps
  BY DEF Outcomes, Reached
<1> USE DEF DeliveryInv, redisVars, jobVars, chatVars, inboxVars
<1>1. ASSUME UNCHANGED <<status, queue, failedJobs, inbox>> PROVE Keeps
  BY <1>1, SameIsStutter
<1>2. ASSUME NEW a \in Alerts, Dispatched(a) PROVE Promise!Owe(a)
  <2>1. OutcomeOf(a) = "none" /\ a \notin failedJobs
    BY <1>2 DEF Dispatched, OutcomeOf, QueueInv
  <2>2. \A b \in Alerts : OutcomeOf(b)' = IF b = a THEN "owed" ELSE OutcomeOf(b)
    BY <1>2, <2>1 DEF Dispatched, OutcomeOf, TypeOK
  <2>3. Reached' = Reached
    BY <1>2 DEF Dispatched, Reached, ReachedBy
  <2>4. QED
    BY <2>1, <2>2, <2>3 DEF Promise!Owe, Reached
<1>3. ASSUME NEW a \in Alerts, a \in queue, failedJobs' = failedJobs \cup {a},
             queue' = queue \ {a}, UNCHANGED <<status, inbox>>
      PROVE  Promise!Settle(a, "given_up")
  <2>1. OutcomeOf(a) = "owed" /\ status[a] = "queued"
    BY <1>3 DEF OutcomeOf, QueueInv
  <2>2. \A b \in Alerts : OutcomeOf(b)' = IF b = a THEN "given_up" ELSE OutcomeOf(b)
    BY <1>3, <2>1 DEF OutcomeOf
  <2>3. Reached' = Reached
    BY <1>3 DEF Reached, ReachedBy
  <2>4. QED
    BY <2>1, <2>2, <2>3 DEF Promise!Settle, Reached
<1>4. ASSUME NEW a \in Alerts, NEW c \in Chats, SendOk(a, c) \/ SendFails(a, c) PROVE Keeps
  <2>1. CASE inbox' = inbox
    BY <1>1, <1>4, <2>1 DEF SendOk, SendFails, Sent
  <2>2. CASE inbox' = [inbox EXCEPT ![a] = Deliver(c, @)]
    <3>1. OutcomeOf(a) = "owed"
      BY <1>4 DEF SendOk, SendFails, OutcomeOf, QueueInv
    <3>2. Reached' = [Reached EXCEPT ![a] = @ \cup {c}]
      <4>1. \A b \in Alerts, d \in Chats :
              inbox'[b][d] > 0 <=> inbox[b][d] > 0 \/ (b = a /\ d = c)
        BY <2>2 DEF Deliver, TypeOK
      <4>2. \A b \in Alerts : ReachedBy(b)' = IF b = a THEN ReachedBy(b) \cup {c} ELSE ReachedBy(b)
        BY <4>1 DEF ReachedBy
      <4>3. QED
        BY <4>2 DEF Reached
    <3>3. Outcomes' = Outcomes
      BY <1>4 DEF SendOk, SendFails, Sent, Outcomes, OutcomeOf
    <3>4. Promise!Reach(a, c)
      BY <3>1, <3>2, <3>3 DEF Promise!Reach, Outcomes, Reached
    <3>5. QED
      BY <3>4 DEF Promise!Next
  <2>3. QED
    BY <1>4, <2>1, <2>2 DEF SendOk, SendFails
<1>5. ASSUME NEW a \in Alerts, UpdateStatus(a)
      PROVE  Promise!Settle(a, Outcome(a)) /\ Outcome(a) \in Promise!Settled
  <2>1. Outcome(a) \in Promise!Settled
    BY <1>5 DEF UpdateStatus, Outcome, Promise!Settled
  <2>2. OutcomeOf(a) = "owed" /\ a \in queue
    BY <1>5 DEF UpdateStatus, OutcomeOf, QueueInv
  <2>3. Outcome(a) = "sent" => ReachedBy(a) # {}
    BY DEF Outcome, ReachedBy, CountInv
  <2>4. Outcomes' = [Outcomes EXCEPT ![a] = Outcome(a)]
    <3>1. \A b \in Alerts : OutcomeOf(b)' = IF b = a THEN Outcome(a) ELSE OutcomeOf(b)
      <4>1. status'[a] = Outcome(a) /\ Outcome(a) # "queued"
        BY <1>5, <2>1 DEF UpdateStatus, TypeOK, Promise!Settled
      <4>2. \A b \in Alerts \ {a} : status'[b] = status[b] /\ (b \in queue' <=> b \in queue)
        BY <1>5 DEF UpdateStatus, Finish, TypeOK
      <4>3. QED
        <5>1. OutcomeOf(a)' = Outcome(a)
          BY <4>1 DEF OutcomeOf
        <5>2. ASSUME NEW b \in Alerts \ {a} PROVE OutcomeOf(b)' = OutcomeOf(b)
          BY <1>5, <4>2 DEF UpdateStatus, OutcomeOf
        <5>3. QED
          BY <5>1, <5>2
    <3>2. QED
      BY <3>1 DEF Outcomes
  <2>5. Reached' = Reached
    BY <1>5 DEF UpdateStatus, Reached, ReachedBy
  <2>6. QED
    BY <2>1, <2>2, <2>3, <2>4, <2>5 DEF Promise!Settle, Outcomes, Reached
<1>6. ASSUME NEW a \in Alerts, JobStep(a) PROVE Keeps
  <2>1. CASE StartJob(a) \/ ReadSubscribers(a)
    BY <1>1, <2>1 DEF StartJob, ReadSubscribers
  <2>2. CASE Exhausted(a)
    BY <1>3, <2>2 DEF Exhausted, Finish, Promise!Next
  <2>3. CASE JobFails(a)
    BY <1>3, <2>3 DEF JobFails, Finish, QueueInv, Promise!Next
  <2>4. CASE UpdateStatus(a)
    BY <1>5, <2>4 DEF Promise!Next
  <2>5. QED
    BY <1>4, <1>6, <2>1, <2>2, <2>3, <2>4 DEF JobStep
<1>7. ASSUME NEW c \in Chats, Register(c) \/ MarkStopped(c) \/ AckStop(c) PROVE Keeps
  BY <1>1, <1>7 DEF Register, MarkStopped, AckStop
<1>8. CASE Crash \/ UNCHANGED vars
  BY <1>1, <1>8 DEF Crash, vars
<1>9. QED
  BY <1>2, <1>6, <1>7, <1>8 DEF Next, Promise!Next

\* The worker implements Broadcast: no crash, failure or command loses an alert that is
\* owed, delivers one that is not, or makes one "sent" that nobody received (jobs.py:30-70).
THEOREM WorkerKeepsPromise == Spec => BroadcastKept
<1>1. Init => Promise!Init
  BY DEF Init, Promise!Init, OutcomeOf, ReachedBy
<1>2. DeliveryInv /\ [Next]_vars => [Promise!Next]_<<Outcomes, Reached>>
  BY StepKeepsPromise
<1>3. QED
  BY <1>1, <1>2, DeliveryAlways, PTL
     DEF Spec, BroadcastKept, Promise!Spec, Outcomes, Reached

-----------------------------------------------------------------------------
(* What follows from it: of Broadcast it is plain, of the worker it is not. *)

\* "sent" in alerts_log is true, whoever sent it and whatever died after that.
SentIsTrue == \A a \in Alerts : status[a] = "sent" => \E c \in Chats : inbox[a][c] > 0

\* An alert that is settled, or whose job has failed, stays so, and reaches nobody else.
Ended(a) == OutcomeOf(a) \in {"sent", "failed", "skipped_dedup", "given_up"}
EndIsFinal ==
  [][\A a \in Alerts : Ended(a) => OutcomeOf(a)' = OutcomeOf(a) /\ ReachedBy(a)' = ReachedBy(a)]_vars

\* A step of Broadcast changes one alert, and that one is owed or not dispatched yet.
LEMMA BroadcastStep ==
  ASSUME [Promise!Next]_<<Outcomes, Reached>>, NEW a \in Alerts
  PROVE  \/ OutcomeOf(a)' = OutcomeOf(a) /\ ReachedBy(a)' = ReachedBy(a)
         \/ OutcomeOf(a) = "none" /\ OutcomeOf(a)' = "owed"
         \/ OutcomeOf(a) = "owed" /\ OutcomeOf(a)' = "owed"
         \/ /\ OutcomeOf(a) = "owed" /\ ReachedBy(a)' = ReachedBy(a)
            /\ OutcomeOf(a)' = "sent" => ReachedBy(a) # {}
<1>1. /\ OutcomeOf(a) = Outcomes[a] /\ OutcomeOf(a)' = Outcomes'[a]
      /\ ReachedBy(a) = Reached[a] /\ ReachedBy(a)' = Reached'[a]
  BY DEF Outcomes, Reached
<1>2. CASE UNCHANGED <<Outcomes, Reached>>
  BY <1>1, <1>2
<1>3. CASE Promise!Next
  <2>1. PICK b \in Alerts : \/ Promise!Owe(b)
                            \/ \E c \in Chats : Promise!Reach(b, c)
                            \/ \E how \in Promise!Settled \cup {"given_up"} : Promise!Settle(b, how)
    BY <1>3 DEF Promise!Next
  <2> USE DEF Outcomes, Reached
  <2>2. CASE Promise!Owe(b)
    BY <2>2 DEF Promise!Owe
  <2>3. ASSUME NEW c \in Chats, Promise!Reach(b, c)
        PROVE  /\ OutcomeOf(a)' = OutcomeOf(a)
               /\ ReachedBy(a)' = ReachedBy(a) \/ OutcomeOf(a) = "owed"
    BY <2>3 DEF Promise!Reach
  <2>4. ASSUME NEW how \in Promise!Settled \cup {"given_up"}, Promise!Settle(b, how)
        PROVE  /\ ReachedBy(a)' = ReachedBy(a)
               /\ \/ OutcomeOf(a)' = OutcomeOf(a)
                  \/ OutcomeOf(a) = "owed" /\ (OutcomeOf(a)' = "sent" => ReachedBy(a) # {})
    BY <2>4 DEF Promise!Settle
  <2>5. QED
    BY <2>1, <2>2, <2>3, <2>4
<1>4. QED
  BY <1>2, <1>3 DEF Outcomes, Reached

\* alerts_log says "sent" only of alerts that somebody received, in whichever run of the
\* job, and whatever failed or died in between (jobs.py:48-67).
THEOREM SentIsNeverALie == Spec => []SentIsTrue
<1> DEFINE SentReached == \A a \in Alerts : OutcomeOf(a) = "sent" => ReachedBy(a) # {}
<1>1. SentReached => SentIsTrue
  BY DEF SentIsTrue, OutcomeOf, ReachedBy
<1>2. Init => SentReached
  BY DEF Init, OutcomeOf
<1>3. ASSUME DeliveryInv, SentReached, [Next]_vars PROVE SentReached'
  <2> SUFFICES ASSUME NEW a \in Alerts, OutcomeOf(a)' = "sent" PROVE ReachedBy(a)' # {}
    OBVIOUS
  <2>1. QED
    BY <1>3, StepKeepsPromise, BroadcastStep
<1>4. QED
  BY <1>1, <1>2, <1>3, DeliveryAlways, PTL DEF Spec

\* What has ended for an alert has ended for good: no restart, no rerun and no later
\* update changes it or sends it once more to somebody new (jobs.py:30-70).
THEOREM EndsAreFinal == Spec => EndIsFinal
<1>1. ASSUME DeliveryInv, [Next]_vars, NEW a \in Alerts, Ended(a)
      PROVE  OutcomeOf(a)' = OutcomeOf(a) /\ ReachedBy(a)' = ReachedBy(a)
  BY <1>1, StepKeepsPromise, BroadcastStep DEF Ended
<1>2. DeliveryInv /\ [Next]_vars =>
        [\A a \in Alerts : Ended(a) => OutcomeOf(a)' = OutcomeOf(a) /\ ReachedBy(a)' = ReachedBy(a)]_vars
  BY <1>1
<1>3. QED
  BY <1>2, DeliveryAlways, PTL DEF Spec, EndIsFinal
=============================================================================
