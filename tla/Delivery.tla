------------------------------ MODULE Delivery ------------------------------
(***************************************************************************)
(* The worker: arq runs the send_alert jobs the alerts service enqueued,   *)
(* each of which sends the alert to the chats subscribed when it started   *)
(* and then writes the outcome to `alerts_log.delivery_status`.  Meanwhile *)
(* the Telegram webhook of the alerts service adds and stops subscribers.  *)
(*                                                                         *)
(* arq runs a job again only if the worker died or was cancelled under it: *)
(* an exception or a timeout ends the job for good.                        *)
(***************************************************************************)
EXTENDS Naturals, FiniteSets

CONSTANTS
  Alerts,      \* dedup keys of alerts_log, each with one job
  Chats,       \* Telegram chats
  MaxJobs,     \* WorkerSettings.max_jobs
  MaxTries,    \* WorkerSettings.max_tries
  Failing,     \* what fails: a subset of FaultKinds
  MaxFaults,   \* bound: failures
  MaxCrashes,  \* bound: crashes of the worker
  MaxCommands  \* bound: /start and /stop commands

FaultKinds == {"telegram", "mongo", "timeout"}

ASSUME WorkerAssumption == MaxJobs \in Nat \ {0} /\ MaxTries \in Nat \ {0}
ASSUME BoundAssumption == /\ MaxFaults \in Nat /\ MaxCrashes \in Nat
                          /\ MaxCommands \in Nat /\ Failing \subseteq FaultKinds

VARIABLES
  status,   \* alerts_log.delivery_status ("none": no row)
  queue,    \* Redis: jobs that are queued or running
  failedJobs, \* Redis: jobs whose result is a failure
  tries,    \* Redis: job_try, how often arq has started the job
  pc,       \* where a running job is
  todo,     \* the subscribers a running job has still to send to
  sent,     \* a running job's count of accepted messages
  active,   \* telegram_subscribers: chats whose stopped_at is None
  stopping, \* chats whose /stop is stored but not acknowledged yet
  told,     \* chats told they won't receive further alerts, not restarted since
  inbox,    \* Telegram: copies of each alert each chat has received
  missed,   \* history, per alert: chats _send_one has reported as failed
  faults, crashes, commands \* how many so far

redisVars == <<queue, failedJobs, tries>>
jobVars   == <<pc, todo, sent>>
chatVars  == <<active, stopping, told, commands>>
inboxVars == <<inbox, missed>>
vars == <<status, redisVars, jobVars, chatVars, inboxVars, faults, crashes>>

Init ==
  /\ status = [a \in Alerts |-> "none"]
  /\ queue = {} /\ failedJobs = {} /\ tries = [a \in Alerts |-> 0]
  /\ pc = [a \in Alerts |-> "idle"]
  /\ todo = [a \in Alerts |-> {}] /\ sent = [a \in Alerts |-> 0]
  /\ active \in SUBSET Chats /\ stopping = {} /\ told = {}
  /\ inbox = [a \in Alerts |-> [c \in Chats |-> 0]]
  /\ missed = [a \in Alerts |-> {}]
  /\ faults = 0 /\ crashes = 0 /\ commands = 0

Running == {a \in Alerts : pc[a] # "idle"}

Fault(kind) ==
  /\ kind \in Failing /\ faults < MaxFaults
  /\ faults' = faults + 1

-----------------------------------------------------------------------------
(* The alerts service *)

\* dispatch, when both its writes succeed: the row of alerts_log, then the job.  (What
\* may come between them is in AlertPipeline.)
Dispatched(a) ==
  /\ status[a] = "none"
  /\ status' = [status EXCEPT ![a] = "queued"]
  /\ queue' = queue \cup {a}
  /\ UNCHANGED <<failedJobs, tries, jobVars, chatVars, inboxVars, faults, crashes>>

Command == commands < MaxCommands /\ commands' = commands + 1

\* /start (and /help): register clears stopped_at.
Register(c) ==
  /\ Command
  /\ active' = active \cup {c}
  /\ told' = told \ {c}
  /\ UNCHANGED <<status, redisVars, jobVars, stopping, inboxVars, faults, crashes>>

\* /stop: mark_stopped, then the acknowledgement.
MarkStopped(c) ==
  /\ Command
  /\ active' = active \ {c}
  /\ stopping' = stopping \cup {c}
  /\ UNCHANGED <<status, redisVars, jobVars, told, inboxVars, faults, crashes>>

AckStop(c) ==
  /\ c \in stopping
  /\ stopping' = stopping \ {c}
  /\ told' = IF c \in active THEN told ELSE told \cup {c}
  /\ UNCHANGED <<status, redisVars, jobVars, active, commands, inboxVars, faults, crashes>>

-----------------------------------------------------------------------------
(* arq *)

\* A slot is free and the job has tries left.
StartJob(a) ==
  /\ a \in queue /\ pc[a] = "idle"
  /\ Cardinality(Running) < MaxJobs
  /\ tries[a] < MaxTries
  /\ tries' = [tries EXCEPT ![a] = @ + 1]
  /\ pc' = [pc EXCEPT ![a] = "read"]
  /\ UNCHANGED <<status, queue, failedJobs, todo, sent, chatVars, inboxVars, faults, crashes>>

\* The job ends, well or not: arq deletes it.
Finish(a) ==
  /\ queue' = queue \ {a}
  /\ pc' = [pc EXCEPT ![a] = "idle"]
  /\ todo' = [todo EXCEPT ![a] = {}]
  /\ sent' = [sent EXCEPT ![a] = 0]

\* job_try would exceed max_tries: arq drops the job without running it.
Exhausted(a) ==
  /\ a \in queue /\ pc[a] = "idle"
  /\ tries[a] = MaxTries
  /\ Finish(a)
  /\ failedJobs' = failedJobs \cup {a}
  /\ UNCHANGED <<status, tries, chatVars, inboxVars, faults, crashes>>

\* Mutant of Crash: a job leaves the queue when it starts.
CrashForgets ==
  /\ crashes < MaxCrashes
  /\ Running # {}
  /\ crashes' = crashes + 1
  /\ queue' = queue \ Running
  /\ pc' = [a \in Alerts |-> "idle"]
  /\ todo' = [a \in Alerts |-> {}]
  /\ sent' = [a \in Alerts |-> 0]
  /\ UNCHANGED <<status, failedJobs, tries, chatVars, inboxVars, faults>>

\* The worker dies, or a deploy cancels its jobs: they stay queued.
Crash ==
  /\ crashes < MaxCrashes
  /\ Running # {}
  /\ crashes' = crashes + 1
  /\ pc' = [a \in Alerts |-> "idle"]
  /\ todo' = [a \in Alerts |-> {}]
  /\ sent' = [a \in Alerts |-> 0]
  /\ UNCHANGED <<status, redisVars, chatVars, inboxVars, faults>>

-----------------------------------------------------------------------------
(* send_alert *)

\* _active_subscribers.
ReadSubscribers(a) ==
  /\ pc[a] = "read"
  /\ todo' = [todo EXCEPT ![a] = active]
  /\ pc' = [pc EXCEPT ![a] = IF active = {} THEN "skip" ELSE "send"]
  /\ UNCHANGED <<status, redisVars, sent, chatVars, inboxVars, faults, crashes>>

\* Mutant of Sent: the loop ends with the first subscriber.
SentOnce(a, c) ==
  /\ todo' = [todo EXCEPT ![a] = @ \ {c}]
  /\ pc' = [pc EXCEPT ![a] = "status"]
  /\ UNCHANGED <<status, redisVars, chatVars, crashes>>

\* _send_one to the next subscriber: what it returns is counted, nothing is retried.
Sent(a, c) ==
  /\ todo' = [todo EXCEPT ![a] = @ \ {c}]
  /\ pc' = [pc EXCEPT ![a] = IF todo[a] = {c} THEN "status" ELSE "send"]
  /\ UNCHANGED <<status, redisVars, chatVars, crashes>>

Deliver(c, box) == [box EXCEPT ![c] = @ + 1]

SendOk(a, c) ==
  /\ pc[a] = "send" /\ c \in todo[a]
  /\ inbox' = [inbox EXCEPT ![a] = Deliver(c, @)]
  /\ sent' = [sent EXCEPT ![a] = @ + 1]
  /\ Sent(a, c)
  /\ UNCHANGED <<missed, faults>>

\* Mutant of SendFails: a failed request is made again.
SendFailsRetries(a, c) ==
  /\ pc[a] = "send" /\ c \in todo[a]
  /\ Fault("telegram")
  /\ inbox' \in {inbox, [inbox EXCEPT ![a] = Deliver(c, @)]}
  /\ UNCHANGED <<status, redisVars, jobVars, chatVars, missed, crashes>>

\* 429, 5xx, not ok, or a network error; after a read timeout Telegram may have
\* delivered the message all the same.
SendFails(a, c) ==
  /\ pc[a] = "send" /\ c \in todo[a]
  /\ Fault("telegram")
  /\ inbox' \in {inbox, [inbox EXCEPT ![a] = Deliver(c, @)]}
  /\ missed' = [missed EXCEPT ![a] = @ \cup {c}]
  /\ Sent(a, c)
  /\ UNCHANGED sent

\* Mutants of Outcome: a status alerts_log does not know, and none when nobody is
\* subscribed.
OutcomeSkipped(a) == CASE pc[a] = "skip" -> "skipped"
                       [] sent[a] > 0    -> "sent"
                       [] OTHER          -> "failed"
OutcomeSilent(a) == CASE pc[a] = "skip" -> status[a]
                      [] sent[a] > 0    -> "sent"
                      [] OTHER          -> "failed"

\* _update_alert_status, the job's last await.
Outcome(a) == CASE pc[a] = "skip" -> "skipped_dedup"
                [] sent[a] > 0    -> "sent"
                [] OTHER          -> "failed"

UpdateStatus(a) ==
  /\ pc[a] \in {"skip", "status"}
  /\ status' = [status EXCEPT ![a] = Outcome(a)]
  /\ Finish(a)
  /\ UNCHANGED <<failedJobs, tries, chatVars, inboxVars, faults, crashes>>

\* MongoDB raises under the job, or job_timeout cuts it: arq records a failure.
JobFails(a) ==
  /\ \/ pc[a] \in {"read", "skip", "status"} /\ Fault("mongo")
     \/ pc[a] # "idle" /\ Fault("timeout")
  /\ Finish(a)
  /\ failedJobs' = failedJobs \cup {a}
  /\ UNCHANGED <<status, tries, chatVars, inboxVars, crashes>>

JobStep(a) ==
  \/ StartJob(a) \/ Exhausted(a)
  \/ ReadSubscribers(a)
  \/ \E c \in Chats : SendOk(a, c) \/ SendFails(a, c)
  \/ UpdateStatus(a) \/ JobFails(a)

Next ==
  \/ \E a \in Alerts : Dispatched(a) \/ JobStep(a)
  \/ \E c \in Chats : Register(c) \/ MarkStopped(c) \/ AckStop(c)
  \/ Crash

Spec == Init /\ [][Next]_vars

\* The worker is restarted and its loop runs every job.
FairSpec == Spec /\ \A a \in Alerts : WF_vars(JobStep(a))

-----------------------------------------------------------------------------
(* Properties *)

\* Every variable has its type.
TypeOK ==
  /\ status \in [Alerts -> {"none", "queued", "sent", "failed", "skipped_dedup"}]
  /\ queue \subseteq Alerts /\ failedJobs \subseteq Alerts /\ tries \in [Alerts -> 0..MaxTries]
  /\ pc \in [Alerts -> {"idle", "read", "skip", "send", "status"}]
  /\ todo \in [Alerts -> SUBSET Chats] /\ sent \in [Alerts -> Nat]
  /\ active \subseteq Chats /\ stopping \subseteq Chats /\ told \subseteq Chats
  /\ inbox \in [Alerts -> [Chats -> Nat]] /\ missed \in [Alerts -> SUBSET Chats]
  /\ faults \in 0..MaxFaults /\ crashes \in 0..MaxCrashes /\ commands \in 0..MaxCommands

\* A chat gets at most one copy of an alert per run of its job, and only a crash
\* makes arq run a job again: whoever starts, stops or fails meanwhile.
CopiesBounded ==
  \A a \in Alerts : /\ \A c \in Chats : inbox[a][c] <= tries[a]
                    /\ tries[a] <= crashes + 1

\* What alerts_log and Redis say of an alert together: one that is neither settled nor
\* queued nor failed in arq is lost, which no alert of Broadcast is.
OutcomeOf(a) ==
  IF status[a] # "queued" THEN status[a]
  ELSE IF a \in failedJobs THEN "given_up"
  ELSE IF a \in queue THEN "owed"
  ELSE "lost"

ReachedBy(a) == {c \in Chats : inbox[a][c] > 0}

\* The worker implements Broadcast: across crashes, failures and commands an alert is
\* owed until it is settled or arq gives its job up, nobody gets it afterwards, and it is
\* "sent" only if somebody has received it, in this run of the job or an earlier one.
Promise == INSTANCE Broadcast WITH
  outcome <- [a \in Alerts |-> OutcomeOf(a)],
  reached <- [a \in Alerts |-> ReachedBy(a)]
BroadcastKept == Promise!Spec

\* Every alert gets its final status, unless its job failed.
AlertsAreSettled ==
  \A a \in Alerts : (status[a] = "queued")
    ~> (status[a] \notin {"none", "queued"} \/ a \in failedJobs)

Waits(a, c) == a \in queue /\ pc[a] = "idle" /\ c \in active

\* A chat that is subscribed while the job of an alert waits gets the alert, across
\* crashes of the worker, unless it leaves, the send to it fails or the job does.
SubscribersAreReached ==
  \A a \in Alerts, c \in Chats :
    Waits(a, c) ~> (inbox[a][c] > 0 \/ c \notin active \/ c \in missed[a] \/ a \in failedJobs)

\* As the docs have it a failed send is made again: "arq retries with backoff"
\* (ARCHITECTURE.md:130), up to max_tries.
FailedSendsAreRetried ==
  \A a \in Alerts, c \in Chats :
    Waits(a, c) ~> (inbox[a][c] > 0 \/ c \notin active \/ a \in failedJobs)
=============================================================================
