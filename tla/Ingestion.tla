------------------------------ MODULE Ingestion ------------------------------
(***************************************************************************)
(* The ingestion service: an initial poll, a scheduled poll and a one-shot *)
(* backfill copy the USGS feeds into the `events` collection.  The three   *)
(* are tasks of one asyncio loop: a step of this module is what a task     *)
(* does between two awaits, or what MongoDB or USGS does for it.           *)
(*                                                                         *)
(* An event is a model value and its content a revision number (0: none):  *)
(* the number is `properties.updated` where the feature carries that field.*)
(***************************************************************************)
EXTENDS Naturals, FiniteSets

CONSTANTS
  Events,          \* USGS event ids
  MaxRev,          \* bound: revisions USGS publishes of one event
  Unstamped,       \* events whose feature has no `properties.updated`
  Malformed,       \* <<event, revision>> pairs the feature model rejects
  BackfillOnBoot,  \* settings.usgs_backfill_on_boot
  FirstRunTime,    \* add_job's next_run_time: "None" (the code) or "interval"
  MaxBoots,        \* bound: starts of the process
  MaxFaults,       \* bound: failures of USGS and of MongoDB
  NoEtag           \* no ETag is cached

ASSUME RevAssumption   == MaxRev \in Nat \ {0}
ASSUME FeedAssumption  == /\ Unstamped \subseteq Events
                          /\ Malformed \subseteq Events \X (1..MaxRev)
ASSUME BootAssumption  == /\ BackfillOnBoot \in BOOLEAN
                          /\ FirstRunTime \in {"None", "interval"}
ASSUME BoundAssumption == MaxBoots \in Nat /\ MaxFaults \in Nat

Polls == {"initial", "scheduled"}
Tasks == Polls \cup {"backfill"}
Feeds == {"hour", "month"}
FeedOf(t) == IF t = "backfill" THEN "month" ELSE "hour"

\* What a feed serves: the revision of each event in it, 0 for the others.
Contents == [Events -> 0..MaxRev]
Nothing  == [e \in Events |-> 0]
ASSUME EtagAssumption == NoEtag \notin Contents

RecordPCs == {"record_ok", "record_error"}
PCs == {"idle", "check", "mark_running", "request", "sent", "answered",
        "read", "write", "quarantine", "mark_complete", "mark_failed"}
       \cup RecordPCs

VARIABLES
  usgs,        \* USGS: the current revision of every event
  hour,        \* USGS: the events of the last hour
  docs,        \* MongoDB `events`: the stored revision of every event
  quarantined, \* MongoDB `events_quarantine`: events with a row
  meta,        \* MongoDB `meta`: status of the backfill document
  lastRow,     \* MongoDB `system_health`: latest row of each feed
  up,          \* the process runs
  boots,       \* starts so far
  faults,      \* failures so far
  etag,        \* USGSClient._etag
  pc,          \* where each task is
  hdr,         \* the If-None-Match header of a task's request
  body,        \* the features of a task's response
  seen,        \* `existing`: the stored revisions a task has read
  todo         \* the bulk write operations of a task not yet applied

feedVars == <<usgs, hour>>
dbVars   == <<docs, quarantined, meta, lastRow>>
procVars == <<up, boots>>
taskVars == <<hdr, body, seen, todo>>
vars == <<feedVars, dbVars, procVars, faults, etag, pc, taskVars>>

\* The content USGS serves in a feed: all_month, or the last hour of it.
Content(f) == [e \in Events |-> IF f = "month" \/ e \in hour THEN usgs[e] ELSE 0]

\* _parse_features: features the model accepts, and those it isolates.
Valid(c) == {e \in Events : c[e] > 0 /\ <<e, c[e]>> \notin Malformed}
Bad(c)   == {e \in Events : c[e] > 0 /\ <<e, c[e]>> \in Malformed}

\* Mutant of NeedsWrite: every event counts as updated.
NeedsWriteAlways(e, incoming, existing) == TRUE

\* upsert_features' classification: new, updated, or (no operation) unchanged.
NeedsWrite(e, incoming, existing) ==
  \/ existing = 0
  \/ e \in Unstamped
  \/ incoming > existing

Init ==
  /\ usgs \in [Events -> 0..1] /\ hour = {e \in Events : usgs[e] > 0}
  /\ docs = Nothing /\ quarantined = {} /\ meta = "none"
  /\ lastRow = [f \in Feeds |-> "none"]
  /\ up = FALSE /\ boots = 0 /\ faults = 0
  /\ etag = [f \in Feeds |-> NoEtag]
  /\ pc = [t \in Tasks |-> "idle"]
  /\ hdr = [t \in Tasks |-> NoEtag]
  /\ body = [t \in Tasks |-> Nothing]
  /\ seen = [t \in Tasks |-> Nothing]
  /\ todo = [t \in Tasks |-> {}]

-----------------------------------------------------------------------------
(* USGS *)

\* USGS publishes an event, or a revision of it.
Publish(e) ==
  /\ usgs[e] < MaxRev
  /\ usgs' = [usgs EXCEPT ![e] = @ + 1]
  /\ hour' = IF usgs[e] = 0 THEN hour \cup {e} ELSE hour
  /\ UNCHANGED <<dbVars, procVars, faults, etag, pc, taskVars>>

\* An event leaves the hour feed; it stays in the month feed.
AgeOut(e) ==
  /\ e \in hour
  /\ hour' = hour \ {e}
  /\ UNCHANGED <<usgs, dbVars, procVars, faults, etag, pc, taskVars>>

-----------------------------------------------------------------------------
(* The process *)

\* lifespan: spawn the backfill and the initial poll with an empty ETag cache.
Boot ==
  /\ ~up /\ boots < MaxBoots
  /\ up' = TRUE /\ boots' = boots + 1
  /\ pc' = [t \in Tasks |-> CASE t = "initial" -> "request"
                              [] t = "scheduled" -> "idle"
                              [] t = "backfill" ->
                                   IF BackfillOnBoot THEN "check" ELSE "idle"]
  /\ UNCHANGED <<feedVars, dbVars, faults, etag, taskVars>>

\* Mutant of Crash: the ETags outlive the process.
CrashKeepsEtags ==
  /\ up /\ boots < MaxBoots
  /\ up' = FALSE
  /\ pc' = [t \in Tasks |-> "idle"]
  /\ hdr' = [t \in Tasks |-> NoEtag]
  /\ body' = [t \in Tasks |-> Nothing]
  /\ seen' = [t \in Tasks |-> Nothing]
  /\ todo' = [t \in Tasks |-> {}]
  /\ UNCHANGED <<feedVars, dbVars, boots, faults, etag>>

\* The process dies, or shuts down and cancels its tasks where they wait.
\* Only a crash that another start can follow is of interest.
Crash ==
  /\ up /\ boots < MaxBoots
  /\ up' = FALSE
  /\ etag' = [f \in Feeds |-> NoEtag]
  /\ pc' = [t \in Tasks |-> "idle"]
  /\ hdr' = [t \in Tasks |-> NoEtag]
  /\ body' = [t \in Tasks |-> Nothing]
  /\ seen' = [t \in Tasks |-> Nothing]
  /\ todo' = [t \in Tasks |-> {}]
  /\ UNCHANGED <<feedVars, dbVars, boots, faults>>

\* The interval job.  max_instances=1: not while its last run still runs.  A job
\* added with next_run_time=None is paused: the scheduler never finds it due.
Tick ==
  /\ up /\ FirstRunTime = "interval" /\ pc["scheduled"] = "idle"
  /\ pc' = [pc EXCEPT !["scheduled"] = "request"]
  /\ UNCHANGED <<feedVars, dbVars, procVars, faults, etag, taskVars>>

-----------------------------------------------------------------------------
(* Steps of a task *)

Goto(t, l) == pc' = [pc EXCEPT ![t] = l]

\* A task ends and drops its locals.
End(t) ==
  /\ Goto(t, "idle")
  /\ hdr' = [hdr EXCEPT ![t] = NoEtag]
  /\ body' = [body EXCEPT ![t] = Nothing]
  /\ seen' = [seen EXCEPT ![t] = Nothing]
  /\ todo' = [todo EXCEPT ![t] = {}]

Fault == faults < MaxFaults /\ faults' = faults + 1

\* Mutants of CheckComplete: it does not look, or it takes "running" for a lock.
CheckNothing(t) ==
  /\ pc[t] = "check"
  /\ Goto(t, "mark_running")
  /\ UNCHANGED <<feedVars, dbVars, procVars, faults, etag, taskVars>>

CheckRunning(t) ==
  /\ pc[t] = "check"
  /\ Goto(t, IF meta \in {"running", "complete"} THEN "idle" ELSE "mark_running")
  /\ UNCHANGED <<feedVars, dbVars, procVars, faults, etag, taskVars>>

\* run_backfill: is the meta document already "complete"?
CheckComplete(t) ==
  /\ pc[t] = "check"
  /\ Goto(t, IF meta = "complete" THEN "idle" ELSE "mark_running")
  /\ UNCHANGED <<feedVars, dbVars, procVars, faults, etag, taskVars>>

MarkRunning(t) ==
  /\ pc[t] = "mark_running"
  /\ meta' = "running"
  /\ Goto(t, "request")
  /\ UNCHANGED <<feedVars, docs, quarantined, lastRow, procVars, faults, etag, taskVars>>

\* _fetch up to its await: the conditional request goes out.
Request(t) ==
  /\ pc[t] = "request"
  /\ hdr' = [hdr EXCEPT ![t] = etag[FeedOf(t)]]
  /\ Goto(t, "sent")
  /\ UNCHANGED <<feedVars, dbVars, procVars, faults, etag, body, seen, todo>>

\* USGS answers 304, a healthy poll with nothing to do, or 200 with what the feed holds.
Answer(t) ==
  /\ pc[t] = "sent"
  /\ LET c == Content(FeedOf(t)) IN
       IF hdr[t] = c
         THEN /\ Goto(t, IF t \in Polls THEN "record_ok" ELSE "quarantine")
              /\ UNCHANGED body
         ELSE /\ Goto(t, "answered")
              /\ body' = [body EXCEPT ![t] = c]
  /\ UNCHANGED <<feedVars, dbVars, procVars, faults, etag, hdr, seen, todo>>

\* A cache in front of USGS answers 200 with an older copy of the feed.
StaleAnswer(t) ==
  /\ Fault
  /\ pc[t] = "sent"
  /\ LET c == Content(FeedOf(t)) IN
       \E e \in Events : c[e] > 0 /\ body' = [body EXCEPT ![t] = [c EXCEPT ![e] = @ - 1]]
  /\ Goto(t, "answered")
  /\ UNCHANGED <<feedVars, dbVars, procVars, etag, hdr, seen, todo>>

\* _fetch after its await: the ETag is cached, then the body parsed.
Receive(t) ==
  /\ pc[t] = "answered"
  /\ etag' = [etag EXCEPT ![FeedOf(t)] = body[t]]
  /\ Goto(t, IF Valid(body[t]) = {} THEN "quarantine" ELSE "read")
  /\ UNCHANGED <<feedVars, dbVars, procVars, faults, taskVars>>

\* A 200 whose body is not JSON: UpstreamError, with the ETag already cached.
ReceiveGarbage(t) ==
  /\ Fault
  /\ pc[t] = "answered"
  /\ etag' = [etag EXCEPT ![FeedOf(t)] = body[t]]
  /\ Goto(t, IF t \in Polls THEN "record_error" ELSE "mark_failed")
  /\ UNCHANGED <<feedVars, dbVars, procVars, taskVars>>

\* USGS answers 4xx or 5xx: UpstreamError.
Rejected(t) ==
  /\ Fault
  /\ pc[t] = "sent"
  /\ Goto(t, IF t \in Polls THEN "record_error" ELSE "mark_failed")
  /\ UNCHANGED <<feedVars, dbVars, procVars, etag, taskVars>>

\* USGS stays unreachable through the retries.  upstream_retry re-raises httpx's
\* own exception: a poll records it, the backfill's `except UpstreamError` does
\* not match and the task ends.
Unreachable(t) ==
  /\ Fault
  /\ pc[t] = "sent"
  /\ IF t \in Polls THEN Goto(t, "record_error") /\ UNCHANGED taskVars ELSE End(t)
  /\ UNCHANGED <<feedVars, dbVars, procVars, etag>>

\* upsert_features, first round trip: the stored revisions of the fetched events,
\* and the operations for those that are new or updated.
ReadExisting(t) ==
  /\ pc[t] = "read"
  /\ seen' = [seen EXCEPT ![t] = docs]
  /\ LET ops == {e \in Valid(body[t]) : NeedsWrite(e, body[t][e], docs[e])} IN
       /\ todo' = [todo EXCEPT ![t] = ops]
       /\ Goto(t, IF ops = {} THEN "quarantine" ELSE "write")
  /\ UNCHANGED <<feedVars, dbVars, procVars, faults, etag, hdr, body>>

\* bulk_write(ordered=False): one operation of the batch, in any order.  _upsert_op
\* sets the document whatever it holds by now.
WriteOne(t, e) ==
  /\ pc[t] = "write" /\ e \in todo[t]
  /\ docs' = [docs EXCEPT ![e] = body[t][e]]
  /\ todo' = [todo EXCEPT ![t] = @ \ {e}]
  /\ Goto(t, IF todo[t] = {e} THEN "quarantine" ELSE "write")
  /\ UNCHANGED <<feedVars, quarantined, meta, lastRow, procVars, faults, etag, hdr, body, seen>>

\* Mutant of Quarantine: the backfill is complete before its row is written.
QuarantineThenComplete(t) ==
  /\ pc[t] = "quarantine"
  /\ quarantined' = quarantined \cup Bad(body[t])
  /\ Goto(t, IF t = "backfill" THEN "mark_complete" ELSE "record_ok")
  /\ UNCHANGED <<feedVars, docs, meta, lastRow, procVars, faults, etag, taskVars>>

\* quarantine_features: best effort, a failing insert_many is logged and forgotten.
Quarantine(t) ==
  /\ pc[t] = "quarantine"
  /\ quarantined' = quarantined \cup Bad(body[t])
  /\ Goto(t, "record_ok")
  /\ UNCHANGED <<feedVars, docs, meta, lastRow, procVars, faults, etag, taskVars>>

QuarantineLost(t) ==
  /\ Fault
  /\ pc[t] = "quarantine" /\ Bad(body[t]) # {}
  /\ Goto(t, "record_ok")
  /\ UNCHANGED <<feedVars, dbVars, procVars, etag, taskVars>>

\* record_health: append a row.  Never raises; a row may be lost.
RowOf(t) == IF pc[t] = "record_ok" THEN "ok" ELSE "error"

AfterRecord(t) ==
  IF t = "backfill" /\ pc[t] = "record_ok"
    THEN Goto(t, "mark_complete") /\ UNCHANGED taskVars
    ELSE End(t)

Record(t) ==
  /\ pc[t] \in RecordPCs
  /\ lastRow' = [lastRow EXCEPT ![FeedOf(t)] = RowOf(t)]
  /\ AfterRecord(t)
  /\ UNCHANGED <<feedVars, docs, quarantined, meta, procVars, faults, etag>>

RecordLost(t) ==
  /\ Fault
  /\ pc[t] \in RecordPCs
  /\ AfterRecord(t)
  /\ UNCHANGED <<feedVars, dbVars, procVars, etag>>

MarkComplete(t) ==
  /\ pc[t] = "mark_complete"
  /\ meta' = "complete"
  /\ End(t)
  /\ UNCHANGED <<feedVars, docs, quarantined, lastRow, procVars, faults, etag>>

\* Mutant of MarkFailed: a status the meta document does not know.
MarkError(t) ==
  /\ pc[t] = "mark_failed"
  /\ meta' = "error"
  /\ Goto(t, "record_error")
  /\ UNCHANGED <<feedVars, docs, quarantined, lastRow, procVars, faults, etag, taskVars>>

MarkFailed(t) ==
  /\ pc[t] = "mark_failed"
  /\ meta' = "failed"
  /\ Goto(t, "record_error")
  /\ UNCHANGED <<feedVars, docs, quarantined, lastRow, procVars, faults, etag, taskVars>>

\* A MongoDB call raises.  Neither run_poll_cycle nor run_backfill catches it: it
\* ends the task, absorbed by _scheduled_poll or _kickoff_backfill.  A status update
\* may have been applied all the same; of a bulk write, what was applied stays.
StatusOf(t) == CASE pc[t] = "mark_running"  -> {meta, "running"}
                 [] pc[t] = "mark_failed"   -> {meta, "failed"}
                 [] pc[t] = "mark_complete" -> {meta, "complete"}
                 [] OTHER                   -> {meta}

\* Mutant of MongoFails: the failing call is absorbed where it is made, the task goes on.
MongoAbsorbed(t) ==
  /\ Fault
  /\ pc[t] \in {"read", "write"}
  /\ Goto(t, "quarantine")
  /\ UNCHANGED <<feedVars, dbVars, procVars, etag, taskVars>>

MongoFails(t) ==
  /\ Fault
  /\ pc[t] \in {"check", "mark_running", "read", "write", "mark_failed", "mark_complete"}
  /\ meta' \in StatusOf(t)
  /\ End(t)
  /\ UNCHANGED <<feedVars, docs, quarantined, lastRow, procVars, etag>>

TaskStep(t) ==
  \/ CheckComplete(t) \/ MarkRunning(t)
  \/ Request(t) \/ Answer(t) \/ Receive(t) \/ ReadExisting(t)
  \/ \E e \in Events : WriteOne(t, e)
  \/ Quarantine(t) \/ Record(t)
  \/ MarkComplete(t) \/ MarkFailed(t)

TaskFault(t) ==
  \/ StaleAnswer(t) \/ ReceiveGarbage(t) \/ Rejected(t) \/ Unreachable(t)
  \/ QuarantineLost(t) \/ RecordLost(t) \/ MongoFails(t)

Next ==
  \/ \E e \in Events : Publish(e) \/ AgeOut(e)
  \/ Boot \/ Crash \/ Tick
  \/ \E t \in Tasks : TaskStep(t) \/ TaskFault(t)

\* The loop runs every task that can run and the platform restarts the process.
\* USGS, failures and the interval job owe nothing.
Fairness == WF_vars(Boot) /\ \A t \in Tasks : WF_vars(TaskStep(t))

Spec == Init /\ [][Next]_vars
BootSpec == Spec /\ Fairness

\* ... and the scheduler fires a job that is due.
FairSpec == BootSpec /\ WF_vars(Tick)

-----------------------------------------------------------------------------
(* Properties *)

\* Every variable has its type; a task's pc and locals agree.
TypeOK ==
  /\ usgs \in Contents /\ hour \subseteq Events
  /\ docs \in Contents /\ quarantined \subseteq Events
  /\ meta \in {"none", "running", "failed", "complete"}
  /\ lastRow \in [Feeds -> {"none", "ok", "error"}]
  /\ up \in BOOLEAN /\ boots \in 0..MaxBoots /\ faults \in 0..MaxFaults
  /\ etag \in [Feeds -> Contents \cup {NoEtag}]
  /\ pc \in [Tasks -> PCs]
  /\ hdr \in [Tasks -> Contents \cup {NoEtag}]
  /\ body \in [Tasks -> Contents] /\ seen \in [Tasks -> Contents]
  /\ todo \in [Tasks -> SUBSET Events]

Stored == {e \in Events : docs[e] > 0}
Upserted == {"quarantine", "record_ok", "mark_complete"}

\* No ok row and no "complete" hides a lost upsert: when a task gets past
\* upsert_features, every valid feature of its response is in `events`, however
\* the writes of the three tasks interleaved.
StoredBeforeReported ==
  \A t \in Tasks : pc[t] \in Upserted => Valid(body[t]) \subseteq Stored

\* ... and is there at the response's revision or a newer one.  Not so while poll and
\* backfill overlap; the proofs show it of a service that runs one of them.
FreshWhenReported ==
  \A t \in Tasks : pc[t] \in Upserted =>
    \A e \in Valid(body[t]) : docs[e] >= body[t][e]

\* upsert_features moves a stored `updated` back only if another task wrote the
\* event between this task's read and its write.
RegressionNeedsOverlap ==
  [][\A e \in Events \ Unstamped : docs'[e] < docs[e] =>
       \E t \in Tasks : /\ pc[t] = "write" /\ e \in todo[t]
                        /\ seen[t][e] < docs[e]]_vars

\* A stored `properties.updated` only moves forward (repo.py:54-55, "no event gets
\* corrupted" backfill.py:42).  Again only with one writer.
UpdatedMovesForward ==
  [][\A e \in Events \ Unstamped : docs'[e] >= docs[e]]_vars

\* A completed backfill stays complete across restarts and is never run again.
BackfillRunsOnce ==
  [][meta = "complete" => meta' = "complete" /\ pc'["backfill"] # "request"]_vars

\* The ok row of the backfill precedes its "complete": the dashboard never shows
\* a completed backfill without the row of its load, unless a write failed.
RowBeforeComplete ==
  faults = 0 /\ meta = "complete" => lastRow["month"] = "ok"

\* Until something fails, an ETag the client sends vouches for data: every valid
\* feature it stands for is stored, or held by a poll that is about to store it.
EtagIsBacked ==
  faults = 0 /\ etag["hour"] # NoEtag =>
    \A e \in Valid(etag["hour"]) :
      \/ e \in Stored
      \/ \E t \in Polls : pc[t] \in {"read", "write"} /\ e \in Valid(body[t])

\* An event that stays in the hour feed is eventually stored, or quarantined if
\* malformed (README.md:46, infra/README.md:90: a poll every 60 s).  Not so of the
\* code, whose interval job is paused.
EventuallyAccountedFor ==
  \A e \in Events :
    (e \in hour) ~> (e \notin hour \/ e \in Stored \/ e \in quarantined)

\* What USGS has published when the process starts, its backfill not complete, ends up
\* stored, or quarantined if malformed, without any run of the interval job: however
\* often the process dies on the way, with the backfill marked running or not, the
\* last start asks for the whole month again (backfill.py:45-51, usgs.py:80-88).
PublishedIsLoaded ==
  \A e \in Events :
    (usgs[e] > 0 /\ ~up /\ meta # "complete") ~> (e \in Stored \/ e \in quarantined)

\* When nothing fails, crashes only delay the backfill: it ends up complete.
BackfillCompletes == <>[](meta = "complete")
=============================================================================
