-------------------------- MODULE Ingestion_proofs --------------------------
(***************************************************************************)
(* Theorems about Ingestion, for every set of events, every number of      *)
(* revisions, boots and failures, and every setting.                       *)
(***************************************************************************)
EXTENDS Ingestion, TLAPS

USE RevAssumption, FeedAssumption, BootAssumption, BoundAssumption, EtagAssumption

LEMMA ContentType ==
  ASSUME usgs \in Contents, NEW f
  PROVE  Content(f) \in Contents
BY DEF Content, Contents

LEMMA NothingType == Nothing \in Contents
BY DEF Nothing, Contents

-----------------------------------------------------------------------------
\* Type correctness: whatever the tasks, the failures and the restarts, every
\* variable keeps its type (the module's TypeOK).
LEMMA TypeInit == Init => TypeOK
<1> SUFFICES ASSUME Init PROVE TypeOK
  OBVIOUS
<1>1. usgs \in Contents
  BY DEF Init, Contents
<1>2. /\ docs \in Contents /\ body \in [Tasks -> Contents]
      /\ seen \in [Tasks -> Contents]
  BY NothingType DEF Init
<1>3. /\ etag \in [Feeds -> Contents \cup {NoEtag}]
      /\ hdr \in [Tasks -> Contents \cup {NoEtag}]
      /\ pc \in [Tasks -> PCs] /\ todo \in [Tasks -> SUBSET Events]
      /\ lastRow \in [Feeds -> {"none", "ok", "error"}]
  BY DEF Init, PCs
<1>4. /\ boots \in 0..MaxBoots /\ faults \in 0..MaxFaults
      /\ meta \in {"none", "running", "failed", "complete"}
  BY BoundAssumption DEF Init
<1>5. hour \subseteq Events /\ quarantined \subseteq Events
  BY DEF Init
<1>6. up \in BOOLEAN
  BY DEF Init
<1>7. QED
  BY <1>1, <1>2, <1>3, <1>4, <1>5, <1>6 DEF TypeOK

LEMMA TypeNext == TypeOK /\ [Next]_vars => TypeOK'
<1> SUFFICES ASSUME TypeOK, [Next]_vars PROVE TypeOK'
  OBVIOUS
<1> USE DEF TypeOK
<1>1. ASSUME NEW e \in Events, Publish(e) PROVE TypeOK'
  <2>1. usgs' \in Contents
    BY <1>1 DEF Publish, Contents
  <2>2. QED
    BY <1>1, <2>1 DEF Publish, dbVars, procVars, taskVars
<1>2. ASSUME NEW e \in Events, AgeOut(e) PROVE TypeOK'
  BY <1>2 DEF AgeOut, dbVars, procVars, taskVars
<1>3. CASE Boot
  <2>1. pc' \in [Tasks -> PCs]
    BY <1>3 DEF Boot, PCs, Tasks, Polls
  <2>2. boots' \in 0..MaxBoots
    BY <1>3 DEF Boot
  <2>3. up' \in BOOLEAN
    BY <1>3 DEF Boot
  <2>4. QED
    BY <1>3, <2>1, <2>2, <2>3 DEF Boot, feedVars, dbVars, taskVars
<1>4. CASE Crash
  BY <1>4, NothingType DEF Crash, feedVars, dbVars, PCs
<1>5. CASE Tick
  BY <1>5 DEF Tick, feedVars, dbVars, procVars, taskVars, PCs, Tasks, Polls
<1>6. ASSUME NEW t \in Tasks, TaskStep(t) PROVE TypeOK'
  <2> USE DEF Goto, feedVars, dbVars, procVars, taskVars, PCs, RecordPCs
  <2>1. CASE CheckComplete(t)
    BY <2>1 DEF CheckComplete
  <2>2. CASE MarkRunning(t)
    BY <2>2 DEF MarkRunning
  <2>3. CASE Request(t)
    BY <2>3 DEF Request, FeedOf, Feeds
  <2>4. CASE Answer(t)
    BY <2>4, ContentType DEF Answer
  <2>5. CASE Receive(t)
    BY <2>5 DEF Receive, FeedOf, Feeds
  <2>6. CASE ReadExisting(t)
    BY <2>6 DEF ReadExisting, Valid
  <2>7. ASSUME NEW e \in Events, WriteOne(t, e) PROVE TypeOK'
    <3>1. docs' \in Contents
      BY <2>7 DEF WriteOne, Contents
    <3>2. QED
      BY <2>7, <3>1 DEF WriteOne
  <2>8. CASE Quarantine(t)
    BY <2>8 DEF Quarantine, Bad
  <2>9. CASE Record(t)
    BY <2>9, NothingType DEF Record, AfterRecord, End, RowOf, FeedOf, Feeds
  <2>10. CASE MarkComplete(t)
    BY <2>10, NothingType DEF MarkComplete, End
  <2>11. CASE MarkFailed(t)
    BY <2>11 DEF MarkFailed
  <2>12. QED
    BY <1>6, <2>1, <2>2, <2>3, <2>4, <2>5, <2>6, <2>7, <2>8, <2>9, <2>10, <2>11
       DEF TaskStep
<1>7. ASSUME NEW t \in Tasks, TaskFault(t) PROVE TypeOK'
  <2> USE DEF Goto, Fault, feedVars, dbVars, procVars, taskVars, PCs, RecordPCs
  <2>1. CASE ReceiveGarbage(t)
    BY <2>1 DEF ReceiveGarbage, FeedOf, Feeds
  <2>2. CASE Rejected(t)
    BY <2>2 DEF Rejected
  <2>3. CASE Unreachable(t)
    BY <2>3, NothingType DEF Unreachable, End
  <2>4. CASE QuarantineLost(t)
    BY <2>4 DEF QuarantineLost
  <2>5. CASE RecordLost(t)
    BY <2>5, NothingType DEF RecordLost, AfterRecord, End
  <2>6. CASE MongoFails(t)
    <3>1. meta' \in {"none", "running", "failed", "complete"}
      BY <2>6 DEF MongoFails, StatusOf
    <3>2. QED
      BY <2>6, <3>1, NothingType DEF MongoFails, End
  <2>7. CASE StaleAnswer(t)
    <3> DEFINE c == Content(FeedOf(t))
    <3>1. PICK e \in Events : c[e] > 0 /\ body' = [body EXCEPT ![t] = [c EXCEPT ![e] = @ - 1]]
      BY <2>7 DEF StaleAnswer
    <3>2. c \in [Events -> 0..MaxRev]
      BY ContentType DEF Contents
    <3>3. [c EXCEPT ![e] = c[e] - 1] \in Contents
      BY <3>1, <3>2 DEF Contents
    <3>4. body' \in [Tasks -> Contents]
      BY <3>1, <3>3
    <3>5. QED
      BY <2>7, <3>4 DEF StaleAnswer
  <2>8. QED
    BY <1>7, <2>1, <2>2, <2>3, <2>4, <2>5, <2>6, <2>7 DEF TaskFault
<1>8. CASE UNCHANGED vars
  BY <1>8 DEF vars, feedVars, dbVars, procVars, taskVars
<1>9. QED
  BY <1>1, <1>2, <1>3, <1>4, <1>5, <1>6, <1>7, <1>8 DEF Next

\* Every reachable state is well-typed.
THEOREM TypeCorrect == Spec => []TypeOK
BY TypeInit, TypeNext, PTL DEF Spec

-----------------------------------------------------------------------------
(* What a task's locals say of the collection: the inductive invariant. *)

\* The process being down, no task is anywhere.
DownInv == ~up => \A t \in Tasks : pc[t] = "idle"

\* A task has no features before its response arrives.
NoBody == {"idle", "check", "mark_running", "request", "sent"}
BodyInv == \A t \in Tasks : pc[t] \in NoBody => body[t] = Nothing

\* While a bulk write runs, its operations are those the classification chose from the
\* revisions the task read; the features it has no operation left for are stored.
WriteInv ==
  \A t \in Tasks : pc[t] = "write" =>
    /\ todo[t] \subseteq Valid(body[t])
    /\ \A e \in todo[t] : NeedsWrite(e, body[t][e], seen[t][e])
    /\ Valid(body[t]) \ todo[t] \subseteq Stored

UpsertInv == TypeOK /\ DownInv /\ BodyInv /\ WriteInv /\ StoredBeforeReported

LEMMA ValidNothing == Valid(Nothing) = {}
BY DEF Valid, Nothing

LEMMA UpsertInit == Init => UpsertInv
<1> SUFFICES ASSUME Init PROVE UpsertInv
  OBVIOUS
<1>1. TypeOK
  BY TypeInit
<1>2. \A t \in Tasks : pc[t] = "idle" /\ body[t] = Nothing
  BY DEF Init
<1>3. QED
  BY <1>1, <1>2 DEF UpsertInv, DownInv, BodyInv, WriteInv, StoredBeforeReported, Upserted

\* No step takes a document out of the collection.
LEMMA StoredStays ==
  ASSUME UpsertInv, Next PROVE Stored \subseteq Stored'
<1>1. ASSUME NEW t \in Tasks, NEW e \in Events, WriteOne(t, e)
      PROVE  Stored \subseteq Stored'
  <2>1. body[t][e] > 0
    BY <1>1 DEF WriteOne, UpsertInv, WriteInv, Valid
  <2>2. docs \in [Events -> 0..MaxRev]
    BY DEF UpsertInv, TypeOK, Contents
  <2>3. QED
    BY <1>1, <2>1, <2>2 DEF WriteOne, Stored
<1>2. ASSUME ~ \E t \in Tasks, e \in Events : WriteOne(t, e)
      PROVE  docs' = docs
  BY <1>2 DEF Next, Publish, AgeOut, Boot, Crash, Tick, TaskStep, TaskFault, CheckComplete,
       MarkRunning, Request, Answer, Receive, ReadExisting, Quarantine, Record,
       MarkComplete, MarkFailed, StaleAnswer, ReceiveGarbage, Rejected, Unreachable, QuarantineLost,
       RecordLost, MongoFails, dbVars
<1>3. QED
  BY <1>1, <1>2 DEF Stored

LEMMA UpsertNext == UpsertInv /\ [Next]_vars => UpsertInv'
<1> SUFFICES ASSUME UpsertInv, [Next]_vars PROVE UpsertInv'
  OBVIOUS
<1> USE DEF UpsertInv
<1>1. TypeOK'
  BY TypeNext
<1>2. CASE UNCHANGED vars
  BY <1>1, <1>2 DEF vars, procVars, dbVars, taskVars, DownInv, BodyInv, WriteInv,
       StoredBeforeReported, Stored
<1>3. CASE Next
  <2>1. Stored \subseteq Stored'
    BY <1>3, StoredStays
  <2> DEFINE Rest == DownInv' /\ BodyInv' /\ WriteInv' /\ StoredBeforeReported'
  <2> SUFFICES Rest
    BY <1>1
  <2> USE DEF DownInv, BodyInv, WriteInv, StoredBeforeReported, NoBody, Upserted
  <2>2. ASSUME NEW e \in Events, Publish(e) \/ AgeOut(e) PROVE Rest
    BY <2>1, <2>2 DEF Publish, AgeOut, procVars, dbVars, taskVars
  <2>3. CASE Boot
    <3>1. DownInv'
      BY <2>3 DEF Boot
    <3>2. \A t \in Tasks : /\ pc[t] = "idle"
                           /\ pc'[t] \in {"idle", "check", "request"}
      BY <2>3 DEF Boot, Tasks, Polls
    <3>3. QED
      BY <2>1, <2>3, <3>1, <3>2 DEF Boot, dbVars, taskVars
  <2>4. CASE Crash
    BY <2>1, <2>4 DEF Crash, dbVars
  <2>5. CASE Tick
    BY <2>1, <2>5 DEF Tick, procVars, dbVars, taskVars, TypeOK
  <2>6. ASSUME NEW t \in Tasks, TaskStep(t) PROVE Rest
    <3>1. up
      BY <2>6 DEF TaskStep, CheckComplete, MarkRunning, Request, Answer, Receive,
           ReadExisting, WriteOne, Quarantine, Record, RecordPCs, MarkComplete, MarkFailed
    <3> USE <2>1, <3>1 DEF TypeOK, Goto, procVars, dbVars, taskVars
    <3>2. CASE CheckComplete(t)
      BY <3>2 DEF CheckComplete
    <3>3. CASE MarkRunning(t)
      BY <3>3 DEF MarkRunning
    <3>4. CASE Request(t)
      BY <3>4 DEF Request
    <3>5. CASE Answer(t)
      BY <3>5, ValidNothing DEF Answer
    <3>6. CASE Receive(t)
      BY <3>6 DEF Receive
    <3>7. CASE ReadExisting(t)
      <4>1. \A e \in Valid(body[t]) : NeedsWrite(e, body[t][e], docs[e]) \/ e \in Stored
        BY DEF NeedsWrite, Stored, Contents, Valid
      <4>2. QED
        BY <3>7, <4>1 DEF ReadExisting
    <3>8. ASSUME NEW e \in Events, WriteOne(t, e) PROVE Rest
      <4>1. e \in Stored'
        BY <3>8 DEF WriteOne, Stored, Valid, Contents
      <4>2. QED
        BY <3>8, <4>1 DEF WriteOne
    <3>9. CASE Quarantine(t)
      BY <3>9 DEF Quarantine
    <3>10. CASE Record(t)
      BY <3>10 DEF Record, AfterRecord, End, RecordPCs
    <3>11. CASE MarkComplete(t)
      BY <3>11 DEF MarkComplete, End
    <3>12. CASE MarkFailed(t)
      BY <3>12 DEF MarkFailed
    <3>13. QED
      BY <2>6, <3>2, <3>3, <3>4, <3>5, <3>6, <3>7, <3>8, <3>9, <3>10, <3>11, <3>12
         DEF TaskStep
  <2>7. ASSUME NEW t \in Tasks, TaskFault(t) PROVE Rest
    <3>1. up
      BY <2>7 DEF TaskFault, StaleAnswer, ReceiveGarbage, Rejected, Unreachable, QuarantineLost,
           RecordLost, RecordPCs, MongoFails
    <3> USE <2>1, <3>1 DEF TypeOK, Goto, procVars, dbVars, taskVars
    <3>2. CASE ReceiveGarbage(t)
      BY <3>2 DEF ReceiveGarbage
    <3>3. CASE Rejected(t)
      BY <3>3 DEF Rejected
    <3>4. CASE Unreachable(t)
      BY <3>4 DEF Unreachable, End
    <3>5. CASE QuarantineLost(t)
      BY <3>5 DEF QuarantineLost
    <3>6. CASE RecordLost(t)
      BY <3>6 DEF RecordLost, AfterRecord, End, RecordPCs
    <3>7. CASE MongoFails(t)
      BY <3>7 DEF MongoFails, End
    <3>8. CASE StaleAnswer(t)
      BY <3>8 DEF StaleAnswer
    <3>9. QED
      BY <2>7, <3>2, <3>3, <3>4, <3>5, <3>6, <3>7, <3>8 DEF TaskFault
  <2>8. QED
    BY <1>3, <2>2, <2>3, <2>4, <2>5, <2>6, <2>7 DEF Next
<1>4. QED
  BY <1>2, <1>3

LEMMA UpsertAlways == Spec => []UpsertInv
BY UpsertInit, UpsertNext, PTL DEF Spec

\* A cycle that reports success has stored every valid feature it fetched, however the
\* tasks interleave, fail and restart (poller.py:88-111, backfill.py:71-96).
THEOREM ReportsAreTrue == Spec => []StoredBeforeReported
<1>1. UpsertInv => StoredBeforeReported
  BY DEF UpsertInv
<1>2. QED
  BY <1>1, UpsertAlways, PTL

\* A stored `updated` moves back only when another task wrote the event between the read
\* and the write of the task that does it (repo.py:65-90).
THEOREM RegressionsAreOverlaps == Spec => RegressionNeedsOverlap
<1> DEFINE Overlap ==
      \A e \in Events \ Unstamped : docs'[e] < docs[e] =>
        \E t \in Tasks : /\ pc[t] = "write" /\ e \in todo[t]
                         /\ seen[t][e] < docs[e]
<1>1. UpsertInv /\ [Next]_vars => [Overlap]_vars
  <2> SUFFICES ASSUME UpsertInv, Next, NEW e \in Events \ Unstamped, docs'[e] < docs[e]
               PROVE  \E t \in Tasks : /\ pc[t] = "write" /\ e \in todo[t]
                                       /\ seen[t][e] < docs[e]
    OBVIOUS
  <2>1. docs \in [Events -> 0..MaxRev] /\ docs'[e] # docs[e]
    BY DEF UpsertInv, TypeOK, Contents
  <2>2. PICK t \in Tasks, d \in Events : WriteOne(t, d)
    BY <2>1 DEF Next, Publish, AgeOut, Boot, Crash, Tick, TaskStep, TaskFault, CheckComplete,
         MarkRunning, Request, Answer, Receive, ReadExisting, Quarantine, Record,
         MarkComplete, MarkFailed, StaleAnswer, ReceiveGarbage, Rejected, Unreachable, QuarantineLost,
         RecordLost, MongoFails, dbVars
  <2>3. d = e /\ docs'[e] = body[t][e] /\ pc[t] = "write" /\ e \in todo[t]
    BY <2>1, <2>2 DEF WriteOne
  <2>4. NeedsWrite(e, body[t][e], seen[t][e]) /\ body[t][e] > 0
    BY <2>3 DEF UpsertInv, WriteInv, Valid
  <2>5. body[t][e] \in Nat /\ seen[t][e] \in Nat /\ docs[e] \in Nat
    BY DEF UpsertInv, TypeOK, Contents
  <2>6. seen[t][e] < docs[e]
    BY <2>3, <2>4, <2>5 DEF NeedsWrite
  <2>7. QED
    BY <2>3, <2>6
<1>2. QED
  BY <1>1, UpsertAlways, PTL DEF Spec, RegressionNeedsOverlap

-----------------------------------------------------------------------------
(* The backfill runs once. *)

\* Only the backfill has the steps that touch the meta document, and while it has not
\* ended the document does not say "complete".
BackfillOnly == {"check", "mark_running", "mark_failed", "mark_complete"}
Loading == {"mark_running", "request", "sent", "answered", "read", "write", "quarantine",
            "record_ok", "mark_failed", "mark_complete"}

OnceInv ==
  /\ TypeOK
  /\ \A t \in Tasks : pc[t] \in BackfillOnly => t = "backfill"
  /\ pc["backfill"] \in Loading => meta # "complete"

LEMMA OnceInit == Init => OnceInv
BY TypeInit DEF Init, OnceInv, BackfillOnly, Loading, Tasks

\* One step keeps the invariant and satisfies the property.
LEMMA OnceNext ==
  ASSUME OnceInv, [Next]_vars
  PROVE  /\ OnceInv'
         /\ meta = "complete" => meta' = "complete" /\ (pc'["backfill"] # "request" \/ UNCHANGED vars)
<1> DEFINE Goal ==
      /\ \A t \in Tasks : pc'[t] \in BackfillOnly => t = "backfill"
      /\ pc'["backfill"] \in Loading => meta' # "complete"
      /\ meta = "complete" => meta' = "complete" /\ (pc'["backfill"] # "request" \/ UNCHANGED vars)
<1>1. TypeOK'
  BY TypeNext DEF OnceInv
<1> SUFFICES Goal
  BY <1>1 DEF OnceInv
<1> USE DEF OnceInv, BackfillOnly, Loading
<1>2. CASE UNCHANGED vars
  BY <1>2 DEF vars, dbVars
<1>3. ASSUME NEW e \in Events, Publish(e) \/ AgeOut(e) PROVE Goal
  BY <1>3 DEF Publish, AgeOut, dbVars
<1>4. CASE Boot
  BY <1>4 DEF Boot, dbVars, Tasks, Polls
<1>5. CASE Crash
  BY <1>5 DEF Crash, dbVars, Tasks
<1>6. CASE Tick
  BY <1>6 DEF Tick, dbVars, TypeOK, Tasks, Polls
<1>7. ASSUME NEW t \in Tasks, TaskStep(t) PROVE Goal
  <2> USE DEF Goto, dbVars, TypeOK, Tasks, Polls
  <2>1. CASE CheckComplete(t)
    BY <2>1 DEF CheckComplete
  <2>2. CASE MarkRunning(t)
    BY <2>2 DEF MarkRunning
  <2>3. CASE Request(t)
    BY <2>3 DEF Request
  <2>4. CASE Answer(t)
    BY <2>4 DEF Answer
  <2>5. CASE Receive(t)
    BY <2>5 DEF Receive
  <2>6. CASE ReadExisting(t)
    BY <2>6 DEF ReadExisting
  <2>7. ASSUME NEW e \in Events, WriteOne(t, e) PROVE Goal
    BY <2>7 DEF WriteOne
  <2>8. CASE Quarantine(t)
    BY <2>8 DEF Quarantine
  <2>9. CASE Record(t)
    BY <2>9 DEF Record, AfterRecord, End, RecordPCs
  <2>10. CASE MarkComplete(t)
    BY <2>10 DEF MarkComplete, End
  <2>11. CASE MarkFailed(t)
    BY <2>11 DEF MarkFailed
  <2>12. QED
    BY <1>7, <2>1, <2>2, <2>3, <2>4, <2>5, <2>6, <2>7, <2>8, <2>9, <2>10, <2>11
       DEF TaskStep
<1>8. ASSUME NEW t \in Tasks, TaskFault(t) PROVE Goal
  <2> USE DEF Goto, dbVars, TypeOK, Tasks, Polls
  <2>1. CASE ReceiveGarbage(t)
    BY <2>1 DEF ReceiveGarbage
  <2>2. CASE Rejected(t)
    BY <2>2 DEF Rejected
  <2>3. CASE Unreachable(t)
    BY <2>3 DEF Unreachable, End
  <2>4. CASE QuarantineLost(t)
    BY <2>4 DEF QuarantineLost
  <2>5. CASE RecordLost(t)
    BY <2>5 DEF RecordLost, AfterRecord, End, RecordPCs
  <2>6. CASE MongoFails(t)
    BY <2>6 DEF MongoFails, End, StatusOf
  <2>7. CASE StaleAnswer(t)
    BY <2>7 DEF StaleAnswer
  <2>8. QED
    BY <1>8, <2>1, <2>2, <2>3, <2>4, <2>5, <2>6, <2>7 DEF TaskFault
<1>9. QED
  BY <1>2, <1>3, <1>4, <1>5, <1>6, <1>7, <1>8 DEF Next

\* A completed backfill is never undone nor run again, whatever fails or restarts
\* (backfill.py:46-48).
THEOREM BackfillIsIdempotent == Spec => BackfillRunsOnce
<1>1. OnceInv /\ [Next]_vars =>
        [meta = "complete" => meta' = "complete" /\ pc'["backfill"] # "request"]_vars
  BY OnceNext
<1>2. OnceInv /\ [Next]_vars => OnceInv'
  BY OnceNext
<1>3. QED
  BY OnceInit, <1>1, <1>2, PTL DEF Spec, BackfillRunsOnce

-----------------------------------------------------------------------------
(* As long as nothing fails: the row of the backfill, and the ETag of the hour. *)

\* Without a failure the backfill records ok, and that before it is complete.
RowInv ==
  faults = 0 =>
    /\ \A t \in Tasks : pc[t] \notin {"record_error", "mark_failed"}
    /\ \A t \in Tasks : pc[t] = "mark_complete" => lastRow["month"] = "ok"
    /\ meta = "complete" => lastRow["month"] = "ok"

LEMMA RowInit == Init => RowInv
BY DEF Init, RowInv

\* A failure is counted, so that the invariant no longer speaks.
LEMMA FaultsCount ==
  ASSUME TypeOK, NEW t \in Tasks, TaskFault(t)
  PROVE  faults' # 0
BY DEF TaskFault, StaleAnswer, ReceiveGarbage, Rejected, Unreachable, QuarantineLost, RecordLost,
   MongoFails, Fault, TypeOK

LEMMA RowNext == TypeOK /\ RowInv /\ [Next]_vars => RowInv'
<1> SUFFICES ASSUME TypeOK, RowInv, [Next]_vars PROVE RowInv'
  OBVIOUS
<1> USE DEF RowInv
<1>1. CASE UNCHANGED vars
  BY <1>1 DEF vars, dbVars
<1>2. ASSUME NEW e \in Events, Publish(e) \/ AgeOut(e) PROVE RowInv'
  BY <1>2 DEF Publish, AgeOut, dbVars
<1>3. CASE Boot \/ Crash \/ Tick
  BY <1>3 DEF Boot, Crash, Tick, dbVars, TypeOK, Tasks, Polls
<1>4. ASSUME NEW t \in Tasks, TaskFault(t) PROVE RowInv'
  BY <1>4, FaultsCount
<1>5. ASSUME NEW t \in Tasks, TaskStep(t) PROVE RowInv'
  <2> USE DEF Goto, dbVars, TypeOK
  <2>1. CASE CheckComplete(t) \/ MarkRunning(t) \/ Request(t) \/ Answer(t) \/ Receive(t)
    BY <2>1 DEF CheckComplete, MarkRunning, Request, Answer, Receive
  <2>2. CASE ReadExisting(t) \/ Quarantine(t) \/ \E e \in Events : WriteOne(t, e)
    BY <2>2 DEF ReadExisting, Quarantine, WriteOne
  <2>3. CASE Record(t)
    BY <2>3 DEF Record, AfterRecord, End, RecordPCs, RowOf, FeedOf, Feeds, Tasks, Polls
  <2>4. CASE MarkComplete(t)
    BY <2>4 DEF MarkComplete, End
  <2>5. CASE MarkFailed(t)
    BY <2>5 DEF MarkFailed
  <2>6. QED
    BY <1>5, <2>1, <2>2, <2>3, <2>4, <2>5 DEF TaskStep
<1>6. QED
  BY <1>1, <1>2, <1>3, <1>4, <1>5 DEF Next

\* Unless something failed, a backfill is "complete" only after its ok row, through every
\* restart (backfill.py:85-96).
THEOREM RowsPrecedeCompletion == Spec => []RowBeforeComplete
<1>1. RowInv => RowBeforeComplete
  BY DEF RowInv, RowBeforeComplete
<1>2. QED
  BY <1>1, TypeInit, TypeNext, RowInit, RowNext, PTL DEF Spec

\* What a poll holds is held, or stored, after a step of any task that does not fail.
Held(t, e) == pc[t] \in {"read", "write"} /\ e \in Valid(body[t])

LEMMA HeldStays ==
  ASSUME UpsertInv, UpsertInv', NEW t \in Tasks, NEW e \in Events, Held(t, e),
         NEW s \in Tasks, TaskStep(s)
  PROVE  Held(t, e)' \/ e \in Stored'
<1> USE DEF UpsertInv, TypeOK, Held, Goto, taskVars
<1>1. CASE s # t
  <2>1. pc'[t] = pc[t] /\ body'[t] = body[t]
    BY <1>1 DEF TaskStep, CheckComplete, MarkRunning, Request, Answer, Receive, ReadExisting,
       WriteOne, Quarantine, Record, AfterRecord, End, MarkComplete, MarkFailed
  <2>2. QED
    BY <2>1 DEF Valid
<1>2. CASE s = t
  <2>1. ReadExisting(t) \/ \E d \in Events : WriteOne(t, d)
    BY <1>2 DEF TaskStep, CheckComplete, MarkRunning, Request, Answer, Receive, Quarantine,
       Record, RecordPCs, MarkComplete, MarkFailed
  <2>2. body' = body /\ pc'[t] \in {"read", "write", "quarantine"}
    BY <2>1 DEF ReadExisting, WriteOne
  <2>3. pc'[t] = "quarantine" => Valid(body'[t]) \subseteq Stored'
    BY DEF StoredBeforeReported, Upserted
  <2>4. QED
    BY <2>2, <2>3 DEF Valid
<1>3. QED
  BY <1>1, <1>2

LEMMA EtagNext ==
  ASSUME UpsertInv, UpsertInv', EtagIsBacked, [Next]_vars
  PROVE  EtagIsBacked'
<1> SUFFICES ASSUME faults' = 0, etag'["hour"] # NoEtag, NEW e \in Valid(etag'["hour"])
             PROVE  e \in Stored' \/ \E t \in Polls : Held(t, e)'
  BY DEF EtagIsBacked, Held, Valid
<1>0. e \in Events /\ Polls \subseteq Tasks
  BY DEF Valid, Tasks
<1>1. Next => Stored \subseteq Stored'
  BY StoredStays
<1>2. ASSUME faults = 0, etag'["hour"] = etag["hour"]
      PROVE  e \in Stored \/ \E t \in Polls : Held(t, e)
  BY <1>2 DEF EtagIsBacked, Held, Valid
<1>3. CASE UNCHANGED vars
  BY <1>2, <1>3 DEF vars, dbVars, taskVars, Stored, Held, Valid
<1>4. CASE Boot \/ Tick \/ \E d \in Events : Publish(d) \/ AgeOut(d)
  <2>1. /\ faults = 0 /\ etag'["hour"] = etag["hour"] /\ Next
        /\ \A t \in Polls : Held(t, e) => Held(t, e)'
    BY <1>0, <1>4 DEF Boot, Tick, Publish, AgeOut, taskVars, Held, Valid, Next, UpsertInv, TypeOK,
       DownInv
  <2>2. QED
    BY <1>1, <1>2, <2>1
<1>5. ~Crash
  BY DEF Crash, Feeds
<1>6. ASSUME NEW s \in Tasks, TaskStep(s) PROVE e \in Stored' \/ \E t \in Polls : Held(t, e)'
  <2>1. faults = 0 /\ Next
    BY <1>6 DEF TaskStep, CheckComplete, MarkRunning, Request, Answer, Receive, ReadExisting,
       WriteOne, Quarantine, Record, MarkComplete, MarkFailed, Next
  <2>2. CASE etag'["hour"] = etag["hour"]
    <3>1. CASE e \in Stored
      BY <1>1, <2>1, <3>1
    <3>2. CASE \E t \in Polls : Held(t, e)
      BY <1>0, <1>6, <3>2, HeldStays
    <3>3. QED
      BY <1>2, <2>1, <2>2, <3>1, <3>2
  <2>3. CASE etag'["hour"] # etag["hour"]
    <3>1. Receive(s)
      BY <1>6, <2>3 DEF TaskStep, CheckComplete, MarkRunning, Request, Answer, ReadExisting,
         WriteOne, Quarantine, Record, MarkComplete, MarkFailed
    <3>2. s \in Polls /\ etag'["hour"] = body[s]
      BY <2>3, <3>1 DEF Receive, FeedOf, Feeds, Tasks, Polls, UpsertInv, TypeOK
    <3>3. Held(s, e)'
      BY <3>1, <3>2 DEF Receive, Held, Goto, taskVars, Valid, UpsertInv, TypeOK
    <3>4. QED
      BY <3>2, <3>3
  <2>4. QED
    BY <2>2, <2>3
<1>7. ASSUME NEW s \in Tasks PROVE ~TaskFault(s)
  BY FaultsCount DEF UpsertInv
<1>8. QED
  BY <1>3, <1>4, <1>5, <1>6, <1>7 DEF Next

\* As long as nothing fails, the ETag of the hour vouches for stored events, or for those a
\* poll is about to store: a 304 hides nothing (usgs.py:93-104).
THEOREM EtagsVouch == Spec => []EtagIsBacked
<1>1. Init => EtagIsBacked
  BY DEF Init, EtagIsBacked, Feeds
<1>2. UpsertInv /\ EtagIsBacked /\ [Next]_vars => EtagIsBacked'
  BY UpsertNext, EtagNext
<1>3. QED
  BY <1>1, <1>2, UpsertInit, UpsertNext, PTL DEF Spec

-----------------------------------------------------------------------------
(* One writer: no backfill, and the interval job paused as main.py:98 leaves it. *)

OneWriter == BackfillOnBoot = FALSE /\ FirstRunTime = "None"

\* Only the initial poll ever runs; what it has read is still there when it writes, and
\* what it has no operation left for is stored as fresh as it was fetched.
OneWriterInv ==
  /\ UpsertInv
  /\ \A t \in Tasks : t # "initial" => pc[t] = "idle"
  /\ pc["initial"] = "write" =>
       /\ \A e \in todo["initial"] : seen["initial"][e] = docs[e]
       /\ \A e \in Valid(body["initial"]) \ todo["initial"] : docs[e] >= body["initial"][e]
  /\ FreshWhenReported

LEMMA OneWriterInit == ASSUME OneWriter PROVE Init => OneWriterInv
BY UpsertInit DEF Init, OneWriterInv, FreshWhenReported, Upserted, Tasks, Polls

LEMMA OneWriterNext ==
  ASSUME OneWriter, OneWriterInv, [Next]_vars
  PROVE  /\ OneWriterInv'
         /\ \A e \in Events \ Unstamped : docs'[e] >= docs[e]
<1> DEFINE Idle  == \A t \in Tasks : t # "initial" => pc'[t] = "idle"
           Write == (pc["initial"] = "write" =>
                      /\ \A e \in todo["initial"] : seen["initial"][e] = docs[e]
                      /\ \A e \in Valid(body["initial"]) \ todo["initial"] :
                           docs[e] >= body["initial"][e])'
           Forward == \A e \in Events \ Unstamped : docs'[e] >= docs[e]
           Goal  == Idle /\ Write /\ FreshWhenReported' /\ Forward
<1>1. UpsertInv'
  BY UpsertNext DEF OneWriterInv
<1> SUFFICES Goal
  BY <1>1 DEF OneWriterInv
<1>2. /\ docs \in [Events -> Nat] /\ body \in [Tasks -> [Events -> Nat]]
      /\ pc \in [Tasks -> PCs] /\ todo \in [Tasks -> SUBSET Events]
      /\ seen \in [Tasks -> [Events -> Nat]]
  BY DEF OneWriterInv, UpsertInv, TypeOK, Contents
<1>3. "initial" \in Tasks
  BY DEF Tasks, Polls
<1> USE <1>2, <1>3 DEF OneWriterInv, FreshWhenReported, Upserted
<1>4. CASE UNCHANGED vars
  BY <1>4 DEF vars, dbVars, taskVars
<1>5. ASSUME NEW e \in Events, Publish(e) \/ AgeOut(e) PROVE Goal
  BY <1>5 DEF Publish, AgeOut, dbVars, taskVars
<1>6. CASE Boot
  BY <1>6 DEF Boot, OneWriter, dbVars, taskVars, Tasks, Polls
<1>7. CASE Crash
  BY <1>7 DEF Crash, dbVars
<1>8. ~Tick
  BY DEF Tick, OneWriter
<1>9. ASSUME NEW t \in Tasks, TaskStep(t) PROVE Goal
  <2>1. t = "initial"
    BY <1>9 DEF TaskStep, CheckComplete, MarkRunning, Request, Answer, Receive,
         ReadExisting, WriteOne, Quarantine, Record, RecordPCs, MarkComplete, MarkFailed
  <2> USE <2>1 DEF Goto, dbVars, taskVars, Tasks, Polls
  <2>2. CASE ReadExisting(t)
    <3>1. \A e \in Valid(body[t]) : NeedsWrite(e, body[t][e], docs[e]) \/ docs[e] >= body[t][e]
      BY DEF NeedsWrite, Valid
    <3>2. QED
      BY <2>2, <3>1 DEF ReadExisting
  <2>3. ASSUME NEW e \in Events, WriteOne(t, e) PROVE Goal
    <3>1. NeedsWrite(e, body[t][e], seen[t][e]) /\ seen[t][e] = docs[e]
      BY <2>3 DEF WriteOne, UpsertInv, WriteInv
    <3>2. e \notin Unstamped => body[t][e] >= docs[e]
      BY <3>1 DEF NeedsWrite
    <3>3. \A d \in Events : docs'[d] = IF d = e THEN body[t][e] ELSE docs[d]
      BY <2>3 DEF WriteOne
    <3>4. Forward
      BY <3>2, <3>3
    <3>5. \A d \in Valid(body[t]) \ todo'[t] : docs'[d] >= body'[t][d]
      BY <2>3, <3>3 DEF WriteOne, Valid
    <3>6. QED
      BY <2>3, <3>3, <3>4, <3>5 DEF WriteOne, Valid
  <2>4. ASSUME ~ReadExisting(t), ~ \E e \in Events : WriteOne(t, e) PROVE Goal
    <3>1. /\ docs' = docs /\ pc'[t] # "write"
          /\ \A u \in Tasks : u # t => pc'[u] = pc[u]
      BY <1>9, <2>4 DEF TaskStep, CheckComplete, MarkRunning, Request, Answer, Receive,
           Quarantine, Record, AfterRecord, End, MarkComplete, MarkFailed
    <3>2. pc'[t] \in Upserted => /\ body'[t] = body[t]
                                 /\ pc[t] \in Upserted \/ Valid(body[t]) = {}
      <4>1. pc[t] = "sent" => Valid(body[t]) = {}
        BY ValidNothing DEF UpsertInv, BodyInv, NoBody
      <4>2. QED
        BY <1>9, <2>4, <4>1 DEF TaskStep, CheckComplete, MarkRunning, Request, Answer,
             Receive, Quarantine, Record, RecordPCs, AfterRecord, End, MarkComplete, MarkFailed
    <3>3. QED
      BY <3>1, <3>2
  <2>5. QED
    BY <2>2, <2>3, <2>4
<1>10. ASSUME NEW t \in Tasks, TaskFault(t) PROVE Goal
  <2>1. t = "initial"
    BY <1>10 DEF TaskFault, StaleAnswer, ReceiveGarbage, Rejected, Unreachable, QuarantineLost,
         RecordLost, RecordPCs, MongoFails
  <2> USE <2>1 DEF Goto, dbVars, taskVars, Tasks, Polls
  <2>2. /\ docs' = docs /\ pc'[t] # "write"
        /\ \A u \in Tasks : u # t => pc'[u] = pc[u]
    BY <1>10 DEF TaskFault, StaleAnswer, ReceiveGarbage, Rejected, Unreachable, QuarantineLost,
         RecordLost, AfterRecord, MongoFails, End
  <2>3. pc'[t] \in Upserted => body'[t] = body[t] /\ pc[t] \in Upserted
    BY <1>10 DEF TaskFault, StaleAnswer, ReceiveGarbage, Rejected, Unreachable, QuarantineLost,
         RecordLost, RecordPCs, AfterRecord, MongoFails, End
  <2>4. QED
    BY <2>2, <2>3
<1>11. QED
  BY <1>4, <1>5, <1>6, <1>7, <1>8, <1>9, <1>10 DEF Next

LEMMA OneWriterAlways == ASSUME OneWriter PROVE Spec => []OneWriterInv
<1>1. OneWriterInv /\ [Next]_vars => OneWriterInv'
  BY OneWriterNext
<1>2. QED
  BY OneWriterInit, <1>1, PTL DEF Spec

\* With one writer, what a cycle reports as stored is stored at the revision it fetched,
\* or a newer one.
THEOREM OneWriterIsFresh == ASSUME OneWriter PROVE Spec => []FreshWhenReported
<1>1. OneWriterInv => FreshWhenReported
  BY DEF OneWriterInv
<1>2. QED
  BY <1>1, OneWriterAlways, PTL

\* With one writer no stored `updated` ever moves back: what upsert_features promises
\* (repo.py:54-55) is true without a second task.
THEOREM OneWriterMovesForward == ASSUME OneWriter PROVE Spec => UpdatedMovesForward
<1>1. OneWriterInv /\ [Next]_vars => [\A e \in Events \ Unstamped : docs'[e] >= docs[e]]_vars
  BY OneWriterNext
<1>2. QED
  BY <1>1, OneWriterAlways, PTL DEF Spec, UpdatedMovesForward

-----------------------------------------------------------------------------
(* The interval job paused, as main.py:98 leaves it, and whatever else runs. *)

\* A poll that is idle begins only with a start of the process.
PollsOnlyAtBoot ==
  [][\A t \in Polls : pc[t] = "idle" /\ pc'[t] # "idle" => t = "initial" /\ boots' = boots + 1]_vars

\* A task that takes a step is not idle, and moves no other.
LEMMA OneTaskMoves ==
  ASSUME TypeOK, NEW t \in Tasks, TaskStep(t) \/ TaskFault(t)
  PROVE  pc[t] # "idle" /\ \A u \in Tasks : u # t => pc'[u] = pc[u]
<1> USE DEF TypeOK, Goto
<1>1. CASE TaskStep(t)
  BY <1>1 DEF TaskStep, CheckComplete, MarkRunning, Request, Answer, Receive, ReadExisting,
     WriteOne, Quarantine, Record, RecordPCs, AfterRecord, End, MarkComplete, MarkFailed
<1>2. CASE TaskFault(t)
  BY <1>2 DEF TaskFault, StaleAnswer, ReceiveGarbage, Rejected, Unreachable, QuarantineLost,
     RecordLost, RecordPCs, AfterRecord, MongoFails, End
<1>3. QED
  BY <1>1, <1>2

\* With next_run_time=None no poll ever follows the initial one of a start, however long the
\* service runs and whatever the settings, the feeds and the failures (main.py:90-100).
THEOREM PausedJobNeverPolls == ASSUME FirstRunTime = "None" PROVE Spec => PollsOnlyAtBoot
<1> DEFINE Begins == \A t \in Polls :
             pc[t] = "idle" /\ pc'[t] # "idle" => t = "initial" /\ boots' = boots + 1
<1>1. ASSUME TypeOK, [Next]_vars PROVE [Begins]_vars
  <2> SUFFICES ASSUME Next, NEW t \in Polls, pc[t] = "idle", pc'[t] # "idle"
               PROVE  t = "initial" /\ boots' = boots + 1
    BY <1>1
  <2>1. t \in Tasks
    BY DEF Tasks
  <2>2. ~Tick
    BY DEF Tick
  <2>3. \A u \in Tasks : ~(TaskStep(u) \/ TaskFault(u))
    BY <1>1, <2>1, OneTaskMoves
  <2>4. ~Crash /\ \A e \in Events : ~(Publish(e) \/ AgeOut(e))
    BY <2>1 DEF Crash, Publish, AgeOut
  <2>5. Boot
    BY <2>2, <2>3, <2>4 DEF Next
  <2>6. QED
    BY <2>1, <2>5 DEF Boot, Polls, Tasks
<1>2. QED
  BY <1>1, TypeCorrect, PTL DEF Spec, PollsOnlyAtBoot
=============================================================================
