---------------------------- MODULE AlertPipeline ----------------------------
(***************************************************************************)
(* The alerts service: EventConsumer follows the `events` collection, by a *)
(* change stream or by the polling fallback, evaluates the rules on every  *)
(* document it sees and dispatches the candidates: a row of `alerts_log`,  *)
(* then a send_alert job.  The ingestion service is the environment: its   *)
(* batches write events one by one, all with the batch's `_last_seen_at`.  *)
(***************************************************************************)
EXTENDS Naturals, Sequences, FiniteSets

CONSTANTS
  Events,        \* USGS event ids
  MaxRev,        \* bound: writes of one event
  Keys,          \* dedup keys
  Fires,         \* Fires[e][r]: the keys of evaluate_event's candidates, in order
  Instances,     \* processes of the service: one, two while a deploy overlaps
  Writers,       \* ingestion tasks that upsert: poll and backfill
  BatchSizes,    \* how many events an upsert writes
  FetchLimit,    \* documents one fallback query returns (200 in the code)
  StreamsSupported, \* MongoDB is a replica set
  IndexAtStart,  \* some service created ix_dedup_key before
  MaxBoots,      \* bound: starts of each instance
  Failing,       \* what fails: a subset of FaultKinds
  MaxFaults      \* bound: failures

ASSUME BoundAssumption == /\ MaxRev \in Nat \ {0} /\ FetchLimit \in Nat \ {0}
                          /\ MaxBoots \in Nat /\ MaxFaults \in Nat
                          /\ BatchSizes \subseteq Nat
ASSUME InstanceAssumption == IsFiniteSet(Instances)
FaultKinds == {"index", "stream", "query", "rules", "insert", "enqueue"}
ASSUME FaultAssumption == Failing \subseteq FaultKinds
ASSUME SettingAssumption == StreamsSupported \in BOOLEAN /\ IndexAtStart \in BOOLEAN
ASSUME RuleAssumption == Fires \in [Events -> [1..MaxRev -> Seq(Keys)]]

VARIABLES
  docs,      \* `events`: revision and `_last_seen_at` (both 0: no document)
  clock,     \* the ingestion clock, one tick per batch
  batch,     \* per writer: the batch's stamp and the events still to write
  rows,      \* `alerts_log`: rows with each dedup key
  index,     \* the unique index ix_dedup_key exists
  jobs,      \* Redis: send_alert jobs enqueued with each dedup key so far
  faults,    \* failures so far
  boots,     \* per instance: starts so far
  pc,        \* per instance: where the consumer is
  mode,      \* per instance: change stream or fallback
  stream,    \* per instance: changes the open stream has not delivered
  cursor,    \* per instance: documents the fallback query has not delivered
  lastSeen,  \* per instance: last_seen of the fallback (0: None)
  cands,     \* per instance: candidates still to dispatch
  evaluated  \* history, per instance: the newest revision of each event its rules have seen

ingestVars   == <<docs, clock, batch>>
storeVars    == <<rows, index, jobs>>
consumerVars == <<pc, mode, stream, cursor, lastSeen, cands>>
vars == <<ingestVars, storeVars, faults, boots, consumerVars, evaluated>>

NoDoc   == [rev |-> 0, at |-> 0]
NoBatch == [at |-> 0, todo |-> {}]

Init ==
  /\ docs = [e \in Events |-> NoDoc] /\ clock = 0
  /\ batch = [w \in Writers |-> NoBatch]
  /\ rows = [k \in Keys |-> 0] /\ jobs = [k \in Keys |-> 0]
  /\ index = IndexAtStart /\ faults = 0
  /\ boots = [i \in Instances |-> 0]
  /\ pc = [i \in Instances |-> "down"]
  /\ mode = [i \in Instances |-> "stream"]
  /\ stream = [i \in Instances |-> <<>>]
  /\ cursor = [i \in Instances |-> {}]
  /\ lastSeen = [i \in Instances |-> 0]
  /\ cands = [i \in Instances |-> <<>>]
  /\ evaluated = [i \in Instances |-> [e \in Events |-> 0]]

Fault(kind) ==
  /\ kind \in Failing /\ faults < MaxFaults
  /\ faults' = faults + 1

-----------------------------------------------------------------------------
(* Ingestion, as the alerts service sees it *)

\* run_poll_cycle and run_backfill take `now`, then upsert_features plans the writes
\* of the events that are new or revised.
StartBatch(w) ==
  /\ batch[w].todo = {}
  /\ \E s \in SUBSET {e \in Events : docs[e].rev < MaxRev} :
       /\ s # {} /\ Cardinality(s) \in BatchSizes
       /\ batch' = [batch EXCEPT ![w] = [at |-> clock + 1, todo |-> s]]
  /\ clock' = clock + 1
  /\ UNCHANGED <<docs, storeVars, faults, boots, consumerVars, evaluated>>

\* One upsert of the bulk write; every open change stream gets the change.
WriteEvent(w, e) ==
  /\ e \in batch[w].todo
  /\ batch' = [batch EXCEPT ![w].todo = @ \ {e}]
  /\ IF docs[e].rev < MaxRev \* a revision another writer has not stored yet
       THEN /\ docs' = [docs EXCEPT ![e] = [rev |-> @.rev + 1, at |-> batch[w].at]]
            /\ stream' = [i \in Instances |->
                 IF pc[i] \notin {"down", "open"} /\ mode[i] = "stream"
                   THEN Append(stream[i], e) ELSE stream[i]]
       ELSE UNCHANGED <<docs, stream>>
  /\ UNCHANGED <<clock, storeVars, faults, boots, pc, mode, cursor, lastSeen, cands, evaluated>>

-----------------------------------------------------------------------------
(* The process *)

\* lifespan: ensure_indexes, whose failure is absorbed and not retried, then start().
\* The unique index cannot be built over duplicate keys.
Boot(i, created) ==
  /\ pc[i] = "down" /\ boots[i] < MaxBoots
  /\ IF created THEN UNCHANGED faults ELSE Fault("index")
  /\ index' = (index \/ (created /\ \A k \in Keys : rows[k] <= 1))
  /\ boots' = [boots EXCEPT ![i] = @ + 1]
  /\ pc' = [pc EXCEPT ![i] = "open"]
  /\ UNCHANGED <<ingestVars, rows, jobs, mode, stream, cursor, lastSeen, cands, evaluated>>

\* A crash, or stop() cancelling the task at an await: the locals are lost.
Crash(i) ==
  /\ pc[i] # "down" /\ boots[i] < MaxBoots
  /\ pc' = [pc EXCEPT ![i] = "down"]
  /\ mode' = [mode EXCEPT ![i] = "stream"]
  /\ stream' = [stream EXCEPT ![i] = <<>>]
  /\ cursor' = [cursor EXCEPT ![i] = {}]
  /\ lastSeen' = [lastSeen EXCEPT ![i] = 0]
  /\ cands' = [cands EXCEPT ![i] = <<>>]
  /\ UNCHANGED <<ingestVars, storeVars, faults, boots, evaluated>>

-----------------------------------------------------------------------------
(* EventConsumer *)

\* coll.watch(...): the stream starts now, no resume token is kept.
OpenStream(i) ==
  /\ pc[i] = "open" /\ StreamsSupported
  /\ pc' = [pc EXCEPT ![i] = "ready"]
  /\ mode' = [mode EXCEPT ![i] = "stream"]
  /\ UNCHANGED <<ingestVars, storeVars, faults, boots, stream, cursor, lastSeen, cands, evaluated>>

\* Mutant of FallBack: the fallback starts from now.
FallBackFromNow(i) ==
  /\ \/ pc[i] = "open" /\ ~StreamsSupported /\ UNCHANGED faults
     \/ pc[i] \in {"open", "ready"} /\ mode[i] = "stream" /\ StreamsSupported /\ Fault("stream")
  /\ pc' = [pc EXCEPT ![i] = "ready"]
  /\ mode' = [mode EXCEPT ![i] = "poll"]
  /\ stream' = [stream EXCEPT ![i] = <<>>]
  /\ lastSeen' = [lastSeen EXCEPT ![i] = clock]
  /\ UNCHANGED <<ingestVars, storeVars, boots, cursor, cands, evaluated>>

\* Opening or reading the stream raises: the fallback starts from last_seen = None.
FallBack(i) ==
  /\ \/ pc[i] = "open" /\ ~StreamsSupported /\ UNCHANGED faults
     \/ pc[i] = "open" /\ StreamsSupported /\ Fault("stream")
     \/ pc[i] = "ready" /\ mode[i] = "stream" /\ Fault("stream")
  /\ pc' = [pc EXCEPT ![i] = "ready"]
  /\ mode' = [mode EXCEPT ![i] = "poll"]
  /\ stream' = [stream EXCEPT ![i] = <<>>]
  /\ UNCHANGED <<ingestVars, storeVars, boots, cursor, lastSeen, cands, evaluated>>

\* A query of the fallback raises: after 30 s the stream is tried again.
FallbackCrashes(i) ==
  /\ Fault("query")
  /\ pc[i] = "ready" /\ mode[i] = "poll"
  /\ pc' = [pc EXCEPT ![i] = "open"]
  /\ cursor' = [cursor EXCEPT ![i] = {}]
  /\ lastSeen' = [lastSeen EXCEPT ![i] = 0]
  /\ UNCHANGED <<ingestVars, storeVars, boots, mode, stream, cands, evaluated>>

\* find({_last_seen_at: {$gt: last_seen}}).sort(_last_seen_at).limit(FetchLimit);
\* without last_seen the filter is empty.  Ties come in any order.
Matching(i) ==
  {[id |-> e, rev |-> docs[e].rev, at |-> docs[e].at] :
     e \in {d \in Events : docs[d].rev > 0 /\ docs[d].at > lastSeen[i]}}

FirstDocs(m) ==
  {s \in SUBSET m :
     /\ Cardinality(s) = (IF Cardinality(m) < FetchLimit THEN Cardinality(m) ELSE FetchLimit)
     /\ \A d \in s, x \in m \ s : d.at <= x.at}

Query(i) ==
  /\ pc[i] = "ready" /\ mode[i] = "poll" /\ cursor[i] = {}
  /\ \E s \in FirstDocs(Matching(i)) : cursor' = [cursor EXCEPT ![i] = s]
  /\ UNCHANGED <<ingestVars, storeVars, faults, boots, pc, mode, stream, lastSeen, cands, evaluated>>

\* _evaluate of a document: the candidates are dispatched one after the other.
Evaluate(i, e, r) ==
  /\ cands' = [cands EXCEPT ![i] = Fires[e][r]]
  /\ pc' = [pc EXCEPT ![i] = IF Fires[e][r] = <<>> THEN "ready" ELSE "insert"]
  /\ evaluated' = [evaluated EXCEPT ![i][e] = IF r > @ THEN r ELSE @]
  /\ UNCHANGED faults

\* evaluate_event raises (a query of a rule fails): logged, the document is dropped.
EvaluateCrashes(i) ==
  /\ Fault("rules")
  /\ UNCHANGED <<cands, pc, evaluated>>

\* The stream delivers a change with the document as it is now (updateLookup).
NextChange(i) ==
  /\ pc[i] = "ready" /\ mode[i] = "stream" /\ stream[i] # <<>>
  /\ stream' = [stream EXCEPT ![i] = Tail(@)]
  /\ \/ LET e == Head(stream[i]) IN Evaluate(i, e, docs[e].rev)
     \/ EvaluateCrashes(i)
  /\ UNCHANGED <<ingestVars, storeVars, boots, mode, cursor, lastSeen>>

\* Mutant of NextDoc: last_seen is the document's id.
NextDocById(i) ==
  /\ pc[i] = "ready" /\ mode[i] = "poll"
  /\ \E d \in cursor[i] :
       /\ cursor' = [cursor EXCEPT ![i] = @ \ {d}]
       /\ lastSeen' = [lastSeen EXCEPT ![i] = d.id]
       /\ Evaluate(i, d.id, d.rev) \/ EvaluateCrashes(i)
  /\ UNCHANGED <<ingestVars, storeVars, boots, mode, stream>>

\* The cursor delivers its next document, as it was when the query ran.
NextDoc(i) ==
  /\ pc[i] = "ready" /\ mode[i] = "poll"
  /\ \E d \in cursor[i] :
       /\ \A x \in cursor[i] : d.at <= x.at
       /\ cursor' = [cursor EXCEPT ![i] = @ \ {d}]
       /\ lastSeen' = [lastSeen EXCEPT ![i] = d.at]
       /\ Evaluate(i, d.id, d.rev) \/ EvaluateCrashes(i)
  /\ UNCHANGED <<ingestVars, storeVars, boots, mode, stream>>

-----------------------------------------------------------------------------
(* dispatch *)

\* The candidate is done with: the next one, or the next document.
NextCandidate(i) ==
  /\ cands' = [cands EXCEPT ![i] = Tail(@)]
  /\ pc' = [pc EXCEPT ![i] = IF Len(cands[i]) = 1 THEN "ready" ELSE "insert"]

\* Mutants of InsertRow: the duplicate is caught but not returned on, and the return is
\* taken after every insert.
InsertRowFallsThrough(i) ==
  /\ pc[i] = "insert"
  /\ LET k == Head(cands[i]) IN
       rows' = IF index /\ rows[k] > 0 THEN rows ELSE [rows EXCEPT ![k] = @ + 1]
  /\ pc' = [pc EXCEPT ![i] = "enqueue"]
  /\ UNCHANGED <<ingestVars, index, jobs, faults, boots, mode, stream, cursor, lastSeen, cands, evaluated>>

InsertRowReturns(i) ==
  /\ pc[i] = "insert"
  /\ LET k == Head(cands[i]) IN
       rows' = IF index /\ rows[k] > 0 THEN rows ELSE [rows EXCEPT ![k] = @ + 1]
  /\ NextCandidate(i)
  /\ UNCHANGED <<ingestVars, index, jobs, faults, boots, mode, stream, cursor, lastSeen, evaluated>>

\* insert_one into alerts_log, which the unique index refuses for a known key.
InsertRow(i) ==
  /\ pc[i] = "insert"
  /\ LET k == Head(cands[i]) IN
       IF index /\ rows[k] > 0
         THEN NextCandidate(i) /\ UNCHANGED rows \* DuplicateKeyError: suppressed
         ELSE /\ rows' = [rows EXCEPT ![k] = @ + 1]
              /\ pc' = [pc EXCEPT ![i] = "enqueue"]
              /\ UNCHANGED cands
  /\ UNCHANGED <<ingestVars, index, jobs, faults, boots, mode, stream, cursor, lastSeen, evaluated>>

EnqueueJob(i) ==
  /\ pc[i] = "enqueue"
  /\ jobs' = [jobs EXCEPT ![Head(cands[i])] = @ + 1]
  /\ NextCandidate(i)
  /\ UNCHANGED <<ingestVars, rows, index, faults, boots, mode, stream, cursor, lastSeen, evaluated>>

\* Mutant of InsertFails: the exception is absorbed before the enqueue.
InsertFailsGoesOn(i) ==
  /\ Fault("insert")
  /\ pc[i] = "insert"
  /\ pc' = [pc EXCEPT ![i] = "enqueue"]
  /\ UNCHANGED <<ingestVars, storeVars, boots, mode, stream, cursor, lastSeen, cands, evaluated>>

\* Mutant of EnqueueFails: the enqueue is retried.
EnqueueFailsRetries(i) ==
  /\ Fault("enqueue")
  /\ pc[i] = "enqueue"
  /\ jobs' \in {jobs, [jobs EXCEPT ![Head(cands[i])] = @ + 1]}
  /\ UNCHANGED <<ingestVars, rows, index, boots, consumerVars, evaluated>>

\* The insert or the enqueue raises, applied or not: _evaluate logs it and goes on.
InsertFails(i) ==
  /\ Fault("insert")
  /\ pc[i] = "insert"
  /\ LET k == Head(cands[i]) IN
       \/ UNCHANGED rows
       \/ ~(index /\ rows[k] > 0) /\ rows' = [rows EXCEPT ![k] = @ + 1]
  /\ NextCandidate(i)
  /\ UNCHANGED <<ingestVars, index, jobs, boots, mode, stream, cursor, lastSeen, evaluated>>

EnqueueFails(i) ==
  /\ Fault("enqueue")
  /\ pc[i] = "enqueue"
  /\ jobs' \in {jobs, [jobs EXCEPT ![Head(cands[i])] = @ + 1]}
  /\ NextCandidate(i)
  /\ UNCHANGED <<ingestVars, rows, index, boots, mode, stream, cursor, lastSeen, evaluated>>

ConsumerStep(i) ==
  \/ OpenStream(i) \/ FallBack(i) \/ FallbackCrashes(i)
  \/ Query(i) \/ NextChange(i) \/ NextDoc(i)
  \/ InsertRow(i) \/ EnqueueJob(i) \/ InsertFails(i) \/ EnqueueFails(i)

Next ==
  \/ \E w \in Writers : StartBatch(w) \/ \E e \in Events : WriteEvent(w, e)
  \/ \E i \in Instances : \/ \E created \in BOOLEAN : Boot(i, created)
                          \/ Crash(i)
                          \/ ConsumerStep(i)

Spec == Init /\ [][Next]_vars

\* The platform restarts the process and the loop runs the consumer when it can run;
\* the writes of a batch that has begun are applied.
FairSpec ==
  /\ Spec
  /\ \A i \in Instances : /\ WF_vars(\E created \in BOOLEAN : Boot(i, created))
                          /\ WF_vars(ConsumerStep(i))
  /\ \A w \in Writers : WF_vars(\E e \in Events : WriteEvent(w, e))

-----------------------------------------------------------------------------
(* Properties *)

Documents == [id : Events, rev : 1..MaxRev, at : Nat]

\* Every variable has its type.
TypeOK ==
  /\ docs \in [Events -> [rev : 0..MaxRev, at : Nat]] /\ clock \in Nat
  /\ batch \in [Writers -> [at : Nat, todo : SUBSET Events]]
  /\ rows \in [Keys -> Nat] /\ jobs \in [Keys -> Nat]
  /\ index \in BOOLEAN /\ faults \in 0..MaxFaults
  /\ boots \in [Instances -> 0..MaxBoots]
  /\ pc \in [Instances -> {"down", "open", "ready", "insert", "enqueue"}]
  /\ mode \in [Instances -> {"stream", "poll"}]
  /\ stream \in [Instances -> Seq(Events)]
  /\ cursor \in [Instances -> SUBSET Documents]
  /\ lastSeen \in [Instances -> Nat]
  /\ cands \in [Instances -> Seq(Keys)]
  /\ evaluated \in [Instances -> [Events -> 0..MaxRev]]

\* No delivery without a row of its own in alerts_log, whatever crashes, fails or
\* runs twice: the row comes first (dispatcher.py:44-59).
JobsAreLogged == \A k \in Keys : jobs[k] <= rows[k]

\* With ix_dedup_key in place, re-evaluating an event (a revision, a restart, the
\* fallback reading everything again, an overlapping deploy) delivers nothing twice
\* ("only one alert fires", ARCHITECTURE.md:91).
AtMostOneJob == \A k \in Keys : jobs[k] <= 1

\* ... and once ix_dedup_key exists, however late: an instance whose ensure_indexes failed
\* has been dispatching without it, and may stand between its insert and its enqueue
\* when another instance builds the index.  No alert is delivered twice by then, nor
\* from then on (dispatcher.py:30).
DedupOnceIndexed == index => \A k \in Keys : jobs[k] <= 1

\* The pipeline implements the promise of AlertLog.
Promise == INSTANCE AlertLog WITH rows <- rows, jobs <- jobs
PromiseKept == Promise!Spec

\* As long as no insert and no enqueue fails and the process lives, an alert that is
\* logged is handed to the delivery queue, whatever else its instance is in the middle of
\* (a broken stream, several candidates, another instance at the same keys).
LoggedIsHandedOver == \A k \in Keys : (rows[k] > 0) ~> (jobs[k] > 0)

\* Every revision that lands in `events` is evaluated, or a newer one is
\* ("every event that lands gets evaluated", change_stream.py:4).
EventuallyEvaluated ==
  \A e \in Events, r \in 1..MaxRev :
    (docs[e].rev >= r) ~> (\E i \in Instances : evaluated[i][e] >= r)

\* The fallback has an event behind it: a page holds a mate of the event's batch, and not
\* the event.  It ended at its limit inside the batch, or was read while the batch was
\* written; the next query asks for stamps $gt the mate's (change_stream.py:80-85).
PassedOver(i, e) ==
  /\ mode[i] = "poll" /\ e \notin {d.id : d \in cursor[i]}
  /\ \E d \in cursor[i] : d.at = docs[e].at

\* A change an open stream has received is evaluated by that instance, at that revision or
\* a newer one, even if the stream breaks first: the fallback starts from the beginning,
\* and loses none but the events it passes over.  With one ingestion task, no failing
\* rules, no failing query and no crash.
ReceivedIsEvaluated ==
  \A i \in Instances, e \in Events, r \in 1..MaxRev :
    (/\ docs[e].rev = r
     /\ \E n \in 1..Len(stream[i]) : stream[i][n] = e)
      ~> (evaluated[i][e] >= r \/ PassedOver(i, e))
=============================================================================
