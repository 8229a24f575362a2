# A specification of Kansha Care's earthquake monitor

TLA+ modules for the Python services in this repository, TLC configurations that
check them on small instances, and TLAPS proofs of what matters most for every value
of the constants. `PROJECT.json` maps every definition to the lines it models and lists
the runs, the hazards of the code and the properties that cover them.

Paths below are relative to `src/`. A module's comments name code by function.

## 1. The system

```
 USGS feeds ──poll / backfill──> ingestion ──upsert──> MongoDB events
                                     └──rows──> events_quarantine, system_health, meta
 MongoDB events ──change stream, or polling fallback──> alerts: EventConsumer
 MongoDB system_health ──every 120 s──> alerts: check_silence
 alerts ──insert──> MongoDB alerts_log ; ──enqueue──> Redis (arq queue)
 Redis ──send_alert, summary_job──> worker ──rate limiter──> Telegram ──> subscribers
 Telegram ──webhook──> alerts ──> MongoDB telegram_subscribers
 browser <──REST, SSE── api ──reads──> MongoDB ; ──locations──> MongoDB, Nominatim
```

Every service is one asyncio process. Inside a process nothing is preempted: another task
runs only where a task awaits. So a step of a module is the code between two awaits,
together with what MongoDB, Redis, USGS or Telegram does for the await. Processes share
only MongoDB and Redis, and neither is used with a transaction.

### Inventory

| part | state | operations | what is hard | what makes it correct |
|---|---|---|---|---|
| ingestion (`services/ingestion`), USGS client (`shared/.../usgs.py`) | `events`, `events_quarantine`, `system_health`, `meta`; the ETags in memory | boot, initial poll, interval poll, backfill, upsert, quarantine, health row | three tasks read-then-write the same events; crash between two writes; an ETag that outlives the data it stands for; the job that keeps all fresh | nothing is reported that was not stored; revisions move forward; the backfill runs to its end, once; every event is stored in the end |
| event consumer, dispatcher (`change_stream.py`, `dispatcher.py`) | the stream or cursor, `last_seen`; `alerts_log`, its unique index, the queue | open the stream, fall back, evaluate, insert, enqueue | two instances during a deploy; restarts without a resume token; a row written and the job not; the index missing | an alert is enqueued at most once, and logged first; what lands is evaluated |
| alert rules (`rules.py`) | reads `events`, `locations` | three rules per event, a query each | thresholds read in two places, gates, a window that ends at the event, keys shared by several events, collections that change between the queries | an event fires what the location's card promises; a swarm is reported |
| silence alarm (`silence.py`) | `system_health` (with a TTL), `alerts_log` | a check every 120 s | a check across an hour's end; a row that is late, or expires; a second outage in one hour | one alert an hour, and no silence left unreported |
| webhook, subscribers (`webhook.py`, `subscribers.py`) | `telegram_subscribers` | /start, /help, /stop, /summary, /locations | redelivered updates; /stop against a running broadcast | who is subscribed |
| delivery (`worker_app/jobs.py`, `worker.py`) | the arq queue, `delivery_status` | start, send, update the status | rerun after a crash, timeouts, failing sends | bounded copies, a truthful status, everybody reached |
| rate limiter (`rate_limit.py`) | a bucket with a lock for the bot and for each chat | acquire, refill, sleep, take | the lock held through a sleep, cancellation, two buckets in a row | the rate, and nobody left in line |
| daily summary (`jobs.py`, `aggregations.py`, `routers/summaries.py`) | the jobs asked for | ask, aggregate, send | an update delivered twice, a worker that dies, a cron in every instance | whoever asked gets an end, whoever did not gets nothing |
| api: locations, and the page (`LocationsView.tsx`, `LocationForm.tsx`) | `locations`; the cards, the form | create, list, delete | the cap is counted, then enforced; the page reads the list only at some moments | the cap; the page shows what was added |
| geocoding | the cache, the time of the last call, the lock | lookup, wait, call, store | the lock held through a sleep, the retry outside it | one call a second |
| api: a location's card (`build_location_summary`, `LocationCard.tsx`) | reads `events` | six queries | reads of different moments | a card that agrees with itself |
| api: live stream, and `GlobalView.tsx` | a change stream or `last_seen`; the list in the browser | stream, fall back, fetch | the same cursor as the consumer's; fetch against stream; the window switched | the list has what `events` has |
| api: health card (`get_system_health`, `SystemHealthCard.tsx`) | reads `system_health`, `meta` | five reads | reads of different moments, rows that are stored late | a good tone has a good poll behind it, and goes when polls stop |
| risk score, messages, shared wiring, deployment | — | — | formulas, texts, configuration | — |

## 2. The modules

| module | part | kind |
|---|---|---|
| `Ingestion` | ingestion and the USGS client | detailed |
| `AlertLog` | what the alerts service promises of one dedup key | abstract |
| `AlertPipeline` | event consumer and dispatcher, with ingestion as their environment | detailed; implements `AlertLog` |
| `Broadcast` | what the worker promises of the alerts it is handed | abstract |
| `Delivery` | `send_alert` under arq, with the webhook's commands | detailed; implements `Broadcast` |
| `TelegramLimiter` | the token buckets | detailed |
| `SilenceWatch` | the silence check, with the rows ingestion writes | detailed |
| `Rules` | `evaluate_event`, over `events` and `locations` that change meanwhile | detailed |
| `Geocoder` | the cache, the rate limit and the retries of Nominatim | detailed, a part of `Locations` |
| `Locations` | the api of `locations` (with `Geocoder`), and the page that shows them | detailed |
| `Summary` | the card of a location | detailed |
| `LiveFeed` | the list of events with its fetches and its SSE stream | detailed |
| `HealthCard` | the System Health card and the reads behind it | detailed |
| `Digest` | the daily summary: who asks, who gets it | detailed |
| `Components` | the seven components from `SilenceWatch` on, side by side | composition for checking |
| `<module>MC` | the constants of the TLC instances | |
| `<module>_proofs` | theorems and proofs; `AlertSources_proofs` has those of `SilenceWatch` and `Rules`, `Dashboard_proofs` those of `HealthCard`, `Summary` and `LiveFeed`, `Components_proofs` those of `Digest` and of the composition | |

Some definitions are preceded by a `Mutant of ...`: the change a plausible bug would make
to them. They are in no specification; `PROJECT.json` names the property each one breaks.

### Ingestion

Events are model values, a content a revision number. `pc[t]` says at which await each of the three
tasks is: the initial poll, the scheduled poll (`run_poll_cycle`) and the backfill
(`run_backfill`). `Request` / `Answer` / `Receive` are `USGSClient._fetch` around its await:
the ETag is read before it and stored after it, before the body is parsed. `ReadExisting`
and `WriteOne` are `upsert_features`: read the stored revisions, then an unordered
`bulk_write`, one operation at a time, which sets the document whatever it holds by then.
`Quarantine`, `Record`, `MarkRunning`, `MarkComplete`, `MarkFailed` are the other writes.
Failures: USGS rejects, is unreachable, answers garbage or an older copy; a MongoDB call
raises, applied or not; the process dies or is shut down anywhere. One `Request` stands for
`upstream_retry`'s attempts: they send the same header, and only the last answer counts.

`FirstRunTime` is the one switch that is not a setting: the code gives `add_job`
`next_run_time=None`, which APScheduler 3 takes as "paused". `"None"` is the code;
`"interval"` is what the docs describe. No property that is said to hold rests on the job's running:
`BootSpec` has the fairness of the process and its tasks, and owes no `Tick`. What the
docs promise of the job (`EventuallyAccountedFor`) is refuted, under `FairSpec` and `"None"`, in `IngestionPaused`.

### AlertLog, AlertPipeline

Ingestion appears as `StartBatch` (take `now`) and `WriteEvent` (one document of the batch,
stamped with that `now`). Each instance of the service opens a change stream, or falls
back to polling by `_last_seen_at`, evaluates each document it is given, and works through
`cands`, the candidates of the rules: `InsertRow`, then `EnqueueJob`. Which keys a revision fires is the
constant `Fires`: the consumer is correct or not whatever the rules are (`Rules` says what they
are), and the rules share keys between events (a swarm), between revisions and between one another. Every call
may fail, applied or not. A stream delivers a document as it is when it is delivered
(`updateLookup`), a cursor as it was when its query ran, with at most `FetchLimit` documents of
which equal stamps come in any order: a page may end inside a batch, and the rest of that batch is
then `PassedOver` by the next query's `$gt`. `evaluated` is kept for each instance, so that one
does not answer for another.

`AlertLog` has two steps per key, log it and hand it over, and no obligation to take the
second: a crash between `insert_one` and `enqueue_job` loses the alert for good, since the
dedup key is taken. The refinement is the identity on `rows` and `jobs`.

### Broadcast, Delivery

A job in `queue` is started in a free slot, reads the subscribers once, sends to each and
writes `delivery_status`. arq reruns a job only if the worker died under it: `Crash` leaves
`queue` as it is, `Exhausted` drops a job that has had its `max_tries`; an exception or
`job_timeout` (`JobFails`) ends it for good. `Register` is /start and /help, `MarkStopped` and
`AckStop` are the two awaits of /stop. The update of `delivery_status` and the end of the job in arq are one step.

`Broadcast` knows of an alert only whether it is owed, settled or given up, and who was
reached. The refinement mapping is `OutcomeOf`: what `alerts_log` and Redis say together. An
alert that is queued in one and in neither state of the other would map to "lost", which
`Broadcast` does not have; so the refinement says that no alert gets lost between the two,
that nobody is served after the end, and that "sent" is true.

### TelegramLimiter

Time is a tick, tokens are integer credits, one earned per tick. There is no clock: a
bucket keeps the time since its last refill, up to its capacity. The line of `asyncio.Lock`
is a sequence whose head holds the lock, asleep or not. `Cancel` is `job_timeout`, which
strikes wherever a sender waits. `age`, `grants` and `sends` are history: the window that
the properties look at may begin at any moment (`OpenWindow`), so they hold of every window.
Rounding of the floating-point tokens is not modelled.

### SilenceWatch

A tick is one interval of the job (120 s). Of `system_health` only the age of the youngest
ok row matters, and the row ingestion has stamped and not stored yet. Of the hours only this
and the last one matter. The check's awaits are its steps; the age it judges is that of the
row it has read, at the time it judges.

### Rules

A step is what `evaluate_event` does between two of its queries: `TakeChange` (the global
rule, the gates), `CheckLocations`, `CheckSwarm`. In between events are stored and revised,
locations added and removed. Magnitudes, distances and times are numbers on coarse scales;
`Distance` and `Cell` are tables. `Or` is the `or` of `rules.py:65`, for which 0 is not set;
`ShownMag` and `ShownRadius` are `effective_thresholds`, for which it is.

### Geocoder, Locations

A request is in `geo[r]` where `CachedGeocoder.forward` and `NominatimGeocoder` are, in
`post[r]` where `create_location` is. `line` is the `asyncio.Lock` of the rate limiter, whose
holder sleeps (`nap`). The page is `view` (its cards), `form`, and `loads`, its requests of the
list, which arrive in any order. Its `remove` does not get to the refresh: section 5.

### Summary

`asking` is the query `build_location_summary` waits for. Events enter and leave the radius,
are revised and age from window to window meanwhile; a request is shorter than a window, so an
event ages once in it. Of the score only what it is summed over and its `largest` are there.

### LiveFeed

`gen` is the generator of `stream_event_changes`: a change stream, or pages by stamp. `fetches`
are the view's requests, of which only the last is `alive`; `sent` is what is on the wire to
`onSseEvent`. `StartBatch` and `StoreEvent` are ingestion: a batch shares its stamp and is written event by
event, by as many tasks as there are. `NewestOf` is the limit of GET /events. The documents of a page are yielded
by stamp, ties in any order, so the page is a set.

The code loses changes in three places, and the module keeps account of the events each one has struck since
their last change: `raced`, whose frame arrived between the answer to the last request and its arrival,
so that the answer overwrote it; `skipped`, for which the answer had no room; and `overlooked`, which
the fallback has behind it, because a page ended inside their batch or because they were written
when it had read their stamp or a later one. `FeedIsCurrent` is about all the others. The cut of the
list at 1000 is left out.

### HealthCard

`refresh[k]` is a `get_system_health` under way, with what it has read; several may be, and
answer in any order. A poll's row is stamped first and stored later, or never. `PickTone` is
`pickTone` with the browser's clock, taken to be the server's.

### Digest

`update[u]` is a message to the bot, from `_dispatch_command` to the webhook's answer; if the
handler raises, Telegram delivers it again. `job` are the summary jobs in the order they
were enqueued; there is no job id, so nothing merges two of them. `Button` is the dashboard and
the cron. The worker runs jobs as `Delivery` does.

### Components

Each of these modules has an environment that may do whatever the rest of the system can do to
the collections it reads (events stored and revised, rows written late, locations removed
elsewhere, commands, clocks). No behaviour of one depends on another's state, so they are
checked one in each behaviour: `part` says which, and the others' variables do not change. Of
`Locations` there are two parts, since all of it at once is too much: requests with queries,
without the page, and the page with requests of coordinates.

## 3. What is checked

Twelve runs; the bounds are the constants of the `.cfg`. Every property of a passing run is
broken by at least one mutant of the code.

| run | shows | bounds |
|---|---|---|
| IngestionBoot | `StoredBeforeReported`, `RowBeforeComplete`, `RegressionNeedsOverlap`, `BackfillRunsOnce` while initial poll and backfill overlap, with a crash and any one failure | 2 events, 2 revisions, one of them malformed, an event without `updated`; 2 starts, 1 failure |
| IngestionLive | `EtagIsBacked`, `PublishedIsLoaded`, `BackfillCompletes`, owing nothing to the interval job | 1 event, 2 revisions of which the second is malformed, 2 starts, no failure |
| AlertsSafe | `JobsAreLogged`, `AtMostOneJob`, and `PromiseKept`: the pipeline implements `AlertLog` | 2 events, 2 revisions, 3 keys, 2 instances, 2 starts each, pages of 1, 2 failures of any kind (a broken stream and then a broken fallback) |
| AlertsLive | `DedupOnceIndexed`; `ReceivedIsEvaluated`, `LoggedIsHandedOver` | 2 events, 1 key, 2 instances, batches of 2, pages of 1; the index late, 1 failure of the index or the stream |
| Delivery | `CopiesBounded`, and `BroadcastKept`: the worker implements `Broadcast`; `AlertsAreSettled`, `SubscribersAreReached` | 2 alerts, 2 chats, 1 slot, 2 tries, 2 crashes, 1 failure, 1 command |
| Limiter | `GrantsBounded`, `SendsBounded`, `LinesAreSound`; `EverybodyIsServed` | 2 senders, 2 chats, a second of 2 ticks, windows of 1 tick |
| Components | of the silence watch `OncePerHour`, `QuietHourIsReported`, `SilenceIsReported`; of the rules `CardIsKept`, `SwarmIsReported`; of the locations `CallsAreSpaced`, `OverCapNeedsOverlap`, `AddedIsShown`; of the cards `CardAgrees`, `GoodIsEarned`, `SilenceIsShown`; of the live feed `FeedIsCurrent`; of the digest `NobodyUnasked`, `SummaryIsAnswered` | below |
| IngestionPaused, AlertsTie, AlertsUnindexed, DeliveryNoRetry, LocationsRemove | where the code disagrees with its docs or itself: section 5 | |

Why the bounds are enough to be interesting:

- *Ingestion.* A lost update needs two writers and a revision between one's read and its
  write: 2 revisions. Two events make a bulk write fail half way. Two starts
  are a crash at every await and the run after it.
- *AlertPipeline.* A duplicate needs two evaluations of one key: by two instances, by two
  revisions, by two events or by a restart, all of which are there. Batches of two are written one
  event at a time; with `FetchLimit = 1` every page that finds both ends inside the batch. Restarts and liveness would not fit one run: `AlertsLive`
  has one start per instance.
- *Delivery.* With one slot and two alerts a job waits for another. Two crashes with two
  tries exhaust a job.
- *TelegramLimiter.* The code's buckets hold one second of refill; so do these. Two senders
  in two chats meet in the global line, and in one chat in its own. Longer windows are
  in the proof, for every length.
- *SilenceWatch.* Threshold 2 ticks, hour 3, TTL 13, upserts of up to 1; 1 failure, 1 restart.
  The alarm may lose an hour for each failure and restart, and the hour in
  which a first outage was reported: the TTL has room for all of them, and then runs out.
  In the code it is 7 days, 5040 ticks.
- *Rules.* 2 events, 1 location id, 3 changes. A swarm of 2 events in a window of 1; contents
  without magnitude, without time, below every threshold and on each of them; locations
  with the default, with stricter thresholds, and with 0. Three changes are a swarm and a revision of
  one of its events, or an add with stores around it. The theorems hold for any number.
- *Geocoder, Locations.* Two requests of one query: one finds what the other has
  stored, or both call. An interval of 2 ticks, 2 attempts. Cap 1, so that a second request meets the cap,
  and two between the count and the insert exceed it. Three lists: the first, one after an add, one overtaking.
- *Summary.* 2 events, with and without a magnitude, and a limit of 1, so that the list of
  scored events is cut while the counts are not.
- *LiveFeed.* 2 batches of 2 events (`BatchSizes`), of which one is too old for the first window; pages
  of 1 and lists of 1, so that both end inside a batch; one frame on the wire (`MaxWire`), the others
  wait in the change stream or the page; one switch of the window or one lost connection
  (`MaxMoves`). A batch may stay half written, so one event can change without the other. One writer:
  in the run there is no room for two. The theorem has any number of writers, and any bounds.
- *HealthCard.* Two refreshes that overtake each other, 2 rows, ages on both sides of both
  thresholds, a streak of 2.
- *Digest.* 2 chats, one update that may be delivered twice, 2 jobs, 1 failure or crash.

`CHECK_DEADLOCK FALSE` is in the configurations in which the bounds let everything stop: no
starts, batches, alerts, changes or commands left. `TelegramLimiter` never stops and is
checked for deadlock.

### Fairness

- Weak fairness of a task's steps: the asyncio loop runs whatever can run, and a call to
  MongoDB, Redis, USGS or Telegram returns or raises (all have timeouts). Failures are
  bounded by `MaxFaults` and owe nothing; in `AlertPipeline`, `Delivery` and `SilenceWatch` a failing call may
  stand for the step it takes the place of.
- Weak fairness of `Boot`: the platform restarts a process that died. Crashes are never fair.
- `Tick` of `Ingestion`, only in `IngestionPaused`: the scheduler fires a job that is due. It is never
  enabled with `FirstRunTime = "None"`, so it excuses nothing there.
- `Tick` of `TelegramLimiter` and `SilenceWatch`, `Clock` of `Geocoder`: time passes.
- `HealthCard`: the card's interval fires (`load` every 30 s), and a refresh is answered or fails.
- `Digest`: the worker is restarted and runs every job it finds. What people write owes nothing.
- `Locations` (in `LocationsRemove`): the api serves each request, and the page takes each answer.
- USGS publishing, users' commands, new batches and new alerts owe nothing.
- `SilenceWatch` bounds durations too, in the guard of `Tick`: a due check starts in its tick,
  a check takes less than two ticks (240 s for three calls), an upsert at most
  `MaxUpsert`. Without them no alarm can promise anything by the end of an hour.

## 4. What is proved

The theorems hold of every value of the constants that satisfies the named assumptions of the
module: any number of events, instances, alerts, chats, senders, restarts and failures.

| module | theorems | the inductive invariant, and why it is needed |
|---|---|---|
| `Ingestion_proofs` | `TypeCorrect`, `ReportsAreTrue` (`StoredBeforeReported`), `RegressionsAreOverlaps`, `BackfillIsIdempotent` (`BackfillRunsOnce`) | `UpsertInv`: in the middle of a bulk write, each valid feature is stored already or still among the operations. `OnceInv`: only the backfill touches `meta`, and not while it says "complete". |
| | `RowsPrecedeCompletion` (`RowBeforeComplete`), `EtagsVouch` (`EtagIsBacked`) | `RowInv`: without a failure no task is on its way to an error row, and the row is there before the status. `HeldStays`: what a poll holds when the ETag is set stays held until `UpsertInv` has it stored. |
| | `OneWriterIsFresh`, `OneWriterMovesForward`: assuming `OneWriter`, no backfill and no interval job | `OneWriterInv`: what the only writer read is still there when it writes. With two writers both are false: a poll overlapping the backfill may move `updated` back. |
| | `PausedJobNeverPolls`: assuming `FirstRunTime = "None"`, as the code has it | only the task that takes a step moves, and it was not idle (`OneTaskMoves`): so of the steps only a start makes an idle poll begin, and only the initial one. |
| `AlertPipeline_proofs` | `TypeCorrect`, `JobsHaveRows` (`JobsAreLogged`), `LateIndexDedups` (`DedupOnceIndexed`) | `LogInv`: for each key, the jobs and the instances about to enqueue are no more than the rows. `JobsAreLogged` alone says nothing of an instance between its two calls, and it is those that a late index finds under way: one row per key leaves room for one of them or one job. |
| | `AlertsAreDeduplicated` (`AtMostOneJob`), `PipelineKeepsPromise` (`PromiseKept`): assuming `IndexAtStart` | with the index, `LogInv` leaves room for one row, hence one job or one instance about to enqueue it; each step is a step of `AlertLog` or a stutter. Every action is first put into one of a few shapes (`StepShape`) of which the invariant is shown. |
| `Delivery_proofs` | `TypeCorrect`, `CopiesAreBounded`, `WorkerKeepsPromise` (`BroadcastKept`) | `DeliveryInv`: a subscriber still to be served has had fewer copies than the job has had runs; a job that runs is queued, and its alert is not settled; an alert still "queued" has its job or a failed one; a count of sent messages has a chat behind it. |
| | `SentIsNeverALie`, `EndsAreFinal` | from the refinement: `Broadcast` reaches nobody after the end and settles as "sent" only what was received, and a step of the worker is one of its steps (`BroadcastStep`). |
| `TelegramLimiter_proofs` | `BucketsAreBounded` (`GrantsBounded`) | `CreditInv`: what was granted, what is in the bucket and what the time since its refill is worth never exceed the capacity and the window. |
| | `LocksAreHeldByTheLiving` (`LinesAreSound`), `TypeCorrect` | `LineInv`: a sender is in the line its `pc` and its chat name, once, and in no other; `RemoveFirst` keeps the others in order. |
| | `MessagesAreBounded` (`SendsBounded`) | `SendInv`: messages and the senders that hold a global token, against its grants. |
| `AlertSources_proofs` | of the watch: `TypeCorrect`, `OutagesDoNotSpam` (`OncePerHour`) | `OnceInv`: an alert handed over, or about to be, has its row; a key names the last hour only in a check that began in it. |
| | `QuietHoursAreReported` (`QuietHourIsReported`): assuming an hour of three ticks or more | `QuietInv`: in a quiet hour, until its alert is out, a check is due from the second tick on, and from the third on one is running that may not run on; so the hour cannot end. `SeenInv`: the row a check has found is never younger than the youngest, so it is as silent. |
| | of the rules: `RulesTypeCorrect`, `CardsAreKept` (`CardIsKept`), `SwarmsAreReported` (`SwarmIsReported`) | `NearInv`, `SwarmInv`: an alert that is promised has fired, or the event's change is pending, or it is being evaluated and the query that finds it has not run or has found it. Of a swarm only the part stored before its last event (`Early`) counts: it never grows while that event stays. |
| `Locations_proofs` | `LocationsTypeCorrect`, `CallsStaySpaced` (`CallsAreSpaced`) | `GeoInv`: who sleeps with the lock is the head of the line, and its nap and the time since the last call make an interval. |
| | `CapNeedsOverlap` (`OverCapNeedsOverlap`) | `CapInv`: without an overlap, the locations and whoever is about to insert one are no more than the cap. |
| | `AddedGetShown` (`AddedIsShown`) | `ShownInv`: from some list on, all were requested after the add; those that arrive have it, and as soon as one has arrived the page has it or says why not. |
| `Dashboard_proofs` | `HealthTypeCorrect`, `GoodTonesAreEarned` (`GoodIsEarned`) | `AnswerIsBacked`: rows are only added, so the last poll an answer has read keeps its row, and a streak of 0 read after it has an ok row behind it that is at least as young. |
| | `SummaryTypeCorrect`, `CardsAgree` (`CardAgrees`) | one part for each query that is still to come (`NearbyInv`, `DayInv`, `WeekInv`, `MonthInv`): what has been counted is the size of a set of events that are still there and still of the next window, since an event grows into the next window at most once during a request. That a finite set of numbers has a largest is proved by well-founded induction over its subsets. |
| | `FeedTypeCorrect`, `FeedsAreCurrent` (`FeedIsCurrent`) | `ListInv`: a changed event of the window is excused, or *due* (the generator has yet to yield it), or the last frame of it on the wire is the event as it is now, or the list shows it, or the last request's answer has it or is yet to be made. `FrameInv`: a frame on the wire is older than the list only if a newer one follows it or is due, or the fallback has overlooked the event; so no frame puts back what was there. `HeldInv`: but for the overlooked, a page holds no later document than there is, and every one up to its last, so nothing else is skipped when the cursor moves to the document yielded. |
| `Components_proofs` | `DigestTypeCorrect`, `NobodyGetsUnasked` (`NobodyUnasked`) | `DigestInv`: a chat that is known has registered, and every job, queued, under way or run again, has only chats that asked or were named left to send to. |
| | `ComponentTypesHold` (`TypesOK`), `ComponentsKeepPromises`, `QuietHoursStayReported`, `CallsStaySpacedTogether` | `EachKeepsToItsSpec`: a step of the composition is to each component a step of its own or none, so a behaviour of the composition is one of each component (a part of `Locations` is a part of its steps), without the fairness; and the theorems above hold of it, all at once. |

Every property of a passing run that is an invariant, an action property or a refinement is proved.
What a theorem assumes is in its statement or in the assumptions of its module: `IndexAtStart`,
`OneWriter`, `FirstRunTime = "None"`, `Hour >= 3`, and of constants that they are numbers, tables or finite sets, and
that the value that stands for "nothing" (`None`, `NoRow`, `NoCard`, `NoPoll`) is not one of the others.

Only model-checked: liveness (`PublishedIsLoaded`, `BackfillCompletes`,
`ReceivedIsEvaluated`, `LoggedIsHandedOver`, `AlertsAreSettled`, `SubscribersAreReached`,
`EverybodyIsServed`, `SilenceIsReported`, `SilenceIsShown`, `SummaryIsAnswered`), which is out of
the prover's reach under fairness.

## 5. Where the code and its docs disagree

Each has a run that shows it.

- **IngestionPaused.** `main.py:98` adds the interval job with `next_run_time=None`: paused.
  After the initial poll no poll happens, which `PausedJobNeverPolls` proves for any events, settings
  and failures. `README.md:46`: "60s live poller".
- **AlertsTie.** `change_stream.py:81` asks for `_last_seen_at` `$gt` the last one delivered,
  and a batch shares one stamp: an event written after a mate was delivered is never
  evaluated; nor is one that a page of 200, ending inside the batch, leaves out: a month is
  one batch of thousands. `change_stream.py:4`: "every event that lands gets evaluated".
- **AlertsUnindexed.** `ensure_indexes` is tried once; if it fails, duplicates are accepted
  and sent. `ARCHITECTURE.md:127`: "`ensure_indexes` retried on next write".
- **DeliveryNoRetry.** `jobs.py:141` turns a failed send into `False`, the job ends as a success
  and arq retries nothing. `ARCHITECTURE.md:130`: "arq retries with backoff".
- **LocationsRemove.** `request` (`web/src/lib/api.ts:89`) parses every body as JSON, and the 204 of
  DELETE has none: `remove` (`LocationsView.tsx:33`) throws before its refresh, the card stays,
  and at the cap the form stays shut until the page is opened again. `locations.py:42`: "delete one before
  adding another".

Met while modelling, without a run of their own:

- *Ingestion.* A poll whose MongoDB call raises leaves no row at all (`poller.py:88`), against `poller.py:36`.
  An unreachable USGS ends the backfill with an httpx error it does not catch
  (`usgs.py:89`): the status stays "running" and no row is written. Poll and backfill overlapping
  may move a stored `updated` back (`repo.py:54`, `backfill.py:42`).
- *Consumer.* The fallback also misses a batch stamped earlier and written later by the other task.
  Events stored while the consumer is down, or between two streams, are not evaluated.
  An alert whose enqueue fails after its insert is never sent (`dispatcher.py:51`); after a
  failed status update, or a timeout, it stays "queued" (`jobs.py:65`).
- *Rules.* A `near_mag` below the default is shown on the card and cut off by `rules.py:59`; 0 is
  shown and taken for the default by `rules.py:65`. A swarm completed by an event that is
  stored late, or by a revision, may go unreported; one that straddles two cells of a tenth of a degree, or
  two buckets, is reported more than once.
- *Chats.* A chat that stops during a broadcast may get the alert after "you won't receive further
  alerts" (`webhook.py:103`). /help resubscribes. A /stop that is delivered again may undo a later /start.
- *Silence.* `silence_realert_suppression_minutes` (`config.py:59`) is read nowhere; a silence longer
  than the TTL of `system_health` is no longer a silence to `check_silence`. With the interval
  job paused, the alarm sounds ten minutes after every start.
- *Limiter.* A full bucket and its refill are almost 60 messages in one second (`rate_limit.py:4`: "30
  messages/second globally per bot"): `GrantsBounded` is what does hold.
- *Geocoding.* The second attempt of a call does not wait for the limiter; two requests of one
  text that miss the cache both call.
- *Dashboard.* The answer of a fetch overwrites what SSE has pushed since it was read
  (`GlobalView.tsx`), and has no more than the newest 500 events of a window, whatever its size.
  The fallback of the stream loses events of equal stamps, as the consumer does, with pages of 100
  (`queries.py:235`; `ARCHITECTURE.md:129`: "Same correctness").
  The error of a location's card is never cleared. A list that arrives late replaces a newer one.
- *Summary.* The score and the largest event may come from different sets of events: at most 500 are
  scored. Every instance of the alerts service enqueues a daily summary of its own.

## 6. What is not modelled

- *Risk score*: exponentials and great-circle distances in floating point, which TLC does not have.
  Which events are scored is in `Summary`.
- *Message texts, metrics, logging, configuration, validation models, deployment
  scripts*: no state a property is about. That the platform restarts a process, and overlaps
  two instances in a deploy, is assumed.
- *What the digest says* (`aggregations.py`), severity, the success rate of the health card: read and
  formatted, never written or acted on.
- *GET /events/near, the filters by magnitude and box, the limit of the summary button and its
  job status, reverse geocoding*: single reads, or without a caller in the dashboard.
- *Rendering*: maps, tables, colours; the cut of the live list at 1000 events (`GlobalView.tsx`).
- *Rounding* of the floating-point tokens, and of stamps.
- *The index by `usgs_id` and other indexes* except those the dedup, the TTL and the cache rest on.
- arq, APScheduler, MongoDB, Redis, Telegram and Nominatim are modelled as the code uses them.

## 7. What could follow

1. `AlertPipeline` and `Delivery` over one `alerts_log`: an abstract specification of an alert's
   life from candidate to settled, of which `AlertLog` and `Broadcast` are the halves.
2. `AlertPipeline` with `Fires` computed by `Rules`.
