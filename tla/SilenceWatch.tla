----------------------------- MODULE SilenceWatch -----------------------------
(***************************************************************************)
(* The source-silence alarm of the alerts service: a job of its scheduler  *)
(* looks for the youngest ok row of `system_health`, which the ingestion   *)
(* service writes and a TTL index deletes, and dispatches an alert whose   *)
(* dedup key is the hour.  A tick is one interval of the job (120 s); of   *)
(* the hours only this one and the last one matter, and of the collection  *)
(* only the age of its youngest ok row.                                    *)
(***************************************************************************)
EXTENDS Naturals

CONSTANTS
  Threshold,   \* ticks: silence_threshold_minutes
  Hour,        \* ticks of an hour bucket
  Ttl,         \* ticks a row of system_health is kept
  NoRow,       \* there is no such row
  MaxUpsert,   \* ticks an upsert takes at most
  Failing,     \* what fails: a subset of FaultKinds
  MaxFaults,   \* bound: failures
  MaxRestarts  \* bound: restarts of the alerts service

FaultKinds == {"query", "insert", "enqueue"}
Ages  == 0..Ttl
Hours == {"this", "last"}

ASSUME TimeAssumption == /\ Threshold \in Nat \ {0} /\ Hour \in Nat \ {0}
                         /\ Ttl \in Nat \ {0} /\ NoRow \notin Ages
                         /\ MaxUpsert \in Nat
ASSUME BoundAssumption == /\ MaxFaults \in Nat /\ MaxRestarts \in Nat
                          /\ Failing \subseteq FaultKinds

VARIABLES
  lastOk,   \* system_health: the age of the youngest ok row
  storing,  \* ingestion: the age of an ok row stamped but not inserted yet
  position, \* the position of this tick in its hour
  logged,   \* alerts_log: the hours with a source_silence row
  handed,   \* Redis: the jobs enqueued for each hour's alert
  due,      \* the scheduler has a check to start in this tick
  pc,       \* where the running check is
  late,     \* the running check was running in the last tick already
  seen,     \* last_ok: the age of the row the check has found
  key,      \* the hour in the dedup key of the check's candidate
  faults, restarts,
  reported, \* history: an alert was handed over since the feed was last fresh
  quiet     \* history: the hours silent all through, in which nothing failed

rowVars   == <<lastOk, storing>>
alertVars == <<logged, handed>>
checkVars == <<pc, late, seen, key>>
boundVars == <<faults, restarts>>
histVars  == <<reported, quiet>>
vars == <<rowVars, position, alertVars, due, checkVars, boundVars, histVars>>

SilentAt(age) == age # NoRow /\ age >= Threshold
Silent == SilentAt(lastOk)
Fresh  == lastOk # NoRow /\ lastOk < Threshold

Init ==
  /\ lastOk = NoRow /\ storing = NoRow /\ position = 0
  /\ logged = {} /\ handed = [h \in Hours |-> 0]
  /\ due = FALSE /\ pc = "idle" /\ late = FALSE /\ seen = NoRow /\ key = "this"
  /\ faults = 0 /\ restarts = 0
  /\ reported = FALSE /\ quiet = {}

Loud == quiet' = quiet \ {"this"}

Fault(kind) ==
  /\ kind \in Failing /\ faults < MaxFaults
  /\ faults' = faults + 1
  /\ UNCHANGED restarts
  /\ Loud

-----------------------------------------------------------------------------
(* Time *)

\* Mutant of Older: a row outlives its TTL.
OlderForever(age) == IF age = NoRow THEN NoRow ELSE age + 1

\* Beyond its TTL a row is as old as can be, until the TTL monitor finds it.
Older(age) == CASE age = NoRow -> NoRow
                [] age = Ttl   -> Ttl
                [] OTHER       -> age + 1

\* A set of hours when the next one begins.
Past(hours) == {h \in {"last"} : "this" \in hours}

\* Mutant of NextHour: the dedup key does not name the hour.
NextHourSameKey ==
  /\ handed' = [h \in Hours |-> IF h = "this" THEN 0 ELSE handed["this"]]
  /\ key' = IF pc = "idle" THEN key ELSE "last"
  /\ quiet' = Past(quiet) \cup (IF SilentAt(Older(lastOk)) THEN {"this"} ELSE {})
  /\ UNCHANGED logged

NextHour ==
  /\ logged' = Past(logged)
  /\ handed' = [h \in Hours |-> IF h = "this" THEN 0 ELSE handed["this"]]
  /\ key' = IF pc = "idle" THEN key ELSE "last"
  /\ quiet' = Past(quiet) \cup (IF SilentAt(Older(lastOk)) THEN {"this"} ELSE {})

\* The scheduler starts a check in the tick it is due, a check takes less than two ticks,
\* and an upsert at most MaxUpsert.
Tick ==
  /\ ~due /\ (pc # "idle" => ~late) /\ (storing # NoRow => storing < MaxUpsert)
  /\ lastOk' = Older(lastOk) /\ storing' = Older(storing) /\ seen' = Older(seen)
  /\ due' = TRUE /\ late' = (pc # "idle")
  /\ IF position < Hour - 1
       THEN position' = position + 1 /\ UNCHANGED <<alertVars, key, quiet>>
       ELSE position' = 0 /\ NextHour
  /\ UNCHANGED <<pc, boundVars, reported>>

-----------------------------------------------------------------------------
(* The rows of system_health *)

\* A poll, or the backfill, takes `now`; the upsert follows.
StampRow ==
  /\ storing = NoRow
  /\ storing' = 0
  /\ UNCHANGED <<lastOk, position, alertVars, due, checkVars, boundVars, histVars>>

\* record_health inserts the row, stamped with that `now`.
StoreRow ==
  /\ storing # NoRow
  /\ lastOk' = IF lastOk = NoRow \/ storing < lastOk THEN storing ELSE lastOk
  /\ storing' = NoRow
  /\ reported' = (reported /\ ~Fresh')
  /\ quiet' = IF SilentAt(lastOk') THEN quiet ELSE quiet \ {"this"}
  /\ UNCHANGED <<position, alertVars, due, checkVars, boundVars>>

\* The upsert or the insert fails, or the ingestion service dies.
LoseRow ==
  /\ storing # NoRow
  /\ storing' = NoRow
  /\ UNCHANGED <<lastOk, position, alertVars, due, checkVars, boundVars, histVars>>

\* ix_ts_ttl: MongoDB deletes expired rows, sooner or later.
Expire ==
  /\ lastOk = Ttl
  /\ lastOk' = NoRow
  /\ Loud
  /\ UNCHANGED <<storing, position, alertVars, due, checkVars, boundVars, reported>>

-----------------------------------------------------------------------------
(* check_silence *)

Goto(l) == pc' = l /\ UNCHANGED <<late, seen>>
Done    == pc' = "idle" /\ late' = FALSE /\ seen' = NoRow /\ key' = "this"

\* The job is due; max_instances=1: not while its last run still runs.
StartCheck ==
  /\ due /\ due' = FALSE
  /\ IF pc = "idle" THEN pc' = "read" ELSE UNCHANGED pc
  /\ UNCHANGED <<rowVars, position, alertVars, late, seen, key, boundVars, histVars>>

\* find_one({status: ok}), the youngest first; without one, nothing to report.
ReadLastOk ==
  /\ pc = "read"
  /\ IF lastOk = NoRow THEN Done
                       ELSE pc' = "judge" /\ seen' = lastOk /\ UNCHANGED <<late, key>>
  /\ UNCHANGED <<rowVars, position, alertVars, due, boundVars, histVars>>

\* Mutant of Judge: it fires when the threshold is reached, not while it is exceeded.
JudgeOnce ==
  /\ pc = "judge"
  /\ IF seen = Threshold THEN Goto("insert") /\ key' = "this" ELSE Done
  /\ UNCHANGED <<rowVars, position, alertVars, due, boundVars, histVars>>

\* After the await: the age now, and the hour bucket of make_silence_candidate.
Judge ==
  /\ pc = "judge"
  /\ IF SilentAt(seen) THEN Goto("insert") /\ key' = "this" ELSE Done
  /\ UNCHANGED <<rowVars, position, alertVars, due, boundVars, histVars>>

\* Mutant of InsertAlert: the duplicate key is not noticed.
InsertAnyway ==
  /\ pc = "insert"
  /\ logged' = logged \cup {key}
  /\ Goto("enqueue")
  /\ UNCHANGED <<rowVars, position, handed, due, key, boundVars, histVars>>

\* dispatch: insert_one, refused by ix_dedup_key if this hour has its row.
InsertAlert ==
  /\ pc = "insert"
  /\ IF key \in logged THEN Done ELSE Goto("enqueue") /\ UNCHANGED key
  /\ logged' = logged \cup {key}
  /\ UNCHANGED <<rowVars, position, handed, due, boundVars, histVars>>

\* dispatch: enqueue_job.
Enqueue ==
  /\ pc = "enqueue"
  /\ handed' = [handed EXCEPT ![key] = @ + 1]
  /\ reported' = ~Fresh
  /\ Done
  /\ UNCHANGED <<rowVars, position, logged, due, boundVars, quiet>>

\* A call raises, applied or not: the scheduler logs it, the next check is due in its time.
CheckFails ==
  /\ \/ pc = "read" /\ Fault("query") /\ UNCHANGED <<alertVars, reported>>
     \/ /\ pc = "insert" /\ Fault("insert")
        /\ logged' \in {logged, logged \cup {key}}
        /\ UNCHANGED <<handed, reported>>
     \/ /\ pc = "enqueue" /\ Fault("enqueue")
        /\ \/ UNCHANGED <<handed, reported>>
           \/ handed' = [handed EXCEPT ![key] = @ + 1] /\ reported' = ~Fresh
        /\ UNCHANGED logged
  /\ Done
  /\ UNCHANGED <<rowVars, position, due>>

\* The process dies, or is redeployed; the interval begins anew.
Restart ==
  /\ restarts < MaxRestarts
  /\ restarts' = restarts + 1
  /\ due' = FALSE
  /\ Done
  /\ Loud
  /\ UNCHANGED <<rowVars, position, alertVars, faults, reported>>

CheckStep == StartCheck \/ ReadLastOk \/ Judge \/ InsertAlert \/ Enqueue

Next ==
  \/ Tick
  \/ StampRow \/ StoreRow \/ LoseRow \/ Expire
  \/ CheckStep \/ CheckFails \/ Restart

Spec == Init /\ [][Next]_vars

\* Time passes, the loop runs a check that can run, an upsert ends.
FairSpec == Spec /\ WF_vars(Tick) /\ WF_vars(CheckStep) /\ WF_vars(StoreRow \/ LoseRow)

-----------------------------------------------------------------------------
(* Properties *)

\* Every variable has its type.
TypeOK ==
  /\ lastOk \in Ages \cup {NoRow} /\ storing \in Ages \cup {NoRow}
  /\ position \in 0..(Hour - 1)
  /\ logged \subseteq Hours /\ handed \in [Hours -> Nat]
  /\ due \in BOOLEAN /\ pc \in {"idle", "read", "judge", "insert", "enqueue"}
  /\ late \in BOOLEAN /\ seen \in Ages \cup {NoRow} /\ key \in Hours
  /\ faults \in 0..MaxFaults /\ restarts \in 0..MaxRestarts
  /\ reported \in BOOLEAN /\ quiet \subseteq Hours

\* A long outage alerts once an hour ("doesn't spam Telegram every 2 minutes",
\* silence.py:4-5), also if a check crosses into the next hour, fails or is cut.
OncePerHour == \A h \in Hours : handed[h] <= 1

\* An hour of silence in which nothing failed has been reported by its end, whatever was
\* reported before it ("re-fire if silence persists across hours", rules.py:213), as long
\* as the TTL has left an ok row to be silent since.
QuietHourIsReported == "last" \in quiet => handed["last"] = 1

\* A silence is reported, unless the feed recovers first: failures, restarts and an
\* earlier outage in the same hour delay it by hours, not beyond the TTL.
SilenceIsReported == Silent ~> (reported \/ Fresh)
=============================================================================
