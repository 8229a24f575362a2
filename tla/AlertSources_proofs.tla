------------------------ MODULE AlertSources_proofs -------------------------
(***************************************************************************)
(* The two sources of alerts, SilenceWatch and Rules.  The watch is type-  *)
(* correct, reports an hour at most once and every hour of silence that is *)
(* due, whatever the threshold, the hour, the TTL, the failures and restarts; *)
(* the rules keep the promise of the cards and report a swarm with its last *)
(* event, for every number of events, contents, locations and sites and every *)
(* setting of the thresholds.                                              *)
(***************************************************************************)
EXTENDS SilenceWatch, Rules, TLAPS, FiniteSetTheorems, SequenceTheorems

-----------------------------------------------------------------------------
(* SilenceWatch: type correctness *)

LEMMA OlderType == ASSUME NEW age \in Ages \cup {NoRow} PROVE Older(age) \in Ages \cup {NoRow}
BY TimeAssumption DEF Older, Ages

LEMMA ZeroIsAge == 0 \in Ages
BY TimeAssumption DEF Ages

LEMMA HandedType ==
  ASSUME handed \in [Hours -> Nat], key \in Hours,
         handed' \in {handed, [handed EXCEPT ![key] = @ + 1]}
  PROVE  handed' \in [Hours -> Nat]
OBVIOUS

\* The type invariant in two parts, the Boolean variables and the others.
Flags == due \in BOOLEAN /\ late \in BOOLEAN /\ reported \in BOOLEAN
Data ==
  /\ lastOk \in Ages \cup {NoRow} /\ storing \in Ages \cup {NoRow}
  /\ position \in 0..(Hour - 1)
  /\ logged \subseteq Hours /\ handed \in [Hours -> Nat]
  /\ pc \in {"idle", "read", "judge", "insert", "enqueue"}
  /\ seen \in Ages \cup {NoRow} /\ key \in Hours
  /\ faults \in 0..MaxFaults /\ restarts \in 0..MaxRestarts
  /\ quiet \subseteq Hours

LEMMA WatchParts == TypeOK <=> Flags /\ Data
BY DEF TypeOK, Flags, Data

LEMMA InitTypeOK == Init => TypeOK
<1>1. Init => Flags BY DEF Init, Flags
<1>2. Init => Data BY TimeAssumption, BoundAssumption DEF Init, Data, Hours
<1> QED BY <1>1, <1>2, WatchParts

LEMMA NextFlags == Flags /\ [Next]_vars => Flags'
<1> SUFFICES ASSUME Flags, [Next]_vars PROVE Flags'
  OBVIOUS
<1> USE DEF Flags, checkVars, histVars
<1>1. CASE Tick BY <1>1 DEF Tick
<1>2. CASE StampRow \/ StoreRow \/ LoseRow \/ Expire
  BY <1>2 DEF StampRow, StoreRow, LoseRow, Expire
<1>3. CASE CheckStep
  BY <1>3 DEF CheckStep, StartCheck, ReadLastOk, Judge, InsertAlert, Enqueue, Goto, Done
<1>4. CASE CheckFails BY <1>4 DEF CheckFails, Done
<1>5. CASE Restart BY <1>5 DEF Restart, Done
<1>6. CASE UNCHANGED vars BY <1>6 DEF vars
<1> QED BY <1>1, <1>2, <1>3, <1>4, <1>5, <1>6 DEF Next

LEMMA NextData == Data /\ [Next]_vars => Data'
<1> SUFFICES ASSUME Data, [Next]_vars PROVE Data'
  OBVIOUS
<1> USE DEF Data, rowVars, alertVars, checkVars, boundVars, histVars
<1>1. CASE Tick
  <2>1. /\ lastOk' \in Ages \cup {NoRow} /\ storing' \in Ages \cup {NoRow}
        /\ seen' \in Ages \cup {NoRow}
    BY <1>1, OlderType DEF Tick
  <2>2. CASE position < Hour - 1 /\ position' = position + 1 /\ UNCHANGED <<alertVars, key, quiet>>
    BY <1>1, <2>1, <2>2, TimeAssumption DEF Tick
  <2>3. CASE position' = 0 /\ NextHour
    BY <1>1, <2>1, <2>3, TimeAssumption DEF Tick, NextHour, Past, Hours
  <2> QED BY <1>1, <2>2, <2>3 DEF Tick
<1>2. CASE StampRow \/ LoseRow \/ Expire
  BY <1>2, ZeroIsAge DEF StampRow, LoseRow, Expire, Loud, Hours
<1>3. CASE StoreRow
  BY <1>3, TimeAssumption DEF StoreRow, Hours
<1>4. CASE StartCheck \/ ReadLastOk \/ Judge
  BY <1>4 DEF StartCheck, ReadLastOk, Judge, Goto, Done, Hours
<1>5. CASE InsertAlert
  BY <1>5 DEF InsertAlert, Goto, Done, Hours
<1>6. CASE Enqueue \/ CheckFails
  <2>1. /\ UNCHANGED <<lastOk, storing, position, restarts>> /\ pc' = "idle"
        /\ seen' = NoRow /\ key' = "this" /\ quiet' \subseteq quiet
        /\ logged' \subseteq logged \cup {key}
        /\ handed' \in {handed, [handed EXCEPT ![key] = @ + 1]}
    BY <1>6 DEF Enqueue, CheckFails, Fault, Loud, Done
  <2>2. faults' \in 0..MaxFaults
    BY <1>6, BoundAssumption DEF Enqueue, CheckFails, Fault
  <2>3. handed' \in [Hours -> Nat]
    BY <2>1, Zenon, HandedType
  <2> QED BY <2>1, <2>2, <2>3 DEF Hours
<1>7. CASE Restart
  BY <1>7, BoundAssumption DEF Restart, Loud, Done, Hours
<1>8. CASE UNCHANGED vars
  BY <1>8 DEF vars
<1> QED BY <1>1, <1>2, <1>3, <1>4, <1>5, <1>6, <1>7, <1>8 DEF Next, CheckStep

LEMMA NextTypeOK == TypeOK /\ [Next]_vars => TypeOK'
<1>1. TypeOK' <=> Flags' /\ Data'
  BY DEF TypeOK, Flags, Data
<1> QED BY <1>1, WatchParts, NextFlags, NextData

\* Every variable keeps its type, for every threshold, hour, TTL and bound.
THEOREM TypeCorrect == Spec => []TypeOK
<1>1. Init => TypeOK BY InitTypeOK
<1>2. TypeOK /\ [Next]_vars => TypeOK' BY NextTypeOK
<1> QED BY <1>1, <1>2, PTL DEF Spec

-----------------------------------------------------------------------------
(* SilenceWatch: once per hour *)

\* An alert that was handed over has its row, and so has the one about to be handed
\* over, which has not been yet.
LoggedFirst == \A h \in Hours : handed[h] > 0 => h \in logged
LoggedAhead == pc = "enqueue" => key \in logged /\ handed[key] = 0

\* The key of a check names the last hour only once the check has run into this one; by
\* then the check is late, and ends before the hour after does.
KeyIsRecent == key = "last" => late /\ pc # "idle"

OnceInv == OncePerHour /\ LoggedFirst /\ LoggedAhead /\ KeyIsRecent

LEMMA InitOnce == Init => OnceInv
BY DEF Init, OnceInv, OncePerHour, LoggedFirst, LoggedAhead, KeyIsRecent, Hours

LEMMA NextOnce == TypeOK /\ OnceInv /\ [Next]_vars => OnceInv'
<1> SUFFICES ASSUME TypeOK, OnceInv, [Next]_vars PROVE OnceInv'
  OBVIOUS
<1> USE DEF OnceInv, OncePerHour, LoggedFirst, LoggedAhead, KeyIsRecent,
            rowVars, alertVars, checkVars, boundVars, histVars
<1>1. CASE Tick
  <2>1. pc # "idle" => key = "this"
    BY <1>1 DEF Tick, TypeOK, Hours
  <2>2. CASE UNCHANGED <<alertVars, key>>
    BY <1>1, <2>1, <2>2 DEF Tick
  <2>3. CASE NextHour
    <3>1. handed'["this"] = 0 /\ handed'["last"] = handed["this"]
      BY <2>3 DEF NextHour, Hours
    <3>2. "this" \in logged => "last" \in logged'
      BY <2>3 DEF NextHour, Past
    <3>3. pc' = pc /\ (IF pc = "idle" THEN key' = key ELSE key' = "last" /\ late')
      BY <1>1, <2>3 DEF Tick, NextHour
    <3>4. LoggedFirst' /\ OncePerHour'
      BY <3>1, <3>2 DEF Hours
    <3>5. pc = "enqueue" => "this" \in logged /\ handed["this"] = 0
      BY <2>1
    <3> QED BY <3>1, <3>2, <3>3, <3>4, <3>5
  <2> QED BY <1>1, <2>2, <2>3 DEF Tick
<1>2. CASE StampRow \/ StoreRow \/ LoseRow \/ Expire
  BY <1>2 DEF StampRow, StoreRow, LoseRow, Expire
<1>3. CASE StartCheck \/ ReadLastOk \/ Judge
  <2>1. (UNCHANGED alertVars /\ pc' # "enqueue") \/ UNCHANGED <<alertVars, pc, key, late>>
    BY <1>3 DEF StartCheck, ReadLastOk, Judge, Goto, Done
  <2>2. KeyIsRecent'
    BY <1>3 DEF StartCheck, ReadLastOk, Judge, Goto, Done
  <2> QED BY <2>1, <2>2
<1>4. CASE InsertAlert
  BY <1>4 DEF InsertAlert, Goto, Done, TypeOK, Hours
<1>5. CASE Enqueue
  BY <1>5 DEF Enqueue, Done, TypeOK, Hours
<1>6. CASE CheckFails
  <2>1. CASE pc = "enqueue"
    BY <1>6, <2>1 DEF CheckFails, Done, TypeOK, Hours
  <2>2. CASE pc # "enqueue"
    BY <1>6, <2>2 DEF CheckFails, Done, TypeOK, Hours
  <2> QED BY <2>1, <2>2
<1>7. CASE Restart
  BY <1>7 DEF Restart, Done
<1>8. CASE UNCHANGED vars
  BY <1>8 DEF vars
<1> QED BY <1>1, <1>2, <1>3, <1>4, <1>5, <1>6, <1>7, <1>8 DEF Next, CheckStep

\* A long outage alerts at most once an hour, across failed calls applied or not, restarts
\* and checks that run into the next hour.
THEOREM OutagesDoNotSpam == Spec => []OncePerHour
<1>1. Init => OnceInv BY InitOnce
<1>2. TypeOK /\ OnceInv /\ [Next]_vars => OnceInv' BY NextOnce
<1>3. OnceInv => OncePerHour BY DEF OnceInv
<1> QED BY <1>1, <1>2, <1>3, TypeCorrect, PTL DEF Spec
-----------------------------------------------------------------------------
(* SilenceWatch: a quiet hour *)

\* The row a check has found is never younger than the youngest there is.
SeenInv ==
  pc = "judge" => /\ seen \in Ages
                  /\ lastOk # NoRow => lastOk <= seen
                  /\ lastOk = NoRow => seen = Ttl

\* From the second tick of an hour on, a check that runs has this hour's key, or none yet.
KeyInv == position >= 1 => key = "this"

\* In a quiet hour the row is there and old; a key that is taken is handed over, or about
\* to be; and until it is, a check is due from the second tick on, and running from the
\* third on, when it may not run any longer.
QuietInv ==
  "this" \in quiet =>
    /\ Silent
    /\ "this" \in logged => handed["this"] = 1 \/ (pc = "enqueue" /\ key = "this")
    /\ handed["this"] # 1 => /\ position >= 1 => due \/ pc # "idle"
                             /\ position >= 2 => pc # "idle" /\ late

ReportInv == TypeOK /\ OnceInv /\ SeenInv /\ KeyInv /\ QuietInv /\ QuietHourIsReported

LEMMA OlderStays ==
  ASSUME NEW a \in Ages, NEW b \in Ages, a <= b
  PROVE  /\ Older(a) \in Ages /\ Older(a) <= Older(b) /\ a <= Older(a) /\ Older(Ttl) = Ttl
         /\ Older(NoRow) = NoRow
BY TimeAssumption DEF Older, Ages

LEMMA SeenStays == ASSUME TypeOK, SeenInv, [Next]_vars PROVE SeenInv'
<1> USE TimeAssumption DEF SeenInv, TypeOK, Ages, rowVars, checkVars
<1>1. CASE Tick
  <2>1. pc' = pc /\ lastOk' = Older(lastOk) /\ seen' = Older(seen)
    BY <1>1 DEF Tick
  <2>3. ASSUME pc = "judge" PROVE SeenInv'
    <3>1. seen \in Ages /\ Older(seen) \in Ages
      BY <2>3, OlderStays
    <3>2. CASE lastOk = NoRow
      BY <2>1, <2>3, <3>1, <3>2, OlderStays, ZeroIsAge DEF Older
    <3>3. CASE lastOk # NoRow
      <4>1. lastOk \in Ages /\ lastOk <= seen
        BY <2>3, <3>3
      <4>2. Older(lastOk) \in Ages /\ Older(lastOk) <= Older(seen)
        BY <3>1, <4>1, OlderStays
      <4>3. Older(lastOk) # NoRow
        BY <4>2
      <4>4. QED
        BY <2>1, <3>1, <4>2, <4>3
    <3>4. QED
      BY <3>2, <3>3
  <2>4. QED
    BY <2>1, <2>3
<1>2. CASE StoreRow
  BY <1>2 DEF StoreRow
<1>3. CASE Expire
  BY <1>3 DEF Expire
<1>4. CASE StampRow \/ LoseRow \/ StartCheck
  BY <1>4 DEF StampRow, LoseRow, StartCheck
<1>5. CASE ReadLastOk
  BY <1>5 DEF ReadLastOk, Done
<1>6. CASE Judge \/ InsertAlert \/ Enqueue \/ CheckFails \/ Restart
  BY <1>6 DEF Judge, InsertAlert, Enqueue, CheckFails, Restart, Goto, Done
<1>7. CASE UNCHANGED vars
  BY <1>7 DEF vars
<1>8. QED
  BY <1>1, <1>2, <1>3, <1>4, <1>5, <1>6, <1>7 DEF Next, CheckStep

LEMMA TickReports ==
  ASSUME Hour >= 3, ReportInv, Tick
  PROVE  KeyInv' /\ QuietInv' /\ QuietHourIsReported'
<1> USE DEF ReportInv
<1>1. pc # "idle" => ~late /\ key = "this"
  BY DEF Tick, OnceInv, KeyIsRecent, TypeOK, Hours
<1>2. /\ pc' = pc /\ due' = TRUE /\ (pc # "idle" => late') /\ position \in 0..(Hour - 1)
      /\ lastOk' = Older(lastOk) /\ ~due
  BY DEF Tick, TypeOK
<1>3. Silent => SilentAt(Older(lastOk))
  BY OlderStays, TimeAssumption, ZeroIsAge DEF Silent, SilentAt, Older, TypeOK, Ages
<1>4. CASE position' = position + 1 /\ UNCHANGED <<alertVars, key, quiet>>
  <2>1. key = "this"
    BY <1>1 DEF OnceInv, KeyIsRecent, TypeOK, Hours
  <2>2. ASSUME "this" \in quiet, handed["this"] # 1, position + 1 >= 2 PROVE pc # "idle"
    BY <1>2, <2>2 DEF QuietInv
  <2>3. KeyInv' /\ QuietHourIsReported'
    BY <1>4, <2>1 DEF KeyInv, QuietHourIsReported, alertVars
  <2>4. QuietInv'
    BY <1>2, <1>3, <1>4, <2>2 DEF QuietInv, alertVars, Silent
  <2>5. QED
    BY <2>3, <2>4
<1>5. CASE position = Hour - 1 /\ position' = 0 /\ NextHour
  <2>1. /\ handed'["last"] = handed["this"] /\ "this" \notin logged'
        /\ "last" \in quiet' => "this" \in quiet
        /\ "this" \in quiet' => SilentAt(Older(lastOk))
    BY <1>5 DEF NextHour, Past, Hours
  <2>2. "this" \in quiet => handed["this"] = 1
    <3>1. position >= 2 /\ Hour \in Nat
      BY <1>5, TimeAssumption
    <3>2. QED
      BY <1>1, <3>1 DEF QuietInv
  <2>3. QED
    BY <1>2, <1>5, <2>1, <2>2 DEF KeyInv, QuietInv, QuietHourIsReported, Silent
<1>6. QED
  BY <1>2, <1>4, <1>5, TimeAssumption DEF Tick

LEMMA LoudReports ==
  ASSUME ReportInv, Loud, handed' \in {handed, [handed EXCEPT ![key] = @ + 1]},
         position' = position, key' = "this" \/ key' = key, OncePerHour'
  PROVE  KeyInv' /\ QuietInv' /\ QuietHourIsReported'
<1> USE DEF ReportInv, TypeOK
<1>1. "this" \notin quiet' /\ ("last" \in quiet' => "last" \in quiet)
  BY DEF Loud
<1>2. handed["last"] = 1 => handed'["last"] = 1
  <2>1. handed["last"] \in Nat /\ handed'["last"] \in {handed["last"], handed["last"] + 1}
    BY DEF Hours
  <2>2. handed'["last"] <= 1
    BY DEF OncePerHour, Hours
  <2>3. QED
    BY <2>1, <2>2
<1>3. QED
  BY <1>1, <1>2 DEF KeyInv, QuietInv, QuietHourIsReported

LEMMA ReportNext == ASSUME Hour >= 3, ReportInv, [Next]_vars PROVE ReportInv'
<1> DEFINE Goal == KeyInv' /\ QuietInv' /\ QuietHourIsReported'
<1>1. TypeOK' /\ OnceInv' /\ SeenInv'
  BY NextTypeOK, NextOnce, SeenStays DEF ReportInv
<1> SUFFICES Goal
  BY <1>1 DEF ReportInv
<1> USE DEF ReportInv, KeyInv, QuietInv, QuietHourIsReported,
            rowVars, alertVars, checkVars, boundVars, histVars
<1>2. CASE Tick
  BY <1>2, TickReports
<1>3. CASE StampRow \/ LoseRow \/ UNCHANGED vars
  BY <1>3 DEF StampRow, LoseRow, vars, Silent
<1>4. CASE StoreRow
  BY <1>4 DEF StoreRow, Silent
<1>5. CASE Expire
  BY <1>1, <1>5, LoudReports DEF Expire, OnceInv
<1>6. CASE StartCheck
  BY <1>6 DEF StartCheck, Silent
<1>7. CASE ReadLastOk
  BY <1>7 DEF ReadLastOk, Silent, SilentAt, Done
<1>8. CASE Judge
  <2>1. "this" \in quiet => SilentAt(seen)
    <3>1. SeenInv /\ pc = "judge"
      BY <1>8 DEF Judge
    <3>2. QED
      BY <3>1, TimeAssumption DEF SeenInv, Silent, SilentAt, TypeOK, Ages
  <2>2. QED
    BY <1>8, <2>1 DEF Judge, Silent, Done, Goto
<1>9. CASE InsertAlert
  <2>1. key \in Hours /\ handed \in [Hours -> Nat]
    BY DEF TypeOK
  <2>2. CASE key = "this"
    BY <1>9, <2>1, <2>2 DEF InsertAlert, Silent, Done, Goto
  <2>3. CASE key = "last"
    <3>1. ~(position >= 1)
      BY <2>3
    <3>2. position' = position /\ ~(position >= 2)
      BY <1>9, <3>1 DEF InsertAlert, TypeOK
    <3>3. "this" \in logged' <=> "this" \in logged
      BY <1>9, <2>3 DEF InsertAlert
    <3>4. QED
      BY <1>9, <2>3, <3>1, <3>2, <3>3 DEF InsertAlert, Silent, Done
  <2>4. QED
    BY <2>1, <2>2, <2>3 DEF Hours
<1>10. CASE Enqueue
  <2>1. key \in Hours /\ handed \in [Hours -> Nat] /\ handed[key] = 0
    BY <1>10 DEF TypeOK, Enqueue, OnceInv, LoggedAhead, OncePerHour, LoggedFirst
  <2>2. handed'[key] = 1 /\ \A h \in Hours : h # key => handed'[h] = handed[h]
    BY <1>10, <2>1 DEF Enqueue
  <2>3. CASE key = "this"
    BY <1>10, <2>1, <2>2, <2>3 DEF Enqueue, Silent, Done, Hours
  <2>4. CASE key = "last"
    <3>1. position' = position /\ ~(position >= 1) /\ ~(position >= 2)
      BY <1>10, <2>4 DEF Enqueue, TypeOK
    <3>2. QED
      BY <1>10, <2>1, <2>2, <2>4, <3>1 DEF Enqueue, Silent, Done, Hours
  <2>5. QED
    BY <2>1, <2>3, <2>4 DEF Hours
<1>11. CASE CheckFails \/ Restart
  <2>1. /\ Loud /\ position' = position /\ key' = "this"
        /\ handed' \in {handed, [handed EXCEPT ![key] = @ + 1]}
    BY <1>11 DEF CheckFails, Restart, Fault, Done
  <2>2. QED
    BY <1>1, <2>1, LoudReports DEF OnceInv
<1>12. QED
  BY <1>2, <1>3, <1>4, <1>5, <1>6, <1>7, <1>8, <1>9, <1>10, <1>11 DEF Next, CheckStep

\* If an hour has room for a check that is skipped, one that runs late, and its end (30
\* ticks in the code), an hour of silence in which nothing failed has been reported by its
\* end, however the checks fall into it (silence.py, rules.py:213).
THEOREM QuietHoursAreReported == ASSUME Hour >= 3 PROVE Spec => []QuietHourIsReported
<1>1. Init => ReportInv
  <2>1. Init => SeenInv /\ KeyInv /\ QuietInv /\ QuietHourIsReported
    BY DEF Init, SeenInv, KeyInv, QuietInv, QuietHourIsReported
  <2>2. QED
    BY <2>1, InitTypeOK, InitOnce DEF ReportInv
<1>2. ReportInv /\ [Next]_vars => ReportInv'
  BY ReportNext
<1>3. ReportInv => QuietHourIsReported
  BY DEF ReportInv
<1>4. QED
  BY <1>1, <1>2, <1>3, PTL DEF Spec

-----------------------------------------------------------------------------
(* Rules *)

USE RuleAssumption, NoneAssumption, ScaleAssumption

QuakeDocs == [Events -> {None} \cup [is : Contents, at : 1..MaxChanges]]

\* What the rules hold of an event whose change is still to come, or being evaluated.
Pending(e) == \E i \in DOMAIN changes : changes[i] = e
Evaluating(e) == event # None /\ event.id = e /\ event.is = quakes[e].is

\* The card of location l promises an alert for the event e as it is.
Promised(e, l) ==
  LET c == quakes[e].is
      s == sites[l].is
  IN /\ sites[l].at < quakes[e].at
     /\ ShownMag(s) >= NearMag
     /\ c.mag # None /\ c.mag >= ShownMag(s)
     /\ Distance[c.place][s.place] <= ShownRadius(s)

NearInv ==
  \A e \in Stored, l \in Registered :
    Promised(e, l) => \/ NearKey(e, l) \in fired
                      \/ Pending(e)
                      \/ Evaluating(e) /\ (step = "locations" \/ NearKey(e, l) \in found)

\* The part of a swarm that was there when e was last stored: it never grows while e stays.
Early(e) == {x \in Stored : InSwarm(quakes[e].is, quakes[x].is) /\ quakes[x].at <= quakes[e].at}

Swarms(e) ==
  /\ quakes[e].is.mag # None /\ quakes[e].is.time # None
  /\ Cardinality(Early(e)) >= SwarmMinEvents

SwarmInv ==
  \A e \in Stored :
    Swarms(e) => SwarmKey(quakes[e].is) \in fired \/ Pending(e) \/ Evaluating(e)

OrderInv ==
  /\ \A e \in Stored : quakes[e].at <= order
  /\ Registered \subseteq used
  /\ \A x : Pending(x) => x \in Stored

RulesInv == RulesTypeOK /\ OrderInv /\ NearInv /\ SwarmInv

LEMMA RulesStart == RulesInit => RulesInv
<1> SUFFICES ASSUME RulesInit PROVE RulesInv
  OBVIOUS
<1>1. RulesTypeOK
  BY DEF RulesInit, RulesTypeOK
<1>2. Stored = {} /\ Registered = {}
  BY DEF RulesInit, Stored, Registered
<1>3. \A x : ~Pending(x)
  BY DEF RulesInit, Pending
<1>4. QED
  BY <1>1, <1>2, <1>3 DEF RulesInv, OrderInv, NearInv, SwarmInv

\* An event that is stored has a content and a stamp.
LEMMA StoredTypes ==
  ASSUME RulesTypeOK, NEW e \in Stored
  PROVE  e \in Events /\ quakes[e].is \in Contents /\ quakes[e].at \in 1..MaxChanges
BY DEF Stored, RulesTypeOK

LEMMA SiteTypes ==
  ASSUME RulesTypeOK, NEW l \in Registered
  PROVE  l \in Locations /\ sites[l].is \in Sites /\ sites[l].at \in 1..MaxChanges
BY DEF Registered, RulesTypeOK

\* An appended change is pending, and so are those that were, and no others.
LEMMA PendingAfterAppend ==
  ASSUME RulesTypeOK, NEW e \in Events, changes' = Append(changes, e)
  PROVE  /\ Pending(e)' /\ \A x : Pending(x) => Pending(x)'
         /\ \A x : Pending(x)' => Pending(x) \/ x = e
<1>1. /\ changes \in Seq(Events) /\ Len(changes') = Len(changes) + 1
      /\ changes'[Len(changes) + 1] = e
      /\ \A i \in 1..Len(changes) : changes'[i] = changes[i]
  BY AppendProperties DEF RulesTypeOK
<1>2. DOMAIN changes = 1..Len(changes) /\ Len(changes) \in Nat
  BY <1>1
<1>3. changes' \in Seq(Events)
  BY <1>1, AppendProperties
<1>4. DOMAIN changes' = 1..(Len(changes) + 1)
  BY <1>1, <1>3
<1>5. ASSUME NEW x, Pending(x)' PROVE Pending(x) \/ x = e
  <2>1. PICK i \in DOMAIN changes' : changes'[i] = x
    BY <1>5 DEF Pending
  <2>2. i \in 1..Len(changes) \/ i = Len(changes) + 1
    BY <1>2, <1>4, <2>1
  <2>3. QED
    BY <1>1, <1>2, <2>1, <2>2 DEF Pending
<1>6. QED
  BY <1>1, <1>2, <1>4, <1>5 DEF Pending

\* With its head gone, every other pending change is still pending, and no other.
LEMMA PendingAfterTail ==
  ASSUME RulesTypeOK, changes # <<>>, changes' = Tail(changes), NEW x
  PROVE  /\ Pending(x) /\ x # Head(changes) => Pending(x)'
         /\ Pending(x)' => Pending(x)
         /\ Pending(Head(changes))
<1>1. changes \in Seq(Events)
  BY DEF RulesTypeOK
<1>2. /\ Tail(changes) \in Seq(Events) /\ Len(Tail(changes)) = Len(changes) - 1
      /\ \A i \in 1..Len(Tail(changes)) : Tail(changes)[i] = changes[i + 1]
  BY <1>1, HeadTailProperties
<1>3. /\ DOMAIN Tail(changes) = 1..Len(Tail(changes)) /\ DOMAIN changes = 1..Len(changes)
      /\ Head(changes) = changes[1] /\ Len(changes) \in Nat /\ Len(changes) # 0
  BY <1>1, <1>2
<1>4. ASSUME Pending(x), x # Head(changes) PROVE Pending(x)'
  <2>1. PICK i \in DOMAIN changes : changes[i] = x
    BY <1>4 DEF Pending
  <2>2. i - 1 \in 1..Len(Tail(changes)) /\ (i - 1) + 1 = i
    BY <1>2, <1>3, <1>4, <2>1
  <2>3. Tail(changes)[i - 1] = x
    BY <1>2, <2>1, <2>2
  <2>4. QED
    BY <1>3, <2>2, <2>3 DEF Pending
<1>5. ASSUME Pending(x)' PROVE Pending(x)
  <2>1. PICK i \in DOMAIN Tail(changes) : Tail(changes)[i] = x
    BY <1>5 DEF Pending
  <2>2. i + 1 \in 1..Len(changes) /\ changes[i + 1] = x
    BY <1>2, <1>3, <2>1
  <2>3. QED
    BY <1>3, <2>2 DEF Pending
<1>6. Pending(Head(changes))
  BY <1>3 DEF Pending
<1>7. QED
  BY <1>4, <1>5, <1>6

\* A promised alert is one of the candidates: no threshold of 0 is promised, and the
\* default radius is no smaller than 0.
LEMMA PromiseFires ==
  ASSUME RulesTypeOK, NEW e \in Stored, NEW l \in Registered, Promised(e, l)
  PROVE  NearFires(quakes[e].is, sites[l].is)
<1> DEFINE c == quakes[e].is
           s == sites[l].is
<1>1. c \in Contents /\ s \in Sites
  BY StoredTypes, SiteTypes
<1>2. Distance[c.place][s.place] \in Nat /\ c.mag \in Nat
  BY <1>1 DEF Promised
<1>3. s.near_mag \in Nat \cup {None} /\ s.near_radius_km \in Nat \cup {None}
  BY <1>1
<1>4. NearMag \in Nat \ {0} /\ NearRadius \in Nat /\ None \notin Int
  OBVIOUS
<1>5. c.mag >= Or(s.near_mag, NearMag)
  BY <1>2, <1>3, <1>4 DEF Promised, ShownMag, Or
<1>6. Distance[c.place][s.place] <= Or(s.near_radius_km, NearRadius)
  BY <1>2, <1>3, <1>4 DEF Promised, ShownRadius, Or
<1>7. QED
  BY <1>5, <1>6 DEF NearFires

LEMMA StoreTypes ==
  ASSUME RulesInv, NEW e \in Events, NEW c \in Contents, StoreQuake(e, c)
  PROVE  /\ RulesTypeOK'
         /\ quakes'[e] = [is |-> c, at |-> order + 1]
         /\ Stored' = Stored \cup {e}
         /\ \A x \in Events : x # e => quakes'[x] = quakes[x]
         /\ order \in Nat /\ order' = order + 1
<1>1. order \in Nat /\ order' = order + 1 /\ order + 1 \in 1..MaxChanges
  BY DEF StoreQuake, RulesInv, RulesTypeOK
<1>2. quakes' = [quakes EXCEPT ![e] = [is |-> c, at |-> order + 1]]
  BY DEF StoreQuake
<1>3. quakes \in QuakeDocs
  BY DEF RulesInv, RulesTypeOK, QuakeDocs
<1>4. [is |-> c, at |-> order + 1] \in [is : Contents, at : 1..MaxChanges]
  BY <1>1
<1>5. quakes' \in QuakeDocs
  BY <1>2, <1>3, <1>4 DEF QuakeDocs
<1>6. quakes'[e] = [is |-> c, at |-> order + 1] /\ \A x \in Events : x # e => quakes'[x] = quakes[x]
  BY <1>2, <1>3 DEF QuakeDocs
<1>7. [is |-> c, at |-> order + 1] # None
  BY <1>4
<1>8. Stored' = Stored \cup {e}
  BY <1>6, <1>7 DEF Stored
<1>9. changes' \in Seq(Events)
  BY AppendProperties DEF StoreQuake, RulesInv, RulesTypeOK
<1>10. RulesTypeOK'
  BY <1>1, <1>5, <1>9 DEF StoreQuake, RulesInv, RulesTypeOK, QuakeDocs
<1>11. QED
  BY <1>1, <1>6, <1>8, <1>10

\* A store: the promises to its event are pending, those to other events stand, and a
\* swarm of another event loses at most the one that is stored.
LEMMA StoreKeeps ==
  ASSUME RulesInv, NEW e \in Events, NEW c \in Contents, StoreQuake(e, c)
  PROVE  RulesInv'
<1>1. /\ RulesTypeOK' /\ quakes'[e] = [is |-> c, at |-> order + 1]
      /\ Stored' = Stored \cup {e}
      /\ \A x \in Events : x # e => quakes'[x] = quakes[x]
      /\ order \in Nat /\ order' = order + 1
  BY StoreTypes
<1>2. UNCHANGED <<sites, used, step, event, found, fired>> /\ changes' = Append(changes, e)
  BY DEF StoreQuake
<1>3. /\ Pending(e)' /\ \A x : Pending(x) => Pending(x)'
      /\ \A x : Pending(x)' => Pending(x) \/ x = e
  BY <1>2, PendingAfterAppend DEF RulesInv
<1>4. Registered' = Registered
  BY <1>2 DEF Registered
<1>5. ASSUME NEW x \in Stored', x # e
      PROVE  /\ x \in Stored /\ x \in Events /\ quakes'[x] = quakes[x]
             /\ quakes[x].at \in Nat /\ quakes[x].at <= order
  BY <1>1, <1>5, StoredTypes DEF RulesInv, OrderInv
<1>6. OrderInv'
  <2>1. ASSUME NEW x \in Stored' PROVE quakes'[x].at <= order'
    <3>1. CASE x = e BY <1>1, <3>1
    <3>2. CASE x # e BY <1>1, <1>5, <3>2
    <3>3. QED BY <3>1, <3>2
  <2>2. QED
    BY <1>1, <1>2, <1>3, <1>4, <2>1 DEF RulesInv, OrderInv
<1>7. NearInv'
  <2> SUFFICES ASSUME NEW x \in Stored', NEW l \in Registered', Promised(x, l)'
               PROVE  (\/ NearKey(x, l) \in fired
                       \/ Pending(x)
                       \/ Evaluating(x) /\ (step = "locations" \/ NearKey(x, l) \in found))'
    BY DEF NearInv
  <2>1. CASE x = e
    BY <1>3, <2>1
  <2>2. CASE x # e
    <3>1. Promised(x, l)
      BY <1>2, <1>5, <2>2 DEF Promised
    <3>2. \/ NearKey(x, l) \in fired
          \/ Pending(x)
          \/ Evaluating(x) /\ (step = "locations" \/ NearKey(x, l) \in found)
      BY <1>4, <1>5, <2>2, <3>1 DEF RulesInv, NearInv
    <3>3. Evaluating(x) => Evaluating(x)'
      BY <1>2, <1>5, <2>2 DEF Evaluating
    <3>4. QED
      BY <1>2, <1>3, <3>2, <3>3 DEF NearKey
  <2>3. QED
    BY <2>1, <2>2
<1>8. SwarmInv'
  <2> SUFFICES ASSUME NEW x \in Stored', Swarms(x)'
               PROVE  (SwarmKey(quakes[x].is) \in fired \/ Pending(x) \/ Evaluating(x))'
    BY DEF SwarmInv
  <2>1. CASE x = e
    BY <1>3, <2>1
  <2>2. CASE x # e
    <3>1. Early(x)' \subseteq Early(x)
      <4> SUFFICES ASSUME NEW y \in Early(x)' PROVE y \in Early(x)
        OBVIOUS
      <4>1. y \in Stored' /\ quakes'[y].at <= quakes'[x].at
        BY DEF Early
      <4>2. y # e
        BY <1>1, <1>5, <2>2, <4>1
      <4>3. y \in Stored /\ quakes'[y] = quakes[y] /\ quakes'[x] = quakes[x]
        BY <1>5, <2>2, <4>1, <4>2
      <4>4. QED
        BY <4>3 DEF Early, InSwarm
    <3>2. IsFiniteSet(Early(x))
      <4>1. Early(x) \subseteq Events
        BY DEF Early, Stored
      <4>2. QED
        BY <4>1, FS_Subset
    <3>3. /\ Cardinality(Early(x)') <= Cardinality(Early(x))
          /\ Cardinality(Early(x)) \in Nat /\ Cardinality(Early(x)') \in Nat
      BY <3>1, <3>2, FS_Subset, FS_CardinalityType
    <3>4. Swarms(x)
      BY <1>5, <2>2, <3>3 DEF Swarms
    <3>5. SwarmKey(quakes[x].is) \in fired \/ Pending(x) \/ Evaluating(x)
      BY <1>5, <2>2, <3>4 DEF RulesInv, SwarmInv
    <3>6. Evaluating(x) => Evaluating(x)'
      BY <1>2, <1>5, <2>2 DEF Evaluating
    <3>7. QED
      BY <1>2, <1>3, <1>5, <2>2, <3>5, <3>6
  <2>3. QED
    BY <2>1, <2>2
<1>9. QED
  BY <1>1, <1>6, <1>7, <1>8 DEF RulesInv

\* A step that leaves `events` and the changes alone keeps what is said of swarms.
LEMMA SwarmsStay ==
  ASSUME RulesInv, UNCHANGED <<quakes, changes, event, fired>>
  PROVE  SwarmInv'
BY DEF RulesInv, SwarmInv, Swarms, Early, Stored, InSwarm, Pending, Evaluating

\* A location that is added is younger than every event; its card promises nothing yet.
LEMMA AddKeeps ==
  ASSUME RulesInv, NEW l \in Locations, NEW s \in Sites, AddSite(l, s)
  PROVE  RulesInv'
<1>1. UNCHANGED <<quakes, changes, step, event, found, fired>> /\ used' = used \cup {l}
  BY DEF AddSite
<1>2. order \in Nat /\ order' = order + 1 /\ order + 1 \in 1..MaxChanges
  BY DEF AddSite, RulesInv, RulesTypeOK
<1>3. [is |-> s, at |-> order + 1] \in [is : Sites, at : 1..MaxChanges]
  BY <1>2
<1>4. /\ sites' \in [Locations -> {None} \cup [is : Sites, at : 1..MaxChanges]]
      /\ sites'[l] = [is |-> s, at |-> order + 1]
      /\ \A k \in Locations : k # l => sites'[k] = sites[k]
  BY <1>3 DEF AddSite, RulesInv, RulesTypeOK
<1>5. RulesTypeOK'
  BY <1>1, <1>2, <1>4 DEF RulesInv, RulesTypeOK
<1>6. Stored' = Stored /\ Registered' \subseteq Registered \cup {l}
  BY <1>1, <1>4 DEF Stored, Registered
<1>7. ASSUME NEW x \in Stored PROVE quakes[x].at \in Nat /\ quakes[x].at <= order
  BY StoredTypes DEF RulesInv, OrderInv
<1>8. OrderInv'
  BY <1>1, <1>2, <1>6, <1>7 DEF RulesInv, OrderInv, Pending
<1>9. NearInv'
  <2> SUFFICES ASSUME NEW x \in Stored', NEW k \in Registered', Promised(x, k)'
               PROVE  (\/ NearKey(x, k) \in fired
                       \/ Pending(x)
                       \/ Evaluating(x) /\ (step = "locations" \/ NearKey(x, k) \in found))'
    BY DEF NearInv
  <2>1. k # l
    BY <1>1, <1>2, <1>4, <1>6, <1>7 DEF Promised
  <2>2. k \in Registered /\ sites'[k] = sites[k]
    BY <1>4, <1>6, <2>1 DEF Registered
  <2>3. Promised(x, k)
    BY <1>1, <2>2 DEF Promised
  <2>4. QED
    BY <1>1, <1>6, <2>2, <2>3 DEF RulesInv, NearInv, Pending, Evaluating, NearKey
<1>10. QED
  BY <1>1, <1>5, <1>8, <1>9, SwarmsStay DEF RulesInv

LEMMA RemoveKeeps ==
  ASSUME RulesInv, NEW l \in Locations, RemoveSite(l)
  PROVE  RulesInv'
<1>1. UNCHANGED <<quakes, used, order, changes, step, event, found, fired>>
  BY DEF RemoveSite
<1>2. /\ sites' \in [Locations -> {None} \cup [is : Sites, at : 1..MaxChanges]]
      /\ sites'[l] = None
      /\ \A k \in Locations : k # l => sites'[k] = sites[k]
  BY DEF RemoveSite, RulesInv, RulesTypeOK
<1>3. Stored' = Stored /\ \A k \in Registered' : k \in Registered /\ sites'[k] = sites[k]
  BY <1>1, <1>2 DEF Stored, Registered
<1>4. RulesTypeOK' /\ OrderInv'
  BY <1>1, <1>2, <1>3 DEF RulesInv, RulesTypeOK, OrderInv, Pending
<1>5. NearInv'
  BY <1>1, <1>3 DEF RulesInv, NearInv, Promised, Pending, Evaluating, NearKey
<1>6. QED
  BY <1>1, <1>4, <1>5, SwarmsStay DEF RulesInv

\* A change is taken: dropped only if the event has no magnitude, and then nothing is
\* promised of it.
LEMMA TakeKeeps == ASSUME RulesInv, TakeChange PROVE RulesInv'
<1>0. PICK e : e = Head(changes)
  OBVIOUS
<1>a. PICK c : c = quakes[e].is
  OBVIOUS
<1>1. /\ step = "idle" /\ changes # <<>> /\ changes' = Tail(changes)
      /\ UNCHANGED <<quakes, sites, used, order, fired>>
  BY DEF TakeChange
<1>2. changes \in Seq(Events) /\ changes' \in Seq(Events) /\ event = None
  BY <1>1, HeadTailProperties DEF RulesInv, RulesTypeOK
<1>3. /\ \A x : Pending(x) /\ x # e => Pending(x)'
      /\ \A x : Pending(x)' => Pending(x)
      /\ e \in Stored
  BY <1>0, <1>1, PendingAfterTail DEF RulesInv, OrderInv
<1>4. Stored' = Stored /\ Registered' = Registered
  BY <1>1 DEF Stored, Registered
<1>5. OrderInv'
  BY <1>1, <1>3, <1>4 DEF RulesInv, OrderInv
<1>6. \A x : ~Evaluating(x)
  BY <1>2 DEF Evaluating
<1>7. ASSUME NEW x \in Stored, NEW l \in Registered, Promised(x, l)
      PROVE  NearKey(x, l) \in fired \/ Pending(x)
  BY <1>6, <1>7 DEF RulesInv, NearInv
<1>8. ASSUME NEW x \in Stored, Swarms(x)
      PROVE  SwarmKey(quakes[x].is) \in fired \/ Pending(x)
  BY <1>6, <1>8 DEF RulesInv, SwarmInv
<1>9. /\ \A x, l : Promised(x, l)' <=> Promised(x, l)
      /\ \A x : Swarms(x)' <=> Swarms(x)
  BY <1>1, <1>4 DEF Promised, Swarms, Early, InSwarm
<1>10. CASE c.mag = None
  <2>1. UNCHANGED <<event, found, step>>
    BY <1>0, <1>a, <1>10 DEF TakeChange
  <2>2. RulesTypeOK'
    BY <1>1, <1>2, <2>1 DEF RulesInv, RulesTypeOK
  <2>3. NearInv'
    <3>1. \A x \in Stored, l \in Registered : Promised(x, l) => x # e
      BY <1>a, <1>10 DEF Promised
    <3>2. QED
      BY <1>1, <1>3, <1>4, <1>7, <1>9, <3>1 DEF NearInv, NearKey
  <2>4. SwarmInv'
    <3>1. \A x \in Stored : Swarms(x) => x # e
      BY <1>a, <1>10 DEF Swarms
    <3>2. QED
      BY <1>1, <1>3, <1>4, <1>8, <1>9, <3>1 DEF SwarmInv
  <2>5. QED
    BY <1>5, <2>2, <2>3, <2>4 DEF RulesInv
<1>11. CASE c.mag # None
  <2>1. /\ event' = [id |-> e, is |-> c]
        /\ found' = IF c.mag >= GlobalMag THEN {GlobalKey(e)} ELSE {}
        /\ step' = IF c.mag >= NearMag THEN "locations" ELSE "swarm"
    BY <1>0, <1>a, <1>11 DEF TakeChange
  <2>2. e \in Events /\ c \in Contents
    BY <1>a, <1>3, StoredTypes DEF RulesInv
  <2>3. event' \in [id : Events, is : Contents] /\ event' # None
    BY <2>1, <2>2
  <2>4. RulesTypeOK'
    BY <1>1, <1>2, <2>1, <2>3 DEF RulesInv, RulesTypeOK
  <2>5. Evaluating(e)'
    BY <1>a, <1>1, <2>1, <2>3 DEF Evaluating
  <2>6. ASSUME NEW l \in Registered, Promised(e, l) PROVE step' = "locations"
    <3>1. c.mag \in Nat /\ ShownMag(sites[l].is) >= NearMag /\ c.mag >= ShownMag(sites[l].is)
      BY <1>a, <2>2, <2>6 DEF Promised
    <3>2. sites[l].is \in Sites
      BY SiteTypes DEF RulesInv
    <3>3. ShownMag(sites[l].is) \in Nat
      BY <3>2 DEF ShownMag
    <3>4. QED
      BY <2>1, <3>1, <3>3
  <2>7. NearInv'
    BY <1>1, <1>3, <1>4, <1>7, <1>9, <2>5, <2>6 DEF NearInv, NearKey
  <2>8. SwarmInv'
    BY <1>1, <1>3, <1>4, <1>8, <1>9, <2>5 DEF SwarmInv
  <2>9. QED
    BY <1>5, <2>4, <2>7, <2>8 DEF RulesInv
<1>12. QED
  BY <1>10, <1>11

\* The locations are read: every promise to the event being evaluated becomes a candidate.
LEMMA LocationsKeep == ASSUME RulesInv, CheckLocations PROVE RulesInv'
<1>1. /\ step = "locations" /\ step' = "swarm"
      /\ UNCHANGED <<quakes, sites, used, order, changes, event, fired>>
      /\ found' = found \cup {NearKey(event.id, l) :
                                l \in {x \in Registered : NearFires(event.is, sites[x].is)}}
  BY DEF CheckLocations
<1>2. Stored' = Stored /\ Registered' = Registered
  BY <1>1 DEF Stored, Registered
<1>3. RulesTypeOK' /\ OrderInv'
  BY <1>1, <1>2 DEF RulesInv, RulesTypeOK, OrderInv, Pending
<1>4. ASSUME NEW x \in Stored, NEW l \in Registered, Promised(x, l), Evaluating(x)
      PROVE  NearKey(x, l) \in found'
  <2>1. NearFires(event.is, sites[l].is) /\ event.id = x
    BY <1>4, PromiseFires DEF Evaluating, RulesInv
  <2>2. QED
    BY <1>1, <2>1
<1>5. NearInv'
  <2> SUFFICES ASSUME NEW x \in Stored, NEW l \in Registered, Promised(x, l)
               PROVE  \/ NearKey(x, l) \in fired
                      \/ Pending(x)
                      \/ Evaluating(x) /\ NearKey(x, l) \in found'
    BY <1>1, <1>2 DEF NearInv, Promised, Pending, Evaluating, NearKey
  <2>1. NearKey(x, l) \in fired \/ Pending(x) \/ Evaluating(x)
    BY DEF RulesInv, NearInv
  <2>2. QED
    BY <1>4, <2>1
<1>6. QED
  BY <1>1, <1>3, <1>5, SwarmsStay DEF RulesInv

\* The candidates are returned, and a swarm that was there with the event's last store
\* is still at least as large.
LEMMA SwarmKeeps == ASSUME RulesInv, CheckSwarm PROVE RulesInv'
<1> DEFINE swarm == event.is.time # None /\ Cardinality(SwarmOf(event.is)) >= SwarmMinEvents
<1>1. /\ step = "swarm" /\ step' = "idle" /\ event' = None /\ found' = {}
      /\ UNCHANGED <<quakes, sites, used, order, changes>>
      /\ fired' = fired \cup found \cup (IF swarm THEN {SwarmKey(event.is)} ELSE {})
  BY DEF CheckSwarm
<1>2. Stored' = Stored /\ Registered' = Registered
  BY <1>1 DEF Stored, Registered
<1>3. RulesTypeOK' /\ OrderInv'
  BY <1>1, <1>2 DEF RulesInv, RulesTypeOK, OrderInv, Pending
<1>4. NearInv'
  <2> SUFFICES ASSUME NEW x \in Stored, NEW l \in Registered, Promised(x, l)
               PROVE  NearKey(x, l) \in fired' \/ Pending(x)
    BY <1>1, <1>2 DEF NearInv, Promised, Pending, Evaluating, NearKey
  <2>1. NearKey(x, l) \in fired \/ Pending(x) \/ NearKey(x, l) \in found
    BY <1>1 DEF RulesInv, NearInv
  <2>2. QED
    BY <1>1, <2>1
<1>5. SwarmInv'
  <2> SUFFICES ASSUME NEW x \in Stored, Swarms(x)
               PROVE  SwarmKey(quakes[x].is) \in fired' \/ Pending(x)
    BY <1>1, <1>2 DEF SwarmInv, Swarms, Early, InSwarm, Pending, SwarmKey
  <2>1. SwarmKey(quakes[x].is) \in fired \/ Pending(x) \/ Evaluating(x)
    BY DEF RulesInv, SwarmInv
  <2>2. CASE Evaluating(x)
    <3>1. event.is = quakes[x].is
      BY <2>2 DEF Evaluating
    <3>2. Early(x) \subseteq SwarmOf(event.is) /\ SwarmOf(event.is) \subseteq Events
      BY <3>1 DEF Early, SwarmOf, Stored
    <3>3. /\ Cardinality(Early(x)) <= Cardinality(SwarmOf(event.is))
          /\ Cardinality(Early(x)) \in Nat /\ Cardinality(SwarmOf(event.is)) \in Nat
      BY <3>2, FS_Subset, FS_CardinalityType
    <3>4. swarm
      BY <3>1, <3>3 DEF Swarms
    <3>5. QED
      BY <1>1, <3>1, <3>4
  <2>3. QED
    BY <1>1, <2>1, <2>2
<1>6. QED
  BY <1>3, <1>4, <1>5 DEF RulesInv

LEMMA RulesStep == RulesInv /\ [RulesNext]_ruleVars => RulesInv'
<1> SUFFICES ASSUME RulesInv, [RulesNext]_ruleVars PROVE RulesInv'
  OBVIOUS
<1>1. ASSUME NEW e \in Events, NEW c \in Contents, StoreQuake(e, c) PROVE RulesInv'
  BY <1>1, StoreKeeps
<1>2. ASSUME NEW l \in Locations, NEW s \in Sites, AddSite(l, s) PROVE RulesInv'
  BY <1>2, AddKeeps
<1>3. ASSUME NEW l \in Locations, RemoveSite(l) PROVE RulesInv'
  BY <1>3, RemoveKeeps
<1>4. CASE TakeChange BY <1>4, TakeKeeps
<1>5. CASE CheckLocations BY <1>5, LocationsKeep
<1>6. CASE CheckSwarm BY <1>6, SwarmKeeps
<1>7. CASE UNCHANGED ruleVars
  BY <1>7 DEF ruleVars, RulesInv, RulesTypeOK, OrderInv, NearInv, SwarmInv, Stored, Registered,
              Promised, Swarms, Early, InSwarm, Pending, Evaluating, NearKey
<1>8. QED
  BY <1>1, <1>2, <1>3, <1>4, <1>5, <1>6, <1>7 DEF RulesNext

LEMMA RulesAlways == RulesSpec => []RulesInv
BY RulesStart, RulesStep, PTL DEF RulesSpec

\* Every reachable state of the rules is well-typed.
THEOREM RulesTypeCorrect == RulesSpec => []RulesTypeOK
<1>1. RulesInv => RulesTypeOK
  BY DEF RulesInv
<1>2. QED
  BY <1>1, RulesAlways, PTL

\* The card of a location keeps its promise (LocationCard.tsx, rules.py:57-71), whatever
\* is stored, revised, added and removed between the rules' queries.
THEOREM CardsAreKept == RulesSpec => []CardIsKept
<1>1. ASSUME RulesInv PROVE CardIsKept
  <2> SUFFICES ASSUME Evaluated, NEW e \in Stored, NEW l \in Registered, Promised(e, l)
               PROVE  NearKey(e, l) \in fired
    BY DEF CardIsKept, Promised
  <2>1. ~Pending(e) /\ ~Evaluating(e)
    BY <1>1 DEF Evaluated, Pending, Evaluating, RulesInv, RulesTypeOK
  <2>2. QED
    BY <1>1, <2>1 DEF RulesInv, NearInv
<1>2. QED
  BY <1>1, RulesAlways, PTL

\* A swarm whose last event is the last to be stored is reported (rules.py:174-208),
\* whatever left it before and comes after.
THEOREM SwarmsAreReported == RulesSpec => []SwarmIsReported
<1>1. ASSUME RulesInv PROVE SwarmIsReported
  <2> DEFINE swarm(e) == {x \in Stored : InSwarm(quakes[e].is, quakes[x].is)}
  <2> SUFFICES ASSUME Evaluated, NEW e \in Stored,
                      quakes[e].is.mag # None, quakes[e].is.time # None,
                      Cardinality(swarm(e)) >= SwarmMinEvents,
                      \A x \in swarm(e) : quakes[x].at <= quakes[e].at
               PROVE  SwarmKey(quakes[e].is) \in fired
    BY DEF SwarmIsReported
  <2>1. ~Pending(e) /\ ~Evaluating(e)
    BY <1>1 DEF Evaluated, Pending, Evaluating, RulesInv, RulesTypeOK
  <2>2. Early(e) = swarm(e)
    BY DEF Early
  <2>3. Swarms(e)
    BY <2>2 DEF Swarms
  <2>4. QED
    BY <1>1, <2>1, <2>3 DEF RulesInv, SwarmInv
<1>2. QED
  BY <1>1, RulesAlways, PTL
=============================================================================
