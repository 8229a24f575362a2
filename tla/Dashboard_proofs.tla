-------------------------- MODULE Dashboard_proofs --------------------------
(***************************************************************************)
(* What the api answers and the dashboard shows: HealthCard, Summary and   *)
(* LiveFeed.  Types; that a good tone is earned; that the counts of one    *)
(* summary agree; that a settled list is current.  For every number of     *)
(* events, windows, refreshes and rows, and every setting.                 *)
(***************************************************************************)
EXTENDS HealthCard, Summary, LiveFeed, TLAPS, FiniteSetTheorems,
        SequenceTheorems, WellFoundedInduction

-----------------------------------------------------------------------------
(* HealthCard *)

USE HealthAssumption

Answers == [at : {"idle", "last", "recent", "backfill", "wire"},
            last : {NoPoll} \cup 0..MaxNow, streak : Nat, failed : BOOLEAN]

\* What an answer has read of `last_any` still has its row, and if the streak it has read
\* is empty, a row at least as late is ok: rows are only ever added.
AnswerIsBacked(answer) ==
  /\ answer.at \in {"recent", "backfill", "wire"} /\ answer.last # NoPoll =>
       \E row \in rows : row.ts = answer.last
  /\ answer.at \in {"backfill", "wire"} /\ answer.last # NoPoll /\ answer.streak = 0 =>
       \E row \in rows : row.ok /\ row.ts >= answer.last

HealthInv ==
  /\ HealthTypeOK /\ IsFiniteSet(rows)
  /\ \A k \in Refreshes : AnswerIsBacked(refresh[k])

LEMMA HealthStart == HealthInit => HealthInv
<1> SUFFICES ASSUME HealthInit PROVE HealthInv
  OBVIOUS
<1>1. Idle \in Answers
  BY DEF Idle, Answers
<1>2. HealthTypeOK
  BY <1>1 DEF HealthInit, HealthTypeOK, Answers
<1>3. IsFiniteSet(rows)
  BY FS_EmptySet DEF HealthInit
<1>4. \A k \in Refreshes : AnswerIsBacked(refresh[k])
  BY DEF HealthInit, AnswerIsBacked, Idle
<1>5. QED
  BY <1>2, <1>3, <1>4 DEF HealthInv

\* Rows that are added take nothing from what an answer has read.
LEMMA RowsGrow ==
  ASSUME HealthInv, NEW k \in Refreshes, rows \subseteq rows', refresh'[k] = refresh[k]
  PROVE  AnswerIsBacked(refresh[k])'
<1>1. AnswerIsBacked(refresh[k])
  BY DEF HealthInv
<1>2. QED
  BY <1>1 DEF AnswerIsBacked

\* A read moves the answer on to the next, and leaves everything else alone.
LEMMA ReadStep ==
  ASSUME HealthInv, NEW k \in Refreshes, NEW q, NEW answer \in Answers, Read(k, q, answer)
  PROVE  \E next \in {"recent", "backfill", "wire"} :
           /\ refresh' = [refresh EXCEPT ![k] = [answer EXCEPT !.at = next]]
           /\ q = "last" => next = "recent"
           /\ q = "recent" => next = "backfill"
           /\ q = "backfill" => next = "wire"
           /\ refresh[k].at = q /\ rows' = rows /\ HealthTypeOK'
<1>1. PICK i \in 1..3 : /\ HealthQueries[i] = q
                        /\ refresh' = [refresh EXCEPT ![k] = [answer EXCEPT !.at = HealthQueries[i + 1]]]
  BY DEF Read
<1> DEFINE next == HealthQueries[i + 1]
<1>2. /\ q = "last" => next = "recent"
      /\ q = "recent" => next = "backfill"
      /\ q = "backfill" => next = "wire"
      /\ next \in {"recent", "backfill", "wire"}
  <2>1. CASE i = 1 BY <1>1, <2>1 DEF HealthQueries
  <2>2. CASE i = 2 BY <1>1, <2>2 DEF HealthQueries
  <2>3. CASE i = 3 BY <1>1, <2>3 DEF HealthQueries
  <2>4. QED BY <2>1, <2>2, <2>3
<1>3. refresh' = [refresh EXCEPT ![k] = [answer EXCEPT !.at = next]]
  BY <1>1
<1> HIDE DEF next
<1>4. [answer EXCEPT !.at = next] \in Answers
  BY <1>2 DEF Answers
<1>5. refresh' \in [Refreshes -> Answers]
  BY <1>3, <1>4 DEF HealthInv, HealthTypeOK, Answers
<1>6. HealthTypeOK'
  BY <1>5 DEF HealthInv, HealthTypeOK, Answers, Read
<1>7. QED
  BY <1>2, <1>3, <1>6 DEF Read

LEMMA LastKeeps == ASSUME HealthInv, NEW k \in Refreshes, ReadLast(k) PROVE HealthInv'
<1>1. PICK last : /\ last = NoPoll \/ \E row \in rows : row.ts = last
                  /\ Read(k, "last", [refresh[k] EXCEPT !.last = last])
  BY DEF ReadLast, Latest
<1> DEFINE answer == [refresh[k] EXCEPT !.last = last]
<1>2. refresh[k] \in Answers /\ \A row \in rows : row.ts \in 0..MaxNow
  BY DEF HealthInv, HealthTypeOK, Answers, Rows
<1>3. answer \in Answers
  BY <1>1, <1>2 DEF Answers
<1>4. refresh' = [refresh EXCEPT ![k] = [answer EXCEPT !.at = "recent"]] /\ HealthTypeOK'
  <2>1. Read(k, "last", answer)
    BY <1>1
  <2> HIDE DEF answer
  <2>2. QED
    BY <1>3, <2>1, ReadStep
<1>5. rows' = rows
  BY <1>1 DEF Read
<1>6. refresh'[k] = [answer EXCEPT !.at = "recent"]
  BY <1>4 DEF HealthInv, HealthTypeOK
<1>7. refresh'[k].at = "recent" /\ refresh'[k].last = last
  BY <1>2, <1>6 DEF Answers
<1>8. AnswerIsBacked(refresh[k])'
  BY <1>1, <1>5, <1>7 DEF AnswerIsBacked
<1>9. ASSUME NEW j \in Refreshes, j # k PROVE AnswerIsBacked(refresh[j])'
  BY <1>4, <1>5, <1>9, RowsGrow DEF HealthInv, HealthTypeOK
<1>10. QED
  BY <1>4, <1>5, <1>8, <1>9 DEF HealthInv

\* With no failures after the last ok row, whatever the order of equal stamps, there is an
\* ok row at least as late as any other.
LEMMA NoStreak ==
  ASSUME HealthInv, NEW strictly \in BOOLEAN, Cardinality(Trailing(strictly)) = 0,
         NEW row \in rows
  PROVE  \E other \in rows : other.ok /\ other.ts >= row.ts
<1>1. Trailing(strictly) \in SUBSET rows
  BY DEF Trailing
<1>2. Trailing(strictly) = {}
  BY <1>1, FS_Subset, FS_EmptySet DEF HealthInv
<1>3. row.ok \/ \E other \in rows : other.ok /\ ~(other.ts < row.ts)
  BY <1>2 DEF Trailing
<1>4. \A other \in rows : other.ts \in Int
  BY DEF HealthInv, HealthTypeOK, Rows
<1>5. QED
  BY <1>3, <1>4

LEMMA RecentKeeps == ASSUME HealthInv, NEW k \in Refreshes, ReadRecent(k) PROVE HealthInv'
<1>1. PICK strictly \in BOOLEAN :
        Read(k, "recent", [refresh[k] EXCEPT !.streak = Cardinality(Trailing(strictly))])
  BY DEF ReadRecent
<1> DEFINE streak == Cardinality(Trailing(strictly))
           answer == [refresh[k] EXCEPT !.streak = streak]
<1>2. streak \in Nat
  <2>1. Trailing(strictly) \in SUBSET rows
    BY DEF Trailing
  <2>2. QED
    BY <2>1, FS_Subset, FS_CardinalityType DEF HealthInv
<1>3. refresh[k] \in Answers
  BY DEF HealthInv, HealthTypeOK, Answers
<1>4. answer \in Answers
  BY <1>2, <1>3 DEF Answers
<1>5. /\ refresh' = [refresh EXCEPT ![k] = [answer EXCEPT !.at = "backfill"]] /\ HealthTypeOK'
      /\ refresh[k].at = "recent"
  BY <1>1, <1>4, ReadStep
<1>6. rows' = rows
  BY <1>1 DEF Read
<1>7. refresh'[k] = [answer EXCEPT !.at = "backfill"]
  BY <1>5 DEF HealthInv, HealthTypeOK
<1>8. /\ refresh'[k].at = "backfill" /\ refresh'[k].last = refresh[k].last
      /\ refresh'[k].streak = streak
  BY <1>3, <1>7 DEF Answers
<1>9. refresh[k].last # NoPoll => \E row \in rows : row.ts = refresh[k].last
  BY <1>5 DEF HealthInv, AnswerIsBacked
<1>10. refresh[k].last # NoPoll /\ streak = 0 =>
         \E row \in rows : row.ok /\ row.ts >= refresh[k].last
  BY <1>9, NoStreak
<1>11. AnswerIsBacked(refresh[k])'
  BY <1>6, <1>8, <1>9, <1>10 DEF AnswerIsBacked
<1>12. ASSUME NEW j \in Refreshes, j # k PROVE AnswerIsBacked(refresh[j])'
  BY <1>5, <1>6, <1>12, RowsGrow DEF HealthInv, HealthTypeOK
<1>13. QED
  BY <1>5, <1>6, <1>11, <1>12 DEF HealthInv

LEMMA BackfillKeeps == ASSUME HealthInv, NEW k \in Refreshes, ReadBackfill(k) PROVE HealthInv'
<1>1. PICK failed \in BOOLEAN : Read(k, "backfill", [refresh[k] EXCEPT !.failed = failed])
  BY DEF ReadBackfill
<1> DEFINE answer == [refresh[k] EXCEPT !.failed = failed]
<1>2. refresh[k] \in Answers
  BY DEF HealthInv, HealthTypeOK, Answers
<1>3. answer \in Answers
  BY <1>2 DEF Answers
<1>4. /\ refresh' = [refresh EXCEPT ![k] = [answer EXCEPT !.at = "wire"]] /\ HealthTypeOK'
      /\ refresh[k].at = "backfill"
  BY <1>1, <1>3, ReadStep
<1>5. rows' = rows
  BY <1>1 DEF Read
<1>6. refresh'[k] = [answer EXCEPT !.at = "wire"]
  BY <1>4 DEF HealthInv, HealthTypeOK
<1>7. /\ refresh'[k].at = "wire" /\ refresh'[k].last = refresh[k].last
      /\ refresh'[k].streak = refresh[k].streak
  BY <1>2, <1>6 DEF Answers
<1>8. AnswerIsBacked(refresh[k])'
  BY <1>4, <1>5, <1>7 DEF HealthInv, AnswerIsBacked
<1>9. ASSUME NEW j \in Refreshes, j # k PROVE AnswerIsBacked(refresh[j])'
  BY <1>4, <1>5, <1>9, RowsGrow DEF HealthInv, HealthTypeOK
<1>10. QED
  BY <1>4, <1>5, <1>8, <1>9 DEF HealthInv

LEMMA ToneType == ASSUME NEW answer PROVE PickTone(answer) \in {"good", "warn", "bad", "neutral"}
BY DEF PickTone

\* A refresh begins, or its answer arrives or fails: it holds nothing yet, or any more.
LEMMA EdgeKeeps ==
  ASSUME HealthInv, NEW k \in Refreshes, Refresh(k) \/ Render(k) \/ RefreshFails(k)
  PROVE  HealthInv'
<1>1. rows' = rows /\ UNCHANGED <<now, polling>>
  BY DEF Refresh, Render, RefreshFails
<1>2. \/ refresh' = [refresh EXCEPT ![k] = Idle]
      \/ refresh' = [refresh EXCEPT ![k].at = "last"]
  BY DEF Refresh, Render, RefreshFails, HealthQueries
<1>3. Idle \in Answers /\ Idle.at = "idle"
  BY DEF Idle, Answers
<1>4. refresh[k] \in Answers
  BY DEF HealthInv, HealthTypeOK, Answers
<1>5. refresh' \in [Refreshes -> Answers] /\ refresh'[k].at \in {"idle", "last"}
  BY <1>2, <1>3, <1>4 DEF HealthInv, HealthTypeOK, Answers
<1>6. shown' \in {"good", "warn", "bad", "neutral"}
  BY ToneType DEF Refresh, Render, RefreshFails, HealthInv, HealthTypeOK
<1>7. AnswerIsBacked(refresh[k])'
  BY <1>5 DEF AnswerIsBacked
<1>8. ASSUME NEW j \in Refreshes, j # k PROVE AnswerIsBacked(refresh[j])'
  BY <1>1, <1>2, <1>8, RowsGrow DEF HealthInv, HealthTypeOK
<1>9. QED
  BY <1>1, <1>5, <1>6, <1>7, <1>8 DEF HealthInv, HealthTypeOK, Answers

LEMMA PollsKeep ==
  ASSUME HealthInv, NEW row \in polling, StorePoll(row)
  PROVE  HealthInv'
<1>1. UNCHANGED <<now, refresh, shown>> /\ polling' \subseteq Rows
  BY DEF StorePoll, HealthInv, HealthTypeOK
<1>2. rows' = rows \/ rows' = rows \cup {row}
  BY DEF StorePoll
<1>3. rows \subseteq rows' /\ rows' \subseteq Rows /\ IsFiniteSet(rows')
  BY <1>2, FS_AddElement DEF HealthInv, HealthTypeOK
<1>4. ASSUME NEW k \in Refreshes PROVE AnswerIsBacked(refresh[k])'
  BY <1>1, <1>3, RowsGrow
<1>5. QED
  BY <1>1, <1>3, <1>4 DEF HealthInv, HealthTypeOK

LEMMA HealthStep == HealthInv /\ [HealthNext]_healthVars => HealthInv'
<1> SUFFICES ASSUME HealthInv, [HealthNext]_healthVars PROVE HealthInv'
  OBVIOUS
<1>1. ASSUME rows' = rows, refresh' = refresh, HealthTypeOK' PROVE HealthInv'
  BY <1>1 DEF HealthInv, AnswerIsBacked
<1>2. CASE Pass
  <2>1. HealthTypeOK'
    BY <1>2 DEF Pass, HealthInv, HealthTypeOK
  <2>2. QED
    BY <1>1, <1>2, <2>1 DEF Pass
<1>3. ASSUME NEW ok \in BOOLEAN, Poll(ok) PROVE HealthInv'
  <2>1. [ts |-> now, ok |-> ok] \in Rows
    BY DEF Rows, HealthInv, HealthTypeOK
  <2>2. HealthTypeOK'
    BY <1>3, <2>1 DEF Poll, HealthInv, HealthTypeOK
  <2>3. QED
    BY <1>1, <1>3, <2>2 DEF Poll
<1>4. ASSUME NEW row \in polling, StorePoll(row) PROVE HealthInv'
  BY <1>4, PollsKeep
<1>5. ASSUME NEW k \in Refreshes, Refresh(k) \/ Answering(k) \/ RefreshFails(k) PROVE HealthInv'
  BY <1>5, LastKeeps, RecentKeeps, BackfillKeeps, EdgeKeeps DEF Answering
<1>6. CASE UNCHANGED healthVars
  <2>1. HealthTypeOK'
    BY <1>6 DEF healthVars, HealthInv, HealthTypeOK
  <2>2. QED
    BY <1>1, <1>6, <2>1 DEF healthVars
<1>7. QED
  BY <1>2, <1>3, <1>4, <1>5, <1>6 DEF HealthNext

\* The specification without its fairness.
HealthSteps == HealthInit /\ [][HealthNext]_healthVars

LEMMA HealthAlways == HealthSteps => []HealthInv
BY HealthStart, HealthStep, PTL DEF HealthSteps

\* Every reachable state of the card and its answers is well-typed.
THEOREM HealthTypeCorrect == HealthSpec => []HealthTypeOK
<1>1. HealthInv => HealthTypeOK
  BY DEF HealthInv
<1>2. QED
  BY <1>1, HealthAlways, PTL DEF HealthSpec, HealthSteps

LEMMA GoodFollows == HealthInv => GoodIsEarned
<1> SUFFICES ASSUME HealthInv PROVE GoodIsEarned
  OBVIOUS
<1> SUFFICES ASSUME NEW k \in Refreshes, refresh[k].at = "wire", PickTone(refresh[k]) = "good"
             PROVE  \E row \in rows : row.ok /\ now - row.ts <= WarnAge
  BY DEF GoodIsEarned
<1> DEFINE answer == refresh[k]
<1>1. /\ answer.last \in {NoPoll} \cup 0..MaxNow /\ answer.streak \in Nat /\ now \in Nat
      /\ \A row \in rows : row.ts \in Int
  BY DEF HealthInv, HealthTypeOK, Rows
<1>2. answer.last # NoPoll /\ answer.streak = 0 /\ ~(now - answer.last > WarnAge)
  BY <1>1 DEF PickTone
<1>3. PICK row \in rows : row.ok /\ row.ts >= answer.last
  BY <1>2 DEF HealthInv, AnswerIsBacked
<1>4. answer.last \in Int
  BY <1>1, <1>2
<1>5. QED
  BY <1>1, <1>2, <1>3, <1>4

\* A card that turns good has a successful poll behind it that is young enough, although
\* the answer was put together from reads at different times (queries.py:154-200).
THEOREM GoodTonesAreEarned == HealthSpec => []GoodIsEarned
BY GoodFollows, HealthAlways, PTL DEF HealthSpec, HealthSteps

HIDE HealthAssumption

-----------------------------------------------------------------------------
(* Summary *)

\* A finite set of numbers has a largest: of the sets of what is above an element, one has
\* no other below it, and that one is empty.
LEMMA MaxOfFinite ==
  ASSUME NEW S \in SUBSET Nat, IsFiniteSet(S), S # {}
  PROVE  Max(S) \in S /\ \A x \in S : x <= Max(S)
<1> DEFINE Above(x) == {y \in S : y > x}
           Aboves == {Above(x) : x \in S}
<1>1. IsWellFoundedOn(StrictSubsetOrdering(S), SUBSET S)
  BY FS_StrictSubsetOrderingWellFounded, FS_FiniteSubsetsOfFinite
<1>2. Aboves \subseteq SUBSET S /\ Aboves # {}
  OBVIOUS
<1>3. PICK A \in Aboves : \A B \in Aboves : <<B, A>> \notin StrictSubsetOrdering(S)
  <2> HIDE DEF Aboves
  <2>1. QED
    BY <1>1, <1>2, WFMin
<1>4. PICK x \in S : A = Above(x)
  BY <1>3
<1>5. ASSUME NEW y \in S, y > x PROVE FALSE
  <2>1. Above(y) \in Aboves
    OBVIOUS
  <2>2. Above(y) \subseteq S /\ Above(x) \subseteq S /\ y \in Above(x)
    BY <1>5
  <2>3. Above(y) \subseteq Above(x) /\ y \notin Above(y)
    <3>1. \A z \in S : z \in Nat
      OBVIOUS
    <3>2. \A z \in S : z > y => z > x
      BY <1>5, <3>1
    <3>3. ~(y > y)
      BY <3>1
    <3>4. QED
      BY <3>2, <3>3
  <2>4. <<Above(y), Above(x)>> \in StrictSubsetOrdering(S)
    <3> HIDE DEF Above
    <3>1. QED
      BY <2>2, <2>3 DEF StrictSubsetOrdering
  <2>5. QED
    BY <1>3, <1>4, <2>1, <2>4
<1>6. \A y \in S : x >= y
  BY <1>5
<1>7. QED
  BY <1>6 DEF Max

LEMMA LargestOfFinite ==
  ASSUME NEW S, IsFiniteSet(S), \A e \in S : Mag(e) \in Nat
  PROVE  /\ LargestOf(S) \in Nat /\ \A e \in S : Mag(e) <= LargestOf(S)
         /\ LargestOf(S) = 0 \/ \E e \in S : Mag(e) = LargestOf(S)
<1> DEFINE T == {Mag(e) : e \in S} \cup {0}
<1>1. IsFiniteSet({Mag(e) : e \in S})
  <2> DEFINE f == [e \in S |-> Mag(e)]
  <2>1. f \in Surjection(S, {Mag(e) : e \in S})
    BY DEF Surjection
  <2>2. QED
    BY <2>1, FS_Surjection
<1>2. IsFiniteSet(T)
  BY <1>1, FS_AddElement
<1>3. T \in SUBSET Nat /\ T # {}
  OBVIOUS
<1>4. Max(T) \in T /\ \A x \in T : x <= Max(T)
  <2> HIDE DEF T
  <2>1. QED
    BY <1>2, <1>3, MaxOfFinite
<1>5. LargestOf(S) = Max(T)
  BY DEF LargestOf
<1>6. LargestOf(S) \in T /\ \A x \in T : x <= LargestOf(S)
  <2> HIDE DEF T
  <2>1. QED
    BY <1>4, <1>5
<1>7. QED
  BY <1>6

Readings == [nearby : SUBSET Shakes, risk : Nat, day : Nat, week : Nat, month : Nat, largest : Nat]

SumType == SumTypeOK /\ reading \in Readings

\* The events scored are still there, and the largest of them as large.
NearbyInv ==
  asking \in {"day", "week", "month", "largest"} /\ ~lost =>
    /\ reading.nearby \subseteq Within(Month)
    /\ reading.risk = 0 \/ \E e \in reading.nearby : Mag(e) = reading.risk

\* The events counted for the last day are still of the last week: of those that have
\* left the day none grows older once more before the answer.
DayInv ==
  asking = "week" /\ ~lost =>
    \E D \in SUBSET Shakes :
      /\ reading.day = Cardinality(D)
      /\ \A e \in D : e \in Within(Day) \/ (e \in Within(Week) /\ e \in aged)

\* Those counted for the last week are still of the last month.
WeekInv ==
  asking = "month" /\ ~lost =>
    /\ reading.day <= reading.week
    /\ \E W \in SUBSET Within(Month) : reading.week = Cardinality(W)

MonthInv ==
  asking = "largest" /\ ~lost =>
    /\ reading.day <= reading.week /\ reading.week <= reading.month
    /\ Cardinality(reading.nearby) <= reading.month

SumInv == SumType /\ NearbyInv /\ DayInv /\ WeekInv /\ MonthInv /\ CardAgrees

USE SummaryAssumption DEF Day, Week, Month

LEMMA SumStart == SumInit => SumInv
<1> SUFFICES ASSUME SumInit PROVE SumInv
  OBVIOUS
<1>1. SumType
  BY DEF SumInit, Unread, SumType, SumTypeOK, Readings
<1>2. asking = "idle"
  BY DEF SumInit
<1>3. QED
  BY <1>1, <1>2 DEF SumInv, NearbyInv, DayInv, WeekInv, MonthInv, CardAgrees

Quake == [mag : Sizes, age : Day..Month]

LEMMA ShakeType ==
  ASSUME SumType, NEW e \in Shakes, shakes[e] # NoCard
  PROVE  shakes[e] \in Quake /\ Mag(e) \in Nat /\ shakes[e].age \in 0..2
BY DEF SumType, SumTypeOK, Mag, Quake

LEMMA WithinFinite ==
  ASSUME NEW w
  PROVE  /\ Within(w) \subseteq Shakes /\ IsFiniteSet(Within(w)) /\ Cardinality(Within(w)) \in Nat
<1>1. Within(w) \in SUBSET Shakes
  BY DEF Within
<1>2. QED
  BY <1>1, FS_Subset, FS_CardinalityType

\* A step that leaves what was read alone, if no answer is under way any more that could be
\* right or none was.
LEMMA LostKeeps ==
  ASSUME SumInv, SumType', asking' = asking, reading' = reading,
         lost' \/ ~Reading, lost => lost'
  PROVE  SumInv'
BY DEF SumInv, NearbyInv, DayInv, WeekInv, MonthInv, CardAgrees, Reading

\* Events that appear or grow older, during a request.
LEMMA GrowthKeeps ==
  ASSUME SumInv, SumType', asking' = asking, reading' = reading, lost' = lost,
         \A e \in Within(Month) : e \in Within(Month)' /\ Mag(e)' = Mag(e),
         \A e \in Within(Day) : e \in Within(Day)' \/ (e \in Within(Week)' /\ e \in aged'),
         \A e \in Within(Week) \cap aged : e \in Within(Week)' /\ e \in aged'
  PROVE  SumInv'
<1>1. NearbyInv'
  BY DEF SumInv, NearbyInv
<1>2. DayInv'
  <2> SUFFICES ASSUME asking = "week", ~lost
               PROVE  \E D \in SUBSET Shakes :
                        /\ reading.day = Cardinality(D)
                        /\ \A e \in D : e \in Within(Day)' \/ (e \in Within(Week)' /\ e \in aged')
    BY DEF DayInv
  <2>1. PICK D \in SUBSET Shakes :
          /\ reading.day = Cardinality(D)
          /\ \A e \in D : e \in Within(Day) \/ (e \in Within(Week) /\ e \in aged)
    BY DEF SumInv, DayInv
  <2>2. \A e \in D : e \in Within(Day)' \/ (e \in Within(Week)' /\ e \in aged')
    BY <2>1
  <2>3. QED
    BY <2>1, <2>2
<1>3. WeekInv'
  BY DEF SumInv, WeekInv
<1>4. MonthInv' /\ CardAgrees'
  BY DEF SumInv, MonthInv, CardAgrees
<1>5. QED
  BY <1>1, <1>2, <1>3, <1>4 DEF SumInv

LEMMA AppearKeeps ==
  ASSUME SumInv, NEW e \in Shakes, NEW m \in Sizes, NEW a \in Day..Month, Appear(e, m, a)
  PROVE  SumInv'
<1>1. shakes[e] = NoCard /\ shakes' = [shakes EXCEPT ![e] = [mag |-> m, age |-> a]]
  BY DEF Appear
<1>2. [mag |-> m, age |-> a] \in Quake
  BY DEF Quake
<1>3. SumType'
  BY <1>1, <1>2 DEF SumInv, SumType, SumTypeOK, Appear, Quake
<1>4. \A x \in Shakes : x # e => shakes'[x] = shakes[x]
  BY <1>1 DEF SumInv, SumType, SumTypeOK
<1>5. ASSUME NEW w PROVE Within(w) \subseteq Within(w)'
  BY <1>1, <1>4 DEF Within
<1>6. \A x \in Within(Month) : Mag(x)' = Mag(x)
  BY <1>1, <1>4 DEF Within, Mag
<1>7. QED
  BY <1>3, <1>5, <1>6, GrowthKeeps DEF Appear

LEMMA OlderKeeps == ASSUME SumInv, NEW e \in Shakes, GrowOlder(e) PROVE SumInv'
<1>1. /\ e \in Within(Week) /\ e \notin aged
      /\ shakes' = [shakes EXCEPT ![e] = [shakes[e] EXCEPT !.age = shakes[e].age + 1]]
  BY DEF GrowOlder
<1>2. shakes[e] \in Quake /\ shakes[e].age \in 0..1
  BY <1>1, ShakeType DEF SumInv, Within
<1>3. [shakes[e] EXCEPT !.age = shakes[e].age + 1] \in Quake
  BY <1>2 DEF Quake
<1>4. SumType'
  <2>1. shakes' \in [Shakes -> {NoCard} \cup Quake]
    BY <1>1, <1>3 DEF SumInv, SumType, SumTypeOK, Quake
  <2>2. aged' \subseteq Shakes
    BY DEF GrowOlder, SumInv, SumType, SumTypeOK
  <2>3. QED
    BY <2>1, <2>2 DEF GrowOlder, SumInv, SumType, SumTypeOK, Quake
<1>5. CASE ~Reading
  BY <1>4, <1>5, LostKeeps DEF GrowOlder
<1>6. CASE Reading
  <2>1. aged' = aged \cup {e}
    BY <1>6 DEF GrowOlder
  <2>2. \A x \in Shakes : x # e => shakes'[x] = shakes[x]
    BY <1>1 DEF SumInv, SumType, SumTypeOK
  <2>3. /\ shakes'[e].age = shakes[e].age + 1 /\ shakes'[e].mag = shakes[e].mag
        /\ shakes'[e] # NoCard
    BY <1>1, <1>2, <1>3 DEF SumInv, SumType, SumTypeOK, Quake
  <2>4. \A x \in Within(Month) : x \in Within(Month)' /\ Mag(x)' = Mag(x)
    BY <1>2, <2>2, <2>3 DEF Within, Mag
  <2>5. \A x \in Within(Day) : x \in Within(Day)' \/ (x \in Within(Week)' /\ x \in aged')
    BY <1>2, <2>1, <2>2, <2>3 DEF Within
  <2>6. \A x \in Within(Week) \cap aged : x \in Within(Week)' /\ x \in aged'
    BY <1>1, <2>1, <2>2 DEF Within
  <2>7. QED
    BY <1>4, <2>4, <2>5, <2>6, GrowthKeeps DEF GrowOlder
<1>7. QED
  BY <1>5, <1>6

\* An event is revised or gone.
LEMMA ChangeKeeps ==
  ASSUME SumInv, NEW e \in Shakes, Leave(e) \/ \E m \in Sizes : Revise(e, m)
  PROVE  SumInv'
<1>1. e \in Within(Month) /\ shakes[e] \in Quake
  BY ShakeType DEF Leave, Revise, SumInv, Within
<1>2. \/ shakes' = [shakes EXCEPT ![e] = NoCard]
      \/ \E m \in Sizes : shakes' = [shakes EXCEPT ![e] = [shakes[e] EXCEPT !.mag = m]]
  BY DEF Leave, Revise
<1>3. \A m \in Sizes : [shakes[e] EXCEPT !.mag = m] \in Quake
  BY <1>1 DEF Quake
<1>4. shakes' \in [Shakes -> {NoCard} \cup Quake]
  BY <1>2, <1>3 DEF SumInv, SumType, SumTypeOK, Quake
<1>5. /\ lost' = (lost \/ Reading)
      /\ UNCHANGED <<asking, reading, cardError, aged>>
  BY DEF Leave, Revise
<1>6. lost' \in BOOLEAN
  BY <1>5
<1>7. SumType'
  BY <1>4, <1>5, <1>6 DEF SumInv, SumType, SumTypeOK, Quake
<1>8. lost => lost'
  BY <1>5
<1>9. lost' \/ ~Reading
  BY <1>5
<1>10. QED
  BY <1>5, <1>7, <1>8, <1>9, LostKeeps

LEMMA QueryStep ==
  ASSUME SumInv, NEW q, NEW r \in Readings, Query(q, r)
  PROVE  /\ asking = q /\ reading' = r /\ UNCHANGED <<shakes, cardError, lost, aged>>
         /\ q = "nearby" => asking' = "day"
         /\ q = "day" => asking' = "week"
         /\ q = "week" => asking' = "month"
         /\ q = "month" => asking' = "largest"
         /\ q = "largest" => asking' = "shown"
         /\ SumType'
<1>1. PICK i \in 1..5 : CardQueries[i] = q /\ asking' = CardQueries[i + 1]
  BY DEF Query
<1>2. /\ q = "nearby" => asking' = "day"
      /\ q = "day" => asking' = "week"
      /\ q = "week" => asking' = "month"
      /\ q = "month" => asking' = "largest"
      /\ q = "largest" => asking' = "shown"
      /\ asking' \in {"day", "week", "month", "largest", "shown"}
  <2>1. CASE i = 1 BY <1>1, <2>1 DEF CardQueries
  <2>2. CASE i = 2 BY <1>1, <2>2 DEF CardQueries
  <2>3. CASE i = 3 BY <1>1, <2>3 DEF CardQueries
  <2>4. CASE i = 4 BY <1>1, <2>4 DEF CardQueries
  <2>5. CASE i = 5 BY <1>1, <2>5 DEF CardQueries
  <2>6. QED BY <2>1, <2>2, <2>3, <2>4, <2>5
<1>3. asking = q /\ reading' = r /\ UNCHANGED <<shakes, cardError, lost, aged>>
  BY DEF Query
<1>4. SumType'
  BY <1>2, <1>3 DEF SumInv, SumType, SumTypeOK, Readings
<1>5. QED
  BY <1>2, <1>3, <1>4

LEMMA NearbyKeeps == ASSUME SumInv, ReadNearby PROVE SumInv'
<1>1. PICK S \in SUBSET Within(Month) :
        Query("nearby", [reading EXCEPT !.nearby = S, !.risk = LargestOf(S)])
  BY DEF ReadNearby
<1> DEFINE r == [reading EXCEPT !.nearby = S, !.risk = LargestOf(S)]
<1>2. S \subseteq Shakes /\ IsFiniteSet(S) /\ \A e \in S : Mag(e) \in Nat
  BY WithinFinite, FS_Subset, ShakeType DEF SumInv, Within
<1>3. LargestOf(S) \in Nat /\ (LargestOf(S) = 0 \/ \E e \in S : Mag(e) = LargestOf(S))
  BY <1>2, LargestOfFinite
<1>4. /\ r \in Readings /\ r.nearby = S /\ r.risk = LargestOf(S)
  BY <1>2, <1>3 DEF SumInv, SumType, Readings
<1>5. asking' = "day" /\ reading' = r /\ UNCHANGED <<shakes, lost>> /\ SumType'
  <2> HIDE DEF r
  <2>1. Query("nearby", r)
    BY <1>1 DEF r
  <2>2. QED
    BY <1>4, <2>1, QueryStep
<1>6. NearbyInv'
  BY <1>3, <1>4, <1>5 DEF NearbyInv, Within, Mag
<1>7. QED
  BY <1>5, <1>6 DEF SumInv, DayInv, WeekInv, MonthInv, CardAgrees

LEMMA DayKeeps == ASSUME SumInv, CountDay PROVE SumInv'
<1> DEFINE n == Cardinality(Within(Day))
           r == [reading EXCEPT !.day = n]
<1>1. n \in Nat /\ Within(Day) \subseteq Shakes
  BY WithinFinite
<1>2. /\ r \in Readings /\ r.day = n /\ r.nearby = reading.nearby /\ r.risk = reading.risk
  BY <1>1 DEF SumInv, SumType, Readings
<1>3. /\ asking = "day" /\ asking' = "week" /\ reading' = r
      /\ UNCHANGED <<shakes, lost, aged>> /\ SumType'
  <2> HIDE DEF r
  <2>1. Query("day", r)
    BY DEF CountDay, r
  <2>2. QED
    BY <1>2, <2>1, QueryStep
<1>4. NearbyInv'
  BY <1>2, <1>3 DEF SumInv, NearbyInv, Within, Mag
<1>5. DayInv'
  <2>1. \A e \in Within(Day) : e \in Within(Day)'
    BY <1>3 DEF Within
  <2>2. QED
    BY <1>1, <1>2, <1>3, <2>1 DEF DayInv
<1>6. QED
  BY <1>3, <1>4, <1>5 DEF SumInv, WeekInv, MonthInv, CardAgrees

LEMMA WeekKeeps == ASSUME SumInv, CountWeek PROVE SumInv'
<1> DEFINE n == Cardinality(Within(Week))
           r == [reading EXCEPT !.week = n]
<1>1. n \in Nat /\ IsFiniteSet(Within(Week))
  BY WithinFinite
<1>2. /\ r \in Readings /\ r.week = n /\ r.day = reading.day
      /\ r.nearby = reading.nearby /\ r.risk = reading.risk
  BY <1>1 DEF SumInv, SumType, Readings
<1>3. /\ asking = "week" /\ asking' = "month" /\ reading' = r
      /\ UNCHANGED <<shakes, lost, aged>> /\ SumType'
  <2> HIDE DEF r
  <2>1. Query("week", r)
    BY DEF CountWeek, r
  <2>2. QED
    BY <1>2, <2>1, QueryStep
<1>4. NearbyInv'
  BY <1>2, <1>3 DEF SumInv, NearbyInv, Within, Mag
<1>5. ASSUME ~lost PROVE reading.day <= n
  <2>1. PICK D \in SUBSET Shakes :
          /\ reading.day = Cardinality(D)
          /\ \A e \in D : e \in Within(Day) \/ (e \in Within(Week) /\ e \in aged)
    BY <1>3, <1>5 DEF SumInv, DayInv
  <2>2. \A e \in Within(Day) : e \in Within(Week)
    BY ShakeType DEF SumInv, Within
  <2>3. D \in SUBSET Within(Week)
    BY <2>1, <2>2
  <2>4. QED
    BY <1>1, <2>1, <2>3, FS_Subset
<1>6. WeekInv'
  <2>1. \A e \in Within(Week) : e \in Within(Month)'
    BY <1>3, ShakeType DEF SumInv, Within
  <2>2. Within(Week) \in SUBSET Within(Month)'
    BY <2>1
  <2>3. QED
    BY <1>2, <1>3, <1>5, <2>2 DEF WeekInv
<1>7. QED
  BY <1>3, <1>4, <1>6 DEF SumInv, DayInv, MonthInv, CardAgrees

LEMMA MonthKeeps == ASSUME SumInv, CountMonth PROVE SumInv'
<1> DEFINE n == Cardinality(Within(Month))
           r == [reading EXCEPT !.month = n]
<1>1. n \in Nat /\ IsFiniteSet(Within(Month))
  BY WithinFinite
<1>2. /\ r \in Readings /\ r.month = n /\ r.week = reading.week /\ r.day = reading.day
      /\ r.nearby = reading.nearby /\ r.risk = reading.risk
  BY <1>1 DEF SumInv, SumType, Readings
<1>3. /\ asking = "month" /\ asking' = "largest" /\ reading' = r
      /\ UNCHANGED <<shakes, lost, aged>> /\ SumType'
  <2> HIDE DEF r
  <2>1. Query("month", r)
    BY DEF CountMonth, r
  <2>2. QED
    BY <1>2, <2>1, QueryStep
<1>4. NearbyInv'
  BY <1>2, <1>3 DEF SumInv, NearbyInv, Within, Mag
<1>5. ASSUME ~lost PROVE /\ reading.day <= reading.week /\ reading.week <= n
                         /\ Cardinality(reading.nearby) <= n
  <2>1. PICK W \in SUBSET Within(Month) : reading.week = Cardinality(W)
    BY <1>3, <1>5 DEF SumInv, WeekInv
  <2>2. reading.nearby \in SUBSET Within(Month) /\ reading.day <= reading.week
    BY <1>3, <1>5 DEF SumInv, NearbyInv, WeekInv
  <2>3. QED
    BY <1>1, <2>1, <2>2, FS_Subset
<1>6. MonthInv'
  BY <1>2, <1>3, <1>5 DEF MonthInv
<1>7. QED
  BY <1>3, <1>4, <1>6 DEF SumInv, DayInv, WeekInv, CardAgrees

LEMMA LargestKeeps == ASSUME SumInv, ReadLargest PROVE SumInv'
<1> DEFINE n == LargestOf(Within(Month))
           r == [reading EXCEPT !.largest = n]
<1>1. n \in Nat /\ \A e \in Within(Month) : Mag(e) <= n
  BY WithinFinite, ShakeType, LargestOfFinite DEF SumInv, Within
<1>2. /\ r \in Readings /\ r.largest = n /\ r.month = reading.month
      /\ r.week = reading.week /\ r.day = reading.day
      /\ r.nearby = reading.nearby /\ r.risk = reading.risk
  BY <1>1 DEF SumInv, SumType, Readings
<1>3. /\ asking = "largest" /\ asking' = "shown" /\ reading' = r
      /\ UNCHANGED <<shakes, lost, aged>> /\ SumType'
  <2> HIDE DEF r
  <2>1. Query("largest", r)
    BY DEF ReadLargest, r
  <2>2. QED
    BY <1>2, <2>1, QueryStep
<1>4. ASSUME ~lost PROVE reading.risk <= n
  BY <1>1, <1>3, <1>4 DEF SumInv, NearbyInv
<1>5. CardAgrees'
  BY <1>2, <1>3, <1>4 DEF SumInv, MonthInv, CardAgrees
<1>6. QED
  BY <1>3, <1>5 DEF SumInv, NearbyInv, DayInv, WeekInv, MonthInv

LEMMA SumStep == SumInv /\ [SumNext]_sumVars => SumInv'
<1> SUFFICES ASSUME SumInv, [SumNext]_sumVars PROVE SumInv'
  OBVIOUS
<1>1. CASE Ask \/ AskFails
  <2>1. reading' = Unread /\ shakes' = shakes /\ aged' = {} /\ asking' \in {"idle", "nearby"}
    BY <1>1 DEF Ask, AskFails
  <2>2. lost' = FALSE /\ (cardError' = TRUE \/ cardError' = cardError)
    BY <1>1 DEF Ask, AskFails
  <2>3. Unread \in Readings
    BY DEF Unread, Readings
  <2>4. SumType'
    BY <2>1, <2>2, <2>3 DEF SumInv, SumType, SumTypeOK, Readings
  <2>5. QED
    BY <2>1, <2>4 DEF SumInv, NearbyInv, DayInv, WeekInv, MonthInv, CardAgrees
<1>2. CASE UNCHANGED sumVars
  BY <1>2 DEF sumVars, SumInv, SumType, SumTypeOK, NearbyInv, DayInv, WeekInv, MonthInv,
              CardAgrees, Within, Mag
<1>3. QED
  BY <1>1, <1>2, AppearKeeps, OlderKeeps, ChangeKeeps, NearbyKeeps, DayKeeps, WeekKeeps,
     MonthKeeps, LargestKeeps DEF SumNext

LEMMA SumAlways == SumSpec => []SumInv
BY SumStart, SumStep, PTL DEF SumSpec

\* Every reachable state of a card and the events it is about is well-typed.
THEOREM SummaryTypeCorrect == SumSpec => []SumTypeOK
<1>1. SumInv => SumTypeOK
  BY DEF SumInv, SumType
<1>2. QED
  BY <1>1, SumAlways, PTL

\* A card agrees with itself, for any events, magnitudes and limit of the list.
THEOREM CardsAgree == SumSpec => []CardAgrees
<1>1. SumInv => CardAgrees
  BY DEF SumInv
<1>2. QED
  BY <1>1, SumAlways, PTL

HIDE SummaryAssumption DEF Day, Week, Month

-----------------------------------------------------------------------------
(* LiveFeed *)

LEMMA AppendFacts ==
  ASSUME NEW S, NEW s \in Seq(S), NEW x \in S
  PROVE  /\ Append(s, x) \in Seq(S)
         /\ Len(s) \in Nat /\ DOMAIN s = 1..Len(s) /\ DOMAIN Append(s, x) = 1..Len(s) + 1
         /\ \A i \in 1..Len(s) : Append(s, x)[i] = s[i]
         /\ Append(s, x)[Len(s) + 1] = x
BY AppendProperties, LenProperties

LEMMA TailFacts ==
  ASSUME NEW S, NEW s \in Seq(S), s # <<>>
  PROVE  /\ Tail(s) \in Seq(S) /\ Head(s) \in S /\ Head(s) = s[1]
         /\ Len(s) \in Nat \ {0} /\ DOMAIN s = 1..Len(s) /\ DOMAIN Tail(s) = 1..Len(s) - 1
         /\ \A i \in 1..Len(s) - 1 : Tail(s)[i] = s[i + 1]
<1>1. /\ Tail(s) \in Seq(S) /\ Head(s) \in S /\ Len(Tail(s)) = Len(s) - 1
      /\ \A i \in 1..Len(Tail(s)) : Tail(s)[i] = s[i + 1]
  BY HeadTailProperties
<1>2. Len(s) \in Nat \ {0} /\ DOMAIN s = 1..Len(s) /\ Head(s) = s[1]
  BY LenProperties, EmptySeq
<1>3. QED
  BY <1>1, <1>2, LenProperties

Docs == Quakes \X (1..MaxStores)
Fetches == [at : {"server", "wire", "done"}, window : Windows, docs : [Quakes -> 0..MaxStores]]
Batches == [at : 0..MaxStores, todo : SUBSET Quakes]

\* The type invariant in two parts, of the api with the wire and of the view.
ApiType ==
  /\ stored \in [Quakes -> 0..MaxStores] /\ stamp \in 0..MaxStores /\ after \in 0..MaxStores
  /\ batch \in [Writers -> Batches] /\ overlooked \subseteq Quakes
  /\ gen \in {"none", "stream", "poll"}
  /\ undelivered \in Seq(Quakes) /\ page \subseteq Docs /\ sent \in Seq(Docs)
  /\ received \subseteq Quakes /\ cuts \in 0..MaxMoves
ViewType ==
  /\ list \in [Quakes -> 0..MaxStores] /\ pushed \subseteq Quakes
  /\ window \in Windows /\ fetches \in Seq(Fetches)
  /\ listError \in BOOLEAN /\ raced \subseteq Quakes /\ skipped \subseteq Quakes

Last == fetches[Len(fetches)]

\* The last request is for the selected window, and its answer is of that window.
WindowInv ==
  /\ fetches # <<>> /\ Last.window = window
  /\ Last.at = "wire" => \A e \in Quakes : Last.docs[e] # 0 => e \in InWindow[window]
  /\ Last.at = "done" /\ ~listError =>
       \A e \in Quakes : list[e] # 0 => e \in InWindow[window] \cup pushed

\* What is still to write has a stamp, and only stored events have changed.
StampInv ==
  /\ \A w \in Writers : batch[w].todo # {} => batch[w].at # 0
  /\ gen = "none" => received = {}
  /\ \A e \in received : stored[e] # 0
  /\ \A i \in DOMAIN undelivered : undelivered[i] \in received

\* Of the events that are not overlooked, a page holds no later document, and the
\* document of every one up to the last it holds.
HeldInv ==
  /\ page # {} => gen = "poll"
  /\ \A doc \in page : after <= doc[2] /\ (doc[2] <= stored[doc[1]] \/ doc[1] \in overlooked)
  /\ \A doc \in page, e \in Quakes \ overlooked :
       after < stored[e] /\ stored[e] <= doc[2] => <<e, stored[e]>> \in page

\* A change of e that the generator has yet to yield, as e is now.
Due(e) ==
  \/ gen = "stream" /\ \E i \in DOMAIN undelivered : undelivered[i] = e
  \/ gen = "poll" /\ (stored[e] > after \/ <<e, stored[e]>> \in page)

NoFrame(e) == \A i \in DOMAIN sent : sent[i][1] # e

\* The last frame of e on the wire is e as it is now.
LastFrame(e) ==
  \E i \in DOMAIN sent : /\ sent[i] = <<e, stored[e]>>
                         /\ \A j \in DOMAIN sent : j > i => sent[j][1] # e

\* The list shows e as it is now, or the answer on its way does, or is yet to be made.
Shown(e) ==
  \/ Last.at = "server"
  \/ Last.at = "wire" /\ Last.docs[e] = stored[e]
  \/ Last.at = "done" /\ list[e] = stored[e]

\* No frame of a changed event on the wire is older than the list, unless a newer one
\* follows it, or the fallback has overlooked the event.
FrameInv == \A e \in received : Due(e) \/ LastFrame(e) \/ NoFrame(e) \/ e \in overlooked

Failed == Last.at = "done" /\ listError

ListInv ==
  \A e \in received \cap InWindow[window] :
    Failed \/ Excused(e) \/ Due(e) \/ LastFrame(e) \/ Shown(e)

FeedInv == ApiType /\ ViewType /\ WindowInv /\ StampInv /\ HeldInv /\ FrameInv /\ ListInv

\* What FeedAssumption gives the proofs.
LEMMA FeedConstants ==
  /\ {PageLimit, ListLimit, MaxStores, MaxMoves} \subseteq Nat
  /\ InWindow \in [Windows -> SUBSET Quakes] /\ FirstWindow \in Windows
  /\ TimeOf \in [Quakes -> Int]
BY FeedAssumption

USE FeedConstants

LEMMA NothingType == Nothing \in [Quakes -> 0..MaxStores]
BY DEF Nothing

LEMMA NewFetchType == ASSUME NEW w \in Windows PROVE NewFetch(w) \in Fetches
BY NothingType DEF NewFetch, Fetches

LEMMA TypesAgree == ApiType /\ ViewType => FeedTypeOK
BY DEF ApiType, ViewType, FeedTypeOK, Docs, Fetches, Batches

LEMMA FeedStart == FeedInit => FeedInv
<1> SUFFICES ASSUME FeedInit PROVE FeedInv
  OBVIOUS
<1>1. /\ fetches = <<NewFetch(FirstWindow)>> /\ NewFetch(FirstWindow) \in Fetches
  BY NewFetchType DEF FeedInit
<1>2. fetches \in Seq(Fetches) /\ Len(fetches) = 1 /\ fetches[1] = NewFetch(FirstWindow)
  BY <1>1
<1>3. ApiType /\ ViewType
  <2>1. MaxStores \in Nat /\ MaxMoves \in Nat /\ FirstWindow \in Windows
    OBVIOUS
  <2>2. ApiType
    BY <2>1, NothingType, EmptySeq DEF FeedInit, ApiType, Batches
  <2>3. ViewType
    BY <1>2, <2>1, NothingType DEF FeedInit, ViewType
  <2>4. QED
    BY <2>2, <2>3
<1>4. WindowInv
  BY <1>2 DEF FeedInit, WindowInv, Last, NewFetch
<1>5. StampInv /\ HeldInv /\ FrameInv /\ ListInv
  BY DEF FeedInit, StampInv, HeldInv, FrameInv, ListInv, Nothing
<1>6. QED
  BY <1>3, <1>4, <1>5 DEF FeedInv

\* What the view keeps is left alone.
LEMMA ViewStays ==
  ASSUME FeedInv, UNCHANGED viewVars
  PROVE  /\ WindowInv' /\ Last' = Last /\ window' = window /\ list' = list /\ raced' = raced
         /\ (Failed' <=> Failed) /\ (skipped' \subseteq Quakes => ViewType')
BY DEF FeedInv, WindowInv, ViewType, viewVars, Last, Failed

\* The last request, while `fetches` is not empty.
LEMMA LastType ==
  ASSUME FeedInv
  PROVE  /\ Len(fetches) \in Nat \ {0} /\ DOMAIN fetches = 1..Len(fetches) /\ Last \in Fetches
         /\ \A k \in DOMAIN fetches : fetches[k] \in Fetches
<1>1. fetches \in Seq(Fetches) /\ fetches # <<>>
  BY DEF FeedInv, ViewType, WindowInv
<1>2. Len(fetches) \in Nat \ {0} /\ DOMAIN fetches = 1..Len(fetches)
  BY <1>1, TailFacts
<1>3. \A k \in DOMAIN fetches : fetches[k] \in Fetches
  BY <1>1, <1>2, ElementOfSeq
<1>4. QED
  BY <1>2, <1>3 DEF Last

-----------------------------------------------------------------------------
(* LiveFeed: the api *)

LEMMA StartBatchKeeps == ASSUME FeedInv, NEW w \in Writers, StartBatch(w) PROVE FeedInv'
<1> USE DEF FeedInv
<1>1. PICK S \in SUBSET Quakes : batch' = [batch EXCEPT ![w] = [at |-> stamp + 1, todo |-> S]]
  BY DEF StartBatch
<1>2. /\ stamp < MaxStores /\ stamp' = stamp + 1
      /\ UNCHANGED <<stored, gen, undelivered, page, after, received, overlooked>>
      /\ UNCHANGED viewVars /\ UNCHANGED <<skipped, sent, cuts>>
  BY DEF StartBatch
<1>3. stamp \in Nat /\ stamp' \in 0..MaxStores /\ stamp' # 0
  BY <1>2 DEF ApiType
<1>4. batch' \in [Writers -> Batches]
  <2>1. [at |-> stamp + 1, todo |-> S] \in Batches
    BY <1>2, <1>3 DEF Batches
  <2>2. QED
    BY <1>1, <2>1 DEF ApiType
<1>5. ApiType'
  BY <1>2, <1>3, <1>4 DEF ApiType
<1>6. StampInv'
  <2>1. \A v \in Writers : batch'[v].todo # {} => batch'[v].at # 0
    BY <1>1, <1>2, <1>3 DEF ApiType, StampInv
  <2>2. QED
    BY <1>2, <2>1 DEF StampInv
<1>7. HeldInv' /\ FrameInv'
  BY <1>2 DEF HeldInv, FrameInv, Due, LastFrame, NoFrame
<1>8. ListInv'
  BY <1>2, ViewStays DEF ListInv, Excused, Due, LastFrame, Shown
<1>9. QED
  BY <1>2, <1>5, <1>6, <1>7, <1>8, ViewStays DEF ViewType

\* The event is due, or the fallback has read up to its stamp and overlooks it.
LEMMA StoreEventKeeps ==
  ASSUME FeedInv, NEW w \in Writers, NEW e \in Quakes, StoreEvent(w, e) PROVE FeedInv'
<1> DEFINE at == batch[w].at
<1>1. /\ e \in batch[w].todo /\ stored' = [stored EXCEPT ![e] = at]
      /\ batch' = [batch EXCEPT ![w].todo = @ \ {e}]
      /\ UNCHANGED <<stamp, gen, page, after, sent, cuts>> /\ UNCHANGED viewVars
      /\ received' = IF gen = "none" THEN received ELSE received \cup {e}
      /\ undelivered' = IF gen = "stream" THEN Append(undelivered, e) ELSE undelivered
      /\ skipped' = skipped \ {e}
      /\ overlooked' = IF ReadUpTo(at) THEN overlooked \cup {e} ELSE overlooked \ {e}
  BY DEF StoreEvent
<1> USE DEF FeedInv
<1>2. at \in 1..MaxStores /\ batch' \in [Writers -> Batches]
  <2>1. batch[w] \in Batches
    BY DEF ApiType
  <2>2. at # 0
    BY <1>1 DEF StampInv
  <2>3. [batch[w] EXCEPT !.todo = @ \ {e}] \in Batches
    BY <2>1 DEF Batches
  <2>4. batch' = [batch EXCEPT ![w] = [batch[w] EXCEPT !.todo = @ \ {e}]]
    BY <1>1 DEF ApiType
  <2>5. QED
    BY <2>1, <2>2, <2>3, <2>4 DEF Batches, ApiType
<1> HIDE DEF at
<1>3. /\ stored'[e] = at /\ \A d \in Quakes : d # e => stored'[d] = stored[d]
      /\ stored' \in [Quakes -> 0..MaxStores]
      /\ \A d \in Quakes : d # e => (d \in overlooked' <=> d \in overlooked)
      /\ overlooked' \subseteq Quakes
  BY <1>1, <1>2 DEF ApiType
<1>4. /\ undelivered' \in Seq(Quakes)
      /\ gen = "stream" => \E i \in DOMAIN undelivered' : undelivered'[i] = e
      /\ \A i \in DOMAIN undelivered : i \in DOMAIN undelivered' /\ undelivered'[i] = undelivered[i]
      /\ \A i \in DOMAIN undelivered' : undelivered'[i] \in received'
  <2>1. CASE gen = "stream"
    <3>1. undelivered \in Seq(Quakes) /\ undelivered' = Append(undelivered, e)
      BY <1>1, <2>1 DEF ApiType
    <3>2. /\ undelivered' \in Seq(Quakes)
          /\ Len(undelivered) \in Nat /\ DOMAIN undelivered = 1..Len(undelivered)
          /\ DOMAIN undelivered' = 1..Len(undelivered) + 1
          /\ \A i \in 1..Len(undelivered) : undelivered'[i] = undelivered[i]
          /\ undelivered'[Len(undelivered) + 1] = e
      BY <3>1, AppendFacts
    <3>3. e \in received' /\ received \subseteq received'
      BY <1>1, <2>1
    <3>4. \A i \in DOMAIN undelivered' : undelivered'[i] \in received'
      <4>1. \A i \in 1..Len(undelivered) : undelivered'[i] \in received'
        BY <3>2, <3>3 DEF StampInv
      <4>2. QED
        BY <3>2, <3>3, <4>1
    <3>5. QED
      BY <3>2, <3>4
  <2>2. CASE gen # "stream"
    BY <1>1, <2>2 DEF ApiType, StampInv
  <2>3. QED
    BY <2>1, <2>2
<1>5. ApiType'
  BY <1>1, <1>2, <1>3, <1>4 DEF ApiType
<1>6. StampInv'
  <2>1. \A v \in Writers : batch'[v].todo # {} => batch'[v].at # 0
    BY <1>1 DEF ApiType, StampInv
  <2>2. \A d \in received' : stored'[d] # 0
    BY <1>1, <1>2, <1>3 DEF ApiType, StampInv
  <2>3. QED
    BY <1>1, <1>4, <2>1, <2>2 DEF StampInv
<1>7. e \in overlooked' \/ (gen = "poll" => after < at /\ \A doc \in page : doc[2] < at)
  <2>1. \A doc \in page : doc[2] \in Nat
    BY DEF ApiType, Docs
  <2>2. after \in Nat /\ at \in Nat
    BY <1>2 DEF ApiType
  <2>3. QED
    BY <1>1, <2>1, <2>2 DEF ReadUpTo
<1>8. HeldInv'
  <2>1. ASSUME NEW doc \in page PROVE doc[1] \in Quakes /\ doc[2] \in Nat /\ gen = "poll"
    BY DEF ApiType, Docs, HeldInv
  <2>2. ASSUME NEW doc \in page
        PROVE  after <= doc[2] /\ (doc[2] <= stored'[doc[1]] \/ doc[1] \in overlooked')
    <3>1. CASE doc[1] = e
      BY <1>2, <1>3, <1>7, <2>1, <3>1 DEF HeldInv
    <3>2. CASE doc[1] # e
      BY <1>3, <2>1, <3>2 DEF HeldInv
    <3>3. QED
      BY <3>1, <3>2
  <2>3. ASSUME NEW doc \in page, NEW d \in Quakes \ overlooked',
               after < stored'[d], stored'[d] <= doc[2]
        PROVE  <<d, stored'[d]>> \in page
    <3>1. d # e
      BY <1>2, <1>3, <1>7, <2>1, <2>3
    <3>2. QED
      BY <1>3, <2>3, <3>1 DEF HeldInv
  <2>4. QED
    BY <1>1, <2>1, <2>2, <2>3 DEF HeldInv
<1>9. ASSUME e \in received' PROVE Due(e)' \/ e \in overlooked'
  <2>1. gen \in {"stream", "poll"}
    BY <1>1, <1>9 DEF StampInv, ApiType
  <2>2. CASE gen = "stream"
    BY <1>1, <1>4, <2>2 DEF Due
  <2>3. CASE gen = "poll" /\ e \notin overlooked'
    <3>1. stored'[e] > after
      BY <1>2, <1>3, <1>7, <2>3 DEF ApiType
    <3>2. QED
      BY <1>1, <2>3, <3>1 DEF Due
  <2>4. QED
    BY <2>1, <2>2, <2>3
<1>10. ASSUME NEW d \in received', d # e
       PROVE  /\ d \in received /\ (d \in overlooked' <=> d \in overlooked)
              /\ Due(d) => Due(d)'
              /\ LastFrame(d) => LastFrame(d)'
              /\ NoFrame(d) => NoFrame(d)'
              /\ Shown(d) => Shown(d)'
              /\ Excused(d) => Excused(d)'
  <2>1. d \in received /\ stored'[d] = stored[d] /\ (d \in overlooked' <=> d \in overlooked)
    BY <1>1, <1>3, <1>10 DEF ApiType
  <2>2. Due(d) => Due(d)'
    <3>1. CASE gen = "stream"
      BY <1>1, <1>4, <2>1, <3>1 DEF Due
    <3>2. CASE gen # "stream"
      <4>1. gen' = gen /\ after' = after /\ page' = page /\ stored'[d] = stored[d]
        BY <1>1, <2>1
      <4>2. QED
        BY <3>2, <4>1 DEF Due
    <3>3. QED
      BY <3>1, <3>2
  <2>3. Shown(d) => Shown(d)'
    BY <1>1, <2>1, ViewStays DEF Shown
  <2>4. Excused(d) => Excused(d)'
    BY <1>1, <1>10, <2>1, ViewStays DEF Excused
  <2>5. QED
    BY <1>1, <2>1, <2>2, <2>3, <2>4 DEF LastFrame, NoFrame
<1>11. FrameInv'
  <2>1. ASSUME NEW d \in received'
        PROVE  Due(d)' \/ LastFrame(d)' \/ NoFrame(d)' \/ d \in overlooked'
    <3>1. CASE d = e
      BY <1>9, <2>1, <3>1
    <3>2. CASE d # e
      BY <1>10, <2>1, <3>2 DEF FrameInv
    <3>3. QED
      BY <3>1, <3>2
  <2>2. QED
    BY <2>1 DEF FrameInv
<1>12. ListInv'
  <2>1. window' = window /\ (Failed' <=> Failed)
    BY <1>1, ViewStays
  <2>2. ASSUME NEW d \in (received \cap InWindow[window])'
        PROVE  Failed' \/ Excused(d)' \/ Due(d)' \/ LastFrame(d)' \/ Shown(d)'
    <3>1. CASE d = e
      BY <1>9, <2>2, <3>1 DEF Excused
    <3>2. CASE d # e
      <4>1. d \in received' /\ d \in received \cap InWindow[window]
        BY <1>10, <2>1, <2>2, <3>2
      <4>2. Failed \/ Excused(d) \/ Due(d) \/ LastFrame(d) \/ Shown(d)
        BY <4>1 DEF ListInv
      <4>3. QED
        BY <1>10, <2>1, <3>2, <4>1, <4>2
    <3>3. QED
      BY <3>1, <3>2
  <2>3. QED
    BY <2>2 DEF ListInv
<1>13. ViewType'
  BY <1>1, ViewStays DEF ViewType
<1>14. QED
  BY <1>1, <1>5, <1>6, <1>8, <1>11, <1>12, <1>13, ViewStays

\* With no event changed since the view connected there is nothing to show.
LEMMA ConnectKeeps == ASSUME FeedInv, Connect \/ Cut PROVE FeedInv'
<1> USE DEF FeedInv
<1>1. /\ UNCHANGED <<stored, stamp, batch, skipped>> /\ UNCHANGED viewVars
      /\ received' = {} /\ page' = {} /\ after' = 0 /\ overlooked' = {}
  BY DEF Connect, Cut, StampInv, HeldInv
<1>2. /\ gen' \in {"none", "stream", "poll"} /\ cuts' \in 0..MaxMoves
      /\ undelivered' = <<>> \/ undelivered' = undelivered
      /\ sent' = <<>> \/ sent' = sent
  <2>1. Len(fetches) \in Nat \ {0} /\ cuts \in 0..MaxMoves
    BY LastType DEF ApiType
  <2>2. QED
    BY <2>1 DEF Connect, Cut, ApiType, Moves
<1>3. ApiType'
  <2>1. undelivered' \in Seq(Quakes) /\ sent' \in Seq(Docs)
    BY <1>2, EmptySeq DEF ApiType
  <2>2. after' \in 0..MaxStores /\ stored' \in [Quakes -> 0..MaxStores] /\ stamp' \in 0..MaxStores
    <3>1. MaxStores \in Nat
      OBVIOUS
    <3>2. QED
      BY <1>1, <3>1 DEF ApiType
  <2>3. QED
    BY <1>1, <1>2, <2>1, <2>2 DEF ApiType
<1>4. StampInv'
  <2>1. \A i \in DOMAIN undelivered' : undelivered'[i] \in received'
    <3>1. CASE Connect
      BY <3>1 DEF Connect, StampInv
    <3>2. CASE Cut
      BY <3>2 DEF Cut
    <3>3. QED
      BY <3>1, <3>2
  <2>2. QED
    BY <1>1, <2>1 DEF ApiType, StampInv
<1>5. HeldInv' /\ FrameInv' /\ ListInv'
  BY <1>1 DEF HeldInv, FrameInv, ListInv
<1>6. QED
  BY <1>1, <1>3, <1>4, <1>5, ViewStays DEF ViewType

\* The fallback starts from the first stamp: every change is due again.
LEMMA FallbackKeeps == ASSUME FeedInv, StreamFails PROVE FeedInv'
<1> USE DEF FeedInv
<1>1. /\ UNCHANGED <<stored, stamp, batch, page, received, skipped, sent, cuts>>
      /\ UNCHANGED viewVars
      /\ gen = "stream" /\ gen' = "poll" /\ undelivered' = <<>> /\ after' = 0 /\ page = {}
      /\ overlooked' = {}
  BY DEF StreamFails, HeldInv
<1>2. ApiType'
  BY <1>1 DEF ApiType
<1>3. StampInv' /\ HeldInv'
  BY <1>1 DEF ApiType, StampInv, HeldInv
<1>4. \A e \in received : Due(e)'
  BY <1>1 DEF ApiType, StampInv, Due
<1>5. QED
  BY <1>1, <1>2, <1>3, <1>4, ViewStays DEF FrameInv, ListInv, ViewType

\* A new frame is the last of its event, and of no other.
LEMMA FramesAfterAppend ==
  ASSUME ApiType, NEW doc \in Docs, sent' = Append(sent, doc), UNCHANGED stored
  PROVE  /\ doc[2] = stored[doc[1]] => LastFrame(doc[1])'
         /\ \A e : e # doc[1] => /\ LastFrame(e) => LastFrame(e)'
                                 /\ NoFrame(e) => NoFrame(e)'
<1>1. /\ Len(sent) \in Nat /\ DOMAIN sent = 1..Len(sent) /\ DOMAIN sent' = 1..Len(sent) + 1
      /\ \A i \in 1..Len(sent) : sent'[i] = sent[i]
      /\ sent'[Len(sent) + 1] = doc
  BY AppendFacts DEF ApiType
<1>2. doc = <<doc[1], doc[2]>>
  BY DEF Docs
<1>3. ASSUME doc[2] = stored[doc[1]] PROVE LastFrame(doc[1])'
  <2>1. sent'[Len(sent) + 1] = <<doc[1], stored'[doc[1]]>>
    BY <1>1, <1>2, <1>3
  <2>2. QED
    BY <1>1, <2>1 DEF LastFrame
<1>4. ASSUME NEW e, e # doc[1], LastFrame(e) PROVE LastFrame(e)'
  <2>1. PICK i \in DOMAIN sent : /\ sent[i] = <<e, stored[e]>>
                                 /\ \A j \in DOMAIN sent : j > i => sent[j][1] # e
    BY <1>4 DEF LastFrame
  <2>2. i \in DOMAIN sent' /\ sent'[i] = <<e, stored'[e]>>
    BY <1>1, <2>1
  <2>3. \A j \in DOMAIN sent' : j > i => sent'[j][1] # e
    BY <1>1, <1>4, <2>1
  <2>4. QED
    BY <2>2, <2>3 DEF LastFrame
<1>5. ASSUME NEW e, e # doc[1], NoFrame(e) PROVE NoFrame(e)'
  BY <1>1, <1>5 DEF NoFrame
<1>6. QED
  BY <1>3, <1>4, <1>5

\* A document is sent: an event of which it is the current one is on its way, and the
\* others are as much so as before.
LEMMA FrameSent ==
  ASSUME FeedInv, ApiType', StampInv', HeldInv', UNCHANGED viewVars,
         UNCHANGED <<stored, received, skipped, overlooked>>,
         NEW doc \in Docs, sent' = Append(sent, doc),
         doc[1] \in received \ overlooked => doc[2] = stored[doc[1]] \/ Due(doc[1])',
         \A e \in received \ overlooked : e # doc[1] /\ Due(e) => Due(e)'
  PROVE  FeedInv'
<1>1. ASSUME NEW e \in received \ overlooked, Due(e) \/ e = doc[1] PROVE Due(e)' \/ LastFrame(e)'
  BY <1>1, FramesAfterAppend DEF FeedInv
<1>2. ASSUME NEW e \in received, e # doc[1]
      PROVE  (LastFrame(e) => LastFrame(e)') /\ (NoFrame(e) => NoFrame(e)')
  BY <1>2, FramesAfterAppend DEF FeedInv
<1>3. FrameInv'
  BY <1>1, <1>2 DEF FeedInv, FrameInv
<1>4. /\ WindowInv' /\ ViewType' /\ Last' = Last /\ window' = window /\ list' = list
      /\ raced' = raced /\ (Failed' <=> Failed)
  BY ViewStays DEF FeedInv, ViewType
<1>5. \A e : (Shown(e)' <=> Shown(e)) /\ (Excused(e)' <=> Excused(e))
  BY <1>4 DEF Shown, Excused
<1>6. ListInv'
  <2> SUFFICES ASSUME NEW e \in received \cap InWindow[window]
               PROVE  Failed \/ Excused(e) \/ Due(e)' \/ LastFrame(e)' \/ Shown(e)
    BY <1>4, <1>5 DEF ListInv
  <2>1. e \in overlooked => Excused(e)
    BY DEF Excused
  <2>2. Failed \/ Excused(e) \/ Due(e) \/ LastFrame(e) \/ Shown(e)
    BY DEF FeedInv, ListInv
  <2>3. QED
    BY <1>1, <1>2, <2>1, <2>2
<1>7. QED
  BY <1>3, <1>4, <1>6 DEF FeedInv

LEMMA YieldChangeKeeps == ASSUME FeedInv, YieldChange PROVE FeedInv'
<1> DEFINE e == Head(undelivered)
           doc == <<e, stored[e]>>
<1> USE DEF FeedInv
<1>1. /\ gen = "stream" /\ undelivered # <<>> /\ sent' = Append(sent, doc)
      /\ undelivered' = Tail(undelivered)
      /\ UNCHANGED <<stored, stamp, batch, gen, page, after, received, overlooked, skipped, cuts>>
      /\ UNCHANGED viewVars
  BY DEF YieldChange
<1>2. /\ undelivered' \in Seq(Quakes) /\ e \in Quakes /\ e = undelivered[1]
      /\ Len(undelivered) \in Nat \ {0} /\ DOMAIN undelivered = 1..Len(undelivered)
      /\ DOMAIN undelivered' = 1..Len(undelivered) - 1
      /\ \A i \in 1..Len(undelivered) - 1 : undelivered'[i] = undelivered[i + 1]
  BY <1>1, TailFacts DEF ApiType
<1> HIDE DEF e
<1>3. e \in received
  BY <1>2 DEF StampInv
<1>4. doc \in Docs
  BY <1>2, <1>3 DEF ApiType, StampInv, Docs
<1>5. sent' \in Seq(Docs)
  <2> HIDE DEF doc
  <2>1. QED
    BY <1>1, <1>4, AppendFacts DEF ApiType
<1>6. ApiType'
  BY <1>1, <1>2, <1>5 DEF ApiType
<1>7. StampInv'
  <2>1. \A i \in DOMAIN undelivered' : undelivered'[i] \in received'
    BY <1>1, <1>2 DEF StampInv
  <2>2. QED
    BY <1>1, <2>1 DEF StampInv
<1>8. HeldInv'
  BY <1>1 DEF HeldInv
<1>9. ASSUME NEW d \in received, d # e, Due(d) PROVE Due(d)'
  <2>1. PICK i \in DOMAIN undelivered : undelivered[i] = d
    BY <1>1, <1>9 DEF Due
  <2>2. i - 1 \in DOMAIN undelivered' /\ undelivered'[i - 1] = undelivered[i]
    BY <1>2, <1>9, <2>1
  <2>3. QED
    BY <1>1, <2>1, <2>2 DEF Due
<1>10. doc[1] = e /\ doc[2] = stored[e]
  OBVIOUS
<1>11. QED
  <2> HIDE DEF doc, FeedInv
  <2>1. QED
    BY <1>1, <1>4, <1>6, <1>7, <1>8, <1>9, <1>10, FrameSent

\* A page takes the earliest of the later documents; of those it leaves, it overlooks the
\* ones with a stamp of its own.
LEMMA ReadPageKeeps == ASSUME FeedInv, ReadPage PROVE FeedInv'
<1> USE DEF FeedInv
<1>1. PICK T \in FirstOf(Later) :
        /\ page' = {<<e, stored[e]>> : e \in T}
        /\ overlooked' = overlooked \cup {e \in Later \ T : \E d \in T : stored[d] = stored[e]}
  BY DEF ReadPage
<1>2. /\ gen = "poll" /\ page = {} /\ UNCHANGED viewVars
      /\ UNCHANGED <<stored, stamp, batch, gen, undelivered, after, received, skipped, sent, cuts>>
  BY DEF ReadPage
<1>3. T \subseteq Later /\ \A d \in T, e \in Later \ T : stored[d] <= stored[e]
  BY DEF FirstOf
<1>4. /\ \A e \in Quakes : stored[e] \in Nat /\ stored[e] \in 0..MaxStores
      /\ after \in Nat /\ \A e \in Later : e \in Quakes /\ stored[e] > after
  BY DEF ApiType, Later
<1>5. page' \subseteq Docs /\ overlooked \subseteq overlooked' /\ overlooked' \subseteq Quakes
  BY <1>1, <1>3, <1>4 DEF ApiType, Docs
<1>6. ApiType'
  BY <1>2, <1>5 DEF ApiType
<1>7. HeldInv'
  <2>1. ASSUME NEW doc \in page'
        PROVE  doc[1] \in T /\ doc[2] = stored[doc[1]]
    BY <1>1
  <2>2. ASSUME NEW doc \in page', NEW e \in Quakes \ overlooked',
               after < stored[e], stored[e] <= doc[2]
        PROVE  <<e, stored[e]>> \in page'
    <3>1. e \in Later
      BY <2>2 DEF Later
    <3>2. e \in T
      <4>1. ASSUME e \notin T PROVE stored[doc[1]] = stored[e]
        BY <1>3, <1>4, <2>1, <2>2, <3>1, <4>1
      <4>2. QED
        BY <1>1, <2>1, <2>2, <3>1, <4>1
    <3>3. QED
      BY <1>1, <3>2
  <2>3. \A doc \in page' : after <= doc[2] /\ doc[2] <= stored[doc[1]]
    BY <1>3, <1>4, <2>1
  <2>4. QED
    BY <1>2, <2>2, <2>3 DEF HeldInv
<1>8. StampInv'
  BY <1>2 DEF StampInv
<1>9. \A e : /\ (Due(e) => Due(e)') /\ (LastFrame(e)' <=> LastFrame(e)) /\ (NoFrame(e)' <=> NoFrame(e))
             /\ (Shown(e)' <=> Shown(e)) /\ (Excused(e) => Excused(e)')
  BY <1>2, <1>5, ViewStays DEF Due, LastFrame, NoFrame, Shown, Excused
<1>10. FrameInv'
  BY <1>2, <1>5, <1>9 DEF FrameInv
<1>11. ListInv'
  BY <1>2, <1>9, ViewStays DEF ListInv
<1>12. QED
  BY <1>2, <1>6, <1>7, <1>8, <1>10, <1>11, ViewStays DEF ViewType

\* The earliest document of the page is sent.  If its event has changed since, it is due
\* again; and what else was due is later, or in the page.
LEMMA YieldDocKeeps == ASSUME FeedInv, NEW doc \in page, YieldDoc(doc) PROVE FeedInv'
<1> USE DEF FeedInv
<1>1. /\ \A other \in page : doc[2] <= other[2]
      /\ sent' = Append(sent, doc) /\ page' = page \ {doc} /\ after' = doc[2]
      /\ UNCHANGED <<stored, stamp, batch, gen, undelivered, received, overlooked, skipped, cuts>>
      /\ UNCHANGED viewVars
  BY DEF YieldDoc
<1>2. \A d \in page : d \in Docs /\ d[1] \in Quakes /\ d[2] \in 1..MaxStores /\ d[2] \in Nat
  BY DEF ApiType, Docs
<1>3. /\ \A e \in Quakes : stored[e] \in Nat
      /\ after \in Nat /\ MaxStores \in Nat
  BY DEF ApiType
<1>4. gen = "poll"
  BY DEF HeldInv
<1>5. ApiType'
  <2>1. sent' \in Seq(Docs)
    BY <1>1, <1>2, AppendFacts DEF ApiType
  <2>2. QED
    BY <1>1, <1>2, <2>1 DEF ApiType
<1>6. StampInv'
  BY <1>1 DEF StampInv
<1>7. ASSUME NEW e \in Quakes \ overlooked, stored[e] > after
      PROVE  stored[e] > doc[2] \/ <<e, stored[e]>> \in page
  BY <1>2, <1>3, <1>7 DEF HeldInv
<1>8. HeldInv'
  <2>1. ASSUME NEW d \in page', NEW e \in Quakes \ overlooked, doc[2] < stored[e], stored[e] <= d[2]
        PROVE  <<e, stored[e]>> \in page'
    <3>1. d \in page /\ <<e, stored[e]>> # doc
      BY <1>1, <1>2, <1>3, <2>1
    <3>2. after < stored[e]
      BY <1>2, <1>3, <2>1 DEF HeldInv
    <3>3. <<e, stored[e]>> \in page
      BY <2>1, <3>1, <3>2 DEF HeldInv
    <3>4. QED
      BY <1>1, <3>1, <3>3
  <2>2. \A d \in page' : doc[2] <= d[2] /\ d \in page
    BY <1>1
  <2>3. QED
    BY <1>1, <1>4, <2>1, <2>2 DEF HeldInv
<1>9. ASSUME NEW e \in received \ overlooked, e # doc[1], Due(e) PROVE Due(e)'
  <2>1. e \in Quakes \ overlooked /\ (stored[e] > after \/ <<e, stored[e]>> \in page)
    BY <1>4, <1>9 DEF ApiType, Due
  <2>2. stored[e] > doc[2] \/ <<e, stored[e]>> \in page
    BY <1>7, <2>1
  <2>3. <<e, stored[e]>> # doc
    BY <1>9
  <2>4. QED
    BY <1>1, <1>4, <2>2, <2>3 DEF Due
<1>10. doc[1] \in received \ overlooked => doc[2] = stored[doc[1]] \/ Due(doc[1])'
  <2>1. doc[1] \notin overlooked => doc[2] <= stored[doc[1]]
    BY DEF HeldInv
  <2>2. QED
    BY <1>1, <1>2, <1>3, <1>4, <2>1 DEF Due
<1>11. QED
  <2> HIDE DEF FeedInv
  <2>1. QED
    BY <1>1, <1>2, <1>5, <1>6, <1>8, <1>9, <1>10, FrameSent

-----------------------------------------------------------------------------
(* LiveFeed: the view *)

\* What the api and the wire hold is left alone.
LEMMA ApiStays ==
  ASSUME FeedInv, UNCHANGED <<apiVars, sent, cuts>>
  PROVE  /\ ApiType' /\ StampInv' /\ HeldInv' /\ FrameInv'
         /\ received' = received /\ stored' = stored /\ overlooked' = overlooked
         /\ \A e : (Due(e)' <=> Due(e)) /\ (LastFrame(e)' <=> LastFrame(e))
<1>1. /\ UNCHANGED <<stored, stamp, batch, gen, undelivered, page, after, received, overlooked>>
      /\ UNCHANGED <<sent, cuts>>
  BY DEF apiVars
<1>2. ApiType' /\ StampInv' /\ HeldInv'
  BY <1>1 DEF FeedInv, ApiType, StampInv, HeldInv
<1>3. \A e : /\ (Due(e)' <=> Due(e)) /\ (LastFrame(e)' <=> LastFrame(e))
             /\ (NoFrame(e)' <=> NoFrame(e))
  BY <1>1 DEF Due, LastFrame, NoFrame
<1>4. FrameInv'
  BY <1>1, <1>3 DEF FeedInv, FrameInv
<1>5. QED
  BY <1>1, <1>2, <1>3, <1>4

\* A request is changed where it is.
LEMMA FetchChanged ==
  ASSUME FeedInv, NEW k \in DOMAIN fetches, NEW f \in Fetches, fetches' = [fetches EXCEPT ![k] = f]
  PROVE  /\ fetches' \in Seq(Fetches) /\ Len(fetches') = Len(fetches) /\ fetches' # <<>>
         /\ k = Len(fetches) => Last' = f
         /\ k # Len(fetches) => Last' = Last
<1>1. fetches \in Seq(Fetches) /\ DOMAIN fetches = 1..Len(fetches) /\ Len(fetches) \in Nat \ {0}
  BY LastType DEF FeedInv, ViewType
<1>2. fetches' \in Seq(Fetches) /\ Len(fetches') = Len(fetches)
  BY <1>1, ExceptSeq
<1>3. fetches'[k] = f /\ \A j \in 1..Len(fetches) : j # k => fetches'[j] = fetches[j]
  BY <1>1
<1>4. fetches' # <<>>
  BY <1>1, <1>2, EmptySeq
<1>5. QED
  BY <1>1, <1>2, <1>3, <1>4 DEF Last

LEMMA SelectKeeps == ASSUME FeedInv, NEW w \in Windows, Select(w) PROVE FeedInv'
<1>1. /\ window' = w /\ fetches' = Append(fetches, NewFetch(w))
      /\ UNCHANGED <<apiVars, sent, cuts>> /\ UNCHANGED <<list, pushed, listError>>
      /\ raced' = {} /\ skipped' = {}
  BY DEF Select
<1>2. fetches \in Seq(Fetches) /\ NewFetch(w) \in Fetches
  BY NewFetchType DEF FeedInv, ViewType
<1>3. /\ fetches' \in Seq(Fetches) /\ Len(fetches') = Len(fetches) + 1 /\ fetches' # <<>>
      /\ Last' = NewFetch(w)
  BY <1>1, <1>2, AppendProperties DEF Last
<1>4. Last'.at = "server" /\ Last'.window = w
  BY <1>3 DEF NewFetch
<1>5. ViewType'
  BY <1>1, <1>3 DEF FeedInv, ViewType
<1>6. WindowInv' /\ ListInv'
  BY <1>1, <1>3, <1>4 DEF WindowInv, ListInv, Shown
<1>7. QED
  BY <1>1, <1>5, <1>6, ApiStays DEF FeedInv

\* A step of a request that is not the last.
LEMMA OldRequestKeeps ==
  ASSUME FeedInv, UNCHANGED <<apiVars, sent, cuts>>,
         UNCHANGED <<window, list, pushed, listError, raced, skipped>>,
         fetches' \in Seq(Fetches), fetches' # <<>>, Last' = Last
  PROVE  FeedInv'
<1>1. ViewType' /\ WindowInv'
  BY DEF FeedInv, ViewType, WindowInv
<1>2. (Failed' <=> Failed) /\ \A e : (Shown(e)' <=> Shown(e)) /\ (Excused(e)' <=> Excused(e))
  BY ApiStays DEF Failed, Shown, Excused
<1>3. ListInv'
  BY <1>2, ApiStays DEF FeedInv, ListInv
<1>4. QED
  BY <1>1, <1>3, ApiStays DEF FeedInv

\* The answer to the last request has the current documents, of all it has room for.
LEMMA ListEventsKeeps ==
  ASSUME FeedInv, NEW k \in DOMAIN fetches, ListEvents(k) PROVE FeedInv'
<1> DEFINE S == {e \in InWindow[fetches[k].window] : stored[e] # 0}
<1>1. PICK T \in NewestOf(S) :
        /\ fetches' = [fetches EXCEPT ![k].at = "wire",
                         ![k].docs = [e \in Quakes |-> IF e \in T THEN stored[e] ELSE 0]]
        /\ IF k = Len(fetches) THEN raced' = {} /\ skipped' = S \ T ELSE UNCHANGED <<raced, skipped>>
  BY DEF ListEvents
<1> DEFINE docs == [e \in Quakes |-> IF e \in T THEN stored[e] ELSE 0]
           f == [fetches[k] EXCEPT !.at = "wire", !.docs = docs]
<1>2. UNCHANGED <<apiVars, sent, cuts>> /\ UNCHANGED <<window, list, pushed, listError>>
  BY DEF ListEvents
<1>3. fetches[k] \in Fetches /\ fetches[k].window \in Windows
  BY LastType DEF Fetches
<1>4. docs \in [Quakes -> 0..MaxStores]
  <2>1. \A e \in Quakes : stored[e] \in 0..MaxStores
    BY DEF FeedInv, ApiType
  <2>2. MaxStores \in Nat
    OBVIOUS
  <2>3. QED
    BY <2>1, <2>2
<1>5. T \subseteq S /\ S \subseteq Quakes /\ S \subseteq InWindow[fetches[k].window]
  BY <1>3 DEF NewestOf
<1>6. fetches' = [fetches EXCEPT ![k] = f]
  BY <1>1
<1>7. f \in Fetches /\ f.at = "wire" /\ f.window = fetches[k].window /\ f.docs = docs
  <2> HIDE DEF docs
  <2>1. QED
    BY <1>3, <1>4 DEF Fetches
<1> HIDE DEF f
<1>8. /\ fetches' \in Seq(Fetches) /\ fetches' # <<>> /\ Len(fetches') = Len(fetches)
      /\ k = Len(fetches) => Last' = f
      /\ k # Len(fetches) => Last' = Last
  BY <1>6, <1>7, FetchChanged
<1>9. CASE k # Len(fetches)
  <2>1. Last' = Last /\ UNCHANGED <<raced, skipped>>
    BY <1>1, <1>8, <1>9
  <2>2. QED
    BY <1>2, <1>8, <2>1, OldRequestKeeps
<1>10. CASE k = Len(fetches)
  <2>1. fetches[k] = Last /\ Last.window = window /\ raced' = {} /\ skipped' = S \ T
    BY <1>1, <1>10 DEF FeedInv, WindowInv, Last
  <2>2. Last'.at = "wire" /\ Last'.window = window /\ Last'.docs = docs
    BY <1>7, <1>8, <1>10, <2>1
  <2>3. ViewType'
    <3>1. skipped' \subseteq Quakes /\ raced' \subseteq Quakes
      BY <1>5, <2>1
    <3>2. QED
      BY <1>2, <1>8, <3>1 DEF FeedInv, ViewType
  <2>4. \A e \in Quakes : docs[e] # 0 => e \in InWindow[window]
    BY <1>5, <2>1
  <2>5. WindowInv'
    BY <1>2, <1>8, <2>2, <2>4 DEF WindowInv
  <2>6. \A e \in received \cap InWindow[window] : docs[e] = stored[e] \/ e \in skipped'
    BY <2>1 DEF FeedInv, ApiType, StampInv
  <2>7. ListInv'
    <3> HIDE DEF docs, S
    <3>1. QED
      BY <1>2, <2>2, <2>6, ApiStays DEF ListInv, Shown, Excused
  <2>8. QED
    BY <1>2, <2>3, <2>5, <2>7, ApiStays DEF FeedInv
<1>11. QED
  BY <1>9, <1>10

\* A request is over: its answer has arrived, or it failed.
DoneFetch(k) == [fetches[k] EXCEPT !.at = "done", !.docs = Nothing]

LEMMA FetchDone ==
  ASSUME FeedInv, NEW k \in DOMAIN fetches,
         fetches' = [fetches EXCEPT ![k].at = "done", ![k].docs = Nothing]
  PROVE  /\ fetches' \in Seq(Fetches) /\ fetches' # <<>>
         /\ k = Len(fetches) => Last'.at = "done" /\ Last'.window = window /\ Last = fetches[k]
         /\ k # Len(fetches) => Last' = Last
<1>1. fetches[k] \in Fetches
  BY LastType
<1>2. DoneFetch(k) \in Fetches /\ DoneFetch(k).at = "done" /\ DoneFetch(k).window = fetches[k].window
  BY <1>1, NothingType DEF Fetches, DoneFetch
<1>3. fetches' = [fetches EXCEPT ![k] = DoneFetch(k)]
  BY DEF DoneFetch
<1>4. QED
  BY <1>2, <1>3, FetchChanged DEF FeedInv, WindowInv, Last

LEMMA TakeListKeeps == ASSUME FeedInv, NEW k \in DOMAIN fetches, TakeList(k) PROVE FeedInv'
<1>1. /\ fetches[k].at = "wire"
      /\ fetches' = [fetches EXCEPT ![k].at = "done", ![k].docs = Nothing]
      /\ UNCHANGED <<apiVars, sent, cuts>> /\ UNCHANGED <<window, raced, skipped>>
      /\ IF k = Len(fetches) THEN list' = fetches[k].docs /\ pushed' = {} /\ listError' = FALSE
                             ELSE UNCHANGED <<list, pushed, listError>>
  BY DEF TakeList, Alive
<1>2. /\ fetches' \in Seq(Fetches) /\ fetches' # <<>>
      /\ k = Len(fetches) => Last'.at = "done" /\ Last'.window = window /\ Last = fetches[k]
      /\ k # Len(fetches) => Last' = Last
  BY <1>1, FetchDone
<1>3. fetches[k].docs \in [Quakes -> 0..MaxStores]
  BY LastType DEF Fetches
<1>4. ViewType'
  BY <1>1, <1>2, <1>3 DEF FeedInv, ViewType
<1>5. CASE k # Len(fetches)
  <2>1. Last' = Last /\ UNCHANGED <<list, pushed, listError>>
    BY <1>1, <1>2, <1>5
  <2>2. QED
    BY <1>1, <1>2, <2>1, OldRequestKeeps
<1>6. CASE k = Len(fetches)
  <2>1. Last = fetches[k] /\ Last.at = "wire" /\ list' = Last.docs /\ Last'.at = "done"
    BY <1>1, <1>2, <1>6
  <2>2. WindowInv'
    BY <1>1, <1>2, <1>6, <2>1 DEF FeedInv, WindowInv
  <2>3. \A e \in received : (Shown(e) => Shown(e)') /\ (Excused(e)' <=> Excused(e))
    BY <1>1, <2>1, ApiStays DEF Shown, Excused
  <2>4. ~Failed
    BY <2>1 DEF Failed
  <2>5. ListInv'
    BY <1>1, <2>3, <2>4, ApiStays DEF FeedInv, ListInv
  <2>6. QED
    BY <1>1, <1>4, <2>2, <2>5, ApiStays DEF FeedInv
<1>7. QED
  BY <1>5, <1>6

LEMMA FetchFailsKeeps == ASSUME FeedInv, NEW k \in DOMAIN fetches, FetchFails(k) PROVE FeedInv'
<1>1. /\ fetches[k].at # "done"
      /\ fetches' = [fetches EXCEPT ![k].at = "done", ![k].docs = Nothing]
      /\ UNCHANGED <<apiVars, sent, cuts>> /\ UNCHANGED <<window, list, pushed, raced, skipped>>
      /\ listError' = (listError \/ k = Len(fetches))
  BY DEF FetchFails, Alive
<1>2. /\ fetches' \in Seq(Fetches) /\ fetches' # <<>>
      /\ k = Len(fetches) => Last'.at = "done" /\ Last'.window = window /\ Last = fetches[k]
      /\ k # Len(fetches) => Last' = Last
  BY <1>1, FetchDone
<1>3. ViewType'
  BY <1>1, <1>2 DEF FeedInv, ViewType
<1>4. CASE k # Len(fetches)
  <2>1. Last' = Last /\ listError' = listError
    BY <1>1, <1>2, <1>4 DEF FeedInv, ViewType
  <2>2. QED
    BY <1>1, <1>2, <2>1, OldRequestKeeps
<1>5. CASE k = Len(fetches)
  <2>1. Last'.at = "done" /\ Last'.window = window /\ listError'
    BY <1>1, <1>2, <1>5
  <2>2. WindowInv' /\ ListInv'
    BY <1>1, <1>2, <2>1 DEF WindowInv, ListInv, Failed
  <2>3. QED
    BY <1>1, <1>3, <2>2, ApiStays DEF FeedInv
<1>6. QED
  BY <1>4, <1>5

\* A frame is taken off the wire: the last of its event is the event as it is now.
LEMMA TakeFrameKeeps == ASSUME FeedInv, TakeFrame PROVE FeedInv'
<1> DEFINE doc == Head(sent)
<1>1. /\ sent # <<>> /\ sent' = Tail(sent)
      /\ list' = [list EXCEPT ![doc[1]] = doc[2]] /\ pushed' = pushed \cup {doc[1]}
      /\ raced' = IF Last.at = "wire" THEN raced \cup {doc[1]} ELSE raced \ {doc[1]}
      /\ UNCHANGED apiVars /\ UNCHANGED <<window, fetches, listError, skipped, cuts>>
  BY DEF TakeFrame, Last
<1>2. /\ sent' \in Seq(Docs) /\ doc \in Docs /\ doc = sent[1]
      /\ Len(sent) \in Nat \ {0} /\ DOMAIN sent = 1..Len(sent) /\ DOMAIN sent' = 1..Len(sent) - 1
      /\ \A i \in 1..Len(sent) - 1 : sent'[i] = sent[i + 1]
  BY <1>1, TailFacts DEF FeedInv, ApiType
<1> HIDE DEF doc
<1>3. doc[1] \in Quakes /\ doc[2] \in 1..MaxStores
  BY <1>2 DEF Docs
<1>4. ApiType' /\ StampInv' /\ HeldInv'
  BY <1>1, <1>2 DEF FeedInv, ApiType, StampInv, HeldInv, apiVars
<1>5. ViewType'
  <2>1. list' \in [Quakes -> 0..MaxStores] /\ pushed' \subseteq Quakes
    BY <1>1, <1>3 DEF FeedInv, ViewType
  <2>2. raced' \subseteq Quakes
    BY <1>1, <1>3 DEF FeedInv, ViewType
  <2>3. QED
    BY <1>1, <2>1, <2>2 DEF FeedInv, ViewType
<1>6. /\ Last' = Last /\ received' = received /\ stored' = stored /\ overlooked' = overlooked
      /\ (Failed' <=> Failed) /\ \A e : Due(e)' <=> Due(e)
  BY <1>1 DEF Last, apiVars, Due, Failed
<1>7. WindowInv'
  <2>1. \A e \in Quakes : e # doc[1] => list'[e] = list[e]
    BY <1>1 DEF FeedInv, ViewType
  <2>2. QED
    BY <1>1, <1>6, <2>1 DEF FeedInv, WindowInv
<1>8. ASSUME NEW e, NoFrame(e) PROVE NoFrame(e)' /\ e # doc[1]
  <2>1. \A i \in DOMAIN sent : sent[i][1] # e
    BY <1>8 DEF NoFrame
  <2>2. 1 \in DOMAIN sent /\ \A i \in DOMAIN sent' : i + 1 \in DOMAIN sent /\ sent'[i] = sent[i + 1]
    BY <1>2
  <2>3. QED
    BY <1>2, <2>1, <2>2 DEF NoFrame
<1>9. ASSUME NEW e \in received, LastFrame(e)
      PROVE  LastFrame(e)' \/ (e = doc[1] /\ NoFrame(e)' /\ list'[e] = stored[e])
  <2>1. PICK i \in DOMAIN sent : /\ sent[i] = <<e, stored[e]>>
                                 /\ \A j \in DOMAIN sent : j > i => sent[j][1] # e
    BY <1>9 DEF LastFrame
  <2>2. CASE i = 1
    <3>1. doc = <<e, stored[e]>>
      BY <1>2, <2>1, <2>2
    <3>2. list'[e] = stored[e]
      BY <1>1, <1>3, <3>1 DEF FeedInv, ViewType
    <3>3. \A j \in DOMAIN sent' : sent'[j] = sent[j + 1] /\ j + 1 \in DOMAIN sent /\ j + 1 > i
      BY <1>2, <2>2
    <3>4. NoFrame(e)'
      BY <2>1, <3>3 DEF NoFrame
    <3>5. e = doc[1]
      BY <3>1
    <3>6. QED
      BY <3>2, <3>4, <3>5
  <2>3. CASE i # 1
    <3>1. i - 1 \in DOMAIN sent' /\ sent'[i - 1] = <<e, stored'[e]>>
      BY <1>2, <1>6, <2>1, <2>3
    <3>2. \A j \in DOMAIN sent' : j > i - 1 => sent'[j][1] # e
      <4>1. \A j \in DOMAIN sent' : sent'[j] = sent[j + 1] /\ j + 1 \in DOMAIN sent /\ j \in Nat
        BY <1>2
      <4>2. i \in Nat
        BY <1>2
      <4>3. QED
        BY <2>1, <4>1, <4>2
    <3>3. QED
      BY <3>1, <3>2 DEF LastFrame
  <2>4. QED
    BY <2>2, <2>3
<1>10. FrameInv'
  BY <1>6, <1>8, <1>9 DEF FeedInv, FrameInv
<1>11. ListInv'
  <2> SUFFICES ASSUME NEW e \in received \cap InWindow[window]
               PROVE  Failed \/ Excused(e)' \/ Due(e) \/ LastFrame(e)' \/ Shown(e)'
    BY <1>1, <1>6 DEF ListInv
  <2>1. CASE e = doc[1] /\ Last.at = "wire"
    BY <1>1, <2>1 DEF Excused
  <2>2. CASE e = doc[1] /\ Last.at # "wire"
    <3>1. ~NoFrame(e)
      BY <1>8, <2>2
    <3>2. e \in overlooked => Excused(e)'
      BY <1>6 DEF Excused
    <3>3. LastFrame(e) => LastFrame(e)' \/ Shown(e)'
      <4>1. Last.at \in {"server", "done"}
        BY <2>2, LastType DEF Fetches
      <4>2. QED
        BY <1>6, <1>9, <4>1 DEF Shown
    <3>4. QED
      BY <3>1, <3>2, <3>3 DEF FeedInv, FrameInv
  <2>3. CASE e # doc[1]
    <3>1. Excused(e) => Excused(e)'
      BY <1>1, <1>6, <2>3 DEF Excused
    <3>2. list'[e] = list[e]
      BY <1>1, <2>3 DEF FeedInv, ViewType, ApiType
    <3>3. Shown(e) => Shown(e)'
      BY <1>6, <3>2 DEF Shown
    <3>4. LastFrame(e) => LastFrame(e)'
      BY <1>9, <2>3
    <3>5. QED
      BY <3>1, <3>3, <3>4 DEF FeedInv, ListInv
  <2>4. QED
    BY <2>1, <2>2, <2>3
<1>12. QED
  BY <1>4, <1>5, <1>7, <1>10, <1>11 DEF FeedInv

LEMMA FeedStep == FeedInv /\ [FeedNext]_feedVars => FeedInv'
<1> SUFFICES ASSUME FeedInv, [FeedNext]_feedVars PROVE FeedInv'
  OBVIOUS
<1>1. ASSUME NEW w \in Writers, StartBatch(w) \/ \E e \in Quakes : StoreEvent(w, e)
      PROVE  FeedInv'
  BY <1>1, StartBatchKeeps, StoreEventKeeps
<1>2. CASE Connect \/ Cut
  BY <1>2, ConnectKeeps
<1>3. CASE YieldChange
  BY <1>3, YieldChangeKeeps
<1>4. CASE StreamFails
  BY <1>4, FallbackKeeps
<1>5. CASE ReadPage
  BY <1>5, ReadPageKeeps
<1>6. ASSUME NEW doc \in page, YieldDoc(doc) PROVE FeedInv'
  BY <1>6, YieldDocKeeps
<1>7. ASSUME NEW w \in Windows, Select(w) PROVE FeedInv'
  BY <1>7, SelectKeeps
<1>8. ASSUME NEW k \in DOMAIN fetches, ListEvents(k) \/ TakeList(k) \/ FetchFails(k)
      PROVE  FeedInv'
  BY <1>8, ListEventsKeeps, TakeListKeeps, FetchFailsKeeps
<1>9. CASE TakeFrame
  BY <1>9, TakeFrameKeeps
<1>10. CASE UNCHANGED feedVars
  <2>1. UNCHANGED viewVars /\ UNCHANGED skipped /\ UNCHANGED <<apiVars, sent, cuts>>
    BY <1>10 DEF feedVars
  <2>2. ListInv'
    BY <2>1, ViewStays, ApiStays DEF FeedInv, ListInv, Shown, Excused
  <2>3. QED
    BY <2>1, <2>2, ViewStays, ApiStays DEF FeedInv, ViewType
<1>11. QED
  BY <1>1, <1>2, <1>3, <1>4, <1>5, <1>6, <1>7, <1>8, <1>9, <1>10 DEF FeedNext

LEMMA FeedAlways == FeedSpec => []FeedInv
BY FeedStart, FeedStep, PTL DEF FeedSpec

\* The live view's variables keep their types: no event, document or request is made up.
THEOREM FeedTypeCorrect == FeedSpec => []FeedTypeOK
<1>1. FeedInv => FeedTypeOK
  BY TypesAgree DEF FeedInv
<1>2. QED
  BY <1>1, FeedAlways, PTL

\* Settled, nothing is due and no frame is on the wire, so the list shows every event.
LEMMA SettledIsCurrent == FeedInv => FeedIsCurrent
<1> SUFFICES ASSUME FeedInv, Settled
             PROVE  Current /\ \A e \in Quakes : list[e] # 0 => e \in InWindow[window] \cup pushed
  BY DEF FeedIsCurrent
<1>1. Last.at = "done" /\ ~listError /\ ~Failed
  BY DEF Settled, Last, Failed
<1>2. \A e \in Quakes : list[e] # 0 => e \in InWindow[window] \cup pushed
  BY <1>1 DEF FeedInv, WindowInv
<1>3. ASSUME NEW e \in received PROVE ~Due(e) /\ ~LastFrame(e)
  <2>1. ~LastFrame(e)
    BY DEF Settled, LastFrame
  <2>2. ~(gen = "stream" /\ \E i \in DOMAIN undelivered : undelivered[i] = e)
    BY DEF Settled
  <2>3. ~(gen = "poll" /\ (stored[e] > after \/ <<e, stored[e]>> \in page))
    BY DEF Settled, Later, FeedInv, ApiType
  <2>4. QED
    BY <2>1, <2>2, <2>3 DEF Due
<1>4. Current
  BY <1>1, <1>3 DEF FeedInv, ListInv, Shown, Current
<1>5. QED
  BY <1>2, <1>4

\* When everything has arrived, the dashboard's list holds the events of the selected
\* window and what was pushed, each changed one as it is now, but for those that an answer
\* overwrote, had no room for or that the fallback overlooked (GlobalView, list_events and
\* stream_event_changes): for batches of any size and any number of writers, pages and
\* lists of any limit.
THEOREM FeedsAreCurrent == FeedSpec => []FeedIsCurrent
BY SettledIsCurrent, FeedAlways, PTL
=============================================================================
