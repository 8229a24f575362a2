------------------------------ MODULE HealthCard ------------------------------
(***************************************************************************)
(* The System Health card.  get_system_health answers from several reads   *)
(* of rows that ingestion goes on writing, the card asks for it over and   *)
(* over, takes the answers in any order, and picks its tone from an answer *)
(* and its own clock.                                                      *)
(***************************************************************************)
EXTENDS Integers, FiniteSets

CONSTANTS
  Refreshes,        \* refreshes that may be under way at once
  NoPoll,            \* last_any of an empty collection
  WarnAge, BadAge,  \* 3 and 10 minutes, in ticks
  BadStreak,        \* consecutive failures that are an incident (3)
  MaxNow, MaxRows   \* bounds

ASSUME HealthAssumption == /\ {WarnAge, BadAge, BadStreak, MaxNow, MaxRows} \subseteq Nat
                           /\ WarnAge < BadAge /\ 0 < BadStreak
                           /\ NoPoll \notin Int

VARIABLES
  now,       \* the clock
  rows,      \* `system_health`: [ts, ok] of each poll
  polling,   \* rows that are stamped but not stored yet
  refresh,   \* per refresh: the read get_system_health is waiting for, and what it has
  shown      \* tone of the card

healthVars == <<now, rows, polling, refresh, shown>>

Idle == [at |-> "idle", last |-> NoPoll, streak |-> 0, failed |-> FALSE]

HealthInit ==
  /\ now = 0 /\ rows = {} /\ polling = {}
  /\ refresh = [k \in Refreshes |-> Idle]
  /\ shown = "neutral"

-----------------------------------------------------------------------------
(* Ingestion, as the card sees it *)

Pass ==
  /\ now < MaxNow
  /\ now' = now + 1
  /\ UNCHANGED <<rows, polling, refresh, shown>>

\* A poll stamps its row when it starts, and stores it when it ends, or never.
Poll(ok) ==
  /\ Cardinality(rows \cup polling) < MaxRows
  /\ polling' = polling \cup {[ts |-> now, ok |-> ok]}
  /\ UNCHANGED <<now, rows, refresh, shown>>

StorePoll(row) ==
  /\ row \in polling
  /\ polling' = polling \ {row}
  /\ \/ rows' = rows \cup {row}
     \/ UNCHANGED rows
  /\ UNCHANGED <<now, refresh, shown>>

-----------------------------------------------------------------------------
(* get_system_health *)

\* Mutant of HealthQueries: the streak is read first.
HealthQueriesStreakFirst == <<"recent", "last", "backfill", "wire">>

HealthQueries == <<"last", "recent", "backfill", "wire">>

Read(k, q, answer) ==
  /\ refresh[k].at = q
  /\ \E i \in 1..3 : /\ HealthQueries[i] = q
                     /\ refresh' = [refresh EXCEPT ![k] = [answer EXCEPT !.at = HealthQueries[i + 1]]]
  /\ UNCHANGED <<now, rows, polling, shown>>

\* load, when the card appears and every 30 seconds.
Refresh(k) ==
  /\ refresh[k].at = "idle"
  /\ refresh' = [refresh EXCEPT ![k].at = HealthQueries[1]]
  /\ UNCHANGED <<now, rows, polling, shown>>

Latest == {row \in rows : \A other \in rows : other.ts <= row.ts}

\* last_any; what last_ok and the last hour's counts show has no part in the tone.
ReadLast(k) ==
  \/ rows = {} /\ Read(k, "last", [refresh[k] EXCEPT !.last = NoPoll])
  \/ \E row \in Latest : Read(k, "last", [refresh[k] EXCEPT !.last = row.ts])

\* The failures before the first ok, in the order of `ts`, where equal stamps come in any.
Trailing(strictly) ==
  {row \in rows : /\ ~row.ok
                  /\ \A other \in rows : other.ok =>
                       other.ts < row.ts \/ (~strictly /\ other.ts = row.ts)}

ReadRecent(k) ==
  \E strictly \in BOOLEAN :
    Read(k, "recent", [refresh[k] EXCEPT !.streak = Cardinality(Trailing(strictly))])

\* The status of the backfill, which ingestion may set to failed and to others.
ReadBackfill(k) ==
  \E failed \in BOOLEAN : Read(k, "backfill", [refresh[k] EXCEPT !.failed = failed])

-----------------------------------------------------------------------------
(* SystemHealthCard *)

\* Mutant of PickTone: silence is not looked at.
PickToneAgeless(answer) ==
  IF answer.failed \/ answer.streak >= BadStreak THEN "bad"
  ELSE IF answer.streak > 0 THEN "warn"
  ELSE IF answer.last = NoPoll THEN "neutral"
  ELSE "good"

PickTone(answer) ==
  IF answer.failed \/ answer.streak >= BadStreak THEN "bad"
  ELSE IF answer.streak > 0 THEN "warn"
  ELSE IF answer.last = NoPoll THEN "neutral"
  ELSE IF now - answer.last > BadAge THEN "bad"
  ELSE IF now - answer.last > WarnAge THEN "warn"
  ELSE "good"

\* An answer arrives and the card is rendered.
Render(k) ==
  /\ refresh[k].at = "wire"
  /\ shown' = PickTone(refresh[k])
  /\ refresh' = [refresh EXCEPT ![k] = Idle]
  /\ UNCHANGED <<now, rows, polling>>

\* "api unreachable"
RefreshFails(k) ==
  /\ refresh[k].at # "idle"
  /\ shown' = "bad"
  /\ refresh' = [refresh EXCEPT ![k] = Idle]
  /\ UNCHANGED <<now, rows, polling>>

Answering(k) == ReadLast(k) \/ ReadRecent(k) \/ ReadBackfill(k) \/ Render(k)

HealthNext ==
  \/ Pass \/ \E ok \in BOOLEAN : Poll(ok)
  \/ \E row \in polling : StorePoll(row)
  \/ \E k \in Refreshes : Refresh(k) \/ Answering(k) \/ RefreshFails(k)

\* The card's interval goes on, and every refresh is answered or fails.
HealthFairness == \A k \in Refreshes : WF_healthVars(Refresh(k) \/ Answering(k))

HealthSpec == HealthInit /\ [][HealthNext]_healthVars /\ HealthFairness

-----------------------------------------------------------------------------
(* Properties *)

Rows == [ts : 0..MaxNow, ok : BOOLEAN]

HealthTypeOK ==
  /\ now \in 0..MaxNow
  /\ rows \subseteq Rows /\ polling \subseteq Rows
  /\ refresh \in [Refreshes -> [at : {"idle", "last", "recent", "backfill", "wire"},
                                last : {NoPoll} \cup 0..MaxNow, streak : Nat, failed : BOOLEAN]]
  /\ shown \in {"good", "warn", "bad", "neutral"}

\* "healthy" is earned: an answer that makes the card good when it arrives means that a
\* successful poll is at most WarnAge old, although the tone is picked from the last poll
\* of any outcome and from a streak that is read later, while polls are stored late.
GoodIsEarned ==
  \A k \in Refreshes :
    refresh[k].at = "wire" /\ PickTone(refresh[k]) = "good" =>
      \E row \in rows : row.ok /\ now - row.ts <= WarnAge

NoneSucceeds == \A row \in rows : row.ok => now - row.ts > WarnAge

\* "source silence" (SystemHealthCard.tsx): if the successful polls stop, the card stops
\* being good, whether the polls fail, stop altogether, or are stamped and never stored.
SilenceIsShown == NoneSucceeds ~> (shown # "good" \/ ~NoneSucceeds)
=============================================================================
