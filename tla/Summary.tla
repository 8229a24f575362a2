------------------------------- MODULE Summary -------------------------------
(***************************************************************************)
(* The card of a location: build_location_summary reads the location and   *)
(* then, one query after the other, the nearby events it scores, a count   *)
(* per window and the largest event, while ingestion stores and revises    *)
(* events and time takes them from window to window.                       *)
(*                                                                         *)
(* A magnitude of 0 stands for none, which MongoDB sorts below all others. *)
(* The score itself is not modelled: only what it is summed over.          *)
(***************************************************************************)
EXTENDS Integers, FiniteSets, FiniteSetsExt

CONSTANTS
  Shakes,     \* USGS event ids
  Sizes,      \* magnitudes
  NoCard,     \* nothing there
  NearbyLimit \* limit of list_events_near (500)

ASSUME SummaryAssumption == /\ Sizes \subseteq Nat /\ 0 \in Sizes
                            /\ NearbyLimit \in Nat /\ IsFiniteSet(Shakes)
                            /\ NoCard \notin [mag : Sizes, age : 0..2]

\* Windows, by the oldest age they take: the youngest events are of age 0.
Day == 0   Week == 1   Month == 2

VARIABLES
  shakes,    \* per event in the radius: [mag, age]; NoCard for one outside, too old, or unknown
  asking,    \* the query build_location_summary is waiting for, or "idle"
  reading,   \* what it has read
  cardError, \* error of LocationCard, which nothing clears
  lost,      \* an event has left the radius or the month, or was revised, since asking
  aged       \* events that left a window since asking

sumVars == <<shakes, asking, reading, cardError, lost, aged>>

Unread == [nearby |-> {}, risk |-> 0, day |-> 0, week |-> 0, month |-> 0, largest |-> 0]

SumInit ==
  /\ shakes = [e \in Shakes |-> NoCard]
  /\ asking = "idle" /\ reading = Unread
  /\ cardError = FALSE /\ lost = FALSE /\ aged = {}

Within(window) == {e \in Shakes : shakes[e] # NoCard /\ shakes[e].age <= window}
Mag(e) == shakes[e].mag
Reading == asking \notin {"idle", "shown"}
LargestOf(S) == Max({Mag(e) : e \in S} \cup {0})

-----------------------------------------------------------------------------
(* `events` *)

\* An event is stored, in the radius and of any age, or revised and moved into it.
Appear(e, m, a) ==
  /\ shakes[e] = NoCard
  /\ shakes' = [shakes EXCEPT ![e] = [mag |-> m, age |-> a]]
  /\ UNCHANGED <<asking, reading, cardError, lost, aged>>

\* A revision changes its magnitude or moves it out, or the month is over.
Revise(e, m) ==
  /\ e \in Within(Month)
  /\ Mag(e) # m
  /\ shakes' = [shakes EXCEPT ![e].mag = m]
  /\ lost' = (lost \/ Reading)
  /\ UNCHANGED <<asking, reading, cardError, aged>>

Leave(e) ==
  /\ e \in Within(Month)
  /\ shakes' = [shakes EXCEPT ![e] = NoCard]
  /\ lost' = (lost \/ Reading)
  /\ UNCHANGED <<asking, reading, cardError, aged>>

\* Time takes an event from a window to the next; no request lasts from one to the other.
GrowOlder(e) ==
  /\ e \in Within(Week) \ aged
  /\ shakes' = [shakes EXCEPT ![e].age = @ + 1]
  /\ aged' = IF Reading THEN aged \cup {e} ELSE {}
  /\ UNCHANGED <<asking, reading, cardError, lost>>

-----------------------------------------------------------------------------
(* build_location_summary *)

\* Mutant of CardQueries: the counts are taken in the opposite order.
CardQueriesLongestFirst == <<"nearby", "month", "week", "day", "largest", "shown">>

CardQueries == <<"nearby", "day", "week", "month", "largest", "shown">>

Query(q, r) ==
  /\ asking = q /\ reading' = r
  /\ \E i \in 1..5 : CardQueries[i] = q /\ asking' = CardQueries[i + 1]
  /\ UNCHANGED <<shakes, cardError, lost, aged>>

\* The card asks when it appears and every minute; once it shows an error, in vain.
Ask ==
  /\ ~Reading /\ ~cardError
  /\ asking' = "nearby"
  /\ reading' = Unread /\ lost' = FALSE /\ aged' = {}
  /\ UNCHANGED <<shakes, cardError>>

\* list_events_near, newest first, and compute_risk, which skips events without magnitude.
ReadNearby ==
  \E S \in SUBSET Within(Month) :
    /\ Cardinality(S) = Min({NearbyLimit, Cardinality(Within(Month))})
    /\ \A x \in S, y \in Within(Month) \ S : shakes[x].age <= shakes[y].age
    /\ Query("nearby", [reading EXCEPT !.nearby = S, !.risk = LargestOf(S)])

\* count_events_near, for each window.
CountDay == Query("day", [reading EXCEPT !.day = Cardinality(Within(Day))])
CountWeek == Query("week", [reading EXCEPT !.week = Cardinality(Within(Week))])
CountMonth == Query("month", [reading EXCEPT !.month = Cardinality(Within(Month))])

\* largest_event_near, and the answer reaches the card.
ReadLargest == Query("largest", [reading EXCEPT !.largest = LargestOf(Within(Month))])

\* get_location finds nothing (404), a query raises, or the connection is lost.
AskFails ==
  /\ Reading
  /\ cardError' = TRUE
  /\ asking' = "idle" /\ reading' = Unread /\ lost' = FALSE /\ aged' = {}
  /\ UNCHANGED shakes

SumNext ==
  \/ \E e \in Shakes :
       \/ \E m \in Sizes : Revise(e, m) \/ \E a \in Day..Month : Appear(e, m, a)
       \/ Leave(e) \/ GrowOlder(e)
  \/ Ask \/ ReadNearby \/ CountDay \/ CountWeek \/ CountMonth \/ ReadLargest \/ AskFails

SumSpec == SumInit /\ [][SumNext]_sumVars

-----------------------------------------------------------------------------
(* Properties *)

SumTypeOK ==
  /\ shakes \in [Shakes -> {NoCard} \cup [mag : Sizes, age : Day..Month]]
  /\ asking \in {"idle", "nearby", "day", "week", "month", "largest", "shown"}
  /\ reading.nearby \subseteq Shakes /\ aged \subseteq Shakes
  /\ {cardError, lost} \subseteq BOOLEAN

\* What a card shows agrees with itself, although it is read in six queries while events
\* are stored and grow older: last day's count is at most last week's, that at most last
\* month's, which covers the events scored; and the largest event is no smaller than the
\* largest scored.  Unless one left the month or the radius, or was revised, meanwhile.
CardAgrees ==
  asking = "shown" /\ ~lost =>
    /\ reading.day <= reading.week /\ reading.week <= reading.month
    /\ Cardinality(reading.nearby) <= reading.month
    /\ reading.risk <= reading.largest
=============================================================================
