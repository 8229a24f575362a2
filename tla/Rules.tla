-------------------------------- MODULE Rules --------------------------------
(***************************************************************************)
(* evaluate_event: which alerts an event of the change stream fires.  The  *)
(* document it was handed is judged against the locations and the events   *)
(* MongoDB holds when each of its queries runs, while ingestion goes on    *)
(* storing and revising events and users add and remove locations.         *)
(*                                                                         *)
(* Magnitudes, distances and times are numbers on coarse scales.  Stores   *)
(* and registrations are stamped in order, to tell what came before what.  *)
(***************************************************************************)
EXTENDS Integers, Sequences, FiniteSets

CONSTANTS
  Events,       \* USGS event ids
  Contents,     \* what USGS may say of an event: [mag, place, time]
  Locations,    \* location ids, each used once
  Sites,        \* what may be registered: [place, near_mag, near_radius_km]
  None,         \* no magnitude, no time, no override of a threshold
  Distance,     \* Distance[p][q]: haversine_km between two places
  Cell,         \* Cell[p]: the coordinates of a place rounded to a tenth
  GlobalMag, NearMag, NearRadius,            \* settings: the severity rules
  SwarmRadius, SwarmWindow, SwarmMinEvents,  \* settings: the swarm rule
  BucketLength, \* of a swarm's dedup key, 30 minutes
  MaxChanges    \* bound: stores and registrations

ASSUME RuleAssumption == /\ MaxChanges \in Nat /\ BucketLength \in Nat \ {0}
                         /\ {GlobalMag, NearMag, NearRadius} \subseteq Nat \ {0}
                         /\ {SwarmRadius, SwarmWindow, SwarmMinEvents} \subseteq Nat
                         /\ IsFiniteSet(Events) /\ None \notin Int

\* None is no document.
ASSUME NoneAssumption == /\ None \notin [is : Contents \cup Sites, at : 1..MaxChanges]
                         /\ None \notin [id : Events, is : Contents]

\* Magnitudes, radii and distances are numbers.
ASSUME ScaleAssumption ==
  /\ \A c \in Contents : c.mag \in Nat \cup {None}
  /\ \A s \in Sites : {s.near_mag, s.near_radius_km} \subseteq Nat \cup {None}
  /\ \A c \in Contents, s \in Sites : Distance[c.place][s.place] \in Nat

VARIABLES
  quakes,   \* `events`: content and stamp of each event, None before its first store
  sites,    \* `locations`: site and stamp of each location, None when not registered
  used,     \* location ids registered so far
  order,    \* the last stamp
  changes,  \* changes the consumer has not taken yet
  step,     \* the query evaluate_event is waiting for
  event,    \* the document it evaluates
  found,    \* its candidates so far, by dedup key
  fired     \* dedup keys of all the candidates returned so far

ruleVars == <<quakes, sites, used, order, changes, step, event, found, fired>>

RulesInit ==
  /\ quakes = [e \in Events |-> None]
  /\ sites = [l \in Locations |-> None] /\ used = {}
  /\ order = 0 /\ changes = <<>>
  /\ step = "idle" /\ event = None /\ found = {} /\ fired = {}

Stored == {e \in Events : quakes[e] # None}
Registered == {l \in Locations : sites[l] # None}

-----------------------------------------------------------------------------
(* What the rules read: `events` and `locations` *)

\* An upsert stores or revises an event; the change stream gets the change.
StoreQuake(e, c) ==
  /\ order < MaxChanges
  /\ e \in Stored => quakes[e].is # c
  /\ order' = order + 1
  /\ quakes' = [quakes EXCEPT ![e] = [is |-> c, at |-> order + 1]]
  /\ changes' = Append(changes, e)
  /\ UNCHANGED <<sites, used, step, event, found, fired>>

\* create_location and delete_location, as the rules see them.
AddSite(l, s) ==
  /\ order < MaxChanges
  /\ l \notin used
  /\ order' = order + 1
  /\ sites' = [sites EXCEPT ![l] = [is |-> s, at |-> order + 1]]
  /\ used' = used \cup {l}
  /\ UNCHANGED <<quakes, changes, step, event, found, fired>>

RemoveSite(l) ==
  /\ l \in Registered
  /\ sites' = [sites EXCEPT ![l] = None]
  /\ UNCHANGED <<quakes, used, order, changes, step, event, found, fired>>

-----------------------------------------------------------------------------
(* evaluate_event *)

\* A threshold of 0 counts as not set: `or`.
Or(threshold, default) == IF threshold \in {None, 0} THEN default ELSE threshold

\* Mutant of NearFires: the threshold is exclusive.
NearFiresAbove(c, s) ==
  /\ c.mag > Or(s.near_mag, NearMag)
  /\ Distance[c.place][s.place] <= Or(s.near_radius_km, NearRadius)

NearFires(c, s) ==
  /\ c.mag >= Or(s.near_mag, NearMag)
  /\ Distance[c.place][s.place] <= Or(s.near_radius_km, NearRadius)

\* The filter of _check_swarm: the window that ends with the event.
InSwarm(c, q) ==
  /\ q.time # None /\ c.time - q.time \in 0..SwarmWindow
  /\ Distance[c.place][q.place] <= SwarmRadius

\* Mutant of SwarmOf: only events with a magnitude count.
SwarmOfFelt(c) ==
  {x \in Stored : quakes[x].is.mag # None /\ InSwarm(c, quakes[x].is)}

SwarmOf(c) == {x \in Stored : InSwarm(c, quakes[x].is)}

GlobalKey(e)  == <<"high_severity_global", e>>
NearKey(e, l) == <<"high_severity_near", e, l>>
SwarmKey(c)   == <<"swarm", Cell[c.place], c.time \div BucketLength>>

\* The consumer takes a change with the document as it is now.  An event without a
\* magnitude is dropped; near locations are looked for from the default threshold on.
TakeChange ==
  /\ step = "idle" /\ changes # <<>>
  /\ changes' = Tail(changes)
  /\ LET e == Head(changes)
         c == quakes[e].is
     IN IF c.mag = None
          THEN UNCHANGED <<event, found, step>>
          ELSE /\ event' = [id |-> e, is |-> c]
               /\ found' = IF c.mag >= GlobalMag THEN {GlobalKey(e)} ELSE {}
               /\ step' = IF c.mag >= NearMag THEN "locations" ELSE "swarm"
  /\ UNCHANGED <<quakes, sites, used, order, fired>>

\* _load_locations, and the loop over them.
CheckLocations ==
  /\ step = "locations"
  /\ found' = found \cup {NearKey(event.id, l) :
                            l \in {x \in Registered : NearFires(event.is, sites[x].is)}}
  /\ step' = "swarm"
  /\ UNCHANGED <<quakes, sites, used, order, changes, event, fired>>

\* _check_swarm, of an event with a time; then the candidates are returned.  The second
\* query only looks up the largest magnitude, for the text.
CheckSwarm ==
  /\ step = "swarm"
  /\ LET c == event.is
         swarm == c.time # None /\ Cardinality(SwarmOf(c)) >= SwarmMinEvents
     IN fired' = fired \cup found \cup (IF swarm THEN {SwarmKey(c)} ELSE {})
  /\ step' = "idle" /\ event' = None /\ found' = {}
  /\ UNCHANGED <<quakes, sites, used, order, changes>>

RulesNext ==
  \/ \E e \in Events, c \in Contents : StoreQuake(e, c)
  \/ \E l \in Locations : RemoveSite(l) \/ \E s \in Sites : AddSite(l, s)
  \/ TakeChange \/ CheckLocations \/ CheckSwarm

RulesSpec == RulesInit /\ [][RulesNext]_ruleVars

-----------------------------------------------------------------------------
(* Properties *)

Evaluated == step = "idle" /\ changes = <<>>

\* effective_thresholds: what the location's card on the dashboard shows.
ShownMag(s)    == IF s.near_mag = None THEN NearMag ELSE s.near_mag
ShownRadius(s) == IF s.near_radius_km = None THEN NearRadius ELSE s.near_radius_km

\* Every variable has its type.
RulesTypeOK ==
  /\ quakes \in [Events -> {None} \cup [is : Contents, at : 1..MaxChanges]]
  /\ sites \in [Locations -> {None} \cup [is : Sites, at : 1..MaxChanges]]
  /\ used \subseteq Locations /\ order \in 0..MaxChanges
  /\ changes \in Seq(Events)
  /\ step \in {"idle", "locations", "swarm"}
  /\ event \in {None} \cup [id : Events, is : Contents]
  /\ step = "idle" <=> event = None

\* "Next alert fires if: Mag >= X within Y km" (LocationCard.tsx): an event stored after
\* the location was added, and no weaker than the card says, has fired the location's
\* alert once it is evaluated, whatever else is stored, added or removed meanwhile.
\* Not so of a card that shows less than the default magnitude, which TakeChange cuts off.
CardIsKept ==
  Evaluated =>
    \A e \in Stored, l \in Registered :
      LET c == quakes[e].is
          s == sites[l].is
      IN (/\ sites[l].at < quakes[e].at
          /\ ShownMag(s) >= NearMag
          /\ c.mag # None /\ c.mag >= ShownMag(s)
          /\ Distance[c.place][s.place] <= ShownRadius(s)) => NearKey(e, l) \in fired

\* A swarm is reported if its last event is the last to be stored, of whatever
\* magnitudes the others are and in whatever order they came.  A swarm completed by an
\* event that is stored late, or by a revision of an earlier one, may go unreported.
SwarmIsReported ==
  Evaluated =>
    \A e \in Stored :
      LET c == quakes[e].is
          swarm == {x \in Stored : InSwarm(c, quakes[x].is)}
      IN (/\ c.mag # None /\ c.time # None
          /\ Cardinality(swarm) >= SwarmMinEvents
          /\ \A x \in swarm : quakes[x].at <= quakes[e].at) => SwarmKey(c) \in fired
=============================================================================
