------------------------------ MODULE Locations ------------------------------
(***************************************************************************)
(* The monitored locations: POST /locations geocodes, counts and inserts,  *)
(* DELETE removes, GET lists; and the page of the dashboard that shows     *)
(* them, with the form that adds one.  A page reads the list when it opens *)
(* and after an add, never on a timer.                                     *)
(*                                                                         *)
(* A location is named by the request that creates it.                     *)
(***************************************************************************)
EXTENDS Geocoder

CONSTANTS
  Cap,      \* max_locations_per_user, and MAX_LOCATIONS of the page
  MaxLoads  \* bound: lists requested by the page

ASSUME LocationsAssumption == Cap \in Nat \ {0} /\ MaxLoads \in Nat /\ IsFiniteSet(Requests)

VARIABLES
  locs,        \* `locations`
  post,        \* per request of POST /locations: where create_location is
  overlapped,  \* two requests have been between the count and the insert at once
  view,        \* the page's `locations`: the cards it shows
  form,        \* the requests the form is waiting for: at most one
  added,       \* requests whose 201 the form has seen
  removing,    \* cards whose DELETE is unanswered
  removed,     \* cards whose DELETE was answered
  loads,       \* the lists the page has requested, oldest first
  loadError,   \* the page's `error`
  overtaken    \* a list arrived after one requested later

storeVars == <<cached, geo, line, nap, elapsed, attempts, locs, post, overlapped>>
pageVars == <<view, form, added, removing, removed, loads, loadError, overtaken>>
locVars == <<storeVars, pageVars>>

NewLoad == [at |-> "server", list |-> {}]

LocInit ==
  /\ GeoInit
  /\ locs = {} /\ post = [r \in Requests |-> "none"] /\ overlapped = FALSE
  /\ view = {} /\ form = {} /\ added = {} /\ removing = {} /\ removed = {}
  /\ loads = <<NewLoad>> /\ loadError = FALSE /\ overtaken = FALSE

-----------------------------------------------------------------------------
(* The api *)

\* post_location: coordinates are taken as they are, a query is geocoded.
Open(r) ==
  /\ post[r] = "none"
  /\ post' = [post EXCEPT ![r] = "open"]
  /\ Move(r, IF QueryOf[r] = Point THEN "located" ELSE "lookup")
  /\ UNCHANGED <<cached, line, nap, elapsed, attempts, locs, overlapped>>

Reject(r) ==
  /\ post[r] = "open" /\ geo[r] \in {"unknown", "failed"}
  /\ post' = [post EXCEPT ![r] = "refused"]
  /\ UNCHANGED <<cached, geo, line, nap, elapsed, attempts, locs, overlapped>>

Inserting == {r \in Requests : post[r] = "insert"}

\* Mutant of Count: one too many.
CountTooFar(r) ==
  /\ post[r] = "open" /\ geo[r] = "located"
  /\ post' = [post EXCEPT ![r] = IF Cardinality(locs) > Cap THEN "refused" ELSE "insert"]
  /\ overlapped' = (overlapped \/ (Cardinality(locs) <= Cap /\ Inserting # {}))
  /\ UNCHANGED <<cached, geo, line, nap, elapsed, attempts, locs>>

\* create_location, up to its count: refused at the cap, or if the count raises.
Count(r) ==
  /\ post[r] = "open" /\ geo[r] = "located"
  /\ \/ /\ Cardinality(locs) < Cap /\ post' = [post EXCEPT ![r] = "insert"]
        /\ overlapped' = (overlapped \/ Inserting # {})
     \/ post' = [post EXCEPT ![r] = "refused"] /\ UNCHANGED overlapped
  /\ UNCHANGED <<cached, geo, line, nap, elapsed, attempts, locs>>

\* insert_one, which may raise.
Insert(r) ==
  /\ post[r] = "insert"
  /\ \/ locs' = locs \cup {r} /\ post' = [post EXCEPT ![r] = "created"]
     \/ post' = [post EXCEPT ![r] = "refused"] /\ UNCHANGED locs
  /\ UNCHANGED <<cached, geo, line, nap, elapsed, attempts, overlapped>>

ServePost(r) ==
  \/ Geocode(r) /\ UNCHANGED <<locs, post, overlapped>>
  \/ Reject(r) \/ Count(r) \/ Insert(r)

\* A client other than the page deletes a location.
DeleteElsewhere(r) ==
  /\ r \in locs
  /\ locs' = locs \ {r}
  /\ UNCHANGED <<cached, geo, line, nap, elapsed, attempts, post, overlapped>>

\* delete_location for the page: 204, or 404 for a location that is gone already.
Delete(r) ==
  /\ r \in removing
  /\ locs' = locs \ {r}
  /\ removing' = removing \ {r} /\ removed' = removed \cup {r}
  /\ UNCHANGED <<cached, geo, line, nap, elapsed, attempts, post, overlapped>>
  /\ UNCHANGED <<view, form, added, loads, loadError, overtaken>>

\* get_locations
List(k) ==
  /\ loads[k].at = "server"
  /\ loads' = [loads EXCEPT ![k] = [at |-> "wire", list |-> locs]]
  /\ UNCHANGED storeVars
  /\ UNCHANGED <<view, form, added, removing, removed, loadError, overtaken>>

-----------------------------------------------------------------------------
(* The page: LocationsView and LocationForm *)

\* Mutant of Answer: the list is not read again.
AnswerOnly(r) ==
  /\ r \in form /\ post[r] \in {"created", "refused"}
  /\ form' = {}
  /\ added' = IF post[r] = "created" THEN added \cup {r} ELSE added
  /\ UNCHANGED storeVars
  /\ UNCHANGED <<view, removing, removed, loads, loadError, overtaken>>

\* submit, whose button is disabled while the page shows Cap cards.
Submit(r) ==
  /\ form = {} /\ Cardinality(view) < Cap
  /\ Open(r)
  /\ form' = {r}
  /\ UNCHANGED <<view, added, removing, removed, loads, loadError, overtaken>>

\* The answer of POST: onAdded refreshes the list, an error is shown.
Answer(r) ==
  /\ r \in form /\ post[r] \in {"created", "refused"}
  /\ form' = {}
  /\ IF post[r] = "created"
       THEN Len(loads) < MaxLoads /\ added' = added \cup {r} /\ loads' = Append(loads, NewLoad)
       ELSE UNCHANGED <<added, loads>>
  /\ UNCHANGED storeVars
  /\ UNCHANGED <<view, removing, removed, loadError, overtaken>>

\* The connection of POST is lost: an error is shown, whatever the api does.
LosePost(r) ==
  /\ r \in form
  /\ form' = {}
  /\ UNCHANGED storeVars
  /\ UNCHANGED <<view, added, removing, removed, loads, loadError, overtaken>>

\* A list arrives, in any order with the others, or its request fails.
Load(k) ==
  /\ loads[k].at = "wire"
  /\ view' = loads[k].list /\ loadError' = FALSE
  /\ overtaken' = (overtaken \/ \E j \in DOMAIN loads : j > k /\ loads[j].at = "done")
  /\ loads' = [loads EXCEPT ![k].at = "done"]
  /\ UNCHANGED storeVars
  /\ UNCHANGED <<form, added, removing, removed>>

LoadFails(k) ==
  /\ loads[k].at \in {"server", "wire"}
  /\ loadError' = TRUE
  /\ loads' = [loads EXCEPT ![k].at = "done"]
  /\ UNCHANGED storeVars
  /\ UNCHANGED <<view, form, added, removing, removed, overtaken>>

\* remove: deleteLocation sends DELETE.  request then parses the body of the answer as
\* JSON, which the empty body of a 204 is not; so it throws, and as little follows
\* Delete as follows a 404 or a lost connection: no refresh.
RemoveCard(r) ==
  /\ r \in view \ removing
  /\ removing' = removing \cup {r}
  /\ UNCHANGED storeVars
  /\ UNCHANGED <<view, form, added, removed, loads, loadError, overtaken>>

\* The user opens the page again.
Reopen ==
  /\ Len(loads) < MaxLoads
  /\ view' = {} /\ loadError' = FALSE /\ form' = {} /\ added' = {}
  /\ loads' = Append([k \in DOMAIN loads |-> [loads[k] EXCEPT !.at = "done"]], NewLoad)
  /\ UNCHANGED storeVars
  /\ UNCHANGED <<removing, removed, overtaken>>

Api(r) == (ServePost(r) \/ Open(r) \/ DeleteElsewhere(r)) /\ UNCHANGED pageVars
Page(r) == Submit(r) \/ Answer(r) \/ LosePost(r) \/ RemoveCard(r) \/ Delete(r)
Lists == \E k \in DOMAIN loads : List(k) \/ Load(k) \/ LoadFails(k)
Cache == (Clock \/ \E q \in Queries : ExpireCache(q)) /\ UNCHANGED <<locs, post, overlapped, pageVars>>

LocNext ==
  \/ \E r \in Requests : Api(r) \/ Page(r)
  \/ Cache \/ Lists \/ Reopen

\* The api serves every request, and the page takes what it is answered.
LocFairness ==
  /\ \A r \in Requests :
       /\ WF_locVars(ServePost(r) /\ UNCHANGED pageVars)
       /\ WF_locVars(Answer(r)) /\ WF_locVars(Delete(r))
  /\ WF_locVars(Clock /\ UNCHANGED <<locs, post, overlapped, pageVars>>)
  /\ \A k \in 1..MaxLoads : WF_locVars(k \in DOMAIN loads /\ (List(k) \/ Load(k)))

LocSpec == LocInit /\ [][LocNext]_locVars /\ LocFairness

-----------------------------------------------------------------------------
(* Properties *)

LocTypeOK ==
  /\ GeoTypeOK
  /\ locs \subseteq Requests
  /\ post \in [Requests -> {"none", "open", "insert", "created", "refused"}]
  /\ overlapped \in BOOLEAN
  /\ {view, form, added, removing, removed} \subseteq SUBSET Requests
  /\ Cardinality(form) <= 1
  /\ loads \in Seq([at : {"server", "wire", "done"}, list : SUBSET Requests])
  /\ {loadError, overtaken} \subseteq BOOLEAN

\* "location cap reached" (locations.py): there are never more than Cap locations,
\* unless two requests were between the count and the insert at once; deletions, failed
\* inserts, slow geocoding and the pages' own cap never make one too many.
OverCapNeedsOverlap == Cardinality(locs) > Cap => overlapped

\* A location the form was told of is shown once every list has arrived, unless it is
\* deleted, the list could not be read and the page says so, or a list arrived after one
\* requested later.
AddedIsShown ==
  (\A k \in DOMAIN loads : loads[k].at = "done") /\ ~loadError /\ ~overtaken
    => added \cap locs \subseteq view

\* "delete one before adding another" (locations.py, of the cap): once a card
\* of the page is removed, and there is room, its form can be used again.
FormReopens ==
  (view \cap removed # {} /\ Cardinality(locs) < Cap)
    ~> (Cardinality(view) < Cap \/ Cardinality(locs) >= Cap)
=============================================================================
