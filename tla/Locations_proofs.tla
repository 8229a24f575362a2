--------------------------- MODULE Locations_proofs ---------------------------
(***************************************************************************)
(* Theorems about Locations, for every set of requests and queries, every  *)
(* cap, interval and number of attempts: types, the distance between calls *)
(* to Nominatim, and the cap on locations.                                 *)
(***************************************************************************)
EXTENDS Locations, TLAPS, FiniteSetTheorems, SequenceTheorems

USE GeocoderAssumption, LocationsAssumption

-----------------------------------------------------------------------------
(* The geocoder *)

\* Who waits for the lock is in its line; who sleeps with it is the head, and will have
\* waited for an interval since the last call when it wakes.
LineInv ==
  \A r \in Requests :
    /\ geo[r] \in {"line", "nap"} => \E i \in 1..Len(line) : line[i] = r
    /\ geo[r] = "nap" => Head(line) = r /\ nap[r] + elapsed >= MinInterval

\* No attempt is made before the call, nor one too many in it, and of queries only.
StageInv ==
  \A r \in Requests :
    /\ geo[r] \in {"idle", "lookup", "line", "nap"} => attempts[r] = 0
    /\ geo[r] = "call" => attempts[r] < Attempts
    /\ post[r] = "none" => geo[r] = "idle"
    /\ geo[r] \notin {"idle", "located"} => QueryOf[r] \in Queries

PostType == post \in [Requests -> {"none", "open", "insert", "created", "refused"}]

GeoInv == GeoTypeOK /\ PostType /\ LineInv /\ StageInv

LEMMA WaitingMeansLine ==
  ASSUME GeoInv, NEW r \in Requests, geo[r] \in {"line", "nap"}
  PROVE  line # <<>>
BY DEF GeoInv, LineInv

LEMMA LookupKeeps == ASSUME GeoInv, NEW r \in Requests, Lookup(r), UNCHANGED post PROVE GeoInv'
<1> USE DEF GeoInv, GeoTypeOK, LineInv, StageInv, PostType, Lookup, Move
<1>1. CASE line' = line /\ \E x \in {"located", "failed"} : geo' = [geo EXCEPT ![r] = x]
  BY <1>1
<1>2. CASE line' = Append(line, r) /\ geo' = [geo EXCEPT ![r] = "line"]
  <2>0. line \in Seq(Requests)
    OBVIOUS
  <2>1. line' \in Seq(Requests) /\ line' # <<>> /\ Len(line') = Len(line) + 1
    BY <1>2, <2>0, AppendProperties
  <2>2. \A i \in 1..Len(line) : line'[i] = line[i]
    BY <1>2, <2>0, AppendProperties
  <2>3. line'[Len(line) + 1] = r
    BY <1>2, <2>0, AppendProperties
  <2>4. line # <<>> => Head(line') = Head(line)
    BY <2>1, <2>2
  <2>5. GeoTypeOK' /\ PostType' /\ StageInv'
    BY <1>2, <2>1
  <2>6. LineInv'
    BY <1>2, <2>1, <2>2, <2>3, <2>4, WaitingMeansLine
  <2>7. QED
    BY <2>5, <2>6
<1>3. QED
  BY <1>1, <1>2

LEMMA AcquireKeeps == ASSUME GeoInv, NEW r \in Requests, Acquire(r), UNCHANGED post PROVE GeoInv'
<1> USE DEF GeoInv, Acquire, Move
<1>1. /\ geo' = [geo EXCEPT ![r] = "nap"] /\ geo[r] = "line" /\ Head(line) = r
      /\ nap' = [nap EXCEPT ![r] = MinInterval - elapsed]
      /\ UNCHANGED <<cached, line, elapsed, attempts, post>>
  OBVIOUS
<1>2. GeoTypeOK' /\ PostType'
  BY <1>1 DEF GeoTypeOK, PostType
<1>3. LineInv'
  BY <1>1 DEF LineInv, GeoTypeOK
<1>4. StageInv'
  BY <1>1 DEF StageInv, GeoTypeOK
<1>5. QED
  BY <1>2, <1>3, <1>4

LEMMA WakeKeeps == ASSUME GeoInv, NEW r \in Requests, Wake(r), UNCHANGED post PROVE GeoInv'
<1> USE DEF GeoInv, GeoTypeOK, LineInv, StageInv, PostType, Wake, Move
<1>1. line # <<>> /\ Head(line) = r
  BY WaitingMeansLine
<1>2. /\ line' \in Seq(Requests) /\ Len(line') = Len(line) - 1
      /\ \A i \in 1..Len(line') : line'[i] = line[i + 1]
  BY <1>1, HeadTailProperties
<1>3. GeoTypeOK' /\ PostType' /\ StageInv'
  BY <1>2
<1>4. ASSUME NEW s \in Requests, geo'[s] \in {"line", "nap"}
      PROVE  geo[s] = "line" /\ geo'[s] = "line" /\ \E i \in 1..Len(line') : line'[i] = s
  <2>1. s # r /\ geo'[s] = geo[s]
    BY <1>4
  <2>2. geo[s] = "line"
    BY <1>1, <1>4, <2>1
  <2>3. PICK i \in 1..Len(line) : line[i] = s
    BY <2>2
  <2>4. i # 1
    BY <1>1, <2>1, <2>3
  <2>5. i - 1 \in 1..Len(line') /\ line'[i - 1] = s
    BY <1>2, <2>3, <2>4
  <2>6. QED
    BY <2>1, <2>2, <2>5
<1>5. QED
  BY <1>3, <1>4

LEMMA ClockKeeps == ASSUME GeoInv, Clock, UNCHANGED post PROVE GeoInv'
BY DEF GeoInv, GeoTypeOK, LineInv, StageInv, PostType, Clock

LEMMA CallKeeps ==
  ASSUME GeoInv, NEW r \in Requests, Call(r) \/ Store(r), UNCHANGED post
  PROVE  GeoInv'
<1> USE DEF GeoInv, GeoTypeOK, LineInv, StageInv, PostType, Move
<1>1. CASE Call(r)
  <2>1. attempts' = [attempts EXCEPT ![r] = @ + 1] /\ attempts[r] < Attempts
    BY <1>1 DEF Call
  <2>2. attempts' \in [Requests -> 0..Attempts]
    BY <2>1
  <2>3. geo' \in [Requests -> {"idle", "lookup", "line", "nap", "call", "store",
                               "located", "unknown", "failed"}]
    BY <1>1 DEF Call
  <2>4. LineInv'
    <3>1. \A s \in Requests : geo'[s] \in {"line", "nap"} => geo[s] = geo'[s]
      <4>1. geo' = geo \/ \E x \in {"store", "unknown", "failed"} : geo' = [geo EXCEPT ![r] = x]
        BY <1>1 DEF Call
      <4>2. QED
        BY <4>1
    <3>2. UNCHANGED <<line, nap, elapsed>>
      BY <1>1 DEF Call
    <3>3. QED
      BY <3>1, <3>2
  <2>5. StageInv'
    BY <1>1, <2>1, <2>2, <2>3 DEF Call
  <2>6. QED
    BY <1>1, <2>2, <2>3, <2>4, <2>5 DEF Call
<1>2. CASE Store(r)
  <2>1. QueryOf[r] \in Queries
    BY <1>2 DEF Store
  <2>2. cached' \subseteq Queries
    BY <1>2, <2>1 DEF Store
  <2>3. geo' \in [Requests -> {"idle", "lookup", "line", "nap", "call", "store",
                               "located", "unknown", "failed"}]
    BY <1>2 DEF Store
  <2>4. LineInv'
    <3>1. \A s \in Requests : geo'[s] \in {"line", "nap"} => geo[s] = geo'[s]
      BY <1>2, <2>3 DEF Store
    <3>2. UNCHANGED <<line, nap, elapsed>>
      BY <1>2 DEF Store
    <3>3. QED
      BY <3>1, <3>2
  <2>5. StageInv'
    BY <1>2, <2>1, <2>3 DEF Store
  <2>6. QED
    BY <1>2, <2>2, <2>3, <2>4, <2>5 DEF Store
<1>3. QED
  BY <1>1, <1>2

LEMMA OtherKeeps ==
  ASSUME GeoInv,
         \/ (\E q \in Queries : ExpireCache(q)) /\ UNCHANGED post
         \/ UNCHANGED geoVars /\ PostType' /\ \A r \in Requests : post'[r] = "none" => post[r] = "none"
  PROVE  GeoInv'
<1> USE DEF GeoInv, GeoTypeOK, LineInv, StageInv, PostType
<1>1. CASE \E q \in Queries : ExpireCache(q) /\ UNCHANGED post
  BY <1>1 DEF ExpireCache
<1>2. CASE UNCHANGED geoVars /\ PostType' /\ \A r \in Requests : post'[r] = "none" => post[r] = "none"
  BY <1>2 DEF geoVars
<1>3. QED
  BY <1>1, <1>2

LEMMA OpenKeeps == ASSUME GeoInv, NEW r \in Requests, Open(r) PROVE GeoInv'
<1> USE DEF GeoInv, GeoTypeOK, LineInv, StageInv, PostType
<1>1. geo[r] = "idle"
  BY DEF Open
<1>2. \/ geo' = [geo EXCEPT ![r] = "located"] /\ QueryOf[r] = Point
      \/ geo' = [geo EXCEPT ![r] = "lookup"] /\ QueryOf[r] # Point
  BY DEF Open, Move
<1>3. post' = [post EXCEPT ![r] = "open"] /\ UNCHANGED <<cached, line, nap, elapsed, attempts>>
  BY DEF Open
<1>4. GeoTypeOK' /\ PostType'
  BY <1>2, <1>3
<1>5. LineInv'
  <2>1. \A s \in Requests : geo'[s] \in {"line", "nap"} => geo[s] = geo'[s]
    BY <1>2
  <2>2. QED
    BY <1>3, <2>1
<1>6. StageInv'
  BY <1>1, <1>2, <1>3
<1>7. QED
  BY <1>4, <1>5, <1>6

LEMMA GeocodeKeeps ==
  ASSUME GeoInv, NEW r \in Requests, Geocode(r), UNCHANGED post
  PROVE  GeoInv'
BY LookupKeeps, AcquireKeeps, WakeKeeps, CallKeeps DEF Geocode

\* Every step geocodes for a request, opens or advances one, lets time pass, or leaves
\* the geocoder alone.
LEMMA GeoNext == GeoInv /\ [LocNext]_locVars => GeoInv'
<1> SUFFICES ASSUME GeoInv, [LocNext]_locVars PROVE GeoInv'
  OBVIOUS
<1> USE DEF storeVars, pageVars, geoVars
<1>1. ASSUME NEW r \in Requests, Api(r) PROVE GeoInv'
  <2>1. CASE Geocode(r) /\ UNCHANGED post
    BY <2>1, GeocodeKeeps
  <2>2. CASE Open(r)
    BY <2>2, OpenKeeps
  <2>3. CASE Reject(r) \/ Count(r) \/ Insert(r)
    BY <2>3, OtherKeeps DEF Reject, Count, Insert, GeoInv, PostType
  <2>4. CASE DeleteElsewhere(r)
    BY <2>4, OtherKeeps DEF DeleteElsewhere, GeoInv, PostType
  <2>5. QED
    BY <1>1, <2>1, <2>2, <2>3, <2>4 DEF Api, ServePost
<1>2. ASSUME NEW r \in Requests, Page(r) PROVE GeoInv'
  <2>1. CASE Submit(r)
    BY <2>1, OpenKeeps DEF Submit
  <2>2. CASE Answer(r) \/ LosePost(r) \/ RemoveCard(r) \/ Delete(r)
    BY <2>2, OtherKeeps DEF Answer, LosePost, RemoveCard, Delete, GeoInv, PostType
  <2>3. QED
    BY <1>2, <2>1, <2>2 DEF Page
<1>3. CASE Cache
  BY <1>3, ClockKeeps, OtherKeeps DEF Cache
<1>4. CASE Lists \/ Reopen \/ UNCHANGED locVars
  BY <1>4, OtherKeeps DEF Lists, List, Load, LoadFails, Reopen, locVars, GeoInv, PostType
<1>5. QED
  BY <1>1, <1>2, <1>3, <1>4 DEF LocNext

LEMMA GeoStart == LocInit => GeoInv
<1>1. LocInit => <<>> \in Seq(Requests)
  OBVIOUS
<1>2. QED
  BY <1>1 DEF LocInit, GeoInit, GeoInv, GeoTypeOK, LineInv, StageInv, PostType

\* The specification without its fairness.
LocSteps == LocInit /\ [][LocNext]_locVars

LEMMA GeoAlways == LocSteps => []GeoInv
BY GeoStart, GeoNext, PTL DEF LocSteps

\* Only a wake makes a call, and it waits for what is left of the interval.
LEMMA SpacedAlways == LocSteps => CallsAreSpaced
<1> DEFINE Spaced == \A r \in Requests : geo[r] # "call" /\ geo'[r] = "call" => elapsed = MinInterval
<1>1. ASSUME GeoInv, [LocNext]_locVars PROVE [Spaced]_geoVars
  <2> SUFFICES ASSUME NEW r \in Requests, geo[r] # "call", geo'[r] = "call"
               PROVE  elapsed = MinInterval
    OBVIOUS
  <2> USE DEF GeoInv, GeoTypeOK, storeVars, pageVars
  <2>1. CASE Wake(r)
    <3>1. geo[r] = "nap" /\ nap[r] = 0
      BY <2>1 DEF Wake
    <3>2. nap[r] + elapsed >= MinInterval
      BY <1>1, <3>1 DEF LineInv
    <3>3. elapsed \in 0..MinInterval
      BY <1>1
    <3>4. QED
      BY <3>1, <3>2, <3>3
  <2>2. \A s \in Requests : ~(Lookup(s) \/ Acquire(s) \/ Call(s) \/ Store(s) \/ Open(s))
    BY <1>1 DEF Lookup, Acquire, Call, Store, Open, Move
  <2>3. \A s \in Requests : Wake(s) => s = r
    BY DEF Wake, Move
  <2>4. geo' # geo
    OBVIOUS
  <2>5. \E s \in Requests : Wake(s)
    BY <1>1, <2>2, <2>4 DEF LocNext, Api, Page, Cache, Lists, ServePost, Geocode, Reject, Count,
       Insert, DeleteElsewhere, Delete, List, Submit, Answer, LosePost, Load, LoadFails,
       RemoveCard, Reopen, Clock, ExpireCache, locVars
  <2>6. QED
    BY <2>1, <2>3, <2>5
<1>2. QED
  BY <1>1, GeoAlways, PTL DEF LocSteps, CallsAreSpaced

\* Requests to Nominatim begin at least an interval apart, however many wait for the
\* lock and whatever the rest of the api does (nominatim.py:85-96).
THEOREM CallsStaySpaced == LocSpec => CallsAreSpaced
BY SpacedAlways DEF LocSpec, LocSteps

-----------------------------------------------------------------------------
(* Types *)

Loads == [at : {"server", "wire", "done"}, list : SUBSET Requests]

\* The other variables, by the kind of proof they need.
SetsType  == {locs, view, form, added, removing, removed} \subseteq SUBSET Requests
FormType  == Cardinality(form) <= 1
LoadsType == loads \in Seq(Loads)
FlagsType == overlapped \in BOOLEAN /\ loadError \in BOOLEAN /\ overtaken \in BOOLEAN

PageInv == SetsType /\ FormType /\ LoadsType /\ FlagsType

LEMMA TypeParts == GeoInv /\ PageInv => LocTypeOK
BY DEF GeoInv, PostType, PageInv, SetsType, FormType, LoadsType, FlagsType, Loads, LocTypeOK

LEMMA FormAtMostOne == Cardinality({}) <= 1 /\ \A r : Cardinality({r}) <= 1
<1>1. Cardinality({}) = 0
  BY FS_EmptySet
<1>2. \A r : Cardinality({r}) = 1
  BY FS_Singleton
<1>3. QED
  BY <1>1, <1>2

LEMMA LoadsElements ==
  ASSUME LoadsType
  PROVE  /\ DOMAIN loads = 1..Len(loads) /\ Len(loads) \in Nat
         /\ \A k \in DOMAIN loads : loads[k] \in Loads
BY LenProperties, ElementOfSeq DEF LoadsType

LEMMA LoadsNext == LoadsType /\ locs \subseteq Requests /\ [LocNext]_locVars => LoadsType'
<1> SUFFICES ASSUME LoadsType, locs \subseteq Requests, [LocNext]_locVars PROVE LoadsType'
  OBVIOUS
<1> USE DEF LoadsType, Loads, storeVars, pageVars, locVars
<1>1. NewLoad \in Loads
  BY DEF NewLoad
<1>2. ASSUME NEW more \in Seq(Loads) PROVE Append(more, NewLoad) \in Seq(Loads)
  BY <1>1, <1>2, AppendProperties
<1>3. ASSUME NEW k \in DOMAIN loads, NEW load \in Loads
      PROVE  [loads EXCEPT ![k] = load] \in Seq(Loads)
  BY <1>3, LoadsElements, ExceptSeq
<1>4. ASSUME NEW k \in DOMAIN loads PROVE loads[k] \in Loads
  BY <1>4, LoadsElements
<1>5. CASE Lists
  <2>1. PICK k \in DOMAIN loads : List(k) \/ Load(k) \/ LoadFails(k)
    BY <1>5 DEF Lists
  <2>2. [at |-> "wire", list |-> locs] \in Loads /\ [loads[k] EXCEPT !.at = "done"] \in Loads
    BY <1>4
  <2>3. \/ loads' = [loads EXCEPT ![k] = [at |-> "wire", list |-> locs]]
        \/ loads' = [loads EXCEPT ![k] = [loads[k] EXCEPT !.at = "done"]]
    BY <2>1 DEF List, Load, LoadFails
  <2>4. CASE loads' = [loads EXCEPT ![k] = [at |-> "wire", list |-> locs]]
    BY <1>3, <2>2, <2>4
  <2>5. CASE loads' = [loads EXCEPT ![k] = [loads[k] EXCEPT !.at = "done"]]
    BY <1>3, <2>2, <2>5
  <2>6. QED
    BY <2>3, <2>4, <2>5
<1>6. CASE Reopen
  <2> DEFINE old == [k \in DOMAIN loads |-> [loads[k] EXCEPT !.at = "done"]]
  <2>1. DOMAIN loads = 1..Len(loads) /\ Len(loads) \in Nat
    BY LenProperties
  <2>2. \A k \in 1..Len(loads) : [loads[k] EXCEPT !.at = "done"] \in Loads
    BY <1>4, <2>1
  <2>3. old = [k \in 1..Len(loads) |-> [loads[k] EXCEPT !.at = "done"]]
    BY <2>1
  <2>4. old \in Seq(Loads)
    BY <2>1, <2>2, <2>3
  <2>5. QED
    BY <1>2, <1>6, <2>4 DEF Reopen
<1>7. ASSUME NEW r \in Requests, Answer(r) PROVE LoadsType'
  BY <1>2, <1>7 DEF Answer
<1>8. CASE Cache \/ UNCHANGED locVars
  BY <1>8 DEF Cache
<1>9. ASSUME NEW r \in Requests, \/ Api(r) \/ Submit(r) \/ LosePost(r) \/ RemoveCard(r) \/ Delete(r)
      PROVE  LoadsType'
  BY <1>9 DEF Api, Submit, LosePost, RemoveCard, Delete
<1>10. QED
  BY <1>5, <1>6, <1>7, <1>8, <1>9 DEF LocNext, Page

LEMMA SetsNext == SetsType /\ LoadsType /\ [LocNext]_locVars => SetsType'
<1> SUFFICES ASSUME SetsType, LoadsType, [LocNext]_locVars PROVE SetsType'
  OBVIOUS
<1> USE DEF SetsType, storeVars, pageVars, locVars
<1>1. ASSUME NEW r \in Requests, Api(r) PROVE SetsType'
  BY <1>1 DEF Api, ServePost, Open, Reject, Count, Insert, DeleteElsewhere
<1>2. ASSUME NEW r \in Requests, Page(r) PROVE SetsType'
  BY <1>2 DEF Page, Submit, Open, Answer, LosePost, RemoveCard, Delete
<1>3. ASSUME NEW k \in DOMAIN loads, List(k) \/ Load(k) \/ LoadFails(k) PROVE SetsType'
  <2>1. loads[k].list \subseteq Requests
    BY <1>3, LoadsElements DEF Loads
  <2>2. QED
    BY <1>3, <2>1 DEF List, Load, LoadFails
<1>4. CASE Cache \/ Reopen \/ UNCHANGED locVars
  BY <1>4 DEF Cache, Reopen
<1>5. QED
  BY <1>1, <1>2, <1>3, <1>4 DEF LocNext, Lists

LEMMA FormNext == FormType /\ [LocNext]_locVars => FormType'
<1> SUFFICES ASSUME FormType, [LocNext]_locVars PROVE FormType'
  OBVIOUS
<1>1. form' = form \/ form' = {} \/ \E r \in Requests : form' = {r}
  BY DEF LocNext, Api, Page, Cache, Lists, Submit, Answer, LosePost, RemoveCard, Delete, List,
         Load, LoadFails, Reopen, storeVars, pageVars, locVars
<1>2. QED
  BY <1>1, FormAtMostOne DEF FormType

LEMMA FlagsNext == FlagsType /\ [LocNext]_locVars => FlagsType'
<1> SUFFICES ASSUME FlagsType, [LocNext]_locVars PROVE FlagsType'
  OBVIOUS
<1> USE DEF FlagsType, storeVars, pageVars, locVars
<1>1. ASSUME NEW r \in Requests, Api(r) PROVE FlagsType'
  BY <1>1 DEF Api, ServePost, Open, Reject, Count, Insert, DeleteElsewhere
<1>2. ASSUME NEW r \in Requests, Page(r) PROVE FlagsType'
  BY <1>2 DEF Page, Submit, Open, Answer, LosePost, RemoveCard, Delete
<1>3. CASE Lists
  BY <1>3 DEF Lists, List, Load, LoadFails
<1>4. CASE Cache \/ Reopen \/ UNCHANGED locVars
  BY <1>4 DEF Cache, Reopen
<1>5. QED
  BY <1>1, <1>2, <1>3, <1>4 DEF LocNext

LEMMA PageStart == LocInit => PageInv
<1>1. NewLoad \in Loads
  BY DEF NewLoad, Loads
<1>2. <<NewLoad>> \in Seq(Loads)
  BY <1>1
<1>3. QED
  BY <1>2, FormAtMostOne
     DEF LocInit, PageInv, SetsType, FormType, LoadsType, FlagsType

LEMMA PageNext == PageInv /\ [LocNext]_locVars => PageInv'
<1>1. SetsType => locs \subseteq Requests
  BY DEF SetsType
<1>2. QED
  BY <1>1, LoadsNext, SetsNext, FormNext, FlagsNext DEF PageInv

LEMMA PageAlways == LocSteps => []PageInv
BY PageStart, PageNext, PTL DEF LocSteps

\* Every reachable state of the locations and their page is well-typed.
THEOREM LocationsTypeCorrect == LocSpec => []LocTypeOK
BY GeoAlways, PageAlways, TypeParts, PTL DEF LocSpec, LocSteps

-----------------------------------------------------------------------------
(* The cap *)

\* Whoever is between the count and the insert has been counted in.
CapInv == ~overlapped => Cardinality(locs) + Cardinality(Inserting) <= Cap

LEMMA Finite ==
  ASSUME PageInv
  PROVE  /\ IsFiniteSet(locs) /\ Cardinality(locs) \in Nat
         /\ IsFiniteSet(Inserting) /\ Cardinality(Inserting) \in Nat
<1>1. locs \in SUBSET Requests /\ Inserting \in SUBSET Requests
  BY DEF PageInv, SetsType, Inserting
<1>2. IsFiniteSet(locs) /\ IsFiniteSet(Inserting)
  BY <1>1, FS_Subset
<1>3. QED
  BY <1>2, FS_CardinalityType

LEMMA CapNext == GeoInv /\ PageInv /\ CapInv /\ [LocNext]_locVars => CapInv'
<1> SUFFICES ASSUME GeoInv, PageInv, CapInv, [LocNext]_locVars, ~overlapped'
             PROVE  Cardinality(locs') + Cardinality(Inserting') <= Cap
  BY DEF CapInv
<1> USE Finite DEF CapInv, storeVars, pageVars, locVars
<1>0. post \in [Requests -> {"none", "open", "insert", "created", "refused"}]
  BY DEF GeoInv, PostType
<1>1. ASSUME UNCHANGED <<locs, overlapped>>, Inserting' = Inserting
      PROVE  Cardinality(locs') + Cardinality(Inserting') <= Cap
  BY <1>1
<1>2. ASSUME NEW r \in Requests, locs' = locs \ {r}, UNCHANGED <<post, overlapped>>
      PROVE  Cardinality(locs') + Cardinality(Inserting') <= Cap
  <2>1. Cardinality(locs') <= Cardinality(locs) /\ Cardinality(locs') \in Nat
    <3>1. \/ Cardinality(locs') = Cardinality(locs)
          \/ Cardinality(locs') = Cardinality(locs) - 1 /\ r \in locs
      BY <1>2, FS_RemoveElement
    <3>2. r \in locs => Cardinality(locs) # 0
      BY FS_EmptySet
    <3>3. QED
      BY <3>1, <3>2
  <2>2. Inserting' = Inserting
    BY <1>2 DEF Inserting
  <2>3. QED
    BY <1>2, <2>1, <2>2
<1>3. ASSUME NEW r \in Requests, Count(r)
      PROVE  Cardinality(locs') + Cardinality(Inserting') <= Cap
  <2>1. CASE post' = [post EXCEPT ![r] = "refused"]
    <3>1. Inserting' = Inserting
      BY <1>0, <1>3, <2>1 DEF Count, Inserting
    <3>2. QED
      BY <1>1, <1>3, <2>1, <3>1 DEF Count
  <2>2. CASE /\ Cardinality(locs) < Cap /\ post' = [post EXCEPT ![r] = "insert"]
             /\ overlapped' = (overlapped \/ Inserting # {})
    <3>1. Inserting = {}
      BY <1>3, <2>2 DEF Count
    <3>2. Inserting' = {r}
      BY <1>0, <1>3, <2>2, <3>1 DEF Count, Inserting
    <3>3. Cardinality(Inserting') = 1
      BY <3>2, FS_Singleton
    <3>4. QED
      BY <1>3, <2>2, <3>3 DEF Count
  <2>3. QED
    BY <1>3, <2>1, <2>2 DEF Count
<1>4. ASSUME NEW r \in Requests, Insert(r)
      PROVE  Cardinality(locs') + Cardinality(Inserting') <= Cap
  <2>1. r \in Inserting /\ ~overlapped
    BY <1>4 DEF Insert, Inserting
  <2>2. Inserting' = Inserting \ {r}
    BY <1>0, <1>4 DEF Insert, Inserting
  <2>3. Cardinality(Inserting') = Cardinality(Inserting) - 1
    BY <2>1, <2>2, FS_RemoveElement
  <2>4. locs' = locs \/ locs' = locs \cup {r}
    BY <1>4 DEF Insert
  <2>5. Cardinality(locs') <= Cardinality(locs) + 1 /\ Cardinality(locs') \in Nat
    <3>1. \/ Cardinality(locs') = Cardinality(locs)
          \/ Cardinality(locs') = Cardinality(locs) + 1
      BY <2>4, FS_AddElement
    <3>2. QED
      BY <3>1
  <2>6. QED
    BY <2>1, <2>3, <2>5
<1>5. ASSUME NEW r \in Requests, Open(r) \/ Reject(r) \/ (Geocode(r) /\ UNCHANGED <<locs, post, overlapped>>)
      PROVE  Cardinality(locs') + Cardinality(Inserting') <= Cap
  <2>1. Inserting' = Inserting
    BY <1>0, <1>5 DEF Open, Reject, Inserting
  <2>2. QED
    BY <1>1, <1>5, <2>1 DEF Open, Reject
<1>6. ASSUME UNCHANGED <<locs, post, overlapped>>
      PROVE  Cardinality(locs') + Cardinality(Inserting') <= Cap
  BY <1>1, <1>6 DEF Inserting
<1>7. ASSUME NEW r \in Requests, Api(r)
      PROVE  Cardinality(locs') + Cardinality(Inserting') <= Cap
  BY <1>2, <1>3, <1>4, <1>5, <1>7 DEF Api, ServePost, DeleteElsewhere
<1>8. ASSUME NEW r \in Requests, Page(r)
      PROVE  Cardinality(locs') + Cardinality(Inserting') <= Cap
  BY <1>2, <1>5, <1>6, <1>8 DEF Page, Submit, Delete, Answer, LosePost, RemoveCard
<1>9. CASE Cache \/ Lists \/ Reopen \/ UNCHANGED locVars
  BY <1>6, <1>9 DEF Cache, Lists, List, Load, LoadFails, Reopen
<1>10. QED
  BY <1>7, <1>8, <1>9 DEF LocNext

LEMMA CapStart == LocInit => CapInv
<1> SUFFICES ASSUME LocInit PROVE CapInv
  OBVIOUS
<1>1. locs = {} /\ Inserting = {}
  BY DEF LocInit, Inserting
<1>2. QED
  BY <1>1, FS_EmptySet DEF CapInv

LEMMA CapAlways == LocSteps => []OverCapNeedsOverlap
<1>1. PageInv /\ CapInv => OverCapNeedsOverlap
  BY Finite DEF CapInv, OverCapNeedsOverlap
<1>2. LocSteps => [](GeoInv /\ PageInv /\ CapInv)
  BY GeoStart, GeoNext, PageStart, PageNext, CapStart, CapNext, PTL DEF LocSteps
<1>3. QED
  BY <1>1, <1>2, PTL

\* Locations exceed the cap only if two requests were between the count and the insert at
\* once: neither deletions, nor failed inserts, nor the order of the others can do it
\* (locations.py:38-58).
THEOREM CapNeedsOverlap == LocSpec => []OverCapNeedsOverlap
BY CapAlways, PTL DEF LocSpec, LocSteps

-----------------------------------------------------------------------------
(* The page *)

\* A location the form was told of was created, and never is again.
AddedInv == \A r \in added : post[r] = "created"

\* From some list on, all were requested after r was added: they have it unless it is gone,
\* and once one of them has arrived, the page has it or says why not.
Since(r, k) ==
  /\ k \in DOMAIN loads
  /\ \A j \in DOMAIN loads : j >= k =>
       /\ loads[j].at = "wire" => r \in loads[j].list
       /\ loads[j].at = "done" => r \in view \/ loadError \/ overtaken

ShownInv == \A r \in added \cap locs : \E k \in DOMAIN loads : Since(r, k)

\* A location of the form is in the database after a step only if it was before.
LEMMA AddedStays ==
  ASSUME AddedInv, GeoInv, PageInv, [LocNext]_locVars
  PROVE  /\ AddedInv'
         /\ \A r \in added : r \in locs' => r \in locs
<1> USE DEF AddedInv, GeoInv, PostType, storeVars, pageVars, locVars
<1>0. added \subseteq Requests
  BY DEF PageInv, SetsType
<1>1. ASSUME NEW r \in Requests, Api(r)
      PROVE  AddedInv' /\ \A q \in added : q \in locs' => q \in locs
  BY <1>0, <1>1 DEF Api, ServePost, Open, Reject, Count, Insert, DeleteElsewhere
<1>2. ASSUME NEW r \in Requests, Page(r)
      PROVE  AddedInv' /\ \A q \in added : q \in locs' => q \in locs
  BY <1>0, <1>2 DEF Page, Submit, Open, Answer, LosePost, RemoveCard, Delete
<1>3. CASE Lists \/ Cache \/ Reopen \/ UNCHANGED locVars
  BY <1>3 DEF Lists, List, Load, LoadFails, Cache, Reopen
<1>4. QED
  BY <1>1, <1>2, <1>3 DEF LocNext

\* Steps that leave the lists and what the page shows of them alone.
LEMMA ShownSame ==
  ASSUME ShownInv, UNCHANGED <<loads, view, loadError, overtaken>>, added' \subseteq added,
         \A r \in added : r \in locs' => r \in locs
  PROVE  ShownInv'
<1> SUFFICES ASSUME NEW r \in added' \cap locs' PROVE \E k \in DOMAIN loads' : Since(r, k)'
  BY DEF ShownInv
<1>1. PICK k \in DOMAIN loads : Since(r, k)
  BY DEF ShownInv
<1>2. QED
  BY <1>1 DEF Since

LEMMA ShownAnswer ==
  ASSUME ShownInv, PageInv, NEW r \in Requests, Answer(r)
  PROVE  ShownInv'
<1> USE DEF storeVars
<1>1. CASE post[r] = "created"
  <2>0. Len(loads) \in Nat
    BY LoadsElements DEF PageInv
  <2>1. PICK last \in Nat : last = Len(loads) + 1
    BY <2>0
  <2>2. loads' = Append(loads, NewLoad) /\ added' = added \cup {r}
    BY <1>1 DEF Answer
  <2>3. NewLoad \in Loads /\ loads \in Seq(Loads)
    BY DEF NewLoad, Loads, PageInv, LoadsType
  <2>4. /\ DOMAIN loads' = 1..last
        /\ loads'[last] = NewLoad /\ \A j \in 1..Len(loads) : loads'[j] = loads[j]
    BY <2>0, <2>1, <2>2, <2>3, AppendProperties
  <2>5. NewLoad.at = "server"
    BY DEF NewLoad
  <2>6. ASSUME NEW q \in added' \cap locs' PROVE \E k \in DOMAIN loads' : Since(q, k)'
    <3>1. \A j \in DOMAIN loads' : j >= last => loads'[j].at = "server"
      BY <2>0, <2>1, <2>4, <2>5
    <3>2. last \in DOMAIN loads'
      BY <2>0, <2>1, <2>4
    <3>3. Since(q, last)'
      BY <3>1, <3>2 DEF Since
    <3>4. QED
      BY <3>2, <3>3
  <2>7. QED
    BY <2>6 DEF ShownInv
<1>2. CASE post[r] # "created"
  BY <1>2, ShownSame DEF Answer
<1>3. QED
  BY <1>1, <1>2

LEMMA ShownLists ==
  ASSUME ShownInv, PageInv, Lists
  PROVE  ShownInv'
<1> USE DEF storeVars
<1>1. PICK i \in DOMAIN loads : List(i) \/ Load(i) \/ LoadFails(i)
  BY DEF Lists
<1>2. /\ DOMAIN loads = 1..Len(loads) /\ Len(loads) \in Nat
      /\ \A j \in DOMAIN loads : loads[j] \in Loads
  BY LoadsElements DEF PageInv
<1>3. loads \in [DOMAIN loads -> Loads]
  BY <1>2 DEF PageInv, LoadsType
<1>4. SUFFICES ASSUME NEW r \in added' \cap locs' PROVE \E k \in DOMAIN loads' : Since(r, k)'
  BY DEF ShownInv
<1>5. DOMAIN loads' = DOMAIN loads /\ r \in added /\ r \in locs /\ locs' = locs
  BY <1>1, <1>4 DEF List, Load, LoadFails
<1>6. PICK k \in DOMAIN loads : Since(r, k)
  BY <1>5 DEF ShownInv
<1>7. CASE List(i)
  <2>1. /\ loads'[i].at = "wire" /\ loads'[i].list = locs
        /\ \A j \in DOMAIN loads : j # i => loads'[j] = loads[j]
        /\ UNCHANGED <<view, loadError, overtaken>>
    BY <1>3, <1>7 DEF List
  <2>2. QED
    BY <1>5, <1>6, <2>1 DEF Since
<1>8. CASE LoadFails(i)
  <2>1. /\ loads'[i].at = "done" /\ loadError'
        /\ \A j \in DOMAIN loads : j # i => loads'[j] = loads[j]
    BY <1>3, <1>8 DEF LoadFails, Loads
  <2>2. QED
    BY <1>5, <1>6, <2>1 DEF Since
<1>9. CASE Load(i)
  <2>1. /\ loads[i].at = "wire" /\ loads'[i].at = "done" /\ view' = loads[i].list
        /\ \A j \in DOMAIN loads : j # i => loads'[j] = loads[j]
        /\ overtaken' = (overtaken \/ \E j \in DOMAIN loads : j > i /\ loads[j].at = "done")
    BY <1>3, <1>9 DEF Load, Loads
  <2>2. CASE i >= k
    <3>1. r \in view'
      BY <1>6, <2>1, <2>2 DEF Since
    <3>2. QED
      BY <1>5, <1>6, <2>1, <3>1 DEF Since
  <2>3. CASE i < k
    <3>1. ASSUME NEW j \in DOMAIN loads, j >= k
          PROVE  /\ loads'[j].at = "wire" => r \in loads'[j].list
                 /\ loads'[j].at = "done" => overtaken'
      <4>1. j # i /\ j > i
        BY <1>2, <2>3, <3>1
      <4>2. loads'[j] = loads[j]
        BY <2>1, <4>1
      <4>3. QED
        BY <1>6, <2>1, <3>1, <4>1, <4>2 DEF Since
    <3>2. Since(r, k)'
      BY <1>5, <1>6, <3>1 DEF Since
    <3>3. QED
      BY <1>5, <3>2
  <2>4. QED
    BY <1>2, <2>2, <2>3
<1>10. QED
  BY <1>1, <1>7, <1>8, <1>9

LEMMA ShownNext ==
  ASSUME AddedInv, GeoInv, PageInv, ShownInv, [LocNext]_locVars
  PROVE  ShownInv'
<1> USE DEF storeVars, pageVars, locVars
<1>1. \A r \in added : r \in locs' => r \in locs
  BY AddedStays
<1>2. ASSUME NEW r \in Requests, Api(r) PROVE ShownInv'
  BY <1>1, <1>2, ShownSame DEF Api
<1>3. ASSUME NEW r \in Requests, Page(r) PROVE ShownInv'
  BY <1>1, <1>3, ShownSame, ShownAnswer DEF Page, Submit, LosePost, RemoveCard, Delete
<1>4. CASE Lists
  BY <1>4, ShownLists
<1>5. CASE Reopen
  BY <1>5 DEF Reopen, ShownInv
<1>6. CASE Cache \/ UNCHANGED locVars
  BY <1>1, <1>6, ShownSame DEF Cache
<1>7. QED
  BY <1>2, <1>3, <1>4, <1>5, <1>6 DEF LocNext

LEMMA ShownAlways == LocSteps => []AddedIsShown
<1>1. PageInv /\ ShownInv => AddedIsShown
  <2> SUFFICES ASSUME PageInv, ShownInv, \A k \in DOMAIN loads : loads[k].at = "done",
                      ~loadError, ~overtaken, NEW r \in added \cap locs
               PROVE  r \in view
    BY DEF AddedIsShown
  <2>1. PICK k \in DOMAIN loads : Since(r, k)
    BY DEF ShownInv
  <2>2. DOMAIN loads = 1..Len(loads) /\ Len(loads) \in Nat
    BY LoadsElements DEF PageInv
  <2>3. QED
    BY <2>1, <2>2 DEF Since
<1>2. LocInit => AddedInv /\ ShownInv
  BY DEF LocInit, AddedInv, ShownInv
<1>3. LocSteps => [](GeoInv /\ PageInv /\ AddedInv /\ ShownInv)
  BY <1>2, GeoStart, GeoNext, PageStart, PageNext, AddedStays, ShownNext, PTL DEF LocSteps
<1>4. QED
  BY <1>1, <1>3, PTL

\* A location the form was told of is on the page once every list has arrived, or the page
\* says that it could not be read, or a list came after a later one (LocationsView.tsx).
THEOREM AddedGetShown == LocSpec => []AddedIsShown
BY ShownAlways, PTL DEF LocSpec, LocSteps
=============================================================================
