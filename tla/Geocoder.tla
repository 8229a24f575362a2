------------------------------ MODULE Geocoder ------------------------------
(***************************************************************************)
(* CachedGeocoder around NominatimGeocoder, as the concurrent requests of  *)
(* the api use it: look into the cache, wait for the one request a second  *)
(* Nominatim allows, ask, store.  The rate limiter sleeps with its lock    *)
(* held, so the others wait behind the sleeper.                            *)
(***************************************************************************)
EXTENDS Integers, Sequences, FiniteSets

CONSTANTS
  Requests,     \* requests that geocode a query
  Queries,      \* normalised query texts
  QueryOf,      \* the query of each request, or Point for one with coordinates
  Point,
  MinInterval,  \* _min_interval, in ticks
  Attempts      \* upstream_retry's attempts for one call (2)

ASSUME GeocoderAssumption == /\ MinInterval \in Nat \ {0} /\ Attempts \in Nat \ {0}
                             /\ QueryOf \in [Requests -> Queries \cup {Point}]

VARIABLES
  cached,    \* geocode_cache: queries with a document
  geo,       \* per request: where it is
  line,      \* _lock: who holds it, and who waits behind
  nap,       \* per request: what is left of its sleep
  elapsed,   \* time since _last_call_monotonic, up to MinInterval
  attempts   \* per request: attempts made of its call

geoVars == <<cached, geo, line, nap, elapsed, attempts>>

GeoInit ==
  /\ cached = {}
  /\ geo = [r \in Requests |-> "idle"] /\ line = <<>>
  /\ nap = [r \in Requests |-> 0] /\ elapsed = MinInterval
  /\ attempts = [r \in Requests |-> 0]

Move(r, s) == geo' = [geo EXCEPT ![r] = s]

\* A document of the cache expires with its TTL.
ExpireCache(q) ==
  /\ q \in cached
  /\ cached' = cached \ {q}
  /\ UNCHANGED <<geo, line, nap, elapsed, attempts>>

\* forward of CachedGeocoder: _read finds the query; or the request joins the line for
\* the lock, also if the document is no valid result; or the read raises, and so does the
\* request.
Lookup(r) ==
  /\ geo[r] = "lookup"
  /\ \/ QueryOf[r] \in cached /\ Move(r, "located") /\ UNCHANGED line
     \/ Move(r, "line") /\ line' = Append(line, r)
     \/ Move(r, "failed") /\ UNCHANGED line
  /\ UNCHANGED <<cached, nap, elapsed, attempts>>

\* Mutant of Acquire: the lock is not waited for.
AcquireUnlocked(r) ==
  /\ geo[r] = "line"
  /\ nap' = [nap EXCEPT ![r] = MinInterval - elapsed]
  /\ Move(r, "nap")
  /\ UNCHANGED <<cached, line, elapsed, attempts>>

\* _respect_rate_limit with the lock: sleep for what is left of the interval.
Acquire(r) ==
  /\ geo[r] = "line" /\ Head(line) = r
  /\ nap' = [nap EXCEPT ![r] = MinInterval - elapsed]
  /\ Move(r, "nap")
  /\ UNCHANGED <<cached, line, elapsed, attempts>>

Wake(r) ==
  /\ geo[r] = "nap" /\ nap[r] = 0
  /\ elapsed' = 0
  /\ line' = Tail(line)
  /\ Move(r, "call")
  /\ UNCHANGED <<cached, nap, attempts>>

Clock ==
  /\ elapsed < MinInterval
  /\ elapsed' = elapsed + 1
  /\ nap' = [r \in Requests |-> IF nap[r] > 0 THEN nap[r] - 1 ELSE 0]
  /\ UNCHANGED <<cached, geo, line, attempts>>

\* _call, whose retries do not wait for the rate limiter again: a place, no place, a
\* refusal (4xx, 429, 5xx), or no connection until the attempts are used up.
Call(r) ==
  /\ geo[r] = "call"
  /\ attempts' = [attempts EXCEPT ![r] = @ + 1]
  /\ \/ Move(r, "store")
     \/ Move(r, "unknown")
     \/ Move(r, "failed")
     \/ attempts[r] + 1 < Attempts /\ UNCHANGED geo
  /\ UNCHANGED <<cached, line, nap, elapsed>>

\* _write; if it raises, so does the request.
Store(r) ==
  /\ geo[r] = "store"
  /\ \/ cached' = cached \cup {QueryOf[r]} /\ Move(r, "located")
     \/ Move(r, "failed") /\ UNCHANGED cached
  /\ UNCHANGED <<line, nap, elapsed, attempts>>

Geocode(r) == Lookup(r) \/ Acquire(r) \/ Wake(r) \/ Call(r) \/ Store(r)

-----------------------------------------------------------------------------
(* Properties *)

GeoTypeOK ==
  /\ cached \subseteq Queries
  /\ geo \in [Requests -> {"idle", "lookup", "line", "nap", "call", "store",
                           "located", "unknown", "failed"}]
  /\ line \in Seq(Requests)
  /\ nap \in [Requests -> 0..MinInterval] /\ elapsed \in 0..MinInterval
  /\ attempts \in [Requests -> 0..Attempts]

\* "max 1 request/second" (nominatim.py): calls begin at least an interval apart,
\* however many requests wait, and whatever the cache answers meanwhile.  The second
\* attempt of a call is not one of them.
CallsAreSpaced ==
  [][\A r \in Requests : geo[r] # "call" /\ geo'[r] = "call" => elapsed = MinInterval]_geoVars
=============================================================================
