----------------------------- MODULE Components -----------------------------
(***************************************************************************)
(* The components around the alert pipeline, each with an environment of   *)
(* its own: whatever the others do to the collections it reads may happen  *)
(* there at any time.  So they need no common behaviours; they are checked *)
(* side by side, one of them in each behaviour.                            *)
(***************************************************************************)
EXTENDS SilenceWatch, Rules, Locations, Summary, LiveFeed, HealthCard, Digest

VARIABLE part   \* the component of the behaviour

\* Locations are too many for one: those of queries without the page, which may use any
\* location, and the page with those of coordinates.
Parts == {"silence", "rules", "geocoding", "page", "card", "feed", "health", "digest"}

Geocoded == {r \in Requests : QueryOf[r] # Point}

ComponentsInit ==
  /\ part \in Parts
  /\ Init /\ RulesInit /\ LocInit /\ SumInit /\ FeedInit /\ HealthInit /\ DigestInit
  /\ part # "digest" => asked = {}   \* one of its initial states is enough elsewhere

Without(vs) == UNCHANGED <<part, vs>>

SilencePart ==
  /\ part = "silence" /\ Next
  /\ Without(<<ruleVars, locVars, sumVars, feedVars, healthVars, digestVars>>)

RulesPart ==
  /\ part = "rules" /\ RulesNext
  /\ Without(<<vars, locVars, sumVars, feedVars, healthVars, digestVars>>)

GeocodingPart ==
  /\ part = "geocoding" /\ (Cache \/ \E r \in Geocoded : Api(r))
  /\ Without(<<vars, ruleVars, sumVars, feedVars, healthVars, digestVars>>)

PagePart ==
  /\ part = "page" /\ (Lists \/ Reopen \/ \E r \in Requests \ Geocoded : Api(r) \/ Page(r))
  /\ Without(<<vars, ruleVars, sumVars, feedVars, healthVars, digestVars>>)

CardPart ==
  /\ part = "card" /\ SumNext
  /\ Without(<<vars, ruleVars, locVars, feedVars, healthVars, digestVars>>)

FeedPart ==
  /\ part = "feed" /\ FeedNext
  /\ Without(<<vars, ruleVars, locVars, sumVars, healthVars, digestVars>>)

HealthPart ==
  /\ part = "health" /\ HealthNext
  /\ Without(<<vars, ruleVars, locVars, sumVars, feedVars, digestVars>>)

DigestPart ==
  /\ part = "digest" /\ DigestNext
  /\ Without(<<vars, ruleVars, locVars, sumVars, feedVars, healthVars>>)

ComponentsNext ==
  \/ SilencePart \/ RulesPart \/ GeocodingPart \/ PagePart
  \/ CardPart \/ FeedPart \/ HealthPart \/ DigestPart

\* Each component's fairness holds in its behaviours.
ComponentsSpec ==
  /\ ComponentsInit /\ [][ComponentsNext]_<<part, vars, ruleVars, locVars, sumVars, feedVars,
                                            healthVars, digestVars>>
  /\ WF_vars(part = "silence" /\ Tick) /\ WF_vars(part = "silence" /\ CheckStep)
  /\ WF_vars(part = "silence" /\ (StoreRow \/ LoseRow))
  /\ \A k \in Refreshes : WF_healthVars(part = "health" /\ (Refresh(k) \/ Answering(k)))
  /\ \A j \in 1..MaxJobsAsked :
       WF_digestVars(part = "digest" /\ j \in DOMAIN job /\ RunDigest(j))

-----------------------------------------------------------------------------
(* Properties *)

\* Every variable of the behaviour's component has its type.
TypesOK ==
  CASE part = "silence" -> TypeOK
    [] part = "rules"   -> RulesTypeOK
    [] part \in {"geocoding", "page"} -> LocTypeOK
    [] part = "card"    -> SumTypeOK
    [] part = "feed"    -> FeedTypeOK
    [] part = "health"  -> HealthTypeOK
    [] part = "digest"  -> DigestTypeOK
=============================================================================
