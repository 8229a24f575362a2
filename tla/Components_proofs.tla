------------------------- MODULE Components_proofs -------------------------
(***************************************************************************)
(* Digest is type-correct and sends nothing unasked, for every number of   *)
(* chats, messages and jobs.  And the composition: it keeps to the         *)
(* specification of each component, fairness apart, so what is proved of   *)
(* them holds of it.                                                       *)
(***************************************************************************)
EXTENDS Components, AlertSources_proofs, Locations_proofs, Dashboard_proofs

-----------------------------------------------------------------------------
(* Digest *)

Messages == [at : {"again", "dispatch", "reply", "done"}, from : People, says : Commands]
Jobs == [at : {"queued", "send", "done", "failed"},
         to : People \cup {Everyone}, by : Updates \cup {Nobody},
         left : SUBSET People, tried : SUBSET People]

\* A job sends to nobody who is not asked: neither to the chats it has read nor, once it
\* reads them, to the one it is for.
JobIsAsked(j) == j.left \subseteq asked /\ (j.to # Everyone => j.to \in asked)

\* Only a registration makes a chat known.
DigestInv ==
  /\ DigestTypeOK
  /\ \A c \in People : known[c] # "unknown" => c \in asked
  /\ \A j \in DOMAIN job : JobIsAsked(job[j])
  /\ NobodyUnasked

LEMMA DigestStart == DigestInit => DigestInv
BY DigestAssumption DEF DigestInit, DigestInv, DigestTypeOK, NobodyUnasked

\* The queue is a sequence of jobs.
LEMMA JobTypes ==
  ASSUME DigestInv
  PROVE  /\ Len(job) \in Nat /\ DOMAIN job = 1..Len(job)
         /\ \A j \in DOMAIN job : job[j] \in Jobs
<1>1. job \in Seq(Jobs)
  BY DEF DigestInv, DigestTypeOK, Jobs
<1>2. QED
  BY <1>1, LenProperties, ElementOfSeq

LEMMA TroubleType ==
  ASSUME trouble \in 0..MaxTrouble, Trouble \/ UNCHANGED trouble
  PROVE  trouble' \in 0..MaxTrouble
BY DigestAssumption DEF Trouble

LEMMA AskForKeeps ==
  ASSUME DigestInv, NEW to \in People \cup {Everyone}, NEW by \in Updates \cup {Nobody},
         AskFor(to, by), UNCHANGED <<got, trouble>>,
         known' = known, update' \in [Updates -> {Unsent} \cup Messages],
         asked' = asked \cup ({to} \ {Everyone})
  PROVE  DigestInv'
<1> DEFINE new == [at |-> "queued", to |-> to, by |-> by, left |-> {}, tried |-> {}]
<1>1. new \in Jobs
  BY DEF Jobs
<1>2. job' = Append(job, new) /\ job \in Seq(Jobs)
  BY DEF AskFor, DigestInv, DigestTypeOK, Jobs
<1> HIDE DEF new
<1>3. /\ job' \in Seq(Jobs) /\ DOMAIN job' = 1..Len(job) + 1 /\ Len(job) \in Nat
      /\ \A j \in 1..Len(job) : job'[j] = job[j]
      /\ job'[Len(job) + 1] = new
  BY <1>1, <1>2, AppendProperties, LenProperties
<1>4. JobIsAsked(new)'
  BY DEF JobIsAsked, new
<1>5. \A j \in DOMAIN job' : JobIsAsked(job[j])'
  BY <1>3, <1>4, JobTypes DEF DigestInv, JobIsAsked
<1>6. asked' \subseteq People /\ asked \subseteq asked'
  BY DEF DigestInv, DigestTypeOK
<1>7. DigestTypeOK'
  BY <1>3, <1>6 DEF DigestInv, DigestTypeOK, Jobs, Messages
<1>8. QED
  BY <1>5, <1>6, <1>7 DEF DigestInv, NobodyUnasked

\* A message is received, served or delivered again.
LEMMA UpdatesKeep ==
  ASSUME DigestInv, NEW u \in Updates,
         \/ \E c \in People, says \in Commands : Receive(u, c, says)
         \/ Dispatch(u) \/ Reply(u) \/ ReceiveFails(u)
  PROVE  DigestInv'
<1>1. ASSUME job' = job, got' = got, asked \subseteq asked', asked' \subseteq People,
             trouble' \in 0..MaxTrouble,
             known' \in [People -> {"unknown", "active", "stopped"}],
             update' \in [Updates -> {Unsent} \cup Messages],
             \A c \in People : known'[c] # "unknown" => c \in asked'
      PROVE  DigestInv'
  BY <1>1 DEF DigestInv, DigestTypeOK, NobodyUnasked, JobIsAsked, Messages
<1>2. ASSUME NEW c \in People, NEW says \in Commands, Receive(u, c, says) PROVE DigestInv'
  <2>1. known' = known /\ UNCHANGED <<job, got, asked, trouble>>
    BY <1>2 DEF Receive, Touched, DigestInv, DigestTypeOK
  <2>2. update' \in [Updates -> {Unsent} \cup Messages]
    BY <1>2 DEF Receive, Messages, DigestInv, DigestTypeOK
  <2>3. QED
    BY <1>1, <2>1, <2>2 DEF DigestInv, DigestTypeOK
<1>3. ASSUME Dispatch(u) \/ Reply(u) \/ ReceiveFails(u)
      PROVE  /\ update[u] \in Messages
             /\ update' \in [Updates -> {Unsent} \cup Messages]
  <2>1. update[u] \in Messages
    BY <1>3 DEF Dispatch, Reply, ReceiveFails, At, Messages, DigestInv, DigestTypeOK
  <2>2. PICK at \in {"again", "reply", "done"} : update' = [update EXCEPT ![u].at = at]
    BY <1>3 DEF Dispatch, Reply, ReceiveFails
  <2>3. [update[u] EXCEPT !.at = at] \in Messages
    BY <2>1 DEF Messages
  <2>4. QED
    BY <2>1, <2>2, <2>3 DEF DigestInv, DigestTypeOK, Messages
<1>4. CASE Dispatch(u)
  <2> DEFINE c == update[u].from
  <2>1. c \in People
    BY <1>3, <1>4 DEF Messages
  <2>2. CASE AskFor(c, u) /\ asked' = asked \cup {c} /\ UNCHANGED known
    <3>1. asked' = asked \cup ({c} \ {Everyone})
      BY <2>1, <2>2, DigestAssumption
    <3>2. QED
      BY <1>3, <1>4, <2>1, <2>2, <3>1, AskForKeeps DEF Dispatch
  <2>3. CASE known' = [known EXCEPT ![c] = "active"] /\ asked' = asked \cup {c} /\ UNCHANGED job
    BY <1>1, <1>3, <1>4, <2>1, <2>3 DEF Dispatch, DigestInv, DigestTypeOK
  <2>4. CASE /\ known' = [known EXCEPT ![c] = IF @ = "unknown" THEN @ ELSE "stopped"]
             /\ UNCHANGED <<job, asked>>
    BY <1>1, <1>3, <1>4, <2>1, <2>4 DEF Dispatch, DigestInv, DigestTypeOK
  <2>5. CASE UNCHANGED <<known, job, asked>>
    BY <1>1, <1>3, <1>4, <2>5 DEF Dispatch, DigestInv, DigestTypeOK
  <2>6. QED
    BY <1>4, <2>2, <2>3, <2>4, <2>5 DEF Dispatch
<1>5. CASE Reply(u) \/ ReceiveFails(u)
  <2>1. trouble' \in 0..MaxTrouble
    BY <1>5, TroubleType DEF Reply, ReceiveFails, DigestInv, DigestTypeOK
  <2>2. QED
    BY <1>1, <1>3, <1>5, <2>1 DEF Reply, ReceiveFails, DigestInv, DigestTypeOK
<1>6. QED
  BY <1>2, <1>4, <1>5

\* The worker moves one job on, or dies and leaves them all to be run again.
LEMMA WorkerKeeps ==
  ASSUME DigestInv,
         (\E j \in DOMAIN job : RunDigest(j) \/ DigestFails(j)) \/ WorkerDies
  PROVE  DigestInv'
<1>1. UNCHANGED <<known, update, asked>>
  BY DEF RunDigest, ReadChats, SendDigest, EndDigest, DigestFails, WorkerDies
<1>2. ASSUME NEW n \in Nat, job' \in [1..n -> Jobs], \A j \in 1..n : JobIsAsked(job'[j]),
             got' \subseteq asked, trouble' \in 0..MaxTrouble
      PROVE  DigestInv'
  <2>1. job' \in Seq(Jobs) /\ DOMAIN job' = 1..n
    BY <1>2, IsASeq
  <2>2. QED
    BY <1>1, <1>2, <2>1 DEF DigestInv, DigestTypeOK, NobodyUnasked, JobIsAsked, Jobs
<1>3. ASSUME NEW j \in DOMAIN job, NEW new \in Jobs, job' = [job EXCEPT ![j] = new],
             JobIsAsked(new), got' \subseteq asked, trouble' \in 0..MaxTrouble
      PROVE  DigestInv'
  BY <1>2, <1>3, JobTypes DEF DigestInv
<1>4. ASSUME NEW j \in DOMAIN job, RunDigest(j) \/ DigestFails(j) PROVE DigestInv'
  <2>1. job[j] \in Jobs /\ JobIsAsked(job[j])
    BY JobTypes DEF DigestInv
  <2>2. trouble' \in 0..MaxTrouble
    <3>1. Trouble \/ UNCHANGED trouble
      BY <1>4 DEF RunDigest, ReadChats, SendDigest, EndDigest, DigestFails
    <3>2. QED
      BY <3>1, TroubleType DEF DigestInv, DigestTypeOK
  <2>3. got' \subseteq asked
    BY <1>4, <2>1 DEF RunDigest, ReadChats, SendDigest, EndDigest, DigestFails, JobIsAsked,
                      DigestInv, NobodyUnasked
  <2>4. CASE ReadChats(j)
    <3> DEFINE chats == IF job[j].to = Everyone THEN Active ELSE {job[j].to}
               new == [job[j] EXCEPT !.at = "send", !.tried = {}, !.left = chats]
    <3>1. Active \subseteq asked /\ asked \subseteq People
      BY DEF Active, DigestInv, DigestTypeOK
    <3>2. chats \subseteq asked
      BY <2>1, <3>1 DEF JobIsAsked
    <3>3. new \in Jobs /\ JobIsAsked(new)
      BY <2>1, <3>1, <3>2 DEF Jobs, JobIsAsked
    <3>4. job' = [job EXCEPT ![j] = new]
      BY <2>4 DEF ReadChats
    <3>5. QED
      BY <1>3, <2>2, <2>3, <3>3, <3>4
  <2>5. ASSUME NEW c \in People, SendDigest(j, c) PROVE DigestInv'
    <3> DEFINE new == [job[j] EXCEPT !.left = @ \ {c}, !.tried = @ \cup {c}]
    <3>1. new \in Jobs /\ JobIsAsked(new)
      BY <2>1 DEF Jobs, JobIsAsked
    <3>2. job' = [job EXCEPT ![j] = new]
      BY <2>5 DEF SendDigest
    <3>3. QED
      BY <1>3, <2>2, <2>3, <3>1, <3>2
  <2>6. CASE EndDigest(j)
    <3>1. [job[j] EXCEPT !.at = "done"] \in Jobs /\ JobIsAsked([job[j] EXCEPT !.at = "done"])
      BY <2>1 DEF Jobs, JobIsAsked
    <3>2. job' = [job EXCEPT ![j] = [job[j] EXCEPT !.at = "done"]]
      BY <2>6 DEF EndDigest
    <3>3. QED
      BY <1>3, <2>2, <2>3, <3>1, <3>2
  <2>7. CASE DigestFails(j)
    <3> DEFINE new == [job[j] EXCEPT !.at = "failed", !.left = {}]
    <3>1. new \in Jobs /\ JobIsAsked(new)
      BY <2>1 DEF Jobs, JobIsAsked
    <3>2. job' = [job EXCEPT ![j] = new]
      BY <2>7 DEF DigestFails
    <3>3. QED
      BY <1>3, <2>2, <2>3, <3>1, <3>2
  <2>8. QED
    BY <1>4, <2>4, <2>5, <2>6, <2>7 DEF RunDigest
<1>5. CASE WorkerDies
  <2> DEFINE again(j) == IF job[j].at = "send"
                           THEN [job[j] EXCEPT !.at = "queued", !.left = {}] ELSE job[j]
  <2>1. \A j \in DOMAIN job : again(j) \in Jobs /\ JobIsAsked(again(j))
    BY JobTypes DEF Jobs, JobIsAsked, DigestInv
  <2>2. job' = [j \in DOMAIN job |-> again(j)]
    BY <1>5 DEF WorkerDies
  <2> HIDE DEF again
  <2>3. job' \in [1..Len(job) -> Jobs] /\ \A j \in 1..Len(job) : JobIsAsked(job'[j])
    BY <2>1, <2>2, JobTypes
  <2>4. got' \subseteq asked /\ trouble' \in 0..MaxTrouble
    <3>1. Trouble /\ UNCHANGED got
      BY <1>5 DEF WorkerDies
    <3>2. QED
      BY <3>1, TroubleType DEF DigestInv, DigestTypeOK, NobodyUnasked
  <2>5. QED
    BY <1>2, <2>3, <2>4, JobTypes
<1>6. QED
  BY <1>4, <1>5

LEMMA DigestStep == DigestInv /\ [DigestNext]_digestVars => DigestInv'
<1> SUFFICES ASSUME DigestInv, [DigestNext]_digestVars PROVE DigestInv'
  OBVIOUS
<1>1. ASSUME NEW to \in People \cup {Everyone}, Button(to) PROVE DigestInv'
  <2>1. update' \in [Updates -> {Unsent} \cup Messages]
    BY <1>1 DEF Button, DigestInv, DigestTypeOK, Messages
  <2>2. QED
    BY <1>1, <2>1, AskForKeeps DEF Button
<1>2. CASE UNCHANGED digestVars
  BY <1>2 DEF digestVars, DigestInv, DigestTypeOK, NobodyUnasked, JobIsAsked
<1>3. QED
  BY <1>1, <1>2, UpdatesKeep, WorkerKeeps DEF DigestNext

\* The specification without its fairness.
DigestSteps == DigestInit /\ [][DigestNext]_digestVars

LEMMA DigestAlways == DigestSteps => []DigestInv
BY DigestStart, DigestStep, PTL DEF DigestSteps

\* Every reachable state of the chats, messages and jobs is well-typed.
THEOREM DigestTypeCorrect == DigestSpec => []DigestTypeOK
<1>1. DigestInv => DigestTypeOK
  BY DEF DigestInv
<1>2. QED
  BY <1>1, DigestAlways, PTL DEF DigestSpec, DigestSteps

\* Nobody gets a digest unasked, for any chats, messages, jobs, failures and crashes.
THEOREM NobodyGetsUnasked == DigestSpec => []NobodyUnasked
<1>1. DigestInv => NobodyUnasked
  BY DEF DigestInv
<1>2. QED
  BY <1>1, DigestAlways, PTL DEF DigestSpec, DigestSteps

-----------------------------------------------------------------------------
(* The composition *)

\* What a step of the composition is to each component.
ComponentSteps ==
  /\ [Next]_vars /\ [RulesNext]_ruleVars /\ [LocNext]_locVars /\ [SumNext]_sumVars
  /\ [FeedNext]_feedVars /\ [HealthNext]_healthVars /\ [DigestNext]_digestVars

AllVars == <<part, vars, ruleVars, locVars, sumVars, feedVars, healthVars, digestVars>>

\* Geocoding and the page are each a part of the steps of Locations.
LEMMA LocationSteps == GeocodingPart \/ PagePart => LocNext
BY DEF GeocodingPart, PagePart, LocNext, Geocoded

LEMMA StepsOfOne == ComponentsNext => ComponentSteps
<1>1. SilencePart => ComponentSteps
  BY DEF SilencePart, Without, ComponentSteps
<1>2. RulesPart => ComponentSteps
  BY DEF RulesPart, Without, ComponentSteps
<1>3. GeocodingPart \/ PagePart => ComponentSteps
  BY LocationSteps DEF GeocodingPart, PagePart, Without, ComponentSteps
<1>4. CardPart => ComponentSteps
  BY DEF CardPart, Without, ComponentSteps
<1>5. FeedPart => ComponentSteps
  BY DEF FeedPart, Without, ComponentSteps
<1>6. HealthPart => ComponentSteps
  BY DEF HealthPart, Without, ComponentSteps
<1>7. DigestPart => ComponentSteps
  BY DEF DigestPart, Without, ComponentSteps
<1>8. QED
  BY <1>1, <1>2, <1>3, <1>4, <1>5, <1>6, <1>7 DEF ComponentsNext

LEMMA StepsOfEach == [ComponentsNext]_AllVars => ComponentSteps
<1>1. UNCHANGED AllVars => ComponentSteps
  BY DEF AllVars, ComponentSteps
<1>2. QED
  BY <1>1, StepsOfOne

\* The composition keeps to the specification of every component, but for its fairness.
LEMMA EachKeepsToItsSpec ==
  ComponentsSpec => /\ Spec /\ RulesSpec /\ LocSteps /\ SumSpec
                    /\ FeedSpec /\ HealthSteps /\ DigestSteps
<1>1. ComponentsInit => /\ Init /\ RulesInit /\ LocInit /\ SumInit
                        /\ FeedInit /\ HealthInit /\ DigestInit
  BY DEF ComponentsInit
<1>2. ComponentsSpec => ComponentsInit /\ [][ComponentsNext]_AllVars
  BY PTL DEF ComponentsSpec, AllVars
<1>3. [ComponentsNext]_AllVars =>
        /\ [Next]_vars /\ [RulesNext]_ruleVars /\ [LocNext]_locVars /\ [SumNext]_sumVars
        /\ [FeedNext]_feedVars /\ [HealthNext]_healthVars /\ [DigestNext]_digestVars
  BY StepsOfEach DEF ComponentSteps
<1>4. QED
  BY <1>1, <1>2, <1>3, PTL
     DEF Spec, RulesSpec, LocSteps, SumSpec, FeedSpec, HealthSteps, DigestSteps

\* Every variable of every component keeps its type, whichever component takes the steps.
THEOREM ComponentTypesHold == ComponentsSpec => []TypesOK
<1>1. part \in Parts /\ TypeOK /\ RulesTypeOK /\ LocTypeOK /\ SumTypeOK
      /\ FeedTypeOK /\ HealthTypeOK /\ DigestTypeOK => TypesOK
  BY DEF TypesOK, Parts
<1>2. ComponentsSpec => [](part \in Parts)
  <2>1. ComponentsInit => part \in Parts
    BY DEF ComponentsInit
  <2>2. part \in Parts /\ [ComponentsNext]_AllVars => (part \in Parts)'
    BY DEF ComponentsNext, AllVars, SilencePart, RulesPart, GeocodingPart, PagePart, CardPart,
           FeedPart, HealthPart, DigestPart, Without
  <2>3. ComponentsSpec => ComponentsInit /\ [][ComponentsNext]_AllVars
    BY PTL DEF ComponentsSpec, AllVars
  <2>4. QED
    BY <2>1, <2>2, <2>3, PTL
<1>3. /\ GeoInv /\ PageInv => LocTypeOK
      /\ HealthInv => HealthTypeOK
      /\ DigestInv => DigestTypeOK
  BY TypeParts DEF HealthInv, DigestInv
<1>4. QED
  BY <1>1, <1>2, <1>3, EachKeepsToItsSpec, TypeCorrect, RulesTypeCorrect, GeoAlways, PageAlways,
     SummaryTypeCorrect, FeedTypeCorrect, HealthAlways, DigestAlways, PTL

\* What the components promise holds while they run side by side: the rules keep the cards'
\* promise and report swarms, the cap is exceeded only by an overlap, an added location is
\* shown, a summary's counts agree, a settled list is current, a good tone is earned, no
\* digest comes unasked, and an hour of silence is reported at most once.
THEOREM ComponentsKeepPromises ==
  ComponentsSpec =>
    [](/\ OncePerHour /\ CardIsKept /\ SwarmIsReported /\ OverCapNeedsOverlap /\ AddedIsShown
       /\ CardAgrees /\ FeedIsCurrent /\ GoodIsEarned /\ NobodyUnasked)
<1>1. /\ HealthInv => GoodIsEarned
      /\ DigestInv => NobodyUnasked
  BY GoodFollows DEF DigestInv
<1>2. QED
  BY <1>1, EachKeepsToItsSpec, OutagesDoNotSpam, CardsAreKept, SwarmsAreReported, CapAlways,
     ShownAlways, CardsAgree, FeedsAreCurrent, HealthAlways, DigestAlways, PTL

\* In the composition too, an hour of silence in which nothing failed is reported by its end.
THEOREM QuietHoursStayReported == ASSUME Hour >= 3 PROVE ComponentsSpec => []QuietHourIsReported
BY EachKeepsToItsSpec, QuietHoursAreReported, PTL

\* And requests to Nominatim begin an interval apart.
THEOREM CallsStaySpacedTogether == ComponentsSpec => CallsAreSpaced
BY EachKeepsToItsSpec, SpacedAlways
=============================================================================
