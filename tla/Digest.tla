-------------------------------- MODULE Digest --------------------------------
(***************************************************************************)
(* The daily summary: who asks for it (the bot's commands, the dashboard's *)
(* button, the cron of every instance of the alerts service) and who gets  *)
(* it.  Telegram delivers an update again until the webhook acknowledges   *)
(* it, and arq runs a job again if the worker died under it; neither side  *)
(* knows what was done already.                                            *)
(***************************************************************************)
EXTENDS Naturals, Sequences

CONSTANTS
  People,    \* Telegram chats
  Everyone,  \* chat_id None: a broadcast
  Updates,   \* messages people send to the bot
  Nobody,    \* not from an update
  Unsent,    \* of an update that was not sent yet
  MaxJobsAsked, MaxTrouble  \* bounds: jobs; failures and crashes

ASSUME DigestAssumption == {MaxJobsAsked, MaxTrouble} \subseteq Nat /\ Everyone \notin People /\ Nobody \notin Updates

Commands == {"/start", "/stop", "/summary", "else"}

VARIABLES
  known,    \* telegram_subscribers: "active", "stopped", or "unknown" without a document
  update,   \* per update: where it is, who sent it and what it says
  job,      \* the jobs ever enqueued, in order: where it is, whose digest it is, who asked, who is left, who was tried
  got,      \* chats that received a digest
  asked,    \* history: chats that registered, or that a digest was asked for by name
  trouble   \* failures and crashes so far

digestVars == <<known, update, job, got, asked, trouble>>

DigestInit ==
  /\ known \in [People -> {"unknown", "active", "stopped"}]
  /\ asked = {c \in People : known[c] # "unknown"}
  /\ update = [u \in Updates |-> Unsent]
  /\ job = <<>>
  /\ got = {} /\ trouble = 0

Active == {c \in People : known[c] = "active"}

Trouble == trouble < MaxTrouble /\ trouble' = trouble + 1

\* enqueue_job: no job id is given, so nothing is ever "already_queued".
AskFor(to, by) ==
  /\ Len(job) < MaxJobsAsked
  /\ job' = Append(job, [at |-> "queued", to |-> to, by |-> by, left |-> {}, tried |-> {}])

-----------------------------------------------------------------------------
(* Asking *)

\* Mutant of Touched: the write is an upsert; a document without stopped_at is active.
TouchedUpserts(c) == IF known[c] = "unknown" THEN "active" ELSE known[c]

\* touch leaves an unknown chat unknown.
Touched(c) == known[c]

\* The message reaches the webhook, for the first time or again: touch.
Receive(u, c, says) ==
  /\ update[u] \in {Unsent, [at |-> "again", from |-> c, says |-> says]}
  /\ update' = [update EXCEPT ![u] = [at |-> "dispatch", from |-> c, says |-> says]]
  /\ known' = [known EXCEPT ![c] = Touched(c)]
  /\ UNCHANGED <<job, got, asked, trouble>>

At(u, where) == update[u] # Unsent /\ update[u].at \in where

\* _dispatch_command, up to its acknowledgement.  /help is a /start.
Dispatch(u) ==
  /\ At(u, {"dispatch"})
  /\ update' = [update EXCEPT ![u].at = "reply"]
  /\ LET c == update[u].from
     IN \/ /\ update[u].says = "/start"
           /\ known' = [known EXCEPT ![c] = "active"] /\ asked' = asked \cup {c}
           /\ UNCHANGED job
        \/ /\ update[u].says = "/stop"
           /\ known' = [known EXCEPT ![c] = IF @ = "unknown" THEN @ ELSE "stopped"]
           /\ UNCHANGED <<job, asked>>
        \/ /\ update[u].says = "/summary"
           /\ AskFor(c, u) /\ asked' = asked \cup {c}
           /\ UNCHANGED known
        \/ /\ update[u].says = "else"   \* /locations, and help for the rest
           /\ UNCHANGED <<known, job, asked>>
  /\ UNCHANGED <<got, trouble>>

\* The acknowledgement is sent, and the webhook answers 200.
Reply(u) ==
  /\ At(u, {"reply"})
  /\ update' = [update EXCEPT ![u].at = "done"]
  /\ UNCHANGED <<known, job, got, asked, trouble>>

\* MongoDB, Redis or Telegram raises under the handler, or the service restarts: Telegram
\* will deliver the update again.
ReceiveFails(u) ==
  /\ At(u, {"dispatch", "reply"})
  /\ Trouble
  /\ update' = [update EXCEPT ![u].at = "again"]
  /\ UNCHANGED <<known, job, got, asked>>

\* The button, for everyone or, by the api's chat_id, for a chat; the cron.
Button(to) ==
  /\ AskFor(to, Nobody)
  /\ asked' = asked \cup ({to} \ {Everyone})
  /\ UNCHANGED <<known, update, got, trouble>>

-----------------------------------------------------------------------------
(* summary_job *)

\* The digest is put together, and the chats are read unless it is for one.
ReadChats(j) ==
  /\ job[j].at = "queued"
  /\ job' = [job EXCEPT ![j].at = "send", ![j].tried = {},
                        ![j].left = IF job[j].to = Everyone THEN Active ELSE {job[j].to}]
  /\ UNCHANGED <<known, update, got, asked, trouble>>

\* _send_one returns, one way or the other; arq deletes the job after the last.
SendDigest(j, c) ==
  /\ job[j].at = "send" /\ c \in job[j].left
  /\ job' = [job EXCEPT ![j].left = @ \ {c}, ![j].tried = @ \cup {c}]
  /\ \/ got' = got \cup {c} /\ UNCHANGED trouble
     \/ Trouble /\ UNCHANGED got
  /\ UNCHANGED <<known, update, asked>>

EndDigest(j) ==
  /\ job[j].at = "send" /\ job[j].left = {}
  /\ job' = [job EXCEPT ![j].at = "done"]
  /\ UNCHANGED <<known, update, got, asked, trouble>>

\* A read raises, or job_timeout cuts the job: arq does not run it again.
DigestFails(j) ==
  /\ job[j].at \in {"queued", "send"}
  /\ Trouble
  /\ job' = [job EXCEPT ![j].at = "failed", ![j].left = {}]
  /\ UNCHANGED <<known, update, got, asked>>

\* Mutant of WorkerDies: a job leaves the queue when it starts.
WorkerDiesForgetting ==
  /\ Trouble
  /\ job' = SelectSeq(job, LAMBDA j : j.at # "send")
  /\ UNCHANGED <<known, update, got, asked>>

\* The worker dies; arq runs the job again (fewer than max_tries times here).
WorkerDies ==
  /\ Trouble
  /\ job' = [j \in DOMAIN job |-> IF job[j].at = "send"
                                THEN [job[j] EXCEPT !.at = "queued", !.left = {}] ELSE job[j]]
  /\ UNCHANGED <<known, update, got, asked>>

RunDigest(j) ==
  ReadChats(j) \/ EndDigest(j) \/ \E c \in People : SendDigest(j, c)

DigestNext ==
  \/ \E u \in Updates :
       \/ \E c \in People, says \in Commands : Receive(u, c, says)
       \/ Dispatch(u) \/ Reply(u) \/ ReceiveFails(u)
  \/ \E to \in People \cup {Everyone} : Button(to)
  \/ \E j \in DOMAIN job : RunDigest(j) \/ DigestFails(j)
  \/ WorkerDies

\* The worker is restarted and runs every job.
DigestFairness == \A j \in 1..MaxJobsAsked : WF_digestVars(j \in DOMAIN job /\ RunDigest(j))

DigestSpec == DigestInit /\ [][DigestNext]_digestVars /\ DigestFairness

-----------------------------------------------------------------------------
(* Properties *)

DigestTypeOK ==
  /\ known \in [People -> {"unknown", "active", "stopped"}]
  /\ update \in [Updates -> {Unsent} \cup
                 [at : {"again", "dispatch", "reply", "done"}, from : People, says : Commands]]
  /\ job \in Seq([at : {"queued", "send", "done", "failed"},
                  to : People \cup {Everyone}, by : Updates \cup {Nobody},
                  left : SUBSET People, tried : SUBSET People])
  /\ got \subseteq People /\ asked \subseteq People /\ trouble \in 0..MaxTrouble

\* No chat gets a digest that has neither registered nor had one asked for by name,
\* whatever else it writes to the bot, and whatever is delivered or run twice.
NobodyUnasked == got \subseteq asked

\* "Generating summary" (webhook.py): a /summary that was acknowledged has a job that
\* ends, having tried the chat that asked or as a failure, also if the worker dies.
SummaryIsAnswered ==
  \A u \in Updates :
    (At(u, {"done"}) /\ update[u].says = "/summary")
      ~> \E j \in DOMAIN job : /\ job[j].by = u
                           /\ \/ job[j].at = "done" /\ update[u].from \in job[j].tried
                              \/ job[j].at = "failed"
=============================================================================
