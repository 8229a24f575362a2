--------------------------- MODULE TelegramLimiter ---------------------------
(***************************************************************************)
(* The worker's rate limiter: one token bucket for the bot and one per     *)
(* chat, both acquired before a message is sent.  Time is counted in ticks *)
(* and tokens in credits, one credit per tick: for the code's global       *)
(* bucket (30 tokens, 30/s) a tick is 1/30 s, a token costs 1 credit and   *)
(* the bucket holds 30; for its chat buckets (1 token, 1/s) a token costs  *)
(* 30 credits and the bucket holds 30.  There is no clock: a bucket keeps  *)
(* the time since its last refill, as far as it can matter.                *)
(***************************************************************************)
EXTENDS Integers, Sequences, FiniteSets, SequencesExt

CONSTANTS
  Senders,   \* coroutines of running jobs that send messages
  Chats,     \* Telegram chats
  Global,    \* the bot's bucket
  NoChat,    \* a sender that is not sending has no chat
  Capacity,  \* credits each bucket holds
  Cost,      \* credits a token of each bucket costs
  Second,    \* ticks of one second
  MaxWindow  \* bound: ticks of the windows the properties look at

Buckets == Chats \cup {Global}

ASSUME BucketAssumption ==
  /\ Global \notin Chats /\ NoChat \notin Chats
  /\ Capacity \in [Buckets -> Nat] /\ Cost \in [Buckets -> Nat \ {0}]
  /\ \A b \in Buckets : Cost[b] <= Capacity[b]
ASSUME SenderAssumption == IsFiniteSet(Senders)
ASSUME TimeAssumption == Second \in Nat \ {0} /\ MaxWindow \in Nat

VARIABLES
  tokens,  \* per bucket: _tokens, in credits
  elapsed, \* per bucket: time.monotonic() - _last_refill, up to Capacity
  sleep,   \* per bucket: what is left of the lock holder's sleep
  waiting, \* per bucket: who holds (first) or waits for _lock, in order
  pc,      \* per sender: what it waits for
  chat,    \* per sender: the chat it sends to
  age,     \* history: ticks since the window the properties look at began
  grants,  \* history, per bucket: tokens granted in the window
  sends    \* history: messages sent in the window

bucketVars == <<tokens, elapsed, sleep>>
windowVars == <<age, grants, sends>>
vars == <<bucketVars, waiting, pc, chat, windowVars>>

\* __post_init__: every bucket starts full.  (A chat's bucket is made for its first
\* message; one that exists unused from the start is as full.)
Init ==
  /\ tokens = Capacity
  /\ elapsed = [b \in Buckets |-> 0] /\ sleep = [b \in Buckets |-> 0]
  /\ waiting = [b \in Buckets |-> <<>>]
  /\ pc = [s \in Senders |-> "idle"]
  /\ chat = [s \in Senders |-> NoChat]
  /\ age = 0 /\ grants = [b \in Buckets |-> 0] /\ sends = 0

\* Not a step of the code: the window may begin at any moment.
NewWindow == age' = 0 /\ grants' = [b \in Buckets |-> 0] /\ sends' = 0

OpenWindow == NewWindow /\ UNCHANGED <<bucketVars, waiting, pc, chat>>

Tick ==
  /\ elapsed' = [b \in Buckets |->
       IF elapsed[b] < Capacity[b] THEN elapsed[b] + 1 ELSE elapsed[b]]
  /\ sleep' = [b \in Buckets |-> IF sleep[b] > 0 THEN sleep[b] - 1 ELSE 0]
  /\ IF age < MaxWindow THEN age' = age + 1 /\ UNCHANGED <<grants, sends>> ELSE NewWindow
  /\ UNCHANGED <<tokens, waiting, pc, chat>>

\* limiter.acquire(chat_id): in line for the global bucket's lock.
Acquire(s, c) ==
  /\ pc[s] = "idle"
  /\ pc' = [pc EXCEPT ![s] = "global"]
  /\ chat' = [chat EXCEPT ![s] = c]
  /\ waiting' = [waiting EXCEPT ![Global] = Append(@, s)]
  /\ UNCHANGED <<bucketVars, windowVars>>

\* Mutant of Refilled: no min with the capacity.
RefilledUncapped(b) == tokens[b] + elapsed[b]

\* What the bucket holds once refilled: min(capacity, tokens + elapsed * rate).
Refilled(b) ==
  LET credits == tokens[b] + elapsed[b]
  IN IF credits < Capacity[b] THEN credits ELSE Capacity[b]

\* The holder of the lock, awake: it sleeps for what is missing ...
Sleep(b) ==
  /\ waiting[b] # <<>> /\ sleep[b] = 0
  /\ Refilled(b) < Cost[b]
  /\ tokens' = [tokens EXCEPT ![b] = Refilled(b)]
  /\ elapsed' = [elapsed EXCEPT ![b] = 0]
  /\ sleep' = [sleep EXCEPT ![b] = Cost[b] - Refilled(b)]
  /\ UNCHANGED <<waiting, pc, chat, windowVars>>

\* Mutant of Take: _last_refill is left where it was.
TakeKeepsTime(b) ==
  /\ waiting[b] # <<>> /\ sleep[b] = 0
  /\ Refilled(b) >= Cost[b]
  /\ tokens' = [tokens EXCEPT ![b] = Refilled(b) - Cost[b]]
  /\ grants' = [grants EXCEPT ![b] = @ + 1]
  /\ LET s == Head(waiting[b]) IN
       IF b = Global
         THEN /\ pc' = [pc EXCEPT ![s] = "chat"]
              /\ waiting' = [waiting EXCEPT ![b] = Tail(@), ![chat[s]] = Append(@, s)]
         ELSE /\ pc' = [pc EXCEPT ![s] = "send"]
              /\ waiting' = [waiting EXCEPT ![b] = Tail(@)]
  /\ UNCHANGED <<elapsed, sleep, chat, age, sends>>

\* ... or takes a token and releases the lock.  From the global bucket a sender goes
\* on to the bucket of its chat, from there to the request.
Take(b) ==
  /\ waiting[b] # <<>> /\ sleep[b] = 0
  /\ Refilled(b) >= Cost[b]
  /\ tokens' = [tokens EXCEPT ![b] = Refilled(b) - Cost[b]]
  /\ elapsed' = [elapsed EXCEPT ![b] = 0]
  /\ grants' = [grants EXCEPT ![b] = @ + 1]
  /\ LET s == Head(waiting[b]) IN
       IF b = Global
         THEN /\ pc' = [pc EXCEPT ![s] = "chat"]
              /\ waiting' = [waiting EXCEPT ![b] = Tail(@), ![chat[s]] = Append(@, s)]
         ELSE /\ pc' = [pc EXCEPT ![s] = "send"]
              /\ waiting' = [waiting EXCEPT ![b] = Tail(@)]
  /\ UNCHANGED <<sleep, chat, age, sends>>

\* Mutant of Send: a request that failed is made again, without new tokens.
SendAgain(s) ==
  /\ pc[s] = "send"
  /\ sends' = sends + 1
  /\ UNCHANGED <<bucketVars, waiting, pc, chat, age, grants>>

\* client.post.
Send(s) ==
  /\ pc[s] = "send"
  /\ pc' = [pc EXCEPT ![s] = "idle"]
  /\ chat' = [chat EXCEPT ![s] = NoChat]
  /\ sends' = sends + 1
  /\ UNCHANGED <<bucketVars, waiting, age, grants>>

\* Mutant of Cancel: the lock, or the place in its line, is not given up.
CancelKeepsLine(s) ==
  /\ pc[s] # "idle"
  /\ pc' = [pc EXCEPT ![s] = "idle"]
  /\ chat' = [chat EXCEPT ![s] = NoChat]
  /\ UNCHANGED <<bucketVars, waiting, windowVars>>

\* job_timeout cancels a sender wherever it waits: `async with` releases the lock, or
\* it leaves the line; a global token it has taken is spent.
Cancel(s) ==
  /\ pc[s] # "idle"
  /\ pc' = [pc EXCEPT ![s] = "idle"]
  /\ chat' = [chat EXCEPT ![s] = NoChat]
  /\ waiting' = [b \in Buckets |-> RemoveFirst(waiting[b], s)]
  /\ sleep' = [b \in Buckets |->
       IF waiting[b] # <<>> /\ Head(waiting[b]) = s THEN 0 ELSE sleep[b]]
  /\ UNCHANGED <<tokens, elapsed, windowVars>>

Next ==
  \/ Tick \/ OpenWindow
  \/ \E b \in Buckets : Sleep(b) \/ Take(b)
  \/ \E s \in Senders : Send(s) \/ Cancel(s) \/ \E c \in Chats : Acquire(s, c)

Spec == Init /\ [][Next]_vars

\* Time passes and the loop runs whoever can run.
FairSpec ==
  /\ Spec
  /\ WF_vars(Tick)
  /\ \A b \in Buckets : WF_vars(Sleep(b) \/ Take(b))
  /\ \A s \in Senders : WF_vars(Send(s))

-----------------------------------------------------------------------------
(* Properties *)

\* Every variable has its type; a bucket holds between nothing and its capacity.
TypeOK ==
  /\ tokens \in [Buckets -> Nat] /\ \A b \in Buckets : tokens[b] <= Capacity[b]
  /\ elapsed \in [Buckets -> Nat] /\ sleep \in [Buckets -> Nat]
  /\ waiting \in [Buckets -> Seq(Senders)]
  /\ pc \in [Senders -> {"idle", "global", "chat", "send"}]
  /\ chat \in [Senders -> Chats \cup {NoChat}]
  /\ age \in Nat /\ grants \in [Buckets -> Nat] /\ sends \in Nat

\* In any window a bucket grants no more than its capacity and the window's refill pay
\* for, whoever waits, sleeps, is cancelled or wakes late.
GrantsBounded ==
  \A b \in Buckets : grants[b] * Cost[b] <= Capacity[b] + age

\* In any window the bot sends no more than the global bucket grants in it, and one
\* message for each sender whose global token was granted before: a sender keeps its
\* token while it waits for its chat.
SendsBounded == sends <= grants[Global] + Cardinality(Senders)

\* The lock is never left to a sender that is gone, and a sender waits in the line of
\* the bucket it needs, once.
LinesAreSound ==
  \A b \in Buckets : \A n \in 1..Len(waiting[b]) :
    LET s == waiting[b][n] IN
      /\ pc[s] = IF b = Global THEN "global" ELSE "chat"
      /\ b # Global => chat[s] = b
      /\ \A m \in 1..Len(waiting[b]) : waiting[b][m] = s => m = n

\* Whoever waits for a bucket gets its token, unless its job is cancelled.
EverybodyIsServed ==
  \A s \in Senders : (pc[s] \in {"global", "chat"}) ~> (pc[s] \in {"send", "idle"})
=============================================================================
