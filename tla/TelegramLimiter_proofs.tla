----------------------- MODULE TelegramLimiter_proofs -----------------------
(***************************************************************************)
(* Theorems about TelegramLimiter, for every set of senders and chats,     *)
(* every capacity and cost of the buckets and every window.                *)
(***************************************************************************)
EXTENDS TelegramLimiter, SequenceTheorems, FiniteSetTheorems, TLAPS

USE BucketAssumption, SenderAssumption, TimeAssumption

-----------------------------------------------------------------------------
(* Credits are conserved: what the window has granted and what the bucket  *)
(* would hold if refilled now is paid for by the capacity and by the time. *)

CreditTypes ==
  /\ tokens \in [Buckets -> Nat] /\ \A b \in Buckets : tokens[b] <= Capacity[b]
  /\ elapsed \in [Buckets -> Nat]
  /\ grants \in [Buckets -> Nat] /\ age \in Nat

CreditInv ==
  /\ CreditTypes
  /\ \A b \in Buckets : grants[b] * Cost[b] + Refilled(b) <= Capacity[b] + age

LEMMA OneMoreGrant ==
  ASSUME NEW g \in Nat, NEW c \in Nat
  PROVE  (g + 1) * c = g * c + c /\ g * c \in Nat /\ 0 * c = 0
OBVIOUS

LEMMA RefilledType ==
  ASSUME CreditTypes, NEW b \in Buckets
  PROVE  Refilled(b) \in 0..Capacity[b]
BY DEF CreditTypes, Refilled

LEMMA CreditInit == Init => CreditInv
<1> SUFFICES ASSUME Init PROVE CreditInv
  OBVIOUS
<1>1. CreditTypes
  BY DEF Init, CreditTypes
<1>2. ASSUME NEW b \in Buckets
      PROVE  grants[b] * Cost[b] + Refilled(b) <= Capacity[b] + age
  <2>1. grants[b] = 0 /\ age = 0
    BY DEF Init
  <2>2. grants[b] * Cost[b] = 0
    BY <2>1, OneMoreGrant
  <2>3. QED
    BY <1>1, <2>1, <2>2, RefilledType
<1>3. QED
  BY <1>1, <1>2 DEF CreditInv

\* A window that opens now has granted nothing yet.
LEMMA WindowOpens ==
  ASSUME NewWindow, CreditTypes'
  PROVE  CreditInv'
<1>1. ASSUME NEW b \in Buckets
      PROVE  (grants[b] * Cost[b] + Refilled(b) <= Capacity[b] + age)'
  <2>1. grants'[b] = 0 /\ age' = 0
    BY DEF NewWindow
  <2>2. grants'[b] * Cost[b] = 0
    BY <2>1, OneMoreGrant
  <2>3. Refilled(b)' \in 0..Capacity[b]
    BY DEF CreditTypes, Refilled
  <2>4. QED
    BY <2>1, <2>2, <2>3
<1>2. QED
  BY <1>1 DEF CreditInv

LEMMA CreditNext == CreditInv /\ [Next]_vars => CreditInv'
<1> SUFFICES ASSUME CreditInv, [Next]_vars PROVE CreditInv'
  OBVIOUS
<1>1. /\ CreditTypes
      /\ \A b \in Buckets : grants[b] * Cost[b] + Refilled(b) <= Capacity[b] + age
      /\ \A b \in Buckets : Refilled(b) \in 0..Capacity[b] /\ grants[b] * Cost[b] \in Nat
  BY RefilledType, OneMoreGrant DEF CreditInv, CreditTypes
<1>2. ASSUME UNCHANGED <<tokens, elapsed, grants, age>> PROVE CreditInv'
  BY <1>1, <1>2 DEF CreditInv, CreditTypes, Refilled
<1>3. CASE UNCHANGED vars
  BY <1>2, <1>3 DEF vars, bucketVars, windowVars
<1>4. CASE Tick
  <2>1. CreditTypes'
    <3>1. elapsed' \in [Buckets -> Nat]
      BY <1>1, <1>4 DEF Tick, CreditTypes
    <3>2. age' \in Nat /\ grants' \in [Buckets -> Nat]
      BY <1>1, <1>4 DEF Tick, NewWindow, CreditTypes
    <3>3. QED
      BY <1>1, <1>4, <3>1, <3>2 DEF Tick, CreditTypes
  <2>2. CASE age < MaxWindow
    <3>1. age' = age + 1 /\ grants' = grants
      BY <1>4, <2>2 DEF Tick
    <3>2. ASSUME NEW b \in Buckets PROVE Refilled(b)' <= Refilled(b) + 1
      <4>1. elapsed'[b] <= elapsed[b] + 1 /\ elapsed'[b] \in Nat /\ tokens' = tokens
        BY <1>1, <1>4 DEF Tick, CreditTypes
      <4>2. QED
        BY <1>1, <4>1 DEF Refilled, CreditTypes
    <3>3. \A b \in Buckets : Refilled(b)' \in Nat
      BY <2>1 DEF CreditTypes, Refilled
    <3>4. ASSUME NEW b \in Buckets
          PROVE  (grants[b] * Cost[b] + Refilled(b) <= Capacity[b] + age)'
      BY <1>1, <3>1, <3>2, <3>3 DEF CreditTypes
    <3>5. QED
      BY <2>1, <3>4 DEF CreditInv
  <2>3. CASE ~(age < MaxWindow)
    BY <1>4, <2>1, <2>3, WindowOpens DEF Tick
  <2>4. QED
    BY <2>2, <2>3
<1>5. CASE OpenWindow
  <2>1. CreditTypes'
    BY <1>1, <1>5 DEF OpenWindow, NewWindow, bucketVars, CreditTypes
  <2>2. QED
    BY <1>5, <2>1, WindowOpens DEF OpenWindow
<1>6. ASSUME NEW b \in Buckets, Sleep(b) PROVE CreditInv'
  <2>1. /\ tokens' = [tokens EXCEPT ![b] = Refilled(b)]
        /\ elapsed' = [elapsed EXCEPT ![b] = 0]
        /\ grants' = grants /\ age' = age
    BY <1>6 DEF Sleep, windowVars
  <2>2. CreditTypes'
    BY <1>1, <2>1 DEF CreditTypes
  <2>3. \A d \in Buckets : Refilled(d)' = Refilled(d)
    BY <1>1, <2>1 DEF CreditTypes, Refilled
  <2>4. QED
    BY <1>1, <2>1, <2>2, <2>3 DEF CreditInv
<1>7. ASSUME NEW b \in Buckets, Take(b) PROVE CreditInv'
  <2>1. /\ tokens' = [tokens EXCEPT ![b] = Refilled(b) - Cost[b]]
        /\ elapsed' = [elapsed EXCEPT ![b] = 0]
        /\ grants' = [grants EXCEPT ![b] = @ + 1]
        /\ age' = age /\ Refilled(b) >= Cost[b]
    BY <1>7 DEF Take
  <2>2. Refilled(b) - Cost[b] \in 0..Capacity[b]
    BY <1>1, <2>1
  <2>3. CreditTypes'
    BY <1>1, <2>1, <2>2 DEF CreditTypes
  <2>4. Refilled(b)' = Refilled(b) - Cost[b]
    BY <1>1, <2>1, <2>2 DEF CreditTypes, Refilled
  <2>5. grants'[b] * Cost[b] = grants[b] * Cost[b] + Cost[b]
    BY <1>1, <2>1, OneMoreGrant DEF CreditTypes
  <2>6. (grants[b] * Cost[b] + Refilled(b) <= Capacity[b] + age)'
    BY <1>1, <2>1, <2>4, <2>5
  <2>7. ASSUME NEW d \in Buckets, d # b
        PROVE  (grants[d] * Cost[d] + Refilled(d) <= Capacity[d] + age)'
    <3>1. grants'[d] = grants[d] /\ Refilled(d)' = Refilled(d)
      BY <1>1, <2>1, <2>7 DEF CreditTypes, Refilled
    <3>2. QED
      BY <1>1, <2>1, <3>1
  <2>8. QED
    BY <2>3, <2>6, <2>7 DEF CreditInv
<1>8. ASSUME NEW s \in Senders, Send(s) \/ Cancel(s) \/ \E c \in Chats : Acquire(s, c)
      PROVE  CreditInv'
  BY <1>2, <1>8 DEF Send, Cancel, Acquire, bucketVars, windowVars
<1>9. QED
  BY <1>3, <1>4, <1>5, <1>6, <1>7, <1>8 DEF Next

\* In any window a bucket grants at most what its capacity and the window's refill pay
\* for (rate_limit.py:30-44): for the bot 30 + 30 t tokens in t seconds.
THEOREM BucketsAreBounded == Spec => []GrantsBounded
<1>1. CreditInv => GrantsBounded
  <2> SUFFICES ASSUME CreditInv, NEW b \in Buckets
               PROVE  grants[b] * Cost[b] <= Capacity[b] + age
    BY DEF GrantsBounded
  <2>1. Refilled(b) \in Nat /\ grants[b] * Cost[b] \in Nat
    BY RefilledType, OneMoreGrant DEF CreditInv, CreditTypes
  <2>2. age \in Nat
    BY DEF CreditInv, CreditTypes
  <2>3. QED
    BY <2>1, <2>2 DEF CreditInv
<1>2. QED
  BY <1>1, CreditInit, CreditNext, PTL DEF Spec

-----------------------------------------------------------------------------
(* The lines: who waits, and where. *)

\* No two places of a line hold the same sender.
Distinct(q) == \A m, n \in 1..Len(q) : q[m] = q[n] => m = n

\* Without its first e, a line of distinct elements keeps all the others, in order.
LEMMA RemoveFirstFacts ==
  ASSUME NEW S, NEW q \in Seq(S), NEW e, Distinct(q)
  PROVE  /\ RemoveFirst(q, e) \in Seq(S)
         /\ Distinct(RemoveFirst(q, e))
         /\ ToSet(RemoveFirst(q, e)) \subseteq ToSet(q) \ {e}
<1>1. CASE ~\E i \in 1..Len(q) : q[i] = e
  <2>1. RemoveFirst(q, e) = q
    BY <1>1 DEF RemoveFirst
  <2>2. QED
    BY <1>1, <2>1 DEF ToSet
<1>2. ASSUME NEW i \in 1..Len(q), q[i] = e
      PROVE  RemoveFirst(q, e) = SubSeq(q, 1, i - 1) \o SubSeq(q, i + 1, Len(q))
  <2>1. {j \in 1..Len(q) : q[j] = e} = {i}
    BY <1>2 DEF Distinct
  <2>2. Min({i}) = i
    BY DEF Min
  <2>3. SelectInSeq(q, LAMBDA v : v = e) = i
    BY <2>1, <2>2 DEF SelectInSeq
  <2>4. QED
    BY <1>2, <2>3 DEF RemoveFirst, RemoveAt
<1>3. ASSUME NEW i \in 1..Len(q), q[i] = e
      PROVE  LET r == SubSeq(q, 1, i - 1) \o SubSeq(q, i + 1, Len(q))
             IN  /\ r \in Seq(S) /\ Len(r) = Len(q) - 1
                 /\ \A n \in 1..Len(r) : r[n] = IF n < i THEN q[n] ELSE q[n + 1]
  <2> DEFINE u == SubSeq(q, 1, i - 1)
             v == SubSeq(q, i + 1, Len(q))
  <2>1. u \in Seq(S) /\ Len(u) = i - 1 /\ \A n \in 1..(i - 1) : u[n] = q[n]
    BY <1>3
  <2>2. /\ v \in Seq(S) /\ Len(v) = Len(q) - i
        /\ \A n \in 1..(Len(q) - i) : v[n] = q[n + i]
    BY <1>3
  <2> HIDE DEF u, v
  <2>3. /\ u \o v \in Seq(S) /\ Len(u \o v) = Len(u) + Len(v)
        /\ \A n \in 1..(Len(u) + Len(v)) :
             (u \o v)[n] = IF n <= Len(u) THEN u[n] ELSE v[n - Len(u)]
    <3>1. u \in Seq(S) /\ v \in Seq(S)
      BY <2>1, <2>2
    <3>2. QED
      BY <3>1, ConcatProperties
  <2>4. ASSUME NEW n \in 1..(Len(q) - 1)
        PROVE  (u \o v)[n] = IF n < i THEN q[n] ELSE q[n + 1]
    <3>1. CASE n < i
      BY <1>3, <2>1, <2>2, <2>3, <3>1
    <3>2. CASE ~(n < i)
      <4>1. n - (i - 1) \in 1..(Len(q) - i) /\ (n - (i - 1)) + i = n + 1
        BY <1>3, <3>2
      <4>2. v[n - (i - 1)] = q[n + 1]
        BY <2>2, <4>1
      <4>3. QED
        BY <1>3, <2>1, <2>2, <2>3, <3>2, <4>2
    <3>3. QED
      BY <3>1, <3>2
  <2>5. Len(u) + Len(v) = Len(q) - 1
    BY <1>3, <2>1, <2>2
  <2>6. QED
    BY <2>3, <2>4, <2>5 DEF u, v
<1>4. ASSUME NEW i \in 1..Len(q), q[i] = e
      PROVE  /\ RemoveFirst(q, e) \in Seq(S)
             /\ Distinct(RemoveFirst(q, e))
             /\ ToSet(RemoveFirst(q, e)) \subseteq ToSet(q) \ {e}
  <2> DEFINE r == RemoveFirst(q, e)
  <2>1. /\ r \in Seq(S) /\ Len(r) = Len(q) - 1
        /\ \A n \in 1..Len(r) : r[n] = IF n < i THEN q[n] ELSE q[n + 1]
    BY <1>2, <1>3, <1>4
  <2> HIDE DEF r
  <2>2. \A n \in 1..Len(r) : \E m \in 1..Len(q) : m # i /\ r[n] = q[m]
    <3> SUFFICES ASSUME NEW n \in 1..Len(r)
                 PROVE  \E m \in 1..Len(q) : m # i /\ r[n] = q[m]
      OBVIOUS
    <3>1. CASE n < i
      <4>1. n \in 1..Len(q) /\ n # i /\ r[n] = q[n]
        BY <1>4, <2>1, <3>1
      <4>2. QED
        BY <4>1
    <3>2. CASE ~(n < i)
      <4>1. n + 1 \in 1..Len(q) /\ n + 1 # i /\ r[n] = q[n + 1]
        BY <1>4, <2>1, <3>2
      <4>2. QED
        BY <4>1
    <3>3. QED
      BY <3>1, <3>2
  <2>3. Distinct(r)
    <3> SUFFICES ASSUME NEW m \in 1..Len(r), NEW n \in 1..Len(r), r[m] = r[n] PROVE m = n
      BY DEF Distinct
    <3> DEFINE at(k) == IF k < i THEN k ELSE k + 1
    <3>1. at(m) \in 1..Len(q) /\ at(n) \in 1..Len(q) /\ r[m] = q[at(m)] /\ r[n] = q[at(n)]
      BY <1>4, <2>1
    <3>2. at(m) = at(n)
      BY <3>1 DEF Distinct
    <3>3. QED
      BY <1>4, <3>2
  <2>4. \A n \in 1..Len(r) : r[n] \in ToSet(q) \ {e}
    BY <1>4, <2>2 DEF Distinct, ToSet
  <2>5. QED
    BY <2>1, <2>3, <2>4 DEF r, ToSet
<1>5. QED
  BY <1>1, <1>4

LEMMA AppendFacts ==
  ASSUME NEW S, NEW q \in Seq(S), NEW e \in S, Distinct(q), e \notin ToSet(q)
  PROVE  /\ Append(q, e) \in Seq(S)
         /\ Distinct(Append(q, e))
         /\ ToSet(Append(q, e)) \subseteq ToSet(q) \cup {e}
<1> DEFINE r == Append(q, e)
<1>1. /\ r \in Seq(S) /\ Len(r) = Len(q) + 1
      /\ \A n \in 1..Len(q) : r[n] = q[n]
      /\ r[Len(q) + 1] = e
  OBVIOUS
<1> HIDE DEF r
<1>2. Distinct(r)
  BY <1>1 DEF Distinct, ToSet
<1>3. \A n \in 1..Len(r) : r[n] \in ToSet(q) \cup {e}
  BY <1>1 DEF ToSet
<1>4. ToSet(r) \subseteq ToSet(q) \cup {e}
  BY <1>1, <1>3 DEF ToSet
<1>5. QED
  BY <1>1, <1>2, <1>4 DEF r

LEMMA TailFacts ==
  ASSUME NEW S, NEW q \in Seq(S), Distinct(q), q # <<>>
  PROVE  /\ Head(q) \in S /\ Head(q) \in ToSet(q)
         /\ Tail(q) \in Seq(S)
         /\ Distinct(Tail(q))
         /\ ToSet(Tail(q)) \subseteq ToSet(q) \ {Head(q)}
<1> DEFINE r == Tail(q)
<1>1. /\ r \in Seq(S) /\ Len(r) = Len(q) - 1
      /\ \A n \in 1..Len(r) : r[n] = q[n + 1]
      /\ Head(q) = q[1] /\ 1 \in 1..Len(q)
  OBVIOUS
<1> HIDE DEF r
<1>2. Distinct(r)
  BY <1>1 DEF Distinct
<1>3. ASSUME NEW n \in 1..Len(r) PROVE r[n] \in ToSet(q) \ {q[1]}
  <2>1. n + 1 \in 1..Len(q) /\ r[n] = q[n + 1] /\ n + 1 # 1
    BY <1>1
  <2>2. q[n + 1] # q[1]
    BY <1>1, <2>1 DEF Distinct
  <2>3. q[n + 1] \in ToSet(q)
    BY <2>1 DEF ToSet
  <2>4. QED
    BY <2>1, <2>2, <2>3
<1>4. Head(q) \in S /\ Head(q) \in ToSet(q)
  BY <1>1 DEF ToSet
<1>5. ToSet(r) \subseteq ToSet(q) \ {Head(q)}
  BY <1>1, <1>3 DEF ToSet
<1>6. QED
  BY <1>1, <1>2, <1>4, <1>5 DEF r

LineTypes ==
  /\ waiting \in [Buckets -> Seq(Senders)]
  /\ pc \in [Senders -> {"idle", "global", "chat", "send"}]
  /\ chat \in [Senders -> Chats \cup {NoChat}]

\* A sender is in the line its pc and its chat name, and in no other.
LineInv ==
  /\ LineTypes
  /\ \A s \in Senders : pc[s] # "idle" => chat[s] \in Chats
  /\ \A b \in Buckets : Distinct(waiting[b])
  /\ \A s \in ToSet(waiting[Global]) : pc[s] = "global"
  /\ \A c \in Chats : \A s \in ToSet(waiting[c]) : pc[s] = "chat" /\ chat[s] = c

LEMMA MembersAreSenders ==
  ASSUME LineTypes, NEW b \in Buckets, NEW s \in ToSet(waiting[b])
  PROVE  s \in Senders
BY DEF LineTypes, ToSet

LEMMA LineInit == Init => LineInv
BY DEF Init, LineInv, LineTypes, Buckets, Distinct, ToSet

LEMMA LineNext == LineInv /\ [Next]_vars => LineInv'
<1> SUFFICES ASSUME LineInv, [Next]_vars PROVE LineInv'
  OBVIOUS
<1> USE DEF LineTypes, Buckets
<1>1. LineTypes
  BY DEF LineInv
<1>2. ASSUME UNCHANGED <<waiting, pc, chat>> PROVE LineInv'
  BY <1>2 DEF LineInv
<1>3. CASE UNCHANGED vars
  BY <1>2, <1>3 DEF vars
<1>4. CASE Tick \/ OpenWindow
  BY <1>2, <1>4 DEF Tick, OpenWindow
<1>5. ASSUME NEW b \in Buckets, Sleep(b) PROVE LineInv'
  BY <1>2, <1>5 DEF Sleep
<1>6. ASSUME NEW s \in Senders, NEW c \in Chats, Acquire(s, c) PROVE LineInv'
  <2>1. /\ pc[s] = "idle" /\ pc' = [pc EXCEPT ![s] = "global"]
        /\ chat' = [chat EXCEPT ![s] = c]
        /\ waiting' = [waiting EXCEPT ![Global] = Append(waiting[Global], s)]
    BY <1>6 DEF Acquire
  <2>2. \A b \in Buckets : s \notin ToSet(waiting[b])
    BY <2>1 DEF LineInv
  <2>3. /\ Append(waiting[Global], s) \in Seq(Senders)
        /\ Distinct(Append(waiting[Global], s))
        /\ ToSet(Append(waiting[Global], s)) \subseteq ToSet(waiting[Global]) \cup {s}
    BY <1>1, <2>2, AppendFacts DEF LineInv
  <2>4. LineTypes'
    BY <1>1, <2>1, <2>3
  <2>5. /\ waiting'[Global] = Append(waiting[Global], s)
        /\ \A d \in Chats : waiting'[d] = waiting[d]
    BY <1>1, <2>1, BucketAssumption
  <2>6. \A b \in Buckets : Distinct(waiting'[b])
    BY <2>3, <2>5 DEF LineInv
  <2>7. \A t \in ToSet(waiting'[Global]) : pc'[t] = "global"
    BY <1>1, <2>1, <2>3, <2>5, MembersAreSenders DEF LineInv
  <2>8. \A d \in Chats : \A t \in ToSet(waiting'[d]) : pc'[t] = "chat" /\ chat'[t] = d
    BY <1>1, <2>1, <2>2, <2>5, MembersAreSenders DEF LineInv
  <2>9. \A t \in Senders : pc'[t] # "idle" => chat'[t] \in Chats
    BY <1>1, <2>1 DEF LineInv
  <2>10. QED
    BY <2>4, <2>6, <2>7, <2>8, <2>9 DEF LineInv
<1>7. ASSUME NEW b \in Buckets, Take(b) PROVE LineInv'
  <2> DEFINE s == Head(waiting[b])
  <2>1. /\ waiting[b] \in Seq(Senders) /\ Distinct(waiting[b]) /\ waiting[b] # <<>>
        /\ chat' = chat
    BY <1>1, <1>7 DEF Take, LineInv
  <2>2. /\ s \in Senders /\ s \in ToSet(waiting[b])
        /\ Tail(waiting[b]) \in Seq(Senders)
        /\ Distinct(Tail(waiting[b]))
        /\ ToSet(Tail(waiting[b])) \subseteq ToSet(waiting[b]) \ {s}
    BY <2>1, TailFacts
  <2> HIDE DEF s
  <2>3. CASE b = Global
    <3> DEFINE c == chat[s]
               q == Append(waiting[c], s)
    <3>1. pc[s] = "global" /\ c \in Chats
      BY <2>2, <2>3 DEF LineInv
    <3>2. /\ pc' = [pc EXCEPT ![s] = "chat"]
          /\ waiting' = [waiting EXCEPT ![b] = Tail(waiting[b]), ![c] = q]
      BY <1>1, <1>7, <2>3, <3>1, BucketAssumption DEF Take, s
    <3>3. \A d \in Chats : s \notin ToSet(waiting[d])
      BY <3>1 DEF LineInv
    <3>4. q \in Seq(Senders) /\ Distinct(q) /\ ToSet(q) \subseteq ToSet(waiting[c]) \cup {s}
      BY <1>1, <2>2, <3>1, <3>3, AppendFacts DEF LineInv
    <3>5. /\ waiting'[Global] = Tail(waiting[Global])
          /\ waiting'[c] = q
          /\ \A d \in Chats \ {c} : waiting'[d] = waiting[d]
      BY <1>1, <2>3, <3>1, <3>2, BucketAssumption
    <3>6. LineTypes'
      BY <1>1, <2>1, <2>2, <3>2, <3>4
    <3>7. \A d \in Buckets : Distinct(waiting'[d])
      <4>1. Distinct(waiting'[Global]) /\ Distinct(waiting'[c])
        BY <2>2, <2>3, <3>4, <3>5
      <4>2. \A d \in Chats \ {c} : Distinct(waiting'[d])
        BY <3>5 DEF LineInv
      <4>3. QED
        BY <4>1, <4>2
    <3>8. \A t \in ToSet(waiting'[Global]) : pc'[t] = "global"
      BY <1>1, <2>2, <2>3, <3>2, <3>5, MembersAreSenders DEF LineInv
    <3>9. \A d \in Chats : \A t \in ToSet(waiting'[d]) : pc'[t] = "chat" /\ chat'[t] = d
      <4>1. ASSUME NEW t \in ToSet(waiting'[c]) PROVE pc'[t] = "chat" /\ chat'[t] = c
        BY <1>1, <2>1, <2>2, <3>1, <3>2, <3>4, <3>5, <4>1, MembersAreSenders DEF LineInv
      <4>2. ASSUME NEW d \in Chats \ {c}, NEW t \in ToSet(waiting'[d])
            PROVE  pc'[t] = "chat" /\ chat'[t] = d
        BY <1>1, <2>1, <3>2, <3>3, <3>5, <4>2, MembersAreSenders DEF LineInv
      <4>3. QED
        BY <4>1, <4>2
    <3>10. \A t \in Senders : pc'[t] # "idle" => chat'[t] \in Chats
      BY <1>1, <2>1, <3>1, <3>2 DEF LineInv
    <3>11. QED
      BY <3>6, <3>7, <3>8, <3>9, <3>10 DEF LineInv
  <2>4. CASE b # Global
    <3>1. b \in Chats /\ pc[s] = "chat" /\ chat[s] = b
      BY <2>2, <2>4 DEF LineInv
    <3>2. /\ pc' = [pc EXCEPT ![s] = "send"]
          /\ waiting' = [waiting EXCEPT ![b] = Tail(waiting[b])]
      BY <1>7, <2>4 DEF Take, s
    <3>3. LineTypes'
      BY <1>1, <2>1, <2>2, <3>2
    <3>4. \A d \in Buckets : s \notin ToSet(waiting'[d]) /\ Distinct(waiting'[d])
                            /\ ToSet(waiting'[d]) \subseteq ToSet(waiting[d])
      <4>1. ASSUME NEW d \in Buckets, d # b PROVE s \notin ToSet(waiting[d])
        BY <3>1, <4>1 DEF LineInv
      <4>2. QED
        BY <1>1, <2>2, <3>2, <4>1 DEF LineInv
    <3>5. \A t \in Senders \ {s} : pc'[t] = pc[t]
      BY <1>1, <3>2
    <3>6. ASSUME NEW d \in Buckets, NEW t \in ToSet(waiting'[d])
          PROVE  t \in ToSet(waiting[d]) /\ pc'[t] = pc[t] /\ chat'[t] = chat[t]
      <4>1. t \in ToSet(waiting[d]) /\ t # s
        BY <3>4
      <4>2. t \in Senders
        BY <1>1, <4>1, MembersAreSenders
      <4>3. QED
        BY <2>1, <3>5, <4>1, <4>2
    <3>7. /\ \A t \in ToSet(waiting'[Global]) : pc'[t] = "global"
          /\ \A d \in Chats : \A t \in ToSet(waiting'[d]) : pc'[t] = "chat" /\ chat'[t] = d
      BY <3>6 DEF LineInv
    <3>8. \A t \in Senders : pc'[t] # "idle" => chat'[t] \in Chats
      BY <1>1, <2>1, <3>1, <3>5 DEF LineInv
    <3>9. QED
      BY <3>3, <3>4, <3>7, <3>8 DEF LineInv
  <2>5. QED
    BY <2>3, <2>4
<1>8. ASSUME NEW s \in Senders, Send(s) PROVE LineInv'
  <2>1. /\ pc[s] = "send" /\ pc' = [pc EXCEPT ![s] = "idle"]
        /\ chat' = [chat EXCEPT ![s] = NoChat] /\ waiting' = waiting
    BY <1>8 DEF Send
  <2>2. \A b \in Buckets : s \notin ToSet(waiting[b])
    BY <2>1 DEF LineInv
  <2>3. \A t \in Senders \ {s} : pc'[t] = pc[t] /\ chat'[t] = chat[t]
    BY <1>1, <2>1
  <2>4. QED
    BY <1>1, <2>1, <2>2, <2>3, MembersAreSenders DEF LineInv
<1>9. ASSUME NEW s \in Senders, Cancel(s) PROVE LineInv'
  <2>1. /\ pc' = [pc EXCEPT ![s] = "idle"]
        /\ chat' = [chat EXCEPT ![s] = NoChat]
        /\ \A b \in Buckets : waiting'[b] = RemoveFirst(waiting[b], s)
        /\ waiting' = [b \in Buckets |-> RemoveFirst(waiting[b], s)]
    BY <1>9 DEF Cancel
  <2>2. \A b \in Buckets : /\ waiting'[b] \in Seq(Senders) /\ Distinct(waiting'[b])
                          /\ ToSet(waiting'[b]) \subseteq ToSet(waiting[b]) \ {s}
    BY <1>1, <2>1, RemoveFirstFacts DEF LineInv
  <2>3. LineTypes'
    BY <1>1, <2>1, <2>2
  <2>4. \A t \in Senders \ {s} : pc'[t] = pc[t] /\ chat'[t] = chat[t]
    BY <1>1, <2>1
  <2>5. \A t \in Senders : pc'[t] # "idle" => chat'[t] \in Chats
    BY <1>1, <2>1, <2>4 DEF LineInv
  <2>6. \A t \in ToSet(waiting'[Global]) : pc'[t] = "global"
    BY <1>1, <2>2, <2>4, MembersAreSenders DEF LineInv
  <2>7. \A d \in Chats : \A t \in ToSet(waiting'[d]) : pc'[t] = "chat" /\ chat'[t] = d
    BY <1>1, <2>2, <2>4, MembersAreSenders DEF LineInv
  <2>8. QED
    BY <2>2, <2>3, <2>5, <2>6, <2>7 DEF LineInv
<1>10. QED
  BY <1>3, <1>4, <1>5, <1>6, <1>7, <1>8, <1>9 DEF Next

LEMMA LinesAlways == Spec => []LineInv
BY LineInit, LineNext, PTL DEF Spec

LEMMA CreditsAlways == Spec => []CreditInv
BY CreditInit, CreditNext, PTL DEF Spec

\* The lock is never left to a sender that was cancelled or went on, and a sender waits
\* once, in the line of the bucket it needs (rate_limit.py:30-44, 58-61).
THEOREM LocksAreHeldByTheLiving == Spec => []LinesAreSound
<1>1. LineInv => LinesAreSound
  <2> SUFFICES ASSUME LineInv, NEW b \in Buckets, NEW n \in 1..Len(waiting[b])
               PROVE  /\ pc[waiting[b][n]] = IF b = Global THEN "global" ELSE "chat"
                      /\ b # Global => chat[waiting[b][n]] = b
                      /\ \A m \in 1..Len(waiting[b]) : waiting[b][m] = waiting[b][n] => m = n
    BY DEF LinesAreSound
  <2>1. waiting[b][n] \in ToSet(waiting[b])
    BY DEF LineInv, LineTypes, ToSet
  <2>2. /\ pc[waiting[b][n]] = IF b = Global THEN "global" ELSE "chat"
        /\ b # Global => chat[waiting[b][n]] = b
    BY <2>1 DEF LineInv, Buckets
  <2>3. QED
    BY <2>2 DEF LineInv, Distinct
<1>2. QED
  BY <1>1, LinesAlways, PTL

-----------------------------------------------------------------------------
(* The messages: whoever has passed the global bucket and has not sent yet holds one *)
(* of its tokens, and nobody holds two.                                              *)

Holding == {s \in Senders : pc[s] \in {"chat", "send"}}

SendInv ==
  /\ sends \in Nat /\ sleep \in [Buckets -> Nat]
  /\ sends + Cardinality(Holding) <= grants[Global] + Cardinality(Senders)

LEMMA HoldingIsFinite ==
  /\ IsFiniteSet(Holding) /\ Cardinality(Holding) \in Nat
  /\ Cardinality(Senders) \in Nat /\ Cardinality(Holding) <= Cardinality(Senders)
BY SenderAssumption, FS_Subset, FS_CardinalityType DEF Holding

LEMMA SendInit == Init => SendInv
<1> SUFFICES ASSUME Init PROVE SendInv
  OBVIOUS
<1>1. grants[Global] = 0 /\ sends = 0 /\ sleep \in [Buckets -> Nat]
  BY DEF Init, Buckets
<1>2. QED
  BY <1>1, HoldingIsFinite DEF SendInv

LEMMA SendNext == SendInv /\ LineInv /\ CreditInv /\ CreditInv' /\ [Next]_vars => SendInv'
<1> SUFFICES ASSUME SendInv, LineInv, CreditInv, CreditInv', [Next]_vars PROVE SendInv'
  OBVIOUS
<1>1. /\ sends \in Nat /\ sleep \in [Buckets -> Nat]
      /\ grants \in [Buckets -> Nat] /\ grants' \in [Buckets -> Nat] /\ Global \in Buckets
      /\ pc \in [Senders -> {"idle", "global", "chat", "send"}]
  BY DEF SendInv, CreditInv, CreditTypes, LineInv, LineTypes, Buckets
<1>2. /\ IsFiniteSet(Holding) /\ Cardinality(Holding) \in Nat
      /\ IsFiniteSet(Holding') /\ Cardinality(Holding') \in Nat
      /\ Cardinality(Senders) \in Nat /\ Cardinality(Holding') <= Cardinality(Senders)
  <2>1. Holding' \subseteq Senders
    BY DEF Holding
  <2>2. QED
    BY <2>1, HoldingIsFinite, SenderAssumption, FS_Subset, FS_CardinalityType
<1>3. ASSUME sends' = sends, grants'[Global] >= grants[Global], sleep' \in [Buckets -> Nat],
             Cardinality(Holding') <= Cardinality(Holding)
      PROVE  SendInv'
  BY <1>1, <1>2, <1>3 DEF SendInv
<1>4. ASSUME NewWindow, sleep' \in [Buckets -> Nat] PROVE SendInv'
  BY <1>1, <1>2, <1>4 DEF NewWindow, SendInv
<1>5. CASE UNCHANGED vars
  BY <1>1, <1>3, <1>5 DEF vars, bucketVars, windowVars, Holding, SendInv
<1>6. CASE Tick
  <2>1. sleep' \in [Buckets -> Nat] /\ pc' = pc
    BY <1>1, <1>6 DEF Tick
  <2>2. CASE age < MaxWindow
    <3>1. sends' = sends /\ grants' = grants
      BY <1>6, <2>2 DEF Tick
    <3>2. QED
      BY <1>1, <1>2, <2>1, <3>1 DEF SendInv, Holding
  <2>3. CASE ~(age < MaxWindow)
    BY <1>4, <1>6, <2>1, <2>3 DEF Tick
  <2>4. QED
    BY <2>2, <2>3
<1>7. CASE OpenWindow
  BY <1>1, <1>4, <1>7 DEF OpenWindow, bucketVars
<1>8. ASSUME NEW b \in Buckets, Sleep(b) PROVE SendInv'
  <2>1. Refilled(b) \in 0..Capacity[b]
    BY RefilledType DEF CreditInv
  <2>2. sleep' \in [Buckets -> Nat]
    BY <1>1, <1>8, <2>1, BucketAssumption DEF Sleep
  <2>3. pc' = pc /\ sends' = sends /\ grants' = grants
    BY <1>8 DEF Sleep, windowVars
  <2>4. QED
    BY <1>1, <1>2, <2>2, <2>3 DEF SendInv, Holding
<1>9. ASSUME NEW b \in Buckets, Take(b) PROVE SendInv'
  <2> DEFINE s == Head(waiting[b])
  <2>1. s \in Senders /\ s \in ToSet(waiting[b])
    BY <1>9, TailFacts DEF Take, LineInv, LineTypes
  <2> HIDE DEF s
  <2>2. sends' = sends /\ sleep' = sleep /\ grants' = [grants EXCEPT ![b] = grants[b] + 1]
    BY <1>9 DEF Take
  <2>3. CASE b = Global
    <3>1. pc' = [pc EXCEPT ![s] = "chat"]
      BY <1>9, <2>3 DEF Take, s
    <3>2. Holding' = Holding \cup {s}
      BY <1>1, <2>1, <3>1 DEF Holding
    <3>3. Cardinality(Holding') <= Cardinality(Holding) + 1
      BY <1>2, <3>2, FS_AddElement
    <3>4. grants'[Global] = grants[Global] + 1
      BY <1>1, <2>2, <2>3
    <3>5. QED
      BY <1>1, <1>2, <2>2, <3>3, <3>4 DEF SendInv
  <2>4. CASE b # Global
    <3>1. pc[s] = "chat" /\ pc' = [pc EXCEPT ![s] = "send"]
      BY <1>9, <2>1, <2>4 DEF Take, s, LineInv, Buckets
    <3>2. Holding' = Holding
      BY <1>1, <2>1, <3>1 DEF Holding
    <3>3. grants'[Global] = grants[Global]
      BY <1>1, <2>2, <2>4
    <3>4. QED
      BY <1>1, <1>2, <2>2, <3>2, <3>3 DEF SendInv
  <2>5. QED
    BY <2>3, <2>4
<1>10. ASSUME NEW s \in Senders, Send(s) PROVE SendInv'
  <2>1. /\ pc[s] = "send" /\ pc' = [pc EXCEPT ![s] = "idle"]
        /\ sends' = sends + 1 /\ sleep' = sleep /\ grants' = grants
    BY <1>10 DEF Send, bucketVars
  <2>2. s \in Holding /\ Holding' = Holding \ {s}
    BY <1>1, <2>1 DEF Holding
  <2>3. Cardinality(Holding') = Cardinality(Holding) - 1
    BY <1>2, <2>2, FS_RemoveElement
  <2>4. QED
    BY <1>1, <1>2, <2>1, <2>3 DEF SendInv
<1>11. ASSUME NEW s \in Senders, Cancel(s) \/ \E c \in Chats : Acquire(s, c) PROVE SendInv'
  <2>1. sends' = sends /\ grants' = grants /\ sleep' \in [Buckets -> Nat]
    BY <1>1, <1>11 DEF Cancel, Acquire, windowVars, bucketVars
  <2>2. Holding' \subseteq Holding
    BY <1>1, <1>11 DEF Cancel, Acquire, Holding
  <2>3. Cardinality(Holding') <= Cardinality(Holding)
    BY <1>2, <2>2, FS_Subset
  <2>4. QED
    BY <1>1, <1>2, <2>1, <2>3 DEF SendInv
<1>12. QED
  BY <1>5, <1>6, <1>7, <1>8, <1>9, <1>10, <1>11 DEF Next

LEMMA LimiterAlways == Spec => [](SendInv /\ LineInv /\ CreditInv)
BY SendInit, SendNext, LinesAlways, CreditsAlways, PTL DEF Spec

\* Every reachable state is well-typed, and no bucket holds more than its capacity.
THEOREM TypeCorrect == Spec => []TypeOK
<1>1. SendInv /\ LineInv /\ CreditInv => TypeOK
  BY DEF SendInv, LineInv, LineTypes, CreditInv, CreditTypes, TypeOK
<1>2. QED
  BY <1>1, LimiterAlways, PTL

\* What the limiter does guarantee of the bot's messages, in any window: the tokens the
\* global bucket granted, and one message per sender that held a token already.
THEOREM MessagesAreBounded == Spec => []SendsBounded
<1>1. SendInv /\ LineInv /\ CreditInv => SendsBounded
  <2> SUFFICES ASSUME SendInv, CreditInv PROVE SendsBounded
    OBVIOUS
  <2>1. grants[Global] \in Nat /\ sends \in Nat
    BY DEF SendInv, CreditInv, CreditTypes, Buckets
  <2>2. QED
    BY <2>1, HoldingIsFinite DEF SendInv, SendsBounded
<1>2. QED
  BY <1>1, LimiterAlways, PTL
=============================================================================
