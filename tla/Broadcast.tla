----------------------------- MODULE Broadcast -----------------------------
(***************************************************************************)
(* What the worker promises of the alerts it is handed: an alert is owed   *)
(* until it is settled or given up; chats get it only while it is owed,    *)
(* and it is settled as sent only if somebody got it.  No crash, no        *)
(* failure and no user's command makes it anything else.                   *)
(***************************************************************************)
CONSTANTS
  Alerts,  \* dedup keys of alerts_log
  Chats    \* Telegram chats

VARIABLES
  outcome, \* of each alert
  reached  \* chats each alert was delivered to

Settled == {"sent", "failed", "skipped_dedup"}

Init ==
  /\ outcome = [a \in Alerts |-> "none"]
  /\ reached = [a \in Alerts |-> {}]

Owe(a) ==
  /\ outcome[a] = "none"
  /\ outcome' = [outcome EXCEPT ![a] = "owed"]
  /\ UNCHANGED reached

Reach(a, c) ==
  /\ outcome[a] = "owed"
  /\ reached' = [reached EXCEPT ![a] = @ \cup {c}]
  /\ UNCHANGED outcome

Settle(a, how) ==
  /\ outcome[a] = "owed"
  /\ how = "sent" => reached[a] # {}
  /\ outcome' = [outcome EXCEPT ![a] = how]
  /\ UNCHANGED reached

Next ==
  \E a \in Alerts :
    \/ Owe(a)
    \/ \E c \in Chats : Reach(a, c)
    \/ \E how \in Settled \cup {"given_up"} : Settle(a, how)

Spec == Init /\ [][Next]_<<outcome, reached>>
=============================================================================
