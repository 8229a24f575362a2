------------------------------ MODULE AlertLog ------------------------------
(***************************************************************************)
(* What the alerts service promises of one alert, identified by its dedup  *)
(* key: it is logged once and, once logged, handed to the delivery queue   *)
(* at most once.  It may stay logged and never be handed over.             *)
(***************************************************************************)
EXTENDS Naturals

CONSTANT Keys

VARIABLES
  rows,  \* alerts_log rows of each key
  jobs   \* send_alert jobs ever enqueued for each key

Init == rows = [k \in Keys |-> 0] /\ jobs = [k \in Keys |-> 0]

LogAlert(k) ==
  /\ rows[k] = 0
  /\ rows' = [rows EXCEPT ![k] = 1]
  /\ UNCHANGED jobs

HandOver(k) ==
  /\ rows[k] = 1 /\ jobs[k] = 0
  /\ jobs' = [jobs EXCEPT ![k] = 1]
  /\ UNCHANGED rows

Next == \E k \in Keys : LogAlert(k) \/ HandOver(k)

Spec == Init /\ [][Next]_<<rows, jobs>>
=============================================================================
