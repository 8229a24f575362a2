--------------------------- MODULE AlertPipelineMC ---------------------------
(* Instances of AlertPipeline for TLC. *)
EXTENDS AlertPipeline

CONSTANTS e1, e2, kGlobal, kNear, kSwarm, i1, i2, w1

\* e1 fires high_severity_global and, once revised, high_severity_near as well; e2
\* fires nothing until its revision completes a swarm, whose key e1 shares.
FiresMC == [e \in Events |-> [r \in 1..MaxRev |->
  CASE e = e1 /\ r = 1 -> <<kGlobal>>
    [] e = e1 /\ r = 2 -> <<kGlobal, kNear, kSwarm>>
    [] e = e2 /\ r = 2 -> <<kSwarm>>
    [] OTHER -> <<>>]]

\* Every event fires the same swarm key.
FiresSwarm == [e \in Events |-> [r \in 1..MaxRev |-> <<kSwarm>>]]
=============================================================================
