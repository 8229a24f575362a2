----------------------------- MODULE IngestionMC -----------------------------
(* Instances of Ingestion for TLC. *)
EXTENDS Ingestion

CONSTANTS e1, e2

\* e2's second revision is malformed; e1 is always well-formed.
SecondOfE2 == {<<e2, 2>>}

\* e1's second revision is malformed.
SecondOfE1 == {<<e1, 2>>}
=============================================================================
