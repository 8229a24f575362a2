---------------------------- MODULE ComponentsMC ----------------------------
(***************************************************************************)
(* An instance of Components for TLC.  Of the silence watch: intervals of  *)
(* which two make the threshold (5 in the code) and three an hour (30).    *)
(***************************************************************************)
EXTENDS Components

CONSTANTS e1, e2, l1, r1, r2, r3, r4, q1, c1, c2, k1, k2, u1, w1

\* Rules: three places on a line.
Places == {"p", "q", "r"}
At3 == [p |-> 0, q |-> 1, r |-> 3]
DistanceMC == [a \in Places |-> [b \in Places |->
                IF At3[a] > At3[b] THEN At3[a] - At3[b] ELSE At3[b] - At3[a]]]
CellMC == [a \in Places |-> IF a = "r" THEN "far" ELSE "near"]
Quake(m, p, t) == [mag |-> m, place |-> p, time |-> t]
ContentsMC == {Quake(3, "p", 1), Quake(4, "q", 2), Quake(None, "p", 2), Quake(6, "p", 3),
               Quake(5, "r", None)}
Site(p, m, r) == [place |-> p, near_mag |-> m, near_radius_km |-> r]
SitesMC == {Site("p", None, None), Site("p", 5, 1), Site("q", 3, 0)}

\* Locations: two queries of one text, and two points.
QueryOfMC == [r \in {r1, r2, r3, r4} |-> IF r \in {r1, r2} THEN q1 ELSE Point]

\* LiveFeed: e2 is too old for the first window.
InWindowMC == [day |-> {e1}, month |-> {e1, e2}]
TimeOfMC == [e \in {e1, e2} |-> IF e = e1 THEN 2 ELSE 1]
=============================================================================
