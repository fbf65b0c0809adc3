--------------------------- MODULE MCPositionBooks ---------------------------
(* Two strategies on one account whose symbols the sync knows: one of them trades one
   market, the other both, so that one market is shared and the other belongs to a
   single strategy. Alone, the first strategy meets three events; together they meet
   one. A third strategy and a fourth, each alone, have a client whose symbols the sync
   does not know, and one it skips. *)
EXTENDS PositionBooks
CONSTANTS s1, s2, s3, s4, m1, m2

MCTrades == [s \in Strategies |-> IF s = s2 THEN {m1, m2} ELSE {m1}]
MCClient == [s \in Strategies |-> IF s = s3 THEN "renamed"
                                  ELSE IF s = s4 THEN "skipped" ELSE "named"]
MCTeams == {{s1}, {s1, s2}, {s3}, {s4}}
MCMaxEvents == [t \in MCTeams |-> IF t = {s1} THEN 3 ELSE IF t = {s1, s2} THEN 1 ELSE 2]
=============================================================================
