-------------------------- MODULE MCCrawlerManager --------------------------
(***************************************************************************)
(* CrawlerManager for TLC.                                                 *)
(***************************************************************************)
EXTENDS CrawlerManager

Daytime == [start |-> 1, end |-> 3]
Night == [start |-> 3, end |-> 1]
Never == [start |-> 2, end |-> 2]

Scheduled == {[enabled |-> TRUE, window |-> Daytime, autoStop |-> 0],
              [enabled |-> TRUE, window |-> Night, autoStop |-> 2],
              [enabled |-> FALSE, window |-> Daytime, autoStop |-> 1],
              [enabled |-> TRUE, window |-> Never, autoStop |-> 5]}
=============================================================================
