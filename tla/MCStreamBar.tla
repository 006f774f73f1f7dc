---------------------------- MODULE MCStreamBar ----------------------------
(* StreamBar with two tails, one of which fills a window of two records, drops *)
(* one and turns round, and the log read again at any moment of following.     *)
EXTENDS StreamBar

MCRecords == [t \in Tails |-> IF t = "a" THEN 3 ELSE 0]
=============================================================================
