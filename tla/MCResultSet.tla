---------------------------- MODULE MCResultSet ----------------------------
(* ResultSet with rows announced in twos, a grid that asks for pages of two, *)
(* an export that asks for three at a time, and a cap inside a page.         *)
EXTENDS ResultSet

GridAndExport == {"grid", "export"}
PageSizes     == [f \in GridAndExport |-> IF f = "grid" THEN 2 ELSE 3]
PageStarts    == [f \in GridAndExport |-> IF f = "grid" THEN {0, 2, 4} ELSE {0, 3}]
=============================================================================
