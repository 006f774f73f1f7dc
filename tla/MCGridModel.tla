---------------------------- MODULE MCGridModel ----------------------------
(* GridModel with pages of two rows, a table, and a pipeline over it that makes more     *)
(* rows of fewer.  A write by somebody else makes the one shorter and the other longer.  *)
EXTENDS GridModel, TLC

SourceSizes == [s \in {"table", "pipeline"} |->
                  [v \in 0..MaxVersion |-> IF s = "table" THEN IF v = 0 THEN 3 ELSE 2
                                           ELSE IF v = 0 THEN 2 ELSE 4]]

FetchSymmetry == Permutations(Fetches)
=============================================================================
