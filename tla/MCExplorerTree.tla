---------------------------- MODULE MCExplorerTree ----------------------------
EXTENDS ExplorerTree, TLC

CONSTANTS folder, conn, table
InAFolder == (folder :> Root) @@ (conn :> folder) @@ (table :> conn)

CONSTANTS l1, l2, f1, f2
Symmetry == Permutations({l1, l2}) \cup Permutations({f1, f2})
=============================================================================
