--------------------------- MODULE MCPendingEdits ---------------------------
EXTENDS PendingEdits

CONSTANTS k1, k2

\* Two rows: the second moves up when the first is deleted.
TwoRows == <<k1, k2>>
=============================================================================
