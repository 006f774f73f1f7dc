--------------------------- MODULE MCQuerySession ---------------------------
EXTENDS QuerySession

\* A script of two statements, and one of one.
TwoThenOne == <<2, 1>>
=============================================================================
