------------------------------- MODULE MCSql -------------------------------
EXTENDS Sql, TLC

\* Handles are interchangeable, and so are data sources.
Handles == Permutations(Conn) \union Permutations(Dsn)
=============================================================================
