------------------------------ MODULE MCTables ------------------------------
EXTENDS Tables
=============================================================================
