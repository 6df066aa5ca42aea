------------------------------- MODULE MCHash -------------------------------
EXTENDS Hash

\* Nine keys, as many as it takes to grow from two chains to eight.
MCKey == 0 .. 8
MCHashOf == [k \in MCKey |-> k]
=============================================================================
