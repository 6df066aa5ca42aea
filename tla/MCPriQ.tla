------------------------------- MODULE MCPriQ -------------------------------
(* An instance of PriQ: the keys decide, one stored value per item.        *)
EXTENDS PriQ

MCKeys == 1..4
=============================================================================
