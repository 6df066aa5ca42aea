------------------------------ MODULE MCMutex ------------------------------
(* An instance of Mutex: two threads of one process and one of another,    *)
(* each process with a descriptor of its own.                              *)
EXTENDS Mutex

CONSTANTS t1, t2, t3, p1, p2, f1, f2

MCProcOf == [t \in Threads |-> IF t = t3 THEN p2 ELSE p1]
MCOfdOf  == [p \in Procs |-> IF p = p1 THEN f1 ELSE f2]
=============================================================================
