------------------------------ MODULE MCSched ------------------------------
(* An instance of Sched: one name that is redefined while its events fire. *)
EXTENDS Sched, TLC

CONSTANTS e1, e2, w1, w2, s1, n1

\* Once, again and again until 4, and at once (which is rejected as too late).
MCPlans == {[first |-> 3, offset |-> 0, last |-> 0],
            [first |-> 3, offset |-> 1, last |-> 4],
            [first |-> 0, offset |-> 0, last |-> 0]}
=============================================================================
