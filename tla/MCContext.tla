----------------------------- MODULE MCContext -----------------------------
(* Instances of Context: one variable and few activations for the scope of *)
(* variables, no variable and more activations for exceptions.             *)
EXTENDS Context, TLC

\* No definition of Context tells one value from another.
Symmetry == Permutations(Values)
=============================================================================
