---------------------------- MODULE MCWordEditing ----------------------------
(* TLC instances of WordEditing. *)
EXTENDS WordEditing, TLC

CONSTANTS p1, p2, c1, c2, o1, o2

Symmetric == Permutations({p1, p2}) \cup Permutations({c1, c2}) \cup Permutations({o1, o2})

=============================================================================
