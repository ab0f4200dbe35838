-------------------------- MODULE MCDocumentVersions --------------------------
(* The instance of DocumentVersions that TLC checks. *)
EXTENDS DocumentVersions, TLC

Symmetry == Permutations(Names) \cup Permutations(Ids) \cup Permutations(Contents)
=============================================================================
