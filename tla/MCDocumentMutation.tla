------------------------- MODULE MCDocumentMutation -------------------------
(* TLC instances of DocumentMutation. *)
EXTENDS DocumentMutation, TLC

CONSTANTS doc1, doc2, i1, i2

OneSource == {doc1}
Symmetric == Permutations({i1, i2})

=============================================================================
