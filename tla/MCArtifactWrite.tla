--------------------------- MODULE MCArtifactWrite ---------------------------
(* The instance of ArtifactWrite that TLC checks. *)
EXTENDS ArtifactWrite, TLC

\* Every checkpoint of up to two chunks.
TwoChunks == UNION {[1 .. n -> Chunks] : n \in 0 .. 2}

Symmetry ==
    Permutations(Processes) \cup Permutations(Transactions)
        \cup Permutations(Chunks) \cup Permutations(Contracts)
=============================================================================
