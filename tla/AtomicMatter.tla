---------------------------- MODULE AtomicMatter ----------------------------
(***************************************************************************)
(* What the journalled document change of one matter promises: however     *)
(* many steps it takes, wherever the process ends, a requested change of a *)
(* document happens to its bytes, its registry row and the source corpus   *)
(* at once, at most once, or not at all.                                   *)
(***************************************************************************)
CONSTANTS Names, Sources, Contents, Artifacts, Absent

VARIABLES
    request,  \* the change asked for
    applied,  \* it has happened
    bytes,    \* the documents
    index,    \* the registry's rows
    corpus,   \* the projection of the rows of the sources
    intact    \* FALSE while a rewrite of the corpus is unfinished

vars == <<request, applied, bytes, index, corpus, intact>>

Derived(rows) ==
    [a \in Artifacts |->
        IF \A n \in Sources : rows[n] = Absent
        THEN Absent
        ELSE [n \in Sources |-> rows[n]]]

Empty == [n \in Names |-> Absent]

Init ==
    /\ request = Absent
    /\ applied = FALSE
    /\ bytes = Empty
    /\ index = Empty
    /\ corpus = Derived(Empty)
    /\ intact = TRUE

\* A client asks for new bytes of a document or, with Absent, for its removal.
Request ==
    /\ request = Absent
    /\ request' \in [name : Names, new : Contents \cup {Absent}]
    /\ UNCHANGED <<applied, bytes, index, corpus, intact>>

\* All of it at once.
Apply ==
    /\ request # Absent
    /\ ~applied
    /\ index' = [index EXCEPT ![request.name] = request.new]
    /\ bytes' = index'
    /\ IF request.name \in Sources
       THEN corpus' = Derived(index') /\ intact' = TRUE
       ELSE UNCHANGED <<corpus, intact>>
    /\ applied' = TRUE
    /\ UNCHANGED request

\* The answer, or the end of the process: the request is forgotten.
Forget ==
    /\ request # Absent
    /\ request' = Absent
    /\ applied' = FALSE
    /\ UNCHANGED <<bytes, index, corpus, intact>>

\* The corpus is rewritten from the rows; until it is whole it may be anything.
Rewrite ==
    /\ intact' = FALSE
    /\ corpus' \in [Artifacts -> [Sources -> Contents \cup {Absent}] \cup {Absent}]
    /\ UNCHANGED <<request, applied, bytes, index>>

Whole ==
    /\ intact' = TRUE
    /\ corpus' = Derived(index)
    /\ UNCHANGED <<request, applied, bytes, index>>

Next == Request \/ Apply \/ Forget \/ Rewrite \/ Whole

Spec == Init /\ [][Next]_vars

=============================================================================
