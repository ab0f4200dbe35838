-------------------------- MODULE DocumentMutation --------------------------
(***************************************************************************)
(* One matter's document changes: the bytes of a document, its registry    *)
(* row in legal.db, the source projection derived from the registry and    *)
(* the lineage stamped for it, changed as one unit by the ingest service.  *)
(* A change is journalled under .dochaus/document-mutations/<id>; recovery *)
(* rolls a journal forward or back after a stop at any step.               *)
(*                                                                         *)
(* services/ingest/src: document-mutation.ts, atomic-document-write.ts,    *)
(* source-artifacts.ts, and the writers in ingest.ts, deliverable.ts and   *)
(* document-delete.ts.  Every writer holds the matter's source-corpus lock *)
(* for its whole operation, so operations of one matter are sequential:    *)
(* what interleaves with them is the end of the process, at any step, and  *)
(* the failure of a step.                                                  *)
(***************************************************************************)
EXTENDS Naturals, FiniteSets

CONSTANTS
    Names,         \* document names of the matter
    Sources,       \* those that are sources; the others are deliverables
    Contents,      \* document bytes, told apart only by equality
    Artifacts,     \* SOURCE_ARTIFACT_PATHS, the files of the source projection
    Ids,           \* mutation ids (randomUUID)
    Absent,        \* no file, no row, no value
    TornRemoval,   \* TRUE: a directory is removed one entry at a time
    MaxOps,        \* operations started
    MaxCrashes,    \* ends of the process
    MaxFailures    \* steps that throw

ASSUME SourcesAssumption == Sources \subseteq Names
ASSUME AbsentAssumption ==
    /\ Absent \notin Contents \cup Ids \cup Names
    /\ Absent \notin [Sources -> Contents \cup {Absent}]
    /\ Absent \notin [name : Names, new : Contents \cup {Absent}]
    /\ Absent \notin [name : Names, prior : BOOLEAN]
ASSUME TornAssumption == TornRemoval \in BOOLEAN
ASSUME BoundsAssumption == MaxOps \in Nat /\ MaxCrashes \in Nat /\ MaxFailures \in Nat

VARIABLES
    files,       \* the matter's documents on disk
    live,        \* the installed source projection
    journals,    \* .dochaus/document-mutations, one directory per id
    lineage,     \* the projection each artifact's latest lineage row hashes
    registry,    \* committed rows of legal.db: the content each row indexes
    commits,     \* document_mutation_commits: ids committed and not settled
    pc,          \* the step the service takes next
    mode,        \* on whose behalf: start-up, an operation, its compensation
    op,          \* the operation requested
    cur,         \* the mutation being applied or recovered
    rolledBack,  \* recovery rolled a source mutation back (sourceRolledBack)
    healed,      \* history: live was last installed whole
    decided,     \* history: journalled mutations whose transaction committed
    budget       \* operations, crashes and failures so far

disk == <<files, live, journals, lineage>>
db == <<registry, commits>>
vars == <<disk, db, pc, mode, op, cur, rolledBack, healed, decided, budget>>

-----------------------------------------------------------------------------
(* Values.                                                                 *)

Bytes == Contents \cup {Absent}
Snapshot == [Sources -> Bytes]
Projection == [Artifacts -> Snapshot \cup {Absent}]

NoArtifacts == [a \in Artifacts |-> Absent]

\* What is staged from a registry: one file per artifact, none without sources.
Build(rows) ==
    [a \in Artifacts |->
        IF \A n \in Sources : rows[n] = Absent
        THEN Absent
        ELSE [n \in Sources |-> rows[n]]]

\* The journal directory: transaction.json (tx), document.bak (backup), the
\* projection transaction (staged; backup as saved and savedDir; and
\* prior-artifacts.json as listed and manifest), and the files lineage-intent,
\* database-committed and lineage-settled; unwritten, that one of the last two
\* was made and not written.  A transaction.json or prior-artifacts.json that is
\* not written is not there: either is as unreadable as missing.
Tx == [name : Names, prior : BOOLEAN]
Journal ==
    [tx : Tx \cup {Absent}, backup : Bytes,
     proj : BOOLEAN, staged : Projection, saved : Projection,
     savedDir : BOOLEAN, listed : BOOLEAN, manifest : SUBSET Artifacts,
     intent : BOOLEAN, committed : BOOLEAN, settled : BOOLEAN, unwritten : BOOLEAN]

ASSUME JournalAssumption == Absent \notin Journal

EmptyJournal ==
    [tx |-> Absent, backup |-> Absent,
     proj |-> FALSE, staged |-> NoArtifacts, saved |-> NoArtifacts,
     savedDir |-> FALSE, listed |-> FALSE, manifest |-> {},
     intent |-> FALSE, committed |-> FALSE, settled |-> FALSE, unwritten |-> FALSE]

Operation == [name : Names, new : Bytes]
Locations ==
    {"down", "idle", "recover", "begin", "journal", "stage", "park", "place",
     "register", "openBackup", "manifest", "moveOut", "moveIn", "commit",
     "retire", "dropBackup", "settle", "settleWrite", "unrecord", "stamp",
     "settled", "settledWrite",
     "restore", "restoreRename", "unproject", "dropProjection", "forward",
     "remove", "heal", "rebuild", "rebuildIn", "rebuildStamp"}
Modes == {"startup", "operate", "apply", "undo", "discard"}

Journalled == {i \in Ids : journals[i] # Absent}
Readable(i) == journals[i] # Absent /\ journals[i].tx # Absent
IsSource(i) == journals[i].tx.name \in Sources

\* Evidence that mutation i committed: its row, or its database-committed file.
Committed(i) == i \in commits \/ journals[i].committed

\* An unreadable journal recovery may not simply remove.
Recoverable(i) ==
    \/ journals[i].backup # Absent
    \/ journals[i].proj
    \/ journals[i].committed
    \/ journals[i].settled
    \/ journals[i].unwritten

\* A projection transaction recovery refuses: replaced files, and no record of
\* which there were.
HalfProjection(i) == journals[i].savedDir /\ ~journals[i].listed

\* A journal on which recovery throws, now and at every later start.
Refused(i) ==
    IF journals[i].tx = Absent
    THEN Recoverable(i)
    ELSE \/ journals[i].unwritten
         \/ ~Committed(i) /\ IsSource(i) /\ journals[i].proj /\ HalfProjection(i)

Init ==
    /\ files = [n \in Names |-> Absent]
    /\ live = NoArtifacts
    /\ journals = [i \in Ids |-> Absent]
    /\ lineage = NoArtifacts
    /\ registry = [n \in Names |-> Absent]
    /\ commits = {}
    /\ pc = "idle"
    /\ mode = "startup"
    /\ op = Absent
    /\ cur = Absent
    /\ rolledBack = FALSE
    /\ healed = TRUE
    /\ decided = {}
    /\ budget = [ops |-> 0, crashes |-> 0, failures |-> 0]

-----------------------------------------------------------------------------
(* Helpers of the steps.                                                   *)

\* A step within the present mutation and mode.
Goto(p) == pc' = p /\ UNCHANGED <<mode, op, cur, rolledBack>>

\* The operation, or the start-up, is over; nothing in memory outlives it.
Finish ==
    /\ pc' = "idle"
    /\ op' = Absent
    /\ cur' = Absent
    /\ rolledBack' = FALSE
    /\ UNCHANGED mode

SetJournal(j) == journals' = [journals EXCEPT ![cur] = j]
J == journals[cur]
Target == journals[cur].tx.name

\* The journal once its projection transaction is moved out or removed.
WithoutProjection(j) ==
    [j EXCEPT !.proj = FALSE, !.staged = NoArtifacts, !.saved = NoArtifacts,
              !.savedDir = FALSE, !.listed = FALSE, !.manifest = {}]

-----------------------------------------------------------------------------
(* An operation: recovery first, then the journal, the bytes, the          *)
(* registry and projection in one transaction, and the settling of it.     *)

\* Mutant: an operation does not recover what an earlier one left.
Start_NoRecovery(n, new) ==
    /\ pc = "idle"
    /\ budget.ops < MaxOps
    /\ op' = [name |-> n, new |-> new]
    /\ pc' = "begin"
    /\ mode' = "operate"
    /\ budget' = [budget EXCEPT !.ops = @ + 1]
    /\ UNCHANGED <<disk, db, cur, rolledBack, healed, decided>>

\* A request: the upload or save of `new`, or with Absent a delete.
Start(n, new) ==
    /\ pc = "idle"
    /\ budget.ops < MaxOps
    /\ op' = [name |-> n, new |-> new]
    /\ pc' = "recover"
    /\ mode' = "operate"
    /\ budget' = [budget EXCEPT !.ops = @ + 1]
    /\ UNCHANGED <<disk, db, cur, rolledBack, healed, decided>>

\* The delete of a name the registry does not have is refused; so may a write
\* be: the name is taken, its prior hash changed, a Word edit holds it.
Refuse ==
    /\ pc = "begin"
    /\ op.new = Absent => registry[op.name] = Absent
    /\ Finish
    /\ UNCHANGED <<disk, db, healed, decided, budget>>

\* beginDocumentMutation: the directory, then transaction.json.
BeginJournal ==
    /\ pc = "begin"
    /\ op.new # Absent \/ registry[op.name] # Absent
    /\ \E i \in Ids \ (Journalled \cup commits) :
        /\ cur' = i
        /\ journals' = [journals EXCEPT ![i] = EmptyJournal]
    /\ pc' = "journal"
    /\ mode' = "apply"
    /\ UNCHANGED <<files, live, lineage, db, op, rolledBack, healed, decided, budget>>

\* Mutant: the prior bytes are written where only their presence belongs.
WriteTransaction_PriorBytes ==
    /\ pc = "journal"
    /\ SetJournal([J EXCEPT !.tx = [name |-> op.name, prior |-> files[op.name]]])
    /\ Goto(IF op.name \in Sources THEN "stage" ELSE "park")
    /\ UNCHANGED <<files, live, lineage, db, healed, decided, budget>>

WriteTransaction ==
    /\ pc = "journal"
    /\ SetJournal([J EXCEPT !.tx = [name |-> op.name, prior |-> files[op.name] # Absent]])
    /\ Goto(IF op.name \in Sources THEN "stage" ELSE "park")
    /\ UNCHANGED <<files, live, lineage, db, healed, decided, budget>>

\* stageSourceChange: the projection of the registry as this change leaves it.
StageSourceChange ==
    /\ pc = "stage"
    /\ SetJournal([J EXCEPT !.proj = TRUE,
                            !.staged = Build([registry EXCEPT ![op.name] = op.new])])
    /\ Goto("park")
    /\ UNCHANGED <<files, live, lineage, db, healed, decided, budget>>

\* Mutant: the prior bytes are removed, not renamed to the backup.
ParkPrior_NoBackup ==
    /\ pc = "park"
    /\ files' = [files EXCEPT ![op.name] = Absent]
    /\ Goto(IF op.new = Absent THEN "register" ELSE "place")
    /\ UNCHANGED <<live, journals, lineage, db, healed, decided, budget>>

\* commitDocumentWriteAsync, commitDocumentDeleteAsync: the prior bytes become
\* the journal's backup.
ParkPrior ==
    /\ pc = "park"
    /\ IF files[op.name] = Absent
       THEN UNCHANGED <<files, journals>>
       ELSE /\ SetJournal([J EXCEPT !.backup = files[op.name]])
            /\ files' = [files EXCEPT ![op.name] = Absent]
    /\ Goto(IF op.new = Absent THEN "register" ELSE "place")
    /\ UNCHANGED <<live, lineage, db, healed, decided, budget>>

PlaceBytes ==
    /\ pc = "place"
    /\ files' = [files EXCEPT ![op.name] = op.new]
    /\ Goto("register")
    /\ UNCHANGED <<live, journals, lineage, db, healed, decided, budget>>

\* BEGIN IMMEDIATE and the registry writes, seen by nobody before "commit"; of
\* a source also the lineage intent, a file.
Register ==
    /\ pc = "register"
    /\ SetJournal([J EXCEPT !.intent = op.name \in Sources])
    /\ Goto(IF op.name \in Sources THEN "openBackup" ELSE "commit")
    /\ UNCHANGED <<files, live, lineage, db, healed, decided, budget>>

\* installSourceArtifactSnapshot: the backup directory, the list of what is to
\* be replaced, the replaced files out, the staged files in, one at a time.
OpenProjectionBackup ==
    /\ pc = "openBackup"
    /\ SetJournal([J EXCEPT !.savedDir = TRUE])
    /\ Goto("manifest")
    /\ UNCHANGED <<files, live, lineage, db, healed, decided, budget>>

WriteManifest ==
    /\ pc = "manifest"
    /\ SetJournal([J EXCEPT !.listed = TRUE,
                            !.manifest = {a \in Artifacts : live[a] # Absent}])
    /\ Goto("moveOut")
    /\ UNCHANGED <<files, live, lineage, db, healed, decided, budget>>

MovesOut(a) ==
    /\ live[a] # Absent
    /\ SetJournal([J EXCEPT !.saved[a] = live[a]])
    /\ live' = [live EXCEPT ![a] = Absent]
    /\ Goto("moveOut")

MoveOut ==
    /\ pc = "moveOut"
    /\ \/ \E a \in Artifacts : MovesOut(a)
       \/ /\ \A a \in Artifacts : live[a] = Absent
          /\ Goto("moveIn")
          /\ UNCHANGED <<live, journals>>
    /\ UNCHANGED <<files, lineage, db, healed, decided, budget>>

\* Mutant: the staged file is copied in and stays staged.
MovesIn_Copy(a) ==
    /\ J.staged[a] # Absent
    /\ live' = [live EXCEPT ![a] = J.staged[a]]
    /\ Goto("moveIn")
    /\ UNCHANGED journals

MovesIn(a) ==
    /\ J.staged[a] # Absent
    /\ live' = [live EXCEPT ![a] = J.staged[a]]
    /\ SetJournal([J EXCEPT !.staged[a] = Absent])
    /\ Goto("moveIn")

MoveIn ==
    /\ pc = "moveIn"
    /\ \/ \E a \in Artifacts : MovesIn(a)
       \/ /\ \A a \in Artifacts : J.staged[a] = Absent
          /\ Goto("commit")
          /\ UNCHANGED <<live, journals>>
    /\ UNCHANGED <<files, lineage, db, healed, decided, budget>>

\* recordDocumentMutationCommit and COMMIT: the registry rows and the row that
\* says this mutation committed, in one SQLite transaction.
Commit ==
    /\ pc = "commit"
    /\ registry' = [registry EXCEPT ![op.name] = op.new]
    /\ commits' = commits \cup {cur}
    /\ decided' = decided \cup {cur}
    /\ healed' = (healed \/ op.name \in Sources)
    /\ Goto(IF op.name \in Sources THEN "retire" ELSE "dropBackup")
    /\ UNCHANGED <<disk, budget>>

\* installation.commit: the projection transaction leaves the journal by one
\* rename, or is removed; an error in both leaves it there, and goes on.
RetireProjection ==
    /\ pc = "retire"
    /\ \/ SetJournal(WithoutProjection(J))
       \/ UNCHANGED journals
    /\ Goto("dropBackup")
    /\ UNCHANGED <<files, live, lineage, db, healed, decided, budget>>

\* removeSettledBackup: an error leaves the backup, and goes on.
DropBackup ==
    /\ pc = "dropBackup"
    /\ \/ SetJournal([J EXCEPT !.backup = Absent])
       \/ UNCHANGED journals
    /\ Goto("settle")
    /\ UNCHANGED <<files, live, lineage, db, healed, decided, budget>>

-----------------------------------------------------------------------------
(* Settling: finalizeDocumentMutationLineage and completeDocumentMutation, *)
(* by the operation itself or by a recovery that rolls it forward.         *)

\* Mutant: the row is deleted without the file that replaces it.
SettleCommit_NoFile ==
    /\ pc = "settle"
    /\ Goto(IF IsSource(cur) /\ J.settled THEN "remove" ELSE "unrecord")
    /\ UNCHANGED <<disk, db, healed, decided, budget>>

\* Mutant: a mutation already settled in the database is taken for stamped.
SettleCommit_SkipStamp ==
    /\ pc = "settle"
    /\ IF J.committed
       THEN Goto("remove") /\ UNCHANGED journals
       ELSE SetJournal([J EXCEPT !.unwritten = TRUE]) /\ Goto("settleWrite")
    /\ UNCHANGED <<files, live, lineage, db, healed, decided, budget>>

\* settleDocumentMutationCommit: the durable file, made (wx) and then written,
\* and only then the row's deletion.  A file made by a run that stopped before
\* it wrote it does not have the content it should: an error, every time.
SettleCommit ==
    /\ pc = "settle"
    /\ \/ IsSource(cur) /\ J.settled /\ Goto("remove") /\ UNCHANGED journals
       \/ J.unwritten /\ Finish /\ UNCHANGED journals
       \/ ~J.unwritten /\ J.committed /\ ~(IsSource(cur) /\ J.settled) /\ Goto("unrecord") /\ UNCHANGED journals
       \/ ~J.unwritten /\ ~J.committed /\ SetJournal([J EXCEPT !.unwritten = TRUE]) /\ Goto("settleWrite")
    /\ UNCHANGED <<files, live, lineage, db, healed, decided, budget>>

WriteCommitted ==
    /\ pc = "settleWrite"
    /\ SetJournal([J EXCEPT !.committed = TRUE, !.unwritten = FALSE])
    /\ Goto("unrecord")
    /\ UNCHANGED <<files, live, lineage, db, healed, decided, budget>>

DeleteCommitRow ==
    /\ pc = "unrecord"
    /\ commits' = commits \ {cur}
    /\ Goto(IF IsSource(cur) THEN "stamp" ELSE "remove")
    /\ UNCHANGED <<disk, registry, healed, decided, budget>>

\* A row for each installed artifact whose hash its latest row does not have.
Stamped == [a \in Artifacts |-> IF live[a] = Absent THEN lineage[a] ELSE live[a]]

StampLineage ==
    /\ pc = "stamp"
    /\ lineage' = Stamped
    /\ Goto("settled")
    /\ UNCHANGED <<files, live, journals, db, healed, decided, budget>>

\* Likewise the file that says the lineage is stamped.
MarkSettled ==
    /\ pc = "settled"
    /\ SetJournal([J EXCEPT !.unwritten = TRUE])
    /\ Goto("settledWrite")
    /\ UNCHANGED <<files, live, lineage, db, healed, decided, budget>>

WriteSettled ==
    /\ pc = "settledWrite"
    /\ SetJournal([J EXCEPT !.settled = TRUE, !.unwritten = FALSE])
    /\ Goto("remove")
    /\ UNCHANGED <<files, live, lineage, db, healed, decided, budget>>

\* Mutant: recovery leaves the directory of a journal it has resolved.
RemoveJournal_Kept ==
    /\ pc = "remove"
    /\ IF mode \in {"apply", "discard"}
       THEN SetJournal(Absent) /\ Finish
       ELSE pc' = "recover" /\ cur' = Absent /\ UNCHANGED <<journals, mode, op, rolledBack>>
    /\ decided' = decided \ {cur}
    /\ UNCHANGED <<files, live, lineage, db, healed, budget>>

\* rmSync of the journal directory.  The compensation of a failed operation
\* also deletes the mutation's row, had it one, and ends with the error; a
\* recovery goes on with the next journal.
RemoveJournal ==
    /\ pc = "remove"
    /\ SetJournal(Absent)
    /\ decided' = decided \ {cur}
    /\ commits' = IF mode = "discard" THEN commits \ {cur} ELSE commits
    /\ IF mode \in {"apply", "discard"}
       THEN Finish
       ELSE /\ pc' = "recover"
            /\ cur' = Absent
            /\ UNCHANGED <<mode, op, rolledBack>>
    /\ UNCHANGED <<files, live, lineage, registry, healed, budget>>

\* One of the entries of a projection transaction that is being removed.
TearsProjection ==
    \/ J.listed /\ SetJournal([J EXCEPT !.listed = FALSE, !.manifest = {}])
    \/ \E a \in Artifacts : J.saved[a] # Absent /\ SetJournal([J EXCEPT !.saved[a] = Absent])
    \/ J.savedDir /\ J.saved = NoArtifacts /\ SetJournal([J EXCEPT !.savedDir = FALSE])

\* The entries of the directory in turn, in the order the directory lists them;
\* the projection transaction is one where it was not retired.
TearJournal ==
    /\ TornRemoval
    /\ pc = "remove"
    /\ \/ J.tx # Absent /\ SetJournal([J EXCEPT !.tx = Absent])
       \/ J.committed /\ SetJournal([J EXCEPT !.committed = FALSE])
       \/ J.settled /\ SetJournal([J EXCEPT !.settled = FALSE])
       \/ J.intent /\ SetJournal([J EXCEPT !.intent = FALSE])
       \/ J.backup # Absent /\ SetJournal([J EXCEPT !.backup = Absent])
       \/ TearsProjection
       \/ J.proj /\ ~J.listed /\ ~J.savedDir /\ SetJournal(WithoutProjection(J))
    /\ Goto("remove")
    /\ UNCHANGED <<files, live, lineage, db, healed, decided, budget>>

-----------------------------------------------------------------------------
(* Recovery: recoverDocumentMutations at start-up and at the head of every *)
(* operation; its roll-back is also what a failed operation runs.          *)

\* One journal after the other, in the order the directories are listed.
RecoverJournal(i) ==
    /\ pc = "recover"
    /\ i \in Journalled
    /\ \/ /\ Readable(i)
          /\ cur' = i
          /\ pc' = IF ~Committed(i) THEN "restore" ELSE IF IsSource(i) THEN "forward" ELSE "settle"
          /\ rolledBack' = (rolledBack \/ (~Committed(i) /\ IsSource(i)))
          /\ UNCHANGED <<mode, op>>
       \/ /\ ~Readable(i)
          /\ ~Recoverable(i)
          /\ cur' = i
          /\ pc' = "remove"
          /\ UNCHANGED <<mode, op, rolledBack>>
       \/ /\ ~Readable(i)
          /\ Recoverable(i)
          /\ Finish
    /\ UNCHANGED <<disk, db, healed, decided, budget>>

\* No journal is left.  An operation that rolled a source mutation back writes
\* the projection again, unless it saves a deliverable.
Recovered ==
    /\ pc = "recover"
    /\ Journalled = {}
    /\ Goto(CASE mode = "startup" -> "heal"
              [] rolledBack /\ (op.name \in Sources \/ op.new = Absent) -> "rebuild"
              [] OTHER -> "begin")
    /\ UNCHANGED <<disk, db, healed, decided, budget>>

\* restoreUncommittedDocument: a document that did not exist is removed; one
\* that did is removed and its backup, had it been parked, renamed back.
RestoreDocument ==
    /\ pc = "restore"
    /\ IF J.tx.prior /\ J.backup = Absent
       THEN UNCHANGED files
       ELSE files' = [files EXCEPT ![Target] = Absent]
    /\ Goto(IF J.tx.prior /\ J.backup # Absent THEN "restoreRename"
            ELSE IF IsSource(cur) THEN "unproject" ELSE "remove")
    /\ UNCHANGED <<live, journals, lineage, db, healed, decided, budget>>

RestoreRename ==
    /\ pc = "restoreRename"
    /\ files' = [files EXCEPT ![Target] = J.backup]
    /\ SetJournal([J EXCEPT !.backup = Absent])
    /\ Goto(IF IsSource(cur) THEN "unproject" ELSE "remove")
    /\ UNCHANGED <<live, lineage, db, healed, decided, budget>>

\* Mutant: an artifact that was not there before is left in place.
ToUndo_KeepNew(j, a) == a \in j.manifest /\ j.saved[a] # Absent

\* recoverSourceArtifactTransaction(.., false): an artifact that was not there
\* is removed, a replaced one moved back.
ToUndo(j, a) == IF a \in j.manifest THEN j.saved[a] # Absent ELSE live[a] # Absent

UndoesArtifact(a) ==
    /\ J.proj /\ J.listed
    /\ ToUndo(J, a)
    /\ live' = [live EXCEPT ![a] = IF a \in J.manifest THEN J.saved[a] ELSE Absent]
    /\ SetJournal([J EXCEPT !.saved[a] = Absent])
    /\ Goto("unproject")

UndoProjection ==
    /\ pc = "unproject"
    /\ \/ /\ ~J.proj
          /\ Goto("remove")
          /\ UNCHANGED <<live, journals>>
       \/ /\ J.proj /\ HalfProjection(cur)
          /\ Finish
          /\ UNCHANGED <<live, journals>>
       \/ \E a \in Artifacts : UndoesArtifact(a)
       \/ /\ J.proj /\ ~HalfProjection(cur)
          /\ J.listed => \A a \in Artifacts : ~ToUndo(J, a)
          /\ Goto("dropProjection")
          /\ UNCHANGED <<live, journals>>
    /\ UNCHANGED <<files, lineage, db, healed, decided, budget>>

\* rmSync of the projection transaction, rolled back ("dropProjection") or
\* superseded by the installed one ("forward").  A failed installation then
\* restores the document; a failed operation that had committed ends here and
\* leaves its journal to the next recovery.
DropProjection ==
    /\ pc \in {"dropProjection", "forward"}
    /\ SetJournal(WithoutProjection(J))
    /\ CASE pc = "forward" /\ mode = "discard" -> Finish
         [] pc = "forward" /\ mode # "discard" -> Goto("settle")
         [] pc # "forward" /\ mode = "undo" ->
                /\ pc' = "restore"
                /\ mode' = "discard"
                /\ UNCHANGED <<op, cur, rolledBack>>
         [] OTHER -> Goto("remove")
    /\ UNCHANGED <<files, live, lineage, db, healed, decided, budget>>

TearProjection ==
    /\ TornRemoval
    /\ pc \in {"retire", "dropProjection", "forward"}
    /\ TearsProjection
    /\ Goto(pc)
    /\ UNCHANGED <<files, live, lineage, db, healed, decided, budget>>

\* healSourceArtifacts, once start-up has recovered every journal.
Heal ==
    /\ pc = "heal"
    /\ IF ~rolledBack /\ live = Build(registry) THEN Finish ELSE Goto("rebuild")
    /\ UNCHANGED <<disk, db, healed, decided, budget>>

\* writeSourceArtifacts outside a mutation: no journal holds what it replaces.
RebuildOut ==
    /\ pc = "rebuild"
    /\ healed' = FALSE
    /\ \/ \E a \in Artifacts :
            /\ live[a] # Absent
            /\ live' = [live EXCEPT ![a] = Absent]
            /\ Goto("rebuild")
       \/ /\ \A a \in Artifacts : live[a] = Absent
          /\ Goto("rebuildIn")
          /\ UNCHANGED live
    /\ UNCHANGED <<files, journals, lineage, db, decided, budget>>

RebuildIn ==
    /\ pc = "rebuildIn"
    /\ \/ \E a \in Artifacts :
            /\ live[a] # Build(registry)[a]
            /\ live' = [live EXCEPT ![a] = Build(registry)[a]]
            /\ Goto("rebuildIn")
            /\ UNCHANGED healed
       \/ /\ live = Build(registry)
          /\ Goto("rebuildStamp")
          /\ healed' = TRUE
          /\ UNCHANGED live
    /\ UNCHANGED <<files, journals, lineage, db, decided, budget>>

StampRebuild ==
    /\ pc = "rebuildStamp"
    /\ lineage' = Stamped
    /\ IF mode = "startup" THEN Finish ELSE Goto("begin")
    /\ UNCHANGED <<files, live, journals, db, healed, decided, budget>>

-----------------------------------------------------------------------------
(* Failures of a step, and the end of the process.                         *)

Throw ==
    /\ budget.failures < MaxFailures
    /\ budget' = [budget EXCEPT !.failures = @ + 1]

To(p, m) == pc' = p /\ mode' = m /\ UNCHANGED <<op, cur, rolledBack>>

\* Before the commit: what was installed is taken back, then the document, then
\* discardDocumentMutation removes the journal.
FailBeforeCommit ==
    /\ Throw
    /\ mode = "apply"
    /\ \/ /\ pc \in {"stage", "park", "place", "register", "manifest"}
          /\ To("restore", "discard")
          /\ UNCHANGED journals
       \/ /\ pc = "openBackup"
          /\ To("restore", "discard")
          /\ SetJournal(WithoutProjection(J))
       \/ /\ pc \in {"moveOut", "moveIn", "commit"}
          /\ IF IsSource(cur) THEN To("unproject", "undo") ELSE To("restore", "discard")
          /\ UNCHANGED journals
    /\ UNCHANGED <<files, live, lineage, db, healed, decided>>

\* After it: discardDocumentMutation finds the mutation committed, or what is
\* left of a journal that could not be removed does not say so.  (It knows the
\* mutation from memory: what it does once transaction.json is removed is not
\* modelled.)
FailAfterCommit ==
    /\ Throw
    /\ mode = "apply"
    /\ pc \in {"settle", "settleWrite", "unrecord", "stamp", "settled", "settledWrite", "remove"}
    /\ J.tx # Absent
    /\ IF ~Committed(cur) THEN To("restore", "discard")
       ELSE IF IsSource(cur) THEN To("forward", "discard") ELSE Finish
    /\ UNCHANGED <<disk, db, healed, decided>>

\* Elsewhere the error ends the operation, or the start-up's work on this
\* matter, and leaves every journal as it is.
FailOutright ==
    /\ Throw
    /\ \/ pc = "journal"
       \/ mode = "discard" /\ pc # "idle" /\ pc # "down"
       \/ /\ mode \in {"startup", "operate"}
          /\ pc \in {"restore", "restoreRename", "unproject", "dropProjection", "forward",
                     "settle", "settleWrite", "unrecord", "stamp", "settled", "settledWrite",
                     "remove", "heal", "rebuildStamp"}
    /\ Finish
    /\ UNCHANGED <<disk, db, healed, decided>>

Crash ==
    /\ pc # "down"
    /\ budget.crashes < MaxCrashes
    /\ budget' = [budget EXCEPT !.crashes = @ + 1]
    /\ pc' = "down"
    /\ mode' = "startup"
    /\ op' = Absent
    /\ cur' = Absent
    /\ rolledBack' = FALSE
    /\ UNCHANGED <<disk, db, healed, decided>>

Restart ==
    /\ pc = "down"
    /\ Goto("recover")
    /\ UNCHANGED <<disk, db, healed, decided, budget>>

-----------------------------------------------------------------------------

Apply ==
    \/ Refuse \/ BeginJournal \/ WriteTransaction \/ StageSourceChange \/ ParkPrior
    \/ PlaceBytes \/ Register \/ OpenProjectionBackup \/ WriteManifest \/ MoveOut
    \/ MoveIn \/ Commit \/ RetireProjection \/ DropBackup

Settle ==
    \/ SettleCommit \/ WriteCommitted \/ DeleteCommitRow
    \/ StampLineage \/ MarkSettled \/ WriteSettled
    \/ RemoveJournal \/ TearJournal

Recover ==
    \/ \E i \in Ids : RecoverJournal(i)
    \/ Recovered \/ RestoreDocument \/ RestoreRename \/ UndoProjection
    \/ DropProjection \/ TearProjection \/ Heal \/ RebuildOut \/ RebuildIn \/ StampRebuild

Fail == FailBeforeCommit \/ FailAfterCommit \/ FailOutright

Next ==
    \/ \E n \in Names, c \in Bytes : Start(n, c)
    \/ Apply \/ Settle \/ Recover \/ Fail \/ Crash \/ Restart

Spec == Init /\ [][Next]_vars

\* The service takes the steps of what it began, and is started again.
Fairness == WF_vars(Apply) /\ WF_vars(Settle) /\ WF_vars(Recover) /\ WF_vars(Restart)

FairSpec == Spec /\ Fairness

-----------------------------------------------------------------------------
(* What must hold.                                                         *)

TypeOK ==
    /\ files \in [Names -> Bytes]
    /\ live \in Projection
    /\ journals \in [Ids -> Journal \cup {Absent}]
    /\ lineage \in Projection
    /\ registry \in [Names -> Bytes]
    /\ commits \in SUBSET Ids
    /\ pc \in Locations
    /\ mode \in Modes
    /\ op \in Operation \cup {Absent}
    /\ cur \in Ids \cup {Absent}
    /\ rolledBack \in BOOLEAN
    /\ healed \in BOOLEAN
    /\ decided \in SUBSET Ids
    /\ budget \in [ops : Nat, crashes : Nat, failures : Nat]

\* The journals recovery would roll back.
Undecided(i) == Readable(i) /\ ~Committed(i)

\* The bytes of n once recovery has rolled its journal back or forward.
RecoveredBytes(n) ==
    IF \E i \in Ids : Undecided(i) /\ journals[i].tx.name = n
    THEN LET j == journals[CHOOSE i \in Ids : Undecided(i) /\ journals[i].tx.name = n]
         IN  IF ~j.tx.prior THEN Absent
             ELSE IF j.backup # Absent THEN j.backup ELSE files[n]
    ELSE files[n]

\* The artifact a once recovery has.
Installing(i) == Undecided(i) /\ IsSource(i) /\ journals[i].proj /\ journals[i].listed

RecoveredArtifact(a) ==
    IF \E i \in Ids : Installing(i)
    THEN LET j == journals[CHOOSE i \in Ids : Installing(i)]
         IN  IF a \notin j.manifest THEN Absent
             ELSE IF j.saved[a] # Absent THEN j.saved[a] ELSE live[a]
    ELSE live[a]

\* Whatever the step the process ends at, recovery can tell a mutation whose
\* transaction committed from one SQLite rolled back: through the settling,
\* where the row is exchanged for a file, the evidence never has a gap.
CommitEvidence ==
    \A i \in Ids : Readable(i) => (Committed(i) <=> i \in decided)

\* The source projection recovery would leave is that of the registry's rows, at
\* every step, but for one a start-up or operation was rewriting without a
\* journal when it stopped: that is what start-up heals.
CorpusFollowsRegistry ==
    healed => \A a \in Artifacts : RecoveredArtifact(a) = Build(registry)[a]

\* A journal is opened only when recovery has emptied the directory, so two
\* mutations never share backups in an order recovery cannot know.
OneJournal == Cardinality(Journalled) <= 1

\* With nothing left to recover, the lineage of every artifact hashes the
\* projection of the registry: no committed source mutation goes unstamped.
LineageCurrent ==
    pc = "idle" /\ Journalled = {} =>
        \A a \in Artifacts : Build(registry)[a] # Absent => lineage[a] = Build(registry)[a]

\* Every journal is resolved, or is one recovery refuses to touch: stops and
\* restarts, at any step of the recovery too, do not keep it for ever.  Only the
\* failure of a recovery's own step leaves it to the next operation or start.
JournalResolved ==
    \A i \in Ids :
        journals[i] # Absent ~>
            \/ journals[i] = Absent
            \/ pc = "idle" /\ (Refused(i) \/ budget.failures > 0)

\* Every request is answered, or ended by the end of the process.
RequestAnswered == op # Absent ~> op = Absent

\* What db.ts says the commit row is for: a mutation that start-up or the next
\* operation rolls back is never one whose transaction committed.
RecoveryDistinguishes ==
    pc = "restore" /\ mode \in {"startup", "operate"} => cur \notin decided

-----------------------------------------------------------------------------
(* The change implements an atomic one.                                    *)

Matter == INSTANCE AtomicMatter WITH
    request <- op,
    applied <- op # Absent /\ mode \in {"apply", "discard"} /\ cur \in decided,
    bytes <- [n \in Names |-> RecoveredBytes(n)],
    index <- registry,
    corpus <- [a \in Artifacts |-> RecoveredArtifact(a)],
    intact <- healed

\* What recovery would leave changes in one step, the commit, together with
\* the registry, and only as requested: a stop or a failure at any other step,
\* and every step of every recovery, changes nothing a reader is promised.
ImplementsAtomicMatter == Matter!Spec

=============================================================================
