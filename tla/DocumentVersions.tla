--------------------------- MODULE DocumentVersions ---------------------------
(***************************************************************************)
(* The versions of a matter's documents, of                                *)
(* services/ingest/src/document-versions.ts: their rows in legal.db, and   *)
(* their bytes in .dochaus/revisions/<document>/, which are stored before  *)
(* the transaction that makes the rows, and deleted after the one that     *)
(* redacts or removes them, at once or when the service next starts.       *)
(*                                                                         *)
(* A writer holds the lock of the matter's source corpus throughout, so    *)
(* there is one operation at a time, op.  Its rows change as               *)
(* DocumentMutation shows that they do: a commit, or a roll-back of the    *)
(* journal.  Nobody else heeds the lock: a working file may be saved from  *)
(* outside between any two steps.  Bytes are told apart by equality, as by *)
(* their hash; a version's number is its place in rows, and the last one   *)
(* is current.                                                             *)
(***************************************************************************)
EXTENDS Naturals, Sequences

CONSTANTS
    Names,
    Ids,          \* of versioned documents, as randomUUID gives them
    Contents,
    Absent,
    MaxWrites,    \* bound of the model: the operations
    MaxTroubles   \* bound of the model: stops, failures, changes from outside

Document == [name : Names, removed : BOOLEAN]
Version == [content : Contents, removed : BOOLEAN]

\* existed is prior_exists of transaction.json, backup is document.bak.
Journal == [name : Names, existed : BOOLEAN, backup : Contents \cup {Absent}]

ASSUME BoundsAssumption == MaxWrites \in Nat /\ MaxTroubles \in Nat
ASSUME AbsentAssumption == Absent \notin Names \cup Ids \cup Contents \cup Document \cup Journal

VARIABLES
    file,        \* the working files
    registered,  \* the names of the documents in the registry
    docs,        \* versioned_documents
    rows,        \* document_versions, of each document in their order
    stored,      \* the contents under each document's directory
    journal,     \* an unfinished mutation, and what it has put aside
    mode,        \* the service
    op,          \* what it is doing
    owed,        \* history: documents with bytes left to the next start
    written,     \* history: the bytes that a document's writes wrote and put aside
    budget       \* operations and troubles so far

durable == <<file, registered, docs, rows, stored, journal>>
history == <<owed, written>>
vars == <<durable, mode, op, history, budget>>

\* What captures versions: any write, one that redacts, one that puts back a
\* kept version, one that makes a document of another's; and the delete.
Kinds == {"write", "redaction", "restore", "derive", "delete"}

\* doc and source are the ids of the document and of the one it is made from;
\* staged is a VersionStage; todo, what is to be stored, or then deleted.
Operation ==
    [pc : {"idle", "stage", "park", "place", "capture", "settle", "purge"},
     kind : Kinds, name : Names \cup {Absent}, content : Contents \cup {Absent},
     doc : Ids \cup {Absent}, from : Names \cup {Absent}, source : Ids \cup {Absent},
     prior : Contents \cup {Absent}, found : Contents \cup {Absent},
     staged : SUBSET (Ids \X Contents), todo : SUBSET (Ids \X Contents)]

Idle ==
    [pc |-> "idle", kind |-> "write", name |-> Absent, content |-> Absent,
     doc |-> Absent, from |-> Absent, source |-> Absent, prior |-> Absent,
     found |-> Absent, staged |-> {}, todo |-> {}]

\* A matter may have documents from before there were versions.
Init ==
    /\ file \in [Names -> Contents \cup {Absent}]
    /\ registered = {n \in Names : file[n] # Absent}
    /\ docs = [i \in Ids |-> Absent]
    /\ rows = [i \in Ids |-> <<>>]
    /\ stored = [i \in Ids |-> {}]
    /\ journal = Absent
    /\ mode = "serving"
    /\ op = Idle
    /\ owed = {}
    /\ written = {}
    /\ budget = [writes |-> 0, troubles |-> 0]

-----------------------------------------------------------------------------

At(pc) == op.pc = pc

Trouble ==
    /\ budget.troubles < MaxTroubles
    /\ budget' = [budget EXCEPT !.troubles = @ + 1]

\* liveDocument
Live(n) == {i \in Ids : docs[i] # Absent /\ docs[i].name = n /\ ~docs[i].removed}

\* Mutant: every write makes a document.
IsDocumentOf_New(i, n) == docs[i] = Absent /\ stored[i] = {}

\* documentOf: the live document of the name, or a new id.
IsDocumentOf(i, n) ==
    \/ i \in Live(n)
    \/ Live(n) = {} /\ docs[i] = Absent /\ stored[i] = {}

IsLive(i) == docs[i] # Absent /\ ~docs[i].removed

\* The contents that kept versions of a document hold, and those of versions
\* that a redaction or the removal of the document has removed.
Kept(i) ==
    IF IsLive(i)
    THEN {rows[i][k].content : k \in {k \in DOMAIN rows[i] : ~rows[i][k].removed}}
    ELSE {}

Removed(i) == {rows[i][k].content : k \in DOMAIN rows[i]} \ Kept(i)

Current(i) == IF rows[i] = <<>> THEN Absent ELSE rows[i][Len(rows[i])].content

-----------------------------------------------------------------------------

\* What a write of this kind may be asked for.
May(kind, n, c, from, i) ==
    /\ kind \in {"redaction", "restore"} => n \in registered
    /\ kind = "restore" => i \in Live(n) /\ c \in Kept(i) \cap stored[i] /\ file[n] # c
    /\ IF kind = "derive"
       THEN /\ from \in registered \ {n}
            /\ file[from] # Absent
            /\ file[n] = Absent /\ n \notin registered
       ELSE from = Absent

\* stageVersionBytes: the new bytes, and those of the working file unless this
\* is a redaction.
ToStage(kind, n, c, i) ==
    {<<i, x>> : x \in {c} \cup (IF kind = "redaction" THEN {} ELSE {file[n]} \ {Absent})}

Journalled(n) == [name |-> n, existed |-> file[n] # Absent, backup |-> Absent]

Begin(kind, n, c, from, i) ==
    /\ mode = "serving" /\ At("idle") /\ journal = Absent
    /\ budget.writes < MaxWrites
    /\ IsDocumentOf(i, n)
    /\ May(kind, n, c, from, i)
    /\ op' = [Idle EXCEPT !.pc = "stage", !.kind = kind, !.name = n, !.content = c,
                          !.doc = i, !.from = from, !.todo = ToStage(kind, n, c, i)]
    /\ journal' = Journalled(n)
    /\ budget' = [budget EXCEPT !.writes = @ + 1]
    /\ UNCHANGED <<file, registered, docs, rows, stored, mode, history>>

BeginDelete(n) ==
    /\ mode = "serving" /\ At("idle") /\ journal = Absent
    /\ budget.writes < MaxWrites
    /\ n \in registered
    /\ \E i \in IF Live(n) = {} THEN {Absent} ELSE Live(n) :
        op' = [Idle EXCEPT !.pc = "stage", !.kind = "delete", !.name = n, !.doc = i]
    /\ journal' = Journalled(n)
    /\ budget' = [budget EXCEPT !.writes = @ + 1]
    /\ UNCHANGED <<file, registered, docs, rows, stored, mode, history>>

\* storeVersionBytes: a file that is renamed into place.
Store(i, x) ==
    /\ At("stage") \/ At("capture")
    /\ <<i, x>> \in op.todo
    /\ stored' = [stored EXCEPT ![i] = @ \cup {x}]
    /\ op' = [op EXCEPT !.todo = @ \ {<<i, x>>},
                        !.staged = IF At("stage") THEN @ \cup {<<i, x>>} ELSE @]
    /\ UNCHANGED <<file, registered, docs, rows, journal, mode, history, budget>>

-----------------------------------------------------------------------------

\* Mutant: bytes that some version held once are taken for kept.
NewPrior_HeldOnce(o) ==
    /\ o.kind # "redaction"
    /\ o.prior \notin {Absent, o.content} \cup {rows[o.doc][k].content : k \in DOMAIN rows[o.doc]}

\* The replaced bytes become a version, unless they are the current one's, or
\* the write's own, or redacted.
NewPrior(o) ==
    /\ o.kind # "redaction"
    /\ o.prior \notin {Absent, Current(o.doc), o.content}

\* So do the bytes of the document this one is made from (currentOrFoundVersion).
NewFound(o) == o.found # Absent /\ o.found # Current(o.source)

NewContent(o) == o.content # IF NewPrior(o) THEN o.prior ELSE Current(o.doc)

\* Mutant: a write with a stage stores nothing more of its own document.
Unstored_Staged(o) == IF NewFound(o) THEN {<<o.source, o.found>>} ELSE {}

\* What the capture still has to store: the file may have been changed since it
\* was staged.
Unstored(o) ==
    ({<<o.doc, o.content>>}
        \cup (IF NewPrior(o) THEN {<<o.doc, o.prior>>} ELSE {})
        \cup (IF NewFound(o) THEN {<<o.source, o.found>>} ELSE {})) \ o.staged

\* Whether there is a file to put aside is looked up once.
AfterParking == IF op.kind = "delete" THEN "capture" ELSE "place"
Look ==
    /\ At("stage") /\ op.todo = {}
    /\ op' = [op EXCEPT !.pc = IF file[op.name] # Absent THEN "park" ELSE AfterParking]
    /\ UNCHANGED <<durable, mode, history, budget>>

\* Whatever is at the path by now is renamed to the journal's backup.
Park ==
    /\ At("park") /\ file[op.name] # Absent
    /\ journal' = [journal EXCEPT !.backup = file[op.name]]
    /\ file' = [file EXCEPT ![op.name] = Absent]
    /\ op' = [op EXCEPT !.pc = AfterParking]
    /\ UNCHANGED <<registered, docs, rows, stored, mode, history, budget>>

\* The new bytes are renamed into place, over whatever is there, and the
\* transaction opens.  A document without an id that this one is made from
\* gets one now.
Place(j) ==
    LET o == [op EXCEPT !.pc = "capture", !.prior = journal.backup, !.source = j,
                        !.found = IF op.from = Absent THEN Absent ELSE file[op.from]]
    IN  /\ At("place")
        /\ IF op.from = Absent THEN j = Absent ELSE j # op.doc /\ j # Absent /\ IsDocumentOf(j, op.from)
        /\ file' = [file EXCEPT ![op.name] = op.content]
        /\ op' = [o EXCEPT !.todo = Unstored(o)]
        /\ UNCHANGED <<registered, docs, rows, stored, journal, mode, history, budget>>

NewVersion(x) == [content |-> x, removed |-> FALSE]

\* The rows of the document after the capture; a redaction marks those of
\* every other content.
Captured(o) ==
    LET some == IF NewPrior(o) THEN Append(rows[o.doc], NewVersion(o.prior)) ELSE rows[o.doc]
        all == IF NewContent(o) THEN Append(some, NewVersion(o.content)) ELSE some
    IN  [k \in DOMAIN all |->
            [all[k] EXCEPT !.removed = @ \/ (o.kind = "redaction" /\ all[k].content # o.content)]]

\* The bytes the history holds a write to: those it wrote, those it put aside,
\* and those it found in the document it made this one from.
Promised(o) ==
    ({<<o.doc, o.content>>, <<o.doc, o.prior>>} \cap (Ids \X Contents))
        \cup (IF o.found = Absent THEN {} ELSE {<<o.source, o.found>>})

\* The transaction with the rows of a write (captureVersion) commits, and the
\* journal will not be rolled back any more.
CommitWrite ==
    LET i == op.doc
        j == op.source
    IN  /\ At("capture") /\ op.kind # "delete" /\ op.todo = {}
        /\ registered' = registered \cup {op.name}
        /\ docs' = [d \in Ids |->
                IF d = i THEN [name |-> op.name, removed |-> FALSE]
                ELSE IF d = j /\ op.found # Absent THEN [name |-> op.from, removed |-> FALSE]
                ELSE docs[d]]
        /\ rows' = [d \in Ids |->
                IF d = i THEN Captured(op)
                ELSE IF d = j /\ NewFound(op) THEN Append(rows[d], NewVersion(op.found))
                ELSE rows[d]]
        /\ written' =
                IF op.kind = "redaction"
                THEN {w \in written : w[1] # i} \cup {<<i, op.content>>}
                ELSE written \cup Promised(op)
        /\ owed' = owed \cup {d \in Ids : \E s \in op.staged : s[1] = d /\ s[2] \notin Kept(d)'}
        /\ journal' = Absent
        /\ op' = [op EXCEPT !.pc = "settle"]
        /\ UNCHANGED <<file, stored, mode, budget>>

\* That of a delete (detachVersionedDocument).
CommitDelete ==
    /\ At("capture") /\ op.kind = "delete"
    /\ registered' = registered \ {op.name}
    /\ docs' = [d \in Ids |->
            IF d \in Live(op.name) THEN [docs[d] EXCEPT !.removed = TRUE] ELSE docs[d]]
    /\ written' = {w \in written : w[1] # op.doc}
    /\ journal' = Absent
    /\ op' = [op EXCEPT !.pc = "settle"]
    /\ UNCHANGED <<file, rows, stored, mode, owed, budget>>

-----------------------------------------------------------------------------

\* Mutant: the files of the removed versions are deleted, whatever else holds them.
Unkept_Removed(i) ==
    {<<i, rows[i][k].content>> : k \in {k \in DOMAIN rows[i] : rows[i][k].removed \/ docs[i].removed}}
        \cap {<<i, x>> : x \in stored[i]}

\* purgeVersionBytes: the stored files of a document that no kept version holds.
Unkept(i) == {<<i, x>> : x \in stored[i] \ Kept(i)}

\* The mutation is completed; a redaction and a delete then purge.
Settle ==
    /\ At("settle")
    /\ op' = IF op.kind \in {"redaction", "delete"} /\ op.doc # Absent
             THEN [Idle EXCEPT !.pc = "purge", !.todo = Unkept(op.doc)]
             ELSE Idle
    /\ UNCHANGED <<durable, mode, history, budget>>

\* An error after the commit goes to the caller, and nothing is purged.
SettleFails ==
    /\ At("settle")
    /\ Trouble
    /\ owed' = owed \cup (IF op.kind \in {"redaction", "delete"} THEN {op.doc} \ {Absent} ELSE {})
    /\ op' = Idle
    /\ UNCHANGED <<durable, mode, written>>

Purge(i, x) ==
    /\ At("purge")
    /\ <<i, x>> \in op.todo
    /\ stored' = [stored EXCEPT ![i] = @ \ {x}]
    /\ op' = [op EXCEPT !.todo = @ \ {<<i, x>>}]
    /\ UNCHANGED <<file, registered, docs, rows, journal, mode, history, budget>>

PurgeEnds ==
    /\ At("purge") /\ op.todo = {}
    /\ op' = Idle
    /\ UNCHANGED <<durable, mode, history, budget>>

\* One that cannot be deleted ends the purge, and a sweep, with the rest left.
PurgeFails ==
    /\ At("purge") /\ op.todo # {}
    /\ Trouble
    /\ owed' = owed \cup {d \in Ids : \E s \in op.todo : s[1] = d}
    /\ op' = Idle
    /\ UNCHANGED <<durable, mode, written>>

-----------------------------------------------------------------------------

\* restoreUncommittedDocument, of a file as the writer left it.
Restored(left) ==
    IF ~journal.existed THEN Absent
    ELSE IF journal.backup # Absent THEN journal.backup ELSE left

RollsBack(left) ==
    /\ file' = [file EXCEPT ![journal.name] = Restored(left)]
    /\ journal' = Absent
    /\ UNCHANGED <<registered, docs, rows, stored>>

\* A step before the commit fails, as the parking of a file that is gone by
\* then must: a file that was placed is removed, and the mutation discarded.
\* What was stored stays.
Fails ==
    /\ op.pc \in {"stage", "park", "place", "capture"}
    /\ IF At("park") /\ file[op.name] = Absent THEN UNCHANGED budget ELSE Trouble
    /\ RollsBack(IF At("capture") /\ op.kind # "delete" THEN Absent ELSE file[op.name])
    /\ owed' = owed \cup ({op.doc, op.source} \ {Absent})
    /\ op' = Idle
    /\ UNCHANGED <<mode, written>>

Crash ==
    /\ mode # "down"
    /\ Trouble
    /\ op' = Idle
    /\ mode' = "down"
    /\ UNCHANGED <<durable, history>>

Restart ==
    /\ mode = "down"
    /\ mode' = "starting"
    /\ UNCHANGED <<durable, op, history, budget>>

\* recoverDocumentMutations, at the start or before the next operation.
Recover ==
    /\ mode # "down" /\ At("idle") /\ journal # Absent
    /\ RollsBack(file[journal.name])
    /\ UNCHANGED <<mode, op, history, budget>>

\* The recovery throws, also on a journal that is settled: the service serves
\* without the sweep.
RecoveryFails ==
    /\ mode = "starting" /\ At("idle")
    /\ Trouble
    /\ mode' = "serving"
    /\ owed' = Ids
    /\ UNCHANGED <<durable, op, written>>

\* Mutant: the versions that redactions removed are not swept.
Sweepable_Documents(i) == docs[i] # Absent /\ docs[i].removed

\* sweepRemovedVersionBytes lists the removed documents, and those with removed
\* versions.
Sweepable(i) ==
    docs[i] # Absent /\ (docs[i].removed \/ \E k \in DOMAIN rows[i] : rows[i][k].removed)

\* The sweep at the start; only then does the service serve.
Sweep ==
    /\ mode = "starting" /\ journal = Absent
    /\ mode' = "serving"
    /\ op' = [Idle EXCEPT !.pc = "purge", !.todo = UNION {Unkept(i) : i \in {i \in Ids : Sweepable(i)}}]
    /\ owed' = {}
    /\ UNCHANGED <<durable, written, budget>>

\* Somebody else saves or removes a working file, at whatever time.
OutsideChange(n, c) ==
    /\ c # file[n]
    /\ Trouble
    /\ file' = [file EXCEPT ![n] = c]
    /\ UNCHANGED <<registered, docs, rows, stored, journal, mode, op, history>>

\* recordVersionEvent: an event may make the document, without a version.
RecordEvent(n, i) ==
    /\ mode = "serving" /\ At("idle")
    /\ n \in registered
    /\ Live(n) = {} /\ IsDocumentOf(i, n)
    /\ docs' = [docs EXCEPT ![i] = [name |-> n, removed |-> FALSE]]
    /\ UNCHANGED <<file, registered, rows, stored, journal, mode, op, history, budget>>

-----------------------------------------------------------------------------

Next ==
    \/ \E kind \in Kinds \ {"delete"}, n \in Names, c \in Contents, i \in Ids :
        \E from \in Names \cup {Absent} : Begin(kind, n, c, from, i)
    \/ \E n \in Names : BeginDelete(n)
    \/ \E i \in Ids, x \in Contents : Store(i, x) \/ Purge(i, x)
    \/ Look \/ Park
    \/ \E j \in Ids \cup {Absent} : Place(j)
    \/ CommitWrite \/ CommitDelete
    \/ Settle \/ SettleFails \/ PurgeEnds \/ PurgeFails
    \/ Fails \/ Crash \/ Restart \/ Recover \/ RecoveryFails \/ Sweep
    \/ \E n \in Names, c \in Contents \cup {Absent} : OutsideChange(n, c)
    \/ \E n \in Names, i \in Ids : RecordEvent(n, i)

Spec == Init /\ [][Next]_vars

-----------------------------------------------------------------------------

\* With the index of legal.db: one live document of a name.
TypeOK ==
    /\ file \in [Names -> Contents \cup {Absent}]
    /\ registered \subseteq Names
    /\ docs \in [Ids -> Document \cup {Absent}]
    /\ rows \in [Ids -> Seq(Version)]
    /\ stored \in [Ids -> SUBSET Contents]
    /\ journal \in Journal \cup {Absent}
    /\ mode \in {"down", "starting", "serving"}
    /\ op \in Operation
    /\ owed \subseteq Ids
    /\ written \subseteq Ids \X Contents
    /\ budget \in [writes : 0 .. MaxWrites, troubles : 0 .. MaxTroubles]
    /\ \A i \in Ids : docs[i] = Absent => rows[i] = <<>>
    /\ \A n \in Names : \A i, j \in Live(n) : i = j

\* A version that is listed as kept can be read and restored: no stop between
\* its bytes and its row, no purge, and no file changed under a write in the
\* middle of it leaves a row without bytes.
KeptAreStored == \A i \in Ids : Kept(i) \subseteq stored[i]

\* No write loses the bytes it handles: what a write of a document wrote, what
\* it put aside, whoever had saved it, and what it found in the document it
\* copied, is a kept version until the document is redacted or removed.  (A save
\* from outside after the write has looked, or put aside, is none of these.)
NothingLost == \A w \in written : w[2] \in Kept(w[1])

\* What a redaction or a delete removed is gone from the document's store once
\* it has purged, or the service has started again: but for what failed
\* writes left, or could not be deleted, since that start.
RemovedAreGone ==
    mode = "serving" /\ At("idle") =>
        \A i \in Ids \ owed : stored[i] \cap Removed(i) = {}
=============================================================================
