---------------------------- MODULE ArtifactWrite ----------------------------
(***************************************************************************)
(* The transactional artifact writer of                                    *)
(* dochaus/lib/artifact-write-transaction.ts: chunks are staged under a    *)
(* transaction's directory, and a commit puts their whole content in the   *)
(* place of the target unless the target has changed since the begin.      *)
(* The direct write of dochaus/tool/write-matter-file.ts shares the target.*)
(*                                                                         *)
(* One run, one stage and one target; several processes, each in one call  *)
(* at a time, for the calls are synchronous.  The first step of a call     *)
(* takes its locks and goes as far as nobody else can see the difference;  *)
(* a call that finds a lock taken, or is refused, changes nothing and is   *)
(* not a step.  A hash stands for what it is the hash of: a checkpoint is  *)
(* the sequence of the chunks so far.                                      *)
(***************************************************************************)
EXTENDS Naturals, Sequences

CONSTANTS
    Processes,
    Contracts,     \* the contract hashes of the stage's identity
    Chunks,
    Transactions,  \* the ids that randomUUID gives
    ChunkLimit,    \* ARTIFACT_WRITE_CHUNK_LIMIT
    Checkpoints,   \* those that a caller may send
    MaxTroubles,   \* bound of the model: direct writes, aborts and crashes, in all
    StageLock,     \* the target's lock of the run
    MutationLock,  \* the target's lock of the matter
    Absent,        \* no file
    Free           \* no lock directory

Content == Seq(Chunks)

\* A transaction.json; initial is the snapshot of the target at the begin.
Transaction ==
    [contract : Contracts, overwrite : BOOLEAN, status : {"open", "committed"},
     chunks : Content, initial : Content \cup {Absent}]

ASSUME CountsAssumption == ChunkLimit \in Nat /\ MaxTroubles \in Nat
ASSUME CheckpointsAssumption == Checkpoints \subseteq Content
ASSUME LocksAssumption ==
    /\ Free \notin Processes
    /\ StageLock \notin Transactions
    /\ MutationLock \notin Transactions \cup {StageLock}
ASSUME AbsentAssumption == Absent \notin Content \cup Transaction \cup Chunks

VARIABLES
    target,   \* the artifact
    meta,     \* each transaction's transaction.json
    files,    \* and its chunk files
    lock,     \* the owner of each lock directory; a transaction's is in its own
    call,     \* what each process is doing
    acked,    \* history: the chunks each transaction's appends have answered, by place
    fate,     \* history: which ids were given out, and began to be aborted
    troubles  \* how many direct writes, aborts and crashes there were

vars == <<target, meta, files, lock, call, acked, fate, troubles>>

Locks == Transactions \cup {StageLock, MutationLock}

\* tx: the transaction it is about; copy: what it will write to
\* transaction.json; left: the locks it will take, or what it is to remove.
Calls ==
    [pc : {"idle", "begin", "discard", "create", "chunk", "record", "mark", "remove", "fill"},
     tx : Transactions \cup {Absent},
     copy : Transaction \cup {Absent},
     left : SUBSET (Transactions \cup {"lock", "chunks", "transaction"})]

Idle == [pc |-> "idle", tx |-> Absent, copy |-> Absent, left |-> {}]

NoFiles == [i \in 1 .. ChunkLimit |-> Absent]

\* The artifact may be there already.
Init ==
    /\ target \in {Absent} \cup {<<c>> : c \in Chunks}
    /\ meta = [t \in Transactions |-> Absent]
    /\ files = [t \in Transactions |-> NoFiles]
    /\ lock = [l \in Locks |-> Free]
    /\ call = [p \in Processes |-> Idle]
    /\ acked = [t \in Transactions |-> {}]
    /\ fate = [t \in Transactions |-> "unborn"]
    /\ troubles = 0

-----------------------------------------------------------------------------

At(p, pc) == call[p].pc = pc

\* p takes locks that are all free.  They are taken one after another, and
\* given back when one is not to be had.
Takes(p, locks) ==
    /\ \A l \in locks : lock[l] = Free
    /\ lock' = [l \in Locks |-> IF l \in locks THEN p ELSE lock[l]]

\* The end of a call: each lock directory that is still its own is removed.
End(p) ==
    /\ call' = [call EXCEPT ![p] = Idle]
    /\ lock' = [l \in Locks |-> IF lock[l] = p THEN Free ELSE lock[l]]

Goes(p, pc, tx, copy, left) ==
    call' = [call EXCEPT ![p] = [pc |-> pc, tx |-> tx, copy |-> copy, left |-> left]]

Trouble == troubles < MaxTroubles /\ troubles' = troubles + 1

Open == {t \in Transactions : meta[t] # Absent /\ meta[t].status = "open"}

\* requireArtifactWriteTransaction: a transaction of this identity.
Required(t, c) == meta[t] # Absent /\ meta[t].contract = c

\* artifactWriteTargetChanged
Changed(tx) == target # tx.initial

\* Each chunk's file holds what was recorded of it.
Readable(t, chunks) == \A i \in DOMAIN chunks : files[t][i] = chunks[i]

-----------------------------------------------------------------------------

\* begin lists the open transactions without a lock, to know which to lock.
Begin(p) ==
    /\ At(p, "idle")
    /\ Goes(p, "begin", Absent, Absent, Open)
    /\ UNCHANGED <<target, meta, files, lock, acked, fate, troubles>>

\* Mutant: a transaction of another contract is discarded with its chunks.
Discardable_AnyProgress(t, c) ==
    meta[t].contract # c \/ (meta[t].chunks = <<>> /\ Changed(meta[t]))

\* What begin discards: empty, and of another contract or another target.
Discardable(t, c) ==
    meta[t].chunks = <<>> /\ (meta[t].contract # c \/ Changed(meta[t]))

Fresh(c, overwrite) ==
    [contract |-> c, overwrite |-> overwrite, status |-> "open", chunks |-> <<>>,
     initial |-> Absent]

\* Mutant: the first list is the one that is reconciled.
Reconcile_FirstList(p, c, overwrite) ==
    LET open == {t \in call[p].left : t \in Open}
        discarded == {t \in open : Discardable(t, c)}
        kept == open \ discarded
    IN  /\ At(p, "begin")
        /\ Takes(p, call[p].left \cup {StageLock})
        /\ \A t \in kept : meta[t].contract = c
        /\ Goes(p, "discard", Absent, IF kept = {} THEN Fresh(c, overwrite) ELSE Absent, discarded)
        /\ UNCHANGED <<target, meta, files, acked, fate, troubles>>

\* It lists them again under those locks.  It ends when one that it would
\* discard is not locked, or another contract has made progress in one; else it
\* discards, and returns the one that is left, or makes one.
Reconcile(p, c, overwrite) ==
    LET discarded == {t \in Open : Discardable(t, c)}
        kept == Open \ discarded
    IN  /\ At(p, "begin")
        /\ Takes(p, call[p].left \cup {StageLock})
        /\ discarded \subseteq call[p].left
        /\ \A t \in kept : meta[t].contract = c
        /\ Goes(p, "discard", Absent, IF kept = {} THEN Fresh(c, overwrite) ELSE Absent, discarded)
        /\ UNCHANGED <<target, meta, files, acked, fate, troubles>>

\* The directory is renamed, with the lock in it, and then removed.
Discard(p) ==
    /\ At(p, "discard")
    /\ \E t \in call[p].left :
        /\ meta' = [meta EXCEPT ![t] = Absent]
        /\ files' = [files EXCEPT ![t] = NoFiles]
        /\ lock' = [lock EXCEPT ![t] = Free]
        /\ call' = [call EXCEPT ![p].left = @ \ {t}]
    /\ UNCHANGED <<target, acked, fate, troubles>>

\* The target may be replaced; the read that follows takes its snapshot.
Permit(p) ==
    /\ At(p, "discard")
    /\ call[p].left = {}
    /\ call[p].copy # Absent
    /\ target # Absent => call[p].copy.overwrite
    /\ Goes(p, "create", Absent, call[p].copy, {})
    /\ UNCHANGED <<target, meta, files, lock, acked, fate, troubles>>

\* begin ends without a new transaction: one that was listed is locked, one
\* is returned or in the way, or the target is there and not to be replaced.
Return(p) ==
    /\ At(p, "begin") \/ (At(p, "discard") /\ call[p].left = {})
    /\ End(p)
    /\ UNCHANGED <<target, meta, files, acked, fate, troubles>>

\* A new id; what the target holds now is what a commit may replace.
Create(p, t) ==
    /\ At(p, "create")
    /\ fate[t] = "unborn"
    /\ fate' = [fate EXCEPT ![t] = "born"]
    /\ meta' = [meta EXCEPT ![t] = [call[p].copy EXCEPT !.initial = target]]
    /\ End(p)
    /\ UNCHANGED <<target, files, acked, troubles>>

-----------------------------------------------------------------------------

\* A chunk is taken at the end only, from a caller that knows what precedes it,
\* and the first one only while the target is what it was.
Acceptable(tx, i, checkpoint) ==
    /\ tx.status = "open"
    /\ tx.chunks = <<>> => ~Changed(tx)
    /\ i = Len(tx.chunks) + 1
    /\ checkpoint = tx.chunks

\* A repeated chunk is answered as the first time, without a change.  A begin
\* with a first chunk is a begin, and this.
AppendChunk(p, t, c, i, checkpoint, chunk) ==
    /\ At(p, "idle")
    /\ Required(t, c)
    /\ Acceptable(meta[t], i, checkpoint)
    /\ i <= ChunkLimit
    /\ Takes(p, {t})
    /\ Goes(p, "chunk", t,
            [meta[t] EXCEPT !.chunks = Append(@, chunk)], {})
    /\ UNCHANGED <<target, meta, files, acked, fate, troubles>>

LastOf(chunks) == <<Len(chunks), chunks[Len(chunks)]>>

\* Mutant: transaction.json is written before the chunk's file.
WriteChunk_RecordFirst(p) ==
    /\ At(p, "chunk")
    /\ meta' = [meta EXCEPT ![call[p].tx] = call[p].copy]
    /\ acked' = [acked EXCEPT ![call[p].tx] = @ \cup {LastOf(call[p].copy.chunks)}]
    /\ call' = [call EXCEPT ![p].pc = "record"]
    /\ UNCHANGED <<target, files, lock, fate, troubles>>

\* The chunk's file, written aside and renamed.
WriteChunk(p) ==
    LET chunks == call[p].copy.chunks
    IN  /\ At(p, "chunk")
        /\ files' = [files EXCEPT ![call[p].tx][Len(chunks)] = chunks[Len(chunks)]]
        /\ call' = [call EXCEPT ![p].pc = "record"]
        /\ UNCHANGED <<target, meta, lock, acked, fate, troubles>>

\* The chunks before it are read for the new checkpoint, and the transaction is
\* written with it; a chunk that cannot be read ends the call.
Record(p) ==
    LET t == call[p].tx
        chunks == call[p].copy.chunks
    IN  /\ At(p, "record")
        /\ IF Readable(t, SubSeq(chunks, 1, Len(chunks) - 1))
           THEN /\ meta' = [meta EXCEPT ![t] = call[p].copy]
                /\ acked' = [acked EXCEPT ![t] = @ \cup {LastOf(chunks)}]
           ELSE UNCHANGED <<meta, acked>>
        /\ End(p)
        /\ UNCHANGED <<target, files, fate, troubles>>

-----------------------------------------------------------------------------

\* Mutant: only a target that was there at the begin is compared.
Replaceable_WhenAbsent(tx) == tx.initial = Absent \/ ~Changed(tx)

\* The target is as it was at the begin, or holds the content already.
Replaceable(tx) == target = tx.chunks \/ ~Changed(tx)

\* Mutant: a status that the reader of transaction.json does not know.
Marked_Unknown(tx) == [tx EXCEPT !.status = "published"]

Marked(tx) == [tx EXCEPT !.status = "committed"]

\* Under the mutation lock nobody else writes the target between the comparison
\* and the rename.  Content that is there is only marked, and a replay of a
\* committed transaction changes nothing, whatever it answers.
Commit(p, t, c, checkpoint) ==
    /\ At(p, "idle")
    /\ Required(t, c)
    /\ checkpoint = meta[t].chunks
    /\ Readable(t, meta[t].chunks)
    /\ meta[t].status = "open"
    /\ Replaceable(meta[t])
    /\ Takes(p, {t, StageLock, MutationLock})
    /\ target' = meta[t].chunks
    /\ Goes(p, "mark", t, Marked(meta[t]), {})
    /\ UNCHANGED <<meta, files, acked, fate, troubles>>

\* markArtifactWriteCommitted
Mark(p) ==
    /\ At(p, "mark")
    /\ meta' = [meta EXCEPT ![call[p].tx] = call[p].copy]
    /\ End(p)
    /\ UNCHANGED <<target, files, acked, fate, troubles>>

-----------------------------------------------------------------------------

Abort(p, t, c) ==
    /\ At(p, "idle")
    /\ Trouble
    /\ Required(t, c)
    /\ meta[t].status = "open"
    /\ Takes(p, {t})
    /\ Goes(p, "remove", t, Absent, {"lock", "chunks", "transaction"})
    /\ fate' = [fate EXCEPT ![t] = "aborted"]
    /\ UNCHANGED <<target, meta, files, acked>>

\* rmSync takes the directory's entries one by one, as the file system lists
\* them; the lock is one of them.
Remove(p) ==
    LET t == call[p].tx
    IN  /\ At(p, "remove")
        /\ \E part \in call[p].left :
            /\ call' = [call EXCEPT ![p].left = @ \ {part}]
            /\ lock' = IF part = "lock" THEN [lock EXCEPT ![t] = Free] ELSE lock
            /\ files' = IF part = "chunks" THEN [files EXCEPT ![t] = NoFiles] ELSE files
            /\ meta' = IF part = "transaction" THEN [meta EXCEPT ![t] = Absent] ELSE meta
        /\ UNCHANGED <<target, acked, fate, troubles>>

Removed(p) ==
    /\ At(p, "remove")
    /\ call[p].left = {}
    /\ End(p)
    /\ UNCHANGED <<target, meta, files, acked, fate, troubles>>

-----------------------------------------------------------------------------

\* The complete write of the tool: the file is cut to nothing, then filled.
Write(p, overwrite) ==
    /\ At(p, "idle")
    /\ Trouble
    /\ Takes(p, {MutationLock})
    /\ target # Absent => overwrite
    /\ target' = <<>>
    /\ Goes(p, "fill", Absent, Absent, {})
    /\ UNCHANGED <<meta, files, acked, fate>>

Fill(p, chunk) ==
    /\ At(p, "fill")
    /\ target' = <<chunk>>
    /\ End(p)
    /\ UNCHANGED <<meta, files, acked, fate, troubles>>

\* The process ends and another takes its place.  Its locks have a dead owner,
\* and are there for the taking after a minute (DirectoryLock).
Crash(p) ==
    /\ ~At(p, "idle")
    /\ Trouble
    /\ End(p)
    /\ UNCHANGED <<target, meta, files, acked, fate>>

-----------------------------------------------------------------------------

Step(p) ==
    \/ Begin(p) \/ Discard(p) \/ Permit(p) \/ Return(p)
    \/ \E c \in Contracts, overwrite \in BOOLEAN : Reconcile(p, c, overwrite)
    \/ \E t \in Transactions : Create(p, t)
    \/ \E t \in Transactions, c \in Contracts, chunk \in Chunks, checkpoint \in Checkpoints :
        \E i \in 1 .. ChunkLimit : AppendChunk(p, t, c, i, checkpoint, chunk)
    \/ WriteChunk(p) \/ Record(p)
    \/ \E t \in Transactions, c \in Contracts, checkpoint \in Checkpoints :
        Commit(p, t, c, checkpoint)
    \/ Mark(p)
    \/ \E t \in Transactions, c \in Contracts : Abort(p, t, c)
    \/ Remove(p) \/ Removed(p)
    \/ \E overwrite \in BOOLEAN : Write(p, overwrite)
    \/ \E chunk \in Chunks : Fill(p, chunk)
    \/ Crash(p)

Next == \E p \in Processes : Step(p)

Spec == Init /\ [][Next]_vars

-----------------------------------------------------------------------------

TypeOK ==
    /\ target \in Content \cup {Absent}
    /\ meta \in [Transactions -> Transaction \cup {Absent}]
    /\ files \in [Transactions -> [1 .. ChunkLimit -> Chunks \cup {Absent}]]
    /\ lock \in [Locks -> Processes \cup {Free}]
    /\ call \in [Processes -> Calls]
    /\ acked \in [Transactions -> SUBSET (Nat \X Chunks)]
    /\ fate \in [Transactions -> {"unborn", "born", "aborted"}]
    /\ troubles \in 0 .. MaxTroubles

\* Of the transactions that nobody began to abort, at most one is open: a begin
\* resumes or reconciles the one that is there, though it looked for it without
\* a lock, and others append, commit and die meanwhile.
OneOpen ==
    \A t, u \in Open : fate[t] = "aborted" \/ fate[u] = "aborted" \/ t = u

\* What an append has answered stays, and can be read back, until somebody
\* aborts the transaction: through repeated and conflicting appends, a begin of
\* another contract, commits, and a process that ends anywhere.
ProgressKept ==
    \A t \in Transactions : fate[t] # "aborted" => \A a \in acked[t] :
        /\ meta[t] # Absent
        /\ a[1] \in DOMAIN meta[t].chunks
        /\ a[2] = meta[t].chunks[a[1]]
        /\ a[2] = files[t][a[1]]

\* p puts the content of its transaction in the target's place.
Publishes(p) == ~At(p, "mark") /\ call'[p].pc = "mark"

\* A commit is a compare-and-swap: it replaces what the target held when the
\* transaction began, or the same content, that a commit which was cut short
\* put there, by all the chunks whose appends were answered, in their order.
CommitIsSwap ==
    [][\A p \in Processes : Publishes(p) =>
        LET t == call'[p].tx
        IN  /\ target \in {meta[t].initial, target'}
            /\ acked[t] = {<<i, target'[i]>> : i \in DOMAIN target'}]_vars
=============================================================================
