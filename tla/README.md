# doc.haus: a TLA+ verification of the matter store and its writers

doc.haus is a legal workspace. A *matter* is a directory of documents, a SQLite
registry (`.dochaus/legal.db`) that indexes them, and a *source projection*, a
set of derived files that a language model reads. An ingest service
(`services/ingest`) writes the matter; agents reach it through the engine
(`packages/core`, a fork of OpenCode) and its tools (`dochaus/`), people through
a web client (`apps/web`) and a Word add-in (`apps/word-addin`).

What can go wrong here is rarely a wrong computation. It is a process that ends
between two of the durable steps of a document change, a lock that two
processes break at once, a lost HTTP answer after which a Word pane does not
know whether an edit happened, a prompt that arrives while the turn it should
join is ending. The modules in this directory state what must
hold then; TLC checks it over all interleavings of small instances, and TLAPS
proves the most important parts for every instance.

Contents: [the system](#the-system), [the modules](#the-modules),
[the runs](#the-runs), [the proofs](#the-proofs),
[what the code does not keep](#what-the-code-does-not-keep),
[what is not modelled](#what-is-not-modelled), [the plan](#the-plan).

## The system

### Components

| component | state | operations | module |
|---|---|---|---|
| Document mutations: `services/ingest/src/document-mutation.ts`, `atomic-document-write.ts` | `.dochaus/document-mutations/<id>/`: `transaction.json`, `document.bak`, the projection transaction, `lineage-intent`, `database-committed.json`, `lineage-settled`; the row in `document_mutation_commits` | begin, write, register, commit, settle, finalize, complete, discard, recover | `DocumentMutation` |
| Source projection: `source-artifacts.ts`, lineage rows | the artifact files and the lineage rows that hash them | stage, install, retire, undo, heal, rebuild | `DocumentMutation` |
| Writers: `ingest.ts`, `deliverable.ts`, `document-delete.ts` | document bytes and registry rows | ingest, deliver, delete | `DocumentMutation` (their common order of durable steps) |
| Start-up of the service: `server.ts` | none of its own | recover, heal, serve | `DocumentMutation` (`Restart`, `Recovered`, `Heal`) |
| Directory lock: `dochaus/lib/directory-lock.ts` | one directory with `owner.json`; the set of locks a process owns asynchronously | acquire (synchronously, asynchronously, nested), break a stale lock, release | `DirectoryLock` |
| Word edit lease: `dochaus/lib/word-edit-lease.ts` | one row of `word_edit_leases` per document: owner, generation, expiry, the native operation and its outcome; `word_chat_applied` | claim, take over, renew, release, begin and settle a native edit, save, recover, revoke | `WordLease` |
| Word routes and pane: `word-documents.ts`, `apps/word-addin/src/sync.ts`, `client.ts` | the pane's connection, pending export, acknowledgement, uncertain edit; requests under way | a queue of commands, each a chain of HTTP requests with a 30 s deadline | `WordEditing` |
| Document versions: `document-versions.ts` | rows in `versioned_documents` and `document_versions`, kept bytes under `.dochaus/revisions` | stage, capture, restore, redact, detach, purge, sweep | `DocumentVersions` |
| Artifact writes: `dochaus/lib/artifact-write-transaction.ts`, `mutation-lock.ts` | per run and target, a `transaction.json` and its chunk files; two lock directories | begin, append, commit, abort; the tool's direct write | `ArtifactWrite` |
| Engine sessions: `session/inbox.ts`, `run-coordinator.ts`, `execution.ts`, `execution/restart.ts`, `runner/llm.ts` | the inbox table, the claim and its resume count; in memory one execution per session and the runner's drain | prompt, compact, move, cancel, steer, queue, resume, interrupt; drain, promote; sweep after a restart | `SessionInbox`, `RunCoordinator`, composed as `SessionRuns` |
| Engine jobs, permissions, forms, schedules | registries in memory, some rows | start, wait, background, cancel; ask, reply; fire, pause | a later candidate |
| Chronology: `chronology-store.ts`, `chronology-generation.ts` | a revisioned JSON file, one run in memory | start, stop, resume, stage and decide proposals | a later candidate |
| Lean workflow runner: `dochaus/workflows/lean` | a run record | stages, gate, repair | a later candidate |
| Word chat, grants, handouts | turns in engine sessions, grants, handed-out copies | submit, review, apply, expire | a later candidate |
| Drafts, redlines, amendments; OOXML transforms; verification loop | none durable of their own | functions over documents | not modelled |
| Prompts and playbooks; web client and other user interfaces; providers and tools; sites and infrastructure | | | not modelled |

### How they interact

A writer (upload, agent's tool, browser save, Word save, delete) first takes the
artifact locks of the document and of the matter's source corpus, each a
*directory lock*; asks the *Word lease* whether a Word pane has the document;
and then runs one *document mutation*: recovery of whatever an earlier process
left, the journal, the bytes, the registry and the projection, and the settling.
Because every writer holds the source-corpus lock for its whole operation, the
operations of a matter are sequential, and what interleaves with a mutation is
the end of the process and the failure of a step. A Word route holds the
document's lock for its whole change, so that one request is one step of
`WordLease`; what interleaves there are whole requests, some of them long given
up by the pane that sent them. A document mutation captures its bytes as a
*version*: they are stored before the transaction that makes the version's row,
and deleted after the one that removes it, so that the two meet only at the
commit. An agent's tools write artifacts of a run by *artifact writes*, several
processes over one stage of it. The agent itself is a *session* of the engine,
which clients talk to by admitting rows to its inbox and waking its coordinator.

### What is hard in each, and what makes it correct

* **Document mutations.** Some fifteen durable steps over a file system and a
  database that share no transaction. Correct means: at every step, recovery can
  tell a committed mutation from one rolled back; it restores exactly the bytes
  the registry has rows for, and the projection of exactly that registry; the
  lineage of a committed change is stamped, as what it was; and recovery itself
  may stop, fail and be repeated.
* **Directory lock.** Judging a lock stale, renaming it away and making one's
  own are separate calls on a path. Correct means: two tasks are never inside;
  no call waits for ever; a dead process's lock is taken; and a synchronous wait
  never blocks the event loop its owner needs.
* **Word lease and pane.** An edit of Word's text cannot be taken back nor
  looked up afterwards, and requests are lost or late. Correct means: Word's
  text is changed only while the server keeps everyone else out, for exactly
  that edit, and at most once for each reviewed proposal; a former owner never
  saves over what came after it; what the pane shows as saved is saved.
* **Document versions.** Bytes and rows are in two stores, and three things
  delete bytes: a purge after a redaction, one after a delete, and the sweep of
  a start. Correct means: a kept row has its bytes; a write loses none of the
  bytes it wrote, put aside or found, whoever had put them there; and what was
  redacted or deleted is gone, if not at once then after the next start.
* **Artifact writes.** A long text is sent in chunks over many calls, each of
  which may be cut short and sent again, by processes that do not know of each
  other. Correct means: one transaction of a stage's target is open; an answered
  chunk can be read back; and a commit replaces nothing that it did not see at
  its begin.
* **Sessions.** A wake is a bell of one bit beside a queue; a run ends in
  several steps, and the bell may be rung between any two. Correct means: no
  input that was woken for is left behind at rest; each is delivered once and in
  order; a steered one need not wait for the turn to end; a stop takes effect;
  and a turn whose process died is run again or given up, and never later.

## The modules

### DocumentMutation and AtomicMatter

One matter. The state on disk is `files` (the documents), `live` (the installed
projection), `journals` (the journal directories, a record per id of what each
file in it says) and `lineage`; in SQLite, `registry` and `commits`. `pc` is the
step the service takes next, `mode` on whose behalf (start-up, an operation
before its journal, the operation itself, its compensation), and `op`, `cur` and
`rolledBack` are what it has in memory: a `Crash` loses those and nothing else.

Every action is one durable step, named for the code's function:
`BeginJournal`, `WriteTransaction` (`beginDocumentMutation`),
`StageSourceChange`, `ParkPrior`, `PlaceBytes` (`commitDocumentWriteAsync`,
`commitDocumentDeleteAsync`), `Register` (BEGIN IMMEDIATE, the rows and the
lineage intent), `OpenProjectionBackup`, `WriteManifest`, `MoveOut`, `MoveIn`
(`installSourceArtifactSnapshot`, one artifact at a time), `Commit`,
`RetireProjection`, `DropBackup`, `SettleCommit`, `DeleteCommitRow`,
`StampLineage`, `MarkSettled`, `RemoveJournal`. Recovery is `RecoverJournal`
and what follows it. A database transaction is one step, its COMMIT, because
nobody reads before it. `Fail...` are the three `catch` paths: before the
commit, after it, and outside of the operation's own compensation.

Two of the steps are more than they look. The phase files `database-committed`
and `lineage-settled` are made (`openSync` with `wx`) and only then written:
`SettleCommit` and `MarkSettled` make them (`unwritten`), `WriteCommitted` and
`WriteSettled` write them, and a stop in between leaves a file that every later
recovery refuses. And `RetireProjection` may leave the projection transaction
where it is: when both its rename and its removal fail, the code goes on.

A document is a source or a deliverable; bytes are told apart by equality; an
artifact's content is the registry rows it was built from (`Build`). A directory
is removed as one step, or with `TornRemoval` also one entry at a time, in any
order: a recursive `rmSync` is not atomic (`TearJournal`, `TearProjection`; an
unretired projection transaction is among the entries of a journal).

`AtomicMatter` is the promise: a requested change happens to bytes, registry and
corpus at once, at most once, or not at all. `ImplementsAtomicMatter` is the
refinement, under a mapping that shows, at every step, the bytes and the corpus
*recovery would leave* (`RecoveredBytes`, `RecoveredArtifact`): so every step
but the commit, and every stop, failure and step of recovery, must be a stutter.

Two variables are history and nothing reads them in a guard: `healed` and
`decided`.

### DirectoryLock

`dir` is the directory at the lock's path (its maker, its owner file, whether it
is over a minute old), `pc` the next file-system call of each task, `alive` the
processes. `Make`, `Stat`, `ReadOwner`, `Rename`, `Remake`, `WriteOwner`,
`Discard`, `Release` and `Remove` are the calls of `acquireDirectoryLock`,
`staleDirectoryLock`, `replaceStaleDirectoryLock` and `releaseDirectoryLock`. An
acquisition does not give up its process between calls; a synchronous holder or
waiter blocks its process, an asynchronous one does not (`Occupies`, `Runs`). A
nested call of a task that has the lock enters at once and is no step.
`WriteOwner` may fail, on a full disk or because another was first, and
`Discard` then removes what is at the path. `Age` lets a minute pass: for a
directory whose maker died, and for the tasks in `Slow` while they are inside.
`Breakers` are the processes that come upon an old directory; the code gives
each of them that right.

### WordLease

The server's side: `row` (the lease row; generations, random ids in the code,
are counted, and `gen` 0 is no row), `granted`, `applied` and the `versions`
saved, each with the generation that saved it. Each operation is an action
`Op(p, ...)` with its admission `MayOp(p, ...)` apart, because the pane's model
asks what a refusal says. Here panes may ask *anything, at any time*, of now or
of any earlier generation, base or operation (`Ask`): what the server keeps, it
keeps against any client and any delay.

### WordEditing

Two panes of one document over `WordLease` (by `INSTANCE`). A pane is its
`WordSync`: `view` (the connection last told), `unsent` (the pending export),
`ack`, `uncertain` and the command under way, `pc` saying which answer it
awaits. `Handle` is one request at the server together with the pane's reading
of the answer; `Timeout` ends the wait and leaves the request to be handled
later, after any others, or never. `EditApplied`, `EditUnchanged` and
`EditUncertain` are the three ends of the edit in Word. `Close` ends a pane
anywhere; `Expire` and `Others` are time, the web client and other writers.

### DocumentVersions

`docs`, `rows` and `stored` are the two tables and the store; a version's number
is its place in `rows[d]`. `op` is the operation under way, one at a time under
the source-corpus lock, with its `kind`: a plain write, a redaction, a restore
of a kept version, a copy or conversion (`derive`, which also captures the
document it is made from), and the delete. `Begin` looks up the live document
or plans an id, and what is to be staged (`ToStage`); `Store` puts one content
in place. `Look` is the write's one question whether there is a file, `Park` the
rename of whatever is at the path by then, `Place` the rename of the new bytes
over whatever is there then; the capture finds what it still has to store
(`Unstored`), for the file may have been changed since it was staged.
`OutsideChange` saves or removes any working file between any two of these;
`CommitWrite` and `CommitDelete` are the commits, with `Captured` the rows a
capture makes; `Settle` goes on to the purge where the caller purges, one
`Purge` for each file. `Fails`, `SettleFails`, `PurgeFails` and `Crash` are a
failure or stop at any of these steps; `Restart`, `Recover` and `Sweep` are
what start-up does, `RecoveryFails` a start without the sweep. The journal is
one record here, `DocumentMutation`'s is what it stands for. `owed` and
`written` are history: the documents for which bytes may be left until the next
start, and what each document's writes wrote and replaced.

### ArtifactWrite

`meta` and `files` are what is in each transaction's directory, `lock` the owner
of each lock directory, `call` what each process does. The first step of a call
takes its locks and goes as far as nobody else can see a difference; from there
each file-system step is an action: `Discard`, `Create` (`begin` may first
discard what it may replace, `Reconcile`), `WriteChunk` and `Record` of an
append, `Commit` (the rename of the target) and `Mark`, the `Remove`s of an
abort, `Write` and `Fill` of the tool's direct write. A transaction's own lock
is inside its directory, and goes with it. A process may end at each step
(`Crash`), and what it held is broken as `DirectoryLock` shows. `acked` and
`fate` are history: what appends have answered, and which transactions somebody
began to abort.

### SessionInbox, RunCoordinator and SessionRuns

`SessionInbox` is the rules of the pending rows as operators on a sequence:
which row a boundary takes next (`NextPromotable`, where a compaction may go
before prompts but never before a move), which steers a step takes
(`SteersToControl`). `RunCoordinator` is the coordinator's one record, `exec`,
and its operations: `Wake`, `Run`, `Interrupt`, the fiber's `DrainAgain` and
`Exit`, `HookDone` and `Settle`. `SessionRuns` EXTENDS both and composes them
with the runner's drain (`drain`, its program counter and locals), the durable
claim (`claimed`, `attempts`), the calls of the session API between their steps
(`calls`: a prompt that was reconciled and is yet to be admitted, an input whose
wake is yet to come) and the `sweep` of a boot. `FiberStep` is what the
execution's fiber does next; `Interrupted` reaches it between any two steps.
`Declined` is the step that interrupts itself, when a tool was declined
(`runner/step.ts:272`) or the session moved: no reason is given, the execution
takes it for a shutdown, and `Settled` then keeps the claim (`Kept`).
`Crash` loses everything but the tables. `owed` is history: the inputs woken for
since the last stop or failure.

## The runs

Bounds are constants of the modules and appear in guards, so that the deadlock
check is off wherever a bounded budget may run out (all but `word_lease`).

| run | instance | states | what it shows |
|---|---|---|---|
| `document_safety` | a source and a deliverable, 2 contents, 2 artifacts, 2 ids; 3 operations, 2 stops, 2 failing steps | 183,312 (symmetric in ids) | the evidence of a commit never has a gap; one journal at a time; the corpus follows the registry, whatever is rolled back; refinement of `AtomicMatter`: bytes, registry and corpus, as recovery would leave them, change at once or not at all |
| `document_recovery` | the same with directories removed entry by entry; 2 operations, 2 stops, 1 failing step | 371,660 | the lineage follows the registry; every journal is resolved or refused for good; every request ends |
| `document_distinguish` | entry by entry; 2 operations, 2 stops | until violated | see [below](#what-the-code-does-not-keep) |
| `lock_one_breaker` | 3 processes, 4 tasks, one process with both a synchronous and an asynchronous task; one breaker, whose own task may be slow | 2,116 | exclusion; the one inside has the directory; no synchronous wait for one's own process; every call ends; a dead process's lock is taken |
| `lock_two_breakers` | two breakers, no slow holder | until violated | see below |
| `word_lease` | 2 panes, 2 contents, 2 proposals, 2 operation ids; 3 generations, 3 operations, 4 versions | 40,038 (symmetric) | contiguous generations; nothing is written or handed over behind a pending edit; an outcome is final |
| `word_safety` | 2 panes starting, saving and editing one proposal; 3 commands, 2 timeouts, 1 other change | 2.6 million (symmetric) | Word's text is changed only behind the fence, and once; what is shown as saved is saved |
| `word_liveness` | the same with 2 commands, 1 timeout | 84,780 | every command ends; a fence comes down, unless an answer was lost, the pane closed or Word could not tell |
| `session_safety` | 2 prompts and a control; 2 inputs at a time, 1 call under way, 1 resumption | 1.8 million (symmetric) | no lost wake; a session at rest has no claim, but one that a self-interruption kept; rows are taken in order |
| `session_liveness` | 1 prompt; 2 calls under way, 1 resumption | 371,635 | delivered once; a steered prompt is served within the turn; an orphaned turn is resolved; a stop settles |
| `artifact_safety` | 2 processes, 2 contracts, 2 transactions of 2 chunks; 3 aborts, direct writes and deaths in all | 1.5 million (symmetric) | one open transaction; answered chunks stay readable; a commit is a compare-and-swap |
| `document_versions` | 2 names, 3 documents, 3 contents; 3 operations, 2 stops, failures or changes from outside | 1.2 million (symmetric) | a kept version has its bytes; no write loses bytes that it wrote, put aside or found; what was removed is gone after the purge or the next start |

**Why the bounds are enough.** Three operations are an operation on what another
left, after a third; two stops let recovery itself be stopped, and two failures
let a compensation fail. Two artifacts are the smallest set a stop can leave
half moved; one document of each kind takes both ways through the code. Three
processes are a dead owner, the one that breaks its lock and the one that is
robbed; two tasks of one process are what `ASYNC_OWNED` is about. Three
generations are an owner, its successor and the first one back; four versions
are a save of each and one by somebody else. With two panes, three commands are
an edit each and a takeover or retry between them; two timeouts are a lost
`BEGIN` and a lost settlement, or one request twice. For a session, one row that
is delivered and one that arrives meanwhile are the race of a wake; a prompt and
a control are all kinds of a boundary's decision but a second control, over
which the order of rows is proved. Two calls under way are a request repeated
before its first is admitted. For artifacts, two processes are one that begins
while another writes, two contracts a stage that was restarted, and two
transactions one that replaces the other. For versions, three writes are a
document, a redaction of it and a write that brings a removed content back; a
third id is the document that a deleted name gets next.

**Fairness.** Document mutations: weak fairness of the service's steps and of
being started again, for the service runs what it has begun and is supervised;
none of stops or failures. Locks: weak fairness of a task's file-system calls
and of leaving (a live process goes on), strong fairness of giving up, for the
deadline passes however often the wait is interrupted by another try; none of
getting the lock. Word: weak fairness of the handling of the request each pane
awaits, and of the pane's edit. The server's answer or the pane's deadline ends
each wait in the code; the run takes the server's answer as the fair one and
timeouts as what may happen instead. No fairness is given to late requests,
expiry, renewals or other writers. Sessions: weak fairness of the fiber of an
execution and of the sweep (an Effect fiber that can run is run), of an
interrupt that was sent, and finitely many deaths of the process; nothing is
assumed of clients, and none of the model's ending its turn: a step of the model
returns, but may want another one for ever. The liveness instance has no
controls: a client that asks for compactions and withdraws them, again and
again, keeps a step from ever being reached, and the code does not prevent it.

## The proofs

Eight modules, checked by TLAPS, for any sets of documents, artifacts, ids,
processes, tasks, panes, inputs, chunks, contents and operations, and with no
bound used: the bounding constants only have to be naturals.

**`DocumentMutationProofs`.** `TypeCorrect`, `OneJournalHolds`,
`CommitEvidenceHolds`, `CorpusFollowsRegistryHolds`, `LineageCurrentHolds` and
`ChangesAreAtomic`, the refinement of `AtomicMatter`. The inductive invariant
has a layer for each.

* `Typed` is `TypeOK` and `Working`: where each step stands (the mutation at
  hand exists and, past its first write, has its record; no journal is left
  where an operation or a rebuild begins; journals are never two). Without it a
  step could write to a journal that is not there, and nothing types. That the
  one journal decides what recovery leaves (`RecoveredLeft`, `BytesLeft`) is
  what frees the later layers from the `CHOOSE` in `RecoveredBytes`.
* `Evidence` is `Recorded` (a commit is known by its row or its file exactly if
  it happened, an unreadable journal never committed, a settled one has its file
  and no row) and `Placed` (which steps stand before the commit, which after
  it). `CommitEvidence` alone is not inductive: that the row may be deleted
  follows from the file being written, which is a fact about the step.
* `Projected` is for the corpus. `Placing`: what is listed for replacement is in
  place or set aside, what is staged is the registry's projection as the change
  leaves it, at the commit all of it is in place, and of a finished roll-back
  nothing is left to move. `Directed`: what is rolled back has no evidence of a
  commit, and only what has it is rolled forward, so that a projection
  transaction which could not be retired is never undone. Then every step but
  `Commit`, and the rewrite without a journal, keeps `RecoveredArtifact`
  (`StepCorpus`); `Commit` makes it the new registry's, and `Rebuilding` says
  that a rewrite ends whole.
* `Stamping` is for the lineage: it is current, or the one journal is a
  committed source mutation's that is still to be stamped, and while there is
  evidence of its commit its projection is installed whole. The steps that
  matter to it are named in `Milestone`; all others leave it alone
  (`StepAlike`).
* `Parking` is for the bytes: the prior ones are there, or set aside exactly if
  there were any, before the new ones are placed; a roll-back that is done has
  put them back, also where the steps of a recovery were taken twice. Then every
  step but `Commit` keeps `RecoveredBytes` (`StepBytes`), and they are the
  registry's (`BytesFollow`).
* `Moded` says on whose behalf a step is taken, so that a request has its change
  applied once, at its own commit (`StepAnswers`).

`TypeCorrect`, `OneJournalHolds` and `LineageCurrentHolds` hold also with
directories removed entry by entry. `CommitEvidenceHolds`,
`CorpusFollowsRegistryHolds` and `ChangesAreAtomic` assume `~TornRemoval`, and
the run `document_distinguish` shows that they must: a journal that is half
removed is rolled back after its commit, with the bytes and with a projection
transaction that was not retired.

**`DirectoryLockProofs`.** `TypeCorrect` and `NoSelfWaitHolds` for every use of
the lock (`Ordered`: tasks at work are of live processes, and no two occupy the
same one). `HolderKeepsDirectoryHolds` and `Exclusion` are about every use too,
any number of breakers and slow holders among them: a behaviour keeps exclusion
for ever, or has a step `BreaksLive`, the rename that moves away the directory
of a process that lives. So there is one step to guard against, the one that
`lock_two_breakers` exhibits, and no other step of the protocol (making it, the
owner file, the removal by token, the discarding of a failed acquisition, a
death) can lose a lock. `Guarded` is the invariant: what directory is at the
path while a task is on its way in, inside, on its way out, or breaking one.
With one breaker, and nobody slow but its own tasks, no behaviour has that step:
`lock_one_breaker` checks the two as invariants.

**`WordLeaseProofs`.** All properties of `word_lease` and two more, whatever is
asked, in any order: `TypeCorrect`, `GenerationsContiguousHolds`,
`FenceOwnedHolds`, `FenceKeptHolds`, `AppliedNotPendingHolds`,
`OutcomeFinalHolds`. The invariant is `TypeOK`, `Owned` (an unexpired lease is
of a grant not revoked and not retired; a fence is its generation's), `Unbroken`
(while the current generation can save again, nobody wrote after it) and
`Contiguous`. `Contiguous` is not inductive without `Unbroken`: that the next
save joins its own generation is a fact about the lease, not about the versions.
The theorems are of `Free`, the steps without their bounds; `SpecIsFree` gives
them for the specification that TLC checks.

**`WordEditingProofs`.** All safety properties of `word_safety`, for any panes,
contents, proposals and operation ids: `TypeCorrect`, `EditsFencedHolds`,
`AppliedOnceHolds`, `SavedIsSavedHolds`; and `ImplementsLease`, that what panes
and network have the server do is what `WordLease` lets it do. None of the three
properties is inductive, for each is about requests that may still be handled.
`Identified` says that an id is one operation's, in whatever pane, request or
row it is met, so that an answer about an id is an answer about the operation
asked for; `Recorded`, that the row has of it what its pane asked for.
`Awaiting`: a pane awaits one answer, and where it is a save's, that of its own
export. `Settlements`: a settlement is asked for only when the pane is done with
Word, and one that says the edit was applied after it was. `Unrecorded` is the
argument for `AppliedOnce`: a proposal that changed the text and is not yet
recorded has its fence up, which nothing under way can take down but its own
confirmation, and behind which no other edit of it begins. The theorems of
`WordLease` hold of the server here by `ImplementsLease`: the prover cannot cite
a theorem of an instantiated module, so that what they and these proofs both
need (`AppliedNotPending`, the types of the server) is proved again.

**`SessionInboxProofs` and `SessionRunsProofs`.** `TypeCorrect`,
`DeliveredOnce`, `DeliveredInOrder`, `RestIsReleased` and `NoWakeIsLost`, for
any prompts, controls and bounds; `CompactionCrossesNoMove` of the inbox's
rules. The first module has the lemmas on a sequence of rows with distinct ids:
what removing, appending and redelivering one leaves. `RowsInv` (ids are
distinct, none is pending and delivered, and what the drain plans to publish is
pending and steered, or the one queued row) carries the first three. `Released`
adds that a closing execution has given up its claim, unless it interrupted
itself. `Covered` is the argument for the bell: what is owed is pending, and an
execution that is draining, ending or stopping either looks at it again (its
scope covers it) or has a bell wide enough for it. `NoLostWake` alone speaks of
rest only, and does not survive the step that ends a run.

**`ArtifactWriteProofs`.** `TypeCorrect`, `AtMostOneOpen`, `ProgressIsKept` and
`CommitSwaps`, for any processes, contracts, chunks and transactions. The
invariant has a layer for each thing a call relies on: `CallsInv` (what it has
in its locals), `LocksInv` (which locks it holds where it stands), `StageInv`
(what it found about the stage's transactions is still so, by the locks it
holds) and `ChunksInv` (the answered chunks are those of `transaction.json`, or
of the copy the call is about to write). `OneOpen` is not inductive: that a
creation finds no open transaction was looked at several steps before.

**`DocumentVersionsProofs`.** All properties of `document_versions`:
`TypeCorrect`, `KeptAreStoredHolds`, `NothingLostHolds` and
`RemovedAreGoneHolds`, for any names, documents and contents. The first lemmas
say what a capture makes of a document's rows (`CapturedRows`), and the next
what a commit keeps and removes by them (`KeptAtCommit`, `KeptOfOthers`,
`UnstoredAtCommit`). `Working` says that what an operation looked up, its
document and the one it is made from, is still so when it commits; that a name
has one live document rests on it. `Bytes` adds to `KeptAreStored` that what the
rows will hold is stored or still to be stored, and that a purge has nothing in
hand that is kept. What is saved from outside between a write's look, its
parking and its placing is in no invariant, for the write handles none of it;
what it did put aside is promised from the parking on. `Gone` is
`RemovedAreGone` for every step: removed bytes that are still there are of a
document left to the next start, or in the hands of the operation, which will
keep or delete them (`SeenTo`).

The assumptions are those on the constants, named where they are declared:
`Absent` and `None` are not among the values, sources are documents, hosts are
processes, bounds are naturals.

**Only model-checked.** All liveness: `JournalResolved`, `RequestAnswered`,
`EveryCallEnds`, `AbandonedIsTaken`, `CommandEnds`, `FenceAnswered`,
`SteerServed`, `OrphanResolved` and `StopSettles`. Liveness under fairness and
ENABLED, inductions over data and `RECURSIVE` operators are out of the prover's
reach; no module here has the last. Every safety property of a passing run is
the statement of a theorem, the refinement of `AtomicMatter` included.

## What the code does not keep

Two runs look for what a comment, schema or test says of the program, and find
an execution in which it is not so. They are in `PROJECT.json` under "findings".

* **A committed mutation rolled back** (`document_distinguish`). A settled
  journal's directory is removed by a recursive `rmSync`
  (`document-mutation.ts:113`). Once the commit row is deleted,
  `database-committed.json` is the only evidence; a stop after that file is
  unlinked and before `transaction.json` is leaves a readable journal that looks
  uncommitted, which the next recovery rolls back. With the bytes it rolls back
  the projection, where the transaction could not be retired at the commit
  (`source-artifacts.ts:362-369`) and is still in the journal. The lineage is
  not endangered (`document_recovery`).
* **A lock stolen from a live process** (`lock_two_breakers`). The rename of a
  stale directory takes whatever is at the path by then. With a slow holder of
  another process and a single breaker the same happens by another way: the age
  is read of one directory and the owner of the next.

Further behaviours are kept as they are, for no text of the repository promises
otherwise, and the properties are stated so that they show:

* A stop between the making of a projection transaction's `backup/` and of its
  `prior-artifacts.json` (`source-artifacts.ts:333`), or while a recovery
  removes the rolled back transaction in place (line 426), leaves one that every
  later recovery refuses, and with it every later write of the matter:
  `JournalResolved` and `Refused` say so. The comment at lines 355-356, that
  recovery cannot meet a half-removed transaction, is about the commit's
  removal.
* So does a stop between the making and the writing of a phase file
  (`document-mutation.ts:316`): the empty file is not what line 334 expects, at
  any recovery. The change itself has committed.
* An execution that interrupts itself is taken for a shutdown and keeps the
  claim of a session that then rests in a living process (`execution.ts:55-58`,
  `134-142`; `runner/step.ts:272-274`). The comments there say "Terminals
  release it - except shutdown interruption" (81-87) and "Deliberate stops
  release the claim" (135). The next execution releases it, or the next boot
  resumes a turn that had ended: `IdleIsReleased` and `OrphanResolved` except
  such a claim, until then.
* A document saved from outside once a write has found no file at the path, or
  has put aside what it found, and before it renames the new bytes there
  (`atomic-document-write.ts:55-60`), is overwritten, and in no version; so is one saved before a roll-back renames the
  parked bytes back, and one saved where there was none is removed by it. The
  comment at `document-versions.ts:17-22`, "so no write loses bytes", is kept
  for what the write wrote, put aside or found: that is `NothingLost`.
* A `BEGIN` handled only after the read that found nothing begun leaves a fence
  that no pane will settle; the document can then only be copied
  (`recovery-copy`): `FenceAnswered` is stated for executions in which no
  request was lost.
* An abort of an artifact write removes the lock with the directory
  (`artifact-write-transaction.ts:154`): an append that starts once the lock is
  gone may bring the transaction back. `OneOpen` and `ProgressKept` are about
  transactions that nobody began to abort.
* Whether an artifact exists and what it holds are two reads without the
  mutation lock (line 266): a direct write between them makes a transaction that
  may later replace that file. `CommitIsSwap` promises what the second read saw.
* An input is admitted and its wake made in two steps (`session.ts:207`): of a
  process that dies in between the input waits until somebody wakes the session.
  `NoLostWake` is about inputs that were woken for.
* The sweep of a boot reads what is active, and then which claims are left
  (`restart.ts:265`): a turn started in between is taken for an orphan and its
  resumption counted. `Run` joins it, so that no second turn starts.
* A first write of a document that fails after its bytes were staged leaves them
  under an id that no row ever has (`document-versions.ts:224`; the comment at
  line 220 says that they stay). No purge or sweep finds them, also when the
  text is later redacted. `RemovedAreGone` is about documents that have rows.

## What is not modelled

* Of document mutations: the legacy version 1 journals and `source-mutations`
  directory, read as the current ones; the re-staging of a projection whose
  sources changed; the contents of artifacts, text extraction, collision naming.
  An error of the journal's removal after `transaction.json` is gone, which the
  operation's compensation meets with the mutation it has in memory
  (`FailAfterCommit` is the error before that).
* Of the versions: the requested parent of a Word branch, handouts, a document
  found under another spelling of its name, the labels and events but for the
  document an event makes; the routes that only read.
* Of artifact writes: several targets at a time, with the sorted order of their
  locks; repeated appends and replayed commits, which change nothing; limits of
  size. Of `mutation-lock.ts`, the other writers that take the lock.
* Of sessions: child sessions and their recovery (`runIfIdle`, `whenIdle`,
  `failOrphaned`), recovered background jobs, reverts, what a step of the model
  does. The graceful shutdown is a death for the claim.
* Of the lock: a dead owner's pid given to another process.
* Of the lease: the deletion of a matter, which only looks at it, and the BEGIN
  of a refresh (`word-documents.ts:470-471`), which a stale copy may ask for and
  which has no proposal.
* Of the Word pane: the refresh of a stale copy in place (`loadLatest`); an
  Office call that never returns (`sync.ts:541` waits for it without a
  deadline), after which the pane's commands do not end: `CommandEnds` takes it
  that Word answers; versions a redaction removed; the release of a previous
  owner when Word opens a copy; what Done does after its save; the checkpoint
  restored from browser storage. When a save has to be asked for
  (`explicitSaveRequired`) is over-approximated: the model's pane may save
  whenever it can. The state a takeover was decided on is that at the start of
  its command; the server refuses another.
* Components without a module: see the table, and `PROJECT.json` for the reason
  of each. In short: documents' contents and their transforms are data; user
  interfaces and providers are inputs; the rest is in the plan.

## The plan

In the order of the damage a mistake would do:

1. Sessions of a family: a child's run, its recovery and its answer to the
parent (`failOrphaned`, `whenIdle`), over `SessionRuns`. 2. `mutation-lock.ts`
over several targets: sorted order, nested calls waiting to their deadlines,
composed with `ArtifactWrite` and `DirectoryLock`. 3. Chronology runs
(`chronology-store.ts`, `chronology-generation.ts`): a revisioned file, a run in
memory and the proposals a person decides. 4. The refresh in place and the
handouts of Word; schedules, jobs, permissions and forms of the engine. 5.
Proofs: that the runs of `SessionRuns` answer what an abstract session promises;
a temporal composition of `DirectoryLock` with the modules that assume it.
