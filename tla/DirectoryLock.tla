---------------------------- MODULE DirectoryLock ----------------------------
(***************************************************************************)
(* The cross-process lock of dochaus/lib/directory-lock.ts: a directory    *)
(* whose creation is the acquisition, with an owner file in it.  A caller  *)
(* that finds the directory older than a minute and its owner gone renames *)
(* it away and makes its own.                                              *)
(*                                                                         *)
(* A task is one call path of a process, synchronous (it blocks its        *)
(* process while it waits and while it holds) or asynchronous.  Every step *)
(* is one file-system call; between two of them other processes run.       *)
(***************************************************************************)
EXTENDS Naturals

CONSTANTS
    Processes,
    Tasks,
    Host,         \* the process of each task
    Synchronous,  \* the tasks that lock synchronously
    Breakers,     \* the processes that come upon an old directory: any may
    Slow,         \* the tasks that may be inside for over a minute
    None

ASSUME HostAssumption == Host \in [Tasks -> Processes]
ASSUME SetsAssumption ==
    Synchronous \subseteq Tasks /\ Breakers \subseteq Processes /\ Slow \subseteq Tasks

VARIABLES
    dir,    \* the lock directory, or None
    pc,     \* the next step of each task
    alive   \* the processes that run

vars == <<dir, pc, alive>>

\* owner: the owner file's token and pid; old: mtime over LOCK_STALE_AFTER_MS
\* ago; maker: history, the task whose mkdir made it.
Directory == [maker : Tasks, owner : Tasks \cup {None}, old : BOOLEAN]

ASSUME NoneAssumption == None \notin Directory /\ None \notin Tasks

Made(t) == [maker |-> t, owner |-> None, old |-> FALSE]

Init ==
    /\ dir = None
    /\ pc = [t \in Tasks |-> "idle"]
    /\ alive = Processes

-----------------------------------------------------------------------------

\* Acquisition and release run to their end without giving the process up.
Acquiring == {"try", "stat", "read", "rename", "remake", "owner", "discard"}
Releasing == {"release", "remove"}

\* t keeps its process from running any other task.
Occupies(t) ==
    \/ pc[t] \in Acquiring \cup Releasing
    \/ t \in Synchronous /\ pc[t] \in {"wait", "critical"}

Runs(t) ==
    /\ Host[t] \in alive
    /\ \A u \in Tasks \ {t} : Host[u] = Host[t] => ~Occupies(u)

Goto(t, p) == pc' = [pc EXCEPT ![t] = p]

\* The locks of its process that asynchronous tasks own (ASYNC_OWNED).
AsyncOwned(p) == \E u \in Tasks \ Synchronous : Host[u] = p /\ pc[u] = "critical"

\* Mutant: a synchronous caller waits for an owner of its own process.
Call_NoFastFail(t) ==
    /\ pc[t] = "idle"
    /\ Runs(t)
    /\ Goto(t, "try")
    /\ UNCHANGED <<dir, alive>>

\* A synchronous call while an asynchronous task of the process owns the lock
\* fails at once: waiting would keep that task from releasing it.
Call(t) ==
    /\ pc[t] = "idle"
    /\ Runs(t)
    /\ t \in Synchronous => ~AsyncOwned(Host[t])
    /\ Goto(t, "try")
    /\ UNCHANGED <<dir, alive>>

\* Mutant: mkdir succeeds on a directory that is there.
Make_Recursive(t) ==
    /\ pc[t] = "try"
    /\ Runs(t)
    /\ dir' = IF dir = None THEN Made(t) ELSE dir
    /\ Goto(t, "owner")
    /\ UNCHANGED alive

\* Mutant: mkdir is repeated until it succeeds.
Make_Spin(t) ==
    /\ pc[t] = "try"
    /\ Runs(t)
    /\ dir = None
    /\ dir' = Made(t)
    /\ Goto(t, "owner")
    /\ UNCHANGED alive

Make(t) ==
    /\ pc[t] = "try"
    /\ Runs(t)
    /\ IF dir = None
       THEN dir' = Made(t) /\ Goto(t, "owner")
       ELSE Goto(t, "stat") /\ UNCHANGED dir
    /\ UNCHANGED alive

\* Mutant: every directory that is there is taken for stale.
Stat_AnyAge(t) ==
    /\ pc[t] = "stat"
    /\ Runs(t)
    /\ Goto(t, IF dir # None /\ Host[t] \in Breakers THEN "read" ELSE "wait")
    /\ UNCHANGED <<dir, alive>>

\* staleDirectoryLock: the age first, then, by another read, the owner.
Stat(t) ==
    /\ pc[t] = "stat"
    /\ Runs(t)
    /\ Goto(t, IF dir # None /\ dir.old /\ Host[t] \in Breakers THEN "read" ELSE "wait")
    /\ UNCHANGED <<dir, alive>>

OwnerAlive == dir # None /\ dir.owner # None /\ Host[dir.owner] \in alive

\* Mutant: an old directory without an owner file is never stale.
ReadOwner_NeedsOwner(t) ==
    /\ pc[t] = "read"
    /\ Runs(t)
    /\ Goto(t, IF OwnerAlive \/ (dir # None /\ dir.owner = None) THEN "wait" ELSE "rename")
    /\ UNCHANGED <<dir, alive>>

ReadOwner(t) ==
    /\ pc[t] = "read"
    /\ Runs(t)
    /\ Goto(t, IF OwnerAlive THEN "wait" ELSE "rename")
    /\ UNCHANGED <<dir, alive>>

\* replaceStaleDirectoryLock: whatever directory is there by now is moved away
\* and removed, and a new one made, unless another caller was first.
Rename(t) ==
    /\ pc[t] = "rename"
    /\ Runs(t)
    /\ Goto(t, IF dir = None THEN "wait" ELSE "remake")
    /\ dir' = None
    /\ UNCHANGED alive

Remake(t) ==
    /\ pc[t] = "remake"
    /\ Runs(t)
    /\ IF dir = None
       THEN dir' = Made(t) /\ Goto(t, "owner")
       ELSE Goto(t, "wait") /\ UNCHANGED dir
    /\ UNCHANGED alive

\* Mutant: the owner file has the pid alone.
WriteOwner_Pid(t) ==
    /\ pc[t] = "owner"
    /\ Runs(t)
    /\ \/ /\ dir # None /\ dir.owner = None
          /\ dir' = [dir EXCEPT !.owner = Host[t], !.old = FALSE]
          /\ Goto(t, "critical")
       \/ Goto(t, "discard") /\ UNCHANGED dir
    /\ UNCHANGED alive

\* The owner file is created exclusively, in the directory now at the path; it
\* may also be that it cannot be written.
WriteOwner(t) ==
    /\ pc[t] = "owner"
    /\ Runs(t)
    /\ \/ /\ dir # None /\ dir.owner = None
          /\ dir' = [dir EXCEPT !.owner = t, !.old = FALSE]
          /\ Goto(t, "critical")
       \/ Goto(t, "discard") /\ UNCHANGED dir
    /\ UNCHANGED alive

\* It could not be: the directory at the path is removed and the call throws.
Discard(t) ==
    /\ pc[t] = "discard"
    /\ Runs(t)
    /\ dir' = None
    /\ Goto(t, "idle")
    /\ UNCHANGED alive

\* Contention: try again after an interval, or past the deadline throw.
Retry(t) ==
    /\ pc[t] = "wait"
    /\ Runs(t)
    /\ Goto(t, "try")
    /\ UNCHANGED <<dir, alive>>

GiveUp(t) ==
    /\ pc[t] = "wait"
    /\ Runs(t)
    /\ Goto(t, "idle")
    /\ UNCHANGED <<dir, alive>>

Leave(t) ==
    /\ pc[t] = "critical"
    /\ Runs(t)
    /\ Goto(t, "release")
    /\ UNCHANGED <<dir, alive>>

\* releaseDirectoryLock: the directory is removed if the owner read in it is
\* this acquisition's.
Release(t) ==
    /\ pc[t] = "release"
    /\ Runs(t)
    /\ Goto(t, IF dir # None /\ dir.owner = t THEN "remove" ELSE "idle")
    /\ UNCHANGED <<dir, alive>>

Remove(t) ==
    /\ pc[t] = "remove"
    /\ Runs(t)
    /\ dir' = None
    /\ Goto(t, "idle")
    /\ UNCHANGED alive

\* A minute passes without a change of the directory: its maker died, or the
\* owner in it is slow.
Age ==
    /\ dir # None
    /\ ~dir.old
    /\ dir.owner \in Slow \/ Host[dir.maker] \notin alive
    /\ dir' = [dir EXCEPT !.old = TRUE]
    /\ UNCHANGED <<pc, alive>>

\* The process ends; a new one has another pid.
Die(p) ==
    /\ p \in alive
    /\ alive' = alive \ {p}
    /\ pc' = [t \in Tasks |-> IF Host[t] = p THEN "idle" ELSE pc[t]]
    /\ UNCHANGED dir

-----------------------------------------------------------------------------

Acquire(t) ==
    \/ Make(t) \/ Stat(t) \/ ReadOwner(t) \/ Rename(t) \/ Remake(t)
    \/ WriteOwner(t) \/ Discard(t)

Free(t) == Leave(t) \/ Release(t) \/ Remove(t)

Next ==
    \/ \E t \in Tasks : Call(t) \/ Acquire(t) \/ Retry(t) \/ GiveUp(t) \/ Free(t)
    \/ Age
    \/ \E p \in Processes : Die(p)

Spec == Init /\ [][Next]_vars

\* A live process goes on with what it began, and a deadline passes.
FairSpec ==
    /\ Spec
    /\ \A t \in Tasks : WF_vars(Acquire(t)) /\ WF_vars(Free(t)) /\ SF_vars(GiveUp(t))

-----------------------------------------------------------------------------

Locations == Acquiring \cup Releasing \cup {"idle", "wait", "critical"}

TypeOK ==
    /\ dir \in Directory \cup {None}
    /\ pc \in [Tasks -> Locations]
    /\ alive \subseteq Processes

\* No two tasks, of one process or of two, are inside the lock at once.
MutualExclusion ==
    \A t, u \in Tasks : pc[t] = "critical" /\ pc[u] = "critical" => t = u

\* Whoever is inside has the directory, with its own owner file: nobody took
\* or removed the lock of a live process.
HolderKeepsDirectory ==
    \A t \in Tasks : pc[t] = "critical" => dir # None /\ dir.owner = t

\* A synchronous caller never blocks the process that owns the lock it waits
\* for: only the deadline would end that wait.
NoSelfWait ==
    \A t \in Synchronous : pc[t] \in Acquiring \cup {"wait"} => ~AsyncOwned(Host[t])

\* Every call comes to hold the lock or to an end, whoever died with it.
EveryCallEnds ==
    \A t \in Tasks : pc[t] = "try" ~> pc[t] \in {"critical", "idle"}

Abandoned == dir # None /\ dir.old /\ Host[dir.maker] \notin alive /\ ~OwnerAlive

\* A call that meets the old directory of a dead process removes it, whether
\* or not the process lived to write its owner file.
AbandonedIsTaken ==
    \A t \in Tasks :
        Abandoned /\ pc[t] = "try" /\ Host[t] \in Breakers
            ~> ~Abandoned \/ Host[t] \notin alive

=============================================================================
