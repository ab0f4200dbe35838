------------------------ MODULE DirectoryLockProofs ------------------------
(* The safety of DirectoryLock for any number of processes and tasks, of     *)
(* breakers and of slow owners: what holds of every use of it, and the one   *)
(* step by which exclusion can be lost.                                      *)
EXTENDS DirectoryLock, TLAPS

-----------------------------------------------------------------------------
(* Types, and the order within a process.                                  *)

\* A task with work at hand runs in a live process, alone in occupying it; a
\* synchronous one at work has no asynchronous owner beside it.
Ordered ==
    /\ \A t \in Tasks : pc[t] # "idle" => Host[t] \in alive
    /\ \A t, u \in Tasks : t # u /\ Occupies(t) /\ Occupies(u) => Host[t] # Host[u]
    /\ NoSelfWait

\* At first no task is at work.
LEMMA InitOrdered == Init => TypeOK /\ Ordered
  BY HostAssumption, SetsAssumption DEF Init, TypeOK, Ordered, NoSelfWait, AsyncOwned, Occupies, Acquiring, Releasing,
     Locations

\* A step of one task, and where it can lead.
Moves(t) ==
    /\ t \in Tasks
    /\ Runs(t)
    /\ alive' = alive
    /\ \E p \in Locations : Goto(t, p)
    /\ pc[t] \in {"critical"} \cup Releasing => pc'[t] \in Releasing \cup {"idle"}
    /\ (pc[t] = "idle" /\ pc'[t] # "idle") => (pc'[t] = "try" /\ (t \in Synchronous => ~AsyncOwned(Host[t])))

\* Every step of a task is one of those moves.
LEMMA StepMoves ==
  ASSUME TypeOK, NEW t \in Tasks, Call(t) \/ Acquire(t) \/ Retry(t) \/ GiveUp(t) \/ Free(t)
  PROVE  Moves(t)
<1>1. CASE Call(t)
  BY <1>1 DEF Call, Moves, Goto, TypeOK, Locations, Acquiring, Releasing
<1>2. CASE Make(t)
  BY <1>2 DEF Make, Moves, Goto, TypeOK, Locations, Acquiring, Releasing
<1>3. CASE Stat(t)
  BY <1>3 DEF Stat, Moves, Goto, TypeOK, Locations, Acquiring, Releasing
<1>4. CASE ReadOwner(t)
  BY <1>4 DEF ReadOwner, Moves, Goto, TypeOK, Locations, Acquiring, Releasing
<1>5. CASE Rename(t)
  BY <1>5 DEF Rename, Moves, Goto, TypeOK, Locations, Acquiring, Releasing
<1>6. CASE Remake(t)
  BY <1>6 DEF Remake, Moves, Goto, TypeOK, Locations, Acquiring, Releasing
<1>7. CASE WriteOwner(t)
  BY <1>7 DEF WriteOwner, Moves, Goto, TypeOK, Locations, Acquiring, Releasing
<1>8. CASE Discard(t)
  BY <1>8 DEF Discard, Moves, Goto, TypeOK, Locations, Acquiring, Releasing
<1>9. CASE Retry(t)
  BY <1>9 DEF Retry, Moves, Goto, TypeOK, Locations, Acquiring, Releasing
<1>10. CASE GiveUp(t)
  BY <1>10 DEF GiveUp, Moves, Goto, TypeOK, Locations, Acquiring, Releasing
<1>11. CASE Leave(t)
  BY <1>11 DEF Leave, Moves, Goto, TypeOK, Locations, Acquiring, Releasing
<1>12. CASE Release(t)
  BY <1>12 DEF Release, Moves, Goto, TypeOK, Locations, Acquiring, Releasing
<1>13. CASE Remove(t)
  BY <1>13 DEF Remove, Moves, Goto, TypeOK, Locations, Acquiring, Releasing
<1>. QED
  BY <1>1, <1>2, <1>3, <1>4, <1>5, <1>6, <1>7, <1>8, <1>9, <1>10, <1>11, <1>12, <1>13 DEF Acquire, Free

\* Every step keeps the variables' types.
LEMMA StepTyped == TypeOK /\ [Next]_vars => TypeOK'
<1>. SUFFICES ASSUME TypeOK, [Next]_vars PROVE TypeOK'
  OBVIOUS
<1>1. CASE \E t \in Tasks : Call(t) \/ Acquire(t) \/ Retry(t) \/ GiveUp(t) \/ Free(t)
  <2>1. PICK t \in Tasks : Call(t) \/ Acquire(t) \/ Retry(t) \/ GiveUp(t) \/ Free(t)
    BY <1>1
  <2>2. pc' \in [Tasks -> Locations] /\ alive' \subseteq Processes
    BY <2>1, StepMoves DEF Moves, Goto, TypeOK
  <2>3. Made(t) \in Directory
    BY DEF Made, Directory
  <2>4. dir' \in Directory \cup {None}
    BY <2>1, <2>3 DEF Call, Acquire, Retry, GiveUp, Free, Make, Stat, ReadOwner, Rename, Remake, WriteOwner,
       Discard, Leave, Release, Remove, TypeOK, Directory
  <2>. QED
    BY <2>2, <2>4 DEF TypeOK
<1>2. CASE Age
  BY <1>2 DEF Age, TypeOK, Directory
<1>3. CASE \E p \in Processes : Die(p)
  BY <1>3 DEF Die, TypeOK, Locations
<1>4. CASE UNCHANGED vars
  BY <1>4 DEF vars, TypeOK
<1>. QED
  BY <1>1, <1>2, <1>3, <1>4 DEF Next

\* Every step keeps the order within each process.
LEMMA StepOrdered == TypeOK /\ Ordered /\ [Next]_vars => Ordered'
<1>. SUFFICES ASSUME TypeOK, Ordered, [Next]_vars PROVE Ordered'
  OBVIOUS
<1>1. CASE \E t \in Tasks : Call(t) \/ Acquire(t) \/ Retry(t) \/ GiveUp(t) \/ Free(t)
  <2>1. PICK t \in Tasks : Moves(t)
    BY <1>1, StepMoves
  <2>2. /\ \A u \in Tasks \ {t} : pc'[u] = pc[u]
        /\ \A u \in Tasks \ {t} : Occupies(u)' <=> Occupies(u)
        /\ \A u \in Tasks \ {t} : Host[u] = Host[t] => ~Occupies(u)
        /\ Host[t] \in alive
    BY <2>1 DEF Moves, Goto, TypeOK, Runs, Occupies
  <2>3. \A u \in Tasks : pc'[u] # "idle" => Host[u] \in alive'
    BY <2>1, <2>2 DEF Moves, Ordered
  <2>4. \A u, v \in Tasks : u # v /\ Occupies(u)' /\ Occupies(v)' => Host[u] # Host[v]
    BY <2>2 DEF Ordered
  <2>5. NoSelfWait'
    <3>. SUFFICES ASSUME NEW u \in Synchronous, (pc[u] \in Acquiring \cup {"wait"})',
                         NEW v \in Tasks \ Synchronous, Host[v] = Host[u], pc'[v] = "critical"
                  PROVE  FALSE
      BY DEF NoSelfWait, AsyncOwned
    <3>1. u \in Tasks /\ u # v
      BY SetsAssumption
    <3>2. CASE v = t
      <4>1. pc[u] \in Acquiring \cup {"wait"}
        BY <2>2, <3>1, <3>2
      <4>. QED
        BY <2>2, <3>1, <3>2, <4>1 DEF Occupies
    <3>3. CASE u = t /\ pc[u] \in Acquiring \cup {"wait"}
      BY <2>2, <3>1, <3>3 DEF Ordered, NoSelfWait, AsyncOwned
    <3>4. CASE u = t /\ pc[u] \notin Acquiring \cup {"wait"}
      <4>1. pc[u] \in {"idle", "critical"} \cup Releasing
        BY <3>1, <3>4 DEF TypeOK, Locations
      <4>2. pc'[t] \in Acquiring \cup {"wait"}
        BY <3>4
      <4>3. pc[t] = "idle" /\ ~AsyncOwned(Host[t])
        BY <2>1, <3>4, <4>1, <4>2 DEF Moves, Acquiring, Releasing
      <4>. QED
        BY <2>2, <3>1, <3>4, <4>3 DEF AsyncOwned
    <3>5. CASE u # t /\ v # t
      BY <2>2, <3>1, <3>5 DEF Ordered, NoSelfWait, AsyncOwned
    <3>. QED
      BY <3>2, <3>3, <3>4, <3>5
  <2>. QED
    BY <2>3, <2>4, <2>5 DEF Ordered
<1>2. CASE Age
  BY <1>2 DEF Age, Ordered, NoSelfWait, AsyncOwned, Occupies
<1>3. CASE \E p \in Processes : Die(p)
  BY <1>3, SetsAssumption DEF Die, Ordered, NoSelfWait, AsyncOwned, Occupies, Acquiring, Releasing, TypeOK
<1>4. CASE UNCHANGED vars
  BY <1>4 DEF vars, Ordered, NoSelfWait, AsyncOwned, Occupies
<1>. QED
  BY <1>1, <1>2, <1>3, <1>4 DEF Next

\* Every variable keeps its type; the owner file holds a task's token or is
\* not there (acquireDirectoryLock).
THEOREM TypeCorrect == Spec => []TypeOK
  BY InitOrdered, StepTyped, PTL DEF Spec

\* A synchronous caller never waits, its event loop blocked, for a lock an
\* asynchronous task of its own process owns: the check of ASYNC_OWNED at the
\* entry of withReentrantDirectoryLock covers the whole wait, because no other
\* task of the process runs in it.
THEOREM NoSelfWaitHolds == Spec => []NoSelfWait
<1>1. Ordered => NoSelfWait
  BY DEF Ordered
<1>. QED
  BY <1>1, InitOrdered, StepTyped, StepOrdered, PTL DEF Spec

-----------------------------------------------------------------------------
(* Exclusion, and the one step it can be lost by.                          *)

\* A breaker moves away the directory of a process that lives.
BreaksLive == \E t \in Tasks : Rename(t) /\ dir # None /\ Host[dir.maker] \in alive

Entering == {"owner", "discard"}
Inside == {"critical"} \cup Releasing

\* Whoever made the directory still has it: without an owner file on its way
\* in, with its own inside and on its way out.
Guarded ==
    /\ \A t \in Tasks : pc[t] \in Entering => dir # None /\ dir.maker = t /\ dir.owner = None
    /\ \A t \in Tasks : pc[t] \in Inside => dir # None /\ dir.maker = t /\ dir.owner = t

\* At first nobody has the lock.
LEMMA InitGuarded == Init => Guarded
  BY DEF Init, Guarded, Entering, Inside, Releasing

\* The directory has one maker.
LEMMA OneMaker ==
  ASSUME Guarded, NEW t \in Tasks, NEW u \in Tasks, pc[t] \in Entering \cup Inside, pc[u] \in Entering \cup Inside
  PROVE  t = u
  BY DEF Guarded

\* What remains to be shown of a step of one task: of the others none is
\* disturbed by it, and the task itself has the directory if it goes in.
LEMMA Regarded ==
  ASSUME TypeOK, Guarded, NEW t \in Tasks, Moves(t),
         (\E u \in Tasks \ {t} : pc[u] \in Entering \cup Inside) => dir' = dir,
         pc'[t] \in Entering => dir' # None /\ dir'.maker = t /\ dir'.owner = None,
         pc'[t] \in Inside => dir' # None /\ dir'.maker = t /\ dir'.owner = t
  PROVE  Guarded'
<1>1. \A u \in Tasks \ {t} : pc'[u] = pc[u]
  BY DEF Moves, Goto, TypeOK
<1>2. ASSUME NEW u \in Tasks, pc'[u] \in Entering
      PROVE  dir' # None /\ dir'.maker = u /\ dir'.owner = None
  BY <1>1, <1>2 DEF Guarded
<1>3. ASSUME NEW u \in Tasks, pc'[u] \in Inside
      PROVE  dir' # None /\ dir'.maker = u /\ dir'.owner = u
  BY <1>1, <1>3 DEF Guarded
<1>. QED
  BY <1>2, <1>3 DEF Guarded, Entering, Inside, Releasing

\* Every step keeps the lock guarded, but one that breaks a living process's.
LEMMA StepGuarded ==
  ASSUME TypeOK, Ordered, Guarded, [Next]_vars, ~BreaksLive
  PROVE  Guarded'
<1>1. ASSUME NEW t \in Tasks, Call(t) \/ Acquire(t) \/ Retry(t) \/ GiveUp(t) \/ Free(t)
      PROVE  Guarded'
  <2>. USE DEF Entering, Inside, Releasing, Acquiring
  <2>1. Moves(t)
    BY <1>1, StepMoves
  <2>2. Made(t) \in Directory /\ Made(t).maker = t /\ Made(t).owner = None
    BY DEF Made, Directory
  <2>3. Made(t) # None
    BY <2>2, NoneAssumption
  <2>4. CASE Call(t) \/ Stat(t) \/ ReadOwner(t) \/ Retry(t) \/ GiveUp(t)
    <3>1. dir' = dir /\ pc'[t] \notin Entering \cup Inside
      BY <2>4 DEF Call, Stat, ReadOwner, Retry, GiveUp, Goto, TypeOK
    <3>. QED
      BY <2>1, <3>1, Regarded
  <2>5. CASE Make(t) \/ Remake(t)
    <3>1. \/ dir = None /\ dir' = Made(t) /\ pc'[t] = "owner"
          \/ dir' = dir /\ pc'[t] \notin Entering \cup Inside
      BY <2>5 DEF Make, Remake, Goto, TypeOK
    <3>2. dir = None => ~\E u \in Tasks \ {t} : pc[u] \in Entering \cup Inside
      BY DEF Guarded
    <3>. QED
      BY <2>1, <2>2, <2>3, <3>1, <3>2, Regarded
  <2>6. CASE Rename(t)
    <3>1. dir = None \/ Host[dir.maker] \notin alive
      BY <2>6 DEF BreaksLive
    <3>2. ~\E u \in Tasks \ {t} : pc[u] \in Entering \cup Inside
      BY <3>1 DEF Guarded, Ordered
    <3>3. pc'[t] \notin Entering \cup Inside
      BY <2>6 DEF Rename, Goto, TypeOK
    <3>. QED
      BY <2>1, <3>2, <3>3, Regarded
  <2>7. CASE WriteOwner(t)
    <3>1. dir # None /\ dir.maker = t /\ dir.owner = None
      BY <2>7 DEF WriteOwner, Guarded
    <3>2. ~\E u \in Tasks \ {t} : pc[u] \in Entering \cup Inside
      BY <2>7, OneMaker DEF WriteOwner
    <3>3. dir \in Directory
      BY <3>1 DEF TypeOK
    <3>4. \/ dir' = dir /\ pc'[t] = "discard"
          \/ dir' = [dir EXCEPT !.owner = t, !.old = FALSE] /\ pc'[t] = "critical"
      BY <2>7 DEF WriteOwner, Goto, TypeOK
    <3>5. [dir EXCEPT !.owner = t, !.old = FALSE] \in Directory
      BY <3>3 DEF Directory
    <3>6. CASE dir' = dir /\ pc'[t] = "discard"
      BY <2>1, <3>1, <3>2, <3>6, Regarded
    <3>7. CASE dir' = [dir EXCEPT !.owner = t, !.old = FALSE] /\ pc'[t] = "critical"
      <4>1. dir' # None /\ dir'.maker = t /\ dir'.owner = t
        BY <3>1, <3>3, <3>5, <3>7, NoneAssumption DEF Directory
      <4>. QED
        BY <2>1, <3>2, <3>7, <4>1, Regarded
    <3>. QED
      BY <3>4, <3>6, <3>7
  <2>8. CASE Discard(t) \/ Remove(t)
    <3>1. ~\E u \in Tasks \ {t} : pc[u] \in Entering \cup Inside
      BY <2>8, OneMaker DEF Discard, Remove
    <3>2. pc'[t] = "idle"
      BY <2>8 DEF Discard, Remove, Goto, TypeOK
    <3>. QED
      BY <2>1, <3>1, <3>2, Regarded
  <2>9. CASE Leave(t) \/ Release(t)
    <3>1. dir # None /\ dir.maker = t /\ dir.owner = t /\ dir' = dir
      BY <2>9 DEF Leave, Release, Guarded
    <3>2. pc'[t] \in {"release", "remove", "idle"}
      BY <2>9 DEF Leave, Release, Goto, TypeOK
    <3>. QED
      BY <2>1, <3>1, <3>2, Regarded
  <2>. QED
    BY <1>1, <2>4, <2>5, <2>6, <2>7, <2>8, <2>9 DEF Acquire, Free
<1>2. CASE Age
  <2>1. dir # None /\ dir \in Directory /\ dir' = [dir EXCEPT !.old = TRUE] /\ pc' = pc
    BY <1>2 DEF Age, TypeOK
  <2>2. dir' \in Directory /\ dir'.maker = dir.maker /\ dir'.owner = dir.owner
    BY <2>1 DEF Directory
  <2>. QED
    BY <2>1, <2>2, NoneAssumption DEF Guarded
<1>3. CASE \E p \in Processes : Die(p)
  BY <1>3 DEF Die, Guarded, TypeOK, Entering, Inside, Releasing
<1>4. CASE UNCHANGED vars
  BY <1>4 DEF vars, Guarded
<1>. QED
  BY <1>1, <1>2, <1>3, <1>4 DEF Next

\* However many processes break old directories, however long an owner stays
\* inside and wherever they die: a task that is inside can only have lost its
\* directory (withDirectoryLock and its reentrant forms) in a behaviour in
\* which the rename of replaceStaleDirectoryLock has moved away the directory
\* of a process that lives.  Making it, the owner file, the removal by token,
\* the discarding of a failed acquisition and death never do it.
THEOREM HolderKeepsDirectoryHolds ==
  Spec => []HolderKeepsDirectory \/ <><<BreaksLive>>_vars
<1>. DEFINE Inv == TypeOK /\ Ordered /\ Guarded
<1>1. Init => Inv
  BY InitOrdered, InitGuarded
<1>2. Inv /\ [Next]_vars /\ ~(BreaksLive /\ ~UNCHANGED vars) => Inv'
  <2>1. CASE UNCHANGED vars
    <3>1. Inv => TypeOK' /\ Ordered'
      BY <2>1, StepTyped, StepOrdered
    <3>2. Inv => Guarded'
      BY <2>1 DEF vars, Guarded
    <3>. QED
      BY <3>1, <3>2
  <2>2. CASE ~BreaksLive
    BY <2>2, StepTyped, StepOrdered, StepGuarded
  <2>. QED
    BY <2>1, <2>2
<1>3. Inv => HolderKeepsDirectory
  BY DEF HolderKeepsDirectory, Guarded, Inside
<1>. QED
  BY <1>1, <1>2, <1>3, PTL DEF Spec

\* Likewise two tasks are inside at once only in a behaviour with such a
\* rename: each has its own owner file in the one directory.
THEOREM Exclusion == Spec => []MutualExclusion \/ <><<BreaksLive>>_vars
<1>1. HolderKeepsDirectory => MutualExclusion
  BY DEF HolderKeepsDirectory, MutualExclusion
<1>. QED
  BY <1>1, HolderKeepsDirectoryHolds, PTL

=============================================================================
