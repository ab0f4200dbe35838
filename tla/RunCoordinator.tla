--------------------------- MODULE RunCoordinator ---------------------------
(***************************************************************************)
(* The coordinator of the runs of one session (session/run-coordinator.ts):*)
(* at most one execution, a busy period of one fiber that drains from the  *)
(* first wake until the session would stay idle.  Its actions are those of *)
(* the coordinator alone; SessionRuns composes them with what a drain does.*)
(*                                                                         *)
(* An execution is forked (its fiber has yet to run), draining, exiting    *)
(* (the owner is gone and the settled hook runs) and closing (the hook has *)
(* finished, settle has yet to run).  bell is pendingWake.                 *)
(***************************************************************************)
EXTENDS Naturals

VARIABLE exec

Phases == {"none", "forked", "draining", "exiting", "closing"}
Idle == [phase |-> "none", scope |-> "input", bell |-> "none",
         stopping |-> FALSE, force |-> FALSE]
ExecType ==
    [phase : Phases, scope : {"input", "steer"}, bell : {"none", "input", "steer"},
     stopping : BOOLEAN, force : BOOLEAN]

Active == exec.phase # "none"
Owned == exec.phase \in {"forked", "draining"}

Execution(force, scope) == [Idle EXCEPT !.phase = "forked", !.force = force, !.scope = scope]

\* Mutant: the bell rings or it does not, without a scope.
Wake_Unscoped(scope) ==
    exec' = IF Active THEN [exec EXCEPT !.bell = "rung"] ELSE Execution(FALSE, scope)

(* wake: an idle session starts, an active one keeps the widest scope.     *)
Wake(scope) ==
    exec' = IF Active
            THEN [exec EXCEPT !.bell = IF @ = "input" THEN "input" ELSE scope]
            ELSE Execution(FALSE, scope)

(* run: joins what is active, starts with force when idle, and waits for a *)
(* stopping execution to settle before it looks again.                     *)
Run ==
    /\ ~exec.stopping
    /\ exec' = IF Active THEN exec ELSE Execution(TRUE, "input")

(* interrupt: stops an owned execution and takes the wakes recorded so far *)
(* with it; once the owner is gone only the wakes are taken.               *)
Interruptible == Active /\ ~exec.stopping
Interrupt ==
    exec' = IF ~Interruptible THEN exec
            ELSE [exec EXCEPT !.stopping = Owned, !.bell = "none"]

(* The fiber begins to drain, drains again for the bell, and exits.  What   *)
(* an execution forces is the first drain's, what it is for the drains'.   *)
BeginDrain == /\ exec.phase = "forked"
              /\ exec' = [exec EXCEPT !.phase = "draining", !.force = FALSE]
RungAgain == ~exec.stopping /\ exec.bell # "none"
DrainAgain == /\ RungAgain
              /\ exec' = [exec EXCEPT !.scope = exec.bell, !.bell = "none"]
Exit == exec' = [Idle EXCEPT !.phase = "exiting", !.bell = exec.bell, !.stopping = exec.stopping]

\* Mutant: what is at the end of the execution is deleted, bell and all.
Settle_Deaf == /\ exec.phase = "closing"
               /\ exec' = Idle

(* settled has run; settle starts a successor for a bell that survived.    *)
HookDone == /\ exec.phase = "exiting"
            /\ exec' = [exec EXCEPT !.phase = "closing"]
Settle == /\ exec.phase = "closing"
          /\ exec' = IF exec.bell = "none" THEN Idle ELSE Execution(FALSE, exec.bell)
=============================================================================
