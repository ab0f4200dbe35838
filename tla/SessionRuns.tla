----------------------------- MODULE SessionRuns -----------------------------
(***************************************************************************)
(* A session of the engine: its inbox, the coordinator of its runs, the    *)
(* runner's drain, the durable claim of a turn in flight, and the sweep    *)
(* that resumes it after the process died.  The coordinator's actions are  *)
(* those of RunCoordinator, the rules of the inbox those of SessionInbox.  *)
(*                                                                         *)
(* A call of the session API is a record in calls between its steps: a     *)
(* prompt that was reconciled and is to be admitted, an input whose wake   *)
(* is still to be made, a resume still to be run.  The drain holds the     *)
(* inbox lock while it publishes the rows it promotes (drain.pc =          *)
(* "publish"); every other use of the lock is one atomic step.             *)
(*                                                                         *)
(* owed is history: the inputs woken for since the last stop or failure,   *)
(* which this session is to deliver before it rests.                       *)
(***************************************************************************)
EXTENDS SessionInbox, RunCoordinator, FiniteSets

CONSTANTS MaxAttempts,  \* resumptions of one turn before it is given up
          MaxCalls,     \* calls of the API under way at a time
          MaxInputs     \* ids pending or delivered

ASSUME BoundsAssumption ==
    MaxAttempts \in Nat /\ MaxCalls \in Nat /\ MaxInputs \in Nat

VARIABLES inbox,      \* pending rows, in the order of enqueued_seq
          messages,   \* ids delivered
          claimed,    \* time_suspended is set
          attempts,   \* resume_attempts
          drain,      \* the runner's locals
          calls,      \* API calls between their steps
          sweep,      \* where the restart sweep of this boot is
          owed

durable == <<inbox, messages, claimed, attempts>>
rows == <<inbox, messages>>
claim == <<claimed, attempts>>
process == <<calls, sweep>>
vars == <<exec, inbox, messages, claimed, attempts, drain, calls, sweep, owed>>

NoDrain == [pc |-> "none", entering |-> FALSE, continuing |-> FALSE, stepped |-> FALSE,
            force |-> FALSE, plan |-> {}, more |-> FALSE]
DrainPcs == {"none", "look", "boundary", "compact", "prepare", "publish", "step", "hook", "end", "declined"}
DrainType == [pc : DrainPcs, entering : BOOLEAN, continuing : BOOLEAN, stepped : BOOLEAN,
              force : BOOLEAN, plan : SUBSET Ids, more : BOOLEAN]
CallType == [op : {"admit", "wake"}, id : Ids, delivery : Deliveries]
            \cup [op : {"run", "continue"}]
SweepPcs == {"off", "boot", "list", "count", "exhaust", "run"}

TypeOK ==
    /\ exec \in ExecType
    /\ inbox \in Seq(Row)
    /\ messages \subseteq Ids
    /\ claimed \in BOOLEAN
    /\ attempts \in 0..MaxAttempts + 1
    /\ drain \in DrainType
    /\ calls \subseteq CallType
    /\ sweep \in SweepPcs
    /\ owed \subseteq Ids

Init ==
    /\ exec = Idle
    /\ inbox = <<>> /\ messages = {}
    /\ claimed = FALSE /\ attempts = 0
    /\ drain = NoDrain
    /\ calls = {} /\ sweep = "boot"
    /\ owed = {}

Pending == PendingIds(inbox)
Unlocked == drain.pc # "publish"
At(pc) == exec.phase = "draining" /\ drain.pc = pc
Goto(pc) == drain' = [drain EXCEPT !.pc = pc]
Returned == [NoDrain EXCEPT !.pc = "end"]

-----------------------------------------------------------------------------
(* The API                                                                 *)

Call(c) == /\ Cardinality(calls) < MaxCalls
           /\ calls' = calls \cup {c}
ToAdmit(id, d) == [op |-> "admit", id |-> id, delivery |-> d]
ToWake(id) == [op |-> "wake", id |-> id, delivery |-> "steer"]
ToRun == [op |-> "run"]
ToContinue == [op |-> "continue"]
Room(id) == Cardinality(Pending \cup messages \cup {id}) <= MaxInputs

(* prompt and synthetic reconcile the id first: one that is pending or      *)
(* delivered is not admitted again, only woken for.                        *)
Prompt(id, d) ==
    /\ Room(id)
    /\ Call(IF id \in Pending \cup messages THEN ToWake(id) ELSE ToAdmit(id, d))
    /\ UNCHANGED <<exec, durable, drain, sweep, owed>>

\* Mutant: the projection does not look for a message of the id.
Admit_Unprojected(c) ==
    /\ c \in calls /\ c.op = "admit"
    /\ inbox' = IF c.id \in Pending THEN inbox
                ELSE Append(inbox, [id |-> c.id, type |-> "prompt", delivery |-> c.delivery])
    /\ calls' = (calls \ {c}) \cup {ToWake(c.id)}
    /\ UNCHANGED <<exec, messages, claim, drain, sweep, owed>>

(* admit: the projection refuses an id that has become a message, and the  *)
(* row of an id that has become pending is what the caller gets.           *)
Admit(c) ==
    /\ c \in calls /\ c.op = "admit"
    /\ IF c.id \in messages
       THEN UNCHANGED inbox /\ calls' = calls \ {c}
       ELSE /\ inbox' = IF c.id \in Pending THEN inbox
                        ELSE Append(inbox, [id |-> c.id, type |-> "prompt", delivery |-> c.delivery])
            /\ \E wake \in BOOLEAN :   \* resume: false makes no wake
                   calls' = (calls \ {c}) \cup (IF wake THEN {ToWake(c.id)} ELSE {})
    /\ UNCHANGED <<exec, messages, claim, drain, sweep, owed>>

(* compact: a pending compaction is answered with, whatever its id.        *)
Compact(id, d) ==
    /\ Unlocked
    /\ id \notin messages /\ Room(id)
    /\ id \in Pending => inbox[IndexOf(inbox, id)].type = "compaction"
    /\ LET pending == {i \in DOMAIN inbox : inbox[i].type = "compaction"} IN
       \/ /\ \E i \in pending : Call(ToWake(inbox[i].id))
          /\ UNCHANGED inbox
       \/ /\ pending = {} /\ id \notin Pending
          /\ Call(ToWake(id))
          /\ inbox' = Append(inbox, [id |-> id, type |-> "compaction", delivery |-> d])
    /\ UNCHANGED <<exec, messages, claim, drain, sweep, owed>>

(* move, to a destination that answers and from a source that answers.     *)
Move(id, d) ==
    /\ Unlocked
    /\ id \notin Pending \cup messages /\ Room(id)
    /\ Call(ToWake(id))
    /\ inbox' = Append(inbox, [id |-> id, type |-> "move", delivery |-> d])
    /\ UNCHANGED <<exec, messages, claim, drain, sweep, owed>>

CancelInbox(id) ==
    /\ Unlocked
    /\ id \in Pending
    /\ inbox' = Without(inbox, IndexOf(inbox, id))
    /\ owed' = owed \ {id}
    /\ UNCHANGED <<exec, messages, claim, drain, process>>

\* Mutant: the change of delivery is not serialized with a promotion.
SteerInbox_Unserialized(id) ==
    /\ id \in Pending
    /\ inbox[IndexOf(inbox, id)].delivery = "queue"
    /\ inbox' = Redelivered(inbox, IndexOf(inbox, id), "steer")
    /\ Call(ToWake(id))
    /\ UNCHANGED <<exec, messages, claim, drain, sweep, owed>>

SteerInbox(id) ==
    /\ Unlocked
    /\ id \in Pending
    /\ inbox[IndexOf(inbox, id)].delivery = "queue"
    /\ inbox' = Redelivered(inbox, IndexOf(inbox, id), "steer")
    /\ Call(ToWake(id))
    /\ UNCHANGED <<exec, messages, claim, drain, sweep, owed>>

(* queueInbox parks a row: no wake answers for it any longer.              *)
QueueInbox(id) ==
    /\ Unlocked
    /\ id \in Pending
    /\ inbox[IndexOf(inbox, id)].delivery = "steer"
    /\ inbox' = Redelivered(inbox, IndexOf(inbox, id), "queue")
    /\ owed' = owed \ {id}
    /\ UNCHANGED <<exec, messages, claim, drain, process>>

(* The wake a call ends with.                                              *)
WakeCall(c) ==
    /\ c \in calls /\ c.op = "wake"
    /\ calls' = calls \ {c}
    /\ Wake("input")
    /\ owed' = owed \cup ({c.id} \cap Pending)
    /\ UNCHANGED <<durable, drain, sweep>>

(* resume, also what a skill's activation makes.                           *)
Resume ==
    /\ Call(ToRun)
    /\ UNCHANGED <<exec, durable, drain, sweep, owed>>

RunCall(c) ==
    /\ c \in calls /\ c.op = "run"
    /\ Run
    /\ calls' = calls \ {c}
    /\ UNCHANGED <<durable, drain, sweep, owed>>

(* interrupt takes the wakes recorded so far.                              *)
InterruptSession(resume) ==
    /\ Interrupt
    /\ IF resume THEN Call(ToContinue) ELSE UNCHANGED calls
    /\ owed' = IF Interruptible \/ (~Active /\ resume) THEN {} ELSE owed
    /\ UNCHANGED <<durable, drain, sweep>>

(* With resume it wakes again, for steers and for the work between turns:   *)
(* a queued prompt stays parked.                                           *)
ContinueCall(c) ==
    /\ c \in calls /\ c.op = "continue"
    /\ calls' = calls \ {c}
    /\ LET i == NextPromotable(inbox, "input") IN
       IF i # 0 /\ (inbox[i].delivery = "steer" \/ IsControl(inbox[i]))
       THEN /\ Wake("steer")
            /\ owed' = owed \cup {inbox[j].id : j \in {i} \cap Steers(inbox)}
       ELSE UNCHANGED <<exec, owed>>
    /\ UNCHANGED <<durable, drain, sweep>>

-----------------------------------------------------------------------------
(* The drain                                                               *)

Drain(force, continuing, stepped) ==
    [NoDrain EXCEPT !.pc = "look", !.entering = TRUE, !.force = force,
                    !.continuing = continuing, !.stepped = stepped]

(* started publishes with the claim; then the first drain.                 *)
Started ==
    /\ BeginDrain
    /\ claimed' = TRUE
    /\ drain' = Drain(exec.force, FALSE, FALSE)
    /\ UNCHANGED <<rows, attempts, process, owed>>

(* The look before the runner is entered.                                  *)
Parked(i) == exec.scope = "steer" /\ inbox[i].delivery = "queue" /\ ~IsControl(inbox[i])
Look ==
    /\ At("look")
    /\ LET i == NextPromotable(inbox, "input") IN
       IF ~drain.force /\ ~drain.continuing /\ ~drain.stepped /\ (i = 0 \/ Parked(i))
       THEN drain' = Returned
       ELSE Goto("boundary")
    /\ UNCHANGED <<exec, durable, process, owed>>

(* A row becomes a message.                                                *)
Deliver(i) ==
    /\ messages' = messages \cup {inbox[i].id}
    /\ inbox' = Without(inbox, i)
    /\ owed' = owed \ {inbox[i].id}

(* A boundary: a control is handled, the drain ends, or a step is next.    *)
BoundaryScope == IF drain.entering \/ ~drain.continuing THEN "input" ELSE "steer"
NextAtBoundary == NextPromotable(inbox, BoundaryScope)
Reentered == LET i == NextAtBoundary IN
             drain.entering \/ (~drain.continuing /\ (i = 0 \/ inbox[i].delivery # "steer"))

TakeControl ==
    /\ At("boundary")
    /\ LET i == NextAtBoundary IN
       /\ i # 0
       /\ IsControl(inbox[i])
       /\ Deliver(i)
       /\ drain' = IF inbox[i].type = "compaction"
                   THEN [drain EXCEPT !.pc = "compact", !.entering = Reentered]
                   ELSE Drain(FALSE, drain.continuing, ~drain.continuing /\ drain.stepped)
    /\ UNCHANGED <<exec, claim, process>>

Quiet(i) == /\ ~drain.force /\ ~drain.continuing
            /\ i = 0 \/ (inbox[i].delivery = "queue" /\ exec.scope = "steer")

Boundary ==
    /\ At("boundary")
    /\ LET i == NextAtBoundary IN
       /\ i # 0 => ~IsControl(inbox[i])
       /\ drain' = IF Quiet(i) /\ (i # 0 \/ ~drain.stepped) THEN Returned
                   ELSE [drain EXCEPT !.entering = Reentered,
                                      !.pc = IF Quiet(i) THEN "hook" ELSE "prepare"]
    /\ UNCHANGED <<exec, durable, process, owed>>

(* The location closed under the runner: the drain starts over in the next.*)
(* At its entry that is the same drain once more, and left out.            *)
Reloaded ==
    /\ At("boundary")
    /\ ~drain.entering
    /\ drain' = Drain(drain.force, drain.continuing, ~drain.continuing /\ drain.stepped)
    /\ UNCHANGED <<exec, durable, process, owed>>

(* The compaction ended, or failed in a way the turn survives.             *)
Compacted ==
    /\ At("compact")
    /\ drain' = [drain EXCEPT !.pc = "boundary", !.force = FALSE]
    /\ UNCHANGED <<exec, durable, process, owed>>

(* After the idle hook, which may have admitted input, look once more.     *)
IdleHook ==
    /\ At("hook")
    /\ drain' = IF inbox = <<>> THEN Returned ELSE [drain EXCEPT !.pc = "boundary"]
    /\ UNCHANGED <<exec, durable, process, owed>>

(* promote, under the lock: the steers up to a control, else one queued    *)
(* row and the steers that arrived while it was published.                 *)
PromoteScope == IF drain.entering /\ ~drain.continuing THEN exec.scope ELSE "steer"
Queued == IF Steers(inbox) = {} /\ PromoteScope = "input" THEN NextPromotable(inbox, "input") ELSE 0
ControlNext == \/ Steers(inbox) # {} /\ SteersToControl(inbox) = {}
               \/ Queued # 0 /\ IsControl(inbox[Queued])
IdsAt(S) == {inbox[i].id : i \in S}

\* Mutant: only the first step of a turn takes what was steered.
Promotable_AtEntry ==
    IF Queued # 0 THEN {inbox[Queued].id}
    ELSE IF drain.entering THEN IdsAt(SteersToControl(inbox)) ELSE {}

Promotable == IF Queued # 0 THEN {inbox[Queued].id} ELSE IdsAt(SteersToControl(inbox))

Promote ==
    /\ At("prepare")
    /\ drain' = IF ControlNext THEN [drain EXCEPT !.pc = "boundary"]
                ELSE IF Promotable = {} THEN [drain EXCEPT !.pc = "step"]
                ELSE [drain EXCEPT !.pc = "publish", !.plan = Promotable, !.more = Queued # 0]
    /\ UNCHANGED <<exec, durable, process, owed>>

PublishNext ==
    /\ At("publish")
    /\ drain.plan # {}
    /\ LET i == Least({j \in DOMAIN inbox : inbox[j].id \in drain.plan})
           plan == drain.plan \ {inbox[i].id}
       IN /\ Deliver(i)
          /\ drain' = [drain EXCEPT !.plan = plan,
                                    !.pc = IF plan = {} /\ ~drain.more THEN "step" ELSE @]
    /\ UNCHANGED <<exec, claim, process>>

ArrivedSteers ==
    /\ At("publish")
    /\ drain.plan = {}
    /\ LET plan == IdsAt(SteersToControl(inbox)) IN
       drain' = [drain EXCEPT !.plan = plan, !.more = FALSE,
                              !.pc = IF plan = {} THEN "step" ELSE @]
    /\ UNCHANGED <<exec, durable, process, owed>>

(* The model has run a step and the work goes on, or it does not.          *)
Stepped(continuing) ==
    /\ At("step")
    /\ drain' = [drain EXCEPT !.pc = "boundary", !.continuing = continuing, !.stepped = TRUE,
                              !.force = FALSE, !.entering = FALSE]
    /\ UNCHANGED <<exec, durable, process, owed>>

(* The end of a drain: the bell is looked at, in the same step as the loop *)
(* decides to drain again or to exit.                                      *)
Again ==
    /\ At("end")
    /\ DrainAgain
    /\ drain' = Drain(FALSE, FALSE, FALSE)
    /\ UNCHANGED <<durable, process, owed>>

Ends ==
    /\ At("end")
    /\ ~RungAgain
    /\ Exit
    /\ drain' = NoDrain
    /\ UNCHANGED <<durable, process, owed>>

(* What a successor started for the bell will look for.                    *)
StillOwed == CASE exec.bell = "input" -> owed
               [] exec.bell = "steer" -> owed \cap IdsAt(Steers(inbox))
               [] OTHER -> {}

(* The context could not be prepared or loaded, or the step failed.        *)
Fails ==
    /\ \E pc \in {"compact", "prepare", "step"} : At(pc)
    /\ Exit
    /\ drain' = NoDrain
    /\ owed' = StillOwed
    /\ UNCHANGED <<durable, process>>

\* Mutant: a step of the model cannot be interrupted.
Interrupted_BetweenSteps ==
    /\ exec.stopping
    /\ Owned /\ drain.pc # "step"
    /\ Exit
    /\ drain' = NoDrain
    /\ UNCHANGED <<durable, process, owed>>

(* The interrupt, sent by a fiber of its own, reaches that of the drain     *)
(* between any two of its steps.                                           *)
Interrupted ==
    /\ exec.stopping
    /\ Owned
    /\ Exit
    /\ drain' = NoDrain
    /\ UNCHANGED <<durable, process, owed>>

(* The step interrupts itself: a tool was declined, or the session is in   *)
(* another location by now.  It ends with no reason, as if the process     *)
(* were going down.                                                        *)
Declined ==
    /\ \E pc \in {"compact", "prepare", "step"} : At(pc)
    /\ ~exec.stopping
    /\ Exit
    /\ drain' = [NoDrain EXCEPT !.pc = "declined"]
    /\ owed' = StillOwed
    /\ UNCHANGED <<durable, process>>

(* settled: the claim is released, but by an execution that interrupted    *)
(* itself, which is taken for one that the process's end interrupts.       *)
Settled ==
    /\ HookDone
    /\ IF drain.pc = "declined" THEN UNCHANGED claim ELSE claimed' = FALSE /\ attempts' = 0
    /\ UNCHANGED <<rows, drain, process, owed>>

SettleRun ==
    /\ Settle
    /\ UNCHANGED <<durable, drain, process, owed>>

-----------------------------------------------------------------------------
(* Death and restart of the process                                        *)

(* What is in memory is lost; the sweep is forked at the next boot.        *)
Crash ==
    /\ exec' = Idle /\ drain' = NoDrain
    /\ calls' = {}
    /\ sweep' = "boot"
    /\ owed' = IF claimed THEN Pending ELSE {}
    /\ UNCHANGED durable

SweepTo(pc) == /\ sweep' = pc
               /\ UNCHANGED <<calls, drain>>

(* The snapshot of what is active, then the claims that are left.          *)
SweepActive ==
    /\ sweep = "boot"
    /\ SweepTo(IF Active THEN "off" ELSE "list")
    /\ UNCHANGED <<exec, durable, owed>>

\* Mutant: a turn that was resumed before is not found again.
SweepList_Fresh ==
    /\ sweep = "list"
    /\ SweepTo(IF claimed /\ attempts = 0 THEN "count" ELSE "off")
    /\ UNCHANGED <<exec, durable, owed>>

SweepList ==
    /\ sweep = "list"
    /\ SweepTo(IF claimed THEN "count" ELSE "off")
    /\ UNCHANGED <<exec, durable, owed>>

(* prepareResume: the attempt is counted before the turn runs.  Beyond the *)
(* budget the count is only compared with it, so it is not counted further.*)
CountResume ==
    /\ sweep = "count"
    /\ attempts' = IF attempts > MaxAttempts THEN attempts ELSE attempts + 1
    /\ SweepTo(IF attempts' > MaxAttempts THEN "exhaust" ELSE "run")
    /\ UNCHANGED <<exec, rows, claimed, owed>>

\* Mutant: the turn is given up without releasing its claim.
Exhaust_Unreleased ==
    /\ sweep = "exhaust"
    /\ owed' = IF Active THEN owed ELSE {}
    /\ SweepTo("off")
    /\ UNCHANGED <<exec, durable>>

(* The budget is spent: Failed releases the claim, whoever holds it by now. *)
Exhaust ==
    /\ sweep = "exhaust"
    /\ claimed' = FALSE /\ attempts' = 0
    /\ owed' = IF Active THEN owed ELSE {}
    /\ SweepTo("off")
    /\ UNCHANGED <<exec, rows>>

SweepRun ==
    /\ sweep = "run"
    /\ Run
    /\ SweepTo("off")
    /\ UNCHANGED <<durable, owed>>

-----------------------------------------------------------------------------
FiberStep ==
    \/ Started \/ Look \/ TakeControl \/ Boundary \/ Compacted \/ IdleHook
    \/ Promote \/ PublishNext \/ ArrivedSteers
    \/ \E continuing \in BOOLEAN : Stepped(continuing)
    \/ Again \/ Ends \/ Fails \/ Declined \/ Interrupted \/ Settled \/ SettleRun

CallStep == \E c \in calls : Admit(c) \/ WakeCall(c) \/ RunCall(c) \/ ContinueCall(c)

SweepStep == SweepActive \/ SweepList \/ CountResume \/ Exhaust \/ SweepRun

Request ==
    \/ \E id \in Prompts, d \in Deliveries : Prompt(id, d)
    \/ \E id \in Controls, d \in Deliveries : Compact(id, d) \/ Move(id, d)
    \/ \E id \in Ids : CancelInbox(id) \/ SteerInbox(id) \/ QueueInbox(id)
    \/ Resume
    \/ \E resume \in BOOLEAN : InterruptSession(resume)

Next == Request \/ CallStep \/ FiberStep \/ Reloaded \/ SweepStep \/ Crash

Spec == Init /\ [][Next]_vars
-----------------------------------------------------------------------------
(* Fairness.  The fiber of an execution and that of the sweep run as long  *)
(* as they have a step to take, an interrupt that was sent is delivered,   *)
(* and the process dies finitely often.  Nothing is assumed of clients.    *)
Fairness ==
    /\ WF_vars(FiberStep)
    /\ WF_vars(Interrupted)
    /\ WF_vars(SweepStep)
    /\ <>[][~Crash]_vars

FairSpec == Spec /\ Fairness

-----------------------------------------------------------------------------
(* Properties                                                              *)

(* The claim is kept by an execution of this boot that interrupted itself. *)
Kept == claimed /\ drain.pc = "declined"

(* A session at rest owes nothing: what was admitted and woken for is      *)
(* delivered, withdrawn, parked, or in a turn the next sweep resumes,      *)
(* wherever in a drain or in its end the wake came.                        *)
NoLostWake == ~Active /\ (claimed => Kept) => owed \cap Pending = {}

(* Once the sweep of this boot is over, a session at rest has no claim but *)
(* one that was kept: no later boot resumes a turn that succeeded, failed, *)
(* was stopped by its user, or was given up.                               *)
IdleIsReleased == ~Active /\ sweep = "off" /\ claimed => Kept

(* What was delivered is not pending again, though its request is repeated *)
(* and reconciled before the delivery and admitted after it.               *)
NeverAgain == Pending \cap messages = {}

(* Rows of one kind of delivery are taken in the order they were enqueued, *)
(* but for a compaction, which may go before prompts (and never a move).   *)
Earlier(i, j) == i < j /\ inbox[i].delivery = inbox[j].delivery
InOrder ==
    [][\A j \in DOMAIN inbox : inbox[j].id \in messages' =>
          \A i \in DOMAIN inbox : Earlier(i, j) =>
              inbox[i].type = "prompt" /\ inbox[j].type = "compaction"]_vars

(* A steered prompt woken for does not wait for the turn to end: it is     *)
(* delivered at a later step of the work that runs, however long that goes *)
(* on, unless it is withdrawn or parked or the execution ends.             *)
Steered(id) == \E i \in Steers(inbox) : inbox[i].id = id
SteerServed ==
    \A id \in Prompts :
        (id \in owed /\ Steered(id)) ~>
            (id \notin owed \/ ~Steered(id) \/ exec.phase = "exiting" \/ ~Active)

(* A turn whose process died is run again or given up.                     *)
OrphanResolved == claimed /\ ~Active /\ ~Kept ~> Active \/ ~claimed

(* A stop takes effect, though the model would go on for ever.             *)
StopSettles == exec.stopping ~> ~exec.stopping
=============================================================================
