--------------------------- MODULE SessionRunsProofs ---------------------------
(***************************************************************************)
(* Safety of SessionRuns for any inputs, any number of calls at a time and *)
(* any number of deaths of the process.                                    *)
(*                                                                         *)
(* Three inductive invariants.  RowsInv: types, ids pending once and not   *)
(* again once delivered, and what a promotion has yet to publish, which is *)
(* pending and comes before what it leaves.  On top of it, Released: where *)
(* a claim may be left; and Covered: what is owed is covered by the        *)
(* execution that runs, by its bell, or by the claim the next sweep finds. *)
(***************************************************************************)
EXTENDS SessionRuns, SessionInboxProofs

Planned ==
    /\ drain.plan \subseteq Pending
    /\ drain.pc # "publish" => drain.plan = {}
    /\ FirstIn(inbox, drain.plan)

RowsInv ==
    /\ TypeOK
    /\ DistinctIds(inbox)
    /\ NeverAgain
    /\ Planned

-----------------------------------------------------------------------------
(* Types                                                                   *)

(* The coordinator's steps keep the type of its execution.                 *)
LEMMA ExecTyped ==
    ASSUME exec \in ExecType,
           \/ UNCHANGED exec
           \/ exec' = Idle
           \/ \E scope \in Scopes : Wake(scope)
           \/ Run \/ Interrupt \/ BeginDrain \/ DrainAgain \/ Exit \/ HookDone \/ Settle
    PROVE  exec' \in ExecType
<1>1. Idle \in ExecType
  BY DEF Idle, ExecType, Phases
<1>2. \A force \in BOOLEAN, scope \in Scopes : Execution(force, scope) \in ExecType
  BY DEF Execution, Idle, ExecType, Phases, Scopes
<1>3. CASE \E scope \in Scopes : Wake(scope)
  <2>1. PICK scope \in Scopes : Wake(scope)
    BY <1>3
  <2>2. CASE ~Active
    BY <1>2, <2>1, <2>2 DEF Wake
  <2>3. CASE Active
    <3>1. PICK bell \in Scopes : exec' = [exec EXCEPT !.bell = bell]
      BY <2>1, <2>3 DEF Wake, Scopes
    <3> QED
      BY <3>1 DEF ExecType, Scopes
  <2> QED
    BY <2>2, <2>3
<1>4. CASE Run
  BY <1>2, <1>4 DEF Run, Scopes
<1>5. CASE Interrupt
  <2>1. Owned \in BOOLEAN
    BY DEF Owned
  <2>2. exec' = exec \/ exec' = [exec EXCEPT !.stopping = Owned, !.bell = "none"]
    BY <1>5, Zenon DEF Interrupt
  <2>3. PICK b \in BOOLEAN : exec' = exec \/ exec' = [exec EXCEPT !.stopping = b, !.bell = "none"]
    BY <2>1, <2>2, Zenon
  <2> QED
    BY <2>3 DEF ExecType
<1>6. CASE BeginDrain
  BY <1>6 DEF BeginDrain, ExecType, Phases
<1>7. CASE DrainAgain
  BY <1>7 DEF DrainAgain, RungAgain, ExecType
<1>8. CASE Exit
  BY <1>8 DEF Exit, Idle, ExecType, Phases
<1>9. CASE HookDone
  BY <1>9 DEF HookDone, ExecType, Phases
<1>10. CASE Settle
  BY <1>1, <1>2, <1>10 DEF Settle, ExecType, Scopes
<1> QED
  BY <1>1, <1>3, <1>4, <1>5, <1>6, <1>7, <1>8, <1>9, <1>10

(* What a drain starts and ends as.                                        *)
LEMMA DrainTyped ==
    ASSUME NEW force \in BOOLEAN, NEW continuing \in BOOLEAN, NEW stepped \in BOOLEAN
    PROVE  /\ NoDrain \in DrainType /\ Returned \in DrainType
           /\ Drain(force, continuing, stepped) \in DrainType
  BY DEF NoDrain, Returned, Drain, DrainType, DrainPcs

(* What a step of the drain makes of its locals keeps their type.          *)
LEMMA DrainMoves ==
    ASSUME drain \in DrainType, NEW pc \in DrainPcs, NEW b \in BOOLEAN, NEW plan \in SUBSET Ids
    PROVE  /\ [drain EXCEPT !.pc = pc] \in DrainType
           /\ [drain EXCEPT !.pc = pc].plan = drain.plan
           /\ [drain EXCEPT !.pc = pc, !.entering = b] \in DrainType
           /\ [drain EXCEPT !.pc = pc, !.entering = b].plan = drain.plan
           /\ [drain EXCEPT !.entering = b, !.pc = pc] \in DrainType
           /\ [drain EXCEPT !.entering = b, !.pc = pc].plan = drain.plan
           /\ [drain EXCEPT !.pc = pc, !.force = FALSE] \in DrainType
           /\ [drain EXCEPT !.pc = pc, !.force = FALSE].plan = drain.plan
           /\ [drain EXCEPT !.pc = pc, !.continuing = b, !.stepped = TRUE,
                            !.force = FALSE, !.entering = FALSE] \in DrainType
           /\ [drain EXCEPT !.pc = pc, !.continuing = b, !.stepped = TRUE,
                            !.force = FALSE, !.entering = FALSE].plan = drain.plan
           /\ [drain EXCEPT !.plan = plan, !.pc = pc] \in DrainType
           /\ [drain EXCEPT !.plan = plan, !.pc = pc].plan = plan
           /\ [drain EXCEPT !.plan = plan, !.pc = pc].pc = pc
  BY DEF DrainType

(* The calls under way have their types.                                   *)
LEMMA CallTyped ==
    ASSUME NEW id \in Ids, NEW d \in Deliveries
    PROVE  /\ ToAdmit(id, d) \in CallType /\ ToWake(id) \in CallType
           /\ ToRun \in CallType /\ ToContinue \in CallType
  BY DEF ToAdmit, ToWake, ToRun, ToContinue, CallType, Deliveries

(* What is pending and what is promoted are ids.                           *)
LEMMA PendingTyped ==
    ASSUME inbox \in Seq(Row)
    PROVE  /\ Pending \subseteq Ids
           /\ IdsAt(Steers(inbox)) = SteerIds(inbox)
           /\ SteerIds(inbox) \subseteq Pending
<1>1. \A i \in DOMAIN inbox : inbox[i].id \in Ids
  BY PositionsAreNaturals DEF Row
<1> QED
  BY <1>1, Zenon DEF Pending, PendingIds, IdsAt, SteerIds, Steers

-----------------------------------------------------------------------------
(* The steps of the rows                                                   *)

(* A row of an id that is neither pending nor delivered is enqueued.       *)
LEMMA EnqueueKeeps ==
    ASSUME RowsInv, NEW row \in Row, row.id \notin Pending, row.id \notin messages,
           inbox' = Append(inbox, row), UNCHANGED <<messages, drain>>
    PROVE  inbox' \in Seq(Row) /\ DistinctIds(inbox)' /\ NeverAgain' /\ Planned'
<1>1. inbox \in Seq(Row)
  BY DEF RowsInv, TypeOK
<1>2. /\ inbox' \in Seq(Row)
      /\ PendingIds(inbox') = PendingIds(inbox) \cup {row.id}
      /\ DistinctIds(inbox')
  BY <1>1, AppendIds DEF RowsInv, Pending
<1>3. FirstIn(inbox', drain.plan)
  BY <1>1, AppendFirst DEF RowsInv, Planned, Pending
<1> QED
  BY <1>2, <1>3 DEF RowsInv, NeverAgain, Planned, Pending

(* A row is delivered; what is still planned is planned without it.        *)
LEMMA DeliverKeeps ==
    ASSUME RowsInv, NEW i \in DOMAIN inbox, Deliver(i),
           drain'.plan = drain.plan \ {inbox[i].id},
           drain'.pc # "publish" => drain'.plan = {}
    PROVE  /\ inbox' \in Seq(Row) /\ messages' \subseteq Ids
           /\ DistinctIds(inbox)' /\ NeverAgain' /\ Planned'
<1>1. inbox \in Seq(Row) /\ messages \subseteq Ids /\ DistinctIds(inbox)
  BY DEF RowsInv, TypeOK
<1>2. inbox' = Without(inbox, i) /\ messages' = messages \cup {inbox[i].id}
  BY DEF Deliver
<1>3. inbox[i].id \in Ids
  BY <1>1, PositionsAreNaturals DEF Row
<1>4. inbox' \in Seq(Row)
  BY <1>1, <1>2, WithoutIs
<1>5. /\ PendingIds(inbox) \ {inbox[i].id} \subseteq PendingIds(inbox')
      /\ PendingIds(inbox') \subseteq PendingIds(inbox)
      /\ DistinctIds(inbox')
      /\ inbox[i].id \notin PendingIds(inbox')
  BY <1>1, <1>2, WithoutIds
<1>6. FirstIn(inbox', drain'.plan)
  BY <1>1, <1>2, WithoutFirst DEF RowsInv, Planned
<1> QED
  BY <1>1, <1>2, <1>3, <1>4, <1>5, <1>6 DEF RowsInv, NeverAgain, Planned, Pending

(* While nothing is planned, a row may be withdrawn or its delivery change.*)
LEMMA ChangeKeeps ==
    ASSUME RowsInv, Unlocked, NEW i \in DOMAIN inbox, NEW d \in Deliveries,
           inbox' = Without(inbox, i) \/ inbox' = Redelivered(inbox, i, d),
           UNCHANGED <<messages, drain>>
    PROVE  inbox' \in Seq(Row) /\ DistinctIds(inbox)' /\ NeverAgain' /\ Planned'
<1>1. inbox \in Seq(Row) /\ DistinctIds(inbox)
  BY DEF RowsInv, TypeOK
<1>2. /\ inbox' \in Seq(Row) /\ DistinctIds(inbox')
      /\ PendingIds(inbox') \subseteq PendingIds(inbox)
  BY <1>1, WithoutIs, WithoutIds, RedeliveredIds
<1>3. drain.plan = {}
  BY DEF RowsInv, Planned, Unlocked
<1> QED
  BY <1>2, <1>3 DEF RowsInv, NeverAgain, Planned, Pending, FirstIn

(* Nothing happens to the rows, and what is planned is kept or dropped.    *)
LEMMA RowsKept ==
    ASSUME RowsInv, UNCHANGED rows,
           \/ UNCHANGED drain
           \/ drain'.plan = {}
    PROVE  inbox' \in Seq(Row) /\ messages' \subseteq Ids
           /\ DistinctIds(inbox)' /\ NeverAgain' /\ Planned'
  BY DEF RowsInv, TypeOK, rows, NeverAgain, Planned, Pending, FirstIn, DistinctIds

-----------------------------------------------------------------------------
(* RowsInv, action by action                                               *)

(* The parts of TypeOK that do not speak of the rows.                      *)
RestTyped ==
    /\ exec \in ExecType
    /\ claimed \in BOOLEAN
    /\ attempts \in 0..MaxAttempts + 1
    /\ drain \in DrainType
    /\ calls \subseteq CallType
    /\ sweep \in SweepPcs
    /\ owed \subseteq Ids

(* The parts of RowsInv that a step may change.                            *)
LEMMA RowsInvParts ==
    ASSUME RestTyped', inbox' \in Seq(Row), messages' \subseteq Ids,
           DistinctIds(inbox)', NeverAgain', Planned'
    PROVE  RowsInv'
  BY DEF RowsInv, TypeOK, RestTyped

(* What most steps need of RowsInv.                                        *)
LEMMA RowsInvTypes ==
    ASSUME RowsInv
    PROVE  /\ RestTyped /\ inbox \in Seq(Row) /\ messages \subseteq Ids
           /\ Pending \subseteq Ids /\ Pending \cap messages = {}
  BY PendingTyped DEF RowsInv, TypeOK, RestTyped, NeverAgain

(* RowsInv holds at the start.                                             *)
LEMMA RowsInit == Init => RowsInv
<1> SUFFICES ASSUME Init PROVE RowsInv
  OBVIOUS
<1>1. inbox = <<>> /\ DOMAIN inbox = {} /\ inbox \in Seq(Row)
  BY EmptySeq, LenProperties DEF Init
<1>2. Idle \in ExecType /\ NoDrain \in DrainType
  BY DEF Idle, ExecType, Phases, NoDrain, DrainType, DrainPcs
<1>3. RestTyped
  <2>1. attempts \in 0..MaxAttempts + 1
    BY BoundsAssumption DEF Init
  <2> QED
    BY <1>2, <2>1 DEF Init, RestTyped, SweepPcs
<1>4. Planned
  BY <1>1 DEF Init, Planned, NoDrain, FirstIn
<1> QED
  BY <1>1, <1>3, <1>4 DEF Init, RowsInv, TypeOK, RestTyped, DistinctIds, NeverAgain

(* The requests and calls of the API.                                      *)
LEMMA RowsRequest ==
    ASSUME RowsInv, Request
    PROVE  RowsInv'
<1> USE RowsInvTypes
<1>1. ASSUME NEW id \in Prompts, NEW d \in Deliveries, Prompt(id, d)
      PROVE  RowsInv'
  <2>1. ToAdmit(id, d) \in CallType /\ ToWake(id) \in CallType
    BY <1>1, CallTyped DEF Ids
  <2>2. RestTyped'
    BY <1>1, <2>1 DEF Prompt, Call, RestTyped, durable
  <2>3. UNCHANGED rows /\ UNCHANGED drain
    BY <1>1 DEF Prompt, durable, rows
  <2> QED
    BY <2>2, <2>3, RowsKept, RowsInvParts
<1>2. ASSUME NEW id \in Controls, NEW d \in Deliveries, Compact(id, d)
      PROVE  RowsInv'
  <2> DEFINE row == [id |-> id, type |-> "compaction", delivery |-> d]
  <2>1. PICK w \in Ids : calls' = calls \cup {ToWake(w)}
    <3>1. \A i \in DOMAIN inbox : inbox[i].id \in Ids
      BY PositionsAreNaturals DEF Row
    <3> QED
      BY <1>2, <3>1, Zenon DEF Compact, Call, Ids
  <2>2. ToWake(w) \in CallType
    BY CallTyped DEF Deliveries
  <2>3. RestTyped'
    BY <1>2, <2>1, <2>2 DEF Compact, RestTyped, claim
  <2>4. row \in Row /\ row.id = id
    BY <1>2 DEF Row, Ids
  <2>5. CASE inbox' = inbox
    BY <1>2, <2>3, <2>5, RowsKept, RowsInvParts DEF Compact, rows
  <2>6. CASE inbox' = Append(inbox, row) /\ id \notin Pending
    BY <1>2, <2>3, <2>4, <2>6, EnqueueKeeps, RowsInvParts DEF Compact
  <2> QED
    BY <1>2, <2>5, <2>6, Zenon DEF Compact
<1>3. ASSUME NEW id \in Controls, NEW d \in Deliveries, Move(id, d)
      PROVE  RowsInv'
  <2> DEFINE row == [id |-> id, type |-> "move", delivery |-> d]
  <2>1. ToWake(id) \in CallType /\ row \in Row /\ row.id = id
    BY <1>3, CallTyped DEF Row, Ids
  <2>2. RestTyped'
    BY <1>3, <2>1 DEF Move, Call, RestTyped, claim
  <2> QED
    BY <1>3, <2>1, <2>2, EnqueueKeeps, RowsInvParts DEF Move
<1>4. ASSUME NEW id \in Ids, CancelInbox(id) \/ QueueInbox(id) \/ SteerInbox(id)
      PROVE  RowsInv'
  <2>1. /\ Unlocked /\ id \in Pending
        /\ UNCHANGED <<exec, messages, claim, drain, sweep>>
        /\ calls' = calls \/ calls' = calls \cup {ToWake(id)}
        /\ owed' = owed \/ owed' = owed \ {id}
    BY <1>4 DEF CancelInbox, QueueInbox, SteerInbox, Call, process
  <2>2. PICK i \in DOMAIN inbox : i = IndexOf(inbox, id)
    BY <2>1, IndexOfIs DEF Pending
  <2>3. PICK d \in Deliveries : inbox' = Without(inbox, i) \/ inbox' = Redelivered(inbox, i, d)
    BY <1>4, <2>2 DEF CancelInbox, QueueInbox, SteerInbox, Deliveries
  <2>4. ToWake(id) \in CallType
    BY <1>4, CallTyped DEF Deliveries
  <2>5. RestTyped'
    BY <2>1, <2>4 DEF RestTyped, claim
  <2>6. inbox' \in Seq(Row) /\ DistinctIds(inbox)' /\ NeverAgain' /\ Planned'
    BY <2>1, <2>3, ChangeKeeps
  <2> QED
    BY <2>1, <2>5, <2>6, RowsInvParts
<1>5. ASSUME Resume
      PROVE  RowsInv'
  <2>1. ToRun \in CallType
    BY DEF ToRun, CallType
  <2>2. RestTyped' /\ UNCHANGED rows /\ UNCHANGED drain
    BY <1>5, <2>1 DEF Resume, Call, RestTyped, durable, rows
  <2> QED
    BY <2>2, RowsKept, RowsInvParts
<1>6. ASSUME NEW resume \in BOOLEAN, InterruptSession(resume)
      PROVE  RowsInv'
  <2>1. ToContinue \in CallType
    BY DEF ToContinue, CallType
  <2>2. exec' \in ExecType
    BY <1>6, ExecTyped DEF InterruptSession, RestTyped
  <2>3. RestTyped' /\ UNCHANGED rows /\ UNCHANGED drain
    BY <1>6, <2>1, <2>2 DEF InterruptSession, Call, RestTyped, durable, rows
  <2> QED
    BY <2>3, RowsKept, RowsInvParts
<1> QED
  BY <1>1, <1>2, <1>3, <1>4, <1>5, <1>6 DEF Request

(* It survives the second half of every call,                              *)
LEMMA RowsCall ==
    ASSUME RowsInv, NEW c \in calls, Admit(c) \/ WakeCall(c) \/ RunCall(c) \/ ContinueCall(c)
    PROVE  RowsInv'
<1> USE RowsInvTypes
<1>1. c \in CallType
  BY DEF RestTyped
<1>2. CASE Admit(c)
  <2> DEFINE row == [id |-> c.id, type |-> "prompt", delivery |-> c.delivery]
  <2>1. c.id \in Ids /\ c.delivery \in Deliveries
    BY <1>1, <1>2 DEF Admit, CallType
  <2>2. ToWake(c.id) \in CallType /\ row \in Row /\ row.id = c.id
    BY <2>1, CallTyped DEF Row
  <2>3. calls' \subseteq calls \cup {ToWake(c.id)}
    BY <1>2 DEF Admit
  <2>4. RestTyped'
    BY <1>2, <2>2, <2>3 DEF Admit, RestTyped, claim
  <2>5. CASE inbox' = inbox
    BY <1>2, <2>4, <2>5, RowsKept, RowsInvParts DEF Admit, rows
  <2>6. CASE inbox' = Append(inbox, row) /\ c.id \notin Pending /\ c.id \notin messages
    BY <1>2, <2>2, <2>4, <2>6, EnqueueKeeps, RowsInvParts DEF Admit
  <2> QED
    BY <1>2, <2>5, <2>6, Zenon DEF Admit
<1>3. CASE WakeCall(c)
  <2>1. exec' \in ExecType
    BY <1>3, ExecTyped DEF WakeCall, RestTyped, Scopes
  <2>2. RestTyped' /\ UNCHANGED rows /\ UNCHANGED drain
    BY <1>3, <2>1 DEF WakeCall, RestTyped, durable, rows
  <2> QED
    BY <2>2, RowsKept, RowsInvParts
<1>4. CASE RunCall(c)
  <2>1. exec' \in ExecType
    BY <1>4, ExecTyped DEF RunCall, RestTyped
  <2>2. RestTyped' /\ UNCHANGED rows /\ UNCHANGED drain
    BY <1>4, <2>1 DEF RunCall, RestTyped, durable, rows
  <2> QED
    BY <2>2, RowsKept, RowsInvParts
<1>5. CASE ContinueCall(c)
  <2>1. exec' \in ExecType
    BY <1>5, ExecTyped DEF ContinueCall, RestTyped, Scopes
  <2>2. owed' \subseteq owed \cup Pending
    BY <1>5 DEF ContinueCall, Pending, PendingIds, Steers
  <2>3. RestTyped' /\ UNCHANGED rows /\ UNCHANGED drain
    BY <1>5, <2>1, <2>2 DEF ContinueCall, RestTyped, durable, rows
  <2> QED
    BY <2>3, RowsKept, RowsInvParts
<1> QED
  BY <1>2, <1>3, <1>4, <1>5

(* The steps of the drain.                                                 *)
LEMMA NextAtBoundaryIs ==
    ASSUME RowsInv
    PROVE  NextAtBoundary \in DOMAIN inbox \cup {0}
  BY RowsInvTypes, NextPromotableIs DEF NextAtBoundary, BoundaryScope, Scopes

(* (the types of the fields of a drain and of an execution)                *)
LEMMA DrainFields ==
    ASSUME RowsInv
    PROVE  /\ drain.entering \in BOOLEAN /\ drain.continuing \in BOOLEAN
           /\ drain.stepped \in BOOLEAN /\ drain.force \in BOOLEAN
           /\ exec.force \in BOOLEAN /\ exec.scope \in Scopes
           /\ drain.plan \subseteq Ids
  BY RowsInvTypes DEF RestTyped, DrainType, ExecType, Scopes

(* What is promoted is pending, and first among what is delivered alike.   *)
LEMMA PromotableIs ==
    ASSUME RowsInv
    PROVE  /\ Promotable \subseteq Pending
           /\ FirstIn(inbox, Promotable)
           /\ IdsAt(SteersToControl(inbox)) \subseteq Pending
           /\ FirstIn(inbox, IdsAt(SteersToControl(inbox)))
<1>1. inbox \in Seq(Row) /\ DistinctIds(inbox)
  BY DEF RowsInv, TypeOK
<1>2. IdsAt(SteersToControl(inbox)) \subseteq Pending
  BY Zenon DEF IdsAt, SteersToControl, Steers, Pending, PendingIds
<1>3. FirstIn(inbox, IdsAt(SteersToControl(inbox)))
  BY <1>1, SteersToControlFirst DEF IdsAt
<1>4. ASSUME Queued # 0
      PROVE  {inbox[Queued].id} \subseteq Pending /\ FirstIn(inbox, {inbox[Queued].id})
  <2>1. Steers(inbox) = {} /\ Queued = NextPromotable(inbox, "input")
    BY <1>4, Zenon DEF Queued
  <2>2. Queued \in DOMAIN inbox
    BY <1>1, <1>4, <2>1, NextPromotableIs DEF Scopes
  <2>3. inbox # <<>>
    BY <2>2
  <2> QED
    BY <1>1, <2>1, <2>2, <2>3, FirstQueuedFirst DEF Pending, PendingIds
<1> QED
  BY <1>2, <1>3, <1>4 DEF Promotable

(* The row published next is the first that is planned.                    *)
PlannedRows == {j \in DOMAIN inbox : inbox[j].id \in drain.plan}

(* (the row that is published next is the earliest planned one)            *)
LEMMA PublishedIs ==
    ASSUME RowsInv, drain.plan # {}
    PROVE  /\ Least(PlannedRows) \in PlannedRows
           /\ \A j \in PlannedRows : Least(PlannedRows) <= j
<1>1. PlannedRows # {}
  BY DEF RowsInv, Planned, Pending, PendingIds, PlannedRows
<1>2. PlannedRows \subseteq Nat
  BY RowsInvTypes, PositionsAreNaturals DEF PlannedRows
<1> QED
  BY <1>1, <1>2, LeastIs

(* every step of a drain,                                                  *)
LEMMA RowsFiber ==
    ASSUME RowsInv, FiberStep \/ Reloaded
    PROVE  RowsInv'
<1> USE RowsInvTypes, DrainFields
<1>0. /\ drain.pc # "publish" => drain.plan = {}
      /\ \A force, continuing, stepped \in BOOLEAN :
            /\ Drain(force, continuing, stepped) \in DrainType
            /\ Drain(force, continuing, stepped).plan = {}
      /\ NoDrain \in DrainType /\ NoDrain.plan = {}
      /\ Returned \in DrainType /\ Returned.plan = {}
  <2>1. drain.pc # "publish" => drain.plan = {}
    BY DEF RowsInv, Planned
  <2> QED
    BY <2>1, DrainTyped DEF Drain, NoDrain, Returned
<1>1. CASE Started
  <2>1. exec' \in ExecType
    BY <1>1, ExecTyped DEF Started, RestTyped
  <2>2. RestTyped' /\ UNCHANGED rows /\ drain'.plan = {}
    BY <1>0, <1>1, <2>1 DEF Started, RestTyped, process, rows
  <2> QED
    BY <2>2, RowsKept, RowsInvParts
<1>2. CASE Look
  <2>1. drain' \in DrainType /\ drain'.plan = {}
    BY <1>0, <1>2 DEF Look, At, Goto, RestTyped, DrainType, DrainPcs
  <2>2. RestTyped' /\ UNCHANGED rows
    BY <1>2, <2>1 DEF Look, RestTyped, process, durable, rows
  <2> QED
    BY <2>1, <2>2, RowsKept, RowsInvParts
<1>3. CASE TakeControl
  <2>1. PICK i \in DOMAIN inbox : i = NextAtBoundary /\ Deliver(i)
    BY <1>3, NextAtBoundaryIs DEF TakeControl
  <2>2. Reentered \in BOOLEAN
    BY DEF Reentered
  <2>3. /\ drain.pc = "boundary"
        /\ \/ drain' = [drain EXCEPT !.pc = "compact", !.entering = Reentered]
           \/ drain' = Drain(FALSE, drain.continuing, ~drain.continuing /\ drain.stepped)
    BY <1>3, Zenon DEF TakeControl, At
  <2>4. drain' \in DrainType /\ drain'.plan = {}
    <3>1. "compact" \in DrainPcs /\ drain.plan = {} /\ drain \in DrainType
      BY <1>0, <2>3 DEF DrainPcs, RestTyped
    <3>2. CASE drain' = [drain EXCEPT !.pc = "compact", !.entering = Reentered]
      BY <2>2, <3>1, <3>2, DrainMoves, Zenon
    <3>3. CASE drain' = Drain(FALSE, drain.continuing, ~drain.continuing /\ drain.stepped)
      BY <1>0, <3>3
    <3> QED
      BY <2>3, <3>2, <3>3
  <2>5. RestTyped'
    BY <1>3, <2>1, <2>4 DEF TakeControl, Deliver, RestTyped, claim, process
  <2>6. drain'.plan = drain.plan \ {inbox[i].id}
    BY <1>0, <2>3, <2>4
  <2> QED
    BY <2>1, <2>4, <2>5, <2>6, DeliverKeeps, RowsInvParts
<1>4. CASE Boundary
  <2>1. Reentered \in BOOLEAN
    BY DEF Reentered
  <2>2. drain.pc = "boundary"
    BY <1>4 DEF Boundary, At
  <2>3. PICK pc \in DrainPcs : drain' = Returned
                             \/ drain' = [drain EXCEPT !.entering = Reentered, !.pc = pc]
    BY <1>4 DEF Boundary, DrainPcs
  <2>4. drain' \in DrainType /\ drain'.plan = {}
    <3>1. drain.plan = {} /\ drain \in DrainType
      BY <1>0, <2>2 DEF RestTyped
    <3>2. CASE drain' = [drain EXCEPT !.entering = Reentered, !.pc = pc]
      BY <2>1, <3>1, <3>2, DrainMoves, Zenon
    <3> QED
      BY <1>0, <2>3, <3>2
  <2>5. RestTyped' /\ UNCHANGED rows
    BY <1>4, <2>4 DEF Boundary, RestTyped, process, durable, rows
  <2> QED
    BY <2>4, <2>5, RowsKept, RowsInvParts
<1>5. CASE Reloaded
  <2>1. drain' \in DrainType /\ drain'.plan = {}
    BY <1>0, <1>5 DEF Reloaded
  <2>2. RestTyped' /\ UNCHANGED rows
    BY <1>5, <2>1 DEF Reloaded, RestTyped, process, durable, rows
  <2> QED
    BY <2>1, <2>2, RowsKept, RowsInvParts
<1>6. CASE Compacted \/ IdleHook \/ \E continuing \in BOOLEAN : Stepped(continuing)
  <2>1. drain' \in DrainType /\ drain'.plan = {}
    <3>1. drain.plan = {} /\ drain \in DrainType /\ "boundary" \in DrainPcs
      BY <1>0, <1>6 DEF Compacted, IdleHook, Stepped, At, RestTyped, DrainPcs
    <3>2. PICK b \in BOOLEAN :
             \/ drain' = [drain EXCEPT !.pc = "boundary", !.force = FALSE]
             \/ drain' = [drain EXCEPT !.pc = "boundary"]
             \/ drain' = Returned
             \/ drain' = [drain EXCEPT !.pc = "boundary", !.continuing = b, !.stepped = TRUE,
                                       !.force = FALSE, !.entering = FALSE]
      BY <1>6, Zenon DEF Compacted, IdleHook, Stepped
    <3>3. CASE drain' = [drain EXCEPT !.pc = "boundary", !.force = FALSE]
      BY <3>1, <3>3, DrainMoves, Zenon
    <3>4. CASE drain' = [drain EXCEPT !.pc = "boundary"]
      BY <3>1, <3>4, DrainMoves, Zenon
    <3>5. CASE drain' = [drain EXCEPT !.pc = "boundary", !.continuing = b, !.stepped = TRUE,
                                      !.force = FALSE, !.entering = FALSE]
      BY <3>1, <3>5, DrainMoves, Zenon
    <3> QED
      BY <1>0, <3>2, <3>3, <3>4, <3>5
  <2>2. RestTyped' /\ UNCHANGED rows
    BY <1>6, <2>1 DEF Compacted, IdleHook, Stepped, RestTyped, process, durable, rows
  <2> QED
    BY <2>1, <2>2, RowsKept, RowsInvParts
<1>7. CASE Promote
  <2>1. drain.pc = "prepare" /\ drain.plan = {}
    BY <1>0, <1>7 DEF Promote, At
  <2>2. drain' \in DrainType => RestTyped'
    BY <1>7 DEF Promote, RestTyped, process, durable
  <2>3. UNCHANGED rows
    BY <1>7 DEF Promote, durable, rows
  <2>4. CASE drain' = [drain EXCEPT !.pc = "boundary"] \/ drain' = [drain EXCEPT !.pc = "step"]
    <3>1. drain' \in DrainType /\ drain'.plan = {}
      BY <2>1, <2>4 DEF RestTyped, DrainType, DrainPcs
    <3> QED
      BY <2>2, <2>3, <3>1, RowsKept, RowsInvParts
  <2>5. CASE drain' = [drain EXCEPT !.pc = "publish", !.plan = Promotable, !.more = Queued # 0]
    <3>1. Promotable \subseteq Pending /\ FirstIn(inbox, Promotable)
      BY PromotableIs
    <3>2. (Queued # 0) \in BOOLEAN
      OBVIOUS
    <3>3. drain' \in DrainType /\ drain'.plan = Promotable /\ drain'.pc = "publish"
      BY <2>5, <3>1, <3>2 DEF RestTyped, DrainType, DrainPcs
    <3>4. Planned'
      BY <2>3, <3>1, <3>3 DEF Planned, Pending, rows
    <3>5. DistinctIds(inbox)' /\ NeverAgain'
      BY <2>3 DEF RowsInv, DistinctIds, NeverAgain, Pending, rows
    <3> QED
      BY <2>2, <2>3, <3>3, <3>4, <3>5, RowsInvParts DEF rows
  <2> QED
    BY <1>7, <2>4, <2>5, Zenon DEF Promote
<1>8. CASE PublishNext
  <2>1. drain.plan # {} /\ drain.pc = "publish"
    BY <1>8 DEF PublishNext, At
  <2>2. PICK i \in PlannedRows : i = Least(PlannedRows)
    BY <2>1, PublishedIs
  <2>3. i \in DOMAIN inbox
    BY DEF PlannedRows
  <2> DEFINE plan == drain.plan \ {inbox[i].id}
  <2>4. /\ Deliver(i)
        /\ \/ drain' = [drain EXCEPT !.plan = plan, !.pc = "publish"]
           \/ plan = {} /\ drain' = [drain EXCEPT !.plan = plan, !.pc = "step"]
    BY <1>8, <2>1, <2>2, Zenon DEF PublishNext, PlannedRows
  <2>5. /\ drain' \in DrainType
        /\ drain'.plan = plan
        /\ drain'.pc # "publish" => plan = {}
    <3>1. /\ plan \in SUBSET Ids /\ drain \in DrainType
          /\ "publish" \in DrainPcs /\ "step" \in DrainPcs
      BY DEF RestTyped, DrainPcs
    <3> HIDE DEF plan
    <3>2. CASE drain' = [drain EXCEPT !.plan = plan, !.pc = "publish"]
      BY <3>1, <3>2, DrainMoves, Zenon
    <3>3. CASE plan = {} /\ drain' = [drain EXCEPT !.plan = plan, !.pc = "step"]
      BY <3>1, <3>3, DrainMoves, Zenon
    <3> QED
      BY <2>4, <3>2, <3>3
  <2>6. RestTyped'
    BY <1>8, <2>4, <2>5 DEF PublishNext, Deliver, RestTyped, claim, process
  <2> QED
    BY <2>3, <2>4, <2>5, <2>6, DeliverKeeps, RowsInvParts
<1>9. CASE ArrivedSteers
  <2> DEFINE plan == IdsAt(SteersToControl(inbox))
  <2>1. plan \subseteq Pending /\ FirstIn(inbox, plan)
    BY PromotableIs
  <2>2. PICK pc \in {"publish", "step"} :
           /\ drain' = [drain EXCEPT !.plan = plan, !.more = FALSE, !.pc = pc]
           /\ pc = "step" => plan = {}
    BY <1>9 DEF ArrivedSteers, At
  <2>3. drain' \in DrainType /\ drain'.plan = plan /\ drain'.pc = pc
    BY <2>1, <2>2 DEF RestTyped, DrainType, DrainPcs
  <2>4. RestTyped' /\ UNCHANGED rows
    BY <1>9, <2>3 DEF ArrivedSteers, RestTyped, process, durable, rows
  <2>5. Planned'
    BY <2>1, <2>2, <2>3, <2>4 DEF Planned, Pending, rows
  <2>6. DistinctIds(inbox)' /\ NeverAgain'
    BY <2>4 DEF RowsInv, DistinctIds, NeverAgain, Pending, rows
  <2> QED
    BY <2>4, <2>5, <2>6, RowsInvParts DEF rows
<1>10. CASE Again \/ Ends \/ Fails \/ Declined \/ Interrupted
  <2>1. exec' \in ExecType
    BY <1>10, ExecTyped DEF Again, Ends, Fails, Declined, Interrupted, RestTyped
  <2>2. drain' \in DrainType /\ drain'.plan = {}
    <3>1. [NoDrain EXCEPT !.pc = "declined"] \in DrainType /\ [NoDrain EXCEPT !.pc = "declined"].plan = {}
      BY DEF NoDrain, DrainType, DrainPcs
    <3> QED
      BY <1>0, <1>10, <3>1 DEF Again, Ends, Fails, Declined, Interrupted
  <2>3. owed' \subseteq owed
    BY <1>10 DEF Again, Ends, Fails, Declined, StillOwed, Interrupted
  <2>4. RestTyped' /\ UNCHANGED rows
    BY <1>10, <2>1, <2>2, <2>3
       DEF Again, Ends, Fails, Declined, Interrupted, RestTyped, process, durable, rows
  <2> QED
    BY <2>2, <2>4, RowsKept, RowsInvParts
<1>11. CASE Settled \/ SettleRun
  <2>1. exec' \in ExecType
    BY <1>11, ExecTyped DEF Settled, SettleRun, RestTyped
  <2>2. attempts' \in 0..MaxAttempts + 1
    BY <1>11, BoundsAssumption DEF Settled, SettleRun, durable, claim, RestTyped
  <2>3. RestTyped' /\ UNCHANGED rows /\ UNCHANGED drain
    BY <1>11, <2>1, <2>2 DEF Settled, SettleRun, RestTyped, process, durable, rows, claim
  <2> QED
    BY <2>3, RowsKept, RowsInvParts
<1> QED
  BY <1>1, <1>2, <1>3, <1>4, <1>5, <1>6, <1>7, <1>8, <1>9, <1>10, <1>11 DEF FiberStep

(* the death of the process and the sweep of the next,                     *)
LEMMA RowsDeathAndSweep ==
    ASSUME RowsInv, Crash \/ SweepStep
    PROVE  RowsInv'
<1> USE RowsInvTypes
<1>1. CASE Crash
  <2>1. exec' \in ExecType
    BY <1>1, ExecTyped DEF Crash, RestTyped
  <2>2. drain' \in DrainType /\ drain'.plan = {}
    BY <1>1, DrainTyped DEF Crash, NoDrain
  <2>3. owed' \subseteq Ids
    BY <1>1 DEF Crash
  <2>4. RestTyped' /\ UNCHANGED rows
    BY <1>1, <2>1, <2>2, <2>3 DEF Crash, RestTyped, SweepPcs, durable, rows
  <2> QED
    BY <2>2, <2>4, RowsKept, RowsInvParts
<1>2. CASE SweepStep
  <2>1. exec' \in ExecType
    BY <1>2, ExecTyped
       DEF SweepStep, SweepActive, SweepList, CountResume, Exhaust, SweepRun, RestTyped
  <2>2. attempts' \in 0..MaxAttempts + 1
    BY <1>2, BoundsAssumption
       DEF SweepStep, SweepActive, SweepList, CountResume, Exhaust, SweepRun, RestTyped, durable
  <2>3. sweep' \in SweepPcs
    BY <1>2 DEF SweepStep, SweepActive, SweepList, CountResume, Exhaust, SweepRun, SweepTo, SweepPcs
  <2>4. RestTyped' /\ UNCHANGED rows /\ UNCHANGED drain
    BY <1>2, <2>1, <2>2, <2>3
       DEF SweepStep, SweepActive, SweepList, CountResume, Exhaust, SweepRun, SweepTo,
           RestTyped, durable, rows
  <2> QED
    BY <2>4, RowsKept, RowsInvParts
<1> QED
  BY <1>1, <1>2

(* and hence every step.                                                   *)
LEMMA RowsStep == RowsInv /\ [Next]_vars => RowsInv'
<1> SUFFICES ASSUME RowsInv, [Next]_vars PROVE RowsInv'
  OBVIOUS
<1>1. CASE UNCHANGED vars
  <2>1. RestTyped' /\ UNCHANGED rows /\ UNCHANGED drain
    BY <1>1, RowsInvTypes DEF vars, rows, RestTyped
  <2> QED
    BY <2>1, RowsKept, RowsInvParts
<1>2. CASE CallStep
  BY <1>2, RowsCall DEF CallStep
<1> QED
  BY <1>1, <1>2, RowsRequest, RowsFiber, RowsDeathAndSweep DEF Next

(* RowsInv is an invariant.                                                *)
LEMMA RowsInvariant == Spec => []RowsInv
  BY RowsInit, RowsStep, PTL DEF Spec

(* Every variable keeps its type, whatever is asked of the session and     *)
(* however often its process dies.                                         *)
THEOREM TypeCorrect == Spec => []TypeOK
  BY RowsInvariant, PTL DEF RowsInv

(* An input is delivered at most once: the row leaves the inbox as its     *)
(* message is published, and an id that was delivered is never a row again *)
(* (reconcile and admit of session/inbox.ts).                              *)
THEOREM DeliveredOnce == Spec => []NeverAgain
  BY RowsInvariant, PTL DEF RowsInv

-----------------------------------------------------------------------------
(* The claim and what is owed                                              *)

(* The claim is released before the execution leaves, and a session at     *)
(* rest outside the sweep has none, but where it is kept.                  *)
Released ==
    /\ exec.phase = "closing" /\ claimed => Kept
    /\ IdleIsReleased

(* What is left of the owed is steered, when only steers are woken for.    *)
Covers(bell) ==
    \/ bell = "input"
    \/ owed = {}
    \/ bell = "steer" /\ owed \subseteq SteerIds(inbox)

Continued == \E c \in calls : c.op = "continue"

Covered ==
    /\ owed \subseteq Pending
    /\ ~Active => (claimed /\ ~Kept) \/ owed = {}
    /\ ~Active /\ Continued => owed = {}
    /\ exec.phase \in {"exiting", "closing"} \/ exec.stopping => Covers(exec.bell)
    /\ At("end") => Covers(exec.bell)
    /\ Owned => Covers(exec.scope) \/ Covers(exec.bell)

(* Every step keeps Released.                                              *)
LEMMA ReleasedStep ==
    ASSUME RowsInv, Released, [Next]_vars
    PROVE  Released'
<1> USE DEF Released, IdleIsReleased, Kept
<1>1. exec \in ExecType
  BY RowsInvTypes DEF RestTyped
<1>2. CASE /\ UNCHANGED <<exec, claimed>> /\ (sweep' = sweep \/ sweep' # "off")
           /\ UNCHANGED drain \/ exec.phase = "draining"
  BY <1>2 DEF Active
<1>3. CASE UNCHANGED <<claimed, sweep, drain>> /\ exec' \in ExecType
           /\ (exec'.phase = "closing" => exec.phase = "closing")
           /\ (Active => Active')
  BY <1>3
<1>4. CASE Request
  <2>1. ASSUME NEW resume \in BOOLEAN, InterruptSession(resume)
        PROVE  Released'
    <3>1. exec'.phase = exec.phase
      BY <1>1, <2>1 DEF InterruptSession, Interrupt, ExecType
    <3> QED
      BY <2>1, <3>1 DEF InterruptSession, durable, Active
  <2>2. CASE UNCHANGED <<exec, claimed, sweep, drain>>
    BY <1>2, <2>2
  <2> QED
    BY <1>4, <2>1, <2>2 DEF Request, Prompt, Compact, Move, CancelInbox, SteerInbox, QueueInbox,
                            Resume, durable, claim, process
<1>5. ASSUME NEW c \in calls, Admit(c) \/ WakeCall(c) \/ RunCall(c) \/ ContinueCall(c)
      PROVE  Released'
  <2>1. UNCHANGED <<claimed, sweep, drain>>
    BY <1>5 DEF Admit, WakeCall, RunCall, ContinueCall, durable, claim
  <2>2. UNCHANGED exec \/ Run \/ \E scope \in Scopes : Wake(scope)
    BY <1>5 DEF Admit, WakeCall, RunCall, ContinueCall, Scopes
  <2>3. exec'.phase = exec.phase \/ (exec'.phase = "forked" /\ ~Active)
    BY <1>1, <2>2 DEF Run, Wake, Execution, Idle, ExecType
  <2> QED
    BY <2>1, <2>3 DEF Active
<1>6. CASE FiberStep \/ Reloaded
  <2>1. CASE Started
    BY <1>1, <2>1 DEF Started, BeginDrain, ExecType, Active
  <2>2. CASE Again
    <3>1. exec.phase = "draining" /\ exec'.phase = "draining"
      BY <1>1, <2>2 DEF Again, DrainAgain, ExecType, At
    <3> QED
      BY <3>1 DEF Active
  <2>3. CASE Ends \/ Fails \/ Declined \/ Interrupted
    <3>1. Exit
      BY <2>3, Zenon DEF Ends, Fails, Declined, Interrupted
    <3>2. exec'.phase = "exiting"
      BY <3>1 DEF Exit, Idle
    <3> QED
      BY <3>2 DEF Active
  <2>4. CASE Settled
    BY <2>4 DEF Settled, HookDone, claim, process, Active
  <2>5. CASE SettleRun
    BY <2>5 DEF SettleRun, Settle, Execution, Idle, durable, process, Active
  <2>6. CASE UNCHANGED <<exec, claimed, sweep>> /\ exec.phase = "draining"
    BY <1>2, <2>6
  <2>7. CASE Look \/ TakeControl \/ Boundary \/ Compacted \/ IdleHook \/ Reloaded
    BY <2>6, <2>7 DEF Reloaded, Look, TakeControl, Boundary, Compacted, IdleHook,
                      durable, claim, process, At
  <2>8. CASE Promote \/ PublishNext \/ ArrivedSteers \/ \E b \in BOOLEAN : Stepped(b)
    BY <2>6, <2>8 DEF Promote, PublishNext, ArrivedSteers, Stepped, durable, claim, process, At
  <2> QED
    BY <1>6, <2>1, <2>2, <2>3, <2>4, <2>5, <2>7, <2>8 DEF FiberStep
<1>7. CASE SweepStep
  <2>1. CASE SweepActive \/ SweepList \/ CountResume
    BY <2>1 DEF SweepActive, SweepList, CountResume, SweepTo, durable, Active
  <2>2. CASE Exhaust
    BY <2>2 DEF Exhaust
  <2>3. CASE SweepRun
    BY <1>1, <2>3 DEF SweepRun, Run, Execution, Idle, SweepTo, durable, Active
  <2> QED
    BY <1>7, <2>1, <2>2, <2>3 DEF SweepStep
<1>8. CASE Crash
  BY <1>8 DEF Crash, Idle
<1>9. CASE UNCHANGED vars
  BY <1>2, <1>9 DEF vars
<1> QED
  BY <1>4, <1>5, <1>6, <1>7, <1>8, <1>9 DEF Next, CallStep

(* Once the sweep of a boot is over, a session at rest has no claim, but    *)
(* one kept by an execution that interrupted itself: every other way out   *)
(* of an execution releases it in settled (execution.ts), whatever claims  *)
(* were there before, and what the sweep gives up on is released           *)
(* (restart.ts).                                                           *)
THEOREM RestIsReleased == Spec => []IdleIsReleased
<1>1. Init => Released
  BY DEF Init, Released, IdleIsReleased, Idle
<1>2. RowsInv /\ Released /\ [Next]_vars => Released'
  BY ReleasedStep
<1>3. Released => IdleIsReleased
  BY DEF Released
<1> QED
  BY <1>1, <1>2, <1>3, RowsInvariant, PTL DEF Spec


(* What a step leaves covered that only takes out of the owed what leaves  *)
(* the inbox or is parked.                                                 *)
LEMMA CoveredFrame ==
    ASSUME Covered, NEW gone, owed' = owed \ gone,
           Pending \ gone \subseteq Pending',
           SteerIds(inbox) \ gone \subseteq SteerIds(inbox'),
           UNCHANGED <<exec, claimed>>, UNCHANGED drain \/ Active,
           Continued' => Continued \/ Active,
           At("end")' => At("end") \/ Covers(exec.bell)
    PROVE  Covered'
  BY DEF Covered, Covers, Kept, Active, Owned

(* A drain that returns has looked at the whole inbox, or at the part of   *)
(* it that it was woken for: what it leaves is covered by the bell.        *)
LEMMA QuietCovers ==
    ASSUME RowsInv, Covered, Owned, NEW scope \in Scopes,
           LET i == NextPromotable(inbox, scope) IN
           \/ i = 0 /\ scope = "input"
           \/ i # 0 /\ inbox[i].delivery = "queue" /\ exec.scope = "steer"
    PROVE  Covers(exec.bell)
<1>1. inbox \in Seq(Row)
  BY RowsInvTypes
<1>2. CASE NextPromotable(inbox, scope) = 0 /\ scope = "input"
  <2>1. inbox = <<>>
    BY <1>1, <1>2, NextPromotableIs
  <2>2. DOMAIN inbox = {}
    BY <2>1, EmptySeq, LenProperties
  <2>3. Pending = {}
    BY <2>2, Zenon DEF Pending, PendingIds
  <2> QED
    BY <2>3 DEF Covered, Covers
<1>3. CASE /\ NextPromotable(inbox, scope) # 0
           /\ inbox[NextPromotable(inbox, scope)].delivery = "queue" /\ exec.scope = "steer"
  <2>1. inbox[NextPromotable(inbox, scope)].delivery # "steer"
    BY <1>3
  <2>2. Steers(inbox) = {}
    BY <1>1, <1>3, <2>1, NextPromotableIs, Zenon
  <2>3. SteerIds(inbox) = {}
    BY <2>2, Zenon DEF SteerIds
  <2> QED
    BY <1>3, <2>3 DEF Covered, Covers
<1> QED
  BY <1>2, <1>3, Zenon

(* What is owed is covered after every request,                            *)
LEMMA CoveredRequest ==
    ASSUME RowsInv, Covered, Request
    PROVE  Covered'
<1> USE RowsInvTypes
<1>1. ASSUME NEW row, inbox' = inbox \/ (row \in Row /\ inbox' = Append(inbox, row)),
             NEW c, calls' = calls \cup {c}, c.op # "continue",
             UNCHANGED <<exec, claimed, owed, drain>>
      PROVE  Covered'
  <2>1. Pending \subseteq Pending' /\ SteerIds(inbox) \subseteq SteerIds(inbox')
    BY <1>1, AppendIds DEF Pending
  <2>2. Continued' => Continued
    BY <1>1 DEF Continued
  <2>3. At("end")' => At("end")
    BY <1>1 DEF At
  <2> QED
    BY <1>1, <2>1, <2>2, <2>3, CoveredFrame
<1>2. \A id : /\ ToAdmit(id, "steer").op # "continue" /\ ToAdmit(id, "queue").op # "continue"
              /\ ToWake(id).op # "continue" /\ ToRun.op # "continue"
  BY DEF ToAdmit, ToWake, ToRun
<1>3. ASSUME NEW id \in Prompts, NEW d \in Deliveries, Prompt(id, d)
      PROVE  Covered'
  <2>1. PICK c : calls' = calls \cup {c} /\ c.op # "continue"
    BY <1>2, <1>3 DEF Prompt, Call, Deliveries
  <2> QED
    BY <1>1, <1>3, <2>1 DEF Prompt, durable
<1>4. ASSUME NEW id \in Controls, NEW d \in Deliveries, Compact(id, d) \/ Move(id, d)
      PROVE  Covered'
  <2>1. PICK row \in Row : inbox' = inbox \/ inbox' = Append(inbox, row)
    <3>1. /\ [id |-> id, type |-> "compaction", delivery |-> d] \in Row
          /\ [id |-> id, type |-> "move", delivery |-> d] \in Row
      BY <1>4 DEF Row, Ids
    <3> QED
      BY <1>4, <3>1, Zenon DEF Compact, Move
  <2>2. PICK w : calls' = calls \cup {ToWake(w)}
    BY <1>4, Zenon DEF Compact, Move, Call
  <2> QED
    BY <1>1, <1>2, <1>4, <2>1, <2>2 DEF Compact, Move, claim
<1>5. ASSUME NEW id \in Ids, CancelInbox(id) \/ QueueInbox(id)
      PROVE  Covered'
  <2>1. /\ id \in Pending /\ owed' = owed \ {id}
        /\ UNCHANGED <<exec, claimed, calls, drain>>
    BY <1>5 DEF CancelInbox, QueueInbox, claim, process
  <2>2. PICK i \in DOMAIN inbox : i = IndexOf(inbox, id) /\ inbox[i].id = id
    BY <2>1, IndexOfIs DEF Pending
  <2>3. inbox' = Without(inbox, i) \/ inbox' = Redelivered(inbox, i, "queue")
    BY <1>5, <2>2 DEF CancelInbox, QueueInbox
  <2>4. Pending \ {id} \subseteq Pending' /\ SteerIds(inbox) \ {id} \subseteq SteerIds(inbox')
    BY <2>2, <2>3, WithoutIds, RedeliveredIds DEF Pending, Deliveries
  <2>5. (Continued' => Continued) /\ (At("end")' => At("end"))
    BY <2>1 DEF Continued, At
  <2> QED
    BY <2>1, <2>4, <2>5, CoveredFrame
<1>6. ASSUME NEW id \in Ids, SteerInbox(id)
      PROVE  Covered'
  <2>1. /\ id \in Pending /\ calls' = calls \cup {ToWake(id)}
        /\ UNCHANGED <<exec, claimed, owed, drain>>
    BY <1>6 DEF SteerInbox, Call, claim
  <2>2. PICK i \in DOMAIN inbox : i = IndexOf(inbox, id)
    BY <2>1, IndexOfIs DEF Pending
  <2>3. Pending \subseteq Pending' /\ SteerIds(inbox) \subseteq SteerIds(inbox')
    BY <1>6, <2>2, RedeliveredIds DEF SteerInbox, Pending, Deliveries
  <2>4. (Continued' => Continued) /\ (At("end")' => At("end"))
    BY <1>2, <2>1 DEF Continued, At
  <2> QED
    BY <2>1, <2>3, <2>4, CoveredFrame
<1>7. ASSUME Resume
      PROVE  Covered'
  BY <1>1, <1>2, <1>7 DEF Resume, Call, durable
<1>8. ASSUME NEW resume \in BOOLEAN, InterruptSession(resume)
      PROVE  Covered'
  <2>1. CASE owed' = {}
    <3>1. claimed' = claimed /\ owed' \subseteq Pending'
      BY <1>8, <2>1 DEF InterruptSession, durable
    <3> QED
      BY <2>1, <3>1 DEF Covered, Covers
  <2>2. CASE ~(Interruptible \/ (~Active /\ resume))
    <3>1. UNCHANGED <<exec, inbox, claimed, drain, owed>>
      BY <1>8, <2>2 DEF InterruptSession, Interrupt, durable
    <3>2. Continued' => Continued \/ Active
      BY <1>8, <2>2 DEF InterruptSession, Continued, Call
    <3>3. /\ Pending \subseteq Pending' /\ SteerIds(inbox) \subseteq SteerIds(inbox')
          /\ (At("end")' => At("end"))
      BY <3>1 DEF Pending, At
    <3> QED
      BY <3>1, <3>2, <3>3, CoveredFrame
  <2> QED
    BY <1>8, <2>1, <2>2 DEF InterruptSession
<1> QED
  BY <1>3, <1>4, <1>5, <1>6, <1>7, <1>8 DEF Request

(* after the second half of every call,                                    *)
LEMMA CoveredCall ==
    ASSUME RowsInv, Covered, NEW c \in calls,
           Admit(c) \/ WakeCall(c) \/ RunCall(c) \/ ContinueCall(c)
    PROVE  Covered'
<1> USE RowsInvTypes
<1>1. c \in CallType /\ exec \in ExecType
  BY DEF RestTyped
<1>2. CASE Admit(c)
  <2> DEFINE row == [id |-> c.id, type |-> "prompt", delivery |-> c.delivery]
  <2>1. row \in Row
    BY <1>1, <1>2 DEF Admit, CallType, Row, Ids
  <2>2. inbox' = inbox \/ inbox' = Append(inbox, row)
    BY <1>2 DEF Admit
  <2>3. Pending \subseteq Pending' /\ SteerIds(inbox) \subseteq SteerIds(inbox')
    BY <2>1, <2>2, AppendIds DEF Pending
  <2>4. (Continued' => Continued) /\ (At("end")' => At("end"))
    BY <1>2 DEF Admit, Continued, ToWake, At
  <2> QED
    BY <1>2, <2>3, <2>4, CoveredFrame DEF Admit, claim
<1>3. CASE WakeCall(c)
  <2>1. /\ Wake("input") /\ owed' \subseteq Pending' /\ Active'
        /\ UNCHANGED <<drain, inbox, claimed>>
    BY <1>1, <1>3 DEF WakeCall, Wake, durable, Covered, Pending, Active, Execution, Idle, ExecType
  <2>2. \/ exec'.bell = "input"
        \/ exec'.phase = "forked" /\ exec'.scope = "input" /\ ~exec'.stopping
    BY <1>1, <2>1 DEF Wake, Execution, Idle, ExecType
  <2> QED
    BY <2>1, <2>2 DEF Covered, Covers, At
<1>4. CASE RunCall(c)
  <2>1. /\ Run /\ UNCHANGED <<drain, inbox, claimed, owed>>
        /\ (Continued' => Continued)
    BY <1>4 DEF RunCall, durable, Continued
  <2>2. CASE Active
    <3>1. UNCHANGED exec
      BY <2>1, <2>2 DEF Run
    <3> QED
      BY <2>1, <3>1, CoveredFrame DEF Pending, At
  <2>3. CASE ~Active
    <3>1. exec'.phase = "forked" /\ exec'.scope = "input" /\ ~exec'.stopping
      BY <2>1, <2>3 DEF Run, Execution, Idle
    <3> QED
      BY <2>1, <3>1 DEF Covered, Covers, At, Active, Pending
  <2> QED
    BY <2>2, <2>3
<1>5. CASE ContinueCall(c)
  <2>1. UNCHANGED <<drain, inbox, claimed>> /\ calls' \subseteq calls /\ Continued
    BY <1>5 DEF ContinueCall, durable, Continued
  <2>2. CASE UNCHANGED <<exec, owed>>
    BY <2>1, <2>2, CoveredFrame DEF Pending, At, Continued
  <2>3. CASE /\ Wake("steer")
             /\ \E i : owed' = owed \cup {inbox[j].id : j \in {i} \cap Steers(inbox)}
    <3>1. owed' \subseteq owed \cup SteerIds(inbox)
      BY <2>3 DEF SteerIds
    <3>2. owed' \subseteq Pending'
      BY <2>1, <3>1, PendingTyped DEF Covered, Pending
    <3>3. CASE ~Active
      <4>1. exec'.phase = "forked" /\ exec'.scope = "steer" /\ ~exec'.stopping /\ owed = {}
        BY <2>1, <2>3, <3>3 DEF Wake, Execution, Idle, Covered
      <4> QED
        BY <2>1, <3>1, <3>2, <4>1 DEF Covered, Covers, At, Active
    <3>4. CASE Active
      <4>1. /\ exec'.phase = exec.phase /\ exec'.scope = exec.scope
            /\ exec'.stopping = exec.stopping
            /\ exec'.bell = IF exec.bell = "input" THEN "input" ELSE "steer"
        BY <1>1, <2>3, <3>4 DEF Wake, ExecType
      <4>2. Covers(exec.bell) => Covers(exec.bell)'
        BY <2>1, <3>1, <4>1 DEF Covers
      <4>3. Covers(exec.scope) => Covers(exec.scope)' \/ Covers(exec.bell)'
        BY <2>1, <3>1, <4>1 DEF Covers
      <4> QED
        BY <2>1, <3>2, <3>4, <4>1, <4>2, <4>3 DEF Covered, Active, Owned, At
    <3> QED
      BY <3>3, <3>4
  <2> QED
    BY <1>5, <2>2, <2>3, Zenon DEF ContinueCall
<1> QED
  BY <1>2, <1>3, <1>4, <1>5


(* after every step of a drain,                                            *)
LEMMA CoveredFiber ==
    ASSUME RowsInv, Covered, FiberStep \/ Reloaded
    PROVE  Covered'
<1> USE RowsInvTypes
<1>1. exec \in ExecType
  BY DEF RestTyped
<1>2. CASE Started
  <2>1. /\ exec.phase = "forked" /\ exec' = [exec EXCEPT !.phase = "draining", !.force = FALSE]
        /\ drain'.pc = "look" /\ UNCHANGED <<inbox, calls, owed>>
    BY <1>2 DEF Started, BeginDrain, Drain, NoDrain, rows, process
  <2>2. /\ exec'.phase = "draining" /\ exec'.scope = exec.scope
        /\ exec'.bell = exec.bell /\ exec'.stopping = exec.stopping
    BY <1>1, <2>1 DEF ExecType
  <2> QED
    BY <2>1, <2>2 DEF Covered, Covers, Active, Owned, At, Pending
<1>3. ASSUME UNCHANGED <<exec, inbox, claimed, calls, owed>>, exec.phase = "draining",
             drain'.pc = "end" => drain.pc = "end" \/ Covers(exec.bell)
      PROVE  Covered'
  <2>1. /\ Pending \subseteq Pending' /\ SteerIds(inbox) \subseteq SteerIds(inbox')
        /\ (Continued' => Continued)
    BY <1>3 DEF Pending, Continued
  <2>2. At("end")' => At("end") \/ Covers(exec.bell)
    BY <1>3 DEF At
  <2>3. Active
    BY <1>3 DEF Active
  <2> QED
    BY <1>3, <2>1, <2>2, <2>3, CoveredFrame
<1>4. ASSUME drain' = Returned \/ drain'.pc # "end", At("look") \/ At("boundary") \/ At("hook"),
             drain' = Returned =>
                \E scope \in Scopes :
                   LET i == NextPromotable(inbox, scope) IN
                   \/ i = 0 /\ scope = "input"
                   \/ i # 0 /\ inbox[i].delivery = "queue" /\ exec.scope = "steer",
             UNCHANGED <<exec, inbox, claimed, calls, owed>>
      PROVE  Covered'
  <2>1. Owned
    BY <1>4 DEF At, Owned
  <2>2. drain' = Returned => Covers(exec.bell)
    BY <1>4, <2>1, QuietCovers
  <2> QED
    BY <1>3, <1>4, <2>2 DEF At
<1>5. CASE Look
  <2>1. drain \in DrainType
    BY DEF RestTyped
  <2>2. drain' = Returned \/ drain'.pc = "boundary"
    BY <1>5, <2>1 DEF Look, Goto, DrainType
  <2>3. "input" \in Scopes
    BY DEF Scopes
  <2>4. drain' = Returned /\ drain'.pc # "boundary" =>
           LET i == NextPromotable(inbox, "input") IN
           i = 0 \/ (i # 0 /\ inbox[i].delivery = "queue" /\ exec.scope = "steer")
    BY <1>5, <2>1 DEF Look, Goto, Parked, DrainType
  <2>5. Returned.pc # "boundary"
    BY DEF Returned, NoDrain
  <2>6. drain' = Returned =>
           \E scope \in Scopes :
              LET i == NextPromotable(inbox, scope) IN
              \/ i = 0 /\ scope = "input"
              \/ i # 0 /\ inbox[i].delivery = "queue" /\ exec.scope = "steer"
    BY <2>3, <2>4, <2>5, Zenon
  <2> QED
    BY <1>4, <1>5, <2>2, <2>6 DEF Look, durable, process
<1>6. CASE Boundary
  <2>1. drain \in DrainType /\ BoundaryScope \in Scopes
    BY DEF RestTyped, BoundaryScope, Scopes
  <2>2. \/ drain' = Returned /\ Quiet(NextAtBoundary)
        \/ drain' = [drain EXCEPT !.entering = Reentered, !.pc = "hook"]
        \/ drain' = [drain EXCEPT !.entering = Reentered, !.pc = "prepare"]
    BY <1>6, Zenon DEF Boundary
  <2>3. Returned.pc = "end"
    BY DEF Returned, NoDrain
  <2>4. \/ drain' = Returned /\ Quiet(NextAtBoundary)
        \/ drain'.pc = "hook" \/ drain'.pc = "prepare"
    BY <2>1, <2>2 DEF DrainType
  <2>5. Quiet(NextAtBoundary) =>
           LET i == NextPromotable(inbox, BoundaryScope) IN
           \/ i = 0 /\ BoundaryScope = "input"
           \/ i # 0 /\ inbox[i].delivery = "queue" /\ exec.scope = "steer"
    BY DEF Quiet, BoundaryScope, NextAtBoundary
  <2>6. drain' = Returned =>
           \E scope \in Scopes :
              LET i == NextPromotable(inbox, scope) IN
              \/ i = 0 /\ scope = "input"
              \/ i # 0 /\ inbox[i].delivery = "queue" /\ exec.scope = "steer"
    BY <2>1, <2>3, <2>4, <2>5
  <2> QED
    BY <1>4, <1>6, <2>4, <2>6 DEF Boundary, durable, process
<1>7. CASE IdleHook
  <2>1. drain \in DrainType
    BY DEF RestTyped
  <2>2. drain' = Returned \/ drain' = [drain EXCEPT !.pc = "boundary"]
    BY <1>7, Zenon DEF IdleHook
  <2>3. drain' = Returned \/ drain'.pc = "boundary"
    BY <2>1, <2>2 DEF DrainType
  <2>4. CASE inbox = <<>>
    <3>1. NextPromotable(inbox, "input") = 0
      <4>1. DOMAIN inbox = {}
        BY <2>4, EmptySeq, LenProperties
      <4>2. Steers(inbox) = {}
        BY <4>1 DEF Steers
      <4> QED
        BY <2>4, <4>2, Zenon DEF NextPromotable
    <3>2. "input" \in Scopes
      BY DEF Scopes
    <3>3. \E scope \in Scopes :
             LET i == NextPromotable(inbox, scope) IN
             \/ i = 0 /\ scope = "input"
             \/ i # 0 /\ inbox[i].delivery = "queue" /\ exec.scope = "steer"
      BY <3>1, <3>2, Zenon
    <3>4. drain' = Returned \/ drain'.pc # "end"
      BY <2>3
    <3> QED
      BY <1>4, <1>7, <3>3, <3>4 DEF IdleHook, durable, process
  <2>5. CASE inbox # <<>>
    <3>1. drain' = [drain EXCEPT !.pc = "boundary"]
      BY <1>7, <2>5, Zenon DEF IdleHook
    <3>2. drain'.pc # "end"
      BY <2>1, <3>1 DEF DrainType
    <3> QED
      BY <1>3, <1>7, <3>2 DEF IdleHook, durable, process, At
  <2> QED
    BY <2>4, <2>5
<1>8. CASE TakeControl \/ PublishNext
  <2>1. drain \in DrainType
    BY DEF RestTyped
  <2>2. PICK i \in DOMAIN inbox : Deliver(i)
    BY <1>8, NextAtBoundaryIs, PublishedIs, Zenon
       DEF TakeControl, PublishNext, PlannedRows
  <2>3. /\ owed' = owed \ {inbox[i].id} /\ inbox' = Without(inbox, i)
        /\ UNCHANGED <<exec, claimed, calls>>
    BY <1>8, <2>2 DEF TakeControl, PublishNext, Deliver, claim, process
  <2>4. /\ Pending \ {inbox[i].id} \subseteq Pending'
        /\ SteerIds(inbox) \ {inbox[i].id} \subseteq SteerIds(inbox')
    BY <2>3, WithoutIds DEF Pending
  <2>5. Continued' => Continued
    BY <2>3 DEF Continued
  <2>6. drain'.pc # "end"
    <3>1. CASE TakeControl
      <4>1. \/ drain' = [drain EXCEPT !.pc = "compact", !.entering = Reentered]
            \/ drain' = Drain(FALSE, drain.continuing, ~drain.continuing /\ drain.stepped)
        BY <3>1, Zenon DEF TakeControl
      <4> QED
        BY <2>1, <4>1 DEF DrainType, Drain, NoDrain
    <3>2. CASE PublishNext
      <4>1. drain.pc = "publish"
        BY <3>2 DEF PublishNext, At
      <4>2. PICK plan : \/ drain' = [drain EXCEPT !.plan = plan, !.pc = "step"]
                        \/ drain' = [drain EXCEPT !.plan = plan, !.pc = "publish"]
        BY <3>2, <4>1, Zenon DEF PublishNext
      <4> QED
        BY <2>1, <4>2 DEF DrainType
    <3> QED
      BY <1>8, <3>1, <3>2
  <2>7. Active
    BY <1>8 DEF TakeControl, PublishNext, At, Active
  <2> QED
    BY <2>3, <2>4, <2>5, <2>6, <2>7, CoveredFrame DEF At
<1>9. CASE Compacted \/ Reloaded \/ \E continuing \in BOOLEAN : Stepped(continuing)
  <2>1. drain \in DrainType
    BY DEF RestTyped
  <2>2. drain'.pc # "end"
    BY <1>9, <2>1 DEF Compacted, Reloaded, Stepped, Drain, NoDrain, DrainType
  <2> QED
    BY <1>3, <1>9, <2>2 DEF Compacted, Reloaded, Stepped, durable, process, At
<1>10. CASE Promote
  <2>1. PICK pc \in {"boundary", "step", "publish"} : \E plan, more :
           \/ drain' = [drain EXCEPT !.pc = pc]
           \/ drain' = [drain EXCEPT !.pc = pc, !.plan = plan, !.more = more]
    BY <1>10, Zenon DEF Promote
  <2>2. drain'.pc # "end"
    BY <2>1 DEF RestTyped, DrainType
  <2> QED
    BY <1>3, <1>10, <2>2 DEF Promote, durable, process, At
<1>11. CASE ArrivedSteers
  <2>1. PICK pc \in {"publish", "step"} : \E plan :
           drain' = [drain EXCEPT !.plan = plan, !.more = FALSE, !.pc = pc]
    BY <1>11 DEF ArrivedSteers, At
  <2>2. drain'.pc # "end"
    BY <2>1 DEF RestTyped, DrainType
  <2> QED
    BY <1>3, <1>11, <2>2 DEF ArrivedSteers, durable, process, At
<1>12. CASE Again
  <2>1. /\ exec' = [exec EXCEPT !.scope = exec.bell, !.bell = "none"]
        /\ At("end") /\ ~exec.stopping /\ drain'.pc = "look"
        /\ UNCHANGED <<inbox, owed>>
    BY <1>12 DEF Again, DrainAgain, RungAgain, Drain, NoDrain, durable
  <2>2. exec'.phase = "draining" /\ exec'.scope = exec.bell /\ ~exec'.stopping
    BY <1>1, <2>1 DEF ExecType, At
  <2>3. Covers(exec.bell) /\ owed \subseteq Pending
    BY <2>1 DEF Covered
  <2> QED
    BY <2>1, <2>2, <2>3 DEF Covered, Covers, Active, Owned, At, Pending
<1>13. CASE Ends \/ Fails \/ Declined \/ Interrupted
  <2>1. /\ exec'.phase = "exiting" /\ exec'.bell = exec.bell
        /\ UNCHANGED <<inbox>>
    BY <1>13 DEF Ends, Fails, Declined, Interrupted, Exit, Idle, durable
  <2>2. owed' \subseteq owed /\ Covers(exec.bell)'
    <3>1. CASE Ends \/ Interrupted
      BY <2>1, <3>1 DEF Ends, Interrupted, Covered, Covers
    <3>2. CASE Fails \/ Declined
      <4>0. owed' = StillOwed
        BY <3>2, Zenon DEF Fails, Declined
      <4>1. CASE exec.bell = "input"
        BY <2>1, <4>0, <4>1 DEF StillOwed, Covers
      <4>2. CASE exec.bell = "steer"
        <5>1. owed' = owed \cap SteerIds(inbox)
          BY <4>0, <4>2, PendingTyped DEF StillOwed
        <5> QED
          BY <2>1, <4>2, <5>1 DEF Covers
      <4>3. CASE exec.bell = "none"
        BY <2>1, <4>0, <4>3 DEF StillOwed, Covers
      <4> QED
        BY <1>1, <4>1, <4>2, <4>3 DEF ExecType
    <3> QED
      BY <1>13, <3>1, <3>2
  <2> QED
    BY <2>1, <2>2 DEF Covered, Active, Owned, At, Pending
<1>14. CASE Settled
  <2>1. /\ exec' = [exec EXCEPT !.phase = "closing"] /\ exec.phase = "exiting"
        /\ UNCHANGED <<inbox, owed, drain>>
    BY <1>14 DEF Settled, HookDone, rows
  <2>2. exec'.phase = "closing" /\ exec'.bell = exec.bell
    BY <1>1, <2>1 DEF ExecType
  <2> QED
    BY <2>1, <2>2 DEF Covered, Covers, Active, Owned, At, Pending
<1>15. CASE SettleRun
  <2>1. /\ exec.phase = "closing" /\ UNCHANGED <<inbox, owed>>
        /\ exec' = IF exec.bell = "none" THEN Idle ELSE Execution(FALSE, exec.bell)
    BY <1>15 DEF SettleRun, Settle, durable
  <2>2. Covers(exec.bell) /\ owed \subseteq Pending
    BY <2>1 DEF Covered
  <2>3. CASE exec.bell = "none"
    <3>1. owed = {} /\ ~exec'.stopping /\ exec'.phase = "none"
      BY <2>1, <2>2, <2>3 DEF Covers, Idle
    <3> QED
      BY <2>1, <3>1 DEF Covered, Covers, Active, Owned, At, Pending
  <2>4. CASE exec.bell # "none"
    <3>1. exec'.phase = "forked" /\ exec'.scope = exec.bell /\ ~exec'.stopping
      BY <2>1, <2>4 DEF Execution, Idle
    <3> QED
      BY <2>1, <2>2, <3>1 DEF Covered, Covers, Active, Owned, At, Pending
  <2> QED
    BY <2>3, <2>4
<1> QED
  BY <1>2, <1>5, <1>6, <1>7, <1>8, <1>9, <1>10, <1>11, <1>12, <1>13, <1>14, <1>15 DEF FiberStep

(* after a death and every step of the sweep,                              *)
LEMMA CoveredDeathAndSweep ==
    ASSUME RowsInv, Covered, Crash \/ SweepStep
    PROVE  Covered'
<1>1. CASE Crash
  BY <1>1 DEF Crash, Covered, Covers, Kept, NoDrain, Active, Owned, At, Idle, Continued, durable, Pending
<1>2. CASE SweepActive \/ SweepList \/ CountResume
  <2>1. UNCHANGED <<exec, inbox, claimed, drain, calls, owed>>
    BY <1>2 DEF SweepActive, SweepList, CountResume, SweepTo, durable, rows
  <2> QED
    BY <2>1 DEF Covered, Covers, Kept, Active, Owned, At, Continued, Pending
<1>3. CASE Exhaust
  <2>1. /\ UNCHANGED <<exec, inbox, drain, calls>>
        /\ owed' = IF Active THEN owed ELSE {}
    BY <1>3 DEF Exhaust, SweepTo, rows
  <2> QED
    BY <2>1 DEF Covered, Covers, Kept, Active, Owned, At, Continued, Pending
<1>4. CASE SweepRun
  <2>1. Run /\ UNCHANGED <<inbox, claimed, drain, calls, owed>>
    BY <1>4 DEF SweepRun, SweepTo, durable
  <2>2. CASE Active
    BY <2>1, <2>2 DEF Run, Covered, Covers, Active, Owned, At, Continued, Pending
  <2>3. CASE ~Active
    <3>1. exec'.phase = "forked" /\ exec'.scope = "input" /\ ~exec'.stopping
      BY <2>1, <2>3 DEF Run, Execution, Idle
    <3> QED
      BY <2>1, <3>1 DEF Covered, Covers, Active, Owned, At, Pending
  <2> QED
    BY <2>2, <2>3
<1> QED
  BY <1>1, <1>2, <1>3, <1>4 DEF SweepStep

(* and hence after every step.                                             *)
LEMMA CoveredStep == RowsInv /\ Covered /\ [Next]_vars => Covered'
<1> SUFFICES ASSUME RowsInv, Covered, [Next]_vars PROVE Covered'
  OBVIOUS
<1>1. CASE UNCHANGED vars
  BY <1>1 DEF vars, Covered, Covers, Kept, Active, Owned, At, Continued, Pending
<1>2. CASE CallStep
  BY <1>2, CoveredCall DEF CallStep
<1> QED
  BY <1>1, <1>2, CoveredRequest, CoveredFiber, CoveredDeathAndSweep DEF Next

(* No wake is lost: a session at rest owes nothing it was woken for,        *)
(* wherever in a drain, in its end or in an interrupt the wake came.       *)
THEOREM NoWakeIsLost == Spec => []NoLostWake
<1>1. Init => Covered
  BY DEF Init, Covered, Covers, Active, Owned, At, Idle, Continued
<1>2. Covered => NoLostWake
  BY DEF Covered, NoLostWake, Kept
<1> QED
  BY <1>1, <1>2, CoveredStep, RowsInvariant, PTL DEF Spec


-----------------------------------------------------------------------------
(* The order of delivery                                                   *)

Ordered ==
    \A j \in DOMAIN inbox : inbox[j].id \in messages' =>
        \A i \in DOMAIN inbox : Earlier(i, j) =>
            inbox[i].type = "prompt" /\ inbox[j].type = "compaction"

(* A delivery that passes prompts only, with a compaction, is in order.    *)
LEMMA DeliverOrdered ==
    ASSUME RowsInv, NEW j \in DOMAIN inbox, Deliver(j),
           \A i \in DOMAIN inbox : Earlier(i, j) =>
               inbox[i].type = "prompt" /\ inbox[j].type = "compaction"
    PROVE  Ordered
<1> SUFFICES ASSUME NEW k \in DOMAIN inbox, inbox[k].id \in messages'
             PROVE  k = j
  BY Zenon DEF Ordered
<1>1. inbox[k].id \notin messages
  BY RowsInvTypes, Zenon DEF Pending, PendingIds
<1>2. inbox[k].id = inbox[j].id
  BY <1>1 DEF Deliver
<1> QED
  BY <1>2, Zenon DEF RowsInv, DistinctIds

(* Every delivery is one.                                                  *)
LEMMA OrderedStep ==
    ASSUME RowsInv, [Next]_vars
    PROVE  Ordered
<1>1. inbox \in Seq(Row)
  BY RowsInvTypes
<1>2. CASE PublishNext
  <2>1. /\ drain.plan # {} /\ Deliver(Least(PlannedRows))
        /\ Least(PlannedRows) \in PlannedRows
    BY <1>2, PublishedIs, Zenon DEF PublishNext, PlannedRows
  <2>2. PICK j \in DOMAIN inbox : /\ Deliver(j) /\ inbox[j].id \in drain.plan
                                  /\ \A i \in PlannedRows : j <= i
    BY <2>1, PublishedIs DEF PlannedRows
  <2>3. ASSUME NEW i \in DOMAIN inbox, Earlier(i, j)
        PROVE  FALSE
    <3>1. i < j /\ inbox[i].id \in drain.plan
      BY <2>2, <2>3, Zenon DEF Earlier, RowsInv, Planned, FirstIn
    <3>2. j <= i /\ i \in Nat /\ j \in Nat
      BY <1>1, <2>2, <3>1, PositionsAreNaturals DEF PlannedRows
    <3> QED
      BY <3>1, <3>2
  <2> QED
    BY <2>2, <2>3, DeliverOrdered
<1>3. CASE TakeControl
  <2>1. PICK j \in DOMAIN inbox : j = NextPromotable(inbox, BoundaryScope) /\ Deliver(j)
    BY <1>3, NextAtBoundaryIs, Zenon DEF TakeControl, NextAtBoundary
  <2>2. ASSUME NEW i \in DOMAIN inbox, Earlier(i, j)
        PROVE  inbox[i].type = "prompt" /\ inbox[j].type = "compaction"
    <3>1. i < j /\ inbox[i].delivery = inbox[j].delivery /\ i \in Nat /\ j \in Nat
      BY <1>1, <2>2, PositionsAreNaturals DEF Earlier
    <3>2. CASE Steers(inbox) # {}
      <4>1. j = FirstSteer(inbox) /\ j \in Steers(inbox)
        BY <1>1, <2>1, <3>2, FirstSteerIs DEF NextPromotable
      <4>2. i \in Steers(inbox)
        BY <3>1, <4>1 DEF Steers
      <4> QED
        BY <1>1, <3>1, <3>2, <4>1, <4>2, CompactionCrossesNoMove
    <3>3. CASE Steers(inbox) = {}
      <4>1. j = Least(DOMAIN inbox)
        <5>1. j # 0
          BY <1>1, PositionsAreNaturals
        <5> QED
          BY <2>1, <3>3, <5>1, Zenon DEF NextPromotable
      <4>2. DOMAIN inbox \subseteq Nat /\ DOMAIN inbox # {}
        BY <1>1, PositionsAreNaturals
      <4>3. j <= i
        BY <4>1, <4>2, LeastIs
      <4> QED
        BY <3>1, <4>3
    <3> QED
      BY <3>2, <3>3
  <2> QED
    BY <2>1, <2>2, DeliverOrdered
<1>4. CASE UNCHANGED messages
  <2>1. \A j \in DOMAIN inbox : inbox[j].id \notin messages'
    BY <1>4, RowsInvTypes, Zenon DEF Pending, PendingIds
  <2> QED
    BY <2>1 DEF Ordered
<1>5. CASE Request
  BY <1>4, <1>5 DEF Request, Prompt, Compact, Move, CancelInbox, SteerInbox, QueueInbox, Resume,
                    InterruptSession, durable
<1>6. CASE CallStep
  BY <1>4, <1>6 DEF CallStep, Admit, WakeCall, RunCall, ContinueCall, durable
<1>7. CASE FiberStep \/ Reloaded
  <2>1. CASE Started \/ Look \/ Boundary \/ Compacted \/ IdleHook \/ Promote
    BY <1>4, <2>1 DEF Started, Look, Boundary, Compacted, IdleHook, Promote, rows, durable
  <2>2. CASE ArrivedSteers \/ Again \/ Ends \/ Interrupted \/ Settled \/ SettleRun \/ Reloaded
    BY <1>4, <2>2 DEF ArrivedSteers, Again, Ends, Interrupted, Settled, SettleRun, Reloaded,
                      rows, durable
  <2>3. CASE Fails \/ Declined \/ \E continuing \in BOOLEAN : Stepped(continuing)
    <3>1. UNCHANGED durable
      BY <2>3, Zenon DEF Fails, Declined, Stepped
    <3> QED
      BY <1>4, <3>1 DEF durable
  <2> QED
    BY <1>2, <1>3, <1>7, <2>1, <2>2, <2>3 DEF FiberStep
<1>8. CASE SweepStep \/ Crash
  BY <1>4, <1>8 DEF SweepStep, SweepActive, SweepList, CountResume, Exhaust, SweepRun, Crash,
                    rows, durable
<1>9. CASE UNCHANGED vars
  BY <1>4, <1>9 DEF vars
<1> QED
  BY <1>5, <1>6, <1>7, <1>8, <1>9 DEF Next

(* Rows of one kind of delivery are taken in the order they were enqueued; *)
(* only a compaction passes prompts, and nothing passes a move             *)
(* (pendingSteers and nextPromotable of session/inbox.ts).                 *)
THEOREM DeliveredInOrder == Spec => InOrder
<1>1. RowsInv /\ [Next]_vars => [Ordered]_vars
  BY OrderedStep
<1> QED
  BY <1>1, RowsInvariant, PTL DEF Spec, InOrder, Ordered

=============================================================================
