---------------------------- MODULE SessionInbox ----------------------------
(***************************************************************************)
(* What the inbox of a session decides (session/inbox.ts): the pending     *)
(* rows of one session in the order of their enqueued_seq, and the rules   *)
(* by which a boundary of the runner takes the next of them.  The rules    *)
(* are operators of the rows; the state is in SessionRuns.                 *)
(*                                                                         *)
(* A row is its id, its type and how it is delivered: a "steer" row joins  *)
(* the work that runs, a "queue" row waits for a turn of its own.          *)
(***************************************************************************)
EXTENDS Naturals, Sequences

CONSTANTS Prompts,  \* ids of user and synthetic rows
          Controls  \* ids of requests to compact the context, or to move

ASSUME IdsAssumption == Prompts \cap Controls = {}

Ids == Prompts \cup Controls
Deliveries == {"steer", "queue"}
Scopes == {"input", "steer"}
Row == [id : Ids, type : {"prompt", "compaction", "move"}, delivery : Deliveries]

IsControl(row) == row.type # "prompt"
PendingIds(rows) == {rows[i].id : i \in DOMAIN rows}
Least(S) == CHOOSE i \in S : \A j \in S : i <= j

Steers(rows) == {i \in DOMAIN rows : rows[i].delivery = "steer"}
SteeredControls(rows) == {i \in Steers(rows) : IsControl(rows[i])}

(* The first of pendingSteers: the earliest, except that a compaction goes  *)
(* before the prompts ahead of it, without crossing a move.                *)
FirstSteer(rows) ==
    IF /\ SteeredControls(rows) # {}
       /\ rows[Least(SteeredControls(rows))].type = "compaction"
    THEN Least(SteeredControls(rows))
    ELSE Least(Steers(rows))

(* The index of the row a boundary decides on, 0 when there is none.       *)
NextPromotable(rows, scope) ==
    IF Steers(rows) # {} THEN FirstSteer(rows)
    ELSE IF scope = "input" /\ rows # <<>> THEN Least(DOMAIN rows)
    ELSE 0

(* The steered rows of pendingSteers before its first control.             *)
SteersToControl(rows) ==
    IF Steers(rows) # {} /\ IsControl(rows[FirstSteer(rows)])
    THEN {}
    ELSE {i \in Steers(rows) : \A j \in SteeredControls(rows) : i < j}

(* A row leaves the inbox, a row changes how it is delivered.              *)
Without(rows, i) == SubSeq(rows, 1, i - 1) \o SubSeq(rows, i + 1, Len(rows))
Redelivered(rows, i, d) == [rows EXCEPT ![i].delivery = d]
IndexOf(rows, id) == CHOOSE i \in DOMAIN rows : rows[i].id = id
=============================================================================
