------------------------------ MODULE WordLease ------------------------------
(***************************************************************************)
(* The server's side of editing one document in Word: the lease that lets  *)
(* one Word pane save, the fence around a native edit in Word, and the     *)
(* chain of saved versions.                                                *)
(*                                                                         *)
(* dochaus/lib/word-edit-lease.ts and the routes of                        *)
(* services/ingest/src/word-documents.ts.  Every route holds the           *)
(* document's artifact lock for its whole change, so one request is one    *)
(* step.  A pane, here, is a Word pane with the grant it was opened with:  *)
(* (token, session) of the code.  Panes may ask for anything at any time:  *)
(* what they do ask is in WordEditing.                                     *)
(***************************************************************************)
EXTENDS Naturals, Sequences

CONSTANTS
    Panes,       \* Word panes, each with the grant of its document's handout
    Contents,    \* document bytes, told apart only by equality
    Proposals,   \* reviewed turns of a chat, to be applied in Word
    Operations,  \* ids of native operations
    None,
    MaxGenerations, MaxSequence, MaxVersions   \* claims, operations, versions

ASSUME NoneAssumption == None \notin Panes \cup Contents \cup Proposals \cup Operations
ASSUME BoundsAssumption == MaxGenerations \in Nat /\ MaxSequence \in Nat /\ MaxVersions \in Nat

VARIABLES
    row,       \* the document's row of word_edit_leases
    granted,   \* panes whose grant is not revoked
    applied,   \* word_chat_applied: the proposals confirmed as applied
    versions   \* the document's saved versions, each the child of the one before

server == <<row, granted, applied, versions>>

NativeStates == {"idle", "pending", "confirmed", "not-dispatched"}
Outcomes == {"confirmed", "not-dispatched"}

\* gen counts the generations (randomUUID) claimed; 0 is no row.  live is
\* expires_at > now.  seq, op, ngen, proposal and state are the native_ columns.
Row ==
    [owner : Panes \cup {None}, gen : Nat, live : BOOLEAN, retired : BOOLEAN,
     seq : Nat, op : Operations \cup {None}, ngen : Nat,
     proposal : Proposals \cup {None}, state : NativeStates]

\* gen: the generation that saved the version, 0 for a writer without a lease.
Version == [content : Contents, gen : Nat]

Init ==
    /\ row = [owner |-> None, gen |-> 0, live |-> FALSE, retired |-> FALSE,
              seq |-> 0, op |-> None, ngen |-> 0, proposal |-> None, state |-> "idle"]
    /\ granted = {}
    /\ applied = {}
    /\ \E c \in Contents : versions = <<[content |-> c, gen |-> 0]>>

-----------------------------------------------------------------------------
(* What the row says.                                                      *)

Current == Len(versions)
Pending == row.state = "pending"

\* liveLease: neither expired nor of a revoked grant.
Live == row.live /\ row.owner \in granted

\* requireWordEditLease, and the weaker readWordEditLease with sameIdentity.
Owns(p, g) == Live /\ row.owner = p /\ row.gen = g
Holds(p, g) == ~row.retired /\ row.owner = p /\ row.gen = g

\* The generation of the row a client is shown, 0 for none.
Shown == IF row.retired THEN 0 ELSE row.gen

-----------------------------------------------------------------------------
(* Requests of panes: what is admitted, and what an admitted one does.     *)

MayClaim(p, base) ==
    /\ p \in granted
    /\ base = Current
    /\ ~Pending
    /\ Live => row.owner = p

Claimed(r, p, sameGeneration) ==
    [r EXCEPT !.owner = p, !.gen = IF sameGeneration THEN @ ELSE @ + 1,
              !.live = TRUE, !.retired = FALSE]

\* Mutant: who claims again is given the generation that expired.
Claim_Again(p, base) ==
    /\ MayClaim(p, base)
    /\ row' = Claimed(row, p, row.owner = p)
    /\ UNCHANGED <<granted, applied, versions>>

Claim(p, base) ==
    /\ MayClaim(p, base)
    /\ row' = Claimed(row, p, Live)
    /\ UNCHANGED <<granted, applied, versions>>

\* Mutants, here and below: the pending edit is not looked for.
MayTakeOver_NoFence(p, base, current, generation) ==
    p \in granted /\ base = Current /\ current = Current /\ generation > 0 /\ generation = Shown

\* Of the lease the pane was shown: retired, then claimed, in one transaction.
MayTakeOver(p, base, current, generation) ==
    /\ p \in granted
    /\ base = Current /\ current = Current
    /\ generation > 0 /\ generation = Shown
    /\ ~Pending

TakeOver(p, base, current, generation) ==
    /\ MayTakeOver(p, base, current, generation)
    /\ row' = Claimed(row, p, FALSE)
    /\ UNCHANGED <<granted, applied, versions>>

\* Release, and Done of a current copy.
MayRelease(p, g) == p \in granted /\ ~Pending /\ Holds(p, g)

Release(p, g) ==
    /\ MayRelease(p, g)
    /\ row' = [row EXCEPT !.live = FALSE]
    /\ UNCHANGED <<granted, applied, versions>>

\* The owner of a pending operation may renew after it expired, no one else.
MayRenew(p, g) ==
    /\ p \in granted
    /\ IF Pending THEN Holds(p, g) /\ row.ngen = g ELSE Owns(p, g)

Renew(p, g) ==
    /\ MayRenew(p, g)
    /\ row' = [row EXCEPT !.live = TRUE]
    /\ UNCHANGED <<granted, applied, versions>>

\* A BEGIN received again is answered with the operation it began.
Begun(g, seq, o, pr) ==
    row.op = o /\ row.ngen = g /\ row.seq = seq + 1 /\ row.proposal = pr

\* An edit is begun on the current version only.  (The BEGIN of a refresh in
\* place, of a copy that may be stale, is not modelled.)
MayBegin(p, base, g, seq, o, pr) ==
    /\ p \in granted
    /\ base = Current
    /\ Owns(p, g)
    /\ Begun(g, seq, o, pr) \/ (pr \notin applied /\ ~Pending /\ row.seq = seq /\ row.op # o)

Begin(p, base, g, seq, o, pr) ==
    /\ MayBegin(p, base, g, seq, o, pr)
    /\ row' = IF Begun(g, seq, o, pr) THEN row
              ELSE [row EXCEPT !.seq = @ + 1, !.op = o, !.ngen = g, !.proposal = pr, !.state = "pending"]
    /\ UNCHANGED <<granted, applied, versions>>

\* Expired or not, the operation is settled by the generation that began it.
Settles(p, g, seq, o) == Holds(p, g) /\ row.seq = seq /\ row.op = o /\ row.ngen = g

\* Mutant: without AND native_state = 'pending'.
MaySettle_Again(p, g, seq, o, outcome) == p \in granted /\ Settles(p, g, seq, o)

MaySettle(p, g, seq, o, outcome) ==
    /\ p \in granted
    /\ Settles(p, g, seq, o)
    /\ row.state \in {"pending", outcome}

Settle(p, g, seq, o, outcome) ==
    /\ MaySettle(p, g, seq, o, outcome)
    /\ row' = [row EXCEPT !.state = outcome]
    /\ applied' = IF outcome = "confirmed" THEN applied \cup {row.proposal} ELSE applied
    /\ UNCHANGED <<granted, versions>>

MayRead(p, g) == p \in granted /\ Holds(p, g)

\* A save received again: its version is current and still says the same.
Repeats(base, c) ==
    versions[Current].content = c /\ versions[Current].gen > 0 /\ base \in {Current, Current - 1}

MaySave(p, base, g, c) ==
    /\ p \in granted
    /\ base \in DOMAIN versions
    /\ Owns(p, g) /\ ~Pending
    /\ Repeats(base, c) \/ base = Current

\* Mutants: the version records the pane; contents of any version make none.
Save_Pane(p, base, g, c) ==
    /\ MaySave(p, base, g, c)
    /\ versions' = Append(versions, [content |-> c, gen |-> p])
    /\ row' = [row EXCEPT !.live = TRUE]
    /\ UNCHANGED <<granted, applied>>

Save_AnyVersion(p, base, g, c) ==
    /\ MaySave(p, base, g, c)
    /\ versions' = IF \E i \in DOMAIN versions : versions[i].content = c THEN versions
                   ELSE Append(versions, [content |-> c, gen |-> g])
    /\ row' = [row EXCEPT !.live = TRUE]
    /\ UNCHANGED <<granted, applied>>

\* Contents that are current already make no version.  The owner is renewed.
Save(p, base, g, c) ==
    /\ MaySave(p, base, g, c)
    /\ versions' = IF versions[Current].content = c THEN versions
                   ELSE Append(versions, [content |-> c, gen |-> g])
    /\ row' = [row EXCEPT !.live = TRUE]
    /\ UNCHANGED <<granted, applied>>

-----------------------------------------------------------------------------
(* Time, the web client and the other writers.                             *)

Expire ==
    /\ row.live
    /\ row' = [row EXCEPT !.live = FALSE]
    /\ UNCHANGED <<granted, applied, versions>>

\* Open in Word: a copy of the current version is handed out with a grant.
Grant(p) ==
    /\ granted' = granted \cup {p}
    /\ UNCHANGED <<row, applied, versions>>

\* A browser, an agent or a tool writes the document: assertWordEditAllowed.
Write(c) ==
    /\ ~Pending
    /\ ~Live
    /\ c # versions[Current].content
    /\ versions' = Append(versions, [content |-> c, gen |-> 0])
    /\ UNCHANGED <<row, granted, applied>>

Recover_NoFence(revoke) ==
    /\ granted' = IF revoke THEN {} ELSE granted
    /\ row' = IF row.gen = 0 THEN row ELSE [row EXCEPT !.retired = TRUE, !.live = FALSE]
    /\ UNCHANGED <<applied, versions>>

\* The web client ends the editing it was shown, keeping the Word links, or
\* revoking them with it (takeover, and removing the links).
Recover(revoke) ==
    /\ ~Pending
    /\ granted' = IF revoke THEN {} ELSE granted
    /\ row' = IF row.gen = 0 THEN row ELSE [row EXCEPT !.retired = TRUE, !.live = FALSE]
    /\ UNCHANGED <<applied, versions>>

-----------------------------------------------------------------------------

\* Whatever a pane of any copy may send, of now or of before.
Ask(p) ==
    \E base \in 1 .. Current, g \in 0 .. row.gen :
        \/ Claim(p, base)
        \/ TakeOver(p, base, Current, g)
        \/ Release(p, g)
        \/ Renew(p, g)
        \/ \E c \in Contents : Save(p, base, g, c)
        \/ \E seq \in 0 .. row.seq, o \in Operations :
             \/ \E pr \in Proposals : Begin(p, base, g, seq, o, pr)
             \/ \E outcome \in Outcomes : Settle(p, g, seq, o, outcome)

Step ==
    \/ \E p \in Panes : Ask(p) \/ Grant(p)
    \/ Expire
    \/ \E c \in Contents : Write(c)
    \/ \E revoke \in BOOLEAN : Recover(revoke)

Bounded == row.gen <= MaxGenerations /\ row.seq <= MaxSequence /\ Current <= MaxVersions

Next == Step /\ Bounded'

Spec == Init /\ [][Next]_server

\* The same without the bounds.
Free == Init /\ [][Step]_server

-----------------------------------------------------------------------------
(* What must hold, whatever is asked.                                      *)

TypeOK ==
    /\ row \in Row
    /\ granted \subseteq Panes
    /\ applied \subseteq Proposals
    /\ versions \in Seq(Version)
    /\ versions # <<>>

\* Between two saves under one generation nobody else wrote: an owner that
\* expired, released or was taken over never saves over what came after it.
GenerationsContiguous ==
    \A i, k \in DOMAIN versions :
        i < k /\ versions[i].gen = versions[k].gen /\ versions[i].gen > 0 =>
            \A j \in i .. k : versions[j].gen = versions[i].gen

\* A fence is its generation's: whoever owned the document when the edit began
\* does until the edit is settled, so the pane that knows can always settle it.
FenceOwned ==
    Pending => row.ngen = row.gen /\ row.gen > 0 /\ ~row.retired /\ row.owner # None

\* While an operation is pending nothing is written and the lease changes
\* hands neither by claim, takeover nor recovery: the fence comes down only by
\* its settlement.
FenceKept ==
    [][Pending =>
         /\ UNCHANGED versions
         /\ \E live \in BOOLEAN, state \in {"pending"} \cup Outcomes :
              row' = [row EXCEPT !.live = live, !.state = state]]_server

\* An operation settled one way is never pending again nor settled the other
\* way, by whatever late BEGIN or settlement, until another one begins; and a
\* proposal recorded as applied stays so.
OutcomeFinal ==
    [][/\ row.state \in Outcomes /\ row'.seq = row.seq => row'.state = row.state
       /\ row'.seq > row.seq => row.state # "pending"
       /\ applied \subseteq applied']_server

\* A proposal recorded as applied is not admitted again.
AppliedNotPending == Pending => row.proposal \notin applied

=============================================================================
