----------------------------- MODULE WordEditing -----------------------------
(***************************************************************************)
(* Word panes editing one document of a matter over HTTP.  A pane's        *)
(* commands run one at a time, each a chain of requests; any request may   *)
(* time out, and a request that timed out may yet reach the server, after  *)
(* any number of others, or never.  An answer is taken as it is given: a   *)
(* slow one is a slow next request, a lost one a request handled late.     *)
(* Panes close, leases expire, and the web client and other writers go on  *)
(* meanwhile.                                                              *)
(*                                                                         *)
(* apps/word-addin/src/sync.ts (WordSync) and client.ts over WordLease.    *)
(* The pane's refresh of a stale copy in place (loadLatest) is left out.   *)
(***************************************************************************)
EXTENDS Naturals, Sequences, FiniteSets

CONSTANTS
    Panes, Contents, Proposals, Operations, None,   \* as in WordLease
    Goals,         \* what is asked of a pane: "start" editing, "save", "edit"
    MaxCommands,   \* commands of all panes
    MaxTimeouts,   \* requests that time out
    MaxOthers      \* changes by the web client and other writers

ASSUME GoalsAssumption == Goals \subseteq {"start", "save", "edit"}
ASSUME NoneAssumption == None \notin Panes \cup Contents \cup Proposals \cup Operations
ASSUME BoundsAssumption == MaxCommands \in Nat /\ MaxTimeouts \in Nat /\ MaxOthers \in Nat

VARIABLES
    row, granted, applied, versions,   \* the server, as in WordLease
    panes,      \* each pane's WordSync
    requests,   \* requests not yet handled
    used,       \* operation ids drawn
    edited,     \* history: how often each proposal was applied to Word's text
    budget      \* commands, timeouts and others' changes so far

Server == INSTANCE WordLease WITH MaxGenerations <- 0, MaxSequence <- 0, MaxVersions <- 0
server == <<row, granted, applied, versions>>
vars == <<server, panes, requests, used, edited, budget>>

-----------------------------------------------------------------------------
(* Values.                                                                 *)

\* WordConnectionState, with the id of the native operation.
View ==
    [current : Nat, lease : {"owned", "other", "available"}, gen : Nat,
     seq : Nat, native : Server!NativeStates, op : Operations \cup {None}]

Kinds ==
    {"inspect", "claim", "takeover", "release", "renew", "begin", "read", "settle", "save"}
Operation == [id : Operations, seq : Nat, gen : Nat, proposal : Proposals]

\* base and gen are headers of every request; operation and outcome are of
\* begin and settle, content of save, and shown of takeover.
Request ==
    [pane : Panes, kind : Kinds, base : Nat, gen : Nat,
     operation : Operation \cup {None}, outcome : Server!Outcomes \cup {None},
     content : Contents \cup {None}, shown : Nat, awaited : BOOLEAN]

Waiting ==
    {"inspect", "claim", "takeover", "release", "renew", "begin", "beginRead",
     "settle", "settleRead", "flush"}
Unsent == [content : Contents, base : Nat, gen : Nat]

\* view is WordSync's connection, unsent its pending export, ack its
\* acknowledgement and uncertain its nativeUncertain.
Pane ==
    [pc : Waiting \cup {"unopened", "closed", "idle", "edit"}, goal : Goals \cup {None},
     base : Nat, view : View \cup {None}, unsent : Unsent \cup {None},
     ack : [version : Nat, content : Contents] \cup {None}, uncertain : BOOLEAN,
     operation : Operation \cup {None}, outcome : Server!Outcomes \cup {None}]

NewPane ==
    [pc |-> "unopened", goal |-> None, base |-> 0, view |-> None, unsent |-> None,
     ack |-> None, uncertain |-> FALSE, operation |-> None, outcome |-> None]

Init ==
    /\ Server!Init
    /\ panes = [p \in Panes |-> NewPane]
    /\ requests = {}
    /\ used = {}
    /\ edited = [pr \in Proposals |-> 0]
    /\ budget = [commands |-> 0, timeouts |-> 0, others |-> 0]

-----------------------------------------------------------------------------
(* The server's answers.                                                   *)

\* connection: what a pane is told of its copy and of the lease.
ViewOf(p) ==
    [current |-> Server!Current,
     lease |-> IF Server!Live /\ row.owner = p THEN "owned"
               ELSE IF Server!Live \/ Server!Pending THEN "other" ELSE "available",
     gen |-> IF Server!Live \/ Server!Pending THEN row.gen ELSE Server!Shown,
     seq |-> row.seq, native |-> row.state, op |-> row.op]

Admitted(r) ==
    LET p == r.pane o == r.operation IN
    CASE r.kind = "inspect" -> p \in granted
      [] r.kind = "claim" -> Server!MayClaim(p, r.base)
      [] r.kind = "takeover" -> Server!MayTakeOver(p, r.base, r.base, r.shown)
      [] r.kind = "release" -> Server!MayRelease(p, r.gen)
      [] r.kind = "renew" -> Server!MayRenew(p, r.gen)
      [] r.kind = "begin" -> Server!MayBegin(p, r.base, r.gen, o.seq, o.id, o.proposal)
      [] r.kind = "read" -> Server!MayRead(p, r.gen)
      [] r.kind = "settle" -> Server!MaySettle(p, r.gen, o.seq + 1, o.id, r.outcome)
      [] r.kind = "save" -> Server!MaySave(p, r.base, r.gen, r.content)

Served(r) ==
    LET p == r.pane o == r.operation IN
    \/ r.kind \in {"inspect", "read"} /\ UNCHANGED server
    \/ r.kind = "claim" /\ Server!Claim(p, r.base)
    \/ r.kind = "takeover" /\ Server!TakeOver(p, r.base, r.base, r.shown)
    \/ r.kind = "release" /\ Server!Release(p, r.gen)
    \/ r.kind = "renew" /\ Server!Renew(p, r.gen)
    \/ r.kind = "begin" /\ Server!Begin(p, r.base, r.gen, o.seq, o.id, o.proposal)
    \/ r.kind = "settle" /\ Server!Settle(p, r.gen, o.seq + 1, o.id, r.outcome)
    \/ r.kind = "save" /\ Server!Save(p, r.base, r.gen, r.content)

-----------------------------------------------------------------------------
(* A pane's requests.                                                      *)

Blank(self, p, kind) ==
    [pane |-> p, kind |-> kind, base |-> self.base, gen |-> 0, operation |-> None,
     outcome |-> None, content |-> None, shown |-> 0, awaited |-> TRUE]

\* The pane p goes on to pc from the state self, with the requests of left in
\* transit; it awaits, at pc, the answer to r; its command ends.
GoOn(p, self, pc, left) ==
    /\ panes' = [panes EXCEPT ![p] = [self EXCEPT !.pc = pc]]
    /\ requests' = left

Send(p, self, pc, r, left) == GoOn(p, self, pc, left \cup {r})

Return(p, self, left) ==
    GoOn(p, [self EXCEPT !.goal = None, !.operation = None, !.outcome = None], "idle", left)

Spend(what) == budget' = [budget EXCEPT ![what] = @ + 1]

Command(p) ==
    /\ panes[p].pc = "idle"
    /\ budget.commands < MaxCommands
    /\ Spend("commands")
    /\ UNCHANGED <<server, used, edited>>

\* canWrite: the pane takes itself for the owner of a current, settled copy.
CanWrite(self) ==
    /\ ~self.uncertain
    /\ self.view # None
    /\ self.view.native # "pending"
    /\ self.view.current = self.base
    /\ self.view.lease = "owned"
    /\ self.view.gen > 0

Blocked(self) == self.uncertain \/ (self.view # None /\ self.view.native = "pending")

OwnedView(self) == self.view # None /\ self.view.lease = "owned" /\ self.view.gen > 0

\* Every command that saves or edits first looks at the connection.
Inspect(p, goal) ==
    /\ Command(p)
    /\ goal \in {"save", "edit"} => panes[p].unsent = None
    /\ goal = "edit" => used # Operations
    /\ Send(p, [panes[p] EXCEPT !.goal = goal], "inspect", Blank(panes[p], p, "inspect"), requests)

\* The export a save has not been answered for is sent again as it was.
Flush(p) ==
    LET u == panes[p].unsent IN
    /\ u # None
    /\ Command(p)
    /\ Send(p, panes[p], "flush",
            [Blank(panes[p], p, "save") EXCEPT !.base = u.base, !.gen = u.gen, !.content = u.content],
            requests)

\* The lease asked for is the one last shown; one that changed since is refused
\* by the server.
TakeOver(p) ==
    LET self == panes[p] IN
    /\ ~Blocked(self)
    /\ self.view # None
    /\ self.view.current = self.base
    /\ self.view.lease = "other" /\ self.view.gen > 0
    /\ Command(p)
    /\ Send(p, self, "takeover", [Blank(self, p, "takeover") EXCEPT !.shown = self.view.gen], requests)

Release(p) ==
    /\ OwnedView(panes[p])
    /\ Command(p)
    /\ Send(p, panes[p], "release",
            [Blank(panes[p], p, "release") EXCEPT !.gen = panes[p].view.gen], requests)

Heartbeat(p) ==
    /\ OwnedView(panes[p])
    /\ Command(p)
    /\ Send(p, panes[p], "renew",
            [Blank(panes[p], p, "renew") EXCEPT !.gen = panes[p].view.gen], requests)

-----------------------------------------------------------------------------
(* What a pane makes of an answer: self is its state with the view told.   *)

\* An export refused under an earlier generation is exported anew.
DiscardFenced(self) ==
    IF /\ self.unsent # None
       /\ CanWrite(self)
       /\ self.base = self.unsent.base
       /\ self.view.gen # self.unsent.gen
    THEN [self EXCEPT !.unsent = None]
    ELSE self

\* capture: Word may have any text by now, and it is exported as it is.
Capture(p, self, left) ==
    \E c \in Contents :
        LET u == [content |-> c, base |-> self.base, gen |-> self.view.gen] IN
        Send(p, [self EXCEPT !.unsent = u], "flush",
             [Blank(self, p, "save") EXCEPT !.gen = u.gen, !.content = c], left)

\* beginNative: BEGIN is committed before Word is touched.
BeginNative(p, self, left) ==
    \E id \in Operations \ used, pr \in Proposals :
        LET o == [id |-> id, seq |-> self.view.seq, gen |-> self.view.gen, proposal |-> pr] IN
        /\ used' = used \cup {id}
        /\ Send(p, [self EXCEPT !.operation = o, !.uncertain = TRUE], "begin",
                [Blank(self, p, "begin") EXCEPT !.gen = o.gen, !.operation = o], left)

\* After inspecting and claiming.
Proceed(p, self, left) ==
    \/ /\ self.goal = "save" /\ CanWrite(self)
       /\ Capture(p, self, left)
       /\ UNCHANGED used
    \/ /\ self.goal = "edit" /\ CanWrite(self)
       /\ BeginNative(p, self, left)
    \/ /\ self.goal = "start" \/ ~CanWrite(self)
       /\ Return(p, IF self.goal = "start" THEN DiscardFenced(self) ELSE self, left)
       /\ UNCHANGED used

Inspected(p, self, left) ==
    IF ~Blocked(self) /\ self.view.current = self.base /\ self.view.lease = "available"
    THEN Send(p, self, "claim", Blank(self, p, "claim"), left) /\ UNCHANGED used
    ELSE Proceed(p, self, left)

\* The answer to begin, or to the read after it: exactly this operation is
\* pending, nothing was begun, or it is not known.
Begun(p, self, left) ==
    LET o == self.operation v == self.view IN
    IF /\ v.native = "pending" /\ v.seq = o.seq + 1 /\ v.op = o.id
       /\ v.lease = "owned" /\ v.gen = o.gen /\ v.current = self.base
    THEN GoOn(p, self, "edit", left)
    ELSE Return(p, IF v.seq = o.seq /\ v.native # "pending" /\ v.lease = "owned" /\ v.gen = o.gen
                   THEN [self EXCEPT !.uncertain = FALSE] ELSE self, left)

\* The answer to settle, or to the read after it.
Settled(p, self, left) ==
    LET o == self.operation v == self.view IN
    Return(p, IF v.seq = o.seq + 1 /\ v.op = o.id /\ v.native = self.outcome
              THEN [self EXCEPT !.uncertain = FALSE] ELSE self, left)

\* flush: the acknowledged version is the base of what follows.
Saved(p, self, left) ==
    LET n == self.view.current IN
    Return(p, [self EXCEPT !.base = n, !.unsent = None,
                           !.ack = [version |-> n, content |-> self.unsent.content]], left)

Granted(p, self, left) ==
    \/ self.pc = "inspect" /\ Inspected(p, self, left)
    \/ self.pc = "claim" /\ Proceed(p, self, left)
    \/ self.pc \in {"begin", "beginRead"} /\ Begun(p, self, left) /\ UNCHANGED used
    \/ self.pc \in {"settle", "settleRead"} /\ Settled(p, self, left) /\ UNCHANGED used
    \/ self.pc = "flush" /\ Saved(p, self, left) /\ UNCHANGED used
    \/ self.pc = "takeover" /\ Return(p, DiscardFenced(self), left) /\ UNCHANGED used
    \/ self.pc \in {"release", "renew"} /\ Return(p, self, left) /\ UNCHANGED used

\* Mutants: an unanswered settlement sends the pane to Word again; a failed read
\* is repeated.
Fails_Reissue(p, view, left) ==
    LET self == [panes[p] EXCEPT !.view = view]
    IN  IF self.pc = "settle" THEN GoOn(p, self, "edit", left)
        ELSE IF self.pc = "begin"
        THEN Send(p, self, "beginRead", [Blank(self, p, "read") EXCEPT !.gen = self.operation.gen], left)
        ELSE Return(p, self, left)

Fails_ReadAgain(p, view, left) ==
    LET self == panes[p]
    IN  IF self.pc \in {"begin", "beginRead", "settle", "settleRead"}
        THEN Send(p, self, IF self.pc \in {"begin", "beginRead"} THEN "beginRead" ELSE "settleRead",
                  [Blank(self, p, "read") EXCEPT !.gen = self.operation.gen], left)
        ELSE Return(p, [self EXCEPT !.view = view], left)

\* A command fails with what the server last said, or with nothing known.  A
\* failed begin or settle first reads the operation; a failed read adds nothing.
Fails(p, view, left) ==
    LET self == IF panes[p].pc \in {"beginRead", "settleRead"} THEN panes[p]
                ELSE [panes[p] EXCEPT !.view = view]
    IN  IF self.pc \in {"begin", "settle"}
        THEN Send(p, self, IF self.pc = "begin" THEN "beginRead" ELSE "settleRead",
                  [Blank(self, p, "read") EXCEPT !.gen = self.operation.gen], left)
        ELSE Return(p, self, left)

\* One request, under the document's lock, and the pane's taking its answer if
\* it still awaits one.  A refusal for want of a grant (401) tells nothing; any
\* other tells the connection's state.
Handle(r) ==
    /\ r \in requests
    /\ IF Admitted(r) THEN Served(r) ELSE UNCHANGED server
    /\ IF ~r.awaited
       THEN requests' = requests \ {r} /\ UNCHANGED <<panes, used>>
       ELSE LET p == r.pane left == requests \ {r} IN
            IF Admitted(r)
            THEN Granted(p, [panes[p] EXCEPT !.view = ViewOf(p)'], left)
            ELSE /\ Fails(p, IF p \in granted THEN ViewOf(p)' ELSE None, left)
                 /\ UNCHANGED used
    /\ UNCHANGED <<edited, budget>>

\* The requests with none of p awaited: a late one that only reads is dropped.
Unawaited(p) ==
    {r \in requests : r.pane # p \/ ~r.awaited}
    \cup {[r EXCEPT !.awaited = FALSE] :
             r \in {q \in requests : q.pane = p /\ q.kind \notin {"inspect", "read"}}}

\* No answer in 30 seconds, or none that was received: the request may still be
\* handled, at any time.
Timeout(p) ==
    /\ panes[p].pc \in Waiting
    /\ budget.timeouts < MaxTimeouts
    /\ Spend("timeouts")
    /\ Fails(p, None, Unawaited(p))
    /\ UNCHANGED <<server, used, edited>>

-----------------------------------------------------------------------------
(* The edit in Word: applied, found to be impossible and not tried (also    *)
(* where the pane was closed meanwhile), or ended not knowing.             *)

\* Mutant: the pane's word for an outcome is not the server's.
Settling_Applied(p, outcome) ==
    LET self == panes[p] o == self.operation IN
    Send(p, [self EXCEPT !.outcome = "applied"], "settle",
         [Blank(self, p, "settle") EXCEPT !.gen = o.gen, !.operation = o, !.outcome = "applied"],
         requests)

Settling(p, outcome) ==
    LET self == panes[p] o == self.operation IN
    Send(p, [self EXCEPT !.outcome = outcome], "settle",
         [Blank(self, p, "settle") EXCEPT !.gen = o.gen, !.operation = o, !.outcome = outcome],
         requests)

Edited(p) == edited' = [edited EXCEPT ![panes[p].operation.proposal] = @ + 1]

EditApplied(p) ==
    /\ panes[p].pc = "edit"
    /\ Edited(p)
    /\ Settling(p, "confirmed")
    /\ UNCHANGED <<server, used, budget>>

\* Mutant: an edit found impossible is not settled.
EditUnchanged_Unsettled(p) ==
    /\ panes[p].pc = "edit"
    /\ Return(p, [panes[p] EXCEPT !.uncertain = FALSE], requests)
    /\ UNCHANGED <<server, used, edited, budget>>

EditUnchanged(p) ==
    /\ panes[p].pc = "edit"
    /\ Settling(p, "not-dispatched")
    /\ UNCHANGED <<server, used, edited, budget>>

EditUncertain(p) ==
    /\ panes[p].pc = "edit"
    /\ Edited(p) \/ UNCHANGED edited
    /\ Return(p, panes[p], requests)
    /\ UNCHANGED <<server, used, budget>>

-----------------------------------------------------------------------------
(* People, time and the other writers.                                     *)

Open(p) ==
    /\ panes[p].pc = "unopened"
    /\ Server!Grant(p)
    /\ GoOn(p, [panes[p] EXCEPT !.base = Server!Current], "idle", requests)
    /\ UNCHANGED <<used, edited, budget>>

\* Word or the pane ends, at any step: nothing it awaited is acted upon.
Close(p) ==
    /\ panes[p].pc \notin {"unopened", "closed"}
    /\ GoOn(p, NewPane, "closed", Unawaited(p))
    /\ UNCHANGED <<server, used, edited, budget>>

Expire ==
    /\ Server!Expire
    /\ UNCHANGED <<panes, requests, used, edited, budget>>

Others ==
    /\ budget.others < MaxOthers
    /\ Spend("others")
    /\ (\E c \in Contents : Server!Write(c)) \/ (\E revoke \in BOOLEAN : Server!Recover(revoke))
    /\ UNCHANGED <<panes, requests, used, edited>>

-----------------------------------------------------------------------------

Perform(p) == EditApplied(p) \/ EditUnchanged(p) \/ EditUncertain(p)

Next ==
    \/ \E r \in requests : Handle(r)
    \/ \E p \in Panes :
         \/ \E goal \in Goals : Inspect(p, goal)
         \/ Flush(p) \/ TakeOver(p) \/ Release(p) \/ Heartbeat(p)
         \/ Perform(p) \/ Timeout(p) \/ Open(p) \/ Close(p)
    \/ Expire \/ Others

Spec == Init /\ [][Next]_vars

\* The server answers what a pane awaits, and the pane goes on.
FairSpec ==
    /\ Spec
    /\ \A p \in Panes :
         /\ WF_vars(\E r \in requests : r.pane = p /\ r.awaited /\ Handle(r))
         /\ WF_vars(Perform(p))

-----------------------------------------------------------------------------
(* What must hold.                                                         *)

TypeOK ==
    /\ row \in Server!Row
    /\ granted \subseteq Panes
    /\ applied \subseteq Proposals
    /\ versions \in Seq(Server!Version)
    /\ panes \in [Panes -> Pane]
    /\ requests \subseteq Request
    /\ used \subseteq Operations
    /\ edited \in [Proposals -> Nat]
    /\ budget \in [commands : Nat, timeouts : Nat, others : Nat]

\* While a pane changes Word's text the server's fence is up for exactly that
\* operation and generation, and no version was saved over the pane's copy.
EditsFenced ==
    \A p \in Panes :
        panes[p].pc = "edit" =>
            /\ Server!Pending
            /\ row.owner = p
            /\ row.op = panes[p].operation.id
            /\ row.gen = panes[p].operation.gen
            /\ panes[p].base = Server!Current

\* A reviewed proposal changes Word's text at most once, in whatever pane and
\* whatever is lost, and one recorded as applied has.
AppliedOnce ==
    \A pr \in Proposals :
        /\ edited[pr] <= 1
        /\ pr \in applied => edited[pr] = 1

\* What a pane shows as saved is in doc.haus, as it was exported.
SavedIsSaved ==
    \A p \in Panes :
        panes[p].ack # None =>
            /\ panes[p].ack.version \in DOMAIN versions
            /\ versions[panes[p].ack.version].content = panes[p].ack.content

\* Every command of a pane ends, and lets the next of its queue begin.
CommandEnds ==
    \A p \in Panes : panes[p].pc \in Waiting ~> panes[p].pc \in {"idle", "closed"}

\* A pending edit is settled, unless a request was lost, Word could not tell
\* what the edit did or the pane closed: no revocation keeps it.
Unsettled ==
    \/ budget.timeouts > 0
    \/ panes[row.owner].pc = "closed"
    \/ panes[row.owner].pc = "idle" /\ panes[row.owner].uncertain

FenceAnswered == Server!Pending ~> (~Server!Pending \/ Unsettled)

=============================================================================
