-------------------------- MODULE WordEditingProofs --------------------------
(***************************************************************************)
(* Theorems of WordEditing, for any panes, contents, proposals and         *)
(* operation ids, and any number of commands, timeouts and changes by      *)
(* others.                                                                 *)
(***************************************************************************)
EXTENDS WordEditing, TLAPS

\* The stages of a pane that is making an edit, and those before its outcome
\* is known.
Opening == {"begin", "beginRead", "edit"}
Performing == Opening \cup {"settle", "settleRead"}

\* A pane making an edit has its operation, and a pane at flush its export;
\* so have the requests for them.
Able(self, pc) ==
    /\ pc \in Performing => self.operation \in Operation
    /\ pc = "flush" => self.unsent \in Unsent

Complete(r) ==
    /\ r.kind \in {"begin", "settle"} => r.operation \in Operation
    /\ r.kind = "settle" => r.outcome \in Server!Outcomes
    /\ r.kind = "save" => r.content \in Contents

Equipped ==
    /\ \A p \in Panes : Able(panes[p], panes[p].pc)
    /\ \A r \in requests : Complete(r)

\* An operation has a proposal, and a fence is not put up for one already
\* applied.
Fenced ==
    /\ row.op # None => row.proposal \in Proposals
    /\ Server!AppliedNotPending

\* A pane awaits one answer, and where it is a save's, it is its export's.
Awaiting ==
    \A r \in requests :
        r.awaited =>
            /\ panes[r.pane].pc \in Waiting
            /\ panes[r.pane].pc = "flush" =>
                 r.kind = "save" /\ r.content = panes[r.pane].unsent.content
            /\ \A q \in requests : q.awaited /\ q.pane = r.pane => q = r

\* The operation o of the pane p is still to be begun, made or settled.
Known(p, o) ==
    \/ panes[p].pc \in Performing /\ panes[p].operation = o
    \/ \E r \in requests : r.kind \in {"begin", "settle"} /\ r.pane = p /\ r.operation = o

\* An id stands for one operation of one pane.
Identified ==
    /\ \A p \in Panes, o \in Operation : Known(p, o) => o.id \in used
    /\ \A p, q \in Panes, o, u \in Operation :
         Known(p, o) /\ Known(q, u) /\ o.id = u.id => p = q /\ o = u
    /\ row.op \in used \cup {None}

\* What the row says of an operation is what its pane asked for.
Recorded ==
    \A p \in Panes, o \in Operation :
        Known(p, o) /\ row.op = o.id =>
            /\ row.proposal = o.proposal
            /\ Server!Pending => row.owner = p

\* A settlement is asked for only when the pane is done with Word, and one that
\* says the edit was applied, after it was.
Settlements ==
    \A r \in requests :
        r.kind = "settle" =>
            /\ \A p \in Panes :
                 panes[p].pc \in Opening => panes[p].operation.id # r.operation.id
            /\ r.outcome = "confirmed" => edited[r.operation.proposal] > 0

\* An edit not recorded as applied has its fence up still, and nothing can take
\* the fence down but its confirmation.
Unrecorded ==
    \A pr \in Proposals :
        edited[pr] > 0 /\ pr \notin applied =>
            /\ Server!Pending
            /\ row.proposal = pr
            /\ \A p \in Panes : panes[p].pc \in Opening => panes[p].operation.id # row.op
            /\ \A r \in requests :
                 r.kind = "settle" /\ r.operation.id = row.op => r.outcome = "confirmed"

Inv ==
    /\ TypeOK /\ Server!TypeOK
    /\ Equipped
    /\ Fenced
    /\ Awaiting
    /\ Identified
    /\ Recorded
    /\ Settlements
    /\ EditsFenced
    /\ Unrecorded
    /\ AppliedOnce
    /\ SavedIsSaved

-----------------------------------------------------------------------------
(* The server: every request, however late, is one step of WordLease.      *)

\* Steps that leave the row's operation alone, and while it is pending its owner
\* and the versions too.
Steady ==
    /\ row'.op = row.op /\ row'.proposal = row.proposal /\ row'.state = row.state
    /\ applied' = applied
    /\ Server!Pending => row'.owner = row.owner /\ row'.gen = row.gen /\ versions' = versions

\* The operation that r asks for begins.
Begins(r) ==
    /\ r.kind = "begin"
    /\ ~Server!Pending
    /\ row'.op = r.operation.id /\ row'.proposal = r.operation.proposal /\ row'.owner = r.pane
    /\ r.operation.proposal \notin applied
    /\ applied' = applied

\* The row's operation is settled as r says, perhaps once more.
Settles(r) ==
    /\ r.kind = "settle"
    /\ row.op = r.operation.id
    /\ row'.op = row.op /\ row'.proposal = row.proposal /\ row'.state = r.outcome
    /\ applied' = IF r.outcome = "confirmed" THEN applied \cup {row.proposal} ELSE applied

\* The saved versions stay what they are.
Appends ==
    /\ versions' \in Seq(Server!Version) /\ versions' # <<>>
    /\ \A i \in DOMAIN versions : i \in DOMAIN versions' /\ versions'[i] = versions[i]

ServerTyped == row' \in Server!Row /\ granted' \subseteq Panes /\ applied' \subseteq Proposals

\* A version is added at the end.
LEMMA Added ==
  ASSUME versions \in Seq(Server!Version), NEW v \in Server!Version, versions' = Append(versions, v)
  PROVE  Appends /\ Len(versions') = Len(versions) + 1 /\ versions'[Len(versions')] = v
BY DEF Appends

\* A request about the lease leaves the operation alone.
LEMMA LeaseSteady ==
  ASSUME Server!TypeOK, NEW p \in Panes, NEW base, NEW current, NEW g,
         \/ Server!Claim(p, base) \/ Server!TakeOver(p, base, current, g)
         \/ Server!Release(p, g) \/ Server!Renew(p, g)
  PROVE  Steady /\ Appends /\ ServerTyped
<1>1. row \in Server!Row /\ versions \in Seq(Server!Version) /\ versions # <<>>
      /\ granted \subseteq Panes /\ applied \subseteq Proposals
  BY DEF Server!TypeOK
<1>2. CASE Server!Claim(p, base) \/ Server!TakeOver(p, base, current, g)
  <2>1. PICK same \in BOOLEAN : row' = Server!Claimed(row, p, same)
    <3>1. Server!Live \in BOOLEAN
      BY <1>1 DEF Server!Live, Server!Row
    <3>. QED
      BY <1>2, <3>1 DEF Server!Claim, Server!TakeOver
  <2>2. UNCHANGED <<granted, applied, versions>> /\ ~Server!Pending
    BY <1>2 DEF Server!Claim, Server!TakeOver, Server!MayClaim, Server!MayTakeOver
  <2>3. row' \in Server!Row /\ row'.op = row.op
        /\ row'.proposal = row.proposal /\ row'.state = row.state
    <3>1. CASE same
      BY <1>1, <2>1, <3>1 DEF Server!Claimed, Server!Row
    <3>2. CASE ~same
      <4>1. row.gen + 1 \in Nat
        BY <1>1 DEF Server!Row
      <4>2. row' = [row EXCEPT !.owner = p, !.gen = row.gen + 1, !.live = TRUE, !.retired = FALSE]
        BY <2>1, <3>2 DEF Server!Claimed
      <4>. QED
        BY <1>1, <4>1, <4>2 DEF Server!Row
    <3>. QED
      BY <3>1, <3>2
  <2>. QED
    BY <1>1, <2>2, <2>3 DEF Steady, Appends, ServerTyped
<1>3. CASE Server!Release(p, g) \/ Server!Renew(p, g)
  <2>1. UNCHANGED <<granted, applied, versions>>
    BY <1>3 DEF Server!Release, Server!Renew
  <2>2. PICK live \in BOOLEAN : row' = [row EXCEPT !.live = live]
    BY <1>3 DEF Server!Release, Server!Renew
  <2>3. row' \in Server!Row /\ row'.op = row.op
        /\ row'.proposal = row.proposal /\ row'.state = row.state
        /\ row'.owner = row.owner /\ row'.gen = row.gen
    BY <1>1, <2>2 DEF Server!Row
  <2>. QED
    BY <1>1, <2>1, <2>3 DEF Steady, Appends, ServerTyped
<1>. QED
  BY <1>2, <1>3

\* So does a save.  What is current after it is what was saved.
LEMMA SaveSteady ==
  ASSUME Server!TypeOK, NEW p \in Panes, NEW base, NEW g \in Nat, NEW c \in Contents,
         Server!Save(p, base, g, c)
  PROVE  /\ Steady /\ Appends /\ ServerTyped
         /\ Server!Current' \in DOMAIN versions' /\ versions'[Server!Current'].content = c
<1>1. row \in Server!Row /\ versions \in Seq(Server!Version) /\ versions # <<>>
      /\ granted \subseteq Panes /\ applied \subseteq Proposals
  BY DEF Server!TypeOK
<1>2. UNCHANGED <<granted, applied>> /\ ~Server!Pending
  BY DEF Server!Save, Server!MaySave
<1>3. row' \in Server!Row /\ row'.op = row.op
      /\ row'.proposal = row.proposal /\ row'.state = row.state
  <2>1. row' = [row EXCEPT !.live = TRUE]
    BY DEF Server!Save
  <2>. QED
    BY <1>1, <2>1 DEF Server!Row
<1>4. Steady /\ ServerTyped
  BY <1>1, <1>2, <1>3 DEF Steady, ServerTyped
<1>5. CASE versions[Server!Current].content = c /\ versions' = versions
  <2>1. Len(versions) \in DOMAIN versions
    BY <1>1
  <2>2. Appends
    BY <1>1, <1>5 DEF Appends
  <2>. QED
    BY <1>4, <1>5, <2>1, <2>2 DEF Server!Current
<1>6. CASE versions' = Append(versions, [content |-> c, gen |-> g])
  <2>1. [content |-> c, gen |-> g] \in Server!Version
    BY DEF Server!Version
  <2>2. Appends /\ Len(versions') = Len(versions) + 1 /\ versions'[Len(versions')].content = c
    BY <1>1, <1>6, <2>1, Added
  <2>3. Len(versions') \in DOMAIN versions'
    BY <2>2, <1>1, <1>6
  <2>. QED
    BY <1>4, <2>2, <2>3 DEF Server!Current
<1>. QED
  BY <1>5, <1>6 DEF Server!Save

\* A begin puts up the fence, or finds it put up already.
LEMMA BeginBegins ==
  ASSUME Server!TypeOK, NEW r \in Request, r.kind = "begin", r.operation \in Operation,
         Server!Begin(r.pane, r.base, r.gen, r.operation.seq, r.operation.id, r.operation.proposal)
  PROVE  (Steady \/ Begins(r)) /\ Appends /\ ServerTyped
<1>. DEFINE o == r.operation
<1>1. row \in Server!Row /\ versions \in Seq(Server!Version) /\ versions # <<>>
      /\ granted \subseteq Panes /\ applied \subseteq Proposals
  BY DEF Server!TypeOK
<1>2. UNCHANGED <<granted, applied, versions>> /\ row.owner = r.pane
  BY DEF Server!Begin, Server!MayBegin, Server!Owns
<1>3. Appends
  BY <1>1, <1>2 DEF Appends
<1>4. CASE row' = row
  BY <1>1, <1>2, <1>3, <1>4 DEF Steady, ServerTyped
<1>5. CASE ~Server!Begun(r.gen, o.seq, o.id, o.proposal)
  <2>1. ~Server!Pending /\ row.seq = o.seq /\ o.proposal \notin applied
    BY <1>5 DEF Server!Begin, Server!MayBegin
  <2>2. row' = [row EXCEPT !.seq = @ + 1, !.op = o.id, !.ngen = r.gen,
                           !.proposal = o.proposal, !.state = "pending"]
    BY <1>5 DEF Server!Begin
  <2>3. o.id \in Operations /\ o.gen \in Nat /\ o.proposal \in Proposals /\ o.seq \in Nat
    BY DEF Operation
  <2>4. row' \in Server!Row
    <3>1. row.seq + 1 \in Nat /\ "pending" \in Server!NativeStates /\ r.gen \in Nat
      BY <1>1 DEF Server!Row, Server!NativeStates, Request
    <3>. HIDE DEF o
    <3>. QED
      BY <1>1, <2>2, <2>3, <3>1 DEF Server!Row
  <2>5. row'.op = o.id /\ row'.proposal = o.proposal /\ row'.owner = row.owner
    BY <1>1, <2>2 DEF Server!Row
  <2>. QED
    BY <1>1, <1>2, <1>3, <2>1, <2>4, <2>5 DEF Begins, ServerTyped
<1>. QED
  BY <1>4, <1>5 DEF Server!Begin

\* A settlement settles.
LEMMA SettleSettles ==
  ASSUME Server!TypeOK, Fenced, NEW r \in Request, r.kind = "settle", r.operation \in Operation,
         r.outcome \in Server!Outcomes,
         Server!Settle(r.pane, r.gen, r.operation.seq + 1, r.operation.id, r.outcome)
  PROVE  Settles(r) /\ Appends /\ ServerTyped
<1>1. row \in Server!Row /\ versions \in Seq(Server!Version) /\ versions # <<>>
      /\ granted \subseteq Panes /\ applied \subseteq Proposals
  BY DEF Server!TypeOK
<1>2. UNCHANGED <<granted, versions>> /\ row.op = r.operation.id
      /\ row' = [row EXCEPT !.state = r.outcome]
      /\ applied' = IF r.outcome = "confirmed" THEN applied \cup {row.proposal} ELSE applied
  BY DEF Server!Settle, Server!MaySettle, Server!Settles
<1>3. row' \in Server!Row /\ row'.op = row.op
      /\ row'.proposal = row.proposal /\ row'.state = r.outcome
  <2>1. r.outcome \in Server!NativeStates
    BY DEF Server!Outcomes, Server!NativeStates
  <2>. QED
    BY <1>1, <1>2, <2>1 DEF Server!Row
<1>4. row.proposal \in Proposals
  <2>1. r.operation.id \in Operations
    BY DEF Operation
  <2>. QED
    BY <1>2, <2>1, NoneAssumption DEF Fenced
<1>. QED
  BY <1>1, <1>2, <1>3, <1>4 DEF Settles, Appends, ServerTyped

\* Nor do the others, and time, touch the operation.
LEMMA OthersSteady ==
  ASSUME Server!TypeOK,
         \/ UNCHANGED server
         \/ Server!Expire
         \/ \E p \in Panes : Server!Grant(p)
         \/ \E c \in Contents : Server!Write(c)
         \/ \E revoke \in BOOLEAN : Server!Recover(revoke)
  PROVE  Steady /\ Appends /\ ServerTyped
<1>1. row \in Server!Row /\ versions \in Seq(Server!Version) /\ versions # <<>>
      /\ granted \subseteq Panes /\ applied \subseteq Proposals
  BY DEF Server!TypeOK
<1>2. CASE UNCHANGED server \/ \E p \in Panes : Server!Grant(p)
  BY <1>1, <1>2 DEF server, Server!Grant, Steady, Appends, ServerTyped
<1>3. CASE Server!Expire
  <2>1. UNCHANGED <<granted, applied, versions>> /\ row' = [row EXCEPT !.live = FALSE]
    BY <1>3 DEF Server!Expire
  <2>2. row' \in Server!Row /\ row'.op = row.op /\ row'.proposal = row.proposal
        /\ row'.state = row.state /\ row'.owner = row.owner /\ row'.gen = row.gen
    BY <1>1, <2>1 DEF Server!Row
  <2>. QED
    BY <1>1, <2>1, <2>2 DEF Steady, Appends, ServerTyped
<1>4. ASSUME NEW c \in Contents, Server!Write(c) PROVE Steady /\ Appends /\ ServerTyped
  <2>1. UNCHANGED <<row, granted, applied>> /\ ~Server!Pending
        /\ versions' = Append(versions, [content |-> c, gen |-> 0])
    BY <1>4 DEF Server!Write
  <2>2. [content |-> c, gen |-> 0] \in Server!Version
    BY DEF Server!Version
  <2>3. Appends
    BY <1>1, <2>1, <2>2, Added
  <2>. QED
    BY <1>1, <2>1, <2>3 DEF Steady, ServerTyped
<1>5. ASSUME NEW revoke \in BOOLEAN, Server!Recover(revoke) PROVE Steady /\ Appends /\ ServerTyped
  <2>1. UNCHANGED <<applied, versions>> /\ ~Server!Pending /\ granted' \subseteq Panes
        /\ row' \in {row, [row EXCEPT !.retired = TRUE, !.live = FALSE]}
    BY <1>1, <1>5 DEF Server!Recover
  <2>2. row' \in Server!Row /\ row'.op = row.op /\ row'.proposal = row.proposal
        /\ row'.state = row.state
    BY <1>1, <2>1 DEF Server!Row
  <2>. QED
    BY <1>1, <2>1, <2>2 DEF Steady, Appends, ServerTyped
<1>. QED
  BY <1>2, <1>3, <1>4, <1>5

\* One request, whenever it is handled.
LEMMA RequestMoves ==
  ASSUME TypeOK, Server!TypeOK, Equipped, Fenced, NEW r \in requests,
         IF Admitted(r) THEN Served(r) ELSE UNCHANGED server
  PROVE  /\ Steady \/ Begins(r) \/ Settles(r)
         /\ Appends /\ ServerTyped
         /\ Admitted(r) /\ r.kind = "save" =>
              Server!Current' \in DOMAIN versions' /\ versions'[Server!Current'].content = r.content
<1>. DEFINE Result == /\ Steady \/ Begins(r) \/ Settles(r)
                      /\ Appends /\ ServerTyped
            Kept == Server!Current' \in DOMAIN versions' /\ versions'[Server!Current'].content = r.content
<1>0. r \in Request
  BY DEF TypeOK
<1>1. r.pane \in Panes /\ r.gen \in Nat
  BY <1>0 DEF Request
<1>2. CASE UNCHANGED server
  <2>1. Result
    BY <1>2, OthersSteady
  <2>2. Admitted(r) /\ r.kind = "save" => Served(r)
    OBVIOUS
  <2>3. Admitted(r) /\ r.kind = "save" => Kept
    <3>. SUFFICES ASSUME Admitted(r), r.kind = "save" PROVE Kept
      OBVIOUS
    <3>1. Server!Save(r.pane, r.base, r.gen, r.content)
      BY DEF Served
    <3>2. r.content \in Contents
      BY DEF Equipped, Complete
    <3>. QED
      BY <1>1, <3>1, <3>2, SaveSteady
  <2>. QED
    BY <2>1, <2>3
<1>3. CASE Admitted(r) /\ Served(r) /\ r.kind = "save"
  <2>1. Server!Save(r.pane, r.base, r.gen, r.content)
    BY <1>3 DEF Served
  <2>2. r.content \in Contents
    BY <1>3 DEF Equipped, Complete
  <2>. QED
    BY <1>1, <2>1, <2>2, SaveSteady
<1>4. CASE Served(r) /\ r.kind = "begin"
  <2>1. Server!Begin(r.pane, r.base, r.gen, r.operation.seq, r.operation.id, r.operation.proposal)
    BY <1>4 DEF Served
  <2>2. r.operation \in Operation
    BY <1>4 DEF Equipped, Complete
  <2>. QED
    BY <1>0, <1>4, <2>1, <2>2, BeginBegins
<1>5. CASE Served(r) /\ r.kind = "settle"
  <2>1. Server!Settle(r.pane, r.gen, r.operation.seq + 1, r.operation.id, r.outcome)
    BY <1>5 DEF Served
  <2>2. r.operation \in Operation /\ r.outcome \in Server!Outcomes
    BY <1>5 DEF Equipped, Complete
  <2>. QED
    BY <1>0, <1>5, <2>1, <2>2, SettleSettles
<1>6. CASE Served(r) /\ r.kind \notin {"save", "begin", "settle"}
  <2>1. \/ UNCHANGED server
        \/ Server!Claim(r.pane, r.base) \/ Server!TakeOver(r.pane, r.base, r.base, r.shown)
        \/ Server!Release(r.pane, r.gen) \/ Server!Renew(r.pane, r.gen)
    BY <1>6 DEF Served
  <2>. QED
    BY <1>1, <1>6, <2>1, LeaseSteady, OthersSteady
<1>. QED
  BY <1>2, <1>3, <1>4, <1>5, <1>6

-----------------------------------------------------------------------------
(* The panes: what a step of one does to it and to the requests in transit. *)

Stages == Waiting \cup {"unopened", "closed", "idle", "edit"}

\* The request n is the one that a pane p awaits in the state self, at pc.
Asked(p, self, pc, n) ==
    /\ n \in Request /\ n.pane = p /\ n.awaited /\ Complete(n)
    /\ pc \in Waiting
    /\ pc = "flush" => n.kind = "save" /\ n.content = self.unsent.content

\* Of the requests in left p awaits none; p may have stopped awaiting some.
Remains(p, left) ==
    \A r \in left :
        /\ r.awaited => r.pane # p
        /\ r \in requests \/ \E q \in requests : r = [q EXCEPT !.awaited = FALSE]

\* What self shows as saved, p showed before, or it is so now.
AckKept(p, self) ==
    \/ self.ack \in {panes[p].ack, None}
    \/ /\ self.ack.version \in DOMAIN versions'
       /\ versions'[self.ack.version].content = self.ack.content

\* A step of the pane p, which sends the requests new, at most one.
Moves(p, new) ==
    /\ panes' \in [Panes -> Pane]
    /\ \A q \in Panes \ {p} : panes'[q] = panes[q]
    /\ Able(panes'[p], panes'[p].pc)
    /\ AckKept(p, panes'[p])
    /\ \A n, m \in new : n = m
    /\ \A n \in new : Asked(p, panes'[p], panes'[p].pc, n)
    /\ \E left : Remains(p, left) /\ requests' = left \cup new

\* One more edit of Word's text, by p.
Applies(p) == edited' = [edited EXCEPT ![panes[p].operation.proposal] = @ + 1]

\* Outside of an edit, or out of one.
Leaves(p, new) ==
    /\ panes'[p].pc \notin Performing
    /\ \A n \in new : n.kind \notin {"begin", "settle"}
    /\ used' = used
    /\ edited' = edited \/ (panes[p].pc = "edit" /\ UNCHANGED server /\ Applies(p))

\* A new operation is to begin.
Draws(p, new) ==
    /\ panes'[p].pc = "begin"
    /\ \E o \in Operation :
         /\ o.id \notin used /\ used' = used \cup {o.id}
         /\ panes'[p].operation = o
         /\ \A n \in new : n.kind = "begin" /\ n.operation = o
    /\ edited' = edited

\* An unanswered begin or settlement is looked after.
Reads(p, new) ==
    /\ \/ (panes[p].pc = "begin" /\ panes'[p].pc = "beginRead")
       \/ (panes[p].pc = "settle" /\ panes'[p].pc = "settleRead")
    /\ panes'[p].operation = panes[p].operation
    /\ \A n \in new : n.kind = "read"
    /\ used' = used /\ edited' = edited

\* The fence as the pane p must find it to change Word's text.
FenceOf(p) ==
    /\ Server!Pending
    /\ row.owner = p
    /\ row.op = panes[p].operation.id
    /\ row.gen = panes[p].operation.gen
    /\ panes[p].base = Server!Current

\* The pane finds the fence up for its operation.
Edits(p, new) ==
    /\ panes[p].pc \in {"begin", "beginRead"} /\ panes'[p].pc = "edit"
    /\ panes'[p].operation = panes[p].operation
    /\ FenceOf(p)'
    /\ new = {}
    /\ used' = used /\ edited' = edited

\* The pane is done with Word, and says what it did.
Finishes(p, new) ==
    /\ panes[p].pc = "edit" /\ panes'[p].pc = "settle"
    /\ panes'[p].operation = panes[p].operation
    /\ UNCHANGED server
    /\ used' = used
    /\ \E outcome \in Server!Outcomes :
         /\ IF outcome = "confirmed" THEN Applies(p) ELSE edited' = edited
         /\ \A n \in new :
              n.kind = "settle" /\ n.operation = panes[p].operation /\ n.outcome = outcome

\* Every step of a pane is one of these.
Steps(p, new) ==
    /\ Moves(p, new)
    /\ Leaves(p, new) \/ Draws(p, new) \/ Reads(p, new) \/ Edits(p, new) \/ Finishes(p, new)

\* The other steps leave the panes alone.
Rests ==
    /\ panes' = panes
    /\ requests' \subseteq requests
    /\ used' = used /\ edited' = edited

\* An update of a pane's fields is a pane.
LEMMA PaneFields ==
  ASSUME NEW s \in Pane
  PROVE  /\ \A pc \in Stages : [s EXCEPT !.pc = pc] \in Pane
         /\ \A v \in View \cup {None} : [s EXCEPT !.view = v] \in Pane
         /\ \A goal \in Goals \cup {None} : [s EXCEPT !.goal = goal] \in Pane
         /\ \A b \in Nat : [s EXCEPT !.base = b] \in Pane
         /\ \A u \in Unsent \cup {None} : [s EXCEPT !.unsent = u] \in Pane
         /\ \A b \in BOOLEAN : [s EXCEPT !.uncertain = b] \in Pane
         /\ \A a \in [version : Nat, content : Contents] \cup {None} : [s EXCEPT !.ack = a] \in Pane
         /\ \A o \in Operation \cup {None} : [s EXCEPT !.operation = o] \in Pane
         /\ \A o \in Server!Outcomes \cup {None} : [s EXCEPT !.outcome = o] \in Pane
<1>1. \A pc \in Stages : [s EXCEPT !.pc = pc] \in Pane
  BY DEF Pane, Stages
<1>2. \A v \in View \cup {None} : [s EXCEPT !.view = v] \in Pane
  BY DEF Pane
<1>3. \A goal \in Goals \cup {None} : [s EXCEPT !.goal = goal] \in Pane
  BY DEF Pane
<1>4. \A b \in Nat : [s EXCEPT !.base = b] \in Pane
  BY DEF Pane
<1>5. \A u \in Unsent \cup {None} : [s EXCEPT !.unsent = u] \in Pane
  BY DEF Pane
<1>6. \A b \in BOOLEAN : [s EXCEPT !.uncertain = b] \in Pane
  BY DEF Pane
<1>7. \A a \in [version : Nat, content : Contents] \cup {None} : [s EXCEPT !.ack = a] \in Pane
  BY DEF Pane
<1>8. \A o \in Operation \cup {None} : [s EXCEPT !.operation = o] \in Pane
  BY DEF Pane
<1>9. \A o \in Server!Outcomes \cup {None} : [s EXCEPT !.outcome = o] \in Pane
  BY DEF Pane
<1>. QED
  BY <1>1, <1>2, <1>3, <1>4, <1>5, <1>6, <1>7, <1>8, <1>9

\* A request with its headers only.
LEMMA BlankTyped ==
  ASSUME NEW self \in Pane, NEW p \in Panes, NEW kind \in Kinds
  PROVE  /\ Blank(self, p, kind) \in Request
         /\ Blank(self, p, kind).pane = p /\ Blank(self, p, kind).kind = kind
         /\ Blank(self, p, kind).awaited
BY DEF Blank, Request, Pane

\* The requests that are left in transit: of a pane that awaited none, of one
\* that has its answer, and of one that stopped waiting.
LEMMA RemainsIdle ==
  ASSUME Awaiting, NEW p \in Panes, panes[p].pc \notin Waiting
  PROVE  Remains(p, requests)
BY DEF Awaiting, Remains

\* The request that is answered is gone.
LEMMA RemainsTaken ==
  ASSUME Awaiting, NEW r \in requests, r.awaited
  PROVE  Remains(r.pane, requests \ {r})
BY DEF Awaiting, Remains

\* The requests of the pane that gives up waiting are left, awaited no more.
LEMMA RemainsUnawaited ==
  ASSUME TypeOK, NEW p \in Panes
  PROVE  Remains(p, Unawaited(p))
<1>1. \A q \in requests : ~[q EXCEPT !.awaited = FALSE].awaited
  BY DEF TypeOK, Request
<1>. QED
  BY <1>1 DEF Remains, Unawaited

\* A pane goes on, and sends at most one request.
LEMMA GoesOn ==
  ASSUME TypeOK, NEW p \in Panes, NEW self \in Pane, NEW pc \in Stages, NEW left, NEW new,
         Remains(p, left), GoOn(p, self, pc, left \cup new),
         Able(self, pc), AckKept(p, self),
         \A n, m \in new : n = m, \A n \in new : Asked(p, self, pc, n)
  PROVE  /\ Moves(p, new)
         /\ panes'[p] = [self EXCEPT !.pc = pc]
<1>1. panes \in [Panes -> Pane] /\ panes' = [panes EXCEPT ![p] = [self EXCEPT !.pc = pc]]
  BY DEF TypeOK, GoOn
<1>2. [self EXCEPT !.pc = pc] \in Pane
  BY PaneFields
<1>3. /\ panes' \in [Panes -> Pane]
      /\ \A q \in Panes \ {p} : panes'[q] = panes[q]
      /\ panes'[p] = [self EXCEPT !.pc = pc]
  BY <1>1, <1>2
<1>4. /\ panes'[p].pc = pc /\ panes'[p].unsent = self.unsent
      /\ panes'[p].operation = self.operation /\ panes'[p].ack = self.ack
  BY <1>3 DEF Pane
<1>5. Able(panes'[p], panes'[p].pc) /\ AckKept(p, panes'[p])
  BY <1>4 DEF Able, AckKept
<1>6. \A n \in new : Asked(p, panes'[p], panes'[p].pc, n)
  BY <1>4 DEF Asked
<1>7. requests' = left \cup new
  BY DEF GoOn
<1>. QED
  BY <1>3, <1>5, <1>6, <1>7 DEF Moves

\* A command ends.
LEMMA Returns ==
  ASSUME TypeOK, NEW p \in Panes, NEW self \in Pane, NEW left, Remains(p, left),
         Return(p, self, left), AckKept(p, self), used' = used,
         edited' = edited \/ (panes[p].pc = "edit" /\ UNCHANGED server /\ Applies(p))
  PROVE  Steps(p, {})
<1>. DEFINE next == [self EXCEPT !.goal = None, !.operation = None, !.outcome = None]
<1>1. next \in Pane /\ next.ack = self.ack
  BY DEF Pane
<1>. HIDE DEF next
<1>2. GoOn(p, next, "idle", left \cup {})
  BY DEF Return, next
<1>3. "idle" \in Stages /\ "idle" # "flush" /\ "idle" \notin Performing
  BY DEF Stages, Performing, Opening
<1>4. Able(next, "idle") /\ AckKept(p, next)
  BY <1>1, <1>3 DEF Able, AckKept
<1>5. Moves(p, {}) /\ panes'[p] = [next EXCEPT !.pc = "idle"]
  BY <1>1, <1>2, <1>3, <1>4, GoesOn
<1>6. panes'[p].pc = "idle"
  BY <1>1, <1>5 DEF Pane
<1>. QED
  BY <1>3, <1>5, <1>6 DEF Steps, Leaves

\* A request that neither begins, settles nor saves is sent.
LEMMA Sends ==
  ASSUME TypeOK, NEW p \in Panes, NEW self \in Pane, NEW pc \in Waiting, NEW left, NEW n \in Request,
         Remains(p, left), Send(p, self, pc, n, left),
         pc \notin Performing, pc # "flush", AckKept(p, self),
         n.pane = p, n.awaited, n.kind \notin {"begin", "settle", "save"},
         used' = used, edited' = edited
  PROVE  Steps(p, {n})
<1>1. Able(self, pc) /\ Asked(p, self, pc, n) /\ pc \in Stages
  BY DEF Able, Asked, Complete, Stages
<1>2. Moves(p, {n}) /\ panes'[p] = [self EXCEPT !.pc = pc]
  BY <1>1, GoesOn DEF Send
<1>3. panes'[p].pc = pc
  BY <1>2 DEF Pane
<1>. QED
  BY <1>2, <1>3 DEF Steps, Leaves

\* An export is sent to be saved.
LEMMA SendsSave ==
  ASSUME TypeOK, NEW p \in Panes, NEW self \in Pane, NEW left, NEW b \in Nat,
         self.unsent \in Unsent, Remains(p, left), AckKept(p, self),
         Send(p, self, "flush",
              [Blank(self, p, "save") EXCEPT !.base = b, !.gen = self.unsent.gen,
                                             !.content = self.unsent.content], left),
         used' = used, edited' = edited
  PROVE  \E n : Steps(p, {n})
<1>. DEFINE n == [Blank(self, p, "save") EXCEPT !.base = b, !.gen = self.unsent.gen,
                                                !.content = self.unsent.content]
<1>1. self.unsent.gen \in Nat /\ self.unsent.content \in Contents
  BY DEF Unsent
<1>2. n \in Request /\ n.pane = p /\ n.awaited /\ n.kind = "save" /\ n.content = self.unsent.content
  <2>1. "save" \in Kinds
    BY DEF Kinds
  <2>2. Blank(self, p, "save") \in Request /\ Blank(self, p, "save").pane = p
        /\ Blank(self, p, "save").kind = "save" /\ Blank(self, p, "save").awaited
    BY <2>1, BlankTyped
  <2>. QED
    BY <1>1, <2>2 DEF Request
<1>. HIDE DEF n
<1>3. "flush" \in Stages /\ "flush" \in Waiting /\ "flush" \notin Performing
  BY DEF Stages, Waiting, Performing, Opening
<1>4. Able(self, "flush") /\ Asked(p, self, "flush", n)
  BY <1>1, <1>2, <1>3 DEF Able, Asked, Complete
<1>5. Moves(p, {n}) /\ panes'[p] = [self EXCEPT !.pc = "flush"]
  <2>1. GoOn(p, self, "flush", left \cup {n})
    BY DEF Send, n
  <2>. QED
    BY <1>3, <1>4, <2>1, GoesOn
<1>6. panes'[p].pc = "flush"
  BY <1>5 DEF Pane
<1>7. Leaves(p, {n})
  BY <1>2, <1>3, <1>6 DEF Leaves
<1>. QED
  BY <1>5, <1>7 DEF Steps

\* What a person asks of a pane.
LEMMA CommandSteps ==
  ASSUME TypeOK, Awaiting, NEW p \in Panes,
         \/ \E goal \in Goals : Inspect(p, goal)
         \/ Flush(p) \/ TakeOver(p) \/ Release(p) \/ Heartbeat(p)
  PROVE  UNCHANGED server /\ \E new : Steps(p, new)
<1>. DEFINE self == panes[p]
<1>1. self \in Pane /\ self.pc = "idle"
  BY DEF TypeOK, Inspect, Flush, TakeOver, Release, Heartbeat, Command
<1>2. Remains(p, requests)
  <2>1. "idle" \notin Waiting
    BY DEF Waiting
  <2>. QED
    BY <1>1, <2>1, RemainsIdle
<1>3. UNCHANGED server /\ used' = used /\ edited' = edited
  BY DEF Inspect, Flush, TakeOver, Release, Heartbeat, Command
<1>4. AckKept(p, self)
  BY DEF AckKept
<1>5. \A pc \in {"inspect", "takeover", "release", "renew"} :
        pc \in Waiting /\ pc \in Kinds /\ pc \notin Performing /\ pc # "flush"
        /\ pc \notin {"begin", "settle", "save"}
  BY DEF Waiting, Kinds, Performing, Opening
<1>6. ASSUME NEW goal \in Goals, Inspect(p, goal) PROVE \E new : Steps(p, new)
  <2>. DEFINE s == [self EXCEPT !.goal = goal]
  <2>1. s \in Pane /\ AckKept(p, s)
    BY <1>1, <1>4 DEF AckKept, Pane
  <2>2. Blank(self, p, "inspect") \in Request /\ Blank(self, p, "inspect").pane = p
        /\ Blank(self, p, "inspect").kind = "inspect" /\ Blank(self, p, "inspect").awaited
    BY <1>1, <1>5, BlankTyped
  <2>. HIDE DEF s
  <2>3. Send(p, s, "inspect", Blank(self, p, "inspect"), requests)
    BY <1>6 DEF Inspect, s
  <2>. HIDE DEF self
  <2>. QED
    BY <1>2, <1>3, <1>5, <2>1, <2>2, <2>3, Sends
<1>7. ASSUME Flush(p) PROVE \E new : Steps(p, new)
  <2>1. self.unsent \in Unsent
    BY <1>1, <1>7 DEF Flush, Pane
  <2>2. self.unsent.base \in Nat
    BY <2>1 DEF Unsent
  <2>3. Send(p, self, "flush",
             [Blank(self, p, "save") EXCEPT !.base = self.unsent.base, !.gen = self.unsent.gen,
                                            !.content = self.unsent.content], requests)
    BY <1>7 DEF Flush
  <2>. HIDE DEF self
  <2>. QED
    BY <1>1, <1>2, <1>3, <1>4, <2>1, <2>2, <2>3, SendsSave
<1>8. ASSUME NEW kind \in {"takeover", "release", "renew"}, NEW n,
             n \in {[Blank(self, p, kind) EXCEPT !.shown = self.view.gen],
                    [Blank(self, p, kind) EXCEPT !.gen = self.view.gen]},
             self.view \in View,
             Send(p, self, kind, n, requests)
      PROVE  \E new : Steps(p, new)
  <2>1. Blank(self, p, kind) \in Request /\ Blank(self, p, kind).pane = p
        /\ Blank(self, p, kind).kind = kind /\ Blank(self, p, kind).awaited
    BY <1>1, <1>5, BlankTyped
  <2>2. self.view.gen \in Nat
    BY <1>8 DEF View
  <2>3. n \in Request /\ n.pane = p /\ n.kind = kind /\ n.awaited
    BY <1>8, <2>1, <2>2 DEF Request
  <2>. HIDE DEF self
  <2>. QED
    BY <1>1, <1>2, <1>3, <1>4, <1>5, <1>8, <2>3, Sends
<1>9. self.view # None => self.view \in View
  BY <1>1 DEF Pane
<1>10. CASE TakeOver(p)
  BY <1>3, <1>8, <1>9, <1>10 DEF TakeOver
<1>11. CASE Release(p) \/ Heartbeat(p)
  BY <1>3, <1>8, <1>9, <1>11 DEF Release, Heartbeat, OwnedView
<1>. QED
  BY <1>3, <1>6, <1>7, <1>10, <1>11

\* An export that may not be saved any more is dropped; all else stays.
LEMMA Discards ==
  ASSUME NEW p \in Panes, NEW self \in Pane, AckKept(p, self)
  PROVE  DiscardFenced(self) \in Pane /\ AckKept(p, DiscardFenced(self))
<1>1. CASE DiscardFenced(self) = self
  BY <1>1
<1>2. CASE DiscardFenced(self) = [self EXCEPT !.unsent = None]
  <2>1. [self EXCEPT !.unsent = None] \in Pane /\ [self EXCEPT !.unsent = None].ack = self.ack
    BY DEF Pane
  <2>. QED
    BY <1>2, <2>1 DEF AckKept
<1>. QED
  BY <1>1, <1>2 DEF DiscardFenced

\* BEGIN is sent, under an id not drawn before.
LEMMA BeginNativeSteps ==
  ASSUME TypeOK, NEW p \in Panes, NEW self \in Pane, NEW left, Remains(p, left),
         AckKept(p, self), self.view \in View, BeginNative(p, self, left), edited' = edited
  PROVE  used' \subseteq Operations /\ \E new : Steps(p, new)
<1>1. PICK id \in Operations \ used, pr \in Proposals :
        LET o == [id |-> id, seq |-> self.view.seq, gen |-> self.view.gen, proposal |-> pr] IN
        /\ used' = used \cup {id}
        /\ Send(p, [self EXCEPT !.operation = o, !.uncertain = TRUE], "begin",
                [Blank(self, p, "begin") EXCEPT !.gen = o.gen, !.operation = o], left)
  BY DEF BeginNative
<1>. DEFINE o == [id |-> id, seq |-> self.view.seq, gen |-> self.view.gen, proposal |-> pr]
            s == [self EXCEPT !.operation = o, !.uncertain = TRUE]
            n == [Blank(self, p, "begin") EXCEPT !.gen = o.gen, !.operation = o]
<1>2. o \in Operation /\ o.id = id /\ o.gen \in Nat
  BY DEF Operation, View
<1>3. used' = used \cup {id} /\ Send(p, s, "begin", n, left)
  BY <1>1
<1>. HIDE DEF o
<1>4. s \in Pane /\ s.operation = o /\ s.ack = self.ack
  BY <1>2 DEF Pane
<1>5. n \in Request /\ n.pane = p /\ n.awaited /\ n.kind = "begin" /\ n.operation = o
  <2>1. "begin" \in Kinds
    BY DEF Kinds
  <2>2. Blank(self, p, "begin") \in Request /\ Blank(self, p, "begin").pane = p
        /\ Blank(self, p, "begin").kind = "begin" /\ Blank(self, p, "begin").awaited
    BY <2>1, BlankTyped
  <2>. QED
    BY <1>2, <2>2 DEF Request
<1>. HIDE DEF s, n
<1>6. "begin" \in Stages /\ "begin" \in Waiting
  BY DEF Stages, Waiting
<1>7. Able(s, "begin") /\ AckKept(p, s) /\ Asked(p, s, "begin", n)
  BY <1>2, <1>4, <1>5, <1>6 DEF Able, AckKept, Asked, Complete
<1>8. Moves(p, {n}) /\ panes'[p] = [s EXCEPT !.pc = "begin"]
  BY <1>3, <1>4, <1>6, <1>7, GoesOn DEF Send
<1>9. panes'[p].pc = "begin" /\ panes'[p].operation = o
  BY <1>4, <1>8 DEF Pane
<1>10. Draws(p, {n})
  BY <1>2, <1>3, <1>5, <1>9 DEF Draws
<1>11. used' \subseteq Operations
  BY <1>3 DEF TypeOK
<1>. QED
  BY <1>8, <1>10, <1>11 DEF Steps

\* After inspecting and claiming.
LEMMA ProceedSteps ==
  ASSUME TypeOK, NEW p \in Panes, NEW self \in Pane, NEW left, Remains(p, left),
         AckKept(p, self), Proceed(p, self, left), edited' = edited
  PROVE  used' \subseteq Operations /\ \E new : Steps(p, new)
<1>0. used \subseteq Operations
  BY DEF TypeOK
<1>1. CanWrite(self) => self.view \in View
  BY DEF CanWrite, Pane
<1>2. CASE CanWrite(self) /\ Capture(p, self, left) /\ UNCHANGED used
  <2>1. PICK c \in Contents :
          LET u == [content |-> c, base |-> self.base, gen |-> self.view.gen] IN
          Send(p, [self EXCEPT !.unsent = u], "flush",
               [Blank(self, p, "save") EXCEPT !.gen = u.gen, !.content = c], left)
    BY <1>2 DEF Capture
  <2>. DEFINE u == [content |-> c, base |-> self.base, gen |-> self.view.gen]
              s == [self EXCEPT !.unsent = u]
  <2>2. u \in Unsent /\ u.gen = self.view.gen /\ u.content = c /\ self.base \in Nat
    BY <1>1, <1>2 DEF Unsent, View, Pane
  <2>3. Send(p, s, "flush", [Blank(self, p, "save") EXCEPT !.gen = u.gen, !.content = c], left)
    BY <2>1
  <2>. HIDE DEF u
  <2>4. s \in Pane /\ s.unsent = u /\ s.ack = self.ack /\ s.base = self.base
    BY <2>2 DEF Pane
  <2>5. [Blank(self, p, "save") EXCEPT !.gen = u.gen, !.content = c]
        = [Blank(s, p, "save") EXCEPT !.base = self.base, !.gen = s.unsent.gen,
                                      !.content = s.unsent.content]
    <3>. DEFINE b == Blank(self, p, "save")
    <3>1. Blank(s, p, "save") = b /\ b.base = self.base
      BY <2>4 DEF Blank
    <3>2. b \in Request
      <4>1. "save" \in Kinds
        BY DEF Kinds
      <4>. QED
        BY <4>1, BlankTyped
    <3>. HIDE DEF b
    <3>3. [b EXCEPT !.gen = u.gen, !.content = c]
          = [b EXCEPT !.base = self.base, !.gen = u.gen, !.content = c]
      BY <3>1, <3>2 DEF Request
    <3>. QED
      BY <2>2, <2>4, <3>1, <3>3 DEF b
  <2>6. AckKept(p, s)
    BY <2>4 DEF AckKept
  <2>. HIDE DEF s
  <2>7. \E n : Steps(p, n)
    BY <1>2, <2>2, <2>3, <2>4, <2>5, <2>6, SendsSave
  <2>. QED
    BY <1>0, <1>2, <2>7
<1>3. CASE CanWrite(self) /\ BeginNative(p, self, left)
  BY <1>1, <1>3, BeginNativeSteps
<1>4. CASE UNCHANGED used /\ \E s \in {self, DiscardFenced(self)} : Return(p, s, left)
  <2>1. PICK s \in {self, DiscardFenced(self)} : Return(p, s, left)
    BY <1>4
  <2>2. s \in Pane /\ AckKept(p, s)
    BY Discards
  <2>. QED
    BY <1>0, <1>4, <2>1, <2>2, Returns
<1>5. \/ CanWrite(self) /\ Capture(p, self, left) /\ UNCHANGED used
      \/ CanWrite(self) /\ BeginNative(p, self, left)
      \/ UNCHANGED used /\ \E s \in {self, DiscardFenced(self)} : Return(p, s, left)
  BY DEF Proceed
<1>. QED
  BY <1>2, <1>3, <1>4, <1>5

\* The answer to the first look.
LEMMA InspectedSteps ==
  ASSUME TypeOK, NEW p \in Panes, NEW self \in Pane, NEW left, Remains(p, left),
         AckKept(p, self), Inspected(p, self, left), edited' = edited
  PROVE  used' \subseteq Operations /\ \E new : Steps(p, new)
<1>1. CASE Proceed(p, self, left)
  BY <1>1, ProceedSteps
<1>2. CASE Send(p, self, "claim", Blank(self, p, "claim"), left) /\ UNCHANGED used
  <2>1. "claim" \in Waiting /\ "claim" \in Kinds /\ "claim" \notin Performing
    BY DEF Waiting, Kinds, Performing, Opening
  <2>2. Blank(self, p, "claim") \in Request /\ Blank(self, p, "claim").pane = p
        /\ Blank(self, p, "claim").kind = "claim" /\ Blank(self, p, "claim").awaited
    BY <2>1, BlankTyped
  <2>3. Steps(p, {Blank(self, p, "claim")})
    BY <1>2, <2>1, <2>2, Sends
  <2>. QED
    BY <1>2, <2>3 DEF TypeOK
<1>. QED
  BY <1>1, <1>2 DEF Inspected

\* What a pane is told is a view; one that shows the pane as the owner of a
\* pending operation is of a fence that is up.
LEMMA Told ==
  ASSUME ServerTyped, Appends, NEW p \in Panes
  PROVE  /\ ViewOf(p)' \in View
         /\ ViewOf(p)'.current = Server!Current'
         /\ ViewOf(p)'.native = row'.state
         /\ ViewOf(p)'.op = row'.op
         /\ ViewOf(p)'.lease = "owned" => row'.owner = p /\ ViewOf(p)'.gen = row'.gen
<1>1. row' \in Server!Row /\ Len(versions') \in Nat
  BY DEF ServerTyped, Appends
<1>. DEFINE lease == IF Server!Live' /\ row'.owner = p THEN "owned"
                     ELSE IF Server!Live' \/ Server!Pending' THEN "other" ELSE "available"
            gen == IF Server!Live' \/ Server!Pending' THEN row'.gen ELSE Server!Shown'
<1>2. ViewOf(p)' = [current |-> Server!Current', lease |-> lease, gen |-> gen,
                    seq |-> row'.seq, native |-> row'.state, op |-> row'.op]
  BY DEF ViewOf
<1>3. lease \in {"owned", "other", "available"} /\ gen \in Nat /\ Server!Current' \in Nat
  BY <1>1 DEF Server!Shown, Server!Row, Server!Current
<1>4. lease = "owned" => row'.owner = p /\ gen = row'.gen
  OBVIOUS
<1>. HIDE DEF lease, gen
<1>5. row'.seq \in Nat /\ row'.state \in Server!NativeStates /\ row'.op \in Operations \cup {None}
  BY <1>1 DEF Server!Row
<1>6. ViewOf(p)' \in View
  BY <1>2, <1>3, <1>5 DEF View
<1>. QED
  BY <1>2, <1>4, <1>6

\* The answer to begin, or to the read after it.
LEMMA BegunSteps ==
  ASSUME TypeOK, Equipped, ServerTyped, Appends, NEW p \in Panes, NEW left, Remains(p, left),
         panes[p].pc \in {"begin", "beginRead"},
         Begun(p, [panes[p] EXCEPT !.view = ViewOf(p)'], left),
         used' = used, edited' = edited
  PROVE  \E new : Steps(p, new)
<1>. DEFINE v == ViewOf(p)'
            self == [panes[p] EXCEPT !.view = v]
            o == panes[p].operation
<1>1. panes[p] \in Pane
  BY DEF TypeOK
<1>2. v \in View /\ v.current = Server!Current' /\ v.native = row'.state /\ v.op = row'.op
      /\ (v.lease = "owned" => row'.owner = p /\ v.gen = row'.gen)
  BY Told
<1>. HIDE DEF v
<1>3. self \in Pane /\ self.ack = panes[p].ack /\ self.operation = o /\ self.view = v
      /\ self.base = panes[p].base
  BY <1>1, <1>2 DEF Pane
<1>4. Begun(p, self, left)
  BY DEF v
<1>. HIDE DEF self
<1>5. CASE /\ v.native = "pending" /\ v.op = o.id
           /\ v.lease = "owned" /\ v.gen = o.gen /\ v.current = self.base
           /\ GoOn(p, self, "edit", left)
  <2>1. "edit" \in Stages /\ "edit" # "flush" /\ panes[p].pc \in Performing
    BY DEF Stages, Performing, Opening
  <2>2. o \in Operation
    BY <2>1 DEF Equipped, Able
  <2>3. Able(self, "edit") /\ AckKept(p, self)
    BY <1>3, <2>1, <2>2 DEF Able, AckKept
  <2>4. Moves(p, {}) /\ panes'[p] = [self EXCEPT !.pc = "edit"]
    <3>1. GoOn(p, self, "edit", left \cup {})
      BY <1>5
    <3>. QED
      BY <1>3, <2>1, <2>3, <3>1, GoesOn
  <2>5. panes'[p].pc = "edit" /\ panes'[p].operation = o /\ panes'[p].base = panes[p].base
    BY <1>3, <2>4 DEF Pane
  <2>6. FenceOf(p)'
    BY <1>2, <1>3, <1>5, <2>5 DEF FenceOf, Server!Pending
  <2>7. Edits(p, {})
    BY <2>5, <2>6 DEF Edits
  <2>. QED
    BY <2>4, <2>7 DEF Steps
<1>6. CASE \E s \in {self, [self EXCEPT !.uncertain = FALSE]} : Return(p, s, left)
  <2>1. PICK s \in {self, [self EXCEPT !.uncertain = FALSE]} : Return(p, s, left)
    BY <1>6
  <2>2. s \in Pane /\ s.ack = panes[p].ack
    BY <1>3 DEF Pane
  <2>3. AckKept(p, s)
    BY <2>2 DEF AckKept
  <2>. QED
    BY <2>1, <2>2, <2>3, Returns
<1>. QED
  BY <1>3, <1>4, <1>5, <1>6 DEF Begun

\* The answer that ends a command, of a settlement or a save too.
LEMMA EndedSteps ==
  ASSUME TypeOK, Equipped, ServerTyped, Appends, NEW p \in Panes, NEW left, Remains(p, left),
         NEW self \in Pane, self.ack = panes[p].ack,
         self.view \in View, self.view.current = Server!Current',
         \/ Settled(p, self, left)
         \/ /\ Saved(p, self, left)
            /\ self.unsent \in Unsent
            /\ Server!Current' \in DOMAIN versions'
            /\ versions'[Server!Current'].content = self.unsent.content
         \/ Return(p, DiscardFenced(self), left)
         \/ Return(p, self, left),
         used' = used, edited' = edited
  PROVE  \E new : Steps(p, new)
<1>1. AckKept(p, self)
  BY DEF AckKept
<1>2. CASE \E s \in {self, [self EXCEPT !.uncertain = FALSE], DiscardFenced(self)} : Return(p, s, left)
  <2>1. PICK s \in {self, [self EXCEPT !.uncertain = FALSE], DiscardFenced(self)} : Return(p, s, left)
    BY <1>2
  <2>2. [self EXCEPT !.uncertain = FALSE] \in Pane /\ [self EXCEPT !.uncertain = FALSE].ack = self.ack
    BY DEF Pane
  <2>3. AckKept(p, [self EXCEPT !.uncertain = FALSE])
    BY <2>2 DEF AckKept
  <2>4. s \in Pane /\ AckKept(p, s)
    BY <1>1, <2>1, <2>2, <2>3, Discards
  <2>. QED
    BY <2>1, <2>4, Returns
<1>3. CASE Saved(p, self, left) /\ self.unsent \in Unsent
           /\ Server!Current' \in DOMAIN versions'
           /\ versions'[Server!Current'].content = self.unsent.content
  <2>. DEFINE a == [version |-> self.view.current, content |-> self.unsent.content]
              s == [self EXCEPT !.base = self.view.current, !.unsent = None, !.ack = a]
  <2>1. self.view.current \in Nat /\ a \in [version : Nat, content : Contents]
        /\ a.version = Server!Current' /\ a.content = self.unsent.content
    BY <1>3 DEF View, Unsent
  <2>2. Return(p, s, left)
    BY <1>3 DEF Saved
  <2>. HIDE DEF a
  <2>3. s \in Pane /\ s.ack = a
    BY <2>1 DEF Pane
  <2>. HIDE DEF s
  <2>4. AckKept(p, s)
    BY <1>3, <2>1, <2>3 DEF AckKept
  <2>. QED
    BY <2>2, <2>3, <2>4, Returns
<1>. QED
  BY <1>2, <1>3 DEF Settled

\* A request that fails: a begin or a settlement is looked after first.
LEMMA FailsSteps ==
  ASSUME TypeOK, Equipped, NEW p \in Panes, NEW view \in View \cup {None}, NEW left,
         Remains(p, left), Fails(p, view, left), used' = used, edited' = edited
  PROVE  \E new : Steps(p, new)
<1>0. panes[p] \in Pane
  BY DEF TypeOK
<1>1. PICK self \in {panes[p], [panes[p] EXCEPT !.view = view]} :
        IF self.pc \in {"begin", "settle"}
        THEN Send(p, self, IF self.pc = "begin" THEN "beginRead" ELSE "settleRead",
                  [Blank(self, p, "read") EXCEPT !.gen = self.operation.gen], left)
        ELSE Return(p, self, left)
  BY DEF Fails
<1>2. self \in Pane /\ self.pc = panes[p].pc /\ self.operation = panes[p].operation
      /\ self.ack = panes[p].ack
  BY <1>0, <1>1 DEF Pane
<1>3. AckKept(p, self)
  BY <1>2 DEF AckKept
<1>4. CASE self.pc \in {"begin", "settle"}
  <2>. DEFINE pc == IF self.pc = "begin" THEN "beginRead" ELSE "settleRead"
              n == [Blank(self, p, "read") EXCEPT !.gen = self.operation.gen]
  <2>1. pc \in Stages /\ pc \in Waiting /\ pc # "flush" /\ self.pc \in Performing
    BY <1>4 DEF Stages, Waiting, Performing, Opening
  <2>2. self.operation \in Operation
    BY <1>2, <2>1 DEF Equipped, Able
  <2>3. n \in Request /\ n.pane = p /\ n.awaited /\ n.kind = "read"
    <3>1. "read" \in Kinds
      BY DEF Kinds
    <3>2. Blank(self, p, "read") \in Request /\ Blank(self, p, "read").pane = p
          /\ Blank(self, p, "read").kind = "read" /\ Blank(self, p, "read").awaited
      BY <1>2, <3>1, BlankTyped
    <3>3. self.operation.gen \in Nat
      BY <2>2 DEF Operation
    <3>. QED
      BY <3>2, <3>3 DEF Request
  <2>4. Send(p, self, pc, n, left)
    BY <1>1, <1>4
  <2>5. (self.pc = "begin" /\ pc = "beginRead") \/ (self.pc = "settle" /\ pc = "settleRead")
    BY <1>4
  <2>. HIDE DEF pc, n
  <2>6. Able(self, pc) /\ Asked(p, self, pc, n)
    BY <2>1, <2>2, <2>3 DEF Able, Asked, Complete
  <2>7. Moves(p, {n}) /\ panes'[p] = [self EXCEPT !.pc = pc]
    BY <1>2, <1>3, <2>1, <2>4, <2>6, GoesOn DEF Send
  <2>8. panes'[p].pc = pc /\ panes'[p].operation = panes[p].operation
    BY <1>2, <2>7 DEF Pane
  <2>9. Reads(p, {n})
    BY <1>2, <2>3, <2>5, <2>8 DEF Reads
  <2>. QED
    BY <2>7, <2>9 DEF Steps
<1>5. CASE self.pc \notin {"begin", "settle"}
  BY <1>1, <1>2, <1>3, <1>5, Returns
<1>. QED
  BY <1>4, <1>5

\* The edit in Word, and its settlement.
LEMMA PerformSteps ==
  ASSUME TypeOK, Equipped, Awaiting, NEW p \in Panes, Perform(p)
  PROVE  UNCHANGED server /\ used' = used /\ \E new : Steps(p, new)
<1>. DEFINE self == panes[p]
            o == panes[p].operation
<1>1. self \in Pane /\ self.pc = "edit"
  BY DEF TypeOK, Perform, EditApplied, EditUnchanged, EditUncertain
<1>2. o \in Operation
  BY <1>1 DEF Equipped, Able, Performing, Opening
<1>3. Remains(p, requests)
  <2>1. "edit" \notin Waiting
    BY DEF Waiting
  <2>. QED
    BY <1>1, <2>1, RemainsIdle
<1>4. UNCHANGED server /\ used' = used
  BY DEF Perform, EditApplied, EditUnchanged, EditUncertain
<1>5. ASSUME NEW outcome \in Server!Outcomes, Settling(p, outcome),
             IF outcome = "confirmed" THEN Applies(p) ELSE edited' = edited
      PROVE  \E new : Steps(p, new)
  <2>. DEFINE s == [self EXCEPT !.outcome = outcome]
              n == [Blank(self, p, "settle") EXCEPT !.gen = o.gen, !.operation = o, !.outcome = outcome]
  <2>1. s \in Pane /\ s.operation = o /\ s.ack = self.ack
    BY <1>1 DEF Pane
  <2>2. n \in Request /\ n.pane = p /\ n.awaited /\ n.kind = "settle" /\ n.operation = o
        /\ n.outcome = outcome
    <3>1. "settle" \in Kinds
      BY DEF Kinds
    <3>2. Blank(self, p, "settle") \in Request /\ Blank(self, p, "settle").pane = p
          /\ Blank(self, p, "settle").kind = "settle" /\ Blank(self, p, "settle").awaited
      BY <1>1, <3>1, BlankTyped
    <3>3. o.gen \in Nat
      BY <1>2 DEF Operation
    <3>. HIDE DEF o
    <3>. QED
      BY <1>2, <3>2, <3>3 DEF Request
  <2>3. Send(p, s, "settle", n, requests)
    BY <1>5 DEF Settling
  <2>. HIDE DEF s, n
  <2>4. "settle" \in Stages /\ "settle" \in Waiting
    BY DEF Stages, Waiting
  <2>5. Able(s, "settle") /\ Asked(p, s, "settle", n)
    BY <1>2, <2>1, <2>2, <2>4 DEF Able, Asked, Complete
  <2>6. AckKept(p, s)
    BY <2>1 DEF AckKept
  <2>7. Moves(p, {n}) /\ panes'[p] = [s EXCEPT !.pc = "settle"]
    BY <1>3, <2>1, <2>3, <2>4, <2>5, <2>6, GoesOn DEF Send
  <2>8. panes'[p].pc = "settle" /\ panes'[p].operation = o
    BY <2>1, <2>7 DEF Pane
  <2>9. Finishes(p, {n})
    BY <1>1, <1>4, <1>5, <2>2, <2>8 DEF Finishes
  <2>. QED
    BY <2>7, <2>9 DEF Steps
<1>6. CASE EditApplied(p)
  BY <1>4, <1>5, <1>6 DEF EditApplied, Edited, Applies, Server!Outcomes
<1>7. CASE EditUnchanged(p)
  BY <1>4, <1>5, <1>7 DEF EditUnchanged, Server!Outcomes
<1>8. CASE EditUncertain(p)
  <2>1. AckKept(p, self)
    BY DEF AckKept
  <2>2. Return(p, self, requests)
    BY <1>8 DEF EditUncertain
  <2>3. edited' = edited \/ (panes[p].pc = "edit" /\ UNCHANGED server /\ Applies(p))
    BY <1>1, <1>4, <1>8 DEF EditUncertain, Edited, Applies
  <2>4. Steps(p, {})
    BY <1>1, <1>3, <1>4, <2>1, <2>2, <2>3, Returns
  <2>. QED
    BY <1>4, <2>4
<1>. QED
  BY <1>6, <1>7, <1>8 DEF Perform

\* A pane is opened, waits no longer, or is closed.
LEMMA LifeSteps ==
  ASSUME TypeOK, Server!TypeOK, Equipped, Awaiting, NEW p \in Panes,
         Timeout(p) \/ Open(p) \/ Close(p)
  PROVE  used' = used /\ \E new : Steps(p, new)
<1>1. panes[p] \in Pane /\ used' = used /\ edited' = edited
  BY DEF TypeOK, Timeout, Open, Close
<1>2. CASE Timeout(p)
  <2>1. Fails(p, None, Unawaited(p))
    BY <1>2 DEF Timeout
  <2>. QED
    BY <1>1, <2>1, RemainsUnawaited, FailsSteps
<1>3. ASSUME NEW self \in Pane, NEW pc \in {"idle", "closed"}, NEW left, Remains(p, left),
             GoOn(p, self, pc, left), AckKept(p, self)
      PROVE  Steps(p, {})
  <2>1. pc \in Stages /\ pc # "flush" /\ pc \notin Performing
    BY DEF Stages, Performing, Opening
  <2>2. Able(self, pc)
    BY <2>1 DEF Able
  <2>3. GoOn(p, self, pc, left \cup {})
    BY <1>3
  <2>4. Moves(p, {}) /\ panes'[p] = [self EXCEPT !.pc = pc]
    BY <1>3, <2>1, <2>2, <2>3, GoesOn
  <2>5. panes'[p].pc = pc
    BY <2>4 DEF Pane
  <2>. QED
    BY <1>1, <2>1, <2>4, <2>5 DEF Steps, Leaves
<1>4. CASE Open(p)
  <2>. DEFINE self == [panes[p] EXCEPT !.base = Server!Current]
  <2>1. Server!Current \in Nat
    BY DEF Server!TypeOK, Server!Current
  <2>2. self \in Pane /\ self.ack = panes[p].ack
    BY <1>1, <2>1 DEF Pane
  <2>3. GoOn(p, self, "idle", requests) /\ panes[p].pc \notin Waiting
    BY <1>4 DEF Open, Waiting
  <2>. HIDE DEF self
  <2>4. AckKept(p, self)
    BY <2>2 DEF AckKept
  <2>5. Remains(p, requests)
    BY <2>3, RemainsIdle
  <2>. QED
    BY <1>1, <1>3, <2>2, <2>3, <2>4, <2>5
<1>5. CASE Close(p)
  <2>1. NewPane \in Pane /\ NewPane.ack = None
    BY DEF NewPane, Pane
  <2>2. AckKept(p, NewPane)
    BY <2>1 DEF AckKept
  <2>3. GoOn(p, NewPane, "closed", Unawaited(p))
    BY <1>5 DEF Close
  <2>4. Remains(p, Unawaited(p))
    BY RemainsUnawaited
  <2>. QED
    BY <1>1, <1>3, <2>1, <2>2, <2>3, <2>4
<1>. QED
  BY <1>2, <1>4, <1>5

\* A request is handled, and its pane takes the answer if it awaits it.
LEMMA HandleSteps ==
  ASSUME TypeOK, Server!TypeOK, Equipped, Fenced, Awaiting, NEW r \in requests, Handle(r)
  PROVE  /\ Steady \/ Begins(r) \/ Settles(r)
         /\ Appends /\ ServerTyped /\ used' \subseteq Operations
         /\ Rests \/ \E p \in Panes : \E new : Steps(p, new)
<1>. DEFINE p == r.pane
            left == requests \ {r}
            v == ViewOf(p)'
            self == [panes[p] EXCEPT !.view = v]
<1>0. r \in Request /\ p \in Panes /\ panes[p] \in Pane /\ used \subseteq Operations
  BY DEF TypeOK, Request
<1>1. /\ Steady \/ Begins(r) \/ Settles(r)
      /\ Appends /\ ServerTyped
      /\ Admitted(r) /\ r.kind = "save" =>
           Server!Current' \in DOMAIN versions' /\ versions'[Server!Current'].content = r.content
  <2>1. IF Admitted(r) THEN Served(r) ELSE UNCHANGED server
    BY DEF Handle
  <2>. QED
    BY <2>1, RequestMoves
<1>2. v \in View /\ v.current = Server!Current'
  BY <1>0, <1>1, Told
<1>3. edited' = edited
  BY DEF Handle
<1>4. CASE ~r.awaited
  <2>1. Rests /\ used' = used
    BY <1>3, <1>4 DEF Handle, Rests
  <2>. QED
    BY <1>0, <1>1, <2>1
<1>5. CASE r.awaited /\ ~Admitted(r)
  <2>1. Remains(p, left)
    BY <1>5, RemainsTaken
  <2>2. PICK view \in {v, None} : Fails(p, view, left) /\ used' = used
    BY <1>5 DEF Handle
  <2>3. view \in View \cup {None}
    BY <1>2, <2>2
  <2>. HIDE DEF p, left
  <2>4. \E new : Steps(p, new)
    BY <1>0, <1>3, <2>1, <2>2, <2>3, FailsSteps
  <2>. QED
    BY <1>0, <1>1, <2>2, <2>4
<1>6. CASE r.awaited /\ Admitted(r)
  <2>1. Remains(p, left) /\ Granted(p, self, left)
    BY <1>5, <1>6, RemainsTaken DEF Handle
  <2>2. /\ self \in Pane /\ self.ack = panes[p].ack /\ self.pc = panes[p].pc
        /\ self.unsent = panes[p].unsent /\ self.view = v
    <3>. HIDE DEF v
    <3>. QED
      BY <1>0, <1>2 DEF Pane
  <2>3. AckKept(p, self)
    BY <2>2 DEF AckKept
  <2>4. panes[p].pc = "flush" =>
          /\ self.unsent \in Unsent
          /\ Server!Current' \in DOMAIN versions'
          /\ versions'[Server!Current'].content = self.unsent.content
    <3>. SUFFICES ASSUME panes[p].pc = "flush"
                  PROVE  /\ self.unsent \in Unsent
                         /\ Server!Current' \in DOMAIN versions'
                         /\ versions'[Server!Current'].content = self.unsent.content
      OBVIOUS
    <3>1. r.kind = "save" /\ r.content = panes[p].unsent.content
      BY <1>6 DEF Awaiting
    <3>2. panes[p].unsent \in Unsent
      BY <1>0 DEF Equipped, Able
    <3>. QED
      BY <1>1, <1>6, <2>2, <3>1, <3>2
  <2>5. \/ Inspected(p, self, left) \/ Proceed(p, self, left)
        \/ panes[p].pc \in {"begin", "beginRead"} /\ Begun(p, self, left) /\ used' = used
        \/ /\ used' = used
           /\ \/ Settled(p, self, left)
              \/ panes[p].pc = "flush" /\ Saved(p, self, left)
              \/ Return(p, DiscardFenced(self), left)
              \/ Return(p, self, left)
    BY <2>1, <2>2 DEF Granted
  <2>6. used' \subseteq Operations /\ \E new : Steps(p, new)
    <3>1. CASE Inspected(p, self, left) \/ Proceed(p, self, left)
      <4>. HIDE DEF p, left, self, v
      <4>. QED
        BY <1>0, <1>3, <2>1, <2>2, <2>3, <3>1, InspectedSteps, ProceedSteps
    <3>2. CASE panes[p].pc \in {"begin", "beginRead"} /\ Begun(p, self, left) /\ used' = used
      <4>1. Begun(p, [panes[p] EXCEPT !.view = ViewOf(p)'], left)
        BY <3>2
      <4>. HIDE DEF p, left, self, v
      <4>2. \E new : Steps(p, new)
        BY <1>0, <1>1, <1>3, <2>1, <3>2, <4>1, BegunSteps
      <4>. QED
        BY <1>0, <3>2, <4>2
    <3>3. CASE used' = used /\ (\/ Settled(p, self, left)
                                \/ panes[p].pc = "flush" /\ Saved(p, self, left)
                                \/ Return(p, DiscardFenced(self), left)
                                \/ Return(p, self, left))
      <4>. HIDE DEF p, left, self, v
      <4>1. \E new : Steps(p, new)
        BY <1>0, <1>1, <1>2, <1>3, <2>1, <2>2, <2>4, <3>3, EndedSteps
      <4>. QED
        BY <1>0, <3>3, <4>1
    <3>. QED
      BY <2>5, <3>1, <3>2, <3>3
  <2>. QED
    BY <1>0, <1>1, <2>6
<1>. QED
  BY <1>4, <1>5, <1>6

\* What any step does: to the server, and to the panes.
Effect ==
    /\ Steady \/ \E r \in requests : Begins(r) \/ Settles(r)
    /\ Appends /\ ServerTyped /\ used' \subseteq Operations
    /\ Rests \/ \E p \in Panes : \E new : Steps(p, new)

\* Every step has such an effect.
LEMMA AnyStep ==
  ASSUME TypeOK, Server!TypeOK, Equipped, Fenced, Awaiting, [Next]_vars
  PROVE  Effect
<1>0. used \subseteq Operations
  BY DEF TypeOK
<1>1. ASSUME NEW r \in requests, Handle(r) PROVE Effect
  BY <1>1, HandleSteps DEF Effect
<1>2. ASSUME NEW p \in Panes,
             \/ \E goal \in Goals : Inspect(p, goal)
             \/ Flush(p) \/ TakeOver(p) \/ Release(p) \/ Heartbeat(p)
      PROVE  Effect
  <2>1. UNCHANGED server /\ \E new : Steps(p, new)
    BY <1>2, CommandSteps
  <2>2. used' = used
    BY <1>2 DEF Inspect, Flush, TakeOver, Release, Heartbeat, Command
  <2>3. Steady /\ Appends /\ ServerTyped
    BY <2>1, OthersSteady
  <2>. QED
    BY <1>0, <2>1, <2>2, <2>3 DEF Effect
<1>3. ASSUME NEW p \in Panes, Perform(p) PROVE Effect
  <2>1. UNCHANGED server /\ used' = used /\ \E new : Steps(p, new)
    BY <1>3, PerformSteps
  <2>2. Steady /\ Appends /\ ServerTyped
    BY <2>1, OthersSteady
  <2>. QED
    BY <1>0, <2>1, <2>2 DEF Effect
<1>4. ASSUME NEW p \in Panes, Timeout(p) \/ Open(p) \/ Close(p) PROVE Effect
  <2>1. used' = used /\ \E new : Steps(p, new)
    BY <1>4, LifeSteps
  <2>2. UNCHANGED server \/ Server!Grant(p)
    BY <1>4 DEF Timeout, Open, Close
  <2>3. Steady /\ Appends /\ ServerTyped
    BY <2>2, OthersSteady
  <2>. QED
    BY <1>0, <2>1, <2>3 DEF Effect
<1>5. CASE Expire \/ Others \/ UNCHANGED vars
  <2>1. Rests /\ used' = used
    BY <1>5 DEF Expire, Others, vars, Rests
  <2>2. \/ UNCHANGED server \/ Server!Expire
        \/ \E c \in Contents : Server!Write(c)
        \/ \E revoke \in BOOLEAN : Server!Recover(revoke)
    BY <1>5 DEF Expire, Others, vars
  <2>3. Steady /\ Appends /\ ServerTyped
    BY <2>2, OthersSteady
  <2>. QED
    BY <1>0, <2>1, <2>3 DEF Effect
<1>. QED
  BY <1>1, <1>2, <1>3, <1>4, <1>5 DEF Next

-----------------------------------------------------------------------------
(* The invariant is kept, part by part.                                    *)

\* r is the request q, which may have stopped being awaited.
Alike(r, q) ==
    /\ r.pane = q.pane /\ r.kind = q.kind /\ r.operation = q.operation
    /\ r.outcome = q.outcome /\ r.content = q.content

\* What is in transit after a pane's step was before, or is what it sent.
LEMMA InTransit ==
  ASSUME TypeOK, Equipped, NEW p \in Panes, NEW new, Steps(p, new), NEW r \in requests'
  PROVE  /\ r \in Request /\ Complete(r)
         /\ r \in new \/ \E q \in requests : Alike(r, q) /\ (r.awaited => r = q /\ r.pane # p)
<1>1. PICK left : Remains(p, left) /\ requests' = left \cup new
  BY DEF Steps, Moves
<1>2. CASE r \in new
  BY <1>2 DEF Steps, Moves, Asked
<1>3. CASE r \in left /\ r \in requests
  BY <1>1, <1>3 DEF Remains, Alike, TypeOK, Equipped
<1>4. ASSUME NEW q \in requests, r = [q EXCEPT !.awaited = FALSE]
      PROVE  /\ r \in Request /\ Complete(r)
             /\ Alike(r, q) /\ ~r.awaited
  <2>1. q \in Request /\ Complete(q)
    BY DEF TypeOK, Equipped
  <2>2. r \in Request /\ ~r.awaited /\ Alike(r, q)
    BY <1>4, <2>1 DEF Request, Alike
  <2>. QED
    BY <2>1, <2>2 DEF Complete, Alike
<1>. QED
  BY <1>1, <1>2, <1>3, <1>4 DEF Remains

\* Types, of commands and others' changes as well.
LEMMA BudgetTyped ==
  ASSUME TypeOK, [Next]_vars
  PROVE  budget' \in [commands : Nat, timeouts : Nat, others : Nat]
<1>1. budget \in [commands : Nat, timeouts : Nat, others : Nat]
  BY DEF TypeOK
<1>2. budget' = budget \/ Spend("commands") \/ Spend("timeouts") \/ Spend("others")
  BY DEF Next, vars, Handle, Inspect, Flush, TakeOver, Release, Heartbeat, Command, Perform,
         EditApplied, EditUnchanged, EditUncertain, Timeout, Open, Close, Expire, Others
<1>. QED
  BY <1>1, <1>2 DEF Spend

\* So are the panes, the requests and the server, and what they need they have.
LEMMA TypesKept ==
  ASSUME Inv, Effect, budget' \in [commands : Nat, timeouts : Nat, others : Nat]
  PROVE  TypeOK' /\ Server!TypeOK' /\ Equipped'
<1>1. Server!TypeOK'
  BY DEF Effect, ServerTyped, Appends, Server!TypeOK
<1>2. CASE Rests
  BY <1>1, <1>2 DEF Inv, Effect, Rests, TypeOK, Server!TypeOK, Equipped
<1>3. ASSUME NEW p \in Panes, NEW new, Steps(p, new)
      PROVE  TypeOK' /\ Equipped'
  <2>1. \A r \in requests' : r \in Request /\ Complete(r)
    BY <1>3, InTransit DEF Inv
  <2>2. panes' \in [Panes -> Pane] /\ \A q \in Panes : Able(panes'[q], panes'[q].pc)
    <3>1. \A q \in Panes \ {p} : Able(panes[q], panes[q].pc)
      BY DEF Inv, Equipped
    <3>. QED
      BY <1>3, <3>1 DEF Steps, Moves
  <2>3. edited' \in [Proposals -> Nat]
    <3>1. edited \in [Proposals -> Nat]
      BY DEF Inv, TypeOK
    <3>2. CASE edited' = edited
      BY <3>1, <3>2
    <3>3. CASE panes[p].pc = "edit" /\ Applies(p)
      <4>1. panes[p].operation.proposal \in Proposals
        BY <3>3 DEF Inv, Equipped, Able, Performing, Opening, Operation
      <4>2. edited[panes[p].operation.proposal] + 1 \in Nat
        BY <3>1, <4>1
      <4>. QED
        BY <3>1, <3>3, <4>1, <4>2 DEF Applies
    <3>. QED
      BY <1>3, <3>2, <3>3 DEF Steps, Leaves, Draws, Reads, Edits, Finishes
  <2>. QED
    BY <1>1, <2>1, <2>2, <2>3 DEF Effect, TypeOK, Server!TypeOK, Equipped
<1>. QED
  BY <1>1, <1>2, <1>3 DEF Effect

\* The fence.
LEMMA FencedKept ==
  ASSUME Inv, Effect
  PROVE  Fenced'
<1>1. CASE Steady
  BY <1>1 DEF Inv, Fenced, Steady, Server!AppliedNotPending, Server!Pending
<1>2. ASSUME NEW r \in requests, Begins(r) PROVE Fenced'
  <2>1. r.operation.proposal \in Proposals
    BY <1>2 DEF Inv, Begins, Equipped, Complete, Operation
  <2>. QED
    BY <1>2, <2>1 DEF Begins, Fenced, Server!AppliedNotPending
<1>3. ASSUME NEW r \in requests, Settles(r) PROVE Fenced'
  <2>1. r.outcome \in Server!Outcomes
    BY <1>3 DEF Inv, Settles, Equipped, Complete
  <2>2. row'.state # "pending"
    BY <1>3, <2>1 DEF Settles, Server!Outcomes
  <2>. QED
    BY <1>3, <2>2 DEF Inv, Settles, Fenced, Server!AppliedNotPending, Server!Pending
<1>. QED
  BY <1>1, <1>2, <1>3 DEF Effect

\* Who awaits what.
LEMMA AwaitingKept ==
  ASSUME Inv, Effect
  PROVE  Awaiting'
<1>1. CASE Rests
  BY <1>1 DEF Inv, Rests, Awaiting
<1>2. ASSUME NEW p \in Panes, NEW new, Steps(p, new) PROVE Awaiting'
  <2>. SUFFICES ASSUME NEW r \in requests', r.awaited
                PROVE  /\ panes'[r.pane].pc \in Waiting
                       /\ panes'[r.pane].pc = "flush" =>
                            r.kind = "save" /\ r.content = panes'[r.pane].unsent.content
                       /\ \A q \in requests' : q.awaited /\ q.pane = r.pane => q = r
    BY DEF Awaiting
  <2>1. \A q \in requests' : q.awaited =>
          q \in new \/ (q \in requests /\ q.pane # p /\ q.pane \in Panes)
    <3>. SUFFICES ASSUME NEW q \in requests', q.awaited
                  PROVE  q \in new \/ (q \in requests /\ q.pane # p /\ q.pane \in Panes)
      OBVIOUS
    <3>1. q \in new \/ \E s \in requests : q = s /\ q.pane # p
      BY <1>2, InTransit DEF Inv
    <3>. QED
      BY <3>1 DEF Inv, TypeOK, Request
  <2>2. \A n \in new : Asked(p, panes'[p], panes'[p].pc, n) /\ \A m \in new : n = m
    BY <1>2 DEF Steps, Moves
  <2>3. \A q \in Panes \ {p} : panes'[q] = panes[q]
    BY <1>2 DEF Steps, Moves
  <2>4. CASE r \in new
    BY <2>1, <2>2, <2>4 DEF Asked
  <2>5. CASE r \in requests /\ r.pane # p /\ r.pane \in Panes
    <3>1. panes'[r.pane] = panes[r.pane]
      BY <2>3, <2>5
    <3>2. \A q \in requests' : q.awaited /\ q.pane = r.pane => q \in requests
      BY <2>1, <2>2, <2>5 DEF Asked
    <3>. QED
      BY <2>5, <3>1, <3>2 DEF Inv, Awaiting
  <2>. QED
    BY <2>1, <2>4, <2>5
<1>. QED
  BY <1>1, <1>2 DEF Effect

\* The pane p has just drawn the operation o.
Drawn(p, o) ==
    /\ o \in Operation /\ o.id \notin used /\ used' = used \cup {o.id}
    /\ panes'[p].pc = "begin" /\ panes'[p].operation = o

\* An operation that is known after a step was before, or it was just drawn.
LEMMA KnownBefore ==
  ASSUME TypeOK, Equipped, NEW p \in Panes, NEW new, Steps(p, new),
         NEW q \in Panes, NEW o, Known(q, o)'
  PROVE  Known(q, o) \/ (q = p /\ Drawn(p, o))
<1>1. CASE panes'[q].pc \in Performing /\ panes'[q].operation = o /\ q # p
  BY <1>1 DEF Steps, Moves, Known
<1>2. CASE panes'[p].pc \in Performing /\ panes'[p].operation = o /\ q = p
  <2>1. CASE Draws(p, new)
    BY <1>2, <2>1 DEF Draws, Drawn
  <2>2. CASE Reads(p, new) \/ Edits(p, new) \/ Finishes(p, new)
    BY <1>2, <2>2 DEF Reads, Edits, Finishes, Known, Performing, Opening
  <2>. QED
    BY <1>2, <2>1, <2>2 DEF Steps, Leaves
<1>3. ASSUME NEW r \in requests', r.kind \in {"begin", "settle"}, r.pane = q, r.operation = o
      PROVE  Known(q, o) \/ (q = p /\ Drawn(p, o))
  <2>1. CASE r \in new
    <3>1. r.pane = p
      BY <2>1 DEF Steps, Moves, Asked
    <3>2. CASE Draws(p, new)
      BY <1>3, <2>1, <3>1, <3>2 DEF Draws, Drawn
    <3>3. CASE Finishes(p, new)
      BY <1>3, <2>1, <3>1, <3>3 DEF Finishes, Known, Performing, Opening
    <3>. QED
      BY <1>3, <2>1, <3>2, <3>3 DEF Steps, Leaves, Reads, Edits
  <2>2. ASSUME NEW s \in requests, Alike(r, s) PROVE Known(q, o)
    BY <1>3, <2>2 DEF Alike, Known
  <2>. QED
    BY <2>1, <2>2, InTransit
<1>. QED
  BY <1>1, <1>2, <1>3 DEF Known

\* Ids once drawn stay so.
LEMMA UsedGrows ==
  ASSUME Effect
  PROVE  used \subseteq used'
BY DEF Effect, Rests, Steps, Leaves, Draws, Reads, Edits, Finishes

\* The operation of a request to begin or settle is known.
LEMMA Asking ==
  ASSUME Inv, NEW r \in requests, r.kind \in {"begin", "settle"}
  PROVE  r.pane \in Panes /\ r.operation \in Operation /\ Known(r.pane, r.operation)
BY DEF Inv, TypeOK, Equipped, Complete, Request, Known

\* An id stands for one operation.
LEMMA IdentifiedKept ==
  ASSUME Inv, Effect
  PROVE  Identified'
<1>1. row'.op \in used' \cup {None}
  <2>1. CASE row'.op = row.op
    BY <2>1, UsedGrows DEF Inv, Identified
  <2>2. ASSUME NEW r \in requests, Begins(r) PROVE row'.op \in used'
    BY <2>2, Asking, UsedGrows DEF Inv, Begins, Identified
  <2>. QED
    BY <2>1, <2>2 DEF Effect, Steady, Settles
<1>2. CASE Rests
  <2>1. \A p, o : Known(p, o)' => Known(p, o)
    BY <1>2 DEF Rests, Known
  <2>. QED
    BY <1>1, <2>1, UsedGrows DEF Inv, Identified
<1>3. ASSUME NEW p \in Panes, NEW new, Steps(p, new) PROVE Identified'
  <2>1. \A q \in Panes : \A o : Known(q, o)' => Known(q, o) \/ (q = p /\ Drawn(p, o))
    BY <1>3, KnownBefore DEF Inv
  <2>2. ASSUME NEW q \in Panes, NEW o \in Operation, Known(q, o)' PROVE o.id \in used'
    BY <2>1, <2>2, UsedGrows DEF Inv, Identified, Drawn
  <2>3. ASSUME NEW q \in Panes, NEW s \in Panes, NEW o \in Operation, NEW u \in Operation,
               Known(q, o)', Known(s, u)', o.id = u.id
        PROVE  q = s /\ o = u
    <3>1. CASE Known(q, o) /\ Known(s, u)
      BY <2>3, <3>1 DEF Inv, Identified
    <3>2. CASE Drawn(p, o) /\ Drawn(p, u)
      <4>1. o = u
        BY <3>2 DEF Drawn
      <4>2. ~Known(q, o) /\ ~Known(s, u)
        BY <3>2 DEF Inv, Identified, Drawn
      <4>. QED
        BY <2>1, <2>3, <4>1, <4>2
    <3>3. CASE Drawn(p, o) /\ Known(s, u)
      BY <2>3, <3>3 DEF Inv, Identified, Drawn
    <3>4. CASE Known(q, o) /\ Drawn(p, u)
      BY <2>3, <3>4 DEF Inv, Identified, Drawn
    <3>. QED
      BY <2>1, <2>3, <3>1, <3>2, <3>3, <3>4
  <2>. QED
    BY <1>1, <2>2, <2>3 DEF Identified
<1>. QED
  BY <1>2, <1>3 DEF Effect

\* The row says of an operation what its pane asked for: one just drawn is not
\* in the row yet.
LEMMA RecordedKept ==
  ASSUME Inv, Effect
  PROVE  Recorded'
<1>. SUFFICES ASSUME NEW q \in Panes, NEW o \in Operation, Known(q, o)', row'.op = o.id
              PROVE  row'.proposal = o.proposal /\ (Server!Pending' => row'.owner = q)
  BY DEF Recorded
<1>1. row'.op \in used \cup {None}
  <2>1. CASE row'.op = row.op
    BY <2>1 DEF Inv, Identified
  <2>2. ASSUME NEW r \in requests, Begins(r) PROVE row'.op \in used
    BY <2>2, Asking DEF Inv, Begins, Identified
  <2>. QED
    BY <2>1, <2>2 DEF Effect, Steady, Settles
<1>2. o.id # None
  BY NoneAssumption DEF Operation
<1>3. Known(q, o)
  <2>1. CASE Rests
    BY <2>1 DEF Rests, Known
  <2>2. ASSUME NEW p \in Panes, NEW new, Steps(p, new) PROVE Known(q, o)
    <3>1. ~Drawn(p, o)
      BY <1>1, <1>2 DEF Drawn
    <3>. QED
      BY <2>2, <3>1, KnownBefore DEF Inv
  <2>. QED
    BY <2>1, <2>2 DEF Effect
<1>4. CASE Steady
  <2>1. row.proposal = o.proposal /\ (Server!Pending => row.owner = q)
    BY <1>3, <1>4 DEF Inv, Recorded, Steady
  <2>. QED
    BY <1>4, <2>1 DEF Steady, Server!Pending
<1>5. ASSUME NEW r \in requests, Begins(r)
      PROVE  row'.proposal = o.proposal /\ row'.owner = q
  <2>1. r.pane \in Panes /\ r.operation \in Operation /\ Known(r.pane, r.operation)
        /\ r.operation.id = o.id
    BY <1>5, Asking DEF Begins
  <2>2. r.pane = q /\ r.operation = o
    BY <1>3, <2>1 DEF Inv, Identified
  <2>. QED
    BY <1>5, <2>2 DEF Begins
<1>6. ASSUME NEW r \in requests, Settles(r)
      PROVE  row'.proposal = o.proposal /\ ~Server!Pending'
  <2>1. row.proposal = o.proposal
    BY <1>3, <1>6 DEF Inv, Recorded, Settles
  <2>2. r.outcome \in Server!Outcomes
    BY <1>6 DEF Inv, Settles, Equipped, Complete
  <2>. QED
    BY <1>6, <2>1, <2>2 DEF Settles, Server!Pending, Server!Outcomes
<1>. QED
  BY <1>4, <1>5, <1>6 DEF Effect

\* No edit of Word's text is forgotten; a step makes at most one, by a pane at
\* edit, and leaves the server alone then.
LEMMA EditedSteps ==
  ASSUME Inv, NEW p \in Panes, NEW new, Steps(p, new)
  PROVE  /\ \A pr \in Proposals : edited'[pr] >= edited[pr]
         /\ edited' = edited \/ (panes[p].pc = "edit" /\ UNCHANGED server /\ Applies(p))
<1>1. edited' = edited \/ (panes[p].pc = "edit" /\ UNCHANGED server /\ Applies(p))
  BY DEF Steps, Leaves, Draws, Reads, Edits, Finishes
<1>2. edited \in [Proposals -> Nat]
  BY DEF Inv, TypeOK
<1>3. ASSUME Applies(p), NEW pr \in Proposals PROVE edited'[pr] >= edited[pr]
  BY <1>2, <1>3 DEF Applies
<1>. QED
  BY <1>1, <1>2, <1>3

\* A pane at one of the first stages after a step was so before, with the same
\* operation, or has just drawn it.
LEMMA OpeningBefore ==
  ASSUME NEW p \in Panes, NEW new, Steps(p, new), NEW q \in Panes, panes'[q].pc \in Opening
  PROVE  \/ panes[q].pc \in Opening /\ panes'[q].operation = panes[q].operation
         \/ q = p /\ Drawn(p, panes'[p].operation)
<1>1. CASE q # p
  BY <1>1 DEF Steps, Moves
<1>2. CASE q = p
  <2>1. CASE Draws(p, new)
    BY <1>2, <2>1 DEF Draws, Drawn
  <2>2. CASE Reads(p, new) \/ Edits(p, new)
    BY <1>2, <2>2 DEF Reads, Edits, Opening
  <2>. QED
    BY <1>2, <2>1, <2>2 DEF Steps, Leaves, Finishes, Performing, Opening
<1>. QED
  BY <1>1, <1>2

\* The panes at the first stages are known for their operations.
LEMMA OpeningKnown ==
  ASSUME Inv, NEW p \in Panes, panes[p].pc \in Opening
  PROVE  panes[p].operation \in Operation /\ Known(p, panes[p].operation)
BY DEF Inv, Equipped, Able, Known, Performing

\* Only a pane that is done with Word sends a settlement.
LEMMA NewSettlement ==
  ASSUME NEW p \in Panes, NEW new, Steps(p, new), NEW r \in new, r.kind = "settle"
  PROVE  /\ panes[p].pc = "edit" /\ panes'[p].pc = "settle"
         /\ r.operation = panes[p].operation
         /\ IF r.outcome = "confirmed" THEN Applies(p) ELSE edited' = edited
BY DEF Steps, Leaves, Draws, Reads, Edits, Finishes

\* What is settled is done with.
LEMMA SettlementsKept ==
  ASSUME Inv, Effect
  PROVE  Settlements'
<1>1. CASE Rests
  BY <1>1 DEF Inv, Rests, Settlements
<1>2. ASSUME NEW p \in Panes, NEW new, Steps(p, new) PROVE Settlements'
  <2>. SUFFICES ASSUME NEW r \in requests', r.kind = "settle"
                PROVE  /\ \A q \in Panes :
                            panes'[q].pc \in Opening => panes'[q].operation.id # r.operation.id
                       /\ r.outcome = "confirmed" => edited'[r.operation.proposal] > 0
    BY DEF Settlements
  <2>1. r.operation \in Operation
    BY <1>2, InTransit DEF Inv, Complete
  <2>2. r.operation.proposal \in Proposals
    BY <2>1 DEF Operation
  <2>3. ASSUME NEW s \in requests, Alike(r, s)
        PROVE  /\ \A q \in Panes :
                    panes'[q].pc \in Opening => panes'[q].operation.id # r.operation.id
               /\ r.outcome = "confirmed" => edited'[r.operation.proposal] > 0
    <3>1. s.kind = "settle" /\ s.operation = r.operation /\ s.outcome = r.outcome
      BY <2>3 DEF Alike
    <3>2. r.operation.id \in used
      BY <2>1, <3>1, Asking DEF Inv, Identified
    <3>3. ASSUME NEW q \in Panes, panes'[q].pc \in Opening
          PROVE  panes'[q].operation.id # r.operation.id
      <4>1. CASE panes[q].pc \in Opening /\ panes'[q].operation = panes[q].operation
        BY <3>1, <4>1 DEF Inv, Settlements
      <4>2. CASE q = p /\ Drawn(p, panes'[p].operation)
        BY <3>2, <4>2 DEF Drawn
      <4>. QED
        BY <1>2, <3>3, <4>1, <4>2, OpeningBefore
    <3>4. ASSUME r.outcome = "confirmed" PROVE edited'[r.operation.proposal] > 0
      <4>1. edited[r.operation.proposal] > 0
        BY <3>1, <3>4 DEF Inv, Settlements
      <4>2. edited'[r.operation.proposal] >= edited[r.operation.proposal]
        BY <1>2, <2>2, EditedSteps
      <4>3. edited[r.operation.proposal] \in Nat /\ edited'[r.operation.proposal] \in Nat
        <5>1. edited \in [Proposals -> Nat]
          BY DEF Inv, TypeOK
        <5>2. edited' = edited \/ Applies(p)
          BY <1>2, EditedSteps
        <5>. QED
          BY <2>2, <5>1, <5>2 DEF Applies
      <4>. QED
        BY <4>1, <4>2, <4>3
    <3>. QED
      BY <3>3, <3>4
  <2>4. CASE r \in new
    <3>1. panes[p].pc = "edit" /\ panes'[p].pc = "settle" /\ r.operation = panes[p].operation
          /\ (r.outcome = "confirmed" => Applies(p))
      BY <1>2, <2>4, NewSettlement
    <3>2. panes[p].pc \in Opening /\ panes'[p].pc \notin Opening
      BY <3>1 DEF Opening
    <3>3. Known(p, r.operation)
      BY <3>1, <3>2, OpeningKnown
    <3>4. ASSUME NEW q \in Panes, panes'[q].pc \in Opening
          PROVE  panes'[q].operation.id # r.operation.id
      <4>1. q # p
        BY <3>2, <3>4
      <4>2. panes'[q] = panes[q]
        BY <1>2, <4>1 DEF Steps, Moves
      <4>3. panes[q].operation \in Operation /\ Known(q, panes[q].operation)
        BY <3>4, <4>2, OpeningKnown
      <4>. QED
        BY <2>1, <3>3, <4>1, <4>2, <4>3 DEF Inv, Identified
    <3>5. r.outcome = "confirmed" => edited'[r.operation.proposal] > 0
      <4>1. edited \in [Proposals -> Nat]
        BY DEF Inv, TypeOK
      <4>. QED
        BY <2>2, <3>1, <4>1 DEF Applies
    <3>. QED
      BY <3>4, <3>5
  <2>. QED
    BY <1>2, <2>3, <2>4, InTransit DEF Inv
<1>. QED
  BY <1>1, <1>2 DEF Effect

\* While a pane is at edit its fence stays up, and its copy current.
LEMMA EditsFencedKept ==
  ASSUME Inv, Effect
  PROVE  EditsFenced'
<1>. SUFFICES ASSUME NEW q \in Panes, panes'[q].pc = "edit" PROVE FenceOf(q)'
  BY DEF EditsFenced, FenceOf
<1>1. CASE panes'[q] = panes[q]
  <2>1. panes[q].pc = "edit" /\ panes[q].pc \in Opening
    BY <1>1 DEF Opening
  <2>2. FenceOf(q)
    BY <2>1 DEF Inv, EditsFenced, FenceOf
  <2>3. CASE Steady
    BY <1>1, <2>2, <2>3 DEF Steady, FenceOf, Server!Pending, Server!Current
  <2>4. ASSUME NEW r \in requests, Settles(r) PROVE FALSE
    BY <2>1, <2>2, <2>4 DEF Inv, Settlements, Settles, FenceOf
  <2>. QED
    BY <2>2, <2>3, <2>4 DEF Effect, Begins, FenceOf
<1>2. ASSUME NEW p \in Panes, NEW new, Steps(p, new), q = p PROVE FenceOf(q)'
  BY <1>2 DEF Steps, Leaves, Draws, Reads, Edits, Finishes, Performing, Opening
<1>. QED
  BY <1>1, <1>2 DEF Effect, Rests, Steps, Moves

\* A pane at edit has found its fence, and its proposal's text unchanged so far.
LEMMA AtEdit ==
  ASSUME Inv, NEW p \in Panes, panes[p].pc = "edit"
  PROVE  LET o == panes[p].operation IN
         /\ o \in Operation /\ Known(p, o)
         /\ Server!Pending /\ row.op = o.id /\ row.proposal = o.proposal
         /\ o.proposal \notin applied
         /\ \A pr \in Proposals : edited[pr] > 0 => pr \in applied
<1>. DEFINE o == panes[p].operation
<1>1. panes[p].pc \in Opening
  BY DEF Opening
<1>2. o \in Operation /\ Known(p, o)
  BY <1>1, OpeningKnown
<1>3. Server!Pending /\ row.op = o.id
  BY DEF Inv, EditsFenced
<1>4. row.proposal = o.proposal
  BY <1>2, <1>3 DEF Inv, Recorded
<1>5. o.proposal \notin applied
  BY <1>3, <1>4 DEF Inv, Fenced, Server!AppliedNotPending
<1>6. \A pr \in Proposals : edited[pr] > 0 => pr \in applied
  BY <1>1, <1>3 DEF Inv, Unrecorded
<1>. QED
  BY <1>2, <1>3, <1>4, <1>5, <1>6

\* The fence of an edit not recorded stays up, whatever the server is asked.
LEMMA StillUp ==
  ASSUME Inv, Effect, NEW pr \in Proposals, edited[pr] > 0, pr \notin applied'
  PROVE  Server!Pending' /\ row'.proposal = pr /\ row'.op = row.op
<1>1. applied \subseteq applied'
  BY DEF Effect, Steady, Begins, Settles
<1>2. /\ Server!Pending /\ row.proposal = pr
      /\ \A r \in requests : r.kind = "settle" /\ r.operation.id = row.op => r.outcome = "confirmed"
  BY <1>1 DEF Inv, Unrecorded
<1>3. CASE Steady
  BY <1>2, <1>3 DEF Steady, Server!Pending
<1>4. ASSUME NEW r \in requests, Settles(r) PROVE FALSE
  BY <1>2, <1>4 DEF Settles
<1>. QED
  BY <1>2, <1>3, <1>4 DEF Effect, Begins

\* An edit not recorded as applied is behind its fence.
LEMMA UnrecordedKept ==
  ASSUME Inv, Effect
  PROVE  Unrecorded'
<1>. SUFFICES ASSUME NEW pr \in Proposals, edited'[pr] > 0, pr \notin applied'
              PROVE  /\ Server!Pending' /\ row'.proposal = pr
                     /\ \A q \in Panes :
                          panes'[q].pc \in Opening => panes'[q].operation.id # row'.op
                     /\ \A r \in requests' :
                          r.kind = "settle" /\ r.operation.id = row'.op => r.outcome = "confirmed"
  BY DEF Unrecorded
<1>0. applied \subseteq applied' /\ edited \in [Proposals -> Nat]
  BY DEF Effect, Steady, Begins, Settles, Inv, TypeOK
<1>1. CASE Rests
  <2>1. edited[pr] > 0
    BY <1>1 DEF Rests
  <2>2. Server!Pending' /\ row'.proposal = pr /\ row'.op = row.op
    BY <2>1, StillUp
  <2>3. /\ \A q \in Panes : panes[q].pc \in Opening => panes[q].operation.id # row.op
        /\ \A r \in requests :
             r.kind = "settle" /\ r.operation.id = row.op => r.outcome = "confirmed"
    BY <1>0, <2>1 DEF Inv, Unrecorded
  <2>. QED
    BY <1>1, <2>2, <2>3 DEF Rests
<1>2. ASSUME NEW p \in Panes, NEW new, Steps(p, new), edited[pr] > 0
      PROVE  /\ Server!Pending' /\ row'.proposal = pr
             /\ \A q \in Panes : panes'[q].pc \in Opening => panes'[q].operation.id # row'.op
             /\ \A r \in requests' :
                  r.kind = "settle" /\ r.operation.id = row'.op => r.outcome = "confirmed"
  <2>1. Server!Pending' /\ row'.proposal = pr /\ row'.op = row.op
    BY <1>2, StillUp
  <2>2. /\ \A q \in Panes : panes[q].pc \in Opening => panes[q].operation.id # row.op
        /\ \A r \in requests :
             r.kind = "settle" /\ r.operation.id = row.op => r.outcome = "confirmed"
    BY <1>0, <1>2 DEF Inv, Unrecorded
  <2>3. ASSUME NEW q \in Panes, panes'[q].pc \in Opening
        PROVE  panes'[q].operation.id # row.op
    <3>1. CASE panes[q].pc \in Opening /\ panes'[q].operation = panes[q].operation
      BY <2>2, <3>1
    <3>2. CASE q = p /\ Drawn(p, panes'[p].operation)
      <4>1. panes'[p].operation.id \notin used /\ panes'[p].operation.id # None
        BY <3>2, NoneAssumption DEF Drawn, Operation
      <4>2. row.op \in used \cup {None}
        BY DEF Inv, Identified
      <4>. QED
        BY <3>2, <4>1, <4>2
    <3>. QED
      BY <1>2, <2>3, <3>1, <3>2, OpeningBefore
  <2>4. ASSUME NEW r \in requests', r.kind = "settle", r.operation.id = row.op
        PROVE  r.outcome = "confirmed"
    <3>1. CASE r \in new
      <4>1. panes[p].pc = "edit"
        BY <1>2, <2>4, <3>1, NewSettlement
      <4>. QED
        BY <1>0, <1>2, <4>1, AtEdit
    <3>2. ASSUME NEW s \in requests, Alike(r, s) PROVE r.outcome = "confirmed"
      BY <2>2, <2>4, <3>2 DEF Alike
    <3>. QED
      BY <1>2, <3>1, <3>2, InTransit DEF Inv
  <2>. QED
    BY <2>1, <2>3, <2>4
<1>3. ASSUME NEW p \in Panes, NEW new, Steps(p, new), ~(edited[pr] > 0)
      PROVE  /\ Server!Pending' /\ row'.proposal = pr
             /\ \A q \in Panes : panes'[q].pc \in Opening => panes'[q].operation.id # row'.op
             /\ \A r \in requests' :
                  r.kind = "settle" /\ r.operation.id = row'.op => r.outcome = "confirmed"
  <2>. DEFINE o == panes[p].operation
  <2>1. edited' # edited
    BY <1>3
  <2>2. panes[p].pc = "edit" /\ UNCHANGED server /\ Applies(p)
    BY <1>3, <2>1, EditedSteps
  <2>3. /\ o \in Operation /\ Known(p, o)
        /\ Server!Pending /\ row.op = o.id /\ row.proposal = o.proposal
    BY <2>2, AtEdit
  <2>4. pr = o.proposal
    BY <1>0, <1>3, <2>2 DEF Applies
  <2>. HIDE DEF o
  <2>5. row' = row
    BY <2>2 DEF server
  <2>6. ASSUME NEW q \in Panes, panes'[q].pc \in Opening
        PROVE  panes'[q].operation.id # o.id
    <3>1. q # p
      BY <1>3, <2>1, <2>2, <2>6 DEF Steps, Leaves, Draws, Reads, Edits, Finishes, Performing, Opening
    <3>2. panes'[q] = panes[q]
      BY <1>3, <3>1 DEF Steps, Moves
    <3>3. panes[q].operation \in Operation /\ Known(q, panes[q].operation)
      BY <2>6, <3>2, OpeningKnown
    <3>. QED
      BY <2>3, <3>1, <3>2, <3>3 DEF Inv, Identified
  <2>7. ASSUME NEW r \in requests', r.kind = "settle", r.operation.id = o.id
        PROVE  r.outcome = "confirmed"
    <3>1. CASE r \in new
      BY <1>3, <2>1, <2>7, <3>1, NewSettlement
    <3>2. ASSUME NEW s \in requests, Alike(r, s) PROVE FALSE
      BY <2>2, <2>7, <3>2 DEF Alike, Inv, Settlements, Opening, o
    <3>. QED
      BY <1>3, <3>1, <3>2, InTransit DEF Inv
  <2>. QED
    BY <2>3, <2>4, <2>5, <2>6, <2>7 DEF Server!Pending
<1>. QED
  BY <1>1, <1>2, <1>3 DEF Effect

\* No proposal is applied to Word's text twice.
LEMMA AppliedOnceKept ==
  ASSUME Inv, Effect
  PROVE  AppliedOnce'
<1>0. edited \in [Proposals -> Nat]
  BY DEF Inv, TypeOK
<1>1. CASE edited' = edited
  <2>1. ASSUME NEW pr \in applied', pr \notin applied, pr \in Proposals PROVE edited[pr] = 1
    <3>1. PICK r \in requests : Settles(r)
      BY <2>1 DEF Effect, Steady, Begins
    <3>2. r.kind = "settle" /\ r.outcome = "confirmed" /\ pr = row.proposal
      BY <2>1, <3>1 DEF Settles
    <3>3. pr = r.operation.proposal
      BY <3>1, <3>2, Asking DEF Inv, Recorded, Settles
    <3>4. edited[pr] > 0 /\ edited[pr] <= 1
      BY <2>1, <3>2, <3>3 DEF Inv, Settlements, AppliedOnce
    <3>. QED
      BY <1>0, <2>1, <3>4
  <2>. QED
    BY <1>1, <2>1 DEF Inv, AppliedOnce
<1>2. ASSUME NEW p \in Panes, panes[p].pc = "edit", UNCHANGED server, Applies(p)
      PROVE  AppliedOnce'
  <2>. DEFINE o == panes[p].operation
  <2>1. o \in Operation /\ o.proposal \notin applied
        /\ \A pr \in Proposals : edited[pr] > 0 => pr \in applied
    BY <1>2, AtEdit
  <2>. HIDE DEF o
  <2>2. o.proposal \in Proposals
    BY <2>1 DEF Operation
  <2>3. edited[o.proposal] = 0
    BY <1>0, <2>1, <2>2
  <2>4. edited' = [edited EXCEPT ![o.proposal] = 1]
    BY <1>2, <2>3 DEF Applies, o
  <2>5. applied' = applied
    BY <1>2 DEF server
  <2>. QED
    BY <1>0, <2>1, <2>2, <2>4, <2>5 DEF Inv, AppliedOnce
<1>3. edited' = edited \/ \E p \in Panes : panes[p].pc = "edit" /\ UNCHANGED server /\ Applies(p)
  BY EditedSteps DEF Effect, Rests
<1>. QED
  BY <1>1, <1>2, <1>3

\* What was shown as saved is still so.
LEMMA SavedIsSavedKept ==
  ASSUME Inv, Effect
  PROVE  SavedIsSaved'
<1>. SUFFICES ASSUME NEW q \in Panes, panes'[q].ack # None
              PROVE  /\ panes'[q].ack.version \in DOMAIN versions'
                     /\ versions'[panes'[q].ack.version].content = panes'[q].ack.content
  BY DEF SavedIsSaved
<1>1. CASE panes'[q].ack = panes[q].ack
  BY <1>1 DEF Inv, SavedIsSaved, Effect, Appends
<1>2. CASE panes'[q].ack # panes[q].ack
  <2>1. PICK p \in Panes : \E new : Steps(p, new)
    BY <1>2 DEF Effect, Rests
  <2>2. p = q /\ AckKept(p, panes'[p])
    BY <1>2, <2>1 DEF Steps, Moves
  <2>. QED
    BY <1>2, <2>2 DEF AckKept
<1>. QED
  BY <1>1, <1>2

-----------------------------------------------------------------------------
(* The theorems.                                                           *)

\* No pane has been opened in the first state.
LEMMA InitInv == Init => Inv
<1>. SUFFICES ASSUME Init PROVE Inv
  OBVIOUS
<1>1. PICK c \in Contents : versions = <<[content |-> c, gen |-> 0]>>
  BY DEF Init, Server!Init
<1>2. versions \in Seq(Server!Version) /\ versions # <<>>
  BY <1>1 DEF Server!Version
<1>3. row \in Server!Row /\ row.op = None /\ row.state = "idle" /\ granted = {} /\ applied = {}
  BY DEF Init, Server!Init, Server!Row, Server!NativeStates
<1>4. /\ requests = {} /\ used = {}
      /\ edited \in [Proposals -> Nat] /\ \A pr \in Proposals : edited[pr] = 0
      /\ budget \in [commands : Nat, timeouts : Nat, others : Nat]
  BY DEF Init
<1>5. NewPane \in Pane /\ NewPane.pc = "unopened" /\ NewPane.ack = None
  BY DEF NewPane, Pane
<1>6. /\ panes \in [Panes -> Pane]
      /\ \A p \in Panes : panes[p].pc = "unopened" /\ panes[p].ack = None
  BY <1>5 DEF Init
<1>7. "unopened" \notin Performing /\ "unopened" # "edit" /\ "unopened" # "flush" /\ "unopened" \notin Opening
  BY DEF Performing, Opening
<1>8. TypeOK /\ Server!TypeOK
  BY <1>2, <1>3, <1>4, <1>6 DEF TypeOK, Server!TypeOK
<1>9. Equipped /\ Awaiting /\ Settlements
  BY <1>4, <1>6, <1>7 DEF Equipped, Able, Awaiting, Settlements
<1>10. Fenced
  BY <1>3 DEF Fenced, Server!AppliedNotPending, Server!Pending
<1>11. \A p \in Panes, o \in Operation : ~Known(p, o)
  BY <1>4, <1>6, <1>7 DEF Known
<1>12. Identified /\ Recorded
  BY <1>3, <1>11 DEF Identified, Recorded
<1>13. EditsFenced /\ Unrecorded /\ AppliedOnce /\ SavedIsSaved
  BY <1>3, <1>4, <1>6, <1>7 DEF EditsFenced, Unrecorded, AppliedOnce, SavedIsSaved
<1>. QED
  BY <1>8, <1>9, <1>10, <1>12, <1>13 DEF Inv

\* The invariant is inductive.
LEMMA InvKept == Inv /\ [Next]_vars => Inv'
<1>. SUFFICES ASSUME Inv, [Next]_vars PROVE Inv'
  OBVIOUS
<1>1. Effect
  BY AnyStep DEF Inv
<1>2. TypeOK' /\ Server!TypeOK' /\ Equipped'
  BY <1>1, BudgetTyped, TypesKept DEF Inv
<1>3. Fenced' /\ Awaiting' /\ Identified' /\ Recorded'
  BY <1>1, FencedKept, AwaitingKept, IdentifiedKept, RecordedKept
<1>4. Settlements' /\ EditsFenced' /\ Unrecorded'
  BY <1>1, SettlementsKept, EditsFencedKept, UnrecordedKept
<1>5. AppliedOnce' /\ SavedIsSaved'
  BY <1>1, AppliedOnceKept, SavedIsSavedKept
<1>. QED
  BY <1>2, <1>3, <1>4, <1>5 DEF Inv

\* The invariant holds in every behaviour.
LEMMA Invariance == Spec => []Inv
  BY InitInv, InvKept, PTL DEF Spec

\* Every variable of the server, the panes and the network keeps its type.
THEOREM TypeCorrect == Spec => []TypeOK
<1>1. Inv => TypeOK
  BY DEF Inv
<1>. QED
  BY <1>1, Invariance, PTL

\* While a pane changes Word's text the server's fence is up for its operation
\* and no version is saved over its copy, whatever is lost, late or expired.
THEOREM EditsFencedHolds == Spec => []EditsFenced
<1>1. Inv => EditsFenced
  BY DEF Inv
<1>. QED
  BY <1>1, Invariance, PTL

\* However many panes ask to apply a reviewed proposal, and whichever of their
\* begins and settlements are lost, late or given up, Word's text is changed by
\* it at most once, and a proposal is recorded as applied only if it was.
THEOREM AppliedOnceHolds == Spec => []AppliedOnce
<1>1. Inv => AppliedOnce
  BY DEF Inv
<1>. QED
  BY <1>1, Invariance, PTL

\* What a pane shows as saved is the version of doc.haus it names, as exported,
\* also where the save's answer was lost and the save was sent again.
THEOREM SavedIsSavedHolds == Spec => []SavedIsSaved
<1>1. Inv => SavedIsSaved
  BY DEF Inv
<1>. QED
  BY <1>1, Invariance, PTL

-----------------------------------------------------------------------------
(* The panes and the server implement WordLease: what holds there of any    *)
(* requests at all holds of these.                                          *)

\* A request that is admitted is one of those WordLease allows for.
LEMMA RequestAsks ==
  ASSUME TypeOK, Server!TypeOK, Equipped, NEW r \in requests, Served(r)
  PROVE  UNCHANGED server \/ Server!Ask(r.pane)
<1>. DEFINE p == r.pane
            o == r.operation
<1>0. r \in Request
  BY DEF TypeOK
<1>1. p \in Panes /\ r.base \in Nat /\ r.gen \in Nat /\ r.shown \in Nat
  BY <1>0 DEF Request
<1>2. /\ row.gen \in Nat /\ row.seq \in Nat
      /\ Server!Current \in Nat /\ Server!Current \in 1 .. Server!Current
      /\ DOMAIN versions = 1 .. Server!Current
  BY DEF Server!TypeOK, Server!Row, Server!Current
<1>3. row.gen \in 0 .. row.gen /\ row.seq \in 0 .. row.seq /\ 0 \in 0 .. row.gen
  BY <1>2
<1>4. CASE r.kind \in {"inspect", "read"}
  BY <1>4 DEF Served
<1>5. CASE r.kind = "claim"
  <2>1. Server!Claim(p, Server!Current)
    BY <1>5 DEF Served, Server!Claim, Server!MayClaim
  <2>. QED
    BY <1>2, <1>3, <2>1 DEF Server!Ask
<1>6. CASE r.kind = "takeover"
  <2>1. r.shown \in 0 .. row.gen /\ Server!TakeOver(p, Server!Current, Server!Current, r.shown)
    BY <1>1, <1>2, <1>6 DEF Served, Server!TakeOver, Server!MayTakeOver, Server!Shown
  <2>. QED
    BY <1>2, <2>1 DEF Server!Ask
<1>7. CASE r.kind = "release" \/ r.kind = "renew"
  <2>1. r.gen = row.gen /\ (Server!Release(p, r.gen) \/ Server!Renew(p, r.gen))
    BY <1>7 DEF Served, Server!Release, Server!MayRelease, Server!Renew, Server!MayRenew,
                Server!Holds, Server!Owns
  <2>. QED
    BY <1>2, <1>3, <2>1 DEF Server!Ask
<1>8. CASE r.kind = "save"
  <2>1. r.base \in 1 .. Server!Current /\ r.gen = row.gen /\ Server!Save(p, r.base, r.gen, r.content)
    BY <1>2, <1>8 DEF Served, Server!Save, Server!MaySave, Server!Owns
  <2>2. r.content \in Contents
    BY <1>8 DEF Equipped, Complete
  <2>. QED
    BY <1>3, <2>1, <2>2 DEF Server!Ask
<1>9. CASE r.kind = "begin"
  <2>1. Server!Begin(p, r.base, r.gen, o.seq, o.id, o.proposal)
    BY <1>9 DEF Served
  <2>2. o.id \in Operations /\ o.proposal \in Proposals /\ o.seq \in Nat
    BY <1>9 DEF Equipped, Complete, Operation
  <2>3. r.base = Server!Current /\ r.gen = row.gen /\ (row.seq = o.seq \/ row.seq = o.seq + 1)
    BY <2>1 DEF Server!Begin, Server!MayBegin, Server!Owns, Server!Begun
  <2>4. o.seq \in 0 .. row.seq
    BY <1>2, <2>2, <2>3
  <2>. HIDE DEF o
  <2>. QED
    BY <1>2, <1>3, <2>1, <2>2, <2>3, <2>4 DEF Server!Ask
<1>10. CASE r.kind = "settle"
  <2>1. Server!Settle(p, r.gen, o.seq + 1, o.id, r.outcome)
    BY <1>10 DEF Served
  <2>2. o.id \in Operations /\ r.outcome \in Server!Outcomes
    BY <1>10 DEF Equipped, Complete, Operation
  <2>3. r.gen = row.gen /\ row.seq = o.seq + 1
    BY <2>1 DEF Server!Settle, Server!MaySettle, Server!Settles, Server!Holds
  <2>. HIDE DEF o
  <2>4. Server!Settle(p, row.gen, row.seq, o.id, r.outcome)
    BY <2>1, <2>3
  <2>. QED
    BY <1>2, <1>3, <2>2, <2>4 DEF Server!Ask
<1>. QED
  BY <1>4, <1>5, <1>6, <1>7, <1>8, <1>9, <1>10 DEF Served

\* Every step of the panes, of time and of the others is one of WordLease, or
\* leaves the server alone.
LEMMA StepsServer ==
  ASSUME Inv, [Next]_vars
  PROVE  [Server!Step]_server
<1>1. ASSUME NEW r \in requests, Handle(r) PROVE [Server!Step]_server
  <2>1. Served(r) \/ UNCHANGED server
    BY <1>1 DEF Handle
  <2>2. UNCHANGED server \/ Server!Ask(r.pane)
    BY <2>1, RequestAsks DEF Inv
  <2>3. r.pane \in Panes
    BY DEF Inv, TypeOK, Request
  <2>. QED
    BY <2>2, <2>3 DEF Server!Step
<1>2. ASSUME NEW p \in Panes, Open(p) PROVE [Server!Step]_server
  BY <1>2 DEF Open, Server!Step
<1>3. ASSUME NEW p \in Panes,
             \/ \E goal \in Goals : Inspect(p, goal)
             \/ Flush(p) \/ TakeOver(p) \/ Release(p) \/ Heartbeat(p)
             \/ Perform(p) \/ Timeout(p) \/ Close(p)
      PROVE  UNCHANGED server
  BY <1>3 DEF Inspect, Flush, TakeOver, Release, Heartbeat, Command, Perform, EditApplied,
              EditUnchanged, EditUncertain, Timeout, Close
<1>4. CASE Expire \/ Others
  BY <1>4 DEF Expire, Others, Server!Step
<1>5. CASE UNCHANGED vars
  BY <1>5 DEF vars
<1>. QED
  BY <1>1, <1>2, <1>3, <1>4, <1>5 DEF Next

\* The server of WordEditing behaves as WordLease says it may.
THEOREM ImplementsLease == Spec => Server!Free
<1>1. Init => Server!Init
  BY DEF Init
<1>2. Inv /\ [Next]_vars => [Server!Step]_server
  BY StepsServer
<1>. QED
  BY <1>1, <1>2, Invariance, PTL DEF Spec, Server!Free, server, Server!server

=============================================================================
