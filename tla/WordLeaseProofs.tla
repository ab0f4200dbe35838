--------------------------- MODULE WordLeaseProofs ---------------------------
(***************************************************************************)
(* Theorems of WordLease, for any panes, contents, proposals and operation *)
(* ids, and whatever the panes ask, in whatever order and however often:   *)
(* they are about Free, and by SpecIsFree they hold of Spec.               *)
(***************************************************************************)
EXTENDS WordLease, TLAPS

\* Who has the document: an unexpired lease is of a grant not revoked, a
\* generation has an owner, an operation a proposal, and a fence is its
\* generation's.
Owned ==
    /\ row.live => row.owner \in granted /\ ~row.retired
    /\ row.gen = 0 <=> row.owner = None
    /\ row.op = None <=> row.proposal = None
    /\ FenceOwned

\* What was saved: by generations claimed so far, and while the current one can
\* save again, nobody wrote after it.
Unbroken ==
    /\ \A i \in 1 .. Len(versions) : versions[i].gen <= row.gen
    /\ row.live \/ Pending =>
         \A i, j \in 1 .. Len(versions) :
             i < j /\ versions[i].gen = row.gen => versions[j].gen = row.gen

\* GenerationsContiguous, with each triple of versions in order.
Contiguous ==
    \A i, j, k \in 1 .. Len(versions) :
        i < j /\ j < k /\ versions[i].gen = versions[k].gen /\ versions[i].gen > 0 =>
            versions[j].gen = versions[i].gen

\* In the first state the row is empty and there is one version.
LEMMA InitHolds == Init => TypeOK /\ Owned /\ Unbroken /\ Contiguous
<1>. SUFFICES ASSUME Init PROVE TypeOK /\ Owned /\ Unbroken /\ Contiguous
  OBVIOUS
<1>1. PICK c \in Contents : versions = <<[content |-> c, gen |-> 0]>>
  BY DEF Init
<1>2. versions \in Seq(Version) /\ Len(versions) = 1 /\ versions # <<>>
      /\ versions[1].gen = 0
  BY <1>1 DEF Version
<1>3. TypeOK
  BY <1>2 DEF Init, TypeOK, Row, NativeStates
<1>4. Owned
  BY DEF Init, Owned, FenceOwned, Pending
<1>5. Unbroken /\ Contiguous
  BY <1>2 DEF Init, Unbroken, Contiguous, Pending
<1>. QED
  BY <1>3, <1>4, <1>5

\* Of three positions in order, only the last can be the one just added.
LEMMA OnlyTheLast ==
  \A m \in Nat : \A i, j, k \in 1 .. m + 1 :
    i < j /\ j < k => i \in 1 .. m /\ j \in 1 .. m /\ (k \in 1 .. m \/ k = m + 1)
  OBVIOUS

\* A version appended by the live generation, or where none is live or pending,
\* leaves the versions as they must be.
LEMMA Appended ==
  ASSUME TypeOK, Unbroken, Contiguous,
         NEW v \in Version, versions' = Append(versions, v),
         row'.gen = row.gen, v.gen <= row.gen,
         \/ row.live /\ v.gen = row.gen
         \/ v.gen = 0 /\ ~(row'.live \/ Pending')
  PROVE  versions' \in Seq(Version) /\ versions' # <<>> /\ Unbroken' /\ Contiguous'
<1>. DEFINE n == Len(versions)
<1>1. versions \in Seq(Version) /\ n \in Nat /\ row.gen \in Nat
  BY DEF TypeOK, Row
<1>2. \A i \in 1 .. n : versions[i] \in Version /\ versions[i].gen \in Nat
  <2>1. \A i \in 1 .. n : versions[i] \in Version
    BY <1>1
  <2>. QED
    BY <2>1 DEF Version
<1>3. /\ versions' \in Seq(Version)
      /\ versions' # <<>>
      /\ Len(versions') = n + 1
      /\ versions'[n + 1] = v
      /\ \A i \in 1 .. n : versions'[i] = versions[i]
  BY <1>1
<1>4. v.gen \in Nat
  BY DEF Version
<1>5. Unbroken'
  <2>1. \A i \in 1 .. n + 1 : versions'[i].gen <= row'.gen
    BY <1>1, <1>3 DEF Unbroken
  <2>2. ASSUME row'.live \/ Pending', NEW i \in 1 .. n + 1, NEW j \in 1 .. n + 1,
               i < j, versions'[i].gen = row'.gen
        PROVE  versions'[j].gen = row'.gen
    BY <2>2, <1>1, <1>3 DEF Unbroken
  <2>. QED
    BY <2>1, <2>2, <1>3 DEF Unbroken
<1>6. Contiguous'
  <2>1. 1 .. Len(versions') = 1 .. n + 1
    BY <1>3
  <2>2. SUFFICES ASSUME NEW i \in 1 .. Len(versions'), NEW j \in 1 .. Len(versions'),
                       NEW k \in 1 .. Len(versions'), i < j, j < k,
                       versions'[i].gen = versions'[k].gen, versions'[i].gen > 0
                PROVE  versions'[j].gen = versions'[i].gen
    BY ZenonT(60) DEF Contiguous
  <2>. HIDE DEF n
  <2>3. i \in 1 .. n + 1 /\ j \in 1 .. n + 1 /\ k \in 1 .. n + 1
    BY <2>1, Zenon
  <2>4. i \in 1 .. n /\ j \in 1 .. n /\ (k \in 1 .. n \/ k = n + 1)
    BY <2>2, <2>3, <1>1, OnlyTheLast, Zenon
  <2>. USE DEF n
  <2>5. CASE k \in 1 .. n
    BY <2>2, <2>4, <2>5, <1>3 DEF Contiguous
  <2>6. CASE k = n + 1
    BY <2>2, <2>4, <2>6, <1>1, <1>2, <1>3, <1>4 DEF Unbroken
  <2>. QED
    BY <2>4, <2>5, <2>6
<1>. QED
  BY <1>3, <1>5, <1>6

\* A step that writes nothing leaves the versions as they must be, if it makes
\* no generation live again that had ceased to be.
LEMMA Unwritten ==
  ASSUME TypeOK, Unbroken, Contiguous, UNCHANGED versions, row'.gen \in Nat,
         \/ row'.gen = row.gen /\ (row'.live \/ Pending' => row.live \/ Pending)
         \/ row'.gen = row.gen + 1
  PROVE  Unbroken' /\ Contiguous'
<1>1. versions \in Seq(Version) /\ row.gen \in Nat
  BY DEF TypeOK, Row
<1>2. \A i \in 1 .. Len(versions) : versions[i] \in Version
  BY <1>1
<1>3. \A i \in 1 .. Len(versions) : versions[i].gen \in Nat
  BY <1>2 DEF Version
<1>4. Contiguous'
  BY DEF Contiguous
<1>5. Unbroken'
  <2>1. CASE row'.gen = row.gen /\ (row'.live \/ Pending' => row.live \/ Pending)
    BY <2>1 DEF Unbroken
  <2>2. CASE row'.gen = row.gen + 1
    BY <2>2, <1>1, <1>3 DEF Unbroken
  <2>. QED
    BY <2>1, <2>2
<1>. QED
  BY <1>4, <1>5

-----------------------------------------------------------------------------

Inv == TypeOK /\ Owned /\ Unbroken /\ Contiguous

\* A claim or a takeover: by a pane whose grant stands, with no edit pending.
LEMMA ClaimHolds ==
  ASSUME Inv, NEW p \in Panes, p \in granted, ~Pending, NEW same \in BOOLEAN,
         same => Live, row' = Claimed(row, p, same), UNCHANGED <<granted, applied, versions>>
  PROVE  Inv'
<1>1. row'.gen \in Nat /\ row'.gen > 0
  BY NoneAssumption DEF Inv, TypeOK, Row, Claimed, Owned, Live
<1>2. TypeOK'
  <2>1. row' \in Row
    BY <1>1 DEF Inv, TypeOK, Row, Claimed
  <2>. QED
    BY <2>1 DEF Inv, TypeOK
<1>3. Owned'
  BY <1>1, NoneAssumption DEF Inv, TypeOK, Row, Claimed, Owned, FenceOwned, Pending
<1>4. Unbroken' /\ Contiguous'
  BY <1>1, Unwritten DEF Inv, Claimed, TypeOK, Row, Live, Pending
<1>. QED
  BY <1>2, <1>3, <1>4 DEF Inv

\* A request about the lease.
LEMMA LeaseHolds ==
  ASSUME Inv, NEW p \in Panes, NEW base, NEW current, NEW g \in Nat,
         Claim(p, base) \/ TakeOver(p, base, current, g) \/ Release(p, g) \/ Renew(p, g)
  PROVE  Inv'
<1>1. CASE Claim(p, base)
  <2>1. Live \in BOOLEAN
    BY DEF Live, Inv, TypeOK, Row
  <2>. QED
    BY <1>1, <2>1, ClaimHolds DEF Claim, MayClaim
<1>2. CASE TakeOver(p, base, current, g)
  BY <1>2, ClaimHolds DEF TakeOver, MayTakeOver
<1>3. CASE Release(p, g)
  <2>1. TypeOK' /\ row'.gen = row.gen
    BY <1>3 DEF Release, Inv, TypeOK, Row
  <2>2. Owned'
    BY <1>3 DEF Release, Inv, TypeOK, Row, Owned, FenceOwned, Pending
  <2>3. Unbroken' /\ Contiguous'
    BY <1>3, <2>1, Unwritten DEF Release, Inv, TypeOK, Row, Pending
  <2>. QED
    BY <2>1, <2>2, <2>3 DEF Inv
<1>4. CASE Renew(p, g)
  <2>1. TypeOK' /\ row'.gen = row.gen
    BY <1>4 DEF Renew, Inv, TypeOK, Row
  <2>2. Owned'
    BY <1>4 DEF Renew, MayRenew, Holds, Owns, Live, Inv, TypeOK, Row, Owned, FenceOwned, Pending
  <2>3. row.live \/ Pending
    BY <1>4 DEF Renew, MayRenew, Owns, Live
  <2>4. Unbroken' /\ Contiguous'
    BY <1>4, <2>1, <2>3, Unwritten DEF Renew, Inv, TypeOK, Row
  <2>. QED
    BY <2>1, <2>2, <2>4 DEF Inv
<1>. QED
  BY <1>1, <1>2, <1>3, <1>4

\* An edit begins, under a live lease.
LEMMA BeginHolds ==
  ASSUME Inv, NEW p \in Panes, NEW base, NEW g \in Nat, NEW seq, NEW o \in Operations,
         NEW pr \in Proposals, Begin(p, base, g, seq, o, pr)
  PROVE  Inv'
<1>1. TypeOK' /\ row'.gen = row.gen /\ row'.live = row.live
  <2>1. CASE Begun(g, seq, o, pr)
    BY <2>1 DEF Begin, Inv, TypeOK
  <2>2. CASE ~Begun(g, seq, o, pr)
    <3>1. row' \in Row
      <4>1. row.seq + 1 \in Nat /\ "pending" \in NativeStates
        BY DEF Inv, TypeOK, Row, NativeStates
      <4>2. row \in Row
        BY DEF Inv, TypeOK
      <4>. QED
        BY <2>2, <4>1, <4>2 DEF Begin, Row
    <3>. QED
      BY <2>2, <3>1 DEF Begin, Inv, TypeOK, Row
  <2>. QED
    BY <2>1, <2>2
<1>2. row.live /\ row.gen = g /\ row.owner = p
  BY DEF Begin, MayBegin, Owns, Live
<1>3. Owned'
  BY <1>1, <1>2, NoneAssumption DEF Begin, Begun, Inv, TypeOK, Row, Owned, FenceOwned, Pending
<1>4. Unbroken' /\ Contiguous'
  BY <1>1, <1>2, Unwritten DEF Begin, Inv, TypeOK, Row
<1>. QED
  BY <1>1, <1>3, <1>4 DEF Inv

\* An edit is settled, by the generation that began it.
LEMMA SettleHolds ==
  ASSUME Inv, NEW p \in Panes, NEW g, NEW seq, NEW o \in Operations, NEW outcome \in Outcomes,
         Settle(p, g, seq, o, outcome)
  PROVE  Inv'
<1>1. TypeOK' /\ row'.gen = row.gen /\ row'.live = row.live /\ row'.state = outcome
  <2>1. row' \in Row /\ row'.gen = row.gen /\ row'.live = row.live /\ row'.state = outcome
    BY DEF Settle, Inv, TypeOK, Row, NativeStates, Outcomes
  <2>2. row.proposal \in Proposals
    BY NoneAssumption DEF Settle, MaySettle, Settles, Inv, TypeOK, Row, Owned
  <2>. QED
    BY <2>1, <2>2 DEF Settle, Inv, TypeOK
<1>2. Owned'
  BY <1>1 DEF Settle, Inv, TypeOK, Row, Owned, FenceOwned, Pending, Outcomes
<1>3. Unbroken' /\ Contiguous'
  BY <1>1, Unwritten DEF Settle, Inv, TypeOK, Row, Pending, Outcomes
<1>. QED
  BY <1>1, <1>2, <1>3 DEF Inv

\* A save, by the pane whose lease is live.
LEMMA SaveHolds ==
  ASSUME Inv, NEW p \in Panes, NEW base, NEW g \in Nat, NEW c \in Contents, Save(p, base, g, c)
  PROVE  Inv'
<1>1. row.live /\ row.gen = g /\ ~Pending /\ row' = [row EXCEPT !.live = TRUE]
      /\ UNCHANGED <<granted, applied>>
  BY DEF Save, MaySave, Owns, Live
<1>2. row' = row
  BY <1>1 DEF Inv, TypeOK, Row
<1>3. CASE versions' = versions
  <2>1. Unbroken' /\ Contiguous'
    BY <1>2, <1>3, Unwritten DEF Inv, TypeOK, Row, Pending
  <2>. QED
    BY <1>1, <1>2, <1>3, <2>1 DEF Inv, TypeOK, Owned, FenceOwned, Pending
<1>4. CASE versions' = Append(versions, [content |-> c, gen |-> g])
  <2>1. [content |-> c, gen |-> g] \in Version
    BY DEF Version
  <2>2. versions' \in Seq(Version) /\ versions' # <<>> /\ Unbroken' /\ Contiguous'
    BY <1>1, <1>2, <1>4, <2>1, Appended DEF Inv, TypeOK, Row
  <2>. QED
    BY <1>1, <1>2, <2>2 DEF Inv, TypeOK, Owned, FenceOwned, Pending
<1>. QED
  BY <1>3, <1>4 DEF Save

\* A write without a lease: none is live and no edit is pending.
LEMMA WriteHolds ==
  ASSUME Inv, NEW c \in Contents, Write(c)
  PROVE  Inv'
<1>1. ~row.live
  BY DEF Write, Live, Inv, Owned
<1>2. [content |-> c, gen |-> 0] \in Version
  BY DEF Version
<1>3. versions' \in Seq(Version) /\ versions' # <<>> /\ Unbroken' /\ Contiguous'
  BY <1>1, <1>2, Appended DEF Write, Inv, TypeOK, Row, Pending
<1>. QED
  BY <1>3 DEF Write, Inv, TypeOK, Owned, FenceOwned, Pending

\* A recovery: no edit is pending, and after it no lease is live.
LEMMA RecoverHolds ==
  ASSUME Inv, NEW revoke \in BOOLEAN, Recover(revoke)
  PROVE  Inv'
<1>1. TypeOK' /\ row'.gen = row.gen /\ row'.state = row.state
  BY DEF Recover, Inv, TypeOK, Row
<1>2. ~row'.live
  BY NoneAssumption DEF Recover, Inv, TypeOK, Row, Owned
<1>3. Owned'
  BY <1>1, <1>2 DEF Recover, Inv, TypeOK, Row, Owned, FenceOwned, Pending
<1>4. Unbroken' /\ Contiguous'
  BY <1>1, <1>2, Unwritten DEF Recover, Inv, TypeOK, Row, Pending
<1>. QED
  BY <1>1, <1>3, <1>4 DEF Inv

\* A lease expires; a grant is made.
LEMMA OtherHolds ==
  ASSUME Inv, Expire \/ \E p \in Panes : Grant(p)
  PROVE  Inv'
<1>1. TypeOK' /\ row'.gen = row.gen /\ row'.state = row.state /\ (row'.live => row.live)
  BY DEF Expire, Grant, Inv, TypeOK, Row
<1>2. Owned'
  BY <1>1 DEF Expire, Grant, Inv, TypeOK, Row, Owned, FenceOwned, Pending
<1>3. Unbroken' /\ Contiguous'
  <2>1. UNCHANGED versions
    BY DEF Expire, Grant
  <2>. QED
    BY <1>1, <2>1, Unwritten DEF Inv, TypeOK, Row, Pending
<1>. QED
  BY <1>1, <1>2, <1>3 DEF Inv

\* The invariant is inductive.
LEMMA StepHolds == Inv /\ [Step]_server => Inv'
<1>. SUFFICES ASSUME Inv, [Step]_server PROVE Inv'
  OBVIOUS
<1>1. row.gen \in Nat /\ row.seq \in Nat
  BY DEF Inv, TypeOK, Row
<1>2. ASSUME NEW p \in Panes, Ask(p) PROVE Inv'
  <2>1. PICK base \in 1 .. Current, g \in 0 .. row.gen :
          \/ Claim(p, base)
          \/ TakeOver(p, base, Current, g)
          \/ Release(p, g)
          \/ Renew(p, g)
          \/ \E c \in Contents : Save(p, base, g, c)
          \/ \E seq \in 0 .. row.seq, o \in Operations :
               \/ \E pr \in Proposals : Begin(p, base, g, seq, o, pr)
               \/ \E outcome \in Outcomes : Settle(p, g, seq, o, outcome)
    BY <1>2 DEF Ask
  <2>2. g \in Nat
    BY <1>1
  <2>. QED
    BY <2>1, <2>2, LeaseHolds, SaveHolds, BeginHolds, SettleHolds
<1>3. CASE \E p \in Panes : Grant(p)
  BY <1>3, OtherHolds
<1>4. CASE Expire
  BY <1>4, OtherHolds
<1>5. CASE \E c \in Contents : Write(c)
  BY <1>5, WriteHolds
<1>6. CASE \E revoke \in BOOLEAN : Recover(revoke)
  BY <1>6, RecoverHolds
<1>7. CASE UNCHANGED server
  BY <1>7 DEF server, Inv, TypeOK, Owned, FenceOwned, Unbroken, Contiguous, Pending
<1>. QED
  BY <1>2, <1>3, <1>4, <1>5, <1>6, <1>7 DEF Step

\* The invariant holds in every behaviour.
LEMMA Invariance == Free => []Inv
<1>1. Init => Inv
  BY InitHolds DEF Inv
<1>. QED
  BY <1>1, StepHolds, PTL DEF Free

\* The bounds leave only fewer behaviours.
LEMMA SpecIsFree == Spec => Free
<1>1. Next => Step
  BY DEF Next
<1>2. [Next]_server => [Step]_server
  BY <1>1
<1>. QED
  BY <1>2, PTL DEF Spec, Free

\* Every variable of the server keeps its type.
THEOREM TypeCorrect == Free => []TypeOK
<1>1. Inv => TypeOK
  BY DEF Inv
<1>. QED
  BY <1>1, Invariance, PTL

\* The versions of one generation are saved without any other between them,
\* whatever late requests of earlier owners are handled.
THEOREM GenerationsContiguousHolds == Free => []GenerationsContiguous
<1>1. Inv => GenerationsContiguous
  <2>. SUFFICES ASSUME Inv, NEW i \in DOMAIN versions, NEW k \in DOMAIN versions, NEW j \in i .. k,
                       i < k, versions[i].gen = versions[k].gen, versions[i].gen > 0
                PROVE  versions[j].gen = versions[i].gen
    BY DEF GenerationsContiguous
  <2>1. versions \in Seq(Version)
    BY DEF Inv, TypeOK
  <2>2. i \in 1 .. Len(versions) /\ k \in 1 .. Len(versions)
    BY <2>1
  <2>3. j \in 1 .. Len(versions)
    BY <2>1, <2>2
  <2>4. CASE i < j /\ j < k
    BY <2>2, <2>3, <2>4 DEF Inv, Contiguous
  <2>5. CASE j = i \/ j = k
    BY <2>5
  <2>. QED
    BY <2>1, <2>2, <2>3, <2>4, <2>5
<1>. QED
  BY <1>1, Invariance, PTL

\* A fence is always that of the generation that has the document.
THEOREM FenceOwnedHolds == Free => []FenceOwned
<1>1. Inv => FenceOwned
  BY DEF Inv, Owned
<1>. QED
  BY <1>1, Invariance, PTL

-----------------------------------------------------------------------------
(* What a step may not do.                                                 *)

\* A request of a pane, with an edit pending, saves nothing and changes no more
\* of the row than its expiry and the edit's state.
LEMMA AskKeepsFence ==
  ASSUME Inv, Pending, NEW p \in Panes, Ask(p)
  PROVE  /\ UNCHANGED versions
         /\ \E live \in BOOLEAN, state \in {"pending"} \cup Outcomes :
              row' = [row EXCEPT !.live = live, !.state = state]
<1>1. row \in Row /\ row.state = "pending" /\ row.live \in BOOLEAN
  BY DEF Inv, TypeOK, Row, Pending
<1>2. row = [row EXCEPT !.live = row.live, !.state = "pending"]
  BY <1>1 DEF Row
<1>3. PICK base \in 1 .. Current, g \in 0 .. row.gen :
        \/ Renew(p, g)
        \/ \E seq \in 0 .. row.seq, o \in Operations :
             \/ \E pr \in Proposals : Begin(p, base, g, seq, o, pr)
             \/ \E outcome \in Outcomes : Settle(p, g, seq, o, outcome)
  BY DEF Ask, Claim, MayClaim, TakeOver, MayTakeOver, Release, MayRelease, Save, MaySave
<1>4. CASE Renew(p, g)
  <2>1. row' = [row EXCEPT !.live = TRUE, !.state = "pending"]
    BY <1>1, <1>4 DEF Renew, Row
  <2>. QED
    BY <1>4, <2>1 DEF Renew
<1>5. ASSUME NEW seq, NEW o, NEW pr, Begin(p, base, g, seq, o, pr)
      PROVE  row' = row /\ UNCHANGED versions
  BY <1>5 DEF Begin, MayBegin
<1>6. ASSUME NEW seq, NEW o, NEW outcome \in Outcomes, Settle(p, g, seq, o, outcome)
      PROVE  row' = [row EXCEPT !.live = row.live, !.state = outcome] /\ UNCHANGED versions
  BY <1>1, <1>6 DEF Settle, Row
<1>7. CASE \E seq \in 0 .. row.seq, o \in Operations, pr \in Proposals : Begin(p, base, g, seq, o, pr)
  BY <1>1, <1>2, <1>5, <1>7
<1>8. CASE \E seq \in 0 .. row.seq, o \in Operations, outcome \in Outcomes : Settle(p, g, seq, o, outcome)
  <2>1. PICK outcome \in Outcomes : row' = [row EXCEPT !.live = row.live, !.state = outcome] /\ UNCHANGED versions
    BY <1>6, <1>8
  <2>. QED
    BY <1>1, <2>1
<1>. QED
  BY <1>3, <1>4, <1>7, <1>8

\* While an edit is pending nothing is written and the lease does not change
\* hands: the fence comes down by its settlement only.
THEOREM FenceKeptHolds == Free => FenceKept
<1>. DEFINE Kept ==
       Pending =>
         /\ UNCHANGED versions
         /\ \E live \in BOOLEAN, state \in {"pending"} \cup Outcomes :
              row' = [row EXCEPT !.live = live, !.state = state]
<1>1. Inv /\ [Step]_server => [Kept]_server
  <2>. SUFFICES ASSUME Inv, Step, Pending PROVE Kept
    OBVIOUS
  <2>1. row \in Row /\ row.state = "pending" /\ row.live \in BOOLEAN
    BY DEF Inv, TypeOK, Row, Pending
  <2>2. row = [row EXCEPT !.live = row.live, !.state = "pending"]
    BY <2>1 DEF Row
  <2>3. CASE \E p \in Panes : Ask(p)
    BY <2>3, AskKeepsFence
  <2>4. CASE \E p \in Panes : Grant(p)
    BY <2>1, <2>2, <2>4 DEF Grant
  <2>5. CASE Expire
    <3>1. row' = [row EXCEPT !.live = FALSE, !.state = "pending"]
      BY <2>1, <2>5 DEF Expire, Row
    <3>. QED
      BY <2>5, <3>1 DEF Expire
  <2>. QED
    BY <2>3, <2>4, <2>5 DEF Step, Write, Recover
<1>. HIDE DEF Kept
<1>2. [][Kept]_server => FenceKept
  BY PTL DEF Kept, FenceKept
<1>. QED
  BY <1>1, <1>2, Invariance, PTL DEF Free

\* What the fence was put up for is not recorded as applied already.
THEOREM AppliedNotPendingHolds == Free => []AppliedNotPending
<1>1. Init => AppliedNotPending
  BY DEF Init, AppliedNotPending, Pending
<1>2. Inv /\ AppliedNotPending /\ [Step]_server => AppliedNotPending'
  <2>. SUFFICES ASSUME Inv, AppliedNotPending, [Step]_server, Pending' PROVE row'.proposal \notin applied'
    BY DEF AppliedNotPending
  <2>1. row \in Row
    BY DEF Inv, TypeOK
  <2>2. ASSUME NEW p \in Panes, Ask(p) PROVE row'.proposal \notin applied'
    <3>1. PICK base \in 1 .. Current, g \in 0 .. row.gen :
            \/ row'.state = row.state /\ row'.proposal = row.proposal /\ applied' = applied
            \/ \E seq \in 0 .. row.seq, o \in Operations :
                 \/ \E pr \in Proposals : Begin(p, base, g, seq, o, pr)
                 \/ \E outcome \in Outcomes : Settle(p, g, seq, o, outcome)
      BY <2>1, <2>2 DEF Ask, Claim, Claimed, TakeOver, Release, Renew, Save, Row
    <3>2. ASSUME NEW seq, NEW o, NEW pr, Begin(p, base, g, seq, o, pr)
          PROVE  row'.proposal \notin applied'
      BY <2>1, <3>2 DEF Begin, MayBegin, AppliedNotPending, Pending, Row
    <3>3. ASSUME NEW seq, NEW o, NEW outcome \in Outcomes, Settle(p, g, seq, o, outcome)
          PROVE  FALSE
      BY <2>1, <3>3 DEF Settle, Pending, Outcomes, Row
    <3>. QED
      BY <3>1, <3>2, <3>3 DEF AppliedNotPending, Pending
  <2>3. CASE UNCHANGED server
    BY <2>3 DEF AppliedNotPending, Pending, server
  <2>4. CASE Expire \/ (\E p \in Panes : Grant(p)) \/ (\E c \in Contents : Write(c))
             \/ (\E revoke \in BOOLEAN : Recover(revoke))
    <3>1. row'.state = row.state /\ row'.proposal = row.proposal /\ applied' = applied
      BY <2>1, <2>4 DEF Expire, Grant, Write, Recover, Row
    <3>. QED
      BY <3>1 DEF AppliedNotPending, Pending
  <2>. QED
    BY <2>2, <2>3, <2>4 DEF Step
<1>. QED
  BY <1>1, <1>2, Invariance, PTL DEF Free

\* A settled outcome is final, and what is recorded as applied stays so.
THEOREM OutcomeFinalHolds == Free => OutcomeFinal
<1>. DEFINE Final ==
       /\ row.state \in Outcomes /\ row'.seq = row.seq => row'.state = row.state
       /\ row'.seq > row.seq => row.state # "pending"
       /\ applied \subseteq applied'
<1>1. Inv /\ [Step]_server => [Final]_server
  <2>. SUFFICES ASSUME Inv, Step PROVE Final
    OBVIOUS
  <2>1. row \in Row /\ row.seq \in Nat
    BY DEF Inv, TypeOK, Row
  <2>2. ASSUME NEW p \in Panes, Ask(p) PROVE Final
    <3>1. PICK base \in 1 .. Current, g \in 0 .. row.gen :
            \/ row'.state = row.state /\ row'.seq = row.seq /\ applied' = applied
            \/ \E seq \in 0 .. row.seq, o \in Operations :
                 \/ \E pr \in Proposals : Begin(p, base, g, seq, o, pr)
                 \/ \E outcome \in Outcomes : Settle(p, g, seq, o, outcome)
      BY <2>1, <2>2 DEF Ask, Claim, Claimed, TakeOver, Release, Renew, Save, Row
    <3>2. ASSUME NEW seq, NEW o, NEW pr, Begin(p, base, g, seq, o, pr)
          PROVE  Final
      <4>1. CASE Begun(g, seq, o, pr)
        BY <2>1, <3>2, <4>1 DEF Begin
      <4>2. CASE ~Begun(g, seq, o, pr)
        <5>1. row'.seq = row.seq + 1 /\ ~Pending /\ applied' = applied
          BY <2>1, <3>2, <4>2 DEF Begin, MayBegin, Row
        <5>. QED
          BY <2>1, <5>1 DEF Pending
      <4>. QED
        BY <4>1, <4>2
    <3>3. ASSUME NEW seq, NEW o, NEW outcome \in Outcomes, Settle(p, g, seq, o, outcome)
          PROVE  Final
      <4>1. row'.seq = row.seq /\ row'.state = outcome /\ row.state \in {"pending", outcome}
        BY <2>1, <3>3 DEF Settle, MaySettle, Row
      <4>. QED
        BY <2>1, <3>3, <4>1 DEF Settle, Outcomes
    <3>. QED
      BY <2>1, <3>1, <3>2, <3>3
  <2>3. CASE Expire \/ (\E p \in Panes : Grant(p)) \/ (\E c \in Contents : Write(c))
             \/ (\E revoke \in BOOLEAN : Recover(revoke))
    <3>1. row'.state = row.state /\ row'.seq = row.seq /\ applied' = applied
      BY <2>1, <2>3 DEF Expire, Grant, Write, Recover, Row
    <3>. QED
      BY <2>1, <3>1
  <2>. QED
    BY <2>2, <2>3 DEF Step
<1>. HIDE DEF Final
<1>2. [][Final]_server => OutcomeFinal
  BY PTL DEF Final, OutcomeFinal
<1>. QED
  BY <1>1, <1>2, Invariance, PTL DEF Free

=============================================================================
