------------------------- MODULE ArtifactWriteProofs -------------------------
(***************************************************************************)
(* The proofs about ArtifactWrite, for any processes, contracts, chunks    *)
(* and ids, and any number of crashes.  The invariant is CallsInv (what a  *)
(* call carries), LocksInv (what it still holds), StageInv (the one open   *)
(* transaction) and ChunksInv (what was answered), on top of the types.    *)
(***************************************************************************)
EXTENDS ArtifactWrite, TLAPS

Writing(p) == call[p].pc \in {"chunk", "record", "mark"}

\* What a call carries from one step to the next.  No call knows of an id that
\* was not given out.
CallsInv ==
  /\ \A t \in Transactions : fate[t] = "unborn" => meta[t] = Absent /\ acked[t] = {}
  /\ \A p \in Processes :
        /\ Writing(p) => call[p].tx \in Transactions /\ call[p].copy \in Transaction
        /\ At(p, "remove") => call[p].tx \in Transactions
        /\ Writing(p) \/ At(p, "remove") => fate[call[p].tx] # "unborn"
        /\ At(p, "remove") => fate[call[p].tx] = "aborted"
        /\ At(p, "chunk") \/ At(p, "record") =>
            Len(call[p].copy.chunks) \in 1 .. ChunkLimit /\ call[p].copy.status = "open"
        /\ At(p, "mark") => call[p].copy.status = "committed"
        /\ At(p, "begin") \/ At(p, "discard") => call[p].left \subseteq Transactions
        /\ At(p, "create") => call[p].copy \in Transaction

\* A call keeps its locks: only their owner gives them up, though a removal
\* and a discard give up the lock before the rest.
Holds(p) ==
    /\ Writing(p) => lock[call[p].tx] = p
    /\ At(p, "remove") /\ "lock" \in call[p].left => lock[call[p].tx] = p
    /\ At(p, "discard") => \A t \in call[p].left : lock[t] = p
    /\ At(p, "discard") \/ At(p, "create") => lock[StageLock] = p

LocksInv == \A p \in Processes : Holds(p)

\* What a call found about its transactions is so until it acts on it, unless
\* they are aborted meanwhile.
Knows(p) ==
    /\ Writing(p) /\ fate[call[p].tx] # "aborted" => call[p].tx \in Open
    /\ At(p, "discard") /\ call[p].copy # Absent =>
        \A t \in Open : fate[t] = "aborted" \/ t \in call[p].left
    /\ At(p, "create") => \A t \in Open : fate[t] = "aborted"
    /\ At(p, "discard") => \A t \in call[p].left :
        fate[t] = "aborted" \/ (meta[t] # Absent /\ meta[t].chunks = <<>>)

StageInv == OneOpen /\ \A p \in Processes : Knows(p)

Pairs(s) == {<<i, s[i]>> : i \in DOMAIN s}

\* The answered chunks are those of transaction.json, or of the call that is
\* about to write it.
Carries(p) ==
    LET t == call[p].tx
        chunks == call[p].copy.chunks
        before == SubSeq(chunks, 1, Len(chunks) - 1)
    IN  /\ At(p, "chunk") \/ At(p, "record") => acked[t] = Pairs(before)
        /\ At(p, "mark") => acked[t] = Pairs(chunks)
        /\ (At(p, "chunk") \/ At(p, "record")) /\ fate[t] # "aborted" => meta[t].chunks = before
        /\ At(p, "mark") /\ fate[t] # "aborted" => meta[t].chunks = chunks
        /\ At(p, "record") /\ fate[t] # "aborted" => files[t][Len(chunks)] = chunks[Len(chunks)]
        /\ (At(p, "discard") /\ call[p].copy # Absent) \/ At(p, "create") => chunks = <<>>

Staged(t) ==
    /\ meta[t] # Absent => acked[t] = Pairs(meta[t].chunks)
    /\ meta[t] = Absent /\ fate[t] # "aborted" => acked[t] = {}
    /\ meta[t] # Absent /\ fate[t] # "aborted" => Readable(t, meta[t].chunks)

ChunksInv ==
    /\ \A t \in Transactions : Staged(t)
    /\ \A p \in Processes : Carries(p)

-----------------------------------------------------------------------------

\* The constants that the leaves of the proofs need.
LEMMA Constants ==
    /\ Absent \notin Content /\ Absent \notin Transaction /\ Absent \notin Chunks
    /\ Free \notin Processes
    /\ StageLock \in Locks /\ MutationLock \in Locks /\ Transactions \subseteq Locks
    /\ StageLock \notin Transactions
    /\ MutationLock \notin Transactions \cup {StageLock}
    /\ ChunkLimit \in Nat /\ MaxTroubles \in Nat
BY AbsentAssumption, LocksAssumption, CountsAssumption DEF Locks

\* What the two ways to move a call do to the calls and the locks.
LEMMA GoesTypes ==
    ASSUME TypeOK, NEW p \in Processes, NEW pc, NEW tx, NEW copy, NEW left,
           Goes(p, pc, tx, copy, left), [pc |-> pc, tx |-> tx, copy |-> copy, left |-> left] \in Calls
    PROVE  /\ call' \in [Processes -> Calls]
           /\ call'[p].pc = pc /\ call'[p].tx = tx /\ call'[p].copy = copy /\ call'[p].left = left
           /\ \A q \in Processes \ {p} : call'[q] = call[q]
BY DEF Goes, TypeOK

\* What taking one thing off a call's list does to the calls.
LEMMA LeftTypes ==
    ASSUME TypeOK, NEW p \in Processes, NEW x, call' = [call EXCEPT ![p].left = @ \ {x}]
    PROVE  /\ call' \in [Processes -> Calls]
           /\ call'[p].pc = call[p].pc /\ call'[p].tx = call[p].tx
           /\ call'[p].copy = call[p].copy /\ call'[p].left = call[p].left \ {x}
           /\ \A q \in Processes \ {p} : call'[q] = call[q]
<1>1. call[p] \in Calls /\ call' = [call EXCEPT ![p] = [call[p] EXCEPT !.left = call[p].left \ {x}]]
  BY DEF TypeOK
<1>2. [call[p] EXCEPT !.left = call[p].left \ {x}] \in Calls
  BY <1>1 DEF Calls
<1> QED
  BY <1>1, <1>2 DEF TypeOK, Calls

\* A call that ends is idle, and has no lock.
LEMMA EndTypes ==
    ASSUME TypeOK, NEW p \in Processes, End(p)
    PROVE  /\ call' \in [Processes -> Calls]
           /\ call'[p] = Idle
           /\ \A q \in Processes \ {p} : call'[q] = call[q]
           /\ lock' \in [Locks -> Processes \cup {Free}]
           /\ \A l \in Locks : lock'[l] = IF lock[l] = p THEN Free ELSE lock[l]
<1>1. Idle \in Calls
  BY DEF Idle, Calls
<1> QED
  BY <1>1 DEF End, TypeOK

\* What taking locks does to them.
LEMMA TakesTypes ==
    ASSUME TypeOK, NEW p \in Processes, NEW locks \in SUBSET Locks, Takes(p, locks)
    PROVE  /\ lock' \in [Locks -> Processes \cup {Free}]
           /\ \A l \in locks : lock[l] = Free /\ lock'[l] = p
           /\ \A l \in Locks \ locks : lock'[l] = lock[l]
BY DEF Takes, TypeOK

\* A call that ends, and one that goes on, keep what the calls carry.
LEMMA EndCalls ==
    ASSUME TypeOK, CallsInv, NEW p \in Processes, End(p),
           \A t \in Transactions : fate[t] # "unborn" => fate'[t] # "unborn",
           \A t \in Transactions : fate[t] = "aborted" => fate'[t] = "aborted"
    PROVE  CallsInv!2'
<1>1. call'[p] = Idle /\ \A q \in Processes \ {p} : call'[q] = call[q]
  BY EndTypes
<1> QED
  BY <1>1 DEF CallsInv, Writing, At, Idle

\* What a call carries is what its step needs, whatever the others do.
THEOREM CallsInvariant ==
    Spec => [](TypeOK /\ CallsInv)
<1>1. Init => TypeOK /\ CallsInv
  <2> SUFFICES ASSUME Init PROVE TypeOK /\ CallsInv
    OBVIOUS
  <2>1. Idle \in Calls
    BY DEF Idle, Calls
  <2>2. TypeOK
    <3>1. \A c \in Chunks : <<c>> \in Content
      BY DEF Content
    <3> QED
      BY <2>1, <3>1, Constants DEF Init, TypeOK, NoFiles
  <2> QED
    BY <2>2 DEF Init, CallsInv, Writing, At, Idle
<1>2. TypeOK /\ CallsInv /\ [Next]_vars => (TypeOK /\ CallsInv)'
  <2> SUFFICES ASSUME TypeOK, CallsInv, [Next]_vars PROVE (TypeOK /\ CallsInv)'
    OBVIOUS
  <2> USE Constants
  <2>1. ASSUME NEW p \in Processes, Begin(p) PROVE (TypeOK /\ CallsInv)'
    <3>1. [pc |-> "begin", tx |-> Absent, copy |-> Absent, left |-> Open] \in Calls
      BY DEF Calls, Open
    <3>2. /\ call' \in [Processes -> Calls]
          /\ call'[p].pc = "begin" /\ call'[p].left = Open
          /\ \A q \in Processes \ {p} : call'[q] = call[q]
      BY <2>1, <3>1, GoesTypes DEF Begin
    <3>3. TypeOK'
      BY <2>1, <3>2 DEF TypeOK, Begin
    <3> QED
      BY <2>1, <3>2, <3>3 DEF Begin, CallsInv, Writing, At, Open
  <2>2. ASSUME NEW p \in Processes, NEW c \in Contracts, NEW overwrite \in BOOLEAN,
               Reconcile(p, c, overwrite)
        PROVE  (TypeOK /\ CallsInv)'
    <3> DEFINE discarded == {t \in Open : Discardable(t, c)}
               copy == IF Open \ discarded = {} THEN Fresh(c, overwrite) ELSE Absent
    <3>1. Fresh(c, overwrite) \in Transaction
      BY DEF Fresh, Transaction, Content
    <3>2. discarded \subseteq Transactions
      BY DEF Open
    <3>3. [pc |-> "discard", tx |-> Absent, copy |-> copy, left |-> discarded] \in Calls
      BY <3>1, <3>2 DEF Calls
    <3>4. Goes(p, "discard", Absent, copy, discarded)
      BY <2>2 DEF Reconcile
    <3>5. /\ call' \in [Processes -> Calls]
          /\ call'[p].pc = "discard" /\ call'[p].left = discarded
          /\ \A q \in Processes \ {p} : call'[q] = call[q]
      <4> HIDE DEF discarded, copy
      <4> QED BY <3>3, <3>4, GoesTypes
    <3>6. lock' \in [Locks -> Processes \cup {Free}]
      BY <2>2 DEF Reconcile, Takes, TypeOK
    <3>7. UNCHANGED <<target, meta, files, acked, fate, troubles>>
      BY <2>2 DEF Reconcile
    <3> HIDE DEF discarded, copy
    <3>8. TypeOK'
      BY <3>5, <3>6, <3>7 DEF TypeOK
    <3> QED
      BY <3>2, <3>5, <3>7, <3>8 DEF CallsInv, Writing, At
  <2>3. ASSUME NEW p \in Processes, Discard(p) PROVE (TypeOK /\ CallsInv)'
    <3> PICK t \in call[p].left :
            /\ meta' = [meta EXCEPT ![t] = Absent]
            /\ files' = [files EXCEPT ![t] = NoFiles]
            /\ lock' = [lock EXCEPT ![t] = Free]
            /\ call' = [call EXCEPT ![p].left = @ \ {t}]
      BY <2>3 DEF Discard
    <3>1. /\ call' \in [Processes -> Calls]
          /\ call'[p].pc = "discard" /\ call'[p].left = call[p].left \ {t}
          /\ \A q \in Processes \ {p} : call'[q] = call[q]
      BY <2>3, LeftTypes DEF Discard, At
    <3>2. UNCHANGED <<target, acked, fate, troubles>>
      BY <2>3 DEF Discard
    <3>3. TypeOK'
      BY <3>1, <3>2 DEF TypeOK, NoFiles
    <3>4. At(p, "discard") /\ call[p].left \subseteq Transactions
      BY <2>3 DEF Discard, CallsInv
    <3>5. \A u \in Transactions : meta[u] = Absent => meta'[u] = Absent
      BY DEF TypeOK
    <3> QED
      BY <3>1, <3>2, <3>3, <3>4, <3>5 DEF CallsInv, Writing, At
  <2>4. ASSUME NEW p \in Processes, Permit(p) PROVE (TypeOK /\ CallsInv)'
    <3>1. call[p].copy \in Transaction
      BY <2>4 DEF Permit, TypeOK, Calls
    <3>2. [pc |-> "create", tx |-> Absent, copy |-> call[p].copy, left |-> {}] \in Calls
      BY <3>1 DEF Calls
    <3>3. /\ call' \in [Processes -> Calls]
          /\ call'[p].pc = "create" /\ call'[p].copy = call[p].copy
          /\ \A q \in Processes \ {p} : call'[q] = call[q]
      BY <2>4, <3>2, GoesTypes DEF Permit
    <3>4. TypeOK'
      BY <2>4, <3>3 DEF TypeOK, Permit
    <3>5. UNCHANGED <<meta, acked, fate>>
      BY <2>4 DEF Permit
    <3> QED
      BY <3>1, <3>3, <3>4, <3>5 DEF CallsInv, Writing, At
  <2>5. ASSUME NEW p \in Processes, Return(p) PROVE (TypeOK /\ CallsInv)'
    <3>1. End(p) /\ UNCHANGED <<target, meta, files, acked, fate>>
      BY <2>5 DEF Return
    <3>2. TypeOK'
      BY <2>5, <3>1, EndTypes DEF Return, TypeOK, Trouble
    <3>3. CallsInv!2'
      BY <3>1, EndCalls
    <3> QED
      BY <3>1, <3>2, <3>3 DEF CallsInv
  <2>6. ASSUME NEW p \in Processes, NEW t \in Transactions, Create(p, t)
        PROVE  (TypeOK /\ CallsInv)'
    <3>1. /\ End(p) /\ fate[t] = "unborn" /\ fate' = [fate EXCEPT ![t] = "born"]
          /\ meta' = [meta EXCEPT ![t] = [call[p].copy EXCEPT !.initial = target]]
          /\ UNCHANGED <<target, files, acked, troubles>>
      BY <2>6 DEF Create
    <3>2. [call[p].copy EXCEPT !.initial = target] \in Transaction
      <4>1. call[p].copy \in Transaction
        BY <2>6 DEF Create, CallsInv
      <4> QED
        BY <4>1 DEF Transaction, TypeOK
    <3>3. TypeOK'
      BY <3>1, <3>2, EndTypes DEF TypeOK
    <3>4. CallsInv!2'
      BY <3>1, EndCalls DEF TypeOK
    <3> QED
      BY <3>1, <3>3, <3>4 DEF CallsInv, TypeOK
  <2>7. ASSUME NEW p \in Processes, NEW t \in Transactions, NEW c \in Contracts,
               NEW chunk \in Chunks, NEW checkpoint \in Checkpoints, NEW i \in 1 .. ChunkLimit,
               AppendChunk(p, t, c, i, checkpoint, chunk)
        PROVE  (TypeOK /\ CallsInv)'
    <3> DEFINE copy == [meta[t] EXCEPT !.chunks = Append(@, chunk)]
    <3>1. /\ Goes(p, "chunk", t, copy, {}) /\ Takes(p, {t})
          /\ UNCHANGED <<target, meta, files, acked, fate, troubles>>
          /\ meta[t] # Absent /\ meta[t].status = "open" /\ Len(meta[t].chunks) + 1 <= ChunkLimit
      BY <2>7 DEF AppendChunk, Required, Acceptable
    <3>2. meta[t] \in Transaction
      BY <3>1 DEF TypeOK
    <3>3. /\ copy \in Transaction /\ copy.status = "open"
          /\ Len(copy.chunks) \in 1 .. ChunkLimit
      <4>1. meta[t].chunks \in Seq(Chunks)
        BY <3>2 DEF Transaction, Content
      <4>2. /\ Append(meta[t].chunks, chunk) \in Seq(Chunks)
            /\ Len(Append(meta[t].chunks, chunk)) = Len(meta[t].chunks) + 1
            /\ Len(meta[t].chunks) \in Nat
        BY <4>1
      <4>3. /\ copy.chunks = Append(meta[t].chunks, chunk) /\ copy.status = meta[t].status
            /\ copy = [meta[t] EXCEPT !.chunks = Append(meta[t].chunks, chunk)]
        BY <3>2 DEF Transaction
      <4>4. copy \in Transaction
        BY <3>2, <4>2, <4>3 DEF Transaction, Content
      <4> QED
        BY <3>1, <4>2, <4>3, <4>4
    <3> HIDE DEF copy
    <3>4. [pc |-> "chunk", tx |-> t, copy |-> copy, left |-> {}] \in Calls
      BY <3>3 DEF Calls
    <3>5. /\ call' \in [Processes -> Calls]
          /\ call'[p].pc = "chunk" /\ call'[p].tx = t /\ call'[p].copy = copy
          /\ \A q \in Processes \ {p} : call'[q] = call[q]
      <4>1. Goes(p, "chunk", t, copy, {})
        BY <3>1
      <4> QED
        BY <4>1, <3>4, GoesTypes
    <3>6. TypeOK'
      BY <3>1, <3>5 DEF TypeOK, Takes
    <3>7. fate[t] # "unborn"
      BY <3>1 DEF CallsInv
    <3> QED
      BY <3>1, <3>3, <3>5, <3>6, <3>7 DEF CallsInv, Writing, At
  <2>8. ASSUME NEW p \in Processes, WriteChunk(p) PROVE (TypeOK /\ CallsInv)'
    <3> DEFINE chunks == call[p].copy.chunks
               t == call[p].tx
    <3>1. /\ At(p, "chunk") /\ call' = [call EXCEPT ![p].pc = "record"]
          /\ files' = [files EXCEPT ![t][Len(chunks)] = chunks[Len(chunks)]]
          /\ UNCHANGED <<target, meta, lock, acked, fate, troubles>>
      BY <2>8 DEF WriteChunk
    <3>2. call[p].copy \in Transaction /\ Len(chunks) \in 1 .. ChunkLimit /\ t \in Transactions
      BY <3>1 DEF CallsInv, Writing, At
    <3>3. chunks[Len(chunks)] \in Chunks
      BY <3>2 DEF Transaction, Content
    <3>4. files' \in [Transactions -> [1 .. ChunkLimit -> Chunks \cup {Absent}]]
      BY <3>1, <3>3 DEF TypeOK
    <3>5. /\ call' \in [Processes -> Calls]
          /\ call'[p].pc = "record" /\ call'[p].tx = call[p].tx /\ call'[p].copy = call[p].copy
          /\ \A q \in Processes \ {p} : call'[q] = call[q]
      BY <3>1, ZenonT(60) DEF TypeOK, Calls
    <3>6. TypeOK'
      BY <3>1, <3>4, <3>5 DEF TypeOK
    <3> QED
      BY <3>1, <3>5, <3>6 DEF CallsInv, Writing, At
  <2>9. ASSUME NEW p \in Processes, Record(p) PROVE (TypeOK /\ CallsInv)'
    <3> DEFINE chunks == call[p].copy.chunks
               t == call[p].tx
    <3>1. /\ At(p, "record") /\ End(p) /\ UNCHANGED <<target, files, fate, troubles>>
          /\ \/ /\ meta' = [meta EXCEPT ![t] = call[p].copy]
                /\ acked' = [acked EXCEPT ![t] = @ \cup {LastOf(chunks)}]
             \/ UNCHANGED <<meta, acked>>
      BY <2>9 DEF Record
    <3>2. /\ call[p].copy \in Transaction /\ Len(chunks) \in 1 .. ChunkLimit
          /\ t \in Transactions /\ fate[t] # "unborn"
      BY <3>1 DEF CallsInv, Writing, At
    <3>3. LastOf(chunks) \in Nat \X Chunks
      BY <3>2 DEF Transaction, Content, LastOf
    <3>4. /\ meta' \in [Transactions -> Transaction \cup {Absent}]
          /\ acked' \in [Transactions -> SUBSET (Nat \X Chunks)]
          /\ \A u \in Transactions \ {t} : meta'[u] = meta[u] /\ acked'[u] = acked[u]
      <4>1. acked[t] \cup {LastOf(chunks)} \in SUBSET (Nat \X Chunks)
        BY <3>2, <3>3 DEF TypeOK
      <4>2. CASE meta' = [meta EXCEPT ![t] = call[p].copy] /\ acked' = [acked EXCEPT ![t] = @ \cup {LastOf(chunks)}]
        <5>1. meta' \in [Transactions -> Transaction \cup {Absent}] /\ \A u \in Transactions \ {t} : meta'[u] = meta[u]
          BY <3>2, <4>2 DEF TypeOK
        <5>2. acked' = [acked EXCEPT ![t] = acked[t] \cup {LastOf(chunks)}]
          BY <3>2, <4>2 DEF TypeOK
        <5> HIDE DEF chunks
        <5>3. acked' \in [Transactions -> SUBSET (Nat \X Chunks)] /\ \A u \in Transactions \ {t} : acked'[u] = acked[u]
          BY <3>2, <4>1, <5>2 DEF TypeOK
        <5> QED
          BY <5>1, <5>3
      <4>3. CASE UNCHANGED <<meta, acked>>
        BY <4>3 DEF TypeOK
      <4> QED
        BY <3>1, <4>2, <4>3
    <3>5. TypeOK'
      BY <3>1, <3>4, EndTypes DEF TypeOK
    <3>6. CallsInv!2'
      BY <3>1, EndCalls
    <3> QED
      BY <3>1, <3>2, <3>4, <3>5, <3>6 DEF CallsInv
  <2>10. ASSUME NEW p \in Processes, NEW t \in Transactions, NEW c \in Contracts,
                NEW checkpoint \in Checkpoints, Commit(p, t, c, checkpoint)
         PROVE  (TypeOK /\ CallsInv)'
    <3>1. /\ Goes(p, "mark", t, Marked(meta[t]), {}) /\ Takes(p, {t, StageLock, MutationLock})
          /\ meta[t] # Absent /\ target' = meta[t].chunks
          /\ UNCHANGED <<meta, files, acked, fate, troubles>>
      BY <2>10 DEF Commit, Required
    <3>2. meta[t] \in Transaction
      BY <3>1 DEF TypeOK
    <3>3. Marked(meta[t]) \in Transaction /\ Marked(meta[t]).status = "committed" /\ target' \in Content
      BY <3>1, <3>2 DEF Transaction, Marked
    <3>4. [pc |-> "mark", tx |-> t, copy |-> Marked(meta[t]), left |-> {}] \in Calls
      BY <3>3 DEF Calls
    <3>5. /\ call' \in [Processes -> Calls]
          /\ call'[p].pc = "mark" /\ call'[p].tx = t /\ call'[p].copy = Marked(meta[t])
          /\ \A q \in Processes \ {p} : call'[q] = call[q]
      BY <3>1, <3>4, GoesTypes
    <3>6. TypeOK'
      BY <3>1, <3>3, <3>5 DEF TypeOK, Takes
    <3>7. fate[t] # "unborn"
      BY <3>1 DEF CallsInv
    <3> QED
      BY <3>1, <3>3, <3>5, <3>6, <3>7 DEF CallsInv, Writing, At
  <2>11. ASSUME NEW p \in Processes, Mark(p) PROVE (TypeOK /\ CallsInv)'
    <3>1. /\ At(p, "mark") /\ End(p) /\ UNCHANGED <<target, files, acked, fate, troubles>>
          /\ meta' = [meta EXCEPT ![call[p].tx] = call[p].copy]
      BY <2>11 DEF Mark
    <3>2. call[p].copy \in Transaction /\ call[p].tx \in Transactions /\ fate[call[p].tx] # "unborn"
      BY <3>1 DEF CallsInv, Writing, At
    <3>3. TypeOK'
      BY <3>1, <3>2, EndTypes DEF TypeOK
    <3>4. CallsInv!2'
      BY <3>1, EndCalls
    <3> QED
      BY <3>1, <3>2, <3>3, <3>4 DEF CallsInv, TypeOK
  <2>12. ASSUME NEW p \in Processes, NEW t \in Transactions, NEW c \in Contracts, Abort(p, t, c)
         PROVE  (TypeOK /\ CallsInv)'
    <3> DEFINE parts == {"lock", "chunks", "transaction"}
    <3>1. /\ Goes(p, "remove", t, Absent, parts) /\ Takes(p, {t}) /\ Trouble
          /\ fate' = [fate EXCEPT ![t] = "aborted"]
          /\ UNCHANGED <<target, meta, files, acked>>
      BY <2>12 DEF Abort
    <3>2. [pc |-> "remove", tx |-> t, copy |-> Absent, left |-> parts] \in Calls
      BY DEF Calls
    <3>3. /\ call' \in [Processes -> Calls]
          /\ call'[p].pc = "remove" /\ call'[p].tx = t
          /\ \A q \in Processes \ {p} : call'[q] = call[q]
      BY <3>1, <3>2, GoesTypes
    <3>4. TypeOK'
      BY <3>1, <3>3 DEF TypeOK, Takes, Trouble
    <3>5. fate'[t] = "aborted" /\ \A u \in Transactions \ {t} : fate'[u] = fate[u]
      BY <3>1 DEF TypeOK
    <3>6. meta' = meta /\ acked' = acked
      BY <3>1
    <3>7. \A u \in Transactions : fate'[u] = "unborn" => fate[u] = "unborn"
      BY <3>5
    <3>8. \A u \in Transactions : fate[u] = "aborted" => fate'[u] = "aborted"
      BY <3>5
    <3> HIDE DEF parts
    <3> QED
      BY <3>3, <3>4, <3>5, <3>6, <3>7, <3>8 DEF CallsInv, Writing, At
  <2>13. ASSUME NEW p \in Processes, Remove(p) PROVE (TypeOK /\ CallsInv)'
    <3> DEFINE t == call[p].tx
    <3> PICK part \in call[p].left :
            /\ call' = [call EXCEPT ![p].left = @ \ {part}]
            /\ lock' = IF part = "lock" THEN [lock EXCEPT ![t] = Free] ELSE lock
            /\ files' = IF part = "chunks" THEN [files EXCEPT ![t] = NoFiles] ELSE files
            /\ meta' = IF part = "transaction" THEN [meta EXCEPT ![t] = Absent] ELSE meta
      BY <2>13 DEF Remove
    <3>1. At(p, "remove") /\ UNCHANGED <<target, acked, fate, troubles>>
      BY <2>13 DEF Remove
    <3>2. /\ call' \in [Processes -> Calls]
          /\ call'[p].pc = "remove" /\ call'[p].tx = t
          /\ \A q \in Processes \ {p} : call'[q] = call[q]
      BY <3>1, LeftTypes DEF At
    <3>3. TypeOK'
      BY <3>1, <3>2 DEF TypeOK, NoFiles
    <3>4. \A u \in Transactions : meta[u] = Absent => meta'[u] = Absent
      BY DEF TypeOK
    <3> QED
      BY <3>1, <3>2, <3>3, <3>4 DEF CallsInv, Writing, At
  <2>14. ASSUME NEW p \in Processes, Removed(p) PROVE (TypeOK /\ CallsInv)'
    <3>1. End(p) /\ UNCHANGED <<target, meta, files, acked, fate>>
      BY <2>14 DEF Removed
    <3>2. TypeOK'
      BY <2>14, <3>1, EndTypes DEF Removed, TypeOK, Trouble
    <3>3. CallsInv!2'
      BY <3>1, EndCalls
    <3> QED
      BY <3>1, <3>2, <3>3 DEF CallsInv
  <2>15. ASSUME NEW p \in Processes, NEW overwrite \in BOOLEAN, Write(p, overwrite)
         PROVE  (TypeOK /\ CallsInv)'
    <3>1. [pc |-> "fill", tx |-> Absent, copy |-> Absent, left |-> {}] \in Calls
      BY DEF Calls
    <3>2. /\ call' \in [Processes -> Calls]
          /\ call'[p].pc = "fill" /\ \A q \in Processes \ {p} : call'[q] = call[q]
      BY <2>15, <3>1, GoesTypes DEF Write
    <3>3. <<>> \in Content
      BY DEF Content
    <3>4. TypeOK'
      BY <2>15, <3>2, <3>3 DEF TypeOK, Takes, Trouble, Write
    <3>5. UNCHANGED <<meta, acked, fate>>
      BY <2>15 DEF Write
    <3> QED
      BY <3>2, <3>4, <3>5 DEF CallsInv, Writing, At
  <2>16. ASSUME NEW p \in Processes, NEW chunk \in Chunks, Fill(p, chunk)
         PROVE  (TypeOK /\ CallsInv)'
    <3>1. End(p) /\ target' = <<chunk>> /\ UNCHANGED <<meta, files, acked, fate, troubles>>
      BY <2>16 DEF Fill
    <3>2. <<chunk>> \in Content
      BY DEF Content
    <3>3. TypeOK'
      BY <3>1, <3>2, EndTypes DEF TypeOK
    <3>4. CallsInv!2'
      BY <3>1, EndCalls
    <3> QED
      BY <3>1, <3>3, <3>4 DEF CallsInv
  <2>17. ASSUME NEW p \in Processes, Crash(p) PROVE (TypeOK /\ CallsInv)'
    <3>1. End(p) /\ UNCHANGED <<target, meta, files, acked, fate>>
      BY <2>17 DEF Crash
    <3>2. TypeOK'
      BY <2>17, <3>1, EndTypes DEF Crash, TypeOK, Trouble
    <3>3. CallsInv!2'
      BY <3>1, EndCalls
    <3> QED
      BY <3>1, <3>2, <3>3 DEF CallsInv
  <2>18. CASE UNCHANGED vars
    BY <2>18 DEF vars, TypeOK, CallsInv, Writing, At
  <2> QED
    BY <2>1, <2>2, <2>3, <2>4, <2>5, <2>6, <2>7, <2>8, <2>9, <2>10, <2>11, <2>12, <2>13,
       <2>14, <2>15, <2>16, <2>17, <2>18 DEF Next, Step
<1> QED
  BY <1>1, <1>2, PTL DEF Spec

-----------------------------------------------------------------------------

\* A step of p leaves the locks of the others alone.
LEMMA OthersHold ==
    ASSUME CallsInv, LocksInv, NEW p \in Processes,
           \A q \in Processes \ {p} : call'[q] = call[q],
           \A l \in Locks : lock[l] # p => lock'[l] = lock[l] \/ lock[l] = Free,
           Holds(p)'
    PROVE  LocksInv'
<1> SUFFICES ASSUME NEW q \in Processes \ {p} PROVE Holds(q)'
  BY DEF LocksInv
<1>1. call'[q] = call[q] /\ Holds(q) /\ q # Free
  BY Constants DEF LocksInv
<1>2. \A l \in Locks : lock[l] = q => lock'[l] = q
  BY <1>1
<1>3. Writing(q) \/ At(q, "remove") => call[q].tx \in Locks
  BY Constants DEF CallsInv
<1>4. At(q, "discard") => call[q].left \subseteq Locks
  BY Constants DEF CallsInv
<1> QED
  BY <1>1, <1>2, <1>3, <1>4, Constants DEF Holds, Writing, At

\* A call that ends leaves the locks of the others alone.
LEMMA EndHolds ==
    ASSUME TypeOK, CallsInv, LocksInv, NEW p \in Processes, End(p)
    PROVE  LocksInv'
<1>1. Holds(p)'
  BY EndTypes DEF Holds, Writing, At, Idle
<1> QED
  BY <1>1, EndTypes, OthersHold

\* Only the owner of a lock gives it up.
LEMMA LocksStep ==
    ASSUME TypeOK, CallsInv, LocksInv, [Next]_vars
    PROVE  LocksInv'
<1> USE Constants
<1>1. ASSUME NEW p \in Processes, Begin(p) PROVE LocksInv'
  <2>1. call'[p].pc = "begin" /\ (\A q \in Processes \ {p} : call'[q] = call[q]) /\ lock' = lock
    BY <1>1 DEF Begin, Goes, TypeOK
  <2>2. Holds(p)'
    BY <2>1 DEF Holds, Writing, At
  <2> QED
    BY <2>1, <2>2, OthersHold
<1>2. ASSUME NEW p \in Processes, NEW c \in Contracts, NEW overwrite \in BOOLEAN,
             Reconcile(p, c, overwrite)
      PROVE  LocksInv'
  <2> DEFINE discarded == {t \in Open : Discardable(t, c)}
             copy == IF Open \ discarded = {} THEN Fresh(c, overwrite) ELSE Absent
             taken == call[p].left \cup {StageLock}
  <2>1. /\ Takes(p, taken) /\ discarded \subseteq call[p].left /\ At(p, "begin")
        /\ Goes(p, "discard", Absent, copy, discarded)
    BY <1>2 DEF Reconcile
  <2>2. taken \subseteq Locks
    BY <2>1 DEF CallsInv
  <2>3. call'[p].pc = "discard" /\ call'[p].left = discarded /\ \A q \in Processes \ {p} : call'[q] = call[q]
    <3> HIDE DEF discarded, copy
    <3> QED BY <2>1 DEF Goes, TypeOK
  <2>4. /\ \A l \in taken : lock[l] = Free /\ lock'[l] = p
        /\ \A l \in Locks \ taken : lock'[l] = lock[l]
    <3> HIDE DEF taken
    <3> QED BY <2>1, <2>2, TakesTypes
  <2>5. Holds(p)'
    BY <2>1, <2>3, <2>4 DEF Holds, Writing, At
  <2> QED
    BY <2>3, <2>4, <2>5, OthersHold
<1>3. ASSUME NEW p \in Processes, Discard(p) PROVE LocksInv'
  <2> PICK t \in call[p].left :
          /\ lock' = [lock EXCEPT ![t] = Free]
          /\ call' = [call EXCEPT ![p].left = @ \ {t}]
    BY <1>3 DEF Discard
  <2>1. /\ call'[p].pc = "discard" /\ call'[p].left = call[p].left \ {t}
        /\ \A q \in Processes \ {p} : call'[q] = call[q]
    BY <1>3, LeftTypes DEF Discard, At
  <2>2. At(p, "discard") /\ Holds(p) /\ lock[t] = p /\ t \in Transactions /\ call[p].left \subseteq Transactions
    BY <1>3 DEF Discard, LocksInv, Holds, CallsInv
  <2>3. \A l \in Locks \ {t} : lock'[l] = lock[l]
    BY DEF TypeOK
  <2>4. Holds(p)'
    BY <2>1, <2>2, <2>3 DEF Holds, Writing, At
  <2> QED
    BY <2>1, <2>2, <2>3, <2>4, OthersHold
<1>4. ASSUME NEW p \in Processes, Permit(p) PROVE LocksInv'
  <2>1. /\ call'[p].pc = "create" /\ (\A q \in Processes \ {p} : call'[q] = call[q]) /\ lock' = lock
        /\ At(p, "discard") /\ Holds(p)
    BY <1>4 DEF Permit, Goes, TypeOK, LocksInv
  <2>2. Holds(p)'
    BY <2>1 DEF Holds, Writing, At
  <2> QED
    BY <2>1, <2>2, OthersHold
<1>5. ASSUME NEW p \in Processes, NEW t \in Transactions, NEW c \in Contracts,
             NEW chunk \in Chunks, NEW checkpoint \in Checkpoints, NEW i \in 1 .. ChunkLimit,
             AppendChunk(p, t, c, i, checkpoint, chunk)
      PROVE  LocksInv'
  <2> DEFINE copy == [meta[t] EXCEPT !.chunks = Append(@, chunk)]
  <2>1. Goes(p, "chunk", t, copy, {}) /\ Takes(p, {t})
    BY <1>5 DEF AppendChunk
  <2>2. call'[p].pc = "chunk" /\ call'[p].tx = t /\ \A q \in Processes \ {p} : call'[q] = call[q]
    <3> HIDE DEF copy
    <3> QED BY <2>1 DEF Goes, TypeOK
  <2>3. lock[t] = Free /\ lock'[t] = p /\ \A l \in Locks \ {t} : lock'[l] = lock[l]
    BY <2>1, TakesTypes
  <2>4. Holds(p)'
    BY <2>2, <2>3 DEF Holds, Writing, At
  <2> QED
    BY <2>2, <2>3, <2>4, OthersHold
<1>6. ASSUME NEW p \in Processes, WriteChunk(p) PROVE LocksInv'
  <2>1. /\ At(p, "chunk") /\ Holds(p) /\ lock' = lock /\ call' = [call EXCEPT ![p].pc = "record"]
    BY <1>6 DEF WriteChunk, LocksInv
  <2>2. /\ call'[p].pc = "record" /\ call'[p].tx = call[p].tx
        /\ \A q \in Processes \ {p} : call'[q] = call[q]
    BY <2>1 DEF TypeOK, Calls
  <2>3. Holds(p)'
    BY <2>1, <2>2 DEF Holds, Writing, At
  <2> QED
    BY <2>1, <2>2, <2>3, OthersHold
<1>7. ASSUME NEW p \in Processes, NEW t \in Transactions, NEW c \in Contracts,
             NEW checkpoint \in Checkpoints, Commit(p, t, c, checkpoint)
      PROVE  LocksInv'
  <2>1. Goes(p, "mark", t, Marked(meta[t]), {}) /\ Takes(p, {t, StageLock, MutationLock})
    BY <1>7 DEF Commit
  <2>2. call'[p].pc = "mark" /\ call'[p].tx = t /\ \A q \in Processes \ {p} : call'[q] = call[q]
    BY <2>1 DEF Goes, TypeOK
  <2>3. /\ \A l \in {t, StageLock, MutationLock} : lock[l] = Free /\ lock'[l] = p
        /\ \A l \in Locks \ {t, StageLock, MutationLock} : lock'[l] = lock[l]
    BY <2>1, TakesTypes
  <2>4. Holds(p)'
    BY <2>2, <2>3 DEF Holds, Writing, At
  <2> QED
    BY <2>2, <2>3, <2>4, OthersHold
<1>8. ASSUME NEW p \in Processes, NEW t \in Transactions, NEW c \in Contracts, Abort(p, t, c)
      PROVE  LocksInv'
  <2>1. Goes(p, "remove", t, Absent, {"lock", "chunks", "transaction"}) /\ Takes(p, {t})
    BY <1>8 DEF Abort
  <2>2. call'[p].pc = "remove" /\ call'[p].tx = t /\ \A q \in Processes \ {p} : call'[q] = call[q]
    BY <2>1 DEF Goes, TypeOK
  <2>3. lock[t] = Free /\ lock'[t] = p /\ \A l \in Locks \ {t} : lock'[l] = lock[l]
    BY <2>1, TakesTypes
  <2>4. Holds(p)'
    BY <2>2, <2>3 DEF Holds, Writing, At
  <2> QED
    BY <2>2, <2>3, <2>4, OthersHold
<1>9. ASSUME NEW p \in Processes, Remove(p) PROVE LocksInv'
  <2> DEFINE t == call[p].tx
  <2> PICK part \in call[p].left :
          /\ call' = [call EXCEPT ![p].left = @ \ {part}]
          /\ lock' = IF part = "lock" THEN [lock EXCEPT ![t] = Free] ELSE lock
    BY <1>9 DEF Remove
  <2>1. At(p, "remove") /\ Holds(p) /\ t \in Transactions
    BY <1>9 DEF Remove, LocksInv, CallsInv
  <2>2. /\ call'[p].pc = "remove" /\ call'[p].tx = t /\ call'[p].left = call[p].left \ {part}
        /\ \A q \in Processes \ {p} : call'[q] = call[q]
    BY <2>1, LeftTypes DEF At
  <2>3. \A l \in Locks : lock[l] # p => lock'[l] = lock[l]
    BY <2>1 DEF TypeOK, Holds
  <2>4. Holds(p)'
    BY <2>1, <2>2 DEF Holds, Writing, At
  <2> QED
    BY <2>2, <2>3, <2>4, OthersHold
<1>10. ASSUME NEW p \in Processes, NEW overwrite \in BOOLEAN, Write(p, overwrite)
       PROVE  LocksInv'
  <2>1. Goes(p, "fill", Absent, Absent, {}) /\ Takes(p, {MutationLock})
    BY <1>10 DEF Write
  <2>2. call'[p].pc = "fill" /\ \A q \in Processes \ {p} : call'[q] = call[q]
    BY <2>1 DEF Goes, TypeOK
  <2>3. \A l \in Locks : lock[l] # Free => lock'[l] = lock[l]
    BY <2>1, TakesTypes
  <2>4. Holds(p)'
    BY <2>2 DEF Holds, Writing, At
  <2> QED
    BY <2>2, <2>3, <2>4, OthersHold
<1>11. ASSUME NEW p \in Processes, End(p) PROVE LocksInv'
  BY <1>11, EndHolds
<1>12. CASE UNCHANGED vars
  BY <1>12 DEF vars, LocksInv, Holds, Writing, At
<1> QED
  BY <1>1, <1>2, <1>3, <1>4, <1>5, <1>6, <1>7, <1>8, <1>9, <1>10, <1>11, <1>12
     DEF Next, Step, Return, Create, Record, Mark, Removed, Fill, Crash

-----------------------------------------------------------------------------

\* A step of p that changes a transaction only with its lock, or when nobody
\* minds, and opens none, leaves what the others know true.
LEMMA OthersKnow ==
    ASSUME TypeOK, CallsInv, LocksInv, \A q \in Processes : Knows(q), NEW p \in Processes,
           \A q \in Processes \ {p} : call'[q] = call[q],
           \A t \in Transactions :
              meta'[t] = meta[t] \/ lock[t] = p \/ fate[t] \in {"aborted", "unborn"},
           \A t \in Transactions : fate[t] = "aborted" => fate'[t] = "aborted",
           lock[StageLock] # p => \A t \in Open' : t \in Open \/ fate[t] = "aborted",
           Knows(p)'
    PROVE  \A q \in Processes : Knows(q)'
<1> SUFFICES ASSUME NEW q \in Processes \ {p} PROVE Knows(q)'
  OBVIOUS
<1>1. call'[q] = call[q] /\ Knows(q) /\ Holds(q) /\ p # q
  BY DEF LocksInv
<1>2. ASSUME Writing(q)', fate'[call[q].tx] # "aborted" PROVE call[q].tx \in Open'
  <2>1. /\ call[q].tx \in Transactions /\ lock[call[q].tx] = q
        /\ fate[call[q].tx] \notin {"aborted", "unborn"} /\ call[q].tx \in Open
    BY <1>1, <1>2 DEF Writing, CallsInv, Holds, Knows
  <2> QED
    BY <1>1, <2>1 DEF Open
<1>3. At(q, "discard")' \/ At(q, "create")' => \A t \in Open' : t \in Open \/ fate[t] = "aborted"
  BY <1>1 DEF At, Holds
<1>4. ASSUME At(q, "discard")', NEW t \in call[q].left
      PROVE  fate'[t] = "aborted" \/ (meta'[t] # Absent /\ meta'[t].chunks = <<>>)
  <2>1. t \in Transactions /\ lock[t] = q
    BY <1>1, <1>4 DEF At, CallsInv, Holds
  <2>2. fate[t] = "aborted" \/ (meta[t] # Absent /\ meta[t].chunks = <<>> /\ fate[t] # "unborn")
    BY <1>1, <1>4, <2>1 DEF At, CallsInv, Knows
  <2> QED
    BY <1>1, <2>1, <2>2
<1>5. At(q, "discard")' /\ call'[q].copy # Absent =>
        \A t \in Open' : fate'[t] = "aborted" \/ t \in call'[q].left
  BY <1>1, <1>3 DEF At, Knows, Open
<1>6. At(q, "create")' => \A t \in Open' : fate'[t] = "aborted"
  BY <1>1, <1>3 DEF At, Knows, Open
<1> QED
  BY <1>1, <1>2, <1>4, <1>5, <1>6 DEF Knows

\* A step that changes no transaction.
LEMMA QuietStage ==
    ASSUME TypeOK, CallsInv, LocksInv, StageInv, NEW p \in Processes,
           \A q \in Processes \ {p} : call'[q] = call[q], UNCHANGED <<meta, fate>>, Knows(p)'
    PROVE  StageInv'
<1>1. Open' = Open
  BY DEF Open
<1>2. \A q \in Processes : Knows(q)'
  BY <1>1, OthersKnow DEF StageInv
<1> QED
  BY <1>1, <1>2 DEF StageInv, OneOpen

\* A call that ends knows nothing.
LEMMA EndKnows ==
    ASSUME TypeOK, NEW p \in Processes, End(p)
    PROVE  Knows(p)' /\ \A q \in Processes \ {p} : call'[q] = call[q]
BY EndTypes DEF Knows, Writing, At, Idle

\* A begin that found nothing open, or discards all there is, makes the only
\* open transaction: only a begin opens one, and it has the lock of the stage.
LEMMA StageStep ==
    ASSUME TypeOK, CallsInv, LocksInv, StageInv, [Next]_vars
    PROVE  StageInv'
<1> USE Constants
<1>1. ASSUME NEW p \in Processes, Begin(p) PROVE StageInv'
  <2>1. /\ call'[p].pc = "begin" /\ \A q \in Processes \ {p} : call'[q] = call[q]
        /\ UNCHANGED <<meta, fate>>
    BY <1>1 DEF Begin, Goes, TypeOK
  <2>2. Knows(p)'
    BY <2>1 DEF Knows, Writing, At
  <2> QED
    BY <2>1, <2>2, QuietStage
<1>2. ASSUME NEW p \in Processes, NEW c \in Contracts, NEW overwrite \in BOOLEAN,
             Reconcile(p, c, overwrite)
      PROVE  StageInv'
  <2> DEFINE discarded == {t \in Open : Discardable(t, c)}
             copy == IF Open \ discarded = {} THEN Fresh(c, overwrite) ELSE Absent
  <2>1. Goes(p, "discard", Absent, copy, discarded) /\ UNCHANGED <<meta, fate>>
    BY <1>2 DEF Reconcile
  <2>2. /\ call'[p].pc = "discard" /\ call'[p].left = discarded /\ call'[p].copy = copy
        /\ \A q \in Processes \ {p} : call'[q] = call[q]
    <3> HIDE DEF discarded, copy
    <3> QED BY <2>1 DEF Goes, TypeOK
  <2>3. copy # Absent => Open \subseteq discarded
    OBVIOUS
  <2>4. \A t \in discarded : meta[t] # Absent /\ meta[t].chunks = <<>>
    BY DEF Open, Discardable
  <2>5. Open' = Open
    BY <2>1 DEF Open
  <2>6. Knows(p)'
    <3> HIDE DEF discarded, copy
    <3> QED BY <2>1, <2>2, <2>3, <2>4, <2>5 DEF Knows, Writing, At
  <2> QED
    BY <2>1, <2>2, <2>6, QuietStage
<1>3. ASSUME NEW p \in Processes, Discard(p) PROVE StageInv'
  <2> PICK t \in call[p].left :
          /\ meta' = [meta EXCEPT ![t] = Absent]
          /\ call' = [call EXCEPT ![p].left = @ \ {t}]
    BY <1>3 DEF Discard
  <2>1. /\ call'[p].pc = "discard" /\ call'[p].left = call[p].left \ {t}
        /\ call'[p].copy = call[p].copy /\ \A q \in Processes \ {p} : call'[q] = call[q]
    BY <1>3, LeftTypes DEF Discard, At
  <2>2. /\ At(p, "discard") /\ Knows(p) /\ lock[t] = p /\ t \in Transactions
        /\ call[p].left \subseteq Transactions /\ fate' = fate
    BY <1>3 DEF Discard, LocksInv, Holds, CallsInv, StageInv
  <2>3. meta'[t] = Absent /\ \A u \in Transactions \ {t} : meta'[u] = meta[u]
    BY <2>2 DEF TypeOK
  <2>4. Open' = Open \ {t}
    BY <2>2, <2>3 DEF Open
  <2>5. Knows(p)'
    BY <2>1, <2>2, <2>3, <2>4 DEF Knows, Writing, At
  <2>6. \A q \in Processes : Knows(q)'
    BY <2>1, <2>2, <2>3, <2>4, <2>5, OthersKnow DEF StageInv
  <2> QED
    BY <2>2, <2>4, <2>6 DEF StageInv, OneOpen
<1>4. ASSUME NEW p \in Processes, Permit(p) PROVE StageInv'
  <2>1. /\ call'[p].pc = "create" /\ (\A q \in Processes \ {p} : call'[q] = call[q])
        /\ At(p, "discard") /\ call[p].left = {} /\ call[p].copy # Absent
        /\ UNCHANGED <<meta, fate>> /\ Knows(p)
    BY <1>4 DEF Permit, Goes, TypeOK, StageInv
  <2>2. Open' = Open
    BY <2>1 DEF Open
  <2>3. Knows(p)'
    BY <2>1, <2>2 DEF Knows, Writing, At
  <2> QED
    BY <2>1, <2>3, QuietStage
<1>5. ASSUME NEW p \in Processes, NEW t \in Transactions, Create(p, t) PROVE StageInv'
  <2>1. /\ End(p) /\ fate[t] = "unborn" /\ fate' = [fate EXCEPT ![t] = "born"]
        /\ meta' = [meta EXCEPT ![t] = [call[p].copy EXCEPT !.initial = target]]
        /\ At(p, "create") /\ lock[StageLock] = p /\ Knows(p)
    BY <1>5 DEF Create, LocksInv, Holds, StageInv
  <2>2. \A u \in Transactions \ {t} : meta'[u] = meta[u] /\ fate'[u] = fate[u]
    BY <2>1 DEF TypeOK
  <2>3. Open' \subseteq Open \cup {t}
    BY <2>2 DEF Open
  <2>4. \A u \in Open : fate[u] = "aborted" /\ u \in Transactions
    BY <2>1 DEF Knows, Open
  <2>5. \A q \in Processes : Knows(q)'
    BY <2>1, <2>2, EndKnows, OthersKnow DEF StageInv
  <2> QED
    BY <2>1, <2>2, <2>3, <2>4, <2>5 DEF StageInv, OneOpen
<1>6. ASSUME NEW p \in Processes, NEW t \in Transactions, NEW c \in Contracts,
             NEW chunk \in Chunks, NEW checkpoint \in Checkpoints, NEW i \in 1 .. ChunkLimit,
             AppendChunk(p, t, c, i, checkpoint, chunk)
      PROVE  StageInv'
  <2> DEFINE copy == [meta[t] EXCEPT !.chunks = Append(@, chunk)]
  <2>1. Goes(p, "chunk", t, copy, {}) /\ t \in Open /\ UNCHANGED <<meta, fate>>
    BY <1>6 DEF AppendChunk, Required, Acceptable, Open
  <2>2. call'[p].pc = "chunk" /\ call'[p].tx = t /\ \A q \in Processes \ {p} : call'[q] = call[q]
    <3> HIDE DEF copy
    <3> QED BY <2>1 DEF Goes, TypeOK
  <2>3. Knows(p)'
    BY <2>1, <2>2 DEF Knows, Writing, At, Open
  <2> QED
    BY <2>1, <2>2, <2>3, QuietStage
<1>7. ASSUME NEW p \in Processes, WriteChunk(p) PROVE StageInv'
  <2>1. /\ At(p, "chunk") /\ Knows(p) /\ UNCHANGED <<meta, fate>>
        /\ call' = [call EXCEPT ![p].pc = "record"]
    BY <1>7 DEF WriteChunk, StageInv
  <2>2. /\ call'[p].pc = "record" /\ call'[p].tx = call[p].tx
        /\ \A q \in Processes \ {p} : call'[q] = call[q]
    BY <2>1 DEF TypeOK, Calls
  <2>3. Knows(p)'
    BY <2>1, <2>2 DEF Knows, Writing, At, Open
  <2> QED
    BY <2>1, <2>2, <2>3, QuietStage
<1>8. ASSUME NEW p \in Processes, End(p), Writing(p), fate' = fate,
             meta' = [meta EXCEPT ![call[p].tx] = call[p].copy] \/ meta' = meta
      PROVE  StageInv'
  <2> DEFINE t == call[p].tx
  <2>1. lock[t] = p /\ t \in Transactions /\ (fate[t] # "aborted" => t \in Open)
    BY <1>8 DEF LocksInv, Holds, StageInv, Knows, CallsInv
  <2>2. \A u \in Transactions \ {t} : meta'[u] = meta[u]
    BY <1>8 DEF TypeOK
  <2>3. Open' \subseteq Open \cup {t}
    BY <2>2 DEF Open
  <2>4. \A u \in Open' : u \in Open \/ fate[u] = "aborted"
    BY <2>1, <2>3
  <2>5. \A q \in Processes : Knows(q)'
    BY <1>8, <2>1, <2>2, <2>4, EndKnows, OthersKnow DEF StageInv
  <2> QED
    BY <1>8, <2>4, <2>5 DEF StageInv, OneOpen
<1>9. ASSUME NEW p \in Processes, NEW t \in Transactions, NEW c \in Contracts,
             NEW checkpoint \in Checkpoints, Commit(p, t, c, checkpoint)
      PROVE  StageInv'
  <2>1. Goes(p, "mark", t, Marked(meta[t]), {}) /\ t \in Open /\ UNCHANGED <<meta, fate>>
    BY <1>9 DEF Commit, Required, Open
  <2>2. call'[p].pc = "mark" /\ call'[p].tx = t /\ \A q \in Processes \ {p} : call'[q] = call[q]
    BY <2>1 DEF Goes, TypeOK
  <2>3. Knows(p)'
    BY <2>1, <2>2 DEF Knows, Writing, At, Open
  <2> QED
    BY <2>1, <2>2, <2>3, QuietStage
<1>10. ASSUME NEW p \in Processes, NEW t \in Transactions, NEW c \in Contracts, Abort(p, t, c)
       PROVE  StageInv'
  <2>1. /\ Goes(p, "remove", t, Absent, {"lock", "chunks", "transaction"})
        /\ meta' = meta /\ fate' = [fate EXCEPT ![t] = "aborted"]
    BY <1>10 DEF Abort
  <2>2. call'[p].pc = "remove" /\ \A q \in Processes \ {p} : call'[q] = call[q]
    BY <2>1 DEF Goes, TypeOK
  <2>3. Knows(p)'
    BY <2>2 DEF Knows, Writing, At
  <2>4. Open' = Open
    BY <2>1 DEF Open
  <2>5. \A u \in Transactions : fate[u] = "aborted" => fate'[u] = "aborted"
    BY <2>1 DEF TypeOK
  <2>6. \A q \in Processes : Knows(q)'
    BY <2>1, <2>2, <2>3, <2>4, <2>5, OthersKnow DEF StageInv
  <2> QED
    BY <2>4, <2>5, <2>6 DEF StageInv, OneOpen, Open
<1>11. ASSUME NEW p \in Processes, Remove(p) PROVE StageInv'
  <2> DEFINE t == call[p].tx
  <2> PICK part \in call[p].left :
          /\ call' = [call EXCEPT ![p].left = @ \ {part}]
          /\ meta' = IF part = "transaction" THEN [meta EXCEPT ![t] = Absent] ELSE meta
    BY <1>11 DEF Remove
  <2>1. At(p, "remove") /\ t \in Transactions /\ fate[t] = "aborted" /\ fate' = fate
    BY <1>11 DEF Remove, CallsInv
  <2>2. call'[p].pc = "remove" /\ \A q \in Processes \ {p} : call'[q] = call[q]
    BY <2>1, LeftTypes DEF At
  <2>3. Knows(p)'
    BY <2>2 DEF Knows, Writing, At
  <2>4. \A u \in Transactions : meta'[u] = meta[u] \/ (u = t /\ meta'[u] = Absent)
    BY DEF TypeOK
  <2>5. Open' \subseteq Open
    BY <2>4 DEF Open
  <2>6. \A q \in Processes : Knows(q)'
    BY <2>1, <2>2, <2>3, <2>4, <2>5, OthersKnow DEF StageInv
  <2> QED
    BY <2>1, <2>5, <2>6 DEF StageInv, OneOpen
<1>12. ASSUME NEW p \in Processes, NEW overwrite \in BOOLEAN, Write(p, overwrite)
       PROVE  StageInv'
  <2>1. Goes(p, "fill", Absent, Absent, {}) /\ UNCHANGED <<meta, fate>>
    BY <1>12 DEF Write
  <2>2. call'[p].pc = "fill" /\ \A q \in Processes \ {p} : call'[q] = call[q]
    BY <2>1 DEF Goes, TypeOK
  <2>3. Knows(p)'
    BY <2>2 DEF Knows, Writing, At
  <2> QED
    BY <2>1, <2>2, <2>3, QuietStage
<1>13. ASSUME NEW p \in Processes, End(p), UNCHANGED <<meta, fate>> PROVE StageInv'
  BY <1>13, EndKnows, QuietStage
<1>14. CASE UNCHANGED vars
  BY <1>14 DEF vars, StageInv, OneOpen, Knows, Writing, At, Open
<1>15. ASSUME NEW p \in Processes, Record(p) \/ Mark(p) PROVE StageInv'
  BY <1>8, <1>15 DEF Record, Mark, Writing, At
<1> QED
  BY <1>1, <1>2, <1>3, <1>4, <1>5, <1>6, <1>7, <1>9, <1>10, <1>11, <1>12, <1>13, <1>14, <1>15
     DEF Next, Step, Return, Removed, Fill, Crash

-----------------------------------------------------------------------------

\* A sequence with a chunk appended ends in it, and is the same before it.
LEMMA PairsOfAppend ==
    ASSUME NEW s \in Content, NEW c \in Chunks
    PROVE  LET r == Append(s, c)
           IN  /\ SubSeq(r, 1, Len(r) - 1) = s
               /\ r[Len(r)] = c
BY DEF Content

\* The chunks of a sequence by place are those of its front, and its last.
LEMMA PairsOfFront ==
    ASSUME NEW s \in Content, Len(s) # 0
    PROVE  Pairs(s) = Pairs(SubSeq(s, 1, Len(s) - 1)) \cup {LastOf(s)}
<1> DEFINE b == SubSeq(s, 1, Len(s) - 1)
<1>1. s \in Seq(Chunks) /\ Len(s) \in Nat /\ DOMAIN s = 1 .. Len(s)
  BY DEF Content
<1>2. Len(b) = Len(s) - 1 /\ DOMAIN b = 1 .. Len(s) - 1 /\ \A i \in 1 .. Len(s) - 1 : b[i] = s[i]
  BY <1>1
<1>3. DOMAIN s = DOMAIN b \cup {Len(s)}
  BY <1>1, <1>2
<1> HIDE DEF b
<1>4. \A i \in DOMAIN b : b[i] = s[i]
  BY <1>2
<1>5. Pairs(s) = Pairs(b) \cup {LastOf(s)}
  BY <1>3, <1>4 DEF Pairs, LastOf
<1> QED
  BY <1>5 DEF b

\* There are none in the empty one.
LEMMA PairsOfNone ==
    Pairs(<<>>) = {}
BY DEF Pairs

\* A step of p that changes a transaction, its files or what was answered of it
\* only with its lock, or when nobody minds, leaves what the others carry true.
LEMMA OthersCarry ==
    ASSUME TypeOK, CallsInv, LocksInv, ChunksInv, NEW p \in Processes,
           \A q \in Processes \ {p} : call'[q] = call[q],
           \A t \in Transactions : lock[t] = p \/ acked'[t] = acked[t],
           \A t \in Transactions :
              \/ meta'[t] = meta[t] /\ files'[t] = files[t]
              \/ lock[t] = p \/ fate[t] \in {"aborted", "unborn"},
           \A t \in Transactions : fate[t] = "aborted" => fate'[t] = "aborted",
           Carries(p)', \A t \in Transactions : Staged(t)'
    PROVE  ChunksInv'
<1> SUFFICES ASSUME NEW q \in Processes \ {p} PROVE Carries(q)'
  BY DEF ChunksInv
<1> DEFINE t == call[q].tx
<1>1. call'[q] = call[q] /\ Carries(q) /\ q # p
  BY DEF ChunksInv
<1>2. CASE Writing(q)
  <2>1. t \in Transactions /\ lock[t] = q /\ fate[t] # "unborn"
    BY <1>2 DEF CallsInv, LocksInv, Holds
  <2>2. acked'[t] = acked[t] /\ (fate'[t] # "aborted" => meta'[t] = meta[t] /\ files'[t] = files[t] /\ fate[t] # "aborted")
    BY <1>1, <2>1
  <2>3. ~At(q, "discard") /\ ~At(q, "create")
    BY <1>2 DEF Writing, At
  <2> QED
    BY <1>1, <2>2, <2>3 DEF Carries, At
<1>3. CASE ~Writing(q)
  BY <1>1, <1>3 DEF Carries, Writing, At
<1> QED
  BY <1>2, <1>3

\* A step that changes neither the transactions nor their files.
LEMMA QuietChunks ==
    ASSUME TypeOK, CallsInv, LocksInv, ChunksInv, NEW p \in Processes,
           \A q \in Processes \ {p} : call'[q] = call[q],
           UNCHANGED <<meta, files, acked>>,
           \A t \in Transactions : fate[t] = "aborted" => fate'[t] = "aborted",
           Carries(p)'
    PROVE  ChunksInv'
<1>1. \A t \in Transactions : Staged(t)'
  BY DEF ChunksInv, Staged, Readable
<1> QED
  BY <1>1, OthersCarry

\* A call that ends carries nothing.
LEMMA EndCarries ==
    ASSUME TypeOK, NEW p \in Processes, End(p)
    PROVE  Carries(p)' /\ \A q \in Processes \ {p} : call'[q] = call[q]
BY EndTypes DEF Carries, At, Idle

\* Only the holder of a transaction's lock changes its chunks, and it appends.
LEMMA ChunksStep ==
    ASSUME TypeOK, CallsInv, LocksInv, StageInv, ChunksInv, [Next]_vars
    PROVE  ChunksInv'
<1> USE Constants
<1>1. ASSUME NEW p \in Processes, Begin(p) PROVE ChunksInv'
  <2>1. /\ call'[p].pc = "begin" /\ \A q \in Processes \ {p} : call'[q] = call[q]
        /\ UNCHANGED <<meta, files, acked, fate>>
    BY <1>1 DEF Begin, Goes, TypeOK
  <2>2. Carries(p)'
    BY <2>1 DEF Carries, At
  <2> QED
    BY <2>1, <2>2, QuietChunks
<1>2. ASSUME NEW p \in Processes, NEW c \in Contracts, NEW overwrite \in BOOLEAN,
             Reconcile(p, c, overwrite)
      PROVE  ChunksInv'
  <2> DEFINE discarded == {t \in Open : Discardable(t, c)}
             copy == IF Open \ discarded = {} THEN Fresh(c, overwrite) ELSE Absent
  <2>1. Goes(p, "discard", Absent, copy, discarded) /\ UNCHANGED <<meta, files, acked, fate>>
    BY <1>2 DEF Reconcile
  <2>2. /\ call'[p].pc = "discard" /\ call'[p].copy = copy
        /\ \A q \in Processes \ {p} : call'[q] = call[q]
    <3> HIDE DEF discarded, copy
    <3> QED BY <2>1 DEF Goes, TypeOK
  <2>3. copy # Absent => copy.chunks = <<>>
    BY DEF Fresh
  <2>4. Carries(p)'
    <3> HIDE DEF discarded, copy
    <3> QED BY <2>2, <2>3 DEF Carries, At
  <2> QED
    BY <2>1, <2>2, <2>4, QuietChunks
<1>3. ASSUME NEW p \in Processes, Discard(p) PROVE ChunksInv'
  <2> PICK t \in call[p].left :
          /\ meta' = [meta EXCEPT ![t] = Absent]
          /\ files' = [files EXCEPT ![t] = NoFiles]
          /\ call' = [call EXCEPT ![p].left = @ \ {t}]
    BY <1>3 DEF Discard
  <2>1. /\ call'[p].pc = "discard" /\ call'[p].copy = call[p].copy
        /\ \A q \in Processes \ {p} : call'[q] = call[q]
    BY <1>3, LeftTypes DEF Discard, At
  <2>2. /\ At(p, "discard") /\ lock[t] = p /\ t \in Transactions /\ fate' = fate /\ acked' = acked
        /\ Carries(p) /\ Staged(t)
        /\ fate[t] = "aborted" \/ (meta[t] # Absent /\ meta[t].chunks = <<>>)
    BY <1>3 DEF Discard, LocksInv, Holds, CallsInv, StageInv, Knows, ChunksInv
  <2>3. meta'[t] = Absent /\ \A u \in Transactions \ {t} : meta'[u] = meta[u] /\ files'[u] = files[u]
    BY <2>2 DEF TypeOK
  <2>4. Staged(t)'
    BY <2>2, <2>3, PairsOfNone DEF Staged
  <2>5. \A u \in Transactions \ {t} : Staged(u)'
    BY <2>2, <2>3 DEF ChunksInv, Staged, Readable
  <2>6. Carries(p)'
    BY <2>1, <2>2 DEF Carries, At
  <2> QED
    BY <2>1, <2>2, <2>3, <2>4, <2>5, <2>6, OthersCarry
<1>4. ASSUME NEW p \in Processes, Permit(p) PROVE ChunksInv'
  <2>1. /\ call'[p].pc = "create" /\ call'[p].copy = call[p].copy
        /\ (\A q \in Processes \ {p} : call'[q] = call[q])
        /\ At(p, "discard") /\ call[p].copy # Absent
        /\ UNCHANGED <<meta, files, acked, fate>> /\ Carries(p)
    BY <1>4 DEF Permit, Goes, TypeOK, ChunksInv
  <2>2. Carries(p)'
    BY <2>1 DEF Carries, At
  <2> QED
    BY <2>1, <2>2, QuietChunks
<1>5. ASSUME NEW p \in Processes, NEW t \in Transactions, Create(p, t) PROVE ChunksInv'
  <2>1. /\ End(p) /\ fate[t] = "unborn" /\ fate' = [fate EXCEPT ![t] = "born"]
        /\ meta' = [meta EXCEPT ![t] = [call[p].copy EXCEPT !.initial = target]]
        /\ UNCHANGED <<files, acked>> /\ acked[t] = {}
        /\ call[p].copy.chunks = <<>> /\ call[p].copy \in Transaction
    BY <1>5 DEF Create, ChunksInv, Carries, CallsInv
  <2>2. \A u \in Transactions \ {t} : meta'[u] = meta[u] /\ fate'[u] = fate[u]
    BY <2>1 DEF TypeOK
  <2>3. meta'[t].chunks = <<>>
    BY <2>1 DEF TypeOK, Transaction
  <2>4. Staged(t)'
    BY <2>1, <2>3, PairsOfNone DEF Staged, Readable
  <2>5. \A u \in Transactions \ {t} : Staged(u)'
    BY <2>1, <2>2 DEF ChunksInv, Staged, Readable
  <2> QED
    BY <2>1, <2>2, <2>4, <2>5, EndCarries, OthersCarry
<1>6. ASSUME NEW p \in Processes, NEW t \in Transactions, NEW c \in Contracts,
             NEW chunk \in Chunks, NEW checkpoint \in Checkpoints, NEW i \in 1 .. ChunkLimit,
             AppendChunk(p, t, c, i, checkpoint, chunk)
      PROVE  ChunksInv'
  <2> DEFINE copy == [meta[t] EXCEPT !.chunks = Append(@, chunk)]
  <2>1. /\ Goes(p, "chunk", t, copy, {}) /\ meta[t] # Absent
        /\ UNCHANGED <<meta, files, acked, fate>> /\ Staged(t)
    BY <1>6 DEF AppendChunk, Required, ChunksInv
  <2>2. meta[t] \in Transaction /\ meta[t].chunks \in Content
    BY <2>1 DEF TypeOK, Transaction
  <2>3. copy.chunks = Append(meta[t].chunks, chunk)
    BY <2>2 DEF Transaction
  <2>4. SubSeq(copy.chunks, 1, Len(copy.chunks) - 1) = meta[t].chunks
    BY <2>2, <2>3, PairsOfAppend
  <2> HIDE DEF copy
  <2>5. /\ call'[p].pc = "chunk" /\ call'[p].tx = t /\ call'[p].copy = copy
        /\ \A q \in Processes \ {p} : call'[q] = call[q]
    BY <2>1 DEF Goes, TypeOK
  <2>6. Carries(p)'
    BY <2>1, <2>4, <2>5 DEF Carries, At, Staged
  <2> QED
    BY <2>1, <2>5, <2>6, QuietChunks
<1>7. ASSUME NEW p \in Processes, WriteChunk(p) PROVE ChunksInv'
  <2> DEFINE t == call[p].tx
             chunks == call[p].copy.chunks
             before == SubSeq(chunks, 1, Len(chunks) - 1)
  <2>1. /\ At(p, "chunk") /\ Carries(p) /\ UNCHANGED <<meta, acked, fate>>
        /\ call' = [call EXCEPT ![p].pc = "record"]
        /\ files' = [files EXCEPT ![t][Len(chunks)] = chunks[Len(chunks)]]
    BY <1>7 DEF WriteChunk, ChunksInv
  <2>2. /\ call'[p].pc = "record" /\ call'[p].tx = t /\ call'[p].copy = call[p].copy
        /\ \A q \in Processes \ {p} : call'[q] = call[q]
    BY <2>1 DEF TypeOK, Calls
  <2>3. /\ t \in Transactions /\ lock[t] = p /\ Staged(t)
        /\ Len(chunks) \in 1 .. ChunkLimit /\ call[p].copy \in Transaction
        /\ fate[t] # "aborted" => meta[t] # Absent
    BY <2>1 DEF CallsInv, LocksInv, Holds, StageInv, Knows, Open, Writing, At, ChunksInv
  <2>4. chunks \in Seq(Chunks)
    BY <2>3 DEF Transaction, Content
  <2>5. DOMAIN before = 1 .. Len(chunks) - 1
    BY <2>3, <2>4
  <2>6. /\ \A u \in Transactions \ {t} : files'[u] = files[u]
        /\ files'[t][Len(chunks)] = chunks[Len(chunks)]
        /\ \A i \in 1 .. Len(chunks) - 1 : files'[t][i] = files[t][i]
    BY <2>1, <2>3 DEF TypeOK
  <2>7. fate[t] # "aborted" => meta[t].chunks = before
    BY <2>1 DEF Carries
  <2> HIDE DEF before, chunks
  <2>8. Staged(t)'
    BY <2>1, <2>3, <2>5, <2>6, <2>7 DEF Staged, Readable
  <2>9. \A u \in Transactions \ {t} : Staged(u)'
    BY <2>1, <2>6 DEF ChunksInv, Staged, Readable
  <2>10. Carries(p)'
    BY <2>1, <2>2, <2>6 DEF Carries, At, chunks
  <2> QED
    BY <2>1, <2>2, <2>3, <2>6, <2>8, <2>9, <2>10, OthersCarry
<1>8. ASSUME NEW p \in Processes, Record(p) PROVE ChunksInv'
  <2> PICK t \in Transactions : t = call[p].tx
    BY <1>8 DEF Record, CallsInv, Writing, At
  <2> DEFINE chunks == call[p].copy.chunks
             before == SubSeq(chunks, 1, Len(chunks) - 1)
  <2>1. /\ At(p, "record") /\ End(p) /\ Carries(p) /\ UNCHANGED <<files, fate>>
        /\ \/ /\ Readable(t, before)
              /\ meta' = [meta EXCEPT ![t] = call[p].copy]
              /\ acked' = [acked EXCEPT ![t] = @ \cup {LastOf(chunks)}]
           \/ UNCHANGED <<meta, acked>>
    BY <1>8 DEF Record, ChunksInv
  <2>2. /\ t \in Transactions /\ lock[t] = p /\ Len(chunks) \in 1 .. ChunkLimit
        /\ call[p].copy \in Transaction /\ acked[t] = Pairs(before)
        /\ fate[t] # "aborted" => files[t][Len(chunks)] = chunks[Len(chunks)]
    BY <2>1 DEF CallsInv, LocksInv, Holds, Writing, At, Carries
  <2>3. CASE UNCHANGED <<meta, acked>>
    BY <2>1, <2>3, EndCarries, QuietChunks
  <2>4. CASE /\ Readable(t, before)
             /\ meta' = [meta EXCEPT ![t] = call[p].copy]
             /\ acked' = [acked EXCEPT ![t] = @ \cup {LastOf(chunks)}]
    <3>1. chunks \in Content /\ Len(chunks) # 0
      BY <2>2 DEF Transaction
    <3>2. Pairs(chunks) = Pairs(before) \cup {LastOf(chunks)}
      BY <3>1, PairsOfFront
    <3>3. /\ DOMAIN before = 1 .. Len(chunks) - 1 /\ \A i \in DOMAIN before : before[i] = chunks[i]
          /\ DOMAIN chunks = 1 .. Len(chunks)
      BY <2>2, <3>1 DEF Content
    <3>4. /\ meta'[t] = call[p].copy /\ acked'[t] = acked[t] \cup {LastOf(chunks)}
          /\ \A u \in Transactions \ {t} : meta'[u] = meta[u] /\ acked'[u] = acked[u]
      BY <2>2, <2>4 DEF TypeOK
    <3>5. fate[t] # "aborted" => Readable(t, chunks)
      BY <2>2, <2>4, <3>3 DEF Readable
    <3>6. meta'[t].chunks = chunks
      BY <3>4
    <3>9. meta'[t] # Absent /\ acked'[t] = Pairs(chunks)
      BY <2>2, <3>2, <3>4
    <3>10. /\ \A q \in Processes \ {p} : call'[q] = call[q]
           /\ Carries(p)' /\ lock[t] = p
      BY <2>1, <2>2, EndCarries
    <3> HIDE DEF chunks, before
    <3>7. Staged(t)'
      BY <2>1, <3>5, <3>6, <3>9 DEF Staged, Readable
    <3>8. \A u \in Transactions \ {t} : Staged(u)'
      BY <2>1, <3>4 DEF ChunksInv, Staged, Readable
    <3> QED
      BY <2>1, <3>4, <3>7, <3>8, <3>10, OthersCarry
  <2> QED
    BY <2>1, <2>3, <2>4
<1>9. ASSUME NEW p \in Processes, NEW t \in Transactions, NEW c \in Contracts,
             NEW checkpoint \in Checkpoints, Commit(p, t, c, checkpoint)
      PROVE  ChunksInv'
  <2>1. /\ Goes(p, "mark", t, Marked(meta[t]), {}) /\ meta[t] # Absent
        /\ UNCHANGED <<meta, files, acked, fate>> /\ Staged(t)
    BY <1>9 DEF Commit, Required, ChunksInv
  <2>2. /\ call'[p].pc = "mark" /\ call'[p].tx = t /\ call'[p].copy = Marked(meta[t])
        /\ \A q \in Processes \ {p} : call'[q] = call[q]
    BY <2>1 DEF Goes, TypeOK
  <2>3. Marked(meta[t]).chunks = meta[t].chunks
    BY <2>1 DEF TypeOK, Transaction, Marked
  <2>4. Carries(p)'
    BY <2>1, <2>2, <2>3 DEF Carries, At, Staged
  <2> QED
    BY <2>1, <2>2, <2>4, QuietChunks
<1>10. ASSUME NEW p \in Processes, Mark(p) PROVE ChunksInv'
  <2> PICK t \in Transactions : t = call[p].tx
    BY <1>10 DEF Mark, CallsInv, Writing, At
  <2>1. /\ At(p, "mark") /\ End(p) /\ Carries(p) /\ UNCHANGED <<files, acked, fate>>
        /\ meta' = [meta EXCEPT ![t] = call[p].copy]
    BY <1>10 DEF Mark, ChunksInv
  <2>2. /\ t \in Transactions /\ lock[t] = p /\ Staged(t)
        /\ fate[t] # "aborted" => meta[t] # Absent
    BY <2>1 DEF CallsInv, LocksInv, Holds, StageInv, Knows, Open, Writing, At, ChunksInv
  <2>3. meta'[t] = call[p].copy /\ \A u \in Transactions \ {t} : meta'[u] = meta[u]
    BY <2>1, <2>2 DEF TypeOK
  <2>4. Staged(t)'
    <3>1. acked[t] = Pairs(meta'[t].chunks)
      BY <2>1, <2>3 DEF Carries
    <3>2. fate[t] # "aborted" => meta'[t].chunks = meta[t].chunks
      BY <2>1, <2>3 DEF Carries
    <3>3. meta'[t] # Absent
      BY <2>1, <2>3 DEF CallsInv, Writing, At
    <3>4. fate[t] # "aborted" => Readable(t, meta[t].chunks)
      BY <2>2 DEF Staged
    <3> QED
      BY <2>1, <3>1, <3>2, <3>3, <3>4 DEF Staged, Readable
  <2>5. \A u \in Transactions \ {t} : Staged(u)'
    BY <2>1, <2>3 DEF ChunksInv, Staged, Readable
  <2>6. /\ \A q \in Processes \ {p} : call'[q] = call[q]
        /\ Carries(p)' /\ lock[t] = p
    BY <2>1, <2>2, EndCarries
  <2> QED
    BY <2>1, <2>3, <2>4, <2>5, <2>6, OthersCarry
<1>11. ASSUME NEW p \in Processes, NEW t \in Transactions, NEW c \in Contracts, Abort(p, t, c)
       PROVE  ChunksInv'
  <2>1. /\ Goes(p, "remove", t, Absent, {"lock", "chunks", "transaction"})
        /\ UNCHANGED <<meta, files, acked>> /\ fate' = [fate EXCEPT ![t] = "aborted"]
    BY <1>11 DEF Abort
  <2>2. call'[p].pc = "remove" /\ \A q \in Processes \ {p} : call'[q] = call[q]
    BY <2>1 DEF Goes, TypeOK
  <2>3. Carries(p)'
    BY <2>2 DEF Carries, At
  <2>4. \A u \in Transactions : fate[u] = "aborted" => fate'[u] = "aborted"
    BY <2>1 DEF TypeOK
  <2> QED
    BY <2>1, <2>2, <2>3, <2>4, QuietChunks
<1>12. ASSUME NEW p \in Processes, Remove(p) PROVE ChunksInv'
  <2> DEFINE t == call[p].tx
  <2> PICK part \in call[p].left :
          /\ call' = [call EXCEPT ![p].left = @ \ {part}]
          /\ files' = IF part = "chunks" THEN [files EXCEPT ![t] = NoFiles] ELSE files
          /\ meta' = IF part = "transaction" THEN [meta EXCEPT ![t] = Absent] ELSE meta
    BY <1>12 DEF Remove
  <2>1. At(p, "remove") /\ t \in Transactions /\ fate[t] = "aborted" /\ fate' = fate /\ acked' = acked
    BY <1>12 DEF Remove, CallsInv
  <2>2. call'[p].pc = "remove" /\ \A q \in Processes \ {p} : call'[q] = call[q]
    BY <2>1, LeftTypes DEF At
  <2>3. Carries(p)'
    BY <2>2 DEF Carries, At
  <2>4. /\ meta'[t] \in {meta[t], Absent}
        /\ \A u \in Transactions \ {t} : meta'[u] = meta[u] /\ files'[u] = files[u]
    BY <2>1 DEF TypeOK
  <2>5. Staged(t)'
    BY <2>1, <2>4 DEF ChunksInv, Staged
  <2>6. \A u \in Transactions \ {t} : Staged(u)'
    BY <2>1, <2>4 DEF ChunksInv, Staged, Readable
  <2> QED
    BY <2>1, <2>2, <2>3, <2>4, <2>5, <2>6, OthersCarry
<1>13. ASSUME NEW p \in Processes, NEW overwrite \in BOOLEAN, Write(p, overwrite)
       PROVE  ChunksInv'
  <2>1. Goes(p, "fill", Absent, Absent, {}) /\ UNCHANGED <<meta, files, acked, fate>>
    BY <1>13 DEF Write
  <2>2. call'[p].pc = "fill" /\ \A q \in Processes \ {p} : call'[q] = call[q]
    BY <2>1 DEF Goes, TypeOK
  <2>3. Carries(p)'
    BY <2>2 DEF Carries, At
  <2> QED
    BY <2>1, <2>2, <2>3, QuietChunks
<1>14. ASSUME NEW p \in Processes, End(p), UNCHANGED <<meta, files, acked, fate>> PROVE ChunksInv'
  BY <1>14, EndCarries, QuietChunks
<1>15. CASE UNCHANGED vars
  <2>1. UNCHANGED <<meta, files, acked, fate, call>>
    BY <1>15 DEF vars
  <2> QED
    BY <2>1 DEF ChunksInv, Staged, Carries, Readable, At
<1> QED
  BY <1>1, <1>2, <1>3, <1>4, <1>5, <1>6, <1>7, <1>8, <1>9, <1>10, <1>11, <1>12, <1>13, <1>14, <1>15
     DEF Next, Step, Return, Removed, Fill, Crash

-----------------------------------------------------------------------------

\* The inductive invariant.
IInv == TypeOK /\ CallsInv /\ LocksInv /\ StageInv /\ ChunksInv

\* The invariants of calls, locks, the stage and the chunks, together.
THEOREM Invariance ==
    Spec => []IInv
<1>1. Init => LocksInv /\ StageInv /\ ChunksInv
  <2> SUFFICES ASSUME Init PROVE LocksInv /\ StageInv /\ ChunksInv
    OBVIOUS
  <2>1. /\ \A p \in Processes : call[p].pc = "idle"
        /\ \A t \in Transactions : meta[t] = Absent /\ acked[t] = {}
    BY DEF Init, Idle
  <2>2. LocksInv
    BY <2>1 DEF LocksInv, Holds, Writing, At
  <2>3. StageInv
    BY <2>1 DEF StageInv, OneOpen, Open, Knows, Writing, At
  <2>4. ChunksInv
    BY <2>1 DEF ChunksInv, Staged, Carries, At
  <2> QED
    BY <2>2, <2>3, <2>4
<1>2. /\ TypeOK /\ CallsInv /\ LocksInv /\ StageInv /\ ChunksInv /\ [Next]_vars
      => (LocksInv /\ StageInv /\ ChunksInv)'
  BY LocksStep, StageStep, ChunksStep
<1> QED
  BY <1>1, <1>2, CallsInvariant, PTL DEF Spec, IInv

\* Every variable keeps its type.
THEOREM TypeCorrect ==
    Spec => []TypeOK
BY Invariance, PTL DEF IInv

\* Whatever is begun, appended, committed and discarded at once, and whoever
\* dies, there is one open transaction of a stage's target but for aborted ones.
THEOREM AtMostOneOpen ==
    Spec => []OneOpen
<1>1. IInv => OneOpen
  BY DEF IInv, StageInv
<1> QED
  BY <1>1, Invariance, PTL

\* The chunks whose appends were answered are in transaction.json and in their
\* files until the transaction is aborted.
THEOREM ProgressIsKept ==
    Spec => []ProgressKept
<1>1. IInv => ProgressKept
  <2> SUFFICES ASSUME IInv, NEW t \in Transactions, fate[t] # "aborted", NEW a \in acked[t]
               PROVE  /\ meta[t] # Absent
                      /\ a[1] \in DOMAIN meta[t].chunks
                      /\ a[2] = meta[t].chunks[a[1]]
                      /\ a[2] = files[t][a[1]]
    BY DEF ProgressKept
  <2>1. Staged(t)
    BY DEF IInv, ChunksInv
  <2>2. meta[t] # Absent
    BY <2>1 DEF Staged
  <2>3. a \in Pairs(meta[t].chunks) /\ Readable(t, meta[t].chunks)
    BY <2>1, <2>2 DEF Staged
  <2>4. PICK i \in DOMAIN meta[t].chunks : a = <<i, meta[t].chunks[i]>>
    BY <2>3 DEF Pairs
  <2> QED
    BY <2>2, <2>3, <2>4 DEF Readable
<1> QED
  BY <1>1, Invariance, PTL

\* Only a commit goes on to mark its transaction.
LEMMA OnlyCommitPublishes ==
    ASSUME TypeOK, CallsInv, [Next]_vars, NEW p \in Processes, Publishes(p)
    PROVE  \E t \in Transactions, c \in Contracts, checkpoint \in Checkpoints :
              Commit(p, t, c, checkpoint)
<1>1. call[p].pc # "mark" /\ call'[p].pc = "mark"
  BY DEF Publishes, At
<1>2. ASSUME NEW q \in Processes, Step(q) PROVE p = q
  <2>1. ASSUME NEW r \in Processes, NEW x, call' = [call EXCEPT ![r] = x] PROVE p = r
    BY <1>1, <2>1 DEF TypeOK
  <2>2. ASSUME NEW r \in Processes, NEW x, call' = [call EXCEPT ![r].pc = x] PROVE p = r
    BY <1>1, <2>2 DEF TypeOK
  <2>3. ASSUME NEW r \in Processes, NEW x, call' = [call EXCEPT ![r].left = @ \ {x}] PROVE p = r
    BY <1>1, <2>3, LeftTypes
  <2>4. End(q) => p = q
    BY <2>1 DEF End
  <2>5. \A pc, tx, copy, left : Goes(q, pc, tx, copy, left) => p = q
    BY <2>1 DEF Goes
  <2>6. Discard(q) \/ Remove(q) => p = q
    BY <2>3 DEF Discard, Remove
  <2>7. WriteChunk(q) => p = q
    BY <2>2 DEF WriteChunk
  <2>8. Begin(q) \/ Permit(q) => p = q
    BY <2>5 DEF Begin, Permit
  <2>9. \A c \in Contracts, overwrite \in BOOLEAN : Reconcile(q, c, overwrite) => p = q
    BY <2>5 DEF Reconcile
  <2>10. Return(q) \/ Record(q) \/ Mark(q) \/ Removed(q) \/ Crash(q) => p = q
    BY <2>4 DEF Return, Record, Mark, Removed, Crash
  <2>11. /\ \A t \in Transactions : Create(q, t) => p = q
         /\ \A chunk \in Chunks : Fill(q, chunk) => p = q
    BY <2>4 DEF Create, Fill
  <2>12. \A t \in Transactions, c \in Contracts, chunk \in Chunks, checkpoint \in Checkpoints, i \in 1 .. ChunkLimit :
            AppendChunk(q, t, c, i, checkpoint, chunk) => p = q
    BY <2>5 DEF AppendChunk
  <2>13. \A t \in Transactions, c \in Contracts, checkpoint \in Checkpoints :
            Commit(q, t, c, checkpoint) => p = q
    BY <2>5 DEF Commit
  <2>14. /\ \A t \in Transactions, c \in Contracts : Abort(q, t, c) => p = q
         /\ \A overwrite \in BOOLEAN : Write(q, overwrite) => p = q
    BY <2>5 DEF Abort, Write
  <2> QED
    BY <1>2, <2>6, <2>7, <2>8, <2>9, <2>10, <2>11, <2>12, <2>13, <2>14 DEF Step
<1>3. ASSUME NEW pc, NEW tx, NEW copy, NEW left, Goes(p, pc, tx, copy, left) PROVE pc = "mark"
  BY <1>1, <1>3 DEF Goes, TypeOK
<1>4. ~End(p)
  BY <1>1, EndTypes DEF Idle
<1>5. ~Discard(p) /\ ~Remove(p)
  BY <1>1, LeftTypes DEF Discard, Remove
<1>6. ~WriteChunk(p)
  BY <1>1 DEF WriteChunk, TypeOK, Calls
<1>7. ~Begin(p) /\ ~Permit(p)
  BY <1>3 DEF Begin, Permit
<1>8. \A c \in Contracts, overwrite \in BOOLEAN : ~Reconcile(p, c, overwrite)
  BY <1>3 DEF Reconcile
<1>9. ~Return(p) /\ ~Record(p) /\ ~Mark(p) /\ ~Removed(p) /\ ~Crash(p)
  BY <1>4 DEF Return, Record, Mark, Removed, Crash
<1>10. /\ \A t \in Transactions : ~Create(p, t)
       /\ \A chunk \in Chunks : ~Fill(p, chunk)
  BY <1>4 DEF Create, Fill
<1>11. \A t \in Transactions, c \in Contracts, chunk \in Chunks, checkpoint \in Checkpoints, i \in 1 .. ChunkLimit :
          ~AppendChunk(p, t, c, i, checkpoint, chunk)
  BY <1>3 DEF AppendChunk
<1>12. /\ \A t \in Transactions, c \in Contracts : ~Abort(p, t, c)
       /\ \A overwrite \in BOOLEAN : ~Write(p, overwrite)
  BY <1>3 DEF Abort, Write
<1>13. ~UNCHANGED vars
  BY <1>1 DEF vars
<1>14. Step(p)
  BY <1>2, <1>13 DEF Next
<1> QED
  BY <1>5, <1>6, <1>7, <1>8, <1>9, <1>10, <1>11, <1>12, <1>14 DEF Step

\* A commit compares and swaps, and what it puts in place is every chunk that
\* was answered, in order.
THEOREM CommitSwaps ==
    Spec => CommitIsSwap
<1>1. ASSUME IInv, [Next]_vars, NEW p \in Processes, Publishes(p)
      PROVE  /\ target \in {meta[call'[p].tx].initial, target'}
             /\ acked[call'[p].tx] = {<<i, target'[i]>> : i \in DOMAIN target'}
  <2>1. PICK t \in Transactions, c \in Contracts, checkpoint \in Checkpoints :
            Commit(p, t, c, checkpoint)
    BY <1>1, OnlyCommitPublishes DEF IInv
  <2>2. /\ Goes(p, "mark", t, Marked(meta[t]), {}) /\ meta[t] # Absent
        /\ target = meta[t].chunks \/ target = meta[t].initial
        /\ target' = meta[t].chunks
    BY <2>1 DEF Commit, Required, Replaceable, Changed
  <2>3. call'[p].tx = t
    BY <1>1, <2>2 DEF Goes, IInv, TypeOK
  <2>4. acked[t] = Pairs(meta[t].chunks)
    BY <1>1, <2>2 DEF IInv, ChunksInv, Staged
  <2> QED
    BY <2>2, <2>3, <2>4 DEF Pairs
<1>2. IInv /\ [Next]_vars =>
        [\A p \in Processes : Publishes(p) =>
            LET t == call'[p].tx
            IN  /\ target \in {meta[t].initial, target'}
                /\ acked[t] = {<<i, target'[i]>> : i \in DOMAIN target'}]_vars
  BY <1>1
<1> QED
  BY <1>2, Invariance, PTL DEF Spec, CommitIsSwap
=============================================================================
