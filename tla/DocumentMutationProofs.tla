----------------------- MODULE DocumentMutationProofs -----------------------
(* The safety of DocumentMutation, for every set of documents, artifacts    *)
(* and mutation ids and any number of operations, stops and failures.  The  *)
(* evidence of the commit, the documents' bytes and the source projection   *)
(* are kept where a directory is removed as one step (~TornRemoval); the    *)
(* lineage of the projection also where it is removed entry by entry.       *)
EXTENDS DocumentMutation, FiniteSetTheorems, TLAPS

-----------------------------------------------------------------------------
(* The inductive invariant.                                                *)

NoMutation == {"down", "idle", "recover", "begin", "heal", "rebuild", "rebuildIn", "rebuildStamp"}
Clean == {"begin", "heal", "rebuild", "rebuildIn", "rebuildStamp"}
BeforeCommit == {"stage", "park", "place", "register", "openBackup", "manifest",
                 "moveOut", "moveIn", "commit"}
AfterCommit == {"retire", "dropBackup", "settle", "settleWrite", "unrecord", "stamp", "settled",
                "settledWrite", "forward"}
Undoing == {"restore", "restoreRename", "unproject", "dropProjection"}

\* The step at hand works on a journal that exists, and is known by its record
\* once transaction.json is written.
Working ==
    /\ pc \notin NoMutation => cur \in Ids /\ journals[cur] \in Journal
    /\ pc \in BeforeCommit \cup AfterCommit \cup Undoing => journals[cur].tx # Absent
    /\ pc \in BeforeCommit \cup {"journal", "begin"} => op \in Operation
    /\ mode # "startup" /\ pc # "idle" => op \in Operation
    /\ pc \in BeforeCommit => journals[cur].tx.name = op.name
    /\ pc \in Clean => Journalled = {}
    /\ \A i, j \in Journalled : i = j

Typed == TypeOK /\ Working

\* The commit and its evidence: the row or the file, in a journal whose
\* transaction.json is written.
Recorded ==
    /\ commits \subseteq decided
    /\ decided \subseteq Journalled
    /\ \A i \in Journalled :
        /\ Committed(i) <=> i \in decided
        /\ journals[i].tx = Absent => i \notin decided
        /\ journals[i].settled => journals[i].committed /\ i \notin commits

\* Where each step stands to them.
Uncommitted == {"journal"} \cup BeforeCommit \cup Undoing
Placed ==
    /\ pc \in Uncommitted => cur \notin decided
    /\ pc \in AfterCommit => cur \in decided
    /\ pc \in {"unrecord", "stamp", "settled", "settledWrite"} => journals[cur].committed
    /\ pc \in {"stamp", "settled", "settledWrite", "remove"} => cur \notin commits

Evidence == Recorded /\ Placed

\* At first nothing is journalled and no step is at hand.
LEMMA InitTyped == Init => Typed
<1>. SUFFICES ASSUME Init PROVE Typed
  OBVIOUS
<1>1. live \in Projection /\ lineage \in Projection
  BY DEF Init, Projection, NoArtifacts, Snapshot
<1>2. files \in [Names -> Bytes] /\ registry \in [Names -> Bytes]
  BY DEF Init, Bytes
<1>3. budget \in [ops : Nat, crashes : Nat, failures : Nat]
  BY DEF Init
<1>4. TypeOK
  BY <1>1, <1>2, <1>3 DEF Init, TypeOK, Locations, Modes
<1>5. Working
  BY DEF Init, Working, NoMutation, Clean, BeforeCommit, AfterCommit, Undoing, Journalled
<1>. QED
  BY <1>4, <1>5 DEF Typed

\* A step's new value for the journal at hand.
LEMMA Updated ==
  ASSUME Typed, pc \notin NoMutation, NEW j \in Journal, SetJournal(j)
  PROVE  /\ journals' \in [Ids -> Journal \cup {Absent}]
         /\ journals'[cur] = j
         /\ \A i \in Ids : i # cur => journals'[i] = journals[i]
         /\ Journalled' = Journalled
<1>1. cur \in Ids /\ J \in Journal /\ j # Absent /\ J # Absent
  BY JournalAssumption DEF Typed, Working, J
<1>2. journals \in [Ids -> Journal \cup {Absent}]
  BY DEF Typed, TypeOK
<1>. QED
  BY <1>1, <1>2 DEF SetJournal, Journalled, J

\* A step that leaves the operation and the mutation at hand, and the record
\* of the journal it works on unless it is removing it, as they are.
LEMMA Continued ==
  ASSUME Typed, pc \notin NoMutation, NEW j \in Journal, SetJournal(j),
         pc' # "remove" => j.tx = J.tx /\ J.tx # Absent,
         UNCHANGED <<op, cur>>,
         mode' # "startup" => mode # "startup",
         pc' \in BeforeCommit \cup AfterCommit \cup Undoing \cup {"remove"},
         pc' \in BeforeCommit => pc \in BeforeCommit
  PROVE  Working' /\ journals' \in [Ids -> Journal \cup {Absent}]
<1>1. /\ cur' \in Ids
      /\ journals'[cur'] \in Journal
      /\ pc' # "remove" => journals'[cur'].tx = J.tx /\ J.tx # Absent
      /\ Journalled' = Journalled
  BY Updated DEF Typed, Working
<1>2. /\ pc' \notin Clean \cup {"journal", "begin"}
      /\ "remove" \notin BeforeCommit \cup AfterCommit \cup Undoing
      /\ pc # "idle"
  BY DEF NoMutation, Clean, BeforeCommit, AfterCommit, Undoing
<1>3. pc' \in BeforeCommit => op' \in Operation /\ journals'[cur'].tx.name = op'.name
  BY <1>1, <1>2 DEF Typed, Working, J
<1>4. \A i, k \in Journalled' : i = k
  BY <1>1 DEF Typed, Working
<1>5. mode' # "startup" /\ pc' # "idle" => op' \in Operation
  BY <1>2 DEF Typed, Working
<1>6. Working'
  BY <1>1, <1>2, <1>3, <1>4, <1>5, Zenon DEF Working
<1>. QED
  BY <1>6, Updated

\* The same of a step that leaves the journals alone.
LEMMA Stepped ==
  ASSUME Typed, pc \notin NoMutation, UNCHANGED journals,
         pc' # "remove" => J.tx # Absent,
         UNCHANGED <<op, cur>>,
         mode' # "startup" => mode # "startup",
         pc' \in BeforeCommit \cup AfterCommit \cup Undoing \cup {"remove"},
         pc' \in BeforeCommit => pc \in BeforeCommit
  PROVE  Working' /\ journals' \in [Ids -> Journal \cup {Absent}]
<1>1. /\ cur' \in Ids
      /\ journals'[cur'] \in Journal
      /\ pc' # "remove" => journals'[cur'].tx = J.tx /\ J.tx # Absent
      /\ Journalled' = Journalled
  BY DEF Typed, Working, J, Journalled
<1>2. /\ pc' \notin Clean \cup {"journal", "begin"}
      /\ "remove" \notin BeforeCommit \cup AfterCommit \cup Undoing
      /\ pc # "idle"
  BY DEF NoMutation, Clean, BeforeCommit, AfterCommit, Undoing
<1>3. pc' \in BeforeCommit => op' \in Operation /\ journals'[cur'].tx.name = op'.name
  BY <1>1, <1>2 DEF Typed, Working, J
<1>4. \A i, k \in Journalled' : i = k
  BY <1>1 DEF Typed, Working
<1>5. mode' # "startup" /\ pc' # "idle" => op' \in Operation
  BY <1>2 DEF Typed, Working
<1>6. Working'
  BY <1>1, <1>2, <1>3, <1>4, <1>5, Zenon DEF Working
<1>. QED
  BY <1>6 DEF Typed, TypeOK

\* The end of an operation, or of the process, and the start of a recovery.
LEMMA Stopped ==
  ASSUME Typed, Journalled' \subseteq Journalled, pc' \in {"idle", "down", "recover"},
         mode' # "startup" /\ pc' # "idle" => op' \in Operation
  PROVE  Working'
  BY DEF Typed, Working, NoMutation, Clean, BeforeCommit, AfterCommit, Undoing

\* What is built from a registry is a projection.
LEMMA BuildTyped == \A rows \in [Names -> Bytes] : Build(rows) \in Projection
  BY SourcesAssumption DEF Build, Projection, Snapshot, Bytes

\* So is none at all.
LEMMA NoArtifactsTyped == NoArtifacts \in Projection
  BY DEF NoArtifacts, Projection

\* A document that is not there has bytes of its type.
LEMMA AbsentInBytes == Absent \in Bytes
  BY DEF Bytes

\* A failure is counted.
LEMMA ThrowTyped == Typed /\ Throw => budget' \in [ops : Nat, crashes : Nat, failures : Nat]
  BY DEF Typed, TypeOK, Throw

\* So is a stop of the process.
LEMMA CrashTyped == Typed /\ Crash => budget' \in [ops : Nat, crashes : Nat, failures : Nat]
  BY DEF Typed, TypeOK, Crash

\* An entry removed from a projection transaction: the rest of the journal stays.
LEMMA ProjectionTorn ==
  ASSUME Typed, pc \notin NoMutation, TearsProjection
  PROVE  \E j \in Journal :
            /\ SetJournal(j)
            /\ j.tx = J.tx /\ j.backup = J.backup
            /\ j.proj = J.proj /\ j.staged = J.staged
            /\ j.intent = J.intent /\ j.committed = J.committed
            /\ j.settled = J.settled /\ j.unwritten = J.unwritten
<1>1. J \in Journal
  BY DEF Typed, Working, J
<1>2. CASE J.listed /\ SetJournal([J EXCEPT !.listed = FALSE, !.manifest = {}])
  <2>. DEFINE j == [J EXCEPT !.listed = FALSE, !.manifest = {}]
  <2>1. j \in Journal
    BY <1>1 DEF Journal
  <2>2. /\ j.tx = J.tx /\ j.backup = J.backup
        /\ j.proj = J.proj /\ j.staged = J.staged
        /\ j.intent = J.intent /\ j.committed = J.committed
        /\ j.settled = J.settled /\ j.unwritten = J.unwritten
    BY <1>1 DEF Journal
  <2>3. SetJournal(j)
    BY <1>2
  <2>. HIDE DEF j
  <2>. QED
    BY <2>1, <2>2, <2>3
<1>3. CASE \E a \in Artifacts : J.saved[a] # Absent /\ SetJournal([J EXCEPT !.saved[a] = Absent])
  <2>0. PICK a \in Artifacts : SetJournal([J EXCEPT !.saved[a] = Absent])
    BY <1>3
  <2>. DEFINE j == [J EXCEPT !.saved[a] = Absent]
  <2>1. j \in Journal
    BY <1>1 DEF Journal, Projection
  <2>2. /\ j.tx = J.tx /\ j.backup = J.backup
        /\ j.proj = J.proj /\ j.staged = J.staged
        /\ j.intent = J.intent /\ j.committed = J.committed
        /\ j.settled = J.settled /\ j.unwritten = J.unwritten
    BY <1>1 DEF Journal
  <2>3. SetJournal(j)
    BY <2>0
  <2>. HIDE DEF j
  <2>. QED
    BY <2>1, <2>2, <2>3
<1>4. CASE J.savedDir /\ J.saved = NoArtifacts /\ SetJournal([J EXCEPT !.savedDir = FALSE])
  <2>. DEFINE j == [J EXCEPT !.savedDir = FALSE]
  <2>1. j \in Journal
    BY <1>1 DEF Journal
  <2>2. /\ j.tx = J.tx /\ j.backup = J.backup
        /\ j.proj = J.proj /\ j.staged = J.staged
        /\ j.intent = J.intent /\ j.committed = J.committed
        /\ j.settled = J.settled /\ j.unwritten = J.unwritten
    BY <1>1 DEF Journal
  <2>3. SetJournal(j)
    BY <1>4
  <2>. HIDE DEF j
  <2>. QED
    BY <2>1, <2>2, <2>3
<1>. QED
  BY <1>2, <1>3, <1>4 DEF TearsProjection

\* The files of a journal a settling or a removal writes or takes away, alone.
LEMMA FileTyped ==
  ASSUME NEW j \in Journal
  PROVE  /\ [j EXCEPT !.tx = Absent] \in Journal
         /\ [j EXCEPT !.committed = FALSE] \in Journal
         /\ [j EXCEPT !.settled = FALSE] \in Journal
         /\ [j EXCEPT !.intent = FALSE] \in Journal
         /\ [j EXCEPT !.backup = Absent] \in Journal
         /\ [j EXCEPT !.unwritten = TRUE] \in Journal
         /\ [j EXCEPT !.committed = TRUE, !.unwritten = FALSE] \in Journal
         /\ [j EXCEPT !.settled = TRUE, !.unwritten = FALSE] \in Journal
         /\ WithoutProjection(j) \in Journal
  BY NoArtifactsTyped, AbsentInBytes DEF Journal, WithoutProjection

\* Every step keeps the types, and works on a journal that exists.
LEMMA StepTyped == Typed /\ [Next]_vars => Typed'
<1>. SUFFICES ASSUME Typed, [Next]_vars PROVE Typed'
  OBVIOUS
<1>. USE DEF Goto, Finish, To, disk, db
<1>1. CASE \E n \in Names, c \in Bytes : Start(n, c)
  <2>1. Working'
    BY <1>1, Stopped DEF Start, Journalled, Operation
  <2>2. TypeOK'
    BY <1>1 DEF Start, Journalled, Typed, TypeOK, Locations, Modes, Projection, Operation
  <2>. QED
    BY <2>1, <2>2 DEF Typed
<1>2. CASE Refuse
  <2>1. Working'
    BY <1>2, Stopped DEF Refuse, Journalled, Operation
  <2>2. TypeOK'
    BY <1>2 DEF Refuse, Journalled, Typed, TypeOK, Locations, Modes, Projection, Operation
  <2>. QED
    BY <2>1, <2>2 DEF Typed
<1>3. CASE BeginJournal
  <2>1. PICK i \in Ids : journals' = [journals EXCEPT ![i] = EmptyJournal] /\ cur' = i
    BY <1>3 DEF BeginJournal
  <2>2. EmptyJournal \in Journal
    BY DEF EmptyJournal, Journal, Projection, NoArtifacts, Bytes
  <2>3. TypeOK'
    BY <1>3, <2>1, <2>2 DEF BeginJournal, Typed, TypeOK, Locations, Modes
  <2>4. Journalled' \subseteq {i} /\ op \in Operation
    BY <1>3, <2>1 DEF BeginJournal, Typed, Working, Clean, Journalled, TypeOK
  <2>5. Working'
    BY <1>3, <2>1, <2>2, <2>4 DEF BeginJournal, Typed, TypeOK, Working, Clean, NoMutation, BeforeCommit, AfterCommit, Undoing
  <2>. QED
    BY <2>3, <2>5 DEF Typed
<1>4. CASE WriteTransaction
  <2>. DEFINE record == [name |-> op.name, prior |-> files[op.name] # Absent]
              j == [J EXCEPT !.tx = record]
  <2>1. pc \notin NoMutation /\ J \in Journal /\ op \in Operation /\ cur \in Ids /\ pc # "idle"
    BY <1>4 DEF WriteTransaction, Typed, Working, J, NoMutation
  <2>2. record \in Tx
    BY <2>1, (files[op.name] # Absent) \in BOOLEAN DEF Tx, Operation
  <2>3. j \in Journal /\ j.tx = record /\ record # Absent
    BY <2>1, <2>2, AbsentAssumption DEF Journal, Tx
  <2>4. SetJournal(j)
    BY <1>4 DEF WriteTransaction
  <2>5. journals' \in [Ids -> Journal \cup {Absent}] /\ journals'[cur] = j /\ Journalled' = Journalled
    BY <2>1, <2>3, <2>4, Updated
  <2>6. TypeOK'
    BY <1>4, <2>1, <2>5 DEF WriteTransaction, Typed, TypeOK, Locations, Modes
  <2>7. Working'
    BY <1>4, <2>1, <2>3, <2>5 DEF WriteTransaction, Typed, Working, Clean, NoMutation, BeforeCommit, AfterCommit, Undoing
  <2>. QED
    BY <2>6, <2>7 DEF Typed
<1>5. CASE StageSourceChange
  <2>1. pc \notin NoMutation /\ J \in Journal /\ cur \in Ids /\ J.tx # Absent /\ op.name \in Names /\ op.new \in Bytes
    BY <1>5 DEF StageSourceChange, Typed, Working, J, Operation, NoMutation, BeforeCommit, AfterCommit, Undoing
    <2>. DEFINE j == [J EXCEPT !.proj = TRUE, !.staged = Build([registry EXCEPT ![op.name] = op.new])]
    <2>2. j \in Journal /\ j.tx = J.tx
      BY <1>5, <2>1, BuildTyped DEF Typed, TypeOK, Projection, Journal
    <2>3. SetJournal(j)
      BY <1>5, <2>1 DEF StageSourceChange
    <2>4. Working' /\ journals' \in [Ids -> Journal \cup {Absent}]
      BY <1>5, <2>1, <2>2, <2>3, Continued DEF StageSourceChange, NoMutation, BeforeCommit, AfterCommit, Undoing
    <2>5. TypeOK'
      BY <1>5, <2>1, <2>4 DEF StageSourceChange, Typed, TypeOK, Locations, Modes, Projection, Operation
    <2>. QED
      BY <2>4, <2>5 DEF Typed
<1>6. CASE ParkPrior
  <2>1. pc \notin NoMutation /\ J \in Journal /\ cur \in Ids /\ J.tx # Absent /\ op.name \in Names /\ op.new \in Bytes
    BY <1>6 DEF ParkPrior, Typed, Working, J, Operation, NoMutation, BeforeCommit, AfterCommit, Undoing
  <2>2. files' \in [Names -> Bytes]
    BY <1>6, <2>1 DEF ParkPrior, Typed, TypeOK, Bytes
  <2>3. CASE files[op.name] = Absent
      <3>4. Working' /\ journals' \in [Ids -> Journal \cup {Absent}]
        BY <1>6, <2>1, <2>2, <2>3, Stepped DEF ParkPrior, NoMutation, BeforeCommit, AfterCommit, Undoing
      <3>5. TypeOK'
        BY <1>6, <2>1, <2>2, <2>3, <3>4 DEF ParkPrior, Typed, TypeOK, Locations, Modes, Projection, Operation
      <3>. QED
        BY <3>4, <3>5 DEF Typed
  <2>4. CASE files[op.name] # Absent
      <3>. DEFINE j == [J EXCEPT !.backup = files[op.name]]
      <3>2. j \in Journal /\ j.tx = J.tx
        BY <1>6, <2>1, <2>2, <2>4 DEF Typed, TypeOK, Projection, Journal
      <3>3. SetJournal(j)
        BY <1>6, <2>1, <2>2, <2>4 DEF ParkPrior
      <3>4. Working' /\ journals' \in [Ids -> Journal \cup {Absent}]
        BY <1>6, <2>1, <2>2, <2>4, <3>2, <3>3, Continued DEF ParkPrior, NoMutation, BeforeCommit, AfterCommit, Undoing
      <3>5. TypeOK'
        BY <1>6, <2>1, <2>2, <2>4, <3>4 DEF ParkPrior, Typed, TypeOK, Locations, Modes, Projection, Operation
      <3>. QED
        BY <3>4, <3>5 DEF Typed
  <2>. QED
    BY <1>6, <2>3, <2>4 DEF ParkPrior
<1>7. CASE PlaceBytes
  <2>1. pc \notin NoMutation /\ J \in Journal /\ cur \in Ids /\ J.tx # Absent /\ op.name \in Names /\ op.new \in Bytes
    BY <1>7 DEF PlaceBytes, Typed, Working, J, Operation, NoMutation, BeforeCommit, AfterCommit, Undoing
    <2>4. Working' /\ journals' \in [Ids -> Journal \cup {Absent}]
      BY <1>7, <2>1, Stepped DEF PlaceBytes, NoMutation, BeforeCommit, AfterCommit, Undoing
    <2>5. TypeOK'
      BY <1>7, <2>1, <2>4 DEF PlaceBytes, Typed, TypeOK, Locations, Modes, Projection, Operation
    <2>. QED
      BY <2>4, <2>5 DEF Typed
<1>8. CASE Register
  <2>1. pc \notin NoMutation /\ J \in Journal /\ cur \in Ids /\ J.tx # Absent /\ op.name \in Names /\ op.new \in Bytes
    BY <1>8 DEF Register, Typed, Working, J, Operation, NoMutation, BeforeCommit, AfterCommit, Undoing
    <2>. DEFINE j == [J EXCEPT !.intent = op.name \in Sources]
    <2>2. j \in Journal /\ j.tx = J.tx
      BY <1>8, <2>1, (op.name \in Sources) \in BOOLEAN DEF Typed, TypeOK, Projection, Journal
    <2>3. SetJournal(j)
      BY <1>8, <2>1 DEF Register
    <2>4. Working' /\ journals' \in [Ids -> Journal \cup {Absent}]
      BY <1>8, <2>1, <2>2, <2>3, Continued DEF Register, NoMutation, BeforeCommit, AfterCommit, Undoing
    <2>5. TypeOK'
      BY <1>8, <2>1, <2>4 DEF Register, Typed, TypeOK, Locations, Modes, Projection, Operation
    <2>. QED
      BY <2>4, <2>5 DEF Typed
<1>9. CASE OpenProjectionBackup
  <2>1. pc \notin NoMutation /\ J \in Journal /\ cur \in Ids /\ J.tx # Absent /\ op.name \in Names /\ op.new \in Bytes
    BY <1>9 DEF OpenProjectionBackup, Typed, Working, J, Operation, NoMutation, BeforeCommit, AfterCommit, Undoing
    <2>. DEFINE j == [J EXCEPT !.savedDir = TRUE]
    <2>2. j \in Journal /\ j.tx = J.tx
      BY <1>9, <2>1 DEF Typed, TypeOK, Projection, Journal
    <2>3. SetJournal(j)
      BY <1>9, <2>1 DEF OpenProjectionBackup
    <2>4. Working' /\ journals' \in [Ids -> Journal \cup {Absent}]
      BY <1>9, <2>1, <2>2, <2>3, Continued DEF OpenProjectionBackup, NoMutation, BeforeCommit, AfterCommit, Undoing
    <2>5. TypeOK'
      BY <1>9, <2>1, <2>4 DEF OpenProjectionBackup, Typed, TypeOK, Locations, Modes, Projection, Operation
    <2>. QED
      BY <2>4, <2>5 DEF Typed
<1>10. CASE WriteManifest
  <2>1. pc \notin NoMutation /\ J \in Journal /\ cur \in Ids /\ J.tx # Absent /\ op.name \in Names /\ op.new \in Bytes
    BY <1>10 DEF WriteManifest, Typed, Working, J, Operation, NoMutation, BeforeCommit, AfterCommit, Undoing
    <2>. DEFINE j == [J EXCEPT !.listed = TRUE, !.manifest = {a \in Artifacts : live[a] # Absent}]
    <2>2. j \in Journal /\ j.tx = J.tx
      BY <1>10, <2>1 DEF Typed, TypeOK, Projection, Journal
    <2>3. SetJournal(j)
      BY <1>10, <2>1 DEF WriteManifest
    <2>4. Working' /\ journals' \in [Ids -> Journal \cup {Absent}]
      BY <1>10, <2>1, <2>2, <2>3, Continued DEF WriteManifest, NoMutation, BeforeCommit, AfterCommit, Undoing
    <2>5. TypeOK'
      BY <1>10, <2>1, <2>4 DEF WriteManifest, Typed, TypeOK, Locations, Modes, Projection, Operation
    <2>. QED
      BY <2>4, <2>5 DEF Typed
<1>11. CASE MoveOut
  <2>1. pc \notin NoMutation /\ J \in Journal /\ cur \in Ids /\ J.tx # Absent /\ op.name \in Names /\ op.new \in Bytes
    BY <1>11 DEF MoveOut, MovesOut, Typed, Working, J, Operation, NoMutation, BeforeCommit, AfterCommit, Undoing
  <2>2. CASE \E a \in Artifacts : MovesOut(a)
    <3>1. PICK a \in Artifacts : MovesOut(a)
      BY <2>2
    <3>0. live' \in Projection
      BY <2>1, <3>1 DEF MovesOut, ToUndo, Typed, TypeOK, Projection, Journal
      <3>. DEFINE j == [J EXCEPT !.saved[a] = live[a]]
      <3>2. j \in Journal /\ j.tx = J.tx
        BY <1>11, <2>1, <2>2, <3>1 DEF Typed, TypeOK, Projection, Journal
      <3>3. SetJournal(j)
        BY <1>11, <2>1, <2>2, <3>1 DEF MoveOut, MovesOut
      <3>4. Working' /\ journals' \in [Ids -> Journal \cup {Absent}]
        BY <1>11, <2>1, <2>2, <3>1, <3>2, <3>3, Continued DEF MoveOut, MovesOut, NoMutation, BeforeCommit, AfterCommit, Undoing
      <3>5. TypeOK'
        BY <1>11, <2>1, <2>2, <3>1, <3>0, <3>4 DEF MoveOut, MovesOut, Typed, TypeOK, Locations, Modes, Operation
      <3>. QED
        BY <3>4, <3>5 DEF Typed
  <2>3. CASE UNCHANGED <<live, journals>> /\ pc' = "moveIn"
      <3>4. Working' /\ journals' \in [Ids -> Journal \cup {Absent}]
        BY <1>11, <2>1, <2>3, Stepped DEF MoveOut, MovesOut, NoMutation, BeforeCommit, AfterCommit, Undoing
      <3>5. TypeOK'
        BY <1>11, <2>1, <2>3, <3>4 DEF MoveOut, MovesOut, Typed, TypeOK, Locations, Modes, Projection, Operation
      <3>. QED
        BY <3>4, <3>5 DEF Typed
  <2>. QED
    BY <1>11, <2>2, <2>3 DEF MoveOut, MovesOut
<1>12. CASE MoveIn
  <2>1. pc \notin NoMutation /\ J \in Journal /\ cur \in Ids /\ J.tx # Absent /\ op.name \in Names /\ op.new \in Bytes
    BY <1>12 DEF MoveIn, MovesIn, Typed, Working, J, Operation, NoMutation, BeforeCommit, AfterCommit, Undoing
  <2>2. CASE \E a \in Artifacts : MovesIn(a)
    <3>1. PICK a \in Artifacts : MovesIn(a)
      BY <2>2
    <3>0. live' \in Projection
      BY <2>1, <3>1 DEF MovesIn, ToUndo, Typed, TypeOK, Projection, Journal
      <3>. DEFINE j == [J EXCEPT !.staged[a] = Absent]
      <3>2. j \in Journal /\ j.tx = J.tx
        BY <1>12, <2>1, <2>2, <3>1 DEF Typed, TypeOK, Projection, Journal
      <3>3. SetJournal(j)
        BY <1>12, <2>1, <2>2, <3>1 DEF MoveIn, MovesIn
      <3>4. Working' /\ journals' \in [Ids -> Journal \cup {Absent}]
        BY <1>12, <2>1, <2>2, <3>1, <3>2, <3>3, Continued DEF MoveIn, MovesIn, NoMutation, BeforeCommit, AfterCommit, Undoing
      <3>5. TypeOK'
        BY <1>12, <2>1, <2>2, <3>1, <3>0, <3>4 DEF MoveIn, MovesIn, Typed, TypeOK, Locations, Modes, Operation
      <3>. QED
        BY <3>4, <3>5 DEF Typed
  <2>3. CASE UNCHANGED <<live, journals>> /\ pc' = "commit"
      <3>4. Working' /\ journals' \in [Ids -> Journal \cup {Absent}]
        BY <1>12, <2>1, <2>3, Stepped DEF MoveIn, MovesIn, NoMutation, BeforeCommit, AfterCommit, Undoing
      <3>5. TypeOK'
        BY <1>12, <2>1, <2>3, <3>4 DEF MoveIn, MovesIn, Typed, TypeOK, Locations, Modes, Projection, Operation
      <3>. QED
        BY <3>4, <3>5 DEF Typed
  <2>. QED
    BY <1>12, <2>2, <2>3 DEF MoveIn, MovesIn
<1>13. CASE Commit
  <2>1. pc \notin NoMutation /\ J \in Journal /\ cur \in Ids /\ J.tx # Absent /\ op.name \in Names /\ op.new \in Bytes
    BY <1>13 DEF Commit, Typed, Working, J, Operation, NoMutation, BeforeCommit, AfterCommit, Undoing
    <2>4. Working' /\ journals' \in [Ids -> Journal \cup {Absent}]
      BY <1>13, <2>1, Stepped DEF Commit, NoMutation, BeforeCommit, AfterCommit, Undoing
    <2>5. TypeOK'
      BY <1>13, <2>1, <2>4 DEF Commit, Typed, TypeOK, Locations, Modes, Projection, Operation
    <2>. QED
      BY <2>4, <2>5 DEF Typed
<1>14. CASE RetireProjection
  <2>1. pc \notin NoMutation /\ J \in Journal /\ cur \in Ids /\ J.tx # Absent
    BY <1>14 DEF RetireProjection, Typed, Working, J, NoMutation, BeforeCommit, AfterCommit, Undoing
  <2>. DEFINE j == WithoutProjection(J)
  <2>2. j \in Journal /\ j.tx = J.tx
    BY <2>1, FileTyped, ZenonT(60) DEF Journal, WithoutProjection
  <2>3. Working' /\ journals' \in [Ids -> Journal \cup {Absent}]
    <3>1. CASE SetJournal(j)
      BY <1>14, <2>1, <2>2, <3>1, Continued DEF RetireProjection, NoMutation, BeforeCommit, AfterCommit, Undoing
    <3>2. CASE UNCHANGED journals
      BY <1>14, <2>1, <3>2, Stepped DEF RetireProjection, NoMutation, BeforeCommit, AfterCommit, Undoing
    <3>. QED
      BY <1>14, <3>1, <3>2 DEF RetireProjection
  <2>4. TypeOK'
    BY <1>14, <2>3 DEF RetireProjection, Typed, TypeOK, Locations
  <2>. QED
    BY <2>3, <2>4 DEF Typed
<1>15. CASE DropBackup
  <2>1. pc \notin NoMutation /\ J \in Journal /\ cur \in Ids /\ J.tx # Absent
    BY <1>15 DEF DropBackup, Typed, Working, J, Operation, NoMutation, BeforeCommit, AfterCommit, Undoing
  <2>2. CASE SetJournal([J EXCEPT !.backup = Absent])
      <3>. DEFINE j == [J EXCEPT !.backup = Absent]
      <3>2. j \in Journal /\ j.tx = J.tx
        BY <1>15, <2>1, <2>2, AbsentInBytes DEF Typed, TypeOK, Projection, Journal
      <3>3. SetJournal(j)
        BY <1>15, <2>1, <2>2 DEF DropBackup
      <3>4. Working' /\ journals' \in [Ids -> Journal \cup {Absent}]
        BY <1>15, <2>1, <2>2, <3>2, <3>3, Continued DEF DropBackup, NoMutation, BeforeCommit, AfterCommit, Undoing
      <3>5. TypeOK'
        BY <1>15, <2>1, <2>2, <3>4 DEF DropBackup, Typed, TypeOK, Locations, Modes, Projection, Operation
      <3>. QED
        BY <3>4, <3>5 DEF Typed
  <2>3. CASE UNCHANGED journals
      <3>4. Working' /\ journals' \in [Ids -> Journal \cup {Absent}]
        BY <1>15, <2>1, <2>3, Stepped DEF DropBackup, NoMutation, BeforeCommit, AfterCommit, Undoing
      <3>5. TypeOK'
        BY <1>15, <2>1, <2>3, <3>4 DEF DropBackup, Typed, TypeOK, Locations, Modes, Projection, Operation
      <3>. QED
        BY <3>4, <3>5 DEF Typed
  <2>. QED
    BY <1>15, <2>2, <2>3 DEF DropBackup
<1>16. CASE SettleCommit
  <2>1. pc \notin NoMutation /\ J \in Journal /\ cur \in Ids /\ J.tx # Absent
    BY <1>16 DEF SettleCommit, Typed, Working, J, NoMutation, BeforeCommit, AfterCommit, Undoing
  <2>2. CASE UNCHANGED journals /\ Goto(pc') /\ pc' \in {"remove", "unrecord"}
    <3>1. Working' /\ journals' \in [Ids -> Journal \cup {Absent}]
      BY <2>1, <2>2, Stepped DEF NoMutation, BeforeCommit, AfterCommit, Undoing
    <3>2. TypeOK'
      BY <1>16, <2>2, <3>1 DEF SettleCommit, Typed, TypeOK, Locations
    <3>. QED
      BY <3>1, <3>2 DEF Typed
  <2>3. CASE UNCHANGED journals /\ Finish
    <3>1. Working'
      BY <2>3, Stopped DEF Journalled
    <3>2. TypeOK'
      BY <1>16, <2>3 DEF SettleCommit, Typed, TypeOK, Locations
    <3>. QED
      BY <3>1, <3>2 DEF Typed
  <2>4. CASE SetJournal([J EXCEPT !.unwritten = TRUE]) /\ Goto("settleWrite")
    <3>. DEFINE j == [J EXCEPT !.unwritten = TRUE]
    <3>1. j \in Journal /\ j.tx = J.tx
      <4>1. j \in Journal
        BY <2>1, FileTyped, Zenon
      <4>. QED
        BY <2>1, <4>1 DEF Journal
    <3>2. Working' /\ journals' \in [Ids -> Journal \cup {Absent}]
      BY <2>1, <2>4, <3>1, Continued DEF NoMutation, BeforeCommit, AfterCommit, Undoing
    <3>3. TypeOK'
      BY <1>16, <2>4, <3>2 DEF SettleCommit, Typed, TypeOK, Locations
    <3>. QED
      BY <3>2, <3>3 DEF Typed
  <2>. QED
    BY <1>16, <2>2, <2>3, <2>4 DEF SettleCommit
<1>16a. CASE WriteCommitted
  <2>1. pc \notin NoMutation /\ J \in Journal /\ cur \in Ids /\ J.tx # Absent
    BY <1>16a DEF WriteCommitted, Typed, Working, J, NoMutation, BeforeCommit, AfterCommit, Undoing
  <2>. DEFINE j == [J EXCEPT !.committed = TRUE, !.unwritten = FALSE]
  <2>2. j \in Journal /\ j.tx = J.tx
    BY <2>1 DEF Journal
  <2>3. SetJournal(j)
    BY <1>16a DEF WriteCommitted
  <2>4. Working' /\ journals' \in [Ids -> Journal \cup {Absent}]
    BY <1>16a, <2>1, <2>2, <2>3, Continued DEF WriteCommitted, NoMutation, BeforeCommit, AfterCommit, Undoing
  <2>5. TypeOK'
    BY <1>16a, <2>4 DEF WriteCommitted, Typed, TypeOK, Locations
  <2>. QED
    BY <2>4, <2>5 DEF Typed
<1>17. CASE DeleteCommitRow
  <2>1. pc \notin NoMutation /\ J \in Journal /\ cur \in Ids /\ J.tx # Absent
    BY <1>17 DEF DeleteCommitRow, Typed, Working, J, Operation, NoMutation, BeforeCommit, AfterCommit, Undoing
    <2>4. Working' /\ journals' \in [Ids -> Journal \cup {Absent}]
      BY <1>17, <2>1, Stepped DEF DeleteCommitRow, NoMutation, BeforeCommit, AfterCommit, Undoing
    <2>5. TypeOK'
      BY <1>17, <2>1, <2>4 DEF DeleteCommitRow, Typed, TypeOK, Locations, Modes, Projection, Operation
    <2>. QED
      BY <2>4, <2>5 DEF Typed
<1>18. CASE StampLineage
  <2>1. pc \notin NoMutation /\ J \in Journal /\ cur \in Ids /\ J.tx # Absent
    BY <1>18 DEF StampLineage, Stamped, Typed, Working, J, Operation, NoMutation, BeforeCommit, AfterCommit, Undoing
    <2>4. Working' /\ journals' \in [Ids -> Journal \cup {Absent}]
      BY <1>18, <2>1, Stepped DEF StampLineage, Stamped, NoMutation, BeforeCommit, AfterCommit, Undoing
    <2>5. TypeOK'
      BY <1>18, <2>1, <2>4 DEF StampLineage, Stamped, Typed, TypeOK, Locations, Modes, Projection, Operation
    <2>. QED
      BY <2>4, <2>5 DEF Typed
<1>19. CASE MarkSettled
  <2>1. pc \notin NoMutation /\ J \in Journal /\ cur \in Ids /\ J.tx # Absent
    BY <1>19 DEF MarkSettled, Typed, Working, J, NoMutation, BeforeCommit, AfterCommit, Undoing
  <2>. DEFINE j == [J EXCEPT !.unwritten = TRUE]
  <2>2. j \in Journal /\ j.tx = J.tx
    <3>1. j \in Journal
      BY <2>1, FileTyped, Zenon
    <3>. QED
      BY <2>1, <3>1 DEF Journal
  <2>3. SetJournal(j)
    BY <1>19 DEF MarkSettled
  <2>4. Working' /\ journals' \in [Ids -> Journal \cup {Absent}]
    BY <1>19, <2>1, <2>2, <2>3, Continued DEF MarkSettled, NoMutation, BeforeCommit, AfterCommit, Undoing
  <2>5. TypeOK'
    BY <1>19, <2>4 DEF MarkSettled, Typed, TypeOK, Locations
  <2>. QED
    BY <2>4, <2>5 DEF Typed
<1>19a. CASE WriteSettled
  <2>1. pc \notin NoMutation /\ J \in Journal /\ cur \in Ids /\ J.tx # Absent
    BY <1>19a DEF WriteSettled, Typed, Working, J, NoMutation, BeforeCommit, AfterCommit, Undoing
  <2>. DEFINE j == [J EXCEPT !.settled = TRUE, !.unwritten = FALSE]
  <2>2. j \in Journal /\ j.tx = J.tx
    BY <2>1 DEF Journal
  <2>3. SetJournal(j)
    BY <1>19a DEF WriteSettled
  <2>4. Working' /\ journals' \in [Ids -> Journal \cup {Absent}]
    BY <1>19a, <2>1, <2>2, <2>3, Continued DEF WriteSettled, NoMutation, BeforeCommit, AfterCommit, Undoing
  <2>5. TypeOK'
    BY <1>19a, <2>4 DEF WriteSettled, Typed, TypeOK, Locations
  <2>. QED
    BY <2>4, <2>5 DEF Typed
<1>20. CASE RemoveJournal
  <2>1. pc \notin NoMutation /\ pc # "idle"
    BY <1>20 DEF RemoveJournal, NoMutation
  <2>2. Journalled' \subseteq Journalled
    BY <1>20 DEF RemoveJournal, SetJournal, Journalled, Typed, TypeOK
  <2>3. Working'
    BY <1>20, <2>1, <2>2, Stopped DEF RemoveJournal, Typed, Working
  <2>4. journals' \in [Ids -> Journal \cup {Absent}] /\ commits' \subseteq Ids /\ decided' \subseteq Ids
    BY <1>20 DEF RemoveJournal, SetJournal, Typed, TypeOK
  <2>5. TypeOK'
    BY <1>20, <2>4 DEF RemoveJournal, Typed, TypeOK, Locations, Modes
  <2>. QED
    BY <2>3, <2>5 DEF Typed
<1>21. CASE TearJournal
  <2>1. pc \notin NoMutation /\ J \in Journal
    BY <1>21 DEF TearJournal, Typed, Working, J, NoMutation
  <2>2. \E j \in Journal : SetJournal(j)
    <3>1. CASE TearsProjection
      BY <2>1, <3>1, ProjectionTorn
    <3>2. CASE ~TearsProjection
      BY <1>21, <2>1, <3>2, FileTyped, Zenon DEF TearJournal
    <3>. QED
      BY <3>1, <3>2
  <2>3. PICK j \in Journal : SetJournal(j)
    BY <2>2
  <2>4. Working' /\ journals' \in [Ids -> Journal \cup {Absent}]
    BY <1>21, <2>1, <2>3, Continued DEF TearJournal, NoMutation, BeforeCommit, AfterCommit, Undoing
  <2>5. TypeOK'
    BY <1>21, <2>4 DEF TearJournal, Typed, TypeOK, Locations
  <2>. QED
    BY <2>4, <2>5 DEF Typed
<1>22. CASE \E i \in Ids : RecoverJournal(i)
  <2>1. PICK i \in Ids : RecoverJournal(i)
    BY <1>22
  <2>2. TypeOK'
    BY <2>1 DEF RecoverJournal, Typed, TypeOK, Locations, Modes
  <2>3. CASE Readable(i) \/ ~Recoverable(i)
    <3>1. /\ cur' = i /\ UNCHANGED <<journals, op, mode>> /\ pc = "recover"
          /\ pc' \in {"restore", "forward", "settle", "remove"}
          /\ pc' # "remove" => journals[i].tx # Absent
          /\ journals[i] # Absent
      BY <2>1, <2>3 DEF RecoverJournal, Readable, Journalled
    <3>2. Journalled' = Journalled /\ journals[i] \in Journal
      BY <3>1 DEF Journalled, Typed, TypeOK
    <3>3. /\ \A x, y \in Journalled : x = y
          /\ mode # "startup" => op \in Operation
      BY <3>1 DEF Typed, Working
    <3>4. Working'
      BY <3>1, <3>2, <3>3 DEF Working, Clean, NoMutation, BeforeCommit, AfterCommit, Undoing
    <3>. QED
      BY <2>2, <3>4 DEF Typed
  <2>4. CASE ~Readable(i) /\ Recoverable(i)
    <3>1. Working'
      BY <2>1, <2>4, Stopped DEF RecoverJournal, Journalled
    <3>. QED
      BY <2>2, <3>1 DEF Typed
  <2>. QED
    BY <2>3, <2>4
<1>23. CASE Recovered
  <2>1. /\ pc' \in {"heal", "rebuild", "begin"} /\ UNCHANGED <<journals, op, mode>>
        /\ pc' = "begin" => mode # "startup"
        /\ pc # "idle" /\ Journalled = {}
    BY <1>23 DEF Recovered
  <2>2. TypeOK'
    BY <1>23 DEF Recovered, Typed, TypeOK, Locations, Modes
  <2>3. Journalled' = {}
    BY <2>1 DEF Journalled
  <2>4. mode # "startup" => op \in Operation
    BY <2>1 DEF Typed, Working
  <2>5. Working'
    BY <2>1, <2>3, <2>4 DEF Working, Clean, NoMutation, BeforeCommit, AfterCommit, Undoing
  <2>. QED
    BY <2>2, <2>5 DEF Typed
<1>24. CASE RestoreDocument
  <2>1. pc \notin NoMutation /\ J \in Journal /\ cur \in Ids /\ J.tx # Absent
    BY <1>24 DEF RestoreDocument, Typed, Working, J, Operation, NoMutation, BeforeCommit, AfterCommit, Undoing
  <2>2. files' \in [Names -> Bytes]
    BY <1>24 DEF RestoreDocument, Typed, TypeOK, Bytes
    <2>4. Working' /\ journals' \in [Ids -> Journal \cup {Absent}]
      BY <1>24, <2>1, <2>2, Stepped DEF RestoreDocument, NoMutation, BeforeCommit, AfterCommit, Undoing
    <2>5. TypeOK'
      BY <1>24, <2>1, <2>2, <2>4 DEF RestoreDocument, Typed, TypeOK, Locations, Modes, Projection, Operation
    <2>. QED
      BY <2>4, <2>5 DEF Typed
<1>25. CASE RestoreRename
  <2>1. pc \notin NoMutation /\ J \in Journal /\ cur \in Ids /\ J.tx # Absent
    BY <1>25 DEF RestoreRename, Typed, Working, J, Operation, NoMutation, BeforeCommit, AfterCommit, Undoing
  <2>0. files' \in [Names -> Bytes] /\ Absent \in Bytes
    BY <1>25, <2>1 DEF RestoreRename, Typed, TypeOK, Bytes, Journal
    <2>. DEFINE j == [J EXCEPT !.backup = Absent]
    <2>2. j \in Journal /\ j.tx = J.tx
      BY <1>25, <2>1, <2>0, AbsentInBytes DEF Typed, TypeOK, Projection, Journal
    <2>3. SetJournal(j)
      BY <1>25, <2>1, <2>0 DEF RestoreRename
    <2>4. Working' /\ journals' \in [Ids -> Journal \cup {Absent}]
      BY <1>25, <2>1, <2>0, <2>2, <2>3, Continued DEF RestoreRename, NoMutation, BeforeCommit, AfterCommit, Undoing
    <2>5. TypeOK'
      BY <1>25, <2>1, <2>0, <2>4 DEF RestoreRename, Typed, TypeOK, Locations, Modes, Projection, Operation
    <2>. QED
      BY <2>4, <2>5 DEF Typed
<1>26. CASE UndoProjection
  <2>1. pc \notin NoMutation /\ J \in Journal /\ cur \in Ids /\ J.tx # Absent
    BY <1>26 DEF UndoProjection, UndoesArtifact, Typed, Working, J, Operation, NoMutation, BeforeCommit, AfterCommit, Undoing
  <2>2. CASE ~J.proj
      <3>4. Working' /\ journals' \in [Ids -> Journal \cup {Absent}]
        BY <1>26, <2>1, <2>2, Stepped DEF UndoProjection, UndoesArtifact, NoMutation, BeforeCommit, AfterCommit, Undoing
      <3>5. TypeOK'
        BY <1>26, <2>1, <2>2, <3>4 DEF UndoProjection, UndoesArtifact, Typed, TypeOK, Locations, Modes, Projection, Operation
      <3>. QED
        BY <3>4, <3>5 DEF Typed
  <2>3. CASE \E a \in Artifacts : UndoesArtifact(a)
    <3>1. PICK a \in Artifacts : UndoesArtifact(a)
      BY <2>3
    <3>0. live' \in Projection
      BY <2>1, <3>1 DEF UndoesArtifact, ToUndo, Typed, TypeOK, Projection, Journal
      <3>. DEFINE j == [J EXCEPT !.saved[a] = Absent]
      <3>2. j \in Journal /\ j.tx = J.tx
        BY <1>26, <2>1, <2>3, <3>1 DEF Typed, TypeOK, Projection, Journal
      <3>3. SetJournal(j)
        BY <1>26, <2>1, <2>3, <3>1 DEF UndoProjection, UndoesArtifact
      <3>4. Working' /\ journals' \in [Ids -> Journal \cup {Absent}]
        BY <1>26, <2>1, <2>3, <3>1, <3>2, <3>3, Continued DEF UndoProjection, UndoesArtifact, NoMutation, BeforeCommit, AfterCommit, Undoing
      <3>5. TypeOK'
        BY <1>26, <2>1, <2>3, <3>1, <3>0, <3>4 DEF UndoProjection, UndoesArtifact, Typed, TypeOK, Locations, Modes, Operation
      <3>. QED
        BY <3>4, <3>5 DEF Typed
  <2>4. CASE UNCHANGED <<live, journals>> /\ pc' = "dropProjection" /\ UNCHANGED <<mode, op, cur, rolledBack>>
      <3>4. Working' /\ journals' \in [Ids -> Journal \cup {Absent}]
        BY <1>26, <2>1, <2>4, Stepped DEF UndoProjection, UndoesArtifact, NoMutation, BeforeCommit, AfterCommit, Undoing
      <3>5. TypeOK'
        BY <1>26, <2>1, <2>4, <3>4 DEF UndoProjection, UndoesArtifact, Typed, TypeOK, Locations, Modes, Projection, Operation
      <3>. QED
        BY <3>4, <3>5 DEF Typed
  <2>5. CASE UNCHANGED <<live, journals>> /\ Finish
    <3>1. Working'
      BY <2>5, Stopped DEF Journalled
    <3>2. TypeOK'
      BY <1>26, <2>5 DEF UndoProjection, Typed, TypeOK, Locations, Modes
    <3>. QED
      BY <3>1, <3>2 DEF Typed
  <2>. QED
    BY <1>26, <2>2, <2>3, <2>4, <2>5 DEF UndoProjection
<1>27. CASE DropProjection
  <2>. DEFINE j == WithoutProjection(J)
  <2>1. pc \notin NoMutation /\ J \in Journal /\ J.tx # Absent
    BY <1>27 DEF DropProjection, Typed, Working, J, NoMutation, BeforeCommit, AfterCommit, Undoing
  <2>2. j \in Journal /\ j.tx = J.tx
    BY <2>1, NoArtifactsTyped DEF WithoutProjection, Journal
  <2>3. SetJournal(j)
    BY <1>27 DEF DropProjection
  <2>4. journals' \in [Ids -> Journal \cup {Absent}] /\ Journalled' = Journalled
    BY <2>1, <2>2, <2>3, Updated
  <2>5. TypeOK'
    BY <1>27, <2>4 DEF DropProjection, Typed, TypeOK, Locations, Modes
  <2>6. CASE Finish
    BY <2>4, <2>5, <2>6, Stopped DEF Typed
  <2>7. CASE ~Finish
    <3>1. /\ pc' \in {"settle", "restore", "remove"} /\ UNCHANGED <<op, cur>>
          /\ mode' # "startup" => mode # "startup"
      BY <1>27, <2>7 DEF DropProjection
    <3>2. Working'
      BY <2>1, <2>2, <2>3, <3>1, Continued DEF BeforeCommit, AfterCommit, Undoing
    <3>. QED
      BY <2>5, <3>2 DEF Typed
  <2>. QED
    BY <2>6, <2>7
<1>28. CASE TearProjection
  <2>1. pc \notin NoMutation /\ J \in Journal /\ cur \in Ids /\ J.tx # Absent
    BY <1>28 DEF TearProjection, Typed, Working, J, NoMutation, BeforeCommit, AfterCommit, Undoing
  <2>2. PICK j \in Journal : SetJournal(j) /\ j.tx = J.tx
    BY <1>28, <2>1, ProjectionTorn DEF TearProjection
  <2>3. pc' = pc /\ UNCHANGED <<mode, op, cur>> /\ pc \in {"retire", "dropProjection", "forward"}
    BY <1>28 DEF TearProjection
  <2>4. Working' /\ journals' \in [Ids -> Journal \cup {Absent}]
    BY <2>1, <2>2, <2>3, Continued DEF BeforeCommit, AfterCommit, Undoing
  <2>5. TypeOK'
    BY <1>28, <2>4 DEF TearProjection, Typed, TypeOK, Locations
  <2>. QED
    BY <2>4, <2>5 DEF Typed
<1>29. CASE Heal
  <2>1. Working'
    BY <1>29 DEF Heal, Journalled, Typed, Working, Clean, NoMutation, BeforeCommit, AfterCommit, Undoing
  <2>2. TypeOK'
    BY <1>29 DEF Heal, Journalled, Typed, TypeOK, Locations, Modes, Projection, Operation
  <2>. QED
    BY <2>1, <2>2 DEF Typed
<1>30. CASE RebuildOut
  <2>1. Working'
    BY <1>30 DEF RebuildOut, Journalled, Typed, Working, Clean, NoMutation, BeforeCommit, AfterCommit, Undoing
  <2>2. TypeOK'
    BY <1>30 DEF RebuildOut, Journalled, Typed, TypeOK, Locations, Modes, Projection, Operation
  <2>. QED
    BY <2>1, <2>2 DEF Typed
<1>31. CASE RebuildIn
  <2>1. Working'
    BY <1>31 DEF RebuildIn, Journalled, Typed, Working, Clean, NoMutation, BeforeCommit, AfterCommit, Undoing
  <2>2. TypeOK'
    BY <1>31, BuildTyped, ZenonT(60) DEF RebuildIn, Journalled, Typed, TypeOK, Locations, Modes, Projection, Operation
  <2>. QED
    BY <2>1, <2>2 DEF Typed
<1>32. CASE StampRebuild
  <2>1. Working'
    BY <1>32 DEF StampRebuild, Stamped, Journalled, Typed, Working, Clean, NoMutation, BeforeCommit, AfterCommit, Undoing
  <2>2. TypeOK'
    BY <1>32 DEF StampRebuild, Stamped, Journalled, Typed, TypeOK, Locations, Modes, Projection, Operation
  <2>. QED
    BY <2>1, <2>2 DEF Typed
<1>33. CASE FailBeforeCommit
  <2>1. pc \notin NoMutation /\ J \in Journal /\ cur \in Ids /\ J.tx # Absent
    BY <1>33 DEF FailBeforeCommit, Throw, WithoutProjection, Typed, Working, J, Operation, NoMutation, BeforeCommit, AfterCommit, Undoing
  <2>2. CASE SetJournal(WithoutProjection(J)) /\ To("restore", "discard")
      <3>. DEFINE j == WithoutProjection(J)
      <3>2. j \in Journal /\ j.tx = J.tx
        BY <1>33, <2>1, <2>2, NoArtifactsTyped DEF Typed, TypeOK, Projection, Journal, WithoutProjection
      <3>3. SetJournal(j)
        BY <1>33, <2>1, <2>2 DEF FailBeforeCommit, Throw, WithoutProjection
      <3>4. Working' /\ journals' \in [Ids -> Journal \cup {Absent}]
        BY <1>33, <2>1, <2>2, <3>2, <3>3, Continued DEF FailBeforeCommit, Throw, WithoutProjection, NoMutation, BeforeCommit, AfterCommit, Undoing
      <3>5. TypeOK'
        BY <1>33, <2>1, <2>2, <3>4 DEF FailBeforeCommit, Throw, WithoutProjection, Typed, TypeOK, Locations, Modes, Projection, Operation
      <3>. QED
        BY <3>4, <3>5 DEF Typed
  <2>3. CASE UNCHANGED journals
      <3>4. Working' /\ journals' \in [Ids -> Journal \cup {Absent}]
        BY <1>33, <2>1, <2>3, Stepped DEF FailBeforeCommit, Throw, WithoutProjection, NoMutation, BeforeCommit, AfterCommit, Undoing
      <3>5. TypeOK'
        BY <1>33, <2>1, <2>3, <3>4 DEF FailBeforeCommit, Throw, WithoutProjection, Typed, TypeOK, Locations, Modes, Projection, Operation
      <3>. QED
        BY <3>4, <3>5 DEF Typed
  <2>. QED
    BY <1>33, <2>2, <2>3 DEF FailBeforeCommit, Throw, WithoutProjection
<1>34. CASE FailAfterCommit
  <2>1. TypeOK'
    BY <1>34, ThrowTyped DEF FailAfterCommit, Typed, TypeOK, Locations, Modes
  <2>2. CASE Finish
    BY <1>34, <2>1, <2>2, Stopped DEF FailAfterCommit, Typed, Journalled
  <2>3. CASE ~Finish
    <3>1. /\ pc \notin NoMutation /\ pc' \in {"restore", "forward"} /\ UNCHANGED <<op, cur, journals>>
          /\ mode # "startup" /\ J.tx # Absent
      BY <1>34, <2>3 DEF FailAfterCommit, NoMutation
    <3>2. Working'
      BY <3>1, Stepped DEF BeforeCommit, AfterCommit, Undoing
    <3>. QED
      BY <2>1, <3>2 DEF Typed
  <2>. QED
    BY <2>2, <2>3
<1>35. CASE FailOutright
  <2>1. Working'
    BY <1>35, Stopped DEF FailOutright, Journalled, Operation
  <2>2. TypeOK'
    BY <1>35, ThrowTyped DEF FailOutright, Journalled, Typed, TypeOK, Locations, Modes, Projection, Operation
  <2>. QED
    BY <2>1, <2>2 DEF Typed
<1>36. CASE Crash
  <2>1. Working'
    BY <1>36, Stopped DEF Crash, Journalled, Operation
  <2>2. TypeOK'
    BY <1>36, CrashTyped DEF Crash, Journalled, Typed, TypeOK, Locations, Modes, Projection, Operation
  <2>. QED
    BY <2>1, <2>2 DEF Typed
<1>37. CASE Restart
  <2>1. Working'
    BY <1>37, Stopped DEF Restart, Journalled, Typed, Working, Operation
  <2>2. TypeOK'
    BY <1>37 DEF Restart, Journalled, Typed, TypeOK, Locations, Modes, Projection, Operation
  <2>. QED
    BY <2>1, <2>2 DEF Typed
<1>38. CASE UNCHANGED vars
  <2>1. Working'
    BY <1>38 DEF vars, Journalled, J, Typed, Working, Clean, NoMutation, BeforeCommit, AfterCommit, Undoing
  <2>2. TypeOK'
    BY <1>38 DEF vars, Journalled, Typed, TypeOK, Locations, Modes, Projection, Operation
  <2>. QED
    BY <2>1, <2>2 DEF Typed
<1>. QED
  BY <1>1, <1>2, <1>3, <1>4, <1>5, <1>6, <1>7, <1>8, <1>9, <1>10, <1>11, <1>12, <1>13, <1>14, <1>15, <1>16, <1>16a, <1>17, <1>18, <1>19, <1>19a, <1>20, <1>21, <1>22, <1>23, <1>24, <1>25, <1>26, <1>27, <1>28, <1>29, <1>30, <1>31, <1>32, <1>33, <1>34, <1>35, <1>36, <1>37, <1>38 DEF Next, Apply, Settle, Recover, Fail

-----------------------------------------------------------------------------
(* Types, and the one journal.                                             *)

\* Every variable keeps its type: no step of an operation, a recovery or a
\* compensation works on a journal that is not there (document-mutation.ts).
THEOREM TypeCorrect == Spec => []TypeOK
<1>1. Typed => TypeOK
  BY DEF Typed
<1>. QED
  BY <1>1, InitTyped, StepTyped, PTL DEF Spec

\* However many operations are begun, stopped and failed, at most one mutation
\* of the matter is journalled at a time: every operation first recovers what
\* an earlier one left (recoverDocumentMutationsLocked).
THEOREM OneJournalHolds == Spec => []OneJournal
<1>1. Typed => OneJournal
  <2>. SUFFICES ASSUME Typed PROVE OneJournal
    OBVIOUS
  <2>1. \A i, j \in Journalled : i = j
    BY DEF Typed, Working
  <2>2. CASE Journalled = {}
    BY <2>2, FS_EmptySet DEF OneJournal
  <2>3. CASE Journalled # {}
    <3>1. PICK i : Journalled = {i}
      BY <2>1, <2>3
    <3>2. Cardinality(Journalled) = 1
      BY <3>1, FS_Singleton
    <3>. QED
      BY <3>2 DEF OneJournal
  <2>. QED
    BY <2>2, <2>3
<1>. QED
  BY <1>1, InitTyped, StepTyped, PTL DEF Spec

-----------------------------------------------------------------------------
(* The evidence of a commit.                                               *)

\* A step that neither commits nor touches the evidence of any mutation.
SameEvidence ==
    /\ UNCHANGED <<commits, decided>>
    /\ Journalled' = Journalled
    /\ \A i \in Journalled : /\ journals'[i].tx = journals[i].tx
                             /\ journals'[i].committed = journals[i].committed
                             /\ journals'[i].settled = journals[i].settled

\* A step that leaves the evidence alone keeps what it says.
LEMMA RecordedKept == Recorded /\ SameEvidence => Recorded'
  BY DEF Recorded, SameEvidence, Committed

\* A step that rewrites the journal but for the evidence leaves it alone.
LEMMA Rewritten ==
  ASSUME Typed, pc \notin NoMutation, NEW j, j # Absent, SetJournal(j),
         j.tx = J.tx, j.committed = J.committed, j.settled = J.settled,
         UNCHANGED <<commits, decided>>
  PROVE  SameEvidence
<1>1. cur \in Ids /\ J # Absent /\ J = journals[cur] /\ journals \in [Ids -> Journal \cup {Absent}]
  BY JournalAssumption DEF Typed, TypeOK, Working, J
<1>2. journals'[cur] = j /\ \A i \in Ids : i # cur => journals'[i] = journals[i]
  BY <1>1 DEF SetJournal
<1>3. Journalled' = Journalled
  BY <1>1, <1>2 DEF Journalled
<1>. QED
  BY <1>1, <1>2, <1>3 DEF SameEvidence, Journalled

\* At first nothing is committed.
LEMMA InitEvidence == Init => Evidence
  BY DEF Init, Evidence, Recorded, Placed, Journalled, Uncommitted, NoMutation, BeforeCommit, AfterCommit, Undoing

\* Every step keeps the evidence, where a directory is removed as one step.
LEMMA StepEvidence == ~TornRemoval /\ Typed /\ Typed' /\ Evidence /\ [Next]_vars => Evidence'
<1>. SUFFICES ASSUME ~TornRemoval, Typed, Typed', Recorded, Placed, [Next]_vars PROVE Evidence'
  BY DEF Evidence
<1>. USE DEF Goto, Finish, To, disk, db
<1>1. CASE \E n \in Names, c \in Bytes : Start(n, c)
  <2>1. SameEvidence
    BY <1>1 DEF Start, SameEvidence, Journalled
  <2>2. Placed'
    BY <1>1, <2>1 DEF Start, SameEvidence, Placed, NoMutation, BeforeCommit, AfterCommit, Undoing, Uncommitted
  <2>. QED
    BY <2>1, <2>2, RecordedKept DEF Evidence
<1>2. CASE Refuse
  <2>1. SameEvidence
    BY <1>2 DEF Refuse, SameEvidence, Journalled
  <2>2. Placed'
    BY <1>2, <2>1 DEF Refuse, SameEvidence, Placed, NoMutation, BeforeCommit, AfterCommit, Undoing, Uncommitted
  <2>. QED
    BY <2>1, <2>2, RecordedKept DEF Evidence
<1>3. CASE BeginJournal
  <2>1. PICK i \in Ids \ (Journalled \cup commits) : cur' = i /\ journals' = [journals EXCEPT ![i] = EmptyJournal]
    BY <1>3 DEF BeginJournal
  <2>2. EmptyJournal # Absent /\ ~EmptyJournal.committed /\ ~EmptyJournal.settled
    <3>1. EmptyJournal \in Journal
      BY NoArtifactsTyped, AbsentInBytes DEF EmptyJournal, Journal
    <3>. QED
      BY <3>1, JournalAssumption DEF EmptyJournal
  <2>3. /\ Journalled' = Journalled \cup {i} /\ i \notin decided /\ journals'[i] = EmptyJournal
        /\ \A x \in Journalled : journals'[x] = journals[x]
    BY <2>1, <2>2 DEF Journalled, Recorded, Typed, TypeOK
  <2>4. UNCHANGED <<commits, decided>> /\ pc' = "journal"
    BY <1>3 DEF BeginJournal
  <2>5. Recorded'
    BY <2>1, <2>2, <2>3, <2>4 DEF Recorded, Committed
  <2>6. Placed'
    BY <2>1, <2>3, <2>4 DEF Placed, Uncommitted, BeforeCommit, AfterCommit, Undoing
  <2>. QED
    BY <2>5, <2>6 DEF Evidence
<1>4. CASE WriteTransaction
  <2>1. /\ cur \in Ids /\ J \in Journal /\ J # Absent /\ cur \notin decided /\ pc \notin NoMutation
        /\ pc' \in {"stage", "park"} /\ UNCHANGED <<cur, commits, decided>>
    BY <1>4, JournalAssumption DEF WriteTransaction, Typed, Working, J, NoMutation, Placed, Uncommitted
  <2>2. journals'[cur].committed = J.committed /\ journals'[cur].settled = J.settled
    BY <1>4, <2>1 DEF WriteTransaction, SetJournal, Typed, TypeOK, Journal
  <2>3. \A i \in Ids : i # cur => journals'[i] = journals[i]
    BY <1>4 DEF WriteTransaction, SetJournal, Typed, TypeOK
  <2>4. journals'[cur] # Absent
    BY <1>4, <2>1, JournalAssumption DEF Typed, Working, NoMutation
  <2>5. Journalled' = Journalled /\ J = journals[cur]
    BY <2>1, <2>3, <2>4 DEF Journalled, J
  <2>6. Recorded'
    BY <2>1, <2>2, <2>3, <2>5 DEF Recorded, Committed, Journalled
  <2>7. Placed'
    BY <2>1 DEF Placed, Uncommitted, BeforeCommit, AfterCommit, Undoing
  <2>. QED
    BY <2>6, <2>7 DEF Evidence
<1>5. CASE StageSourceChange
  <2>1. pc \notin NoMutation /\ J \in Journal /\ cur \in Ids
    BY <1>5 DEF StageSourceChange, Typed, Working, J, NoMutation
    <2>. DEFINE j == [J EXCEPT !.proj = TRUE, !.staged = Build([registry EXCEPT ![op.name] = op.new])]
    <2>3. SetJournal(j) /\ UNCHANGED <<commits, decided>>
      BY <1>5 DEF StageSourceChange
    <2>4. j.tx = J.tx /\ j.committed = J.committed /\ j.settled = J.settled
      BY <2>1 DEF Journal
    <2>5. j # Absent
      BY <1>5, <2>1, <2>3, JournalAssumption DEF StageSourceChange, Typed, TypeOK, Working, SetJournal, NoMutation, BeforeCommit, AfterCommit, Undoing, Uncommitted
    <2>6. SameEvidence
      BY <2>1, <2>3, <2>4, <2>5, Rewritten
    <2>7. Placed'
      BY <1>5, <2>1, <2>6 DEF StageSourceChange, SameEvidence, Journalled, J, Placed, Recorded, NoMutation, BeforeCommit, AfterCommit, Undoing, Uncommitted
    <2>. QED
      BY <2>6, <2>7, RecordedKept DEF Evidence
<1>6. CASE ParkPrior
  <2>1. pc \notin NoMutation /\ J \in Journal /\ cur \in Ids
    BY <1>6 DEF ParkPrior, Typed, Working, J, NoMutation
  <2>2. CASE SetJournal([J EXCEPT !.backup = files[op.name]])
      <3>. DEFINE j == [J EXCEPT !.backup = files[op.name]]
      <3>3. SetJournal(j) /\ UNCHANGED <<commits, decided>>
        BY <1>6, <2>2 DEF ParkPrior
      <3>4. j.tx = J.tx /\ j.committed = J.committed /\ j.settled = J.settled
        BY <2>1 DEF Journal
      <3>5. j # Absent
        BY <1>6, <2>1, <3>3, JournalAssumption, <2>2 DEF ParkPrior, Typed, TypeOK, Working, SetJournal, NoMutation, BeforeCommit, AfterCommit, Undoing, Uncommitted
      <3>6. SameEvidence
        BY <2>1, <3>3, <3>4, <3>5, Rewritten
      <3>7. Placed'
        BY <1>6, <2>1, <3>6, <2>2 DEF ParkPrior, SameEvidence, Journalled, J, Placed, Recorded, NoMutation, BeforeCommit, AfterCommit, Undoing, Uncommitted
      <3>. QED
        BY <3>6, <3>7, RecordedKept DEF Evidence
  <2>3. CASE UNCHANGED journals
      <3>1. SameEvidence
        BY <1>6, <2>3 DEF ParkPrior, SameEvidence, Journalled
      <3>2. Placed'
        BY <1>6, <2>1, <3>1, <2>3 DEF ParkPrior, SameEvidence, Journalled, J, Placed, Recorded, NoMutation, BeforeCommit, AfterCommit, Undoing, Uncommitted
      <3>. QED
        BY <3>1, <3>2, RecordedKept DEF Evidence
  <2>. QED
    BY <1>6, <2>2, <2>3 DEF ParkPrior
<1>7. CASE PlaceBytes
  <2>1. SameEvidence
    BY <1>7 DEF PlaceBytes, SameEvidence, Journalled
  <2>2. Placed'
    BY <1>7, <2>1 DEF PlaceBytes, SameEvidence, Placed, NoMutation, BeforeCommit, AfterCommit, Undoing, Uncommitted
  <2>. QED
    BY <2>1, <2>2, RecordedKept DEF Evidence
<1>8. CASE Register
  <2>1. pc \notin NoMutation /\ J \in Journal /\ cur \in Ids
    BY <1>8 DEF Register, Typed, Working, J, NoMutation
    <2>. DEFINE j == [J EXCEPT !.intent = op.name \in Sources]
    <2>3. SetJournal(j) /\ UNCHANGED <<commits, decided>>
      BY <1>8 DEF Register
    <2>4. j.tx = J.tx /\ j.committed = J.committed /\ j.settled = J.settled
      BY <2>1 DEF Journal
    <2>5. j # Absent
      BY <1>8, <2>1, <2>3, JournalAssumption DEF Register, Typed, TypeOK, Working, SetJournal, NoMutation, BeforeCommit, AfterCommit, Undoing, Uncommitted
    <2>6. SameEvidence
      BY <2>1, <2>3, <2>4, <2>5, Rewritten
    <2>7. Placed'
      BY <1>8, <2>1, <2>6 DEF Register, SameEvidence, Journalled, J, Placed, Recorded, NoMutation, BeforeCommit, AfterCommit, Undoing, Uncommitted
    <2>. QED
      BY <2>6, <2>7, RecordedKept DEF Evidence
<1>9. CASE OpenProjectionBackup
  <2>1. pc \notin NoMutation /\ J \in Journal /\ cur \in Ids
    BY <1>9 DEF OpenProjectionBackup, Typed, Working, J, NoMutation
    <2>. DEFINE j == [J EXCEPT !.savedDir = TRUE]
    <2>3. SetJournal(j) /\ UNCHANGED <<commits, decided>>
      BY <1>9 DEF OpenProjectionBackup
    <2>4. j.tx = J.tx /\ j.committed = J.committed /\ j.settled = J.settled
      BY <2>1 DEF Journal
    <2>5. j # Absent
      BY <1>9, <2>1, <2>3, JournalAssumption, ZenonT(60) DEF OpenProjectionBackup, Typed, TypeOK, Working, SetJournal, NoMutation, BeforeCommit, AfterCommit, Undoing, Uncommitted
    <2>6. SameEvidence
      BY <2>1, <2>3, <2>4, <2>5, Rewritten
    <2>7. Placed'
      BY <1>9, <2>1, <2>6 DEF OpenProjectionBackup, SameEvidence, Journalled, J, Placed, Recorded, NoMutation, BeforeCommit, AfterCommit, Undoing, Uncommitted
    <2>. QED
      BY <2>6, <2>7, RecordedKept DEF Evidence
<1>10. CASE WriteManifest
  <2>1. pc \notin NoMutation /\ J \in Journal /\ cur \in Ids
    BY <1>10 DEF WriteManifest, Typed, Working, J, NoMutation
    <2>. DEFINE j == [J EXCEPT !.listed = TRUE, !.manifest = {a \in Artifacts : live[a] # Absent}]
    <2>3. SetJournal(j) /\ UNCHANGED <<commits, decided>>
      BY <1>10 DEF WriteManifest
    <2>4. j.tx = J.tx /\ j.committed = J.committed /\ j.settled = J.settled
      BY <2>1 DEF Journal
    <2>5. j # Absent
      BY <1>10, <2>1, <2>3, JournalAssumption DEF WriteManifest, Typed, TypeOK, Working, SetJournal, NoMutation, BeforeCommit, AfterCommit, Undoing, Uncommitted
    <2>6. SameEvidence
      BY <2>1, <2>3, <2>4, <2>5, Rewritten
    <2>7. Placed'
      BY <1>10, <2>1, <2>6 DEF WriteManifest, SameEvidence, Journalled, J, Placed, Recorded, NoMutation, BeforeCommit, AfterCommit, Undoing, Uncommitted
    <2>. QED
      BY <2>6, <2>7, RecordedKept DEF Evidence
<1>11. CASE MoveOut
  <2>1. pc \notin NoMutation /\ J \in Journal /\ cur \in Ids
    BY <1>11 DEF MoveOut, MovesOut, Typed, Working, J, NoMutation
  <2>2. CASE \E a \in Artifacts : MovesOut(a)
    <3>1. PICK a \in Artifacts : MovesOut(a)
      BY <2>2
      <3>. DEFINE j == [J EXCEPT !.saved[a] = live[a]]
      <3>3. SetJournal(j) /\ UNCHANGED <<commits, decided>>
        BY <1>11, <3>1 DEF MoveOut, MovesOut
      <3>4. j.tx = J.tx /\ j.committed = J.committed /\ j.settled = J.settled
        BY <2>1 DEF Journal
      <3>5. j # Absent
        BY <1>11, <2>1, <3>3, JournalAssumption, <3>1 DEF MoveOut, MovesOut, Typed, TypeOK, Working, SetJournal, NoMutation, BeforeCommit, AfterCommit, Undoing, Uncommitted
      <3>6. SameEvidence
        BY <2>1, <3>3, <3>4, <3>5, Rewritten
      <3>7. Placed'
        BY <1>11, <2>1, <3>6, <3>1 DEF MoveOut, MovesOut, SameEvidence, Journalled, J, Placed, Recorded, NoMutation, BeforeCommit, AfterCommit, Undoing, Uncommitted
      <3>. QED
        BY <3>6, <3>7, RecordedKept DEF Evidence
  <2>3. CASE UNCHANGED journals
      <3>1. SameEvidence
        BY <1>11, <2>3 DEF MoveOut, MovesOut, SameEvidence, Journalled
      <3>2. Placed'
        BY <1>11, <2>1, <3>1, <2>3 DEF MoveOut, MovesOut, SameEvidence, Journalled, J, Placed, Recorded, NoMutation, BeforeCommit, AfterCommit, Undoing, Uncommitted
      <3>. QED
        BY <3>1, <3>2, RecordedKept DEF Evidence
  <2>. QED
    BY <1>11, <2>2, <2>3 DEF MoveOut, MovesOut
<1>12. CASE MoveIn
  <2>1. pc \notin NoMutation /\ J \in Journal /\ cur \in Ids
    BY <1>12 DEF MoveIn, MovesIn, Typed, Working, J, NoMutation
  <2>2. CASE \E a \in Artifacts : MovesIn(a)
    <3>1. PICK a \in Artifacts : MovesIn(a)
      BY <2>2
      <3>. DEFINE j == [J EXCEPT !.staged[a] = Absent]
      <3>3. SetJournal(j) /\ UNCHANGED <<commits, decided>>
        BY <1>12, <3>1 DEF MoveIn, MovesIn
      <3>4. j.tx = J.tx /\ j.committed = J.committed /\ j.settled = J.settled
        BY <2>1 DEF Journal
      <3>5. j # Absent
        BY <1>12, <2>1, <3>3, JournalAssumption, <3>1 DEF MoveIn, MovesIn, Typed, TypeOK, Working, SetJournal, NoMutation, BeforeCommit, AfterCommit, Undoing, Uncommitted
      <3>6. SameEvidence
        BY <2>1, <3>3, <3>4, <3>5, Rewritten
      <3>7. Placed'
        BY <1>12, <2>1, <3>6, <3>1 DEF MoveIn, MovesIn, SameEvidence, Journalled, J, Placed, Recorded, NoMutation, BeforeCommit, AfterCommit, Undoing, Uncommitted
      <3>. QED
        BY <3>6, <3>7, RecordedKept DEF Evidence
  <2>3. CASE UNCHANGED journals
      <3>1. SameEvidence
        BY <1>12, <2>3 DEF MoveIn, MovesIn, SameEvidence, Journalled
      <3>2. Placed'
        BY <1>12, <2>1, <3>1, <2>3 DEF MoveIn, MovesIn, SameEvidence, Journalled, J, Placed, Recorded, NoMutation, BeforeCommit, AfterCommit, Undoing, Uncommitted
      <3>. QED
        BY <3>1, <3>2, RecordedKept DEF Evidence
  <2>. QED
    BY <1>12, <2>2, <2>3 DEF MoveIn, MovesIn
<1>13. CASE Commit
  <2>1. /\ cur \in Ids /\ J # Absent /\ J.tx # Absent /\ cur \notin decided /\ J = journals[cur]
        /\ pc' \in {"retire", "dropBackup"} /\ UNCHANGED <<cur, journals>>
        /\ commits' = commits \cup {cur} /\ decided' = decided \cup {cur}
    BY <1>13, JournalAssumption DEF Commit, Typed, Working, J, NoMutation, BeforeCommit, Placed, Uncommitted
  <2>2. cur \in Journalled /\ Journalled' = Journalled /\ ~J.settled
    BY <2>1 DEF Journalled, Recorded, Committed
  <2>3. Recorded'
    BY <2>1, <2>2 DEF Recorded, Committed
  <2>4. Placed'
    BY <2>1 DEF Placed, Uncommitted, BeforeCommit, AfterCommit, Undoing
  <2>. QED
    BY <2>3, <2>4 DEF Evidence
<1>14. CASE RetireProjection
  <2>1. pc \notin NoMutation /\ J \in Journal /\ cur \in Ids /\ UNCHANGED <<commits, decided>>
    BY <1>14 DEF RetireProjection, Typed, Working, J, NoMutation
  <2>2. SameEvidence
    <3>1. CASE UNCHANGED journals
      BY <2>1, <3>1 DEF SameEvidence, Journalled
    <3>2. CASE SetJournal(WithoutProjection(J))
      <4>. DEFINE j == WithoutProjection(J)
      <4>1. j \in Journal /\ j.tx = J.tx /\ j.committed = J.committed /\ j.settled = J.settled
        BY <2>1, NoArtifactsTyped DEF Journal, WithoutProjection
      <4>2. j # Absent
        BY <4>1, JournalAssumption
      <4>. QED
        BY <2>1, <3>2, <4>1, <4>2, Rewritten
    <3>. QED
      BY <1>14, <3>1, <3>2 DEF RetireProjection
  <2>3. Placed'
    BY <1>14, <2>1, <2>2 DEF RetireProjection, SameEvidence, Journalled, J, Placed, Recorded, NoMutation, BeforeCommit, AfterCommit, Undoing, Uncommitted
  <2>. QED
    BY <2>2, <2>3, RecordedKept DEF Evidence
<1>15. CASE DropBackup
  <2>1. pc \notin NoMutation /\ J \in Journal /\ cur \in Ids
    BY <1>15 DEF DropBackup, Typed, Working, J, NoMutation
  <2>2. CASE SetJournal([J EXCEPT !.backup = Absent])
      <3>. DEFINE j == [J EXCEPT !.backup = Absent]
      <3>3. SetJournal(j) /\ UNCHANGED <<commits, decided>>
        BY <1>15, <2>2 DEF DropBackup
      <3>4. j.tx = J.tx /\ j.committed = J.committed /\ j.settled = J.settled
        BY <2>1 DEF Journal
      <3>5. j # Absent
        BY <1>15, <2>1, <3>3, JournalAssumption, <2>2 DEF DropBackup, Typed, TypeOK, Working, SetJournal, NoMutation, BeforeCommit, AfterCommit, Undoing, Uncommitted
      <3>6. SameEvidence
        BY <2>1, <3>3, <3>4, <3>5, Rewritten
      <3>7. Placed'
        BY <1>15, <2>1, <3>6, <2>2 DEF DropBackup, SameEvidence, Journalled, J, Placed, Recorded, NoMutation, BeforeCommit, AfterCommit, Undoing, Uncommitted
      <3>. QED
        BY <3>6, <3>7, RecordedKept DEF Evidence
  <2>3. CASE UNCHANGED journals
      <3>1. SameEvidence
        BY <1>15, <2>3 DEF DropBackup, SameEvidence, Journalled
      <3>2. Placed'
        BY <1>15, <2>1, <3>1, <2>3 DEF DropBackup, SameEvidence, Journalled, J, Placed, Recorded, NoMutation, BeforeCommit, AfterCommit, Undoing, Uncommitted
      <3>. QED
        BY <3>1, <3>2, RecordedKept DEF Evidence
  <2>. QED
    BY <1>15, <2>2, <2>3 DEF DropBackup
<1>16. CASE SettleCommit
  <2>1. /\ cur \in Ids /\ J \in Journal /\ J # Absent /\ cur \in decided /\ J = journals[cur]
        /\ pc \notin NoMutation /\ UNCHANGED <<commits, decided>>
    BY <1>16, JournalAssumption DEF SettleCommit, Typed, Working, J, NoMutation, AfterCommit, Placed
  <2>2. CASE UNCHANGED journals
    <3>1. SameEvidence
      BY <2>1, <2>2 DEF SameEvidence, Journalled
    <3>2. /\ pc' \in {"remove", "unrecord", "settleWrite", "idle"} /\ (pc' # "idle" => cur' = cur)
          /\ pc' = "remove" => J.settled
          /\ pc' = "unrecord" => J.committed
      BY <1>16 DEF SettleCommit
    <3>3. Placed'
      BY <2>1, <2>2, <3>2 DEF Placed, Recorded, Journalled, Uncommitted, BeforeCommit, AfterCommit, Undoing
    <3>. QED
      BY <3>1, <3>3, RecordedKept DEF Evidence
  <2>3. CASE SetJournal([J EXCEPT !.unwritten = TRUE]) /\ pc' = "settleWrite" /\ cur' = cur
    <3>. DEFINE j == [J EXCEPT !.unwritten = TRUE]
    <3>1. j \in Journal /\ j.tx = J.tx /\ j.committed = J.committed /\ j.settled = J.settled
      <4>1. j \in Journal
        BY <2>1, FileTyped, Zenon
      <4>. QED
        BY <2>1, <4>1 DEF Journal
    <3>2. j # Absent
      BY <3>1, JournalAssumption
    <3>3. SameEvidence
      BY <2>1, <2>3, <3>1, <3>2, Rewritten
    <3>4. Placed'
      BY <2>1, <2>3, <3>3 DEF Placed, SameEvidence, Uncommitted, BeforeCommit, AfterCommit, Undoing
    <3>. QED
      BY <3>3, <3>4, RecordedKept DEF Evidence
  <2>. QED
    BY <1>16, <2>2, <2>3 DEF SettleCommit
<1>16a. CASE WriteCommitted
  <2>1. /\ cur \in Ids /\ J \in Journal /\ J # Absent /\ cur \in decided /\ J = journals[cur]
        /\ pc \notin NoMutation /\ UNCHANGED <<cur, commits, decided>> /\ pc' = "unrecord"
        /\ SetJournal([J EXCEPT !.committed = TRUE, !.unwritten = FALSE])
    BY <1>16a, JournalAssumption DEF WriteCommitted, Typed, Working, J, NoMutation, AfterCommit, Placed
  <2>2. journals'[cur].tx = J.tx /\ journals'[cur].committed /\ journals'[cur].settled = J.settled
    BY <2>1 DEF SetJournal, Journal, Typed, TypeOK
  <2>3. journals'[cur] # Absent /\ \A i \in Ids : i # cur => journals'[i] = journals[i]
    BY <2>1, FileTyped, JournalAssumption DEF SetJournal, Typed, TypeOK
  <2>4. Journalled' = Journalled
    BY <2>1, <2>3 DEF Journalled
  <2>5. Recorded'
    BY <2>1, <2>2, <2>3, <2>4 DEF Recorded, Committed, Journalled
  <2>6. Placed'
    BY <2>1, <2>2 DEF Placed, Uncommitted, BeforeCommit, AfterCommit, Undoing
  <2>. QED
    BY <2>5, <2>6 DEF Evidence
<1>17. CASE DeleteCommitRow
  <2>1. /\ cur \in Ids /\ J # Absent /\ J = journals[cur] /\ J.committed /\ cur \in decided
        /\ pc' \in {"stamp", "remove"} /\ UNCHANGED <<cur, journals, decided>> /\ commits' = commits \ {cur}
    BY <1>17, JournalAssumption DEF DeleteCommitRow, Typed, Working, J, NoMutation, AfterCommit, Placed
  <2>2. Journalled' = Journalled
    BY <2>1 DEF Journalled
  <2>3. Recorded'
    BY <2>1, <2>2 DEF Recorded, Committed
  <2>4. Placed'
    BY <2>1 DEF Placed, J, Uncommitted, BeforeCommit, AfterCommit, Undoing
  <2>. QED
    BY <2>3, <2>4 DEF Evidence
<1>18. CASE StampLineage
  <2>1. SameEvidence
    BY <1>18 DEF StampLineage, SameEvidence, Journalled
  <2>2. Placed'
    BY <1>18, <2>1 DEF StampLineage, SameEvidence, Placed, NoMutation, BeforeCommit, AfterCommit, Undoing, Uncommitted
  <2>. QED
    BY <2>1, <2>2, RecordedKept DEF Evidence
<1>19. CASE MarkSettled
  <2>. DEFINE j == [J EXCEPT !.unwritten = TRUE]
  <2>1. /\ J \in Journal /\ cur \in decided /\ J = journals[cur] /\ J.committed /\ cur \notin commits
        /\ pc \notin NoMutation /\ UNCHANGED <<cur, commits, decided>> /\ pc' = "settledWrite"
    BY <1>19 DEF MarkSettled, Typed, Working, J, NoMutation, AfterCommit, Placed
  <2>2. j \in Journal /\ j.tx = J.tx /\ j.committed = J.committed /\ j.settled = J.settled
    <3>1. j \in Journal
      BY <2>1, FileTyped, Zenon
    <3>. QED
      BY <2>1, <3>1 DEF Journal
  <2>3. j # Absent
    BY <2>2, JournalAssumption
  <2>4. SetJournal(j)
    BY <1>19 DEF MarkSettled
  <2>5. SameEvidence
    BY <2>1, <2>2, <2>3, <2>4, Rewritten
  <2>6. cur \in Journalled
    BY <2>1 DEF Recorded
  <2>7. Placed'
    BY <2>1, <2>5, <2>6 DEF Placed, SameEvidence, Uncommitted, BeforeCommit, AfterCommit, Undoing
  <2>. QED
    BY <2>5, <2>7, RecordedKept DEF Evidence
<1>19a. CASE WriteSettled
  <2>1. /\ cur \in Ids /\ J \in Journal /\ J # Absent /\ cur \in decided /\ J = journals[cur]
        /\ pc \notin NoMutation /\ UNCHANGED <<cur, commits, decided>> /\ pc' = "remove"
        /\ J.committed /\ cur \notin commits
        /\ SetJournal([J EXCEPT !.settled = TRUE, !.unwritten = FALSE])
    BY <1>19a, JournalAssumption DEF WriteSettled, Typed, Working, J, NoMutation, AfterCommit, Placed
  <2>2. journals'[cur].tx = J.tx /\ journals'[cur].committed = J.committed
    BY <2>1 DEF SetJournal, Journal, Typed, TypeOK
  <2>3. journals'[cur] # Absent /\ \A i \in Ids : i # cur => journals'[i] = journals[i]
    BY <2>1, FileTyped, JournalAssumption, ZenonT(60) DEF SetJournal, Typed, TypeOK
  <2>4. Journalled' = Journalled
    BY <2>1, <2>3 DEF Journalled
  <2>5. Recorded'
    BY <2>1, <2>2, <2>3, <2>4 DEF Recorded, Committed, Journalled
  <2>6. Placed'
    BY <2>1, <2>2 DEF Placed, Uncommitted, BeforeCommit, AfterCommit, Undoing
  <2>. QED
    BY <2>5, <2>6 DEF Evidence
<1>20. CASE RemoveJournal
  <2>1. /\ cur \in Ids /\ cur \notin commits /\ pc' \in {"idle", "recover"}
        /\ decided' = decided \ {cur} /\ commits' \subseteq commits /\ commits \ {cur} \subseteq commits'
    BY <1>20 DEF RemoveJournal, Typed, Working, NoMutation, Placed
  <2>2. Journalled' = Journalled \ {cur} /\ \A i \in Ids \ {cur} : journals'[i] = journals[i]
    BY <1>20, <2>1 DEF RemoveJournal, SetJournal, Journalled, Typed, TypeOK
  <2>3. Recorded'
    BY <2>1, <2>2 DEF Recorded, Committed, Journalled
  <2>4. Placed'
    BY <2>1 DEF Placed, Uncommitted, BeforeCommit, AfterCommit, Undoing
  <2>. QED
    BY <2>3, <2>4 DEF Evidence
<1>21. CASE TearJournal
  BY <1>21 DEF TearJournal
<1>22. CASE \E i \in Ids : RecoverJournal(i)
  <2>1. PICK i \in Ids : RecoverJournal(i)
    BY <1>22
  <2>2. SameEvidence
    BY <2>1 DEF RecoverJournal, SameEvidence, Journalled
  <2>3. Placed'
    BY <2>1 DEF RecoverJournal, Readable, Journalled, Recorded, Placed, Uncommitted, BeforeCommit, AfterCommit, Undoing
  <2>. QED
    BY <2>2, <2>3, RecordedKept DEF Evidence
<1>23. CASE Recovered
  <2>1. SameEvidence
    BY <1>23 DEF Recovered, SameEvidence, Journalled
  <2>2. Placed'
    BY <1>23, <2>1 DEF Recovered, SameEvidence, Placed, NoMutation, BeforeCommit, AfterCommit, Undoing, Uncommitted
  <2>. QED
    BY <2>1, <2>2, RecordedKept DEF Evidence
<1>24. CASE RestoreDocument
  <2>1. SameEvidence
    BY <1>24 DEF RestoreDocument, SameEvidence, Journalled
  <2>2. Placed'
    BY <1>24, <2>1 DEF RestoreDocument, SameEvidence, Placed, NoMutation, BeforeCommit, AfterCommit, Undoing, Uncommitted, Recorded
  <2>. QED
    BY <2>1, <2>2, RecordedKept DEF Evidence
<1>25. CASE RestoreRename
  <2>1. pc \notin NoMutation /\ J \in Journal /\ cur \in Ids
    BY <1>25 DEF RestoreRename, Typed, Working, J, NoMutation
    <2>. DEFINE j == [J EXCEPT !.backup = Absent]
    <2>3. SetJournal(j) /\ UNCHANGED <<commits, decided>>
      BY <1>25 DEF RestoreRename
    <2>4. j.tx = J.tx /\ j.committed = J.committed /\ j.settled = J.settled
      BY <2>1 DEF Journal
    <2>5. j # Absent
      BY <1>25, <2>1, <2>3, JournalAssumption DEF RestoreRename, Typed, TypeOK, Working, SetJournal, NoMutation, BeforeCommit, AfterCommit, Undoing, Uncommitted
    <2>6. SameEvidence
      BY <2>1, <2>3, <2>4, <2>5, Rewritten
    <2>7. Placed'
      BY <1>25, <2>1, <2>6 DEF RestoreRename, SameEvidence, Journalled, J, Placed, Recorded, NoMutation, BeforeCommit, AfterCommit, Undoing, Uncommitted
    <2>. QED
      BY <2>6, <2>7, RecordedKept DEF Evidence
<1>26. CASE UndoProjection
  <2>1. pc \notin NoMutation /\ J \in Journal /\ cur \in Ids
    BY <1>26 DEF UndoProjection, UndoesArtifact, Typed, Working, J, NoMutation
  <2>2. CASE \E a \in Artifacts : UndoesArtifact(a)
    <3>1. PICK a \in Artifacts : UndoesArtifact(a)
      BY <2>2
      <3>. DEFINE j == [J EXCEPT !.saved[a] = Absent]
      <3>3. SetJournal(j) /\ UNCHANGED <<commits, decided>>
        BY <1>26, <3>1 DEF UndoProjection, UndoesArtifact
      <3>4. j.tx = J.tx /\ j.committed = J.committed /\ j.settled = J.settled
        BY <2>1 DEF Journal
      <3>5. j # Absent
        BY <1>26, <2>1, <3>3, JournalAssumption, <3>1 DEF UndoProjection, UndoesArtifact, Typed, TypeOK, Working, SetJournal, NoMutation, BeforeCommit, AfterCommit, Undoing, Uncommitted
      <3>6. SameEvidence
        BY <2>1, <3>3, <3>4, <3>5, Rewritten
      <3>7. Placed'
        BY <1>26, <2>1, <3>6, <3>1 DEF UndoProjection, UndoesArtifact, SameEvidence, Journalled, J, Placed, Recorded, NoMutation, BeforeCommit, AfterCommit, Undoing, Uncommitted
      <3>. QED
        BY <3>6, <3>7, RecordedKept DEF Evidence
  <2>3. CASE UNCHANGED journals
      <3>1. SameEvidence
        BY <1>26, <2>3 DEF UndoProjection, UndoesArtifact, SameEvidence, Journalled
      <3>2. Placed'
        BY <1>26, <2>1, <3>1, <2>3 DEF UndoProjection, UndoesArtifact, SameEvidence, Journalled, J, Placed, Recorded, NoMutation, BeforeCommit, AfterCommit, Undoing, Uncommitted
      <3>. QED
        BY <3>1, <3>2, RecordedKept DEF Evidence
  <2>. QED
    BY <1>26, <2>2, <2>3 DEF UndoProjection, UndoesArtifact
<1>27. CASE DropProjection
  <2>1. pc \notin NoMutation /\ J \in Journal /\ cur \in Ids
    BY <1>27 DEF DropProjection, Typed, Working, J, NoMutation
    <2>. DEFINE j == WithoutProjection(J)
    <2>3. SetJournal(j) /\ UNCHANGED <<commits, decided>>
      BY <1>27 DEF DropProjection
    <2>4. j.tx = J.tx /\ j.committed = J.committed /\ j.settled = J.settled
      BY <2>1 DEF Journal, WithoutProjection
    <2>5. j # Absent
      BY <2>1, NoArtifactsTyped, JournalAssumption DEF Journal, WithoutProjection
    <2>6. SameEvidence
      BY <2>1, <2>3, <2>4, <2>5, Rewritten
    <2>7. Placed'
      BY <1>27, <2>1, <2>6 DEF DropProjection, SameEvidence, Journalled, J, Placed, Recorded, NoMutation, BeforeCommit, AfterCommit, Undoing, Uncommitted
    <2>. QED
      BY <2>6, <2>7, RecordedKept DEF Evidence
<1>28. CASE TearProjection
  BY <1>28 DEF TearProjection
<1>29. CASE Heal
  <2>1. SameEvidence
    BY <1>29 DEF Heal, SameEvidence, Journalled
  <2>2. Placed'
    BY <1>29, <2>1 DEF Heal, SameEvidence, Placed, NoMutation, BeforeCommit, AfterCommit, Undoing, Uncommitted
  <2>. QED
    BY <2>1, <2>2, RecordedKept DEF Evidence
<1>30. CASE RebuildOut
  <2>1. SameEvidence
    BY <1>30 DEF RebuildOut, SameEvidence, Journalled
  <2>2. Placed'
    BY <1>30, <2>1 DEF RebuildOut, SameEvidence, Placed, NoMutation, BeforeCommit, AfterCommit, Undoing, Uncommitted
  <2>. QED
    BY <2>1, <2>2, RecordedKept DEF Evidence
<1>31. CASE RebuildIn
  <2>1. SameEvidence
    BY <1>31 DEF RebuildIn, SameEvidence, Journalled
  <2>2. Placed'
    BY <1>31, <2>1 DEF RebuildIn, SameEvidence, Placed, NoMutation, BeforeCommit, AfterCommit, Undoing, Uncommitted
  <2>. QED
    BY <2>1, <2>2, RecordedKept DEF Evidence
<1>32. CASE StampRebuild
  <2>1. SameEvidence
    BY <1>32 DEF StampRebuild, SameEvidence, Journalled
  <2>2. Placed'
    BY <1>32, <2>1 DEF StampRebuild, SameEvidence, Placed, NoMutation, BeforeCommit, AfterCommit, Undoing, Uncommitted
  <2>. QED
    BY <2>1, <2>2, RecordedKept DEF Evidence
<1>33. CASE FailBeforeCommit
  <2>1. pc \notin NoMutation /\ J \in Journal /\ cur \in Ids
    BY <1>33 DEF FailBeforeCommit, Throw, Typed, Working, J, NoMutation
  <2>2. CASE SetJournal(WithoutProjection(J))
      <3>. DEFINE j == WithoutProjection(J)
      <3>3. SetJournal(j) /\ UNCHANGED <<commits, decided>>
        BY <1>33, <2>2 DEF FailBeforeCommit, Throw
      <3>4. j.tx = J.tx /\ j.committed = J.committed /\ j.settled = J.settled
        BY <2>1 DEF Journal, WithoutProjection
      <3>5. j # Absent
        BY <1>33, <2>1, <3>3, JournalAssumption, <2>2 DEF FailBeforeCommit, Throw, Typed, TypeOK, Working, SetJournal, NoMutation, BeforeCommit, AfterCommit, Undoing, Uncommitted
      <3>6. SameEvidence
        BY <2>1, <3>3, <3>4, <3>5, Rewritten
      <3>7. Placed'
        BY <1>33, <2>1, <3>6, <2>2 DEF FailBeforeCommit, Throw, SameEvidence, Journalled, J, Placed, Recorded, NoMutation, BeforeCommit, AfterCommit, Undoing, Uncommitted
      <3>. QED
        BY <3>6, <3>7, RecordedKept DEF Evidence
  <2>3. CASE UNCHANGED journals
      <3>1. SameEvidence
        BY <1>33, <2>3 DEF FailBeforeCommit, Throw, SameEvidence, Journalled
      <3>2. Placed'
        BY <1>33, <2>1, <3>1, <2>3 DEF FailBeforeCommit, Throw, SameEvidence, Journalled, J, Placed, Recorded, NoMutation, BeforeCommit, AfterCommit, Undoing, Uncommitted
      <3>. QED
        BY <3>1, <3>2, RecordedKept DEF Evidence
  <2>. QED
    BY <1>33, <2>2, <2>3 DEF FailBeforeCommit, Throw
<1>34. CASE FailAfterCommit
  <2>1. SameEvidence
    BY <1>34 DEF FailAfterCommit, SameEvidence, Journalled
  <2>2. cur \in Journalled
    BY <1>34, JournalAssumption DEF FailAfterCommit, Typed, Working, NoMutation, Journalled
  <2>3. Placed'
    BY <1>34, <2>2 DEF FailAfterCommit, Placed, Recorded, Uncommitted, BeforeCommit, AfterCommit, Undoing
  <2>. QED
    BY <2>1, <2>3, RecordedKept DEF Evidence
<1>35. CASE FailOutright
  <2>1. SameEvidence
    BY <1>35 DEF FailOutright, SameEvidence, Journalled
  <2>2. Placed'
    BY <1>35, <2>1 DEF FailOutright, SameEvidence, Placed, NoMutation, BeforeCommit, AfterCommit, Undoing, Uncommitted
  <2>. QED
    BY <2>1, <2>2, RecordedKept DEF Evidence
<1>36. CASE Crash
  <2>1. SameEvidence
    BY <1>36 DEF Crash, SameEvidence, Journalled
  <2>2. Placed'
    BY <1>36, <2>1 DEF Crash, SameEvidence, Placed, NoMutation, BeforeCommit, AfterCommit, Undoing, Uncommitted
  <2>. QED
    BY <2>1, <2>2, RecordedKept DEF Evidence
<1>37. CASE Restart
  <2>1. SameEvidence
    BY <1>37 DEF Restart, SameEvidence, Journalled
  <2>2. Placed'
    BY <1>37, <2>1 DEF Restart, SameEvidence, Placed, NoMutation, BeforeCommit, AfterCommit, Undoing, Uncommitted
  <2>. QED
    BY <2>1, <2>2, RecordedKept DEF Evidence
<1>38. CASE UNCHANGED vars
  <2>1. SameEvidence
    BY <1>38 DEF vars, SameEvidence, Journalled
  <2>2. Placed'
    BY <1>38, <2>1 DEF vars, SameEvidence, Placed, NoMutation, BeforeCommit, AfterCommit, Undoing, Uncommitted
  <2>. QED
    BY <2>1, <2>2, RecordedKept DEF Evidence
<1>. QED
  BY <1>1, <1>2, <1>3, <1>4, <1>5, <1>6, <1>7, <1>8, <1>9, <1>10, <1>11, <1>12, <1>13, <1>14, <1>15, <1>16, <1>16a, <1>17, <1>18, <1>19, <1>19a, <1>20, <1>21, <1>22, <1>23, <1>24, <1>25, <1>26, <1>27, <1>28, <1>29, <1>30, <1>31, <1>32, <1>33, <1>34, <1>35, <1>36, <1>37, <1>38 DEF Next, Apply, Settle, Recover, Fail

\* Where a directory is removed as one step, a mutation whose transaction
\* committed always has its row or its file, and no other has either: recovery
\* rolls forward what committed and rolls back what did not (db.ts,
\* document-mutation.ts), whatever the sets of documents and ids, and however
\* often the process stops or a step throws.
THEOREM CommitEvidenceHolds == ~TornRemoval /\ Spec => []CommitEvidence
<1>. DEFINE Inv == ~TornRemoval /\ Typed /\ Evidence
<1>1. ~TornRemoval /\ Init => Inv
  BY InitTyped, InitEvidence
<1>2. Inv /\ [Next]_vars => Inv'
  BY StepTyped, StepEvidence
<1>3. Inv => CommitEvidence
  BY DEF CommitEvidence, Evidence, Recorded, Readable, Journalled
<1>4. ~TornRemoval /\ Spec => []Inv
  BY <1>1, <1>2, PTL DEF Spec
<1>. QED
  BY <1>3, <1>4, PTL

-----------------------------------------------------------------------------
(* The source projection: where each step stands to what a recovery would  *)
(* leave of it.                                                            *)

\* The projection this operation installs.
Upcoming == Build([registry EXCEPT ![op.name] = op.new])

\* Nothing is set aside before the list of what is there is written; what is
\* listed is in place or set aside, and once all of it is set aside the staged
\* files go in.  Of a roll-back that is done, nothing is left to move.
Unlisted == {"stage", "park", "place", "register", "openBackup", "manifest"}
Staged == {"park", "place", "register", "openBackup", "manifest", "moveOut"}
Installs == {"openBackup", "manifest", "moveOut", "moveIn"}

Placing ==
    /\ pc \in Unlisted => ~J.listed /\ J.saved = NoArtifacts
    /\ pc \in {"stage"} \cup Installs => IsSource(cur)
    /\ pc \in Staged /\ IsSource(cur) => J.proj /\ J.staged = Upcoming
    /\ pc \in {"moveOut", "moveIn", "commit"} /\ IsSource(cur) => J.proj /\ J.listed
    /\ pc = "moveOut" =>
         \A a \in Artifacts : live[a] # Absent <=> a \in J.manifest /\ J.saved[a] = Absent
    /\ pc \in {"moveIn", "commit"} /\ IsSource(cur) =>
         \A a \in J.manifest : J.saved[a] # Absent
    /\ pc = "moveIn" =>
         \A a \in Artifacts :
            IF J.staged[a] = Absent THEN live[a] = Upcoming[a] ELSE J.staged[a] = Upcoming[a]
    /\ pc = "commit" /\ IsSource(cur) => live = Upcoming
    /\ pc = "dropProjection" /\ J.listed =>
         \A a \in Artifacts : IF a \in J.manifest THEN J.saved[a] = Absent ELSE live[a] = Absent

\* A projection transaction is a source mutation's; what is rolled back did not
\* commit, by the evidence there is, and what is settled did.  One that could
\* not be retired may be there until the journal is removed, if that is one step.
Directed ==
    /\ \A i \in Journalled : journals[i].proj /\ Readable(i) => IsSource(i)
    /\ pc = "journal" => J = EmptyJournal
    /\ pc = "stage" => ~J.proj
    /\ pc = "remove" /\ ~TornRemoval => ~J.proj \/ Committed(cur)
    /\ pc \in {"journal"} \cup BeforeCommit \cup Undoing => ~Committed(cur)
    /\ pc \in {"retire", "dropBackup", "settle", "settleWrite", "forward"} => Committed(cur)
    /\ pc \in {"unrecord", "stamp", "settled", "settledWrite"} => J.committed

Projected == Placing /\ Directed

\* The locations at which nothing is asked of the projection.
Elsewhere == NoMutation \cup AfterCommit \cup {"journal", "remove", "restore", "restoreRename", "unproject"}

\* At first nothing is.
LEMMA InitProjected == Init => Projected
  BY DEF Init, Projected, Placing, Directed, Journalled, Unlisted, Staged, Installs,
         BeforeCommit, Undoing

\* Nor after a step to such a location.
LEMMA PlacingElsewhere == pc' \in Elsewhere => Placing'
  BY DEF Placing, Elsewhere, NoMutation, AfterCommit, Unlisted, Staged, Installs

\* The journal of the step at hand is the only one.
LEMMA TheJournal ==
  ASSUME Typed, pc \notin NoMutation
  PROVE  /\ cur \in Ids /\ J \in Journal /\ J # Absent
         /\ Journalled = {cur}
         /\ pc # "journal" /\ pc # "remove" => J.tx # Absent
<1>1. cur \in Ids /\ J \in Journal /\ J # Absent
  BY JournalAssumption DEF Typed, Working, J
<1>2. cur \in Journalled /\ \A i \in Journalled : i = cur
  BY <1>1 DEF Typed, Working, Journalled, J
<1>3. pc # "journal" /\ pc # "remove" => J.tx # Absent
  <2>1. pc # "journal" /\ pc # "remove" => pc \in BeforeCommit \cup AfterCommit \cup Undoing
    BY DEF Typed, TypeOK, Locations, NoMutation, BeforeCommit, AfterCommit, Undoing
  <2>. QED
    BY <2>1 DEF Typed, Working, J
<1>. QED
  BY <1>1, <1>2, <1>3

\* What the steps before the commit know of the operation.
LEMMA TheOperation ==
  ASSUME Typed, pc \in BeforeCommit
  PROVE  /\ op.name \in Names /\ op.new \in Bytes /\ op \in Operation
         /\ J.tx.name = op.name /\ (IsSource(cur) <=> op.name \in Sources)
  BY DEF Typed, Working, Operation, IsSource, J

\* A step that rewrites the journal at hand.
LEMMA Rewrites ==
  ASSUME Typed, pc \notin NoMutation, NEW j \in Journal, SetJournal(j), cur' = cur
  PROVE  J' = j /\ journals'[cur] = j /\ Journalled' = {cur}
<1>1. journals'[cur] = j /\ Journalled' = Journalled
  BY Updated
<1>. QED
  BY <1>1, TheJournal DEF J

\* Every step keeps the staging and the moves of the files in order.
LEMMA StepPlacing == Typed /\ Typed' /\ Projected /\ [Next]_vars => Placing'
<1>. SUFFICES ASSUME Typed, Typed', Placing, Directed, [Next]_vars PROVE Placing'
  BY DEF Projected
<1>. USE DEF Goto, Finish, To, disk, db
<1>1. CASE pc' \in Elsewhere
  BY <1>1, PlacingElsewhere
<1>2. CASE WriteTransaction
  <2>1. J = EmptyJournal /\ pc \notin NoMutation /\ pc' \in {"stage", "park"}
    BY <1>2 DEF WriteTransaction, Directed, NoMutation
  <2>2. /\ J' = [EmptyJournal EXCEPT !.tx = [name |-> op.name, prior |-> files[op.name] # Absent]]
        /\ pc' = "stage" <=> op.name \in Sources
    BY <1>2, <2>1, TheJournal DEF WriteTransaction, SetJournal, Typed, TypeOK, J
  <2>3. ~J'.listed /\ J'.saved = NoArtifacts /\ (IsSource(cur)' <=> op.name \in Sources)
    BY <1>2, <2>2 DEF EmptyJournal, IsSource, J, WriteTransaction
  <2>. QED
    BY <2>1, <2>2, <2>3 DEF Placing, Unlisted, Staged, Installs
<1>3. CASE StageSourceChange
  <2>. DEFINE j == [J EXCEPT !.proj = TRUE, !.staged = Upcoming]
  <2>1. pc \notin NoMutation /\ pc = "stage" /\ pc' = "park" /\ UNCHANGED <<op, registry>>
    BY <1>3 DEF StageSourceChange, NoMutation
  <2>2. J \in Journal /\ op.name \in Names /\ op.new \in Bytes
    BY <2>1, TheJournal, TheOperation DEF BeforeCommit
  <2>3. Upcoming \in Projection
    BY <2>2, BuildTyped DEF Upcoming, Typed, TypeOK
  <2>4. j \in Journal
    BY <2>2, <2>3 DEF Journal
  <2>5. J' = j
    BY <1>3, <2>1, <2>4, Rewrites DEF StageSourceChange, Upcoming
  <2>6. J'.proj /\ J'.staged = Upcoming /\ ~J'.listed /\ J'.saved = NoArtifacts
    BY <2>1, <2>2, <2>5 DEF Journal, Placing, Unlisted
  <2>. QED
    BY <2>1, <2>6 DEF Placing, Unlisted, Staged, Installs, Upcoming
<1>4. CASE ParkPrior
  <2>1. pc \notin NoMutation /\ pc = "park" /\ pc' \in {"place", "register"} /\ UNCHANGED <<op, cur, registry>>
    BY <1>4 DEF ParkPrior, NoMutation
  <2>2. J \in Journal /\ op.name \in Names /\ cur \in Ids
    BY <2>1, TheJournal, TheOperation DEF BeforeCommit
  <2>3. J' = J \/ J' = [J EXCEPT !.backup = files[op.name]]
    BY <1>4, <2>1, <2>2 DEF ParkPrior, SetJournal, J, Typed, TypeOK
  <2>4. /\ J'.tx = J.tx /\ J'.proj = J.proj /\ J'.staged = J.staged /\ J'.saved = J.saved
        /\ J'.listed = J.listed
    BY <2>2, <2>3 DEF Journal
  <2>. QED
    BY <2>1, <2>4 DEF Placing, Unlisted, Staged, Installs, Upcoming, IsSource, J
<1>5. CASE PlaceBytes
  BY <1>5 DEF PlaceBytes, Placing, Unlisted, Staged, Installs, Upcoming, IsSource, J
<1>6. CASE Register
  <2>1. pc \notin NoMutation /\ pc = "register" /\ UNCHANGED <<op, cur, registry>>
    BY <1>6 DEF Register, NoMutation
  <2>2. J \in Journal /\ cur \in Ids /\ (IsSource(cur) <=> op.name \in Sources)
    BY <2>1, TheJournal, TheOperation DEF BeforeCommit
  <2>3. J' = [J EXCEPT !.intent = op.name \in Sources]
    BY <1>6, <2>1, <2>2 DEF Register, SetJournal, J, Typed, TypeOK
  <2>4. /\ J'.tx = J.tx /\ J'.proj = J.proj /\ J'.staged = J.staged /\ J'.saved = J.saved
        /\ J'.listed = J.listed
    BY <2>2, <2>3 DEF Journal
  <2>5. pc' = IF IsSource(cur) THEN "openBackup" ELSE "commit"
    BY <1>6, <2>2 DEF Register
  <2>. QED
    BY <2>1, <2>4, <2>5 DEF Placing, Unlisted, Staged, Installs, Upcoming, IsSource, J
<1>7. CASE OpenProjectionBackup
  <2>1. pc \notin NoMutation /\ pc = "openBackup" /\ pc' = "manifest" /\ UNCHANGED <<op, cur, registry>>
    BY <1>7 DEF OpenProjectionBackup, NoMutation
  <2>2. J \in Journal /\ cur \in Ids
    BY <2>1, TheJournal
  <2>3. J' = [J EXCEPT !.savedDir = TRUE]
    BY <1>7, <2>1, <2>2 DEF OpenProjectionBackup, SetJournal, J, Typed, TypeOK
  <2>4. /\ J'.tx = J.tx /\ J'.proj = J.proj /\ J'.staged = J.staged /\ J'.saved = J.saved
        /\ J'.listed = J.listed
    BY <2>2, <2>3 DEF Journal
  <2>. QED
    BY <2>1, <2>4 DEF Placing, Unlisted, Staged, Installs, Upcoming, IsSource, J
<1>8. CASE WriteManifest
  <2>1. pc \notin NoMutation /\ pc = "manifest" /\ pc' = "moveOut" /\ UNCHANGED <<op, cur, registry, live>>
    BY <1>8 DEF WriteManifest, NoMutation
  <2>2. J \in Journal /\ cur \in Ids
    BY <2>1, TheJournal
  <2>3. J' = [J EXCEPT !.listed = TRUE, !.manifest = {a \in Artifacts : live[a] # Absent}]
    BY <1>8, <2>1, <2>2 DEF WriteManifest, SetJournal, J, Typed, TypeOK
  <2>4. /\ J'.tx = J.tx /\ J'.proj = J.proj /\ J'.staged = J.staged /\ J'.saved = J.saved
        /\ J'.listed /\ J'.manifest = {a \in Artifacts : live[a] # Absent}
    BY <2>2, <2>3 DEF Journal
  <2>5. \A a \in Artifacts : J.saved[a] = Absent
    BY <2>1 DEF Placing, Unlisted, NoArtifacts
  <2>. QED
    BY <2>1, <2>4, <2>5 DEF Placing, Unlisted, Staged, Installs, Upcoming, IsSource, J
<1>9. CASE MoveOut /\ pc' = "moveOut"
  <2>1. pc \notin NoMutation /\ pc = "moveOut" /\ UNCHANGED <<op, cur, registry>>
    BY <1>9 DEF MoveOut, MovesOut, NoMutation
  <2>2. J \in Journal /\ cur \in Ids /\ live \in Projection
    BY <2>1, TheJournal DEF Typed, TypeOK
  <2>3. PICK a \in Artifacts : MovesOut(a)
    BY <1>9 DEF MoveOut
  <2>4. J' = [J EXCEPT !.saved[a] = live[a]]
    BY <2>1, <2>2, <2>3 DEF MovesOut, SetJournal, J, Typed, TypeOK
  <2>5. /\ J'.tx = J.tx /\ J'.proj = J.proj /\ J'.staged = J.staged
        /\ J'.listed = J.listed /\ J'.manifest = J.manifest
        /\ J'.saved = [J.saved EXCEPT ![a] = live[a]]
    BY <2>2, <2>4 DEF Journal
  <2>6. J.saved \in Projection /\ live' = [live EXCEPT ![a] = Absent] /\ live[a] # Absent
    BY <2>2, <2>3 DEF Journal, MovesOut
  <2>7. \A b \in Artifacts : live'[b] # Absent <=> b \in J'.manifest /\ J'.saved[b] = Absent
    BY <2>1, <2>2, <2>5, <2>6 DEF Placing, Projection
  <2>. QED
    BY <1>9, <2>1, <2>5, <2>7 DEF Placing, Unlisted, Staged, Installs, Upcoming, IsSource, J
<1>10. CASE MoveOut /\ pc' = "moveIn"
  <2>1. /\ pc = "moveOut" /\ UNCHANGED <<op, cur, registry, live, journals>>
        /\ \A a \in Artifacts : live[a] = Absent
    BY <1>10 DEF MoveOut, MovesOut
  <2>2. J' = J /\ J.staged = Upcoming /\ IsSource(cur) /\ J.proj /\ J.listed
    BY <2>1 DEF Placing, Staged, Installs, J
  <2>3. J \in Journal
    BY <2>1, TheJournal DEF NoMutation
  <2>4. \A a \in J.manifest : J.saved[a] # Absent
    BY <2>1, <2>3 DEF Placing, Journal
  <2>. QED
    BY <1>10, <2>1, <2>2, <2>4 DEF Placing, Unlisted, Staged, Installs, Upcoming, IsSource, J
<1>11. CASE MoveIn /\ pc' = "moveIn"
  <2>1. pc \notin NoMutation /\ pc = "moveIn" /\ UNCHANGED <<op, cur, registry>>
    BY <1>11 DEF MoveIn, MovesIn, NoMutation
  <2>2. J \in Journal /\ cur \in Ids /\ live \in Projection
    BY <2>1, TheJournal DEF Typed, TypeOK
  <2>3. PICK a \in Artifacts : MovesIn(a)
    BY <1>11 DEF MoveIn
  <2>4. J' = [J EXCEPT !.staged[a] = Absent]
    BY <2>1, <2>2, <2>3 DEF MovesIn, SetJournal, J, Typed, TypeOK
  <2>5. /\ J'.tx = J.tx /\ J'.proj = J.proj /\ J'.saved = J.saved
        /\ J'.listed = J.listed /\ J'.manifest = J.manifest
        /\ J'.staged = [J.staged EXCEPT ![a] = Absent]
    BY <2>2, <2>4 DEF Journal
  <2>6. J.staged \in Projection /\ live' = [live EXCEPT ![a] = J.staged[a]] /\ J.staged[a] # Absent
    BY <2>2, <2>3 DEF Journal, MovesIn
  <2>7. Upcoming' = Upcoming
    BY <2>1 DEF Upcoming
  <2>8. \A b \in Artifacts :
          IF J'.staged[b] = Absent THEN live'[b] = Upcoming[b] ELSE J'.staged[b] = Upcoming[b]
    BY <2>1, <2>2, <2>5, <2>6 DEF Placing, Projection
  <2>. QED
    BY <1>11, <2>1, <2>5, <2>7, <2>8 DEF Placing, Unlisted, Staged, Installs, IsSource, J
<1>12. CASE MoveIn /\ pc' = "commit"
  <2>1. /\ pc = "moveIn" /\ UNCHANGED <<op, cur, registry, live, journals>>
        /\ \A a \in Artifacts : J.staged[a] = Absent
    BY <1>12 DEF MoveIn, MovesIn
  <2>2. \A a \in Artifacts : live[a] = Upcoming[a]
    BY <2>1 DEF Placing
  <2>3. live \in Projection /\ Upcoming \in Projection
    BY <2>1, TheOperation, BuildTyped DEF Upcoming, Typed, TypeOK, BeforeCommit
  <2>4. live = Upcoming
    BY <2>2, <2>3 DEF Projection
  <2>5. Upcoming' = Upcoming /\ J' = J
    BY <2>1 DEF Upcoming, J
  <2>. QED
    BY <1>12, <2>1, <2>4, <2>5 DEF Placing, Unlisted, Staged, Installs, IsSource, J
<1>13. CASE UndoProjection /\ pc' = "dropProjection"
  <2>1. /\ pc = "unproject" /\ UNCHANGED <<cur, live, journals>>
        /\ J.listed => \A a \in Artifacts : ~ToUndo(J, a)
    BY <1>13 DEF UndoProjection, UndoesArtifact
  <2>2. J' = J
    BY <2>1 DEF J
  <2>3. J.listed => \A a \in Artifacts : IF a \in J.manifest THEN J.saved[a] = Absent ELSE live[a] = Absent
    BY <2>1 DEF ToUndo
  <2>. QED
    BY <1>13, <2>1, <2>2, <2>3 DEF Placing, Unlisted, Staged, Installs
<1>14. CASE TearProjection
  <2>1. /\ pc \notin NoMutation /\ pc \in {"retire", "dropProjection", "forward"} /\ pc' = pc
        /\ UNCHANGED <<op, cur, live>>
    BY <1>14 DEF TearProjection, NoMutation
  <2>2. J \in Journal /\ cur \in Ids
    BY <2>1, TheJournal
  <2>3. \/ J' = [J EXCEPT !.listed = FALSE, !.manifest = {}]
        \/ \E a \in Artifacts : J' = [J EXCEPT !.saved[a] = Absent]
        \/ J' = [J EXCEPT !.savedDir = FALSE]
    BY <1>14, <2>1, <2>2 DEF TearProjection, TearsProjection, SetJournal, J, Typed, TypeOK
  <2>4. J'.listed => /\ J.listed /\ J'.manifest = J.manifest
                     /\ \A a \in Artifacts : J'.saved[a] \in {J.saved[a], Absent}
    BY <2>2, <2>3 DEF Journal, Projection
  <2>. QED
    BY <2>1, <2>2, <2>4 DEF Placing, Unlisted, Staged, Installs, Journal
<1>15. CASE UNCHANGED vars
  BY <1>15 DEF vars, Placing, Upcoming, IsSource, J
<1>16. CASE \E n \in Names, c \in Bytes : Start(n, c)
  BY <1>16, PlacingElsewhere DEF Start, Elsewhere, NoMutation
<1>17. CASE Apply
  <2>1. CASE Refuse \/ BeginJournal \/ Commit \/ RetireProjection \/ DropBackup
    BY <2>1, PlacingElsewhere
       DEF Refuse, BeginJournal, Commit, RetireProjection, DropBackup, Elsewhere, NoMutation, AfterCommit
  <2>2. CASE MoveOut \/ MoveIn
    BY <1>9, <1>10, <1>11, <1>12, <2>2 DEF MoveOut, MovesOut, MoveIn, MovesIn
  <2>. QED
    BY <1>2, <1>3, <1>4, <1>5, <1>6, <1>7, <1>8, <1>17, <2>1, <2>2 DEF Apply
<1>18. CASE Settle
  BY <1>18, PlacingElsewhere
     DEF Settle, SettleCommit, WriteCommitted, DeleteCommitRow, StampLineage, MarkSettled, WriteSettled,
         RemoveJournal, TearJournal, Elsewhere, NoMutation, AfterCommit
<1>19. CASE Recover
  <2>1. CASE \/ \E i \in Ids : RecoverJournal(i)
             \/ Recovered \/ RestoreDocument \/ RestoreRename \/ Heal \/ RebuildOut \/ RebuildIn
             \/ StampRebuild
    BY <2>1, PlacingElsewhere
       DEF RecoverJournal, Recovered, RestoreDocument, RestoreRename, Heal, RebuildOut, RebuildIn,
           StampRebuild, Elsewhere, NoMutation, AfterCommit
  <2>2. CASE UndoProjection
    BY <1>13, <2>2, PlacingElsewhere
       DEF UndoProjection, UndoesArtifact, Elsewhere, NoMutation, AfterCommit
  <2>3. CASE DropProjection
    BY <2>3, PlacingElsewhere DEF DropProjection, Elsewhere, NoMutation, AfterCommit
  <2>. QED
    BY <1>14, <1>19, <2>1, <2>2, <2>3 DEF Recover
<1>20. CASE Fail
  BY <1>20, PlacingElsewhere
     DEF Fail, FailBeforeCommit, FailAfterCommit, FailOutright, Elsewhere, NoMutation, AfterCommit
<1>21. CASE Crash \/ Restart
  BY <1>21, PlacingElsewhere DEF Crash, Restart, Elsewhere, NoMutation
<1>. QED
  BY <1>15, <1>16, <1>17, <1>18, <1>19, <1>20, <1>21 DEF Next

\* A step that leaves the journals and the evidence alone.
LEMMA DirectedStays ==
  ASSUME Typed, Directed, UNCHANGED <<journals, commits>>,
         pc' # "journal",
         pc' = "stage" => ~journals[cur'].proj,
         pc' = "remove" /\ ~TornRemoval => ~journals[cur'].proj \/ Committed(cur'),
         pc' \in BeforeCommit \cup Undoing => ~Committed(cur'),
         pc' \in {"retire", "dropBackup", "settle", "settleWrite", "forward"} => Committed(cur'),
         pc' \in {"unrecord", "stamp", "settled", "settledWrite"} => journals[cur'].committed
  PROVE  Directed'
  BY DEF Directed, Journalled, Readable, IsSource, Committed, J

\* A step that rewrites the journal at hand, and opens no projection
\* transaction in it.
LEMMA DirectedRewrites ==
  ASSUME Typed, Directed, pc \notin NoMutation, NEW j \in Journal, SetJournal(j), cur' = cur,
         j.proj => J.proj /\ j.tx \in {J.tx, Absent},
         pc' # "journal",
         pc' = "stage" => ~j.proj,
         pc' = "remove" /\ ~TornRemoval => ~j.proj \/ cur \in commits' \/ j.committed,
         pc' \in BeforeCommit \cup Undoing => cur \notin commits' /\ ~j.committed,
         pc' \in {"retire", "dropBackup", "settle", "settleWrite", "forward"} =>
            cur \in commits' \/ j.committed,
         pc' \in {"unrecord", "stamp", "settled", "settledWrite"} => j.committed
  PROVE  Directed'
<1>1. J' = j /\ journals'[cur] = j /\ Journalled' = {cur}
  BY Rewrites
<1>2. J.proj /\ J.tx # Absent => J.tx.name \in Sources
  BY TheJournal DEF Directed, Readable, IsSource, J
<1>3. j # Absent
  BY JournalAssumption
<1>. QED
  BY <1>1, <1>2, <1>3 DEF Directed, Readable, IsSource, Committed

\* A step to where no mutation is at hand, that leaves the journals alone.
LEMMA DirectedLeaves ==
  ASSUME Typed, Directed, UNCHANGED journals, pc' \in NoMutation
  PROVE  Directed'
  BY DEF Directed, Journalled, Readable, IsSource, NoMutation, BeforeCommit, Undoing

\* Every step rolls back only what has no evidence of its commit, and retires
\* only the projection of what has.
LEMMA StepDirected == Typed /\ Typed' /\ Projected /\ [Next]_vars => Directed'
<1>. SUFFICES ASSUME Typed, Typed', Placing, Directed, [Next]_vars PROVE Directed'
  BY DEF Projected
<1>. USE DEF Goto, Finish, To, disk, db
<1>1. CASE \E n \in Names, c \in Bytes : Start(n, c)
  BY <1>1, DirectedLeaves DEF Start, NoMutation
<1>2. CASE Refuse \/ Recovered \/ Heal \/ RebuildOut \/ RebuildIn \/ StampRebuild \/ FailOutright
           \/ Crash \/ Restart
  BY <1>2, DirectedLeaves
     DEF Refuse, Recovered, Heal, RebuildOut, RebuildIn, StampRebuild, FailOutright, Crash, Restart,
         NoMutation
<1>3. CASE BeginJournal
  <2>1. PICK i \in Ids \ (Journalled \cup commits) :
               cur' = i /\ journals' = [journals EXCEPT ![i] = EmptyJournal]
    BY <1>3 DEF BeginJournal
  <2>2. journals'[i] = EmptyJournal /\ J' = EmptyJournal
    BY <2>1 DEF J, Typed, TypeOK
  <2>3. pc' = "journal" /\ commits' = commits /\ ~EmptyJournal.proj /\ ~EmptyJournal.committed
    BY <1>3 DEF BeginJournal, EmptyJournal
  <2>4. \A k \in Journalled' : k = i
    BY <2>1, <2>2, <2>3, JournalAssumption DEF Typed, Working, Journalled, NoMutation
  <2>. QED
    BY <2>1, <2>2, <2>3, <2>4 DEF Directed, Committed
<1>4. CASE WriteTransaction
  <2>. DEFINE record == [name |-> op.name, prior |-> files[op.name] # Absent]
              j == [J EXCEPT !.tx = record]
  <2>1. pc = "journal" /\ pc \notin NoMutation /\ cur' = cur /\ commits' = commits /\ pc' \in {"stage", "park"}
    BY <1>4 DEF WriteTransaction, NoMutation
  <2>2. J = EmptyJournal /\ J \in Journal /\ op.name \in Names
    BY <2>1, TheJournal DEF Directed, Typed, Working, Operation
  <2>3. record \in Tx
    BY <2>2, (files[op.name] # Absent) \in BOOLEAN DEF Tx
  <2>4. j \in Journal
    BY <2>2, <2>3 DEF Journal
  <2>5. ~J.proj /\ j.proj = J.proj /\ j.committed = J.committed
    BY <2>2 DEF EmptyJournal
  <2>6. ~Committed(cur)
    BY <2>1 DEF Directed
  <2>7. SetJournal(j)
    BY <1>4 DEF WriteTransaction
  <2>. HIDE DEF j
  <2>. QED
    BY <2>1, <2>4, <2>5, <2>6, <2>7, DirectedRewrites DEF Committed, J
<1>5. CASE StageSourceChange
  <2>. DEFINE j == [J EXCEPT !.proj = TRUE, !.staged = Upcoming]
  <2>1. pc \notin NoMutation /\ pc = "stage" /\ pc' = "park" /\ UNCHANGED <<op, cur, registry, commits>>
    BY <1>5 DEF StageSourceChange, NoMutation
  <2>2. J \in Journal /\ J.tx # Absent /\ ~Committed(cur)
    BY <2>1, TheJournal DEF Directed, BeforeCommit
  <2>3. Upcoming \in Projection
    BY <2>1, TheOperation, BuildTyped DEF Upcoming, Typed, TypeOK, BeforeCommit
  <2>4. j \in Journal /\ j.tx = J.tx /\ j.committed = J.committed
    BY <2>2, <2>3 DEF Journal
  <2>5. J' = j /\ journals'[cur] = j /\ Journalled' = {cur}
    BY <1>5, <2>1, <2>4, Rewrites DEF StageSourceChange, Upcoming
  <2>6. IsSource(cur)
    BY <2>1 DEF Placing
  <2>7. j # Absent /\ ~j.committed /\ cur \notin commits
    BY <2>2, <2>4, JournalAssumption DEF Committed, J
  <2>8. /\ journals'[cur].tx = J.tx /\ journals'[cur] # Absent /\ cur' = cur
        /\ ~Committed(cur)' /\ IsSource(cur)' /\ Readable(cur)'
    <3>. HIDE DEF j
    <3>. QED
      BY <2>1, <2>2, <2>4, <2>5, <2>6, <2>7 DEF Readable, IsSource, Committed, J
  <2>. QED
    BY <2>1, <2>5, <2>8 DEF Directed
<1>6. CASE ParkPrior /\ UNCHANGED journals
  <2>1. pc = "park" /\ pc' \in {"place", "register"} /\ UNCHANGED <<cur, commits>>
    BY <1>6 DEF ParkPrior
  <2>. QED
    BY <1>6, <2>1, DirectedStays DEF Directed, BeforeCommit, Undoing, Committed
<1>7. CASE PlaceBytes
  <2>1. pc = "place" /\ pc' = "register" /\ UNCHANGED <<cur, commits, journals>>
    BY <1>7 DEF PlaceBytes
  <2>. QED
    BY <2>1, DirectedStays DEF Directed, BeforeCommit, Undoing, Committed
<1>8. CASE (MoveOut \/ MoveIn) /\ UNCHANGED journals /\ pc' \in {"moveIn", "commit"}
  <2>1. pc \in {"moveOut", "moveIn"} /\ UNCHANGED <<cur, commits, journals>>
    BY <1>8 DEF MoveOut, MoveIn, MovesOut, MovesIn
  <2>. QED
    BY <1>8, <2>1, DirectedStays DEF Directed, BeforeCommit, Undoing, Committed
<1>9. CASE ParkPrior /\ SetJournal([J EXCEPT !.backup = files[op.name]])
  <2>. DEFINE j == [J EXCEPT !.backup = files[op.name]]
  <2>1. /\ pc \notin NoMutation /\ pc \in BeforeCommit /\ pc' \in BeforeCommit \ {"stage"}
        /\ UNCHANGED <<cur, commits>>
    BY <1>9 DEF ParkPrior, NoMutation, BeforeCommit
  <2>2. J \in Journal /\ ~Committed(cur)
    BY <2>1, TheJournal DEF Directed
  <2>3. j \in Journal /\ j.tx = J.tx /\ j.proj = J.proj /\ j.committed = J.committed
    BY <2>1, <2>2, TheOperation DEF Journal, Typed, TypeOK, Projection, Bytes
  <2>4. SetJournal(j)
    BY <1>9 DEF ParkPrior
  <2>. HIDE DEF j
  <2>. QED
    BY <2>1, <2>2, <2>3, <2>4, DirectedRewrites DEF Committed, J, BeforeCommit
<1>10. CASE Register
  <2>. DEFINE j == [J EXCEPT !.intent = op.name \in Sources]
  <2>1. /\ pc \notin NoMutation /\ pc \in BeforeCommit /\ pc' \in BeforeCommit \ {"stage"}
        /\ UNCHANGED <<cur, commits>>
    BY <1>10 DEF Register, NoMutation, BeforeCommit
  <2>2. J \in Journal /\ ~Committed(cur)
    BY <2>1, TheJournal DEF Directed
  <2>3. j \in Journal /\ j.tx = J.tx /\ j.proj = J.proj /\ j.committed = J.committed
    BY <2>2, (op.name \in Sources) \in BOOLEAN DEF Journal
  <2>4. SetJournal(j)
    BY <1>10 DEF Register
  <2>. HIDE DEF j
  <2>. QED
    BY <2>1, <2>2, <2>3, <2>4, DirectedRewrites DEF Committed, J, BeforeCommit
<1>11. CASE OpenProjectionBackup
  <2>. DEFINE j == [J EXCEPT !.savedDir = TRUE]
  <2>1. /\ pc \notin NoMutation /\ pc \in BeforeCommit /\ pc' \in BeforeCommit \ {"stage"}
        /\ UNCHANGED <<cur, commits>>
    BY <1>11 DEF OpenProjectionBackup, NoMutation, BeforeCommit
  <2>2. J \in Journal /\ ~Committed(cur)
    BY <2>1, TheJournal DEF Directed
  <2>3. j \in Journal /\ j.tx = J.tx /\ j.proj = J.proj /\ j.committed = J.committed
    BY <2>1, <2>2 DEF Journal, Typed, TypeOK, Projection
  <2>4. SetJournal(j)
    BY <1>11 DEF OpenProjectionBackup
  <2>. HIDE DEF j
  <2>. QED
    BY <2>1, <2>2, <2>3, <2>4, DirectedRewrites DEF Committed, J, BeforeCommit
<1>12. CASE WriteManifest
  <2>. DEFINE j == [J EXCEPT !.listed = TRUE, !.manifest = {a \in Artifacts : live[a] # Absent}]
  <2>1. /\ pc \notin NoMutation /\ pc \in BeforeCommit /\ pc' \in BeforeCommit \ {"stage"}
        /\ UNCHANGED <<cur, commits>>
    BY <1>12 DEF WriteManifest, NoMutation, BeforeCommit
  <2>2. J \in Journal /\ ~Committed(cur)
    BY <2>1, TheJournal DEF Directed
  <2>3. j \in Journal /\ j.tx = J.tx /\ j.proj = J.proj /\ j.committed = J.committed
    BY <2>1, <2>2 DEF Journal, Typed, TypeOK, Projection
  <2>4. SetJournal(j)
    BY <1>12 DEF WriteManifest
  <2>. HIDE DEF j
  <2>. QED
    BY <2>1, <2>2, <2>3, <2>4, DirectedRewrites DEF Committed, J, BeforeCommit
<1>13. CASE MoveOut /\ pc' = "moveOut"
  <2>0. PICK a \in Artifacts : MovesOut(a)
    BY <1>13 DEF MoveOut
  <2>. DEFINE j == [J EXCEPT !.saved[a] = live[a]]
  <2>1. /\ pc \notin NoMutation /\ pc \in BeforeCommit /\ pc' \in BeforeCommit \ {"stage"}
        /\ UNCHANGED <<cur, commits>>
    BY <1>13, <2>0 DEF MoveOut, MovesOut, NoMutation, BeforeCommit
  <2>2. J \in Journal /\ ~Committed(cur)
    BY <2>1, TheJournal DEF Directed
  <2>3. j \in Journal /\ j.tx = J.tx /\ j.proj = J.proj /\ j.committed = J.committed
    BY <2>1, <2>2, <2>0 DEF Journal, Typed, TypeOK, Projection, MovesOut
  <2>4. SetJournal(j)
    BY <1>13, <2>0 DEF MoveOut, MovesOut
  <2>. HIDE DEF j
  <2>. QED
    BY <2>1, <2>2, <2>3, <2>4, DirectedRewrites DEF Committed, J, BeforeCommit
<1>14. CASE MoveIn /\ pc' = "moveIn"
  <2>0. PICK a \in Artifacts : MovesIn(a)
    BY <1>14 DEF MoveIn
  <2>. DEFINE j == [J EXCEPT !.staged[a] = Absent]
  <2>1. /\ pc \notin NoMutation /\ pc \in BeforeCommit /\ pc' \in BeforeCommit \ {"stage"}
        /\ UNCHANGED <<cur, commits>>
    BY <1>14, <2>0 DEF MoveIn, MovesIn, NoMutation, BeforeCommit
  <2>2. J \in Journal /\ ~Committed(cur)
    BY <2>1, TheJournal DEF Directed
  <2>3. j \in Journal /\ j.tx = J.tx /\ j.proj = J.proj /\ j.committed = J.committed
    BY <2>1, <2>2, <2>0 DEF Journal, Typed, TypeOK, Projection, MovesIn
  <2>4. SetJournal(j)
    BY <1>14, <2>0 DEF MoveIn, MovesIn
  <2>. HIDE DEF j
  <2>. QED
    BY <2>1, <2>2, <2>3, <2>4, DirectedRewrites DEF Committed, J, BeforeCommit
<1>15. CASE Commit
  <2>1. /\ pc = "commit" /\ UNCHANGED <<cur, journals>> /\ commits' = commits \cup {cur}
        /\ pc' = IF op.name \in Sources THEN "retire" ELSE "dropBackup"
    BY <1>15 DEF Commit
  <2>2. cur \in Ids /\ J \in Journal /\ Journalled = {cur} /\ (IsSource(cur) <=> op.name \in Sources)
    BY <2>1, TheJournal, TheOperation DEF NoMutation, BeforeCommit
  <2>3. Committed(cur)' /\ J' = J /\ Journalled' = Journalled
    BY <2>1, <2>2 DEF Committed, J, Journalled
  <2>5. \A i \in Journalled' : journals'[i].proj /\ Readable(i)' => IsSource(i)'
    BY <2>1, <2>3 DEF Directed, Readable, IsSource
  <2>. QED
    BY <2>1, <2>2, <2>3, <2>5 DEF Directed, BeforeCommit, Undoing
<1>16. CASE RetireProjection \/ DropBackup
  <2>1. /\ pc \in {"retire", "dropBackup"} /\ pc' \in {"dropBackup", "settle"} /\ pc \notin NoMutation
        /\ UNCHANGED <<cur, commits>> /\ Committed(cur)
    BY <1>16 DEF RetireProjection, DropBackup, NoMutation, Directed
  <2>2. J \in Journal
    BY <2>1, TheJournal
  <2>3. CASE UNCHANGED journals
    BY <2>1, <2>3, DirectedStays DEF BeforeCommit, Undoing
  <2>4. CASE SetJournal(WithoutProjection(J))
    <3>. DEFINE j == WithoutProjection(J)
    <3>1. j \in Journal /\ ~j.proj /\ j.committed = J.committed
      BY <2>2, NoArtifactsTyped DEF WithoutProjection, Journal
    <3>. HIDE DEF j
    <3>. QED
      BY <2>1, <2>4, <3>1, DirectedRewrites DEF BeforeCommit, Undoing, Committed, J, j
  <2>5. CASE SetJournal([J EXCEPT !.backup = Absent])
    <3>. DEFINE j == [J EXCEPT !.backup = Absent]
    <3>1. j \in Journal /\ j.proj = J.proj /\ j.tx = J.tx /\ j.committed = J.committed
      BY <2>2, AbsentInBytes DEF Journal
    <3>2. SetJournal(j)
      BY <2>5
    <3>. HIDE DEF j
    <3>. QED
      BY <2>1, <3>1, <3>2, DirectedRewrites DEF BeforeCommit, Undoing, Committed, J
  <2>. QED
    BY <1>16, <2>3, <2>4, <2>5 DEF RetireProjection, DropBackup
<1>17. CASE SettleCommit
  <2>1. /\ pc = "settle" /\ pc \notin NoMutation /\ UNCHANGED commits /\ Committed(cur)
    BY <1>17 DEF SettleCommit, NoMutation, Directed
  <2>2. CASE UNCHANGED journals
    <3>1. /\ pc' \in {"remove", "unrecord", "idle"} \cup {"settleWrite"}
          /\ pc' # "idle" => cur' = cur
          /\ pc' = "unrecord" => J.committed
      BY <1>17 DEF SettleCommit
    <3>2. CASE pc' = "idle"
      BY <2>2, <3>2, DirectedLeaves DEF NoMutation
    <3>. QED
      BY <2>1, <2>2, <3>1, <3>2, DirectedStays DEF BeforeCommit, Undoing, J
  <2>3. CASE SetJournal([J EXCEPT !.unwritten = TRUE]) /\ pc' = "settleWrite" /\ cur' = cur
    <3>. DEFINE j == [J EXCEPT !.unwritten = TRUE]
    <3>1. j \in Journal /\ j.proj = J.proj /\ j.tx = J.tx /\ j.committed = J.committed
      BY <2>1, TheJournal DEF Journal
    <3>2. SetJournal(j)
      BY <2>3
    <3>. HIDE DEF j
    <3>. QED
      BY <2>1, <2>3, <3>1, <3>2, DirectedRewrites DEF BeforeCommit, Undoing, Committed, J
  <2>. QED
    BY <1>17, <2>2, <2>3 DEF SettleCommit
<1>18. CASE WriteCommitted \/ WriteSettled
  <2>1. /\ pc \in {"settleWrite", "settledWrite"} /\ pc' \in {"unrecord", "remove"}
        /\ pc \notin NoMutation /\ UNCHANGED <<cur, commits>> /\ (pc = "settledWrite" => J.committed)
    BY <1>18 DEF WriteCommitted, WriteSettled, NoMutation, Directed
  <2>2. PICK j \in Journal : SetJournal(j) /\ j.proj = J.proj /\ j.tx = J.tx /\ j.committed
    <3>1. \A j : \/ j = [J EXCEPT !.committed = TRUE, !.unwritten = FALSE]
                 \/ J.committed /\ j = [J EXCEPT !.settled = TRUE, !.unwritten = FALSE]
                 => j \in Journal /\ j.proj = J.proj /\ j.tx = J.tx /\ j.committed
      BY <2>1, TheJournal, ZenonT(60) DEF Journal
    <3>. QED
      BY <1>18, <2>1, <3>1 DEF WriteCommitted, WriteSettled
  <2>. QED
    BY <2>1, <2>2, DirectedRewrites DEF BeforeCommit, Undoing
<1>19. CASE DeleteCommitRow
  <2>1. /\ pc = "unrecord" /\ pc' \in {"stamp", "remove"} /\ UNCHANGED <<cur, journals>> /\ J.committed
    BY <1>19 DEF DeleteCommitRow, Directed
  <2>2. \A i \in Journalled' : journals'[i].proj /\ Readable(i)' => IsSource(i)'
    BY <2>1 DEF Directed, Readable, IsSource, Journalled
  <2>. QED
    BY <2>1, <2>2 DEF Directed, BeforeCommit, Undoing, J, Committed
<1>20. CASE StampLineage
  <2>1. pc = "stamp" /\ pc' = "settled" /\ UNCHANGED <<cur, journals, commits>> /\ J.committed
    BY <1>20 DEF StampLineage, Directed
  <2>. QED
    BY <2>1, DirectedStays DEF BeforeCommit, Undoing, J
<1>21. CASE MarkSettled
  <2>. DEFINE j == [J EXCEPT !.unwritten = TRUE]
  <2>1. pc = "settled" /\ pc' = "settledWrite" /\ pc \notin NoMutation /\ cur' = cur /\ J.committed
    BY <1>21 DEF MarkSettled, NoMutation, Directed
  <2>2. j \in Journal /\ j.proj = J.proj /\ j.tx = J.tx /\ j.committed
    BY <2>1, TheJournal DEF Journal
  <2>3. SetJournal(j)
    BY <1>21 DEF MarkSettled
  <2>. HIDE DEF j
  <2>. QED
    BY <2>1, <2>2, <2>3, DirectedRewrites DEF BeforeCommit, Undoing
<1>22. CASE RemoveJournal
  <2>1. pc = "remove" /\ pc \notin NoMutation /\ pc' \in {"idle", "recover"} /\ SetJournal(Absent)
    BY <1>22 DEF RemoveJournal, NoMutation
  <2>2. Journalled' = {}
    BY <2>1, TheJournal DEF SetJournal, Journalled, Typed, TypeOK
  <2>. QED
    BY <2>1, <2>2 DEF Directed, BeforeCommit, Undoing
<1>23. CASE TearJournal
  <2>1. /\ pc = "remove" /\ pc' = "remove" /\ pc \notin NoMutation /\ UNCHANGED <<cur, commits>>
        /\ TornRemoval
    BY <1>23 DEF TearJournal, NoMutation
  <2>2. J \in Journal
    BY <2>1, TheJournal
  <2>3. PICK j \in Journal : SetJournal(j) /\ (j.proj => J.proj /\ j.tx \in {J.tx, Absent})
    <3>1. CASE TearsProjection
      BY <2>1, <3>1, ProjectionTorn
    <3>2. \A j : j \in {[J EXCEPT !.tx = Absent], [J EXCEPT !.committed = FALSE],
                       [J EXCEPT !.settled = FALSE], [J EXCEPT !.intent = FALSE],
                       [J EXCEPT !.backup = Absent]}
                 => j \in Journal /\ j.proj = J.proj /\ j.tx \in {J.tx, Absent}
      BY <2>2, AbsentInBytes, ZenonT(60) DEF Journal
    <3>3. WithoutProjection(J) \in Journal /\ ~WithoutProjection(J).proj
      BY <2>2, NoArtifactsTyped DEF Journal, WithoutProjection
    <3>. QED
      BY <1>23, <3>1, <3>2, <3>3 DEF TearJournal
  <2>. QED
    BY <2>1, <2>3, DirectedRewrites DEF BeforeCommit, Undoing
<1>24. CASE \E i \in Ids : RecoverJournal(i)
  <2>1. PICK i \in Ids : RecoverJournal(i)
    BY <1>24
  <2>2. i \in Journalled /\ UNCHANGED <<journals, commits>>
    BY <2>1 DEF RecoverJournal
  <2>3. CASE Readable(i)
    <3>1. /\ cur' = i
          /\ pc' = IF ~Committed(i) THEN "restore" ELSE IF IsSource(i) THEN "forward" ELSE "settle"
      BY <2>1, <2>3 DEF RecoverJournal
    <3>2. journals[i].proj => IsSource(i)
      BY <2>2, <2>3 DEF Directed
    <3>. QED
      BY <2>2, <3>1, <3>2, DirectedStays DEF BeforeCommit, Undoing
  <2>4. CASE ~Readable(i) /\ ~Recoverable(i)
    <3>1. cur' = i /\ pc' = "remove" /\ ~journals[i].proj
      BY <2>1, <2>4 DEF RecoverJournal, Recoverable
    <3>. QED
      BY <2>2, <3>1, DirectedStays DEF BeforeCommit, Undoing
  <2>5. CASE ~Readable(i) /\ Recoverable(i)
    BY <2>1, <2>2, <2>5, DirectedLeaves DEF RecoverJournal, NoMutation
  <2>. QED
    BY <2>3, <2>4, <2>5
<1>25. CASE RestoreDocument
  <2>1. /\ pc = "restore" /\ UNCHANGED <<cur, journals, commits>>
        /\ pc' \in {"restoreRename", "unproject", "remove"}
        /\ pc' = "remove" => ~IsSource(cur)
    BY <1>25 DEF RestoreDocument
  <2>2. ~Committed(cur) /\ (J.proj => IsSource(cur))
    BY <2>1, TheJournal DEF Directed, Undoing, NoMutation, J, Readable
  <2>. QED
    BY <2>1, <2>2, DirectedStays DEF BeforeCommit, Undoing, J
<1>26. CASE RestoreRename
  <2>. DEFINE j == [J EXCEPT !.backup = Absent]
  <2>1. /\ pc = "restoreRename" /\ pc \notin NoMutation /\ UNCHANGED <<cur, commits>>
        /\ pc' \in {"unproject", "remove"}
        /\ pc' = "remove" => ~IsSource(cur)
    BY <1>26 DEF RestoreRename, NoMutation
  <2>2. J \in Journal /\ ~Committed(cur) /\ (J.proj => IsSource(cur))
    BY <2>1, TheJournal DEF Directed, Undoing, J, Readable
  <2>3. j \in Journal /\ j.proj = J.proj /\ j.tx = J.tx /\ j.committed = J.committed
    BY <2>2, AbsentInBytes DEF Journal
  <2>4. SetJournal(j)
    BY <1>26 DEF RestoreRename
  <2>. HIDE DEF j
  <2>. QED
    BY <2>1, <2>2, <2>3, <2>4, DirectedRewrites DEF BeforeCommit, Undoing, Committed, J
<1>27. CASE UndoProjection
  <2>1. /\ pc = "unproject" /\ pc \notin NoMutation /\ UNCHANGED commits
    BY <1>27 DEF UndoProjection, NoMutation
  <2>2. J \in Journal /\ ~Committed(cur)
    BY <2>1, TheJournal DEF Directed, Undoing
  <2>3. CASE \E a \in Artifacts : UndoesArtifact(a)
    <3>1. PICK a \in Artifacts : UndoesArtifact(a)
      BY <2>3
    <3>. DEFINE j == [J EXCEPT !.saved[a] = Absent]
    <3>2. j \in Journal /\ j.proj = J.proj /\ j.tx = J.tx /\ j.committed = J.committed
      BY <2>2 DEF Journal, Projection
    <3>3. SetJournal(j) /\ pc' = "unproject" /\ cur' = cur
      BY <3>1 DEF UndoesArtifact
    <3>. HIDE DEF j
    <3>. QED
      BY <2>1, <2>2, <3>2, <3>3, DirectedRewrites DEF BeforeCommit, Undoing, Committed, J
  <2>4. CASE ~\E a \in Artifacts : UndoesArtifact(a)
    <3>1. /\ UNCHANGED journals
          /\ \/ pc' = "remove" /\ ~J.proj /\ cur' = cur
             \/ pc' = "idle"
             \/ pc' = "dropProjection" /\ cur' = cur
      BY <1>27, <2>4 DEF UndoProjection
    <3>2. CASE pc' = "idle"
      BY <3>1, <3>2, DirectedLeaves DEF NoMutation
    <3>. QED
      BY <2>1, <2>2, <3>1, <3>2, DirectedStays DEF BeforeCommit, Undoing, J
  <2>. QED
    BY <2>3, <2>4
<1>28. CASE DropProjection
  <2>. DEFINE j == WithoutProjection(J)
  <2>1. /\ pc \in {"dropProjection", "forward"} /\ pc \notin NoMutation /\ UNCHANGED commits
        /\ pc' \in {"idle", "settle", "restore", "remove"}
        /\ pc' # "idle" => cur' = cur
        /\ pc' = "restore" => pc = "dropProjection"
        /\ pc' = "settle" => pc = "forward"
    BY <1>28 DEF DropProjection, NoMutation
  <2>2. J \in Journal /\ (pc = "forward" <=> Committed(cur))
    BY <2>1, TheJournal DEF Directed, Undoing
  <2>3. j \in Journal /\ ~j.proj /\ j.committed = J.committed
    BY <2>2, NoArtifactsTyped DEF WithoutProjection, Journal
  <2>4. SetJournal(j)
    BY <1>28 DEF DropProjection
  <2>. HIDE DEF j
  <2>5. CASE pc' = "idle"
    <3>1. journals'[cur] = j /\ Journalled' = {cur}
      BY <2>1, <2>3, <2>4, Updated, TheJournal
    <3>. QED
      BY <2>3, <2>5, <3>1 DEF Directed, BeforeCommit, Undoing
  <2>. QED
    BY <2>1, <2>2, <2>3, <2>4, <2>5, DirectedRewrites DEF BeforeCommit, Undoing, Committed, J
<1>29. CASE TearProjection
  <2>1. /\ pc \in {"retire", "dropProjection", "forward"} /\ pc' = pc /\ pc \notin NoMutation
        /\ UNCHANGED <<cur, commits>>
    BY <1>29 DEF TearProjection, NoMutation
  <2>2. J \in Journal /\ (pc # "dropProjection" <=> Committed(cur))
    BY <2>1, TheJournal DEF Directed, Undoing
  <2>3. PICK j \in Journal : SetJournal(j) /\ j.proj = J.proj /\ j.tx = J.tx /\ j.committed = J.committed
    BY <1>29, <2>1, ProjectionTorn DEF TearProjection
  <2>. QED
    BY <2>1, <2>2, <2>3, DirectedRewrites DEF BeforeCommit, Undoing, Committed, J
<1>30. CASE FailBeforeCommit
  <2>1. /\ pc \in BeforeCommit /\ pc \notin NoMutation /\ pc' \in {"restore", "unproject"}
        /\ UNCHANGED <<cur, commits>>
    BY <1>30 DEF FailBeforeCommit, BeforeCommit, NoMutation
  <2>2. J \in Journal /\ ~Committed(cur)
    BY <2>1, TheJournal DEF Directed
  <2>3. CASE UNCHANGED journals
    BY <2>1, <2>2, <2>3, DirectedStays DEF BeforeCommit, Undoing, Committed
  <2>4. CASE SetJournal(WithoutProjection(J))
    <3>1. WithoutProjection(J) \in Journal /\ ~WithoutProjection(J).proj
          /\ WithoutProjection(J).committed = J.committed
      BY <2>2, NoArtifactsTyped DEF WithoutProjection, Journal
    <3>. QED
      BY <2>1, <2>2, <2>4, <3>1, DirectedRewrites DEF BeforeCommit, Undoing, Committed, J
  <2>. QED
    BY <1>30, <2>3, <2>4 DEF FailBeforeCommit
<1>31. CASE FailAfterCommit
  <2>1. UNCHANGED <<journals, commits>> /\ pc' \in {"restore", "forward", "idle"}
    BY <1>31 DEF FailAfterCommit
  <2>2. pc' # "idle" => cur' = cur /\ (pc' = "restore" <=> ~Committed(cur))
    BY <1>31 DEF FailAfterCommit
  <2>3. CASE pc' = "idle"
    BY <2>1, <2>3, DirectedLeaves DEF NoMutation
  <2>. QED
    BY <2>1, <2>2, <2>3, DirectedStays DEF BeforeCommit, Undoing
<1>32. CASE UNCHANGED vars
  BY <1>32 DEF vars, Directed, Journalled, Readable, IsSource, Committed, J
<1>33. CASE Apply
  <2>1. CASE ParkPrior
    BY <1>6, <1>9, <2>1 DEF ParkPrior
  <2>2. CASE MoveOut \/ MoveIn
    BY <1>8, <1>13, <1>14, <2>2 DEF MoveOut, MovesOut, MoveIn, MovesIn
  <2>. QED
    BY <1>2, <1>3, <1>4, <1>5, <1>7, <1>10, <1>11, <1>12, <1>15, <1>16, <1>33, <2>1, <2>2 DEF Apply
<1>. QED
  BY <1>1, <1>2, <1>17, <1>18, <1>19, <1>20, <1>21, <1>22, <1>23, <1>24, <1>25, <1>26, <1>27, <1>28, <1>29,
     <1>30, <1>31, <1>32, <1>33 DEF Next, Settle, Recover, Fail

\* So the standing of the projection is kept.
LEMMA StepProjected == Typed /\ Typed' /\ Projected /\ [Next]_vars => Projected'
  BY StepPlacing, StepDirected DEF Projected

-----------------------------------------------------------------------------
(* What a recovery would leave of the source projection: no step but the   *)
(* commit, and a rewrite of the projection that has no journal, changes    *)
(* it.                                                                     *)

\* An artifact as the projection transaction of j, rolled back, leaves it.
Gives(j, present, a) ==
    IF a \notin j.manifest THEN Absent ELSE IF j.saved[a] # Absent THEN j.saved[a] ELSE present

Left(i, a) == IF Installing(i) THEN Gives(journals[i], live[a], a) ELSE live[a]

CorpusKept == \A a \in Artifacts : RecoveredArtifact(a)' = RecoveredArtifact(a)

\* The one journal decides what a recovery leaves.
LEMMA RecoveredLeft ==
  ASSUME NEW i \in Ids, Journalled \subseteq {i}, NEW a \in Artifacts
  PROVE  RecoveredArtifact(a) = Left(i, a)
<1>1. \A k \in Ids : Installing(k) => k = i
  BY DEF Installing, Undecided, Readable, Journalled
<1>2. CASE Installing(i)
  <2>1. (CHOOSE k \in Ids : Installing(k)) = i
    BY <1>1, <1>2
  <2>. QED
    BY <1>2, <2>1 DEF RecoveredArtifact, Left, Gives
<1>3. CASE ~Installing(i)
  BY <1>1, <1>3 DEF RecoveredArtifact, Left
<1>. QED
  BY <1>2, <1>3

\* So it does after a step.
LEMMA RecoveredLeftNext ==
  ASSUME NEW i \in Ids, Journalled' \subseteq {i}, NEW a \in Artifacts
  PROVE  RecoveredArtifact(a)' = Left(i, a)'
<1>1. \A k \in Ids : Installing(k)' => k = i
  BY DEF Installing, Undecided, Readable, Journalled
<1>2. CASE Installing(i)'
  <2>1. (CHOOSE k \in Ids : Installing(k)') = i
    BY <1>1, <1>2
  <2>. QED
    BY <1>2, <2>1 DEF RecoveredArtifact, Left, Gives
<1>3. CASE ~Installing(i)'
  BY <1>1, <1>3 DEF RecoveredArtifact, Left
<1>. QED
  BY <1>2, <1>3

\* Without a journal everything is left as it is.
LEMMA RecoveredLive == Journalled = {} => \A a \in Artifacts : RecoveredArtifact(a) = live[a]
  BY DEF RecoveredArtifact, Installing, Undecided, Readable, Journalled

\* A step that has the one journal leave the same.
LEMMA CorpusKeptBy ==
  ASSUME NEW i \in Ids, Journalled \subseteq {i}, Journalled' \subseteq {i},
         \A a \in Artifacts : Left(i, a)' = Left(i, a)
  PROVE  CorpusKept
  BY RecoveredLeft, RecoveredLeftNext DEF CorpusKept

\* A step of a mutation that installs nothing, or nothing it would take back.
LEMMA CorpusUninstalled ==
  ASSUME NEW i \in Ids, Journalled \subseteq {i}, Journalled' \subseteq {i},
         ~Installing(i), ~Installing(i)', UNCHANGED live
  PROVE  CorpusKept
  BY CorpusKeptBy DEF Left

\* A step that touches neither the journals nor the projection.
LEMMA CorpusUntouched ==
  ASSUME UNCHANGED <<journals, commits, live>>
  PROVE  CorpusKept
  BY DEF CorpusKept, RecoveredArtifact, Installing, Undecided, Readable, IsSource, Committed

\* A step that rewrites the journal at hand, not its projection transaction.
LEMMA CorpusRewritten ==
  ASSUME Typed, pc \notin NoMutation, NEW j \in Journal, SetJournal(j), cur' = cur,
         UNCHANGED <<commits, live>>,
         j.tx = J.tx, j.committed = J.committed, j.proj = J.proj, j.listed = J.listed,
         j.manifest = J.manifest, j.saved = J.saved
  PROVE  CorpusKept
<1>1. J' = j /\ journals'[cur] = j /\ Journalled' = {cur} /\ Journalled = {cur} /\ cur \in Ids /\ J # Absent
  BY Rewrites, TheJournal
<1>2. j # Absent /\ J = journals[cur]
  BY JournalAssumption DEF J
<1>3. Installing(cur)' <=> Installing(cur)
  BY <1>1, <1>2 DEF Installing, Undecided, Readable, IsSource, Committed
<1>4. \A a \in Artifacts : Left(cur, a)' = Left(cur, a)
  BY <1>1, <1>2, <1>3 DEF Left, Gives
<1>. QED
  BY <1>1, <1>4, CorpusKeptBy

\* A step that rewrites it where nothing is to be taken back, before and after.
LEMMA CorpusApart ==
  ASSUME Typed, pc \notin NoMutation, NEW j \in Journal, SetJournal(j), UNCHANGED live,
         Committed(cur) \/ ~J.proj \/ ~J.listed,
         cur \in commits' \/ j.committed \/ ~j.proj \/ ~j.listed
  PROVE  CorpusKept
<1>1. journals'[cur] = j /\ Journalled' = Journalled
  BY Updated
<1>2. Journalled = {cur} /\ cur \in Ids
  BY TheJournal
<1>. QED
  BY <1>1, <1>2, CorpusUninstalled DEF Installing, Undecided, Committed, J

\* Every other step leaves what a recovery would.
LEMMA StepCorpus ==
  ~TornRemoval /\ Typed /\ Typed' /\ Projected /\ [Next]_vars
    => CorpusKept \/ Commit \/ RebuildOut \/ RebuildIn
<1>. SUFFICES ASSUME ~TornRemoval, Typed, Typed', Placing, Directed, [Next]_vars
              PROVE  CorpusKept \/ Commit \/ RebuildOut \/ RebuildIn
  BY DEF Projected
<1>. USE DEF Goto, Finish, To, disk, db
<1>1. CASE \E n \in Names, c \in Bytes : Start(n, c)
  BY <1>1, CorpusUntouched DEF Start
<1>2. CASE \/ Refuse \/ Recovered \/ Heal \/ StampRebuild \/ FailOutright \/ Crash \/ Restart
           \/ PlaceBytes \/ StampLineage \/ RestoreDocument \/ FailAfterCommit
           \/ \E i \in Ids : RecoverJournal(i)
  BY <1>2, CorpusUntouched
     DEF Refuse, Recovered, Heal, StampRebuild, FailOutright, Crash, Restart, PlaceBytes, StampLineage,
         RestoreDocument, FailAfterCommit, RecoverJournal
<1>3. CASE BeginJournal
  <2>1. PICK i \in Ids \ (Journalled \cup commits) :
               journals' = [journals EXCEPT ![i] = EmptyJournal]
    BY <1>3 DEF BeginJournal
  <2>2. journals'[i] = EmptyJournal /\ Journalled = {} /\ journals[i] = Absent
    BY <1>3, <2>1 DEF BeginJournal, Typed, TypeOK, Working, Clean, Journalled
  <2>3. Journalled' \subseteq {i} /\ ~EmptyJournal.proj /\ UNCHANGED live
    BY <1>3, <2>1, <2>2 DEF BeginJournal, Typed, TypeOK, Journalled, EmptyJournal
  <2>kept. CorpusKept
    BY <2>1, <2>2, <2>3, CorpusUninstalled DEF Installing, Undecided, Readable
  <2>. QED
    BY <2>kept
<1>4. CASE WriteTransaction
  <2>1. pc = "journal" /\ pc \notin NoMutation /\ J = EmptyJournal /\ live' = live
    BY <1>4 DEF WriteTransaction, NoMutation, Directed
  <2>2. cur \in Ids /\ Journalled = {cur} /\ Journalled' \subseteq {cur}
    BY <1>4, <2>1, TheJournal DEF WriteTransaction, SetJournal, Journalled, Typed, TypeOK
  <2>3. ~journals[cur].proj
    BY <2>1 DEF EmptyJournal, J
  <2>4. journals'[cur] = [EmptyJournal EXCEPT !.tx = [name |-> op.name, prior |-> files[op.name] # Absent]]
    BY <1>4, <2>1, <2>2 DEF WriteTransaction, SetJournal, Typed, TypeOK
  <2>5. ~journals'[cur].proj
    BY <2>4 DEF EmptyJournal
  <2>kept. CorpusKept
    BY <2>1, <2>2, <2>3, <2>5, CorpusUninstalled DEF Installing
  <2>. QED
    BY <2>kept
<1>5. CASE StageSourceChange
  <2>. DEFINE j == [J EXCEPT !.proj = TRUE, !.staged = Upcoming]
  <2>1. pc \notin NoMutation /\ pc = "stage" /\ ~J.listed /\ live' = live
    BY <1>5 DEF StageSourceChange, NoMutation, Placing, Unlisted
  <2>2. J \in Journal
    BY <2>1, TheJournal
  <2>3. Upcoming \in Projection
    BY <2>1, TheOperation, BuildTyped DEF Upcoming, Typed, TypeOK, BeforeCommit
  <2>4. j \in Journal /\ ~j.listed
    BY <2>1, <2>2, <2>3 DEF Journal
  <2>5. SetJournal(j)
    BY <1>5 DEF StageSourceChange, Upcoming
  <2>. HIDE DEF j
  <2>kept. CorpusKept
    BY <2>1, <2>4, <2>5, CorpusApart
  <2>. QED
    BY <2>kept
<1>6. CASE ParkPrior
  <2>. DEFINE j == [J EXCEPT !.backup = files[op.name]]
  <2>1. /\ pc \notin NoMutation /\ pc = "park" /\ UNCHANGED <<live, cur, commits>>
        /\ UNCHANGED journals \/ SetJournal(j)
    BY <1>6 DEF ParkPrior, NoMutation
  <2>2. J \in Journal /\ op.name \in Names
    BY <2>1, TheJournal, TheOperation DEF BeforeCommit
  <2>3. /\ j \in Journal /\ j.tx = J.tx /\ j.committed = J.committed /\ j.proj = J.proj
        /\ j.listed = J.listed /\ j.manifest = J.manifest /\ j.saved = J.saved
    BY <2>2 DEF Journal, Typed, TypeOK
  <2>. HIDE DEF j
  <2>kept. CorpusKept
    BY <2>1, <2>3, CorpusRewritten, CorpusUntouched
  <2>. QED
    BY <2>kept
<1>7. CASE Register
  <2>. DEFINE j == [J EXCEPT !.intent = op.name \in Sources]
  <2>1. /\ pc \notin NoMutation /\ UNCHANGED <<live, cur, commits>> /\ SetJournal(j)
    BY <1>7 DEF Register, NoMutation
  <2>2. J \in Journal
    BY <2>1, TheJournal
  <2>3. /\ j \in Journal /\ j.tx = J.tx /\ j.committed = J.committed /\ j.proj = J.proj
        /\ j.listed = J.listed /\ j.manifest = J.manifest /\ j.saved = J.saved
    BY <2>2, (op.name \in Sources) \in BOOLEAN DEF Journal
  <2>. HIDE DEF j
  <2>kept. CorpusKept
    BY <2>1, <2>3, CorpusRewritten
  <2>. QED
    BY <2>kept
<1>8. CASE OpenProjectionBackup
  <2>. DEFINE j == [J EXCEPT !.savedDir = TRUE]
  <2>1. /\ pc \notin NoMutation /\ UNCHANGED <<live, cur, commits>> /\ SetJournal(j)
    BY <1>8 DEF OpenProjectionBackup, NoMutation
  <2>2. J \in Journal
    BY <2>1, TheJournal
  <2>3. /\ j \in Journal /\ j.tx = J.tx /\ j.committed = J.committed /\ j.proj = J.proj
        /\ j.listed = J.listed /\ j.manifest = J.manifest /\ j.saved = J.saved
    BY <2>2 DEF Journal
  <2>. HIDE DEF j
  <2>kept. CorpusKept
    BY <2>1, <2>3, CorpusRewritten
  <2>. QED
    BY <2>kept
<1>9. CASE WriteManifest
  <2>. DEFINE j == [J EXCEPT !.listed = TRUE, !.manifest = {a \in Artifacts : live[a] # Absent}]
  <2>1. /\ pc \notin NoMutation /\ pc = "manifest" /\ UNCHANGED <<live, cur, commits>> /\ SetJournal(j)
        /\ ~J.listed /\ J.saved = NoArtifacts
    BY <1>9 DEF WriteManifest, NoMutation, Placing, Unlisted
  <2>2. J \in Journal /\ J = journals[cur] /\ cur \in Ids /\ Journalled = {cur}
    BY <2>1, TheJournal DEF J
  <2>3. j \in Journal /\ j.saved = J.saved /\ j.manifest = {a \in Artifacts : live[a] # Absent}
    BY <2>2 DEF Journal
  <2>. HIDE DEF j
  <2>4. journals'[cur] = j /\ Journalled' = {cur}
    BY <2>1, <2>3, Rewrites
  <2>5. ~Installing(cur)
    BY <2>1, <2>2 DEF Installing
  <2>6. ASSUME NEW a \in Artifacts PROVE Left(cur, a)' = Left(cur, a)
    <3>1. Gives(j, live'[a], a) = live[a]
      BY <2>1, <2>3 DEF Gives, NoArtifacts
    <3>. QED
      BY <2>1, <2>4, <2>5, <3>1 DEF Left
  <2>kept. CorpusKept
    BY <2>1, <2>2, <2>4, <2>6, CorpusKeptBy
  <2>. QED
    BY <2>kept
<1>10. CASE MoveOut
  <2>1. pc \notin NoMutation /\ pc = "moveOut" /\ UNCHANGED <<cur, commits>>
    BY <1>10 DEF MoveOut, MovesOut, NoMutation
  <2>2. J \in Journal /\ J = journals[cur] /\ cur \in Ids /\ Journalled = {cur} /\ J.tx # Absent /\ J # Absent
    BY <2>1, TheJournal DEF J
  <2>3. CASE UNCHANGED <<live, journals>>
    BY <2>1, <2>3, CorpusUntouched
  <2>4. CASE \E a \in Artifacts : MovesOut(a)
    <3>1. PICK a \in Artifacts : MovesOut(a)
      BY <2>4
    <3>. DEFINE j == [J EXCEPT !.saved[a] = live[a]]
    <3>2. live[a] # Absent /\ SetJournal(j) /\ live' = [live EXCEPT ![a] = Absent]
      BY <3>1 DEF MovesOut
    <3>3. /\ j \in Journal /\ j.tx = J.tx /\ j.committed = J.committed /\ j.proj = J.proj
          /\ j.listed = J.listed /\ j.manifest = J.manifest /\ j.saved = [J.saved EXCEPT ![a] = live[a]]
      BY <2>2 DEF Journal, Typed, TypeOK, Projection
    <3>4. a \in J.manifest /\ J.saved[a] = Absent /\ J.saved \in Projection /\ live \in Projection
      BY <2>1, <2>2, <3>2 DEF Placing, Journal, Typed, TypeOK
    <3>. HIDE DEF j
    <3>5. journals'[cur] = j /\ Journalled' = {cur} /\ j # Absent
      BY <2>1, <3>2, <3>3, Rewrites, JournalAssumption
    <3>6. Installing(cur) /\ Installing(cur)'
      <4>1. IsSource(cur) /\ J.proj /\ J.listed /\ ~Committed(cur)
        BY <2>1 DEF Placing, Installs, Directed, BeforeCommit
      <4>. QED
        BY <2>1, <2>2, <3>3, <3>5, <4>1 DEF Installing, Undecided, Readable, IsSource, Committed
    <3>7. \A b \in Artifacts : Gives(j, live'[b], b) = Gives(J, live[b], b)
      BY <3>2, <3>3, <3>4 DEF Gives, Projection
    <3>8. \A b \in Artifacts : Left(cur, b)' = Left(cur, b)
      BY <2>1, <2>2, <3>5, <3>6, <3>7 DEF Left
    <3>kept. CorpusKept
      BY <2>1, <2>2, <3>5, <3>8, CorpusKeptBy
    <3>. QED
      BY <3>kept
  <2>. QED
    BY <1>10, <2>3, <2>4 DEF MoveOut
<1>11. CASE MoveIn
  <2>1. pc \notin NoMutation /\ pc = "moveIn" /\ UNCHANGED <<cur, commits>>
    BY <1>11 DEF MoveIn, MovesIn, NoMutation
  <2>2. J \in Journal /\ J = journals[cur] /\ cur \in Ids /\ Journalled = {cur} /\ J.tx # Absent /\ J # Absent
    BY <2>1, TheJournal DEF J
  <2>3. CASE UNCHANGED <<live, journals>>
    BY <2>1, <2>3, CorpusUntouched
  <2>4. CASE \E a \in Artifacts : MovesIn(a)
    <3>1. PICK a \in Artifacts : MovesIn(a)
      BY <2>4
    <3>. DEFINE j == [J EXCEPT !.staged[a] = Absent]
    <3>2. SetJournal(j)
      BY <3>1 DEF MovesIn
    <3>3. /\ j \in Journal /\ j.tx = J.tx /\ j.committed = J.committed /\ j.proj = J.proj
          /\ j.listed = J.listed /\ j.manifest = J.manifest /\ j.saved = J.saved
      BY <2>2 DEF Journal, Projection
    <3>. HIDE DEF j
    <3>5. journals'[cur] = j /\ Journalled' = {cur} /\ j # Absent
      BY <2>1, <3>2, <3>3, Rewrites, JournalAssumption
    <3>4. IsSource(cur) /\ J.proj /\ J.listed /\ ~Committed(cur)
      BY <2>1 DEF Placing, Installs, Directed, BeforeCommit
    <3>6. Installing(cur) /\ Installing(cur)'
      BY <2>1, <2>2, <3>3, <3>4, <3>5 DEF Installing, Undecided, Readable, IsSource, Committed
    <3>7. \A b \in Artifacts : b \in J.manifest => J.saved[b] # Absent
      BY <2>1, <3>4 DEF Placing
    <3>8. \A b \in Artifacts : Left(cur, b)' = Left(cur, b)
      BY <2>1, <2>2, <3>3, <3>5, <3>6, <3>7 DEF Left, Gives
    <3>kept. CorpusKept
      BY <2>1, <2>2, <3>5, <3>8, CorpusKeptBy
    <3>. QED
      BY <3>kept
  <2>. QED
    BY <1>11, <2>3, <2>4 DEF MoveIn
<1>12. CASE TearJournal \/ TearProjection
  BY <1>12 DEF TearJournal, TearProjection
<1>13. CASE \/ RetireProjection \/ DropBackup \/ SettleCommit \/ WriteCommitted
            \/ MarkSettled \/ WriteSettled
  <2>1. pc \notin NoMutation /\ Committed(cur) /\ UNCHANGED <<live, commits>>
    BY <1>13 DEF RetireProjection, DropBackup, SettleCommit, WriteCommitted, MarkSettled, WriteSettled,
         NoMutation, Directed, Committed, J
  <2>2. J \in Journal
    BY <2>1, TheJournal
  <2>3. UNCHANGED journals \/ \E j \in Journal : SetJournal(j) /\ (j.committed \/ j.committed = J.committed)
    <3>1. \A j : j \in {[J EXCEPT !.unwritten = TRUE], [J EXCEPT !.committed = TRUE, !.unwritten = FALSE],
                       [J EXCEPT !.settled = TRUE, !.unwritten = FALSE], [J EXCEPT !.backup = Absent]}
                 => j \in Journal /\ (j.committed \/ j.committed = J.committed)
      BY <2>2, AbsentInBytes, ZenonT(60) DEF Journal
    <3>2. WithoutProjection(J) \in Journal /\ WithoutProjection(J).committed = J.committed
      BY <2>2, NoArtifactsTyped DEF Journal, WithoutProjection
    <3>. QED
      BY <1>13, <3>1, <3>2
         DEF RetireProjection, DropBackup, SettleCommit, WriteCommitted, MarkSettled, WriteSettled
  <2>kept. CorpusKept
    <3>1. CASE UNCHANGED journals
      BY <2>1, <3>1, CorpusUntouched
    <3>2. CASE \E j \in Journal : SetJournal(j) /\ (j.committed \/ j.committed = J.committed)
      <4>1. PICK j \in Journal : SetJournal(j) /\ (j.committed \/ j.committed = J.committed)
        BY <3>2
      <4>2. cur \in commits' \/ j.committed
        BY <2>1, <4>1 DEF Committed, J
      <4>. QED
        BY <2>1, <4>1, <4>2, CorpusApart
    <3>. QED
      BY <2>3, <3>1, <3>2
  <2>. QED
    BY <2>kept
<1>14. CASE DeleteCommitRow
  <2>1. pc \notin NoMutation /\ J.committed /\ UNCHANGED <<live, journals>>
    BY <1>14 DEF DeleteCommitRow, NoMutation, Directed
  <2>2. cur \in Ids /\ Journalled = {cur} /\ Journalled' = {cur}
    BY <2>1, TheJournal DEF Journalled
  <2>kept. CorpusKept
    BY <2>1, <2>2, CorpusUninstalled DEF Installing, Undecided, Committed, J
  <2>. QED
    BY <2>kept
<1>15. CASE RemoveJournal
  <2>1. pc \notin NoMutation /\ (~J.proj \/ Committed(cur)) /\ UNCHANGED live /\ SetJournal(Absent)
    BY <1>15 DEF RemoveJournal, NoMutation, Directed
  <2>2. cur \in Ids /\ Journalled = {cur} /\ Journalled' = {} /\ journals'[cur] = Absent
    BY <2>1, TheJournal DEF SetJournal, Journalled, Typed, TypeOK
  <2>kept. CorpusKept
    BY <2>1, <2>2, CorpusUninstalled DEF Installing, Undecided, Readable, J
  <2>. QED
    BY <2>kept
<1>16. CASE RestoreRename
  <2>. DEFINE j == [J EXCEPT !.backup = Absent]
  <2>1. /\ pc \notin NoMutation /\ UNCHANGED <<live, cur, commits>> /\ SetJournal(j)
    BY <1>16 DEF RestoreRename, NoMutation
  <2>2. J \in Journal
    BY <2>1, TheJournal
  <2>3. /\ j \in Journal /\ j.tx = J.tx /\ j.committed = J.committed /\ j.proj = J.proj
        /\ j.listed = J.listed /\ j.manifest = J.manifest /\ j.saved = J.saved
    BY <2>2, AbsentInBytes DEF Journal
  <2>. HIDE DEF j
  <2>kept. CorpusKept
    BY <2>1, <2>3, CorpusRewritten
  <2>. QED
    BY <2>kept
<1>17. CASE UndoProjection
  <2>1. pc \notin NoMutation /\ pc = "unproject" /\ UNCHANGED commits
    BY <1>17 DEF UndoProjection, NoMutation
  <2>2. /\ J \in Journal /\ J = journals[cur] /\ cur \in Ids /\ Journalled = {cur} /\ J.tx # Absent
        /\ J # Absent /\ ~Committed(cur)
    BY <2>1, TheJournal DEF J, Directed, Undoing
  <2>3. CASE \E a \in Artifacts : UndoesArtifact(a)
    <3>1. PICK a \in Artifacts : UndoesArtifact(a)
      BY <2>3
    <3>. DEFINE j == [J EXCEPT !.saved[a] = Absent]
    <3>2. /\ J.proj /\ J.listed /\ ToUndo(J, a) /\ SetJournal(j) /\ cur' = cur
          /\ live' = [live EXCEPT ![a] = IF a \in J.manifest THEN J.saved[a] ELSE Absent]
      BY <3>1 DEF UndoesArtifact
    <3>3. /\ j \in Journal /\ j.tx = J.tx /\ j.committed = J.committed /\ j.proj = J.proj
          /\ j.listed = J.listed /\ j.manifest = J.manifest /\ j.saved = [J.saved EXCEPT ![a] = Absent]
      BY <2>2 DEF Journal, Projection
    <3>4. J.saved \in Projection /\ live \in Projection /\ (a \in J.manifest => J.saved[a] # Absent)
      BY <2>2, <3>2 DEF ToUndo, Journal, Typed, TypeOK
    <3>. HIDE DEF j
    <3>5. journals'[cur] = j /\ Journalled' = {cur} /\ j # Absent
      BY <2>1, <3>2, <3>3, Rewrites, JournalAssumption
    <3>6. Installing(cur) /\ Installing(cur)'
      <4>1. IsSource(cur)
        BY <2>2, <3>2 DEF Directed, Readable
      <4>. QED
        BY <2>1, <2>2, <3>2, <3>3, <3>5, <4>1 DEF Installing, Undecided, Readable, IsSource, Committed
    <3>7. \A b \in Artifacts : Gives(j, live'[b], b) = Gives(J, live[b], b)
      BY <3>2, <3>3, <3>4 DEF Gives, Projection
    <3>8. \A b \in Artifacts : Left(cur, b)' = Left(cur, b)
      BY <2>2, <3>2, <3>5, <3>6, <3>7 DEF Left
    <3>kept. CorpusKept
      BY <2>2, <3>2, <3>5, <3>8, CorpusKeptBy
    <3>. QED
      BY <3>kept
  <2>4. CASE ~\E a \in Artifacts : UndoesArtifact(a)
    BY <1>17, <2>1, <2>4, CorpusUntouched DEF UndoProjection
  <2>. QED
    BY <2>3, <2>4
<1>18. CASE DropProjection
  <2>. DEFINE j == WithoutProjection(J)
  <2>1. pc \notin NoMutation /\ pc \in {"dropProjection", "forward"} /\ UNCHANGED <<live, commits>>
    BY <1>18 DEF DropProjection, NoMutation
  <2>0. PICK c \in Ids : c = cur
    BY <2>1, TheJournal
  <2>2. J \in Journal /\ J = journals[c] /\ Journalled = {c} /\ (pc = "forward" => Committed(cur))
    BY <2>0, <2>1, TheJournal DEF J, Directed
  <2>3. j \in Journal /\ ~j.proj
    BY <2>2, NoArtifactsTyped DEF Journal, WithoutProjection
  <2>. HIDE DEF j
  <2>4. SetJournal(j)
    BY <1>18 DEF DropProjection, j
  <2>5. CASE pc = "forward"
    <3>kept. CorpusKept
      BY <2>1, <2>2, <2>3, <2>4, <2>5, CorpusApart
    <3>. QED
      BY <3>kept
  <2>6. CASE pc = "dropProjection"
    <3>0. journals'[c] = j /\ Journalled' = {c}
      BY <2>0, <2>1, <2>2, <2>3, <2>4, Updated
    <3>1. ASSUME NEW a \in Artifacts PROVE Left(c, a) = live[a]
      <4>1. CASE J.listed
        BY <2>2, <2>6, <4>1 DEF Placing, Left, Gives
      <4>2. CASE ~J.listed
        BY <2>2, <4>2 DEF Left, Installing
      <4>. QED
        BY <4>1, <4>2
    <3>2. ASSUME NEW a \in Artifacts PROVE Left(c, a)' = live[a]
      BY <2>1, <2>3, <3>0 DEF Left, Installing
    <3>kept. CorpusKept
      BY <2>2, <3>0, <3>1, <3>2, CorpusKeptBy
    <3>. QED
      BY <3>kept
  <2>. QED
    BY <2>1, <2>5, <2>6
<1>19. CASE FailBeforeCommit
  <2>1. CASE UNCHANGED journals
    BY <1>19, <2>1, CorpusUntouched DEF FailBeforeCommit
  <2>2. CASE pc = "openBackup" /\ SetJournal(WithoutProjection(J))
    <3>1. pc \notin NoMutation /\ ~J.listed /\ live' = live
      BY <1>19, <2>2 DEF FailBeforeCommit, NoMutation, Placing, Unlisted
    <3>2. J \in Journal
      BY <3>1, TheJournal
    <3>3. WithoutProjection(J) \in Journal /\ ~WithoutProjection(J).proj
      BY <3>2, NoArtifactsTyped DEF Journal, WithoutProjection
    <3>kept. CorpusKept
      BY <2>2, <3>1, <3>3, CorpusApart
    <3>. QED
      BY <3>kept
  <2>. QED
    BY <1>19, <2>1, <2>2 DEF FailBeforeCommit
<1>20. CASE UNCHANGED vars
  BY <1>20, CorpusUntouched DEF vars
<1>. QED
  BY <1>1, <1>2, <1>3, <1>4, <1>5, <1>6, <1>7, <1>8, <1>9, <1>10, <1>11, <1>12, <1>13, <1>14, <1>15,
     <1>16, <1>17, <1>18, <1>19, <1>20 DEF Next, Apply, Settle, Recover, Fail

\* The commit makes what is installed the registry's; that of a deliverable
\* leaves both.
LEMMA CommitCorpus ==
  ASSUME Typed, Typed', Projected, Commit
  PROVE  IF op.name \in Sources
         THEN healed' /\ \A a \in Artifacts : RecoveredArtifact(a)' = Build(registry)'[a]
         ELSE CorpusKept /\ UNCHANGED healed /\ Build(registry)' = Build(registry)
<1>1. /\ pc = "commit" /\ pc \notin NoMutation /\ commits' = commits \cup {cur}
      /\ UNCHANGED <<live, journals, cur>> /\ registry' = [registry EXCEPT ![op.name] = op.new]
      /\ healed' = (healed \/ op.name \in Sources)
  BY DEF Commit, NoMutation, Goto, disk
<1>2. /\ cur \in Ids /\ Journalled = {cur} /\ (IsSource(cur) <=> op.name \in Sources)
      /\ op.name \in Names
  BY <1>1, TheJournal, TheOperation DEF BeforeCommit
<1>3. Journalled' = {cur} /\ ~Installing(cur)'
  BY <1>1, <1>2 DEF Journalled, Installing, Undecided, Committed
<1>4. CASE op.name \in Sources
  <2>1. live = Upcoming /\ Upcoming = Build(registry)'
    BY <1>1, <1>2, <1>4 DEF Projected, Placing, Upcoming
  <2>2. \A a \in Artifacts : RecoveredArtifact(a)' = live'[a]
    BY <1>1, <1>2, <1>3, RecoveredLeftNext DEF Left
  <2>. QED
    BY <1>1, <1>4, <2>1, <2>2
<1>5. CASE op.name \notin Sources
  <2>0. J.tx # Absent /\ J # Absent
    BY <1>1, TheJournal
  <2>1. ~journals[cur].proj
    BY <1>2, <1>5, <2>0 DEF Projected, Directed, Readable, J
  <2>2. CorpusKept
    BY <1>1, <1>2, <1>3, <2>1, CorpusUninstalled DEF Installing
  <2>3. registry \in [Names -> Bytes]
    BY DEF Typed, TypeOK
  <2>4. \A n \in Sources : registry'[n] = registry[n]
    BY <1>1, <1>5, <2>3, SourcesAssumption
  <2>5. Build(registry)' = Build(registry)
    BY <2>4 DEF Build
  <2>6. healed' = healed
    BY <1>1, <1>5 DEF Typed, TypeOK
  <2>. QED
    BY <1>5, <2>2, <2>5, <2>6
<1>. QED
  BY <1>4, <1>5

\* A rewrite that has no journal is what a recovery finds.
LEMMA RebuildCorpus ==
  ASSUME Typed, Typed', RebuildOut \/ RebuildIn
  PROVE  /\ \A a \in Artifacts : RecoveredArtifact(a)' = live'[a]
         /\ UNCHANGED <<registry, journals, lineage, commits>>
         /\ RebuildOut => ~healed'
         /\ RebuildIn => UNCHANGED healed \/ (healed' /\ live' = Build(registry))
<1>1. pc \in Clean /\ UNCHANGED <<registry, journals, lineage, commits>>
  BY DEF RebuildOut, RebuildIn, Clean, db
<1>2. Journalled' = {}
  BY <1>1 DEF Typed, Working, Journalled
<1>3. \A a \in Artifacts : RecoveredArtifact(a)' = live'[a]
  BY <1>2 DEF RecoveredArtifact, Installing, Undecided, Readable, Journalled
<1>. QED
  BY <1>1, <1>3 DEF RebuildOut, RebuildIn

\* No other step changes the registry, or makes the projection whole.
LEMMA RegistryStays ==
  [Next]_vars => Commit \/ RebuildOut \/ RebuildIn \/ UNCHANGED <<registry, healed>>
  BY DEF Next, Start, Apply, Settle, Recover, Fail, vars, db, disk,
         Refuse, BeginJournal, WriteTransaction, StageSourceChange, ParkPrior,
         PlaceBytes, Register, OpenProjectionBackup, WriteManifest, MoveOut,
         MoveIn, RetireProjection, DropBackup, SettleCommit, WriteCommitted, DeleteCommitRow,
         StampLineage, MarkSettled, WriteSettled,
         RemoveJournal, TearJournal, RecoverJournal, Recovered, RestoreDocument,
         RestoreRename, UndoProjection, DropProjection, TearProjection, Heal, StampRebuild,
         FailBeforeCommit, FailAfterCommit, FailOutright, Crash, Restart

\* A rewrite without a journal is whole at its end.
Rebuilding ==
    /\ pc = "rebuildIn" => ~healed
    /\ pc = "rebuildStamp" => healed /\ live = Build(registry)

\* At first the projection is that of an empty registry.
LEMMA InitCorpus == Init => CorpusFollowsRegistry /\ Rebuilding
<1>. SUFFICES ASSUME Init PROVE CorpusFollowsRegistry /\ Rebuilding
  OBVIOUS
<1>1. Journalled = {} /\ live = NoArtifacts /\ \A n \in Sources : registry[n] = Absent
  BY SourcesAssumption DEF Init, Journalled
<1>2. \A a \in Artifacts : RecoveredArtifact(a) = live[a] /\ live[a] = Absent /\ Build(registry)[a] = Absent
  BY <1>1, RecoveredLive DEF NoArtifacts, Build
<1>. QED
  BY <1>2 DEF Init, CorpusFollowsRegistry, Rebuilding

\* A rewrite is begun as not whole, and ends whole.
LEMMA StepRebuilding == Rebuilding /\ [Next]_vars => Rebuilding'
<1>. SUFFICES ASSUME Rebuilding, [Next]_vars PROVE Rebuilding'
  OBVIOUS
<1>1. CASE pc' \notin {"rebuildIn", "rebuildStamp"}
  BY <1>1 DEF Rebuilding
<1>2. CASE pc' \in {"rebuildIn", "rebuildStamp"}
  <2>1. RebuildOut \/ RebuildIn \/ UNCHANGED <<pc, healed, live, registry>>
    <3>1. CASE UNCHANGED vars
      BY <3>1 DEF vars, disk, db
    <3>2. CASE Apply \/ Fail
      BY <1>2, <3>2 DEF Apply, Fail, Goto, Finish, To,
         Refuse, BeginJournal, WriteTransaction, StageSourceChange, ParkPrior,
         PlaceBytes, Register, OpenProjectionBackup, WriteManifest, MoveOut, MovesOut,
         MoveIn, MovesIn, Commit, RetireProjection, DropBackup,
         FailBeforeCommit, FailAfterCommit, FailOutright
    <3>3. CASE Settle
      BY <1>2, <3>3 DEF Settle, Goto, Finish, SettleCommit, WriteCommitted, DeleteCommitRow,
         StampLineage, MarkSettled, WriteSettled, RemoveJournal, TearJournal
    <3>4. CASE Recover
      BY <1>2, <3>4 DEF Recover, Goto, Finish, RecoverJournal, Recovered,
         RestoreDocument, RestoreRename, UndoProjection, UndoesArtifact, DropProjection, TearProjection,
         Heal, StampRebuild
    <3>. QED
      BY <1>2, <3>1, <3>2, <3>3, <3>4 DEF Next, Start, Crash, Restart, Goto
  <2>2. CASE RebuildOut \/ RebuildIn
    BY <2>2 DEF Rebuilding, RebuildOut, RebuildIn, Goto, db
  <2>3. CASE UNCHANGED <<pc, healed, live, registry>>
    BY <2>3 DEF Rebuilding, Build
  <2>. QED
    BY <2>1, <2>2, <2>3
<1>. QED
  BY <1>1, <1>2

\* Whatever the step, a recovery would leave the projection of the registry,
\* where the last rewrite was whole.
LEMMA StepCorpusFollows ==
  ~TornRemoval /\ Typed /\ Typed' /\ Projected /\ Rebuilding /\ CorpusFollowsRegistry /\ [Next]_vars
    => CorpusFollowsRegistry'
<1>. SUFFICES ASSUME ~TornRemoval, Typed, Typed', Projected, Rebuilding, CorpusFollowsRegistry, [Next]_vars
              PROVE  CorpusFollowsRegistry'
  OBVIOUS
<1>1. CASE Commit
  <2>1. CASE op.name \in Sources
    BY <1>1, <2>1, CommitCorpus DEF CorpusFollowsRegistry
  <2>2. CASE op.name \notin Sources
    <3>1. CorpusKept /\ healed' = healed /\ Build(registry)' = Build(registry)
      BY <1>1, <2>2, CommitCorpus
    <3>. QED
      BY <3>1 DEF CorpusFollowsRegistry, CorpusKept
  <2>. QED
    BY <2>1, <2>2
<1>2. CASE RebuildOut
  BY <1>2, RebuildCorpus DEF CorpusFollowsRegistry
<1>3. CASE RebuildIn
  <2>1. ~healed
    BY <1>3 DEF RebuildIn, Rebuilding
  <2>2. registry' = registry /\ (healed' => live' = Build(registry))
    BY <1>3, <2>1, RebuildCorpus
  <2>. QED
    BY <1>3, <2>2, RebuildCorpus DEF CorpusFollowsRegistry
<1>4. CASE CorpusKept /\ UNCHANGED <<registry, healed>>
  BY <1>4 DEF CorpusFollowsRegistry, CorpusKept
<1>. QED
  BY <1>1, <1>2, <1>3, <1>4, StepCorpus, RegistryStays

\* Where a directory is removed as one step: at every step of every operation,
\* roll-back and roll-forward, wherever the process stops, and whether or not
\* the projection transaction of a committed mutation could be retired, a
\* recovery would leave the source projection of the registry's rows, not a
\* mixture of two: but for a rewrite without a journal that did not end
\* (source-artifacts.ts).
THEOREM CorpusFollowsRegistryHolds == ~TornRemoval /\ Spec => []CorpusFollowsRegistry
<1>. DEFINE Inv == ~TornRemoval /\ Typed /\ Projected /\ Rebuilding /\ CorpusFollowsRegistry
<1>1. ~TornRemoval /\ Init => Inv
  BY InitTyped, InitProjected, InitCorpus
<1>2. Inv /\ [Next]_vars => Inv'
  BY StepTyped, StepProjected, StepRebuilding, StepCorpusFollows
<1>. QED
  BY <1>1, <1>2, PTL DEF Spec

-----------------------------------------------------------------------------
(* Lineage: what is stamped is the projection of the registry, unless a    *)
(* source mutation that committed is still to be stamped; its projection   *)
(* is whole.                                                               *)

Current ==
    \A a \in Artifacts : Build(registry)[a] # Absent => lineage[a] = Build(registry)[a]

Unstamped(i) == Readable(i) /\ IsSource(i) /\ Committed(i) /\ ~journals[i].settled

Stamping ==
    /\ Current \/ \E i \in Journalled : Unstamped(i)
    /\ \A i \in Journalled : Readable(i) /\ IsSource(i) /\ Committed(i) => live = Build(registry)
    /\ pc \in {"settled", "settledWrite", "remove"} => Current
    /\ pc \in {"stamp", "settled", "settledWrite"} => IsSource(cur)
    /\ pc \in BeforeCommit => ~J.settled

\* At first there is nothing to stamp.
LEMMA InitStamping == Init => Stamping
<1>. SUFFICES ASSUME Init PROVE Stamping
  OBVIOUS
<1>1. \A n \in Sources : registry[n] = Absent
  BY SourcesAssumption DEF Init
<1>2. Current
  BY <1>1 DEF Current, Build
<1>. QED
  BY <1>2 DEF Init, Stamping, Journalled, BeforeCommit

\* A step that leaves the registry, the lineage and what is known of the
\* mutations as they are.
Alike ==
    /\ UNCHANGED <<registry, lineage, commits>>
    /\ Journalled' = Journalled
    /\ \A i \in Journalled : /\ journals'[i].tx = journals[i].tx
                             /\ journals'[i].committed = journals[i].committed
                             /\ journals'[i].settled = journals[i].settled

\* One that leaves the bytes and their backup as well, and those that do not.
SameBytes == UNCHANGED files /\ \A i \in Journalled : journals'[i].backup = journals[i].backup

BytesMove == ParkPrior \/ PlaceBytes \/ DropBackup \/ RestoreDocument \/ RestoreRename

\* A step that rewrites the journal at hand, not what it says of the mutation.
LEMMA AlikeRewritten ==
  ASSUME Typed, pc \notin NoMutation, NEW j \in Journal, SetJournal(j),
         j.tx = J.tx, j.committed = J.committed, j.settled = J.settled,
         (j.backup = J.backup /\ UNCHANGED files) \/ BytesMove,
         UNCHANGED <<registry, lineage, commits>>
  PROVE  Alike /\ (SameBytes \/ BytesMove)
<1>1. journals'[cur] = j /\ Journalled' = Journalled
  BY Updated
<1>2. Journalled = {cur} /\ J = journals[cur]
  BY TheJournal DEF J
<1>. QED
  BY <1>1, <1>2 DEF Alike, SameBytes

\* The steps that are not such: those that begin, commit, settle, stamp and
\* remove a mutation.
Milestone ==
    \/ BeginJournal \/ WriteTransaction \/ Commit \/ WriteCommitted \/ DeleteCommitRow
    \/ StampLineage \/ WriteSettled \/ RemoveJournal \/ TearJournal \/ StampRebuild

\* All others are.
LEMMA StepAlike == Typed /\ [Next]_vars => (Alike /\ (SameBytes \/ BytesMove)) \/ Milestone
<1>. SUFFICES ASSUME Typed, [Next]_vars
              PROVE  (Alike /\ (SameBytes \/ BytesMove)) \/ Milestone
  OBVIOUS
<1>. USE DEF disk, db
<1>1. CASE UNCHANGED <<journals, registry, lineage, commits>> /\ (UNCHANGED files \/ BytesMove)
  BY <1>1 DEF Alike, SameBytes, Journalled
<1>2. CASE \/ StageSourceChange \/ ParkPrior \/ Register \/ OpenProjectionBackup \/ WriteManifest
           \/ MoveOut \/ MoveIn \/ RetireProjection \/ DropBackup \/ SettleCommit \/ MarkSettled
           \/ RestoreRename \/ UndoProjection \/ DropProjection \/ TearProjection \/ FailBeforeCommit
  <2>1. pc \notin NoMutation /\ UNCHANGED <<registry, lineage, commits>>
    BY <1>2 DEF StageSourceChange, ParkPrior, Register, OpenProjectionBackup, WriteManifest, MoveOut,
         MoveIn, RetireProjection, DropBackup, SettleCommit, MarkSettled, RestoreRename,
         UndoProjection, DropProjection, TearProjection, FailBeforeCommit, NoMutation
  <2>2. J \in Journal
    BY <2>1, TheJournal
  <2>. DEFINE Kept(j) == /\ j \in Journal /\ j.tx = J.tx /\ j.committed = J.committed
                         /\ j.settled = J.settled /\ (j.backup = J.backup \/ BytesMove)
  <2>6. UNCHANGED files \/ BytesMove
    BY <1>2 DEF StageSourceChange, ParkPrior, Register, OpenProjectionBackup, WriteManifest, MoveOut,
         MoveIn, RetireProjection, DropBackup, SettleCommit, MarkSettled, RestoreRename,
         UndoProjection, DropProjection, TearProjection, FailBeforeCommit, BytesMove
  <2>3. UNCHANGED journals \/ \E j : SetJournal(j) /\ Kept(j)
    <3>1. CASE StageSourceChange
      <4>1. Upcoming \in Projection /\ pc = "stage"
        BY <3>1, TheOperation, BuildTyped DEF StageSourceChange, Upcoming, Typed, TypeOK, BeforeCommit
      <4>2. Kept([J EXCEPT !.proj = TRUE, !.staged = Upcoming])
        BY <2>2, <4>1 DEF Journal
      <4>. QED
        BY <3>1, <4>2 DEF StageSourceChange, Upcoming
    <3>2. CASE ParkPrior
      <4>1. op.name \in Names
        BY <3>2, TheOperation DEF ParkPrior, BeforeCommit
      <4>2. Kept([J EXCEPT !.backup = files[op.name]])
        BY <2>2, <3>2, <4>1 DEF Journal, Typed, TypeOK, BytesMove
      <4>. QED
        BY <3>2, <4>2 DEF ParkPrior
    <3>3. CASE Register
      <4>1. Kept([J EXCEPT !.intent = op.name \in Sources])
        BY <2>2, (op.name \in Sources) \in BOOLEAN DEF Journal
      <4>. QED
        BY <3>3, <4>1 DEF Register
    <3>4. CASE OpenProjectionBackup \/ WriteManifest
      <4>1. Kept([J EXCEPT !.savedDir = TRUE])
        BY <2>2 DEF Journal
      <4>2. Kept([J EXCEPT !.listed = TRUE, !.manifest = {a \in Artifacts : live[a] # Absent}])
        BY <2>2 DEF Journal
      <4>. QED
        BY <3>4, <4>1, <4>2 DEF OpenProjectionBackup, WriteManifest
    <3>5. CASE MoveOut
      <4>1. ASSUME NEW a \in Artifacts PROVE Kept([J EXCEPT !.saved[a] = live[a]])
        BY <2>2 DEF Journal, Typed, TypeOK, Projection
      <4>. QED
        BY <3>5, <4>1 DEF MoveOut, MovesOut
    <3>6. CASE MoveIn
      <4>1. ASSUME NEW a \in Artifacts PROVE Kept([J EXCEPT !.staged[a] = Absent])
        BY <2>2 DEF Journal, Projection
      <4>. QED
        BY <3>6, <4>1 DEF MoveIn, MovesIn
    <3>7. CASE RetireProjection \/ DropProjection \/ FailBeforeCommit
      <4>1. Kept(WithoutProjection(J))
        BY <2>2, NoArtifactsTyped DEF Journal, WithoutProjection
      <4>. QED
        BY <3>7, <4>1 DEF RetireProjection, DropProjection, FailBeforeCommit
    <3>8. CASE DropBackup \/ RestoreRename
      <4>1. Kept([J EXCEPT !.backup = Absent])
        BY <2>2, <3>8, AbsentInBytes DEF Journal, BytesMove
      <4>. QED
        BY <3>8, <4>1 DEF DropBackup, RestoreRename
    <3>9. CASE UndoProjection
      <4>1. ASSUME NEW a \in Artifacts PROVE Kept([J EXCEPT !.saved[a] = Absent])
        BY <2>2 DEF Journal, Projection
      <4>. QED
        BY <3>9, <4>1 DEF UndoProjection, UndoesArtifact
    <3>10. CASE TearProjection
      <4>1. PICK j \in Journal :
               /\ SetJournal(j) /\ j.tx = J.tx /\ j.backup = J.backup
               /\ j.committed = J.committed /\ j.settled = J.settled
        BY <2>1, <3>10, ProjectionTorn DEF TearProjection
      <4>. QED
        BY <4>1
    <3>11. CASE SettleCommit \/ MarkSettled
      <4>1. Kept([J EXCEPT !.unwritten = TRUE])
        BY <2>2 DEF Journal
      <4>. QED
        BY <3>11, <4>1 DEF SettleCommit, MarkSettled
    <3>. QED
      BY <1>2, <3>1, <3>2, <3>3, <3>4, <3>5, <3>6, <3>7, <3>8, <3>9, <3>10, <3>11
  <2>4. CASE UNCHANGED journals
    BY <1>1, <2>1, <2>4, <2>6
  <2>5. CASE \E j : SetJournal(j) /\ Kept(j)
    <3>1. PICK j : SetJournal(j) /\ Kept(j)
      BY <2>5
    <3>2. Alike /\ (SameBytes \/ BytesMove)
      BY <2>1, <2>6, <3>1, AlikeRewritten
    <3>. QED
      BY <3>2
  <2>. QED
    BY <2>3, <2>4, <2>5
<1>. QED
  BY <1>1, <1>2
     DEF Next, Start, Apply, Settle, Recover, Fail, Milestone, BytesMove, vars,
         Refuse, PlaceBytes, RecoverJournal, Recovered, RestoreDocument, Heal, RebuildOut, RebuildIn,
         FailAfterCommit, FailOutright, Crash, Restart

\* Where no source mutation that committed is to be stamped, the lineage is
\* current.
LEMMA CurrentIf ==
  ASSUME Stamping, NEW i, Journalled \subseteq {i}, ~Unstamped(i)
  PROVE  Current
  BY DEF Stamping

\* What is stamped is current where the registry's projection is installed.
LEMMA StampedCurrent ==
  ASSUME live = Build(registry), lineage' = Stamped, registry' = registry
  PROVE  Current'
<1>1. \A a \in Artifacts : lineage'[a] = IF live[a] = Absent THEN lineage[a] ELSE live[a]
  BY DEF Stamped
<1>2. Build(registry)' = Build(registry)
  BY DEF Build
<1>. QED
  BY <1>1, <1>2 DEF Current

\* Where the steps that are no milestone lead.
LEMMA AlikeLeads ==
  ASSUME [Next]_vars, ~Milestone
  PROVE  /\ pc' = "stamp" => UNCHANGED <<pc, cur>>
         /\ pc' \in {"settled", "settledWrite"} => pc \in {"settled", "settledWrite"} /\ cur' = cur
         /\ pc' \in BeforeCommit => pc \in BeforeCommit /\ cur' = cur
         /\ pc' = "remove" => \/ UNCHANGED <<pc, cur>>
                              \/ pc \in Undoing /\ cur' = cur
                              \/ pc = "settle" /\ cur' = cur /\ J.settled
                              \/ \E i \in Journalled : cur' = i /\ ~Readable(i)
         /\ UNCHANGED live \/ pc \in Clean \cup BeforeCommit \cup Undoing
<1>. USE DEF disk, db, Goto, Finish, To, Milestone, BeforeCommit, Undoing, Clean
<1>1. CASE UNCHANGED vars \/ Crash \/ Restart \/ \E n \in Names, c \in Bytes : Start(n, c)
  BY <1>1 DEF vars, Start, Crash, Restart
<1>2. CASE Apply
  BY <1>2 DEF Apply, Refuse, StageSourceChange, ParkPrior,
         PlaceBytes, Register, OpenProjectionBackup, WriteManifest, MoveOut, MovesOut,
         MoveIn, MovesIn, RetireProjection, DropBackup
<1>3. CASE Settle
  BY <1>3 DEF Settle, SettleCommit, MarkSettled
<1>4. CASE Recover
  BY <1>4 DEF Recover, RecoverJournal, Recovered,
         RestoreDocument, RestoreRename, UndoProjection, UndoesArtifact, DropProjection, TearProjection,
         Heal, RebuildOut, RebuildIn
<1>5. CASE Fail
  BY <1>5 DEF Fail, FailBeforeCommit, FailAfterCommit, FailOutright
<1>. QED
  BY <1>1, <1>2, <1>3, <1>4, <1>5 DEF Next

\* Such a step leaves what is to be stamped to be stamped.
LEMMA StampingStays ==
  ASSUME Typed, Projected, Stamping, Alike, [Next]_vars, ~Milestone
  PROVE  Stamping'
<1>1. Current' <=> Current
  BY DEF Alike, Current, Build
<1>2. \A i \in Journalled : /\ Readable(i)' <=> Readable(i)
                            /\ Readable(i) => (IsSource(i)' <=> IsSource(i))
                            /\ Committed(i)' <=> Committed(i)
                            /\ Unstamped(i)' <=> Unstamped(i)
  BY DEF Alike, Journalled, Readable, IsSource, Committed, Unstamped
<1>3. Current' \/ \E i \in Journalled' : Unstamped(i)'
  BY <1>1, <1>2 DEF Stamping, Alike
<1>4. \A i \in Journalled' : Readable(i)' /\ IsSource(i)' /\ Committed(i)' => live' = Build(registry)'
  <2>1. CASE UNCHANGED live
    <3>1. Build(registry)' = Build(registry)
      BY DEF Alike, Build
    <3>. QED
      BY <1>2, <2>1, <3>1 DEF Stamping, Alike
  <2>2. CASE pc \in Clean
    BY <2>2 DEF Typed, Working, Alike
  <2>3. CASE pc \in BeforeCommit \cup Undoing
    <3>1. Journalled = {cur} /\ ~Committed(cur)
      BY <2>3, TheJournal DEF BeforeCommit, Undoing, NoMutation, Projected, Directed
    <3>. QED
      BY <1>2, <3>1 DEF Alike
  <2>. QED
    BY <2>1, <2>2, <2>3, AlikeLeads
<1>5. pc' \in {"settled", "settledWrite", "remove"} => Current'
  <2>1. CASE pc \in {"settled", "settledWrite", "remove"}
    BY <1>1, <2>1 DEF Stamping
  <2>4. CASE pc = "settle" /\ J.settled
    <3>1. Journalled = {cur} /\ ~Unstamped(cur)
      BY <2>4, TheJournal DEF NoMutation, Unstamped, J
    <3>. QED
      BY <1>1, <3>1, CurrentIf
  <2>2. CASE pc \in Undoing
    <3>1. Journalled = {cur} /\ ~Committed(cur)
      BY <2>2, TheJournal DEF Undoing, NoMutation, Projected, Directed
    <3>. QED
      BY <1>1, <3>1, CurrentIf DEF Unstamped
  <2>3. CASE \E i \in Journalled : ~Readable(i)
    <3>1. PICK i \in Journalled : ~Readable(i)
      BY <2>3
    <3>2. Journalled \subseteq {i} /\ ~Unstamped(i)
      BY <3>1 DEF Typed, Working, Unstamped
    <3>. QED
      BY <1>1, <3>2, CurrentIf
  <2>. QED
    BY <2>1, <2>2, <2>3, <2>4, AlikeLeads
<1>7. pc' \in {"stamp", "settled", "settledWrite"} => IsSource(cur)'
  <2>1. CASE pc' \in {"stamp", "settled", "settledWrite"}
    <3>1. cur' = cur /\ pc \in {"stamp", "settled", "settledWrite"} /\ pc \notin NoMutation
      BY <2>1, AlikeLeads DEF NoMutation
    <3>2. IsSource(cur) /\ Journalled = {cur}
      BY <3>1, TheJournal DEF Stamping
    <3>. QED
      BY <3>1, <3>2 DEF Alike, IsSource
  <2>. QED
    BY <2>1
<1>8. pc' \in BeforeCommit => ~J'.settled
  <2>1. CASE pc' \in BeforeCommit
    <3>1. pc \in BeforeCommit /\ cur' = cur
      BY <2>1, AlikeLeads
    <3>2. ~J.settled /\ Journalled = {cur}
      BY <3>1, TheJournal DEF Stamping, NoMutation, BeforeCommit
    <3>. QED
      BY <3>1, <3>2 DEF Alike, J
  <2>. QED
    BY <2>1
<1>. QED
  BY <1>3, <1>4, <1>5, <1>7, <1>8 DEF Stamping

\* Every step does.
LEMMA StepStamping ==
  Typed /\ Typed' /\ Projected /\ Rebuilding /\ Stamping /\ [Next]_vars => Stamping'
<1>. SUFFICES ASSUME Typed, Typed', Placing, Directed, Projected, Rebuilding, Stamping, [Next]_vars
              PROVE  Stamping'
  BY DEF Projected
<1>. USE DEF Goto, Finish, disk, db
<1>1. CASE BeginJournal
  <2>1. PICK i \in Ids \ (Journalled \cup commits) :
               cur' = i /\ journals' = [journals EXCEPT ![i] = EmptyJournal]
    BY <1>1 DEF BeginJournal
  <2>2. Journalled = {} /\ journals'[i].tx = Absent /\ pc' = "journal" /\ UNCHANGED <<registry, lineage>>
    BY <1>1, <2>1 DEF BeginJournal, Typed, TypeOK, Working, Clean, EmptyJournal
  <2>3. \A k \in Journalled' : k = i
    BY <2>1, <2>2 DEF Journalled, Typed, TypeOK
  <2>4. Current'
    BY <2>2 DEF Stamping, Current, Build
  <2>. QED
    BY <2>2, <2>3, <2>4 DEF Stamping, Readable, BeforeCommit
<1>2. CASE WriteTransaction
  <2>1. /\ pc = "journal" /\ pc \notin NoMutation /\ J = EmptyJournal /\ ~Committed(cur)
        /\ UNCHANGED <<registry, lineage, cur, commits>> /\ pc' \in {"stage", "park"}
    BY <1>2 DEF WriteTransaction, NoMutation, Directed
  <2>2. cur \in Ids /\ Journalled = {cur}
    BY <2>1, TheJournal
  <2>3. /\ J' = [EmptyJournal EXCEPT !.tx = [name |-> op.name, prior |-> files[op.name] # Absent]]
        /\ Journalled' \subseteq {cur}
    BY <1>2, <2>1, <2>2 DEF WriteTransaction, SetJournal, Typed, TypeOK, J, Journalled
  <2>4. ~J'.settled /\ ~J'.committed
    BY <2>3 DEF EmptyJournal
  <2>5. Current
    BY <2>1, <2>2, CurrentIf DEF Unstamped, Readable, EmptyJournal, J
  <2>6. Current'
    BY <2>1, <2>5 DEF Current, Build
  <2>7. ~Committed(cur)'
    BY <2>1, <2>4 DEF Committed, J
  <2>. QED
    BY <2>1, <2>3, <2>4, <2>6, <2>7 DEF Stamping
<1>3. CASE Commit
  <2>1. /\ pc = "commit" /\ pc \notin NoMutation /\ UNCHANGED <<lineage, cur, journals>>
        /\ commits' = commits \cup {cur} /\ pc' \in {"retire", "dropBackup"}
    BY <1>3 DEF Commit, NoMutation
  <2>2. /\ cur \in Ids /\ Journalled = {cur} /\ J.tx # Absent /\ J # Absent /\ ~J.settled
        /\ (IsSource(cur) <=> op.name \in Sources)
    BY <2>1, TheJournal, TheOperation DEF Stamping, BeforeCommit
  <2>3. Journalled' = {cur} /\ Readable(cur)' /\ Committed(cur)' /\ (IsSource(cur)' <=> IsSource(cur))
    BY <2>1, <2>2 DEF Journalled, Readable, Committed, IsSource, J
  <2>4. CASE op.name \in Sources
    <3>1. live' = Build(registry)'
      BY <1>3, <2>1, <2>2, <2>4 DEF Commit, Placing, Upcoming
    <3>2. Unstamped(cur)'
      BY <2>1, <2>2, <2>3, <2>4 DEF Unstamped, J
    <3>. QED
      BY <2>1, <2>3, <3>1, <3>2 DEF Stamping, BeforeCommit
  <2>5. CASE op.name \notin Sources
    <3>1. Build(registry)' = Build(registry)
      BY <1>3, <2>5, CommitCorpus
    <3>2. Current
      BY <2>2, <2>5, CurrentIf DEF Unstamped
    <3>3. Current'
      BY <2>1, <3>1, <3>2 DEF Current
    <3>. QED
      BY <2>1, <2>2, <2>3, <2>5, <3>3 DEF Stamping, BeforeCommit
  <2>. QED
    BY <2>4, <2>5
<1>4. CASE WriteCommitted
  <2>. DEFINE j == [J EXCEPT !.committed = TRUE, !.unwritten = FALSE]
  <2>1. /\ pc = "settleWrite" /\ pc \notin NoMutation /\ pc' = "unrecord"
        /\ UNCHANGED <<registry, lineage, cur, commits, live>> /\ Committed(cur)
    BY <1>4 DEF WriteCommitted, NoMutation, Directed
  <2>2. cur \in Ids /\ J \in Journal /\ Journalled = {cur} /\ J.tx # Absent /\ J # Absent /\ J = journals[cur]
    BY <2>1, TheJournal DEF J
  <2>3. Build(registry)' = Build(registry) /\ (Current' <=> Current)
    BY <2>1 DEF Current, Build
  <2>4. j \in Journal /\ j.tx = J.tx /\ j.settled = J.settled /\ j.committed
    BY <2>2 DEF Journal
  <2>5. SetJournal(j)
    BY <1>4 DEF WriteCommitted
  <2>. HIDE DEF j
  <2>6. J' = j /\ journals'[cur] = j /\ Journalled' = {cur}
    BY <2>1, <2>4, <2>5, Rewrites
  <2>7. /\ Unstamped(cur)' <=> Unstamped(cur)
        /\ Readable(cur) /\ (IsSource(cur)' <=> IsSource(cur))
    BY <2>1, <2>2, <2>4, <2>6, JournalAssumption DEF Unstamped, Readable, IsSource, Committed
  <2>8. Current' \/ Unstamped(cur)'
    BY <2>2, <2>3, <2>7 DEF Stamping
  <2>9. IsSource(cur)' => live' = Build(registry)'
    BY <2>1, <2>2, <2>3, <2>7 DEF Stamping
  <2>. QED
    BY <2>1, <2>6, <2>8, <2>9 DEF Stamping, BeforeCommit
<1>5. CASE DeleteCommitRow
  <2>1. /\ pc = "unrecord" /\ pc \notin NoMutation /\ UNCHANGED <<registry, lineage, cur, journals, live>>
        /\ pc' = IF IsSource(cur) THEN "stamp" ELSE "remove"
    BY <1>5 DEF DeleteCommitRow, NoMutation
  <2>2. cur \in Ids /\ Journalled = {cur} /\ J.committed /\ J' = J /\ J = journals[cur]
    BY <2>1, TheJournal DEF Directed, J
  <2>3. /\ Current' <=> Current
        /\ Build(registry)' = Build(registry)
        /\ Journalled' = Journalled
        /\ Committed(cur)' /\ Committed(cur) /\ (Readable(cur)' <=> Readable(cur))
        /\ (IsSource(cur)' <=> IsSource(cur)) /\ (Unstamped(cur)' <=> Unstamped(cur))
    BY <2>1, <2>2 DEF Current, Build, Journalled, Committed, Readable, IsSource, Unstamped
  <2>4. ~IsSource(cur) => Current
    BY <2>2, CurrentIf DEF Unstamped
  <2>. QED
    BY <2>1, <2>2, <2>3, <2>4 DEF Stamping, BeforeCommit
<1>6. CASE StampLineage
  <2>1. /\ pc = "stamp" /\ pc \notin NoMutation /\ UNCHANGED <<registry, cur, journals, live, commits>>
        /\ pc' = "settled" /\ lineage' = Stamped
    BY <1>6 DEF StampLineage, NoMutation
  <2>2. cur \in Ids /\ Journalled = {cur} /\ J.committed /\ IsSource(cur) /\ J = journals[cur] /\ J.tx # Absent
    BY <2>1, TheJournal DEF Stamping, Directed, J
  <2>3. Committed(cur) /\ Readable(cur)
    BY <2>2 DEF Committed, Readable, Journalled
  <2>4. live = Build(registry) /\ Build(registry)' = Build(registry)
    BY <2>1, <2>2, <2>3 DEF Stamping, Build
  <2>5. Current'
    BY <2>1, <2>4, StampedCurrent
  <2>. QED
    BY <2>1, <2>2, <2>4, <2>5 DEF Stamping, BeforeCommit, Journalled, J, IsSource
<1>7. CASE WriteSettled
  <2>. DEFINE j == [J EXCEPT !.settled = TRUE, !.unwritten = FALSE]
  <2>1. /\ pc = "settledWrite" /\ pc \notin NoMutation /\ UNCHANGED <<registry, lineage, cur, live>>
        /\ Current /\ IsSource(cur) /\ J.committed /\ pc' = "remove"
    BY <1>7 DEF WriteSettled, NoMutation, Stamping, Directed
  <2>2. cur \in Ids /\ J \in Journal /\ Journalled = {cur} /\ J.tx # Absent /\ J # Absent /\ J = journals[cur]
    BY <2>1, TheJournal DEF J
  <2>3. j \in Journal
    BY <2>2 DEF Journal
  <2>0. SetJournal(j)
    BY <1>7 DEF WriteSettled
  <2>. HIDE DEF j
  <2>4. Journalled' = {cur}
    BY <2>0, <2>1, <2>3, Rewrites
  <2>5. live' = Build(registry)'
    BY <2>1, <2>2 DEF Stamping, Readable, Committed, Build
  <2>6. Current'
    BY <2>1 DEF Current, Build
  <2>. QED
    BY <2>1, <2>4, <2>5, <2>6 DEF Stamping, BeforeCommit
<1>8. CASE RemoveJournal
  <2>1. /\ pc = "remove" /\ pc \notin NoMutation /\ UNCHANGED <<registry, lineage>> /\ SetJournal(Absent)
        /\ Current /\ pc' \in {"idle", "recover"}
    BY <1>8 DEF RemoveJournal, NoMutation, Stamping
  <2>2. Journalled' = {}
    BY <2>1, TheJournal DEF SetJournal, Journalled, Typed, TypeOK
  <2>3. Current'
    BY <2>1 DEF Current, Build
  <2>. QED
    BY <2>1, <2>2, <2>3 DEF Stamping, BeforeCommit
<1>9. CASE TearJournal
  <2>1. /\ pc = "remove" /\ pc \notin NoMutation /\ UNCHANGED <<registry, lineage, cur, live, commits>>
        /\ Current /\ pc' = "remove"
    BY <1>9 DEF TearJournal, NoMutation, Stamping
  <2>2. cur \in Ids /\ J \in Journal /\ Journalled = {cur} /\ J = journals[cur] /\ J # Absent
    BY <2>1, TheJournal DEF J
  <2>3. PICK j \in Journal : SetJournal(j) /\ (j.tx # Absent => j.tx = J.tx) /\ (j.committed => J.committed)
    <3>1. CASE TearsProjection
      BY <2>1, <3>1, ProjectionTorn
    <3>2. \A j : j \in {[J EXCEPT !.tx = Absent], [J EXCEPT !.committed = FALSE],
                       [J EXCEPT !.settled = FALSE], [J EXCEPT !.intent = FALSE],
                       [J EXCEPT !.backup = Absent]} =>
                 j \in Journal /\ (j.tx # Absent => j.tx = J.tx) /\ (j.committed => J.committed)
      BY <2>2, AbsentInBytes, ZenonT(60) DEF Journal
    <3>3. /\ WithoutProjection(J) \in Journal /\ WithoutProjection(J).tx = J.tx
          /\ WithoutProjection(J).committed = J.committed
      BY <2>2, NoArtifactsTyped DEF Journal, WithoutProjection
    <3>. QED
      BY <1>9, <3>1, <3>2, <3>3 DEF TearJournal
  <2>4. journals'[cur] = j /\ Journalled' = {cur}
    BY <2>1, <2>3, Rewrites
  <2>5. Readable(cur)' /\ IsSource(cur)' /\ Committed(cur)' => live' = Build(registry)'
    <3>1. Readable(cur)' /\ IsSource(cur)' /\ Committed(cur)' => Readable(cur) /\ IsSource(cur) /\ Committed(cur)
      BY <2>1, <2>2, <2>3, <2>4 DEF Readable, IsSource, Committed
    <3>. QED
      BY <2>1, <2>2, <3>1 DEF Stamping, Build
  <2>6. Current'
    BY <2>1 DEF Current, Build
  <2>. QED
    BY <2>1, <2>4, <2>5, <2>6 DEF Stamping, BeforeCommit
<1>10. CASE StampRebuild
  <2>1. /\ pc = "rebuildStamp" /\ lineage' = Stamped /\ UNCHANGED <<registry, journals>>
        /\ pc' \in {"idle", "begin"}
    BY <1>10 DEF StampRebuild
  <2>2. Journalled = {} /\ live = Build(registry)
    BY <2>1 DEF Typed, Working, Clean, Rebuilding
  <2>3. Current'
    BY <2>1, <2>2, StampedCurrent
  <2>4. Journalled' = {}
    BY <2>1, <2>2 DEF Journalled
  <2>. QED
    BY <2>1, <2>3, <2>4 DEF Stamping, BeforeCommit
<1>11. CASE ~Milestone
  BY <1>11, StepAlike, StampingStays
<1>. QED
  BY <1>1, <1>2, <1>3, <1>4, <1>5, <1>6, <1>7, <1>8, <1>9, <1>10, <1>11 DEF Milestone

\* With nothing to recover and nothing under way, every artifact's lineage is
\* that of the registry's projection: no stop or failure has a source mutation
\* that committed go unstamped (finalizeDocumentMutationLineage).  Directories
\* may be removed entry by entry, the journal with a projection transaction that
\* could not be retired in it.
THEOREM LineageCurrentHolds == Spec => []LineageCurrent
<1>. DEFINE Inv == Typed /\ Projected /\ Rebuilding /\ Stamping
<1>1. Init => Inv
  BY InitTyped, InitProjected, InitCorpus, InitStamping
<1>2. Inv /\ [Next]_vars => Inv'
  BY StepTyped, StepProjected, StepRebuilding, StepStamping
<1>3. Inv => LineageCurrent
  BY DEF LineageCurrent, Stamping, Current
<1>. QED
  BY <1>1, <1>2, <1>3, PTL DEF Spec

-----------------------------------------------------------------------------
(* The documents' bytes: what a recovery would leave of them is what the   *)
(* registry has, at every step, where a directory is removed as one step.  *)

\* The bytes of its document as the journal j, rolled back, leaves them.
GivesBytes(j, present) ==
    IF ~j.tx.prior THEN Absent ELSE IF j.backup # Absent THEN j.backup ELSE present

LeftBytes(i, n) ==
    IF Undecided(i) /\ journals[i].tx.name = n THEN GivesBytes(journals[i], files[n]) ELSE files[n]

BytesKept == \A n \in Names : RecoveredBytes(n)' = RecoveredBytes(n)

BytesFollow == \A n \in Names : RecoveredBytes(n) = registry[n]

\* The prior bytes are set aside, if there are any, before the new ones are
\* placed; a roll-back that is done has put them back.
Done == {"register", "openBackup", "manifest", "moveOut", "moveIn", "commit"}
Parked(j) == j.tx.prior <=> j.backup # Absent
Restored(j) == IF j.tx.prior THEN j.backup = Absent ELSE files[j.tx.name] = Absent

Parking ==
    /\ pc \in {"stage", "park"} => J.backup = Absent /\ (J.tx.prior <=> files[op.name] # Absent)
    /\ pc \in {"place"} \cup Done => Parked(J)
    /\ pc \in Done => files[op.name] = op.new
    /\ pc = "restoreRename" => J.tx.prior /\ J.backup # Absent
    /\ pc = "unproject" /\ mode = "undo" => J.proj
    /\ pc \in {"unproject", "dropProjection"} /\ mode # "undo" => Restored(J)
    /\ pc = "remove" /\ Readable(cur) /\ ~Committed(cur) => Restored(J)

\* The one journal decides what a recovery leaves.
LEMMA BytesLeft ==
  ASSUME NEW i \in Ids, Journalled \subseteq {i}, NEW n \in Names
  PROVE  RecoveredBytes(n) = LeftBytes(i, n)
<1>1. \A k \in Ids : Undecided(k) => k = i
  BY DEF Undecided, Readable, Journalled
<1>2. CASE Undecided(i) /\ journals[i].tx.name = n
  <2>1. (CHOOSE k \in Ids : Undecided(k) /\ journals[k].tx.name = n) = i
    BY <1>1, <1>2
  <2>. QED
    BY <1>2, <2>1 DEF RecoveredBytes, LeftBytes, GivesBytes
<1>3. CASE ~(Undecided(i) /\ journals[i].tx.name = n)
  BY <1>1, <1>3 DEF RecoveredBytes, LeftBytes
<1>. QED
  BY <1>2, <1>3

\* So it does after a step.
LEMMA BytesLeftNext ==
  ASSUME NEW i \in Ids, Journalled' \subseteq {i}, NEW n \in Names
  PROVE  RecoveredBytes(n)' = LeftBytes(i, n)'
<1>1. \A k \in Ids : Undecided(k)' => k = i
  BY DEF Undecided, Readable, Journalled
<1>2. CASE Undecided(i)' /\ journals'[i].tx.name = n
  <2>1. (CHOOSE k \in Ids : Undecided(k)' /\ journals'[k].tx.name = n) = i
    BY <1>1, <1>2
  <2>. QED
    BY <1>2, <2>1 DEF RecoveredBytes, LeftBytes, GivesBytes
<1>3. CASE ~(Undecided(i)' /\ journals'[i].tx.name = n)
  BY <1>1, <1>3 DEF RecoveredBytes, LeftBytes
<1>. QED
  BY <1>2, <1>3

\* A step that has the one journal leave the same.
LEMMA BytesKeptBy ==
  ASSUME NEW i \in Ids, Journalled \subseteq {i}, Journalled' \subseteq {i},
         \A n \in Names : LeftBytes(i, n)' = LeftBytes(i, n)
  PROVE  BytesKept
  BY BytesLeft, BytesLeftNext DEF BytesKept

\* A step of a mutation that committed, or that has no record yet, or is over.
LEMMA BytesDecided ==
  ASSUME NEW i \in Ids, Journalled \subseteq {i}, Journalled' \subseteq {i},
         ~Undecided(i), ~Undecided(i)', UNCHANGED files
  PROVE  BytesKept
  BY BytesKeptBy DEF LeftBytes

\* A step that leaves the bytes and the backups alone.
LEMMA BytesAlike ==
  ASSUME Typed, Alike, SameBytes
  PROVE  BytesKept
<1>1. CASE Journalled = {}
  <2>1. Journalled' = {} /\ files' = files
    BY <1>1 DEF Alike, SameBytes
  <2>. QED
    BY <1>1, <2>1 DEF BytesKept, RecoveredBytes, Undecided, Readable, Journalled
<1>2. CASE Journalled # {}
  <2>1. PICK i \in Ids : Journalled = {i}
    BY <1>2 DEF Typed, Working, Journalled
  <2>2. Journalled' = {i} /\ (Undecided(i)' <=> Undecided(i))
    BY <2>1 DEF Alike, Undecided, Readable, Committed, Journalled
  <2>3. \A n \in Names : LeftBytes(i, n)' = LeftBytes(i, n)
    BY <2>1, <2>2 DEF Alike, SameBytes, LeftBytes, GivesBytes
  <2>. QED
    BY <2>1, <2>2, <2>3, BytesKeptBy
<1>. QED
  BY <1>1, <1>2

\* The journal at hand has its record, and is not evidence of a commit.
LEMMA TheUndecided ==
  ASSUME Typed, Projected, pc \in BeforeCommit \cup Undoing
  PROVE  /\ pc \notin NoMutation /\ Undecided(cur) /\ J = journals[cur]
         /\ J.tx \in Tx /\ Target \in Names /\ Target = J.tx.name
<1>1. pc \notin NoMutation /\ pc # "journal" /\ pc # "remove"
  BY DEF NoMutation, BeforeCommit, Undoing
<1>2. J \in Journal /\ J.tx # Absent /\ J # Absent /\ J = journals[cur] /\ ~Committed(cur)
  BY <1>1, TheJournal DEF J, Projected, Directed
<1>3. J.tx \in Tx
  BY <1>2 DEF Journal
<1>. QED
  BY <1>1, <1>2, <1>3 DEF Undecided, Readable, Tx, Target

\* A step that moves the bytes of a mutation that has not committed, and keeps
\* what the roll-back of it gives.
LEMMA BytesMoved ==
  ASSUME Typed, Projected, pc \in BeforeCommit \cup Undoing, Alike,
         files' = [files EXCEPT ![Target] = files'[Target]],
         GivesBytes(journals'[cur], files'[Target]) = GivesBytes(J, files[Target])
  PROVE  BytesKept
<1>0. PICK c \in Ids : c = cur
  BY TheUndecided, TheJournal
<1>1. Undecided(c) /\ J = journals[c] /\ Journalled = {c} /\ Target = J.tx.name
  BY <1>0, TheUndecided, TheJournal
<1>2. Undecided(c)' /\ Journalled' = {c} /\ journals'[c].tx = J.tx
  BY <1>1 DEF Alike, Undecided, Readable, Committed, Journalled
<1>3. GivesBytes(journals'[c], files'[Target]) = GivesBytes(J, files[Target])
  BY <1>0
<1>4. files \in [Names -> Bytes]
  BY DEF Typed, TypeOK
<1>5. \A n \in Names : n # Target => files'[n] = files[n]
  BY <1>4
<1>6. \A n \in Names : LeftBytes(c, n) = IF Target = n THEN GivesBytes(J, files[n]) ELSE files[n]
  BY <1>1 DEF LeftBytes
<1>7. \A n \in Names :
        LeftBytes(c, n)' = IF Target = n THEN GivesBytes(journals'[c], files'[n]) ELSE files'[n]
  BY <1>1, <1>2 DEF LeftBytes
<1>8. \A n \in Names : LeftBytes(c, n)' = LeftBytes(c, n)
  BY <1>3, <1>5, <1>6, <1>7
<1>. QED
  BY <1>1, <1>2, <1>8, BytesKeptBy

-----------------------------------------------------------------------------
(* On whose behalf each step is taken.                                     *)

Moded ==
    /\ pc \in {"idle", "down"} => op = Absent
    /\ pc = "down" => mode = "startup"
    /\ pc \in {"recover"} \cup Clean => mode \in {"startup", "operate"}
    /\ pc \in {"journal"} \cup BeforeCommit => mode = "apply"
    /\ mode = "undo" => pc \in {"unproject", "dropProjection", "idle"}

\* At first nobody's.
LEMMA InitModed == Init => Moded
  BY DEF Init, Moded, Clean, BeforeCommit

\* An operation's steps before its commit are its own, a roll-back of what it
\* installed leads to its discard, and a recovery stays one.
LEMMA StepModed == Typed /\ Parking /\ Moded /\ [Next]_vars => Moded'
<1>. SUFFICES ASSUME Typed, Parking, Moded, [Next]_vars PROVE Moded'
  OBVIOUS
<1>. USE DEF Goto, Finish, To, Moded, Clean, BeforeCommit
<1>1. CASE \E n \in Names, c \in Bytes : Start(n, c)
  BY <1>1 DEF Start
<1>2. CASE Apply
  BY <1>2
     DEF Apply, Refuse, BeginJournal, WriteTransaction, StageSourceChange, ParkPrior, PlaceBytes,
         Register, OpenProjectionBackup, WriteManifest, MoveOut, MovesOut, MoveIn, MovesIn, Commit,
         RetireProjection, DropBackup
<1>3. CASE Settle
  BY <1>3
     DEF Typed, TypeOK, Modes, Settle, SettleCommit, WriteCommitted, DeleteCommitRow, StampLineage,
         MarkSettled, WriteSettled, RemoveJournal, TearJournal
<1>4. CASE Recover
  <2>1. CASE \E i \in Ids : RecoverJournal(i)
    BY <2>1 DEF RecoverJournal
  <2>2. CASE Recovered \/ RestoreDocument \/ RestoreRename \/ Heal \/ RebuildOut \/ RebuildIn \/ StampRebuild
    BY <2>2 DEF Recovered, RestoreDocument, RestoreRename, Heal, RebuildOut, RebuildIn, StampRebuild
  <2>3. CASE UndoProjection
    BY <2>3 DEF Parking, UndoProjection, UndoesArtifact
  <2>4. CASE DropProjection \/ TearProjection
    BY <2>4 DEF DropProjection, TearProjection
  <2>. QED
    BY <1>4, <2>1, <2>2, <2>3, <2>4 DEF Recover
<1>5. CASE Fail
  BY <1>5 DEF Fail, FailBeforeCommit, FailAfterCommit, FailOutright
<1>6. CASE Crash \/ Restart
  BY <1>6 DEF Crash, Restart
<1>7. CASE UNCHANGED vars
  BY <1>7 DEF vars
<1>. QED
  BY <1>1, <1>2, <1>3, <1>4, <1>5, <1>6, <1>7 DEF Next

-----------------------------------------------------------------------------
(* Each step's standing to the prior bytes.                                *)

\* At first nothing is set aside.
LEMMA InitParking == Init => Parking
  BY DEF Init, Parking, Done

\* Where the steps that move no bytes and are no milestone lead.
LEMMA ParkingLeads ==
  ASSUME [Next]_vars, ~Milestone, ~BytesMove
  PROVE  /\ pc' \in {"stage", "park"} => pc \in {"stage", "park"} /\ UNCHANGED <<op, cur>>
         /\ pc' \in Done => pc \in Done /\ UNCHANGED <<op, cur>>
         /\ pc' \in {"place", "restoreRename"} => UNCHANGED <<pc, cur>>
         /\ pc' \in {"unproject", "dropProjection"} /\ mode' # "undo" =>
              pc \in {"unproject", "dropProjection"} /\ UNCHANGED <<mode, cur>>
         /\ pc' = "remove" => \/ UNCHANGED <<pc, cur>>
                              \/ pc = "unproject" /\ ~J.proj /\ cur' = cur
                              \/ pc = "dropProjection" /\ mode # "undo" /\ cur' = cur
                              \/ pc = "settle" /\ cur' = cur
                              \/ \E i \in Journalled : cur' = i /\ ~Readable(i) /\ UNCHANGED journals
<1>. USE DEF db, disk, Goto, Finish, To, Milestone, BytesMove, Done
<1>1. CASE UNCHANGED vars \/ Crash \/ Restart \/ \E n \in Names, c \in Bytes : Start(n, c)
  BY <1>1 DEF vars, Start, Crash, Restart
<1>2. CASE Apply
  BY <1>2
     DEF Apply, Refuse, StageSourceChange, Register, OpenProjectionBackup, WriteManifest,
         MoveOut, MovesOut, MoveIn, MovesIn, RetireProjection
<1>3. CASE SettleCommit \/ MarkSettled
  BY <1>3 DEF SettleCommit, MarkSettled
<1>4. CASE \E i \in Ids : RecoverJournal(i)
  BY <1>4 DEF RecoverJournal
<1>5. CASE \/ Recovered \/ UndoProjection \/ DropProjection \/ TearProjection
           \/ Heal \/ RebuildOut \/ RebuildIn
  BY <1>5
     DEF Recovered, UndoProjection, UndoesArtifact, DropProjection, TearProjection,
         Heal, RebuildOut, RebuildIn
<1>6. CASE Fail
  BY <1>6 DEF Fail, FailBeforeCommit, FailAfterCommit, FailOutright
<1>. QED
  BY <1>1, <1>2, <1>3, <1>4, <1>5, <1>6 DEF Next, Settle, Recover

\* What an operation takes back of its own has its projection transaction.
LEMMA UndoLeads ==
  ASSUME Typed, Projected, [Next]_vars, ~Milestone, ~BytesMove, Parking,
         pc' = "unproject", mode' = "undo"
  PROVE  J'.proj
<1>1. CASE UNCHANGED <<pc, mode, cur, journals>>
  BY <1>1 DEF Parking, J
<1>2. CASE UndoProjection
  <2>1. /\ pc = "unproject" /\ mode = "undo" /\ cur' = cur /\ pc \notin NoMutation
        /\ UNCHANGED journals \/ \E a \in Artifacts : UndoesArtifact(a)
    BY <1>2 DEF UndoProjection, UndoesArtifact, NoMutation, Goto, Finish
  <2>2. J \in Journal /\ J.proj
    BY <2>1, TheJournal DEF Parking
  <2>3. CASE UNCHANGED journals
    BY <2>1, <2>2, <2>3 DEF J
  <2>4. ASSUME NEW a \in Artifacts, UndoesArtifact(a) PROVE J'.proj
    <3>. DEFINE j == [J EXCEPT !.saved[a] = Absent]
    <3>1. j \in Journal /\ j.proj /\ SetJournal(j)
      BY <2>2, <2>4 DEF Journal, Projection, UndoesArtifact
    <3>. HIDE DEF j
    <3>. QED
      BY <2>1, <3>1, Rewrites
  <2>. QED
    BY <2>1, <2>3, <2>4
<1>3. CASE FailBeforeCommit
  <2>1. pc \in {"moveOut", "moveIn", "commit"} /\ IsSource(cur) /\ UNCHANGED <<cur, journals>>
    BY <1>3 DEF FailBeforeCommit, To
  <2>. QED
    BY <2>1 DEF Projected, Placing, J
<1>4. UNCHANGED <<pc, mode, cur, journals>> \/ UndoProjection \/ FailBeforeCommit
  <2>. USE DEF db, disk, Goto, Finish, To, Milestone, BytesMove
  <2>1. CASE UNCHANGED vars \/ Crash \/ Restart \/ \E n \in Names, c \in Bytes : Start(n, c)
    BY <2>1 DEF vars, Start, Crash, Restart
  <2>2. CASE Apply
    BY <2>2
       DEF Apply, Refuse, StageSourceChange, Register, OpenProjectionBackup, WriteManifest,
           MoveOut, MovesOut, MoveIn, MovesIn, RetireProjection
  <2>3. CASE Settle
    BY <2>3 DEF Settle, SettleCommit, MarkSettled
  <2>4. CASE Recover
    BY <2>4
       DEF Recover, RecoverJournal, Recovered, DropProjection, TearProjection, Heal, RebuildOut, RebuildIn
  <2>5. CASE Fail
    BY <2>5 DEF Fail, FailAfterCommit, FailOutright
  <2>. QED
    BY <2>1, <2>2, <2>3, <2>4, <2>5 DEF Next
<1>. QED
  BY <1>1, <1>2, <1>3, <1>4

\* They keep it.
LEMMA ParkingStays ==
  ASSUME Typed, Projected, Parking, Alike, SameBytes, [Next]_vars, ~Milestone, ~BytesMove
  PROVE  Parking'
<1>1. \A i \in Journalled :
        /\ journals'[i].tx = journals[i].tx /\ journals'[i].backup = journals[i].backup
        /\ Readable(i)' <=> Readable(i)
        /\ Committed(i)' <=> Committed(i)
  BY DEF Alike, SameBytes, Readable, Committed, Journalled
<1>2. pc' \in {"stage", "park"} =>
        J'.backup = Absent /\ (J'.tx.prior <=> files'[op'.name] # Absent)
  <2>1. CASE pc' \in {"stage", "park"}
    <3>1. pc \in {"stage", "park"} /\ UNCHANGED <<op, cur, files>>
      BY <2>1, ParkingLeads DEF SameBytes
    <3>2. Journalled = {cur}
      BY <3>1, TheJournal DEF NoMutation
    <3>. QED
      BY <1>1, <3>1, <3>2 DEF Parking, J
  <2>. QED
    BY <2>1
<1>3. /\ pc' \in {"place"} \cup Done => Parked(J')
      /\ pc' \in Done => files'[op'.name] = op'.new
  <2>1. CASE pc' \in {"place"} \cup Done
    <3>1. /\ pc \in {"place"} \cup Done /\ UNCHANGED <<cur, files>>
          /\ pc' \in Done => pc \in Done /\ op' = op
      BY <2>1, ParkingLeads DEF SameBytes, Done
    <3>2. Journalled = {cur}
      BY <3>1, TheJournal DEF NoMutation, Done
    <3>. QED
      BY <1>1, <3>1, <3>2 DEF Parking, Parked, J
  <2>. QED
    BY <2>1
<1>4. pc' = "restoreRename" => J'.tx.prior /\ J'.backup # Absent
  <2>1. CASE pc' = "restoreRename"
    <3>1. pc = "restoreRename" /\ cur' = cur
      BY <2>1, ParkingLeads
    <3>2. Journalled = {cur}
      BY <3>1, TheJournal DEF NoMutation
    <3>. QED
      BY <1>1, <3>1, <3>2 DEF Parking, J
  <2>. QED
    BY <2>1
<1>5. pc' = "unproject" /\ mode' = "undo" => J'.proj
  BY UndoLeads
<1>6. pc' \in {"unproject", "dropProjection"} /\ mode' # "undo" => Restored(J)'
  <2>1. CASE pc' \in {"unproject", "dropProjection"} /\ mode' # "undo"
    <3>1. pc \in {"unproject", "dropProjection"} /\ UNCHANGED <<cur, mode, files>>
      BY <2>1, ParkingLeads DEF SameBytes
    <3>2. Journalled = {cur}
      BY <3>1, TheJournal DEF NoMutation
    <3>. QED
      BY <1>1, <2>1, <3>1, <3>2 DEF Parking, Restored, J
  <2>. QED
    BY <2>1
<1>7. pc' = "remove" /\ Readable(cur)' /\ ~Committed(cur)' => Restored(J)'
  <2>1. CASE pc' = "remove" /\ Readable(cur)' /\ ~Committed(cur)'
    <3>1. CASE UNCHANGED <<pc, cur>>
      <4>1. Journalled = {cur} /\ UNCHANGED files
        BY <2>1, <3>1, TheJournal DEF NoMutation, SameBytes
      <4>. QED
        BY <1>1, <2>1, <3>1, <4>1 DEF Parking, Restored, J
    <3>2. CASE pc \in {"unproject", "dropProjection"} /\ mode # "undo" /\ cur' = cur
      <4>1. Journalled = {cur} /\ UNCHANGED files
        BY <3>2, TheJournal DEF NoMutation, SameBytes
      <4>. QED
        BY <1>1, <3>2, <4>1 DEF Parking, Restored, J
    <3>3. ~\E i \in Journalled : cur' = i /\ ~Readable(i) /\ UNCHANGED journals
      BY <2>1 DEF Readable
    <3>4. ~(pc = "settle" /\ cur' = cur)
      <4>1. SUFFICES ASSUME pc = "settle", cur' = cur PROVE FALSE
        OBVIOUS
      <4>2. Journalled = {cur} /\ Committed(cur)
        BY <4>1, TheJournal DEF NoMutation, Projected, Directed
      <4>. QED
        BY <1>1, <2>1, <4>1, <4>2
    <3>. QED
      BY <2>1, <3>1, <3>2, <3>3, <3>4, ParkingLeads DEF Parking
  <2>. QED
    BY <2>1
<1>. QED
  BY <1>2, <1>3, <1>4, <1>5, <1>6, <1>7 DEF Parking, Parked

\* The prior bytes are found again after every step.
LEMMA StepParking ==
  ~TornRemoval /\ Typed /\ Projected /\ Moded /\ Parking /\ [Next]_vars => Parking'
<1>. SUFFICES ASSUME ~TornRemoval, Typed, Placing, Directed, Projected, Moded, Parking, [Next]_vars
              PROVE  Parking'
  BY DEF Projected
<1>. USE DEF Goto, Finish
<1>1. CASE pc' \in NoMutation \cup AfterCommit \cup {"journal", "restore"}
  BY <1>1 DEF Parking, NoMutation, AfterCommit, Done
<1>2. CASE WriteTransaction
  <2>. DEFINE record == [name |-> op.name, prior |-> files[op.name] # Absent]
              j == [J EXCEPT !.tx = record]
  <2>1. /\ pc = "journal" /\ pc \notin NoMutation /\ UNCHANGED <<cur, op, files>>
        /\ pc' \in {"stage", "park"} /\ SetJournal(j)
    BY <1>2 DEF WriteTransaction, NoMutation
  <2>2. J = EmptyJournal /\ J \in Journal /\ op.name \in Names
    BY <2>1, TheJournal DEF Directed, Typed, Working, Operation
  <2>3. record \in Tx /\ record.prior = (files[op.name] # Absent)
    BY <2>2, (files[op.name] # Absent) \in BOOLEAN DEF Tx
  <2>. HIDE DEF record
  <2>4. j \in Journal /\ j.tx = record /\ j.backup = Absent
    BY <2>2, <2>3 DEF Journal, EmptyJournal
  <2>. HIDE DEF j
  <2>5. J' = j
    BY <2>1, <2>4, Rewrites
  <2>. QED
    BY <2>1, <2>3, <2>4, <2>5 DEF Parking, Done
<1>3. CASE ParkPrior
  <2>1. /\ pc = "park" /\ pc \notin NoMutation /\ UNCHANGED <<cur, op>>
        /\ pc' = IF op.new = Absent THEN "register" ELSE "place"
    BY <1>3 DEF ParkPrior, NoMutation
  <2>2. /\ J \in Journal /\ op.name \in Names /\ cur \in Ids /\ files \in [Names -> Bytes]
        /\ J.backup = Absent /\ (J.tx.prior <=> files[op.name] # Absent)
    BY <2>1, TheJournal, TheOperation DEF BeforeCommit, Parking, Typed, TypeOK
  <2>3. Parked(J)' /\ files'[op.name] = Absent
    <3>1. CASE files[op.name] = Absent
      <4>1. UNCHANGED <<files, journals>>
        BY <1>3, <3>1 DEF ParkPrior
      <4>. QED
        BY <2>1, <2>2, <3>1, <4>1 DEF Parked, J
    <3>2. CASE files[op.name] # Absent
      <4>. DEFINE j == [J EXCEPT !.backup = files[op.name]]
      <4>1. SetJournal(j) /\ files' = [files EXCEPT ![op.name] = Absent]
        BY <1>3, <3>2 DEF ParkPrior
      <4>2. j \in Journal /\ j.tx = J.tx /\ j.backup = files[op.name]
        BY <2>2 DEF Journal
      <4>. HIDE DEF j
      <4>3. J' = j
        BY <2>1, <4>1, <4>2, Rewrites
      <4>. QED
        BY <2>2, <3>2, <4>1, <4>2, <4>3 DEF Parked
    <3>. QED
      BY <3>1, <3>2
  <2>. QED
    BY <2>1, <2>3 DEF Parking, Done
<1>4. CASE PlaceBytes
  <2>1. /\ pc = "place" /\ pc' = "register" /\ UNCHANGED <<cur, op, journals>>
        /\ files' = [files EXCEPT ![op.name] = op.new]
    BY <1>4 DEF PlaceBytes
  <2>2. op.name \in Names /\ files \in [Names -> Bytes] /\ Parked(J)
    BY <2>1, TheOperation DEF BeforeCommit, Parking, Typed, TypeOK
  <2>. QED
    BY <2>1, <2>2 DEF Parking, Parked, Done, J
<1>5. CASE RestoreDocument
  <2>1. /\ pc = "restore" /\ UNCHANGED <<cur, journals, mode, commits>>
        /\ pc' = IF J.tx.prior /\ J.backup # Absent THEN "restoreRename"
                 ELSE IF IsSource(cur) THEN "unproject" ELSE "remove"
    BY <1>5 DEF RestoreDocument, db
  <2>2. /\ mode # "undo" /\ J.tx \in Tx /\ Target = J.tx.name /\ Target \in Names
        /\ files \in [Names -> Bytes]
    BY <2>1, TheUndecided DEF Undoing, Moded, Typed, TypeOK
  <2>3. J' = J
    BY <2>1 DEF J
  <2>4. ~(J.tx.prior /\ J.backup # Absent) => Restored(J)'
    <3>1. CASE J.tx.prior /\ J.backup = Absent
      BY <2>3, <3>1 DEF Restored
    <3>2. CASE ~J.tx.prior
      <4>1. files'[J.tx.name] = Absent
        BY <1>5, <2>2, <3>2 DEF RestoreDocument
      <4>. QED
        BY <2>3, <3>2, <4>1 DEF Restored
    <3>. QED
      BY <3>1, <3>2
  <2>. QED
    BY <2>1, <2>2, <2>3, <2>4 DEF Parking, Done
<1>6. CASE RestoreRename
  <2>. DEFINE j == [J EXCEPT !.backup = Absent]
  <2>1. /\ pc = "restoreRename" /\ pc \notin NoMutation /\ UNCHANGED <<cur, mode>> /\ SetJournal(j)
        /\ pc' \in {"unproject", "remove"}
    BY <1>6 DEF RestoreRename, NoMutation
  <2>2. mode # "undo" /\ J \in Journal /\ J.tx.prior
    BY <2>1, TheJournal DEF Moded, Parking
  <2>3. j \in Journal /\ j.tx = J.tx /\ j.backup = Absent
    BY <2>2, AbsentInBytes DEF Journal
  <2>. HIDE DEF j
  <2>4. J' = j
    BY <2>1, <2>3, Rewrites
  <2>5. Restored(J)'
    BY <2>2, <2>3, <2>4 DEF Restored
  <2>. QED
    BY <2>1, <2>2, <2>5 DEF Parking, Done
<1>7. CASE (DeleteCommitRow \/ WriteSettled) /\ pc' = "remove"
  <2>. DEFINE j == [J EXCEPT !.settled = TRUE, !.unwritten = FALSE]
  <2>1. /\ pc \in {"unrecord", "settledWrite"} /\ pc \notin NoMutation /\ cur' = cur
        /\ J.committed /\ (UNCHANGED journals \/ SetJournal(j))
    BY <1>7 DEF DeleteCommitRow, WriteSettled, NoMutation, Directed, disk
  <2>2. J \in Journal
    BY <2>1, TheJournal
  <2>3. j \in Journal /\ j.committed
    BY <2>1, <2>2 DEF Journal
  <2>. HIDE DEF j
  <2>4. J'.committed
    BY <2>1, <2>3, Rewrites DEF J
  <2>5. Committed(cur)'
    BY <2>4 DEF Committed, J
  <2>. QED
    BY <1>7, <2>5 DEF Parking, Done
<1>8. CASE TearJournal
  BY <1>8 DEF TearJournal
<1>9. CASE DropBackup
  BY <1>1, <1>9 DEF DropBackup, AfterCommit
<1>10. CASE ~Milestone /\ ~BytesMove
  BY <1>10, StepAlike, ParkingStays
<1>11. CASE Milestone
  <2>1. CASE BeginJournal \/ Commit \/ StampLineage \/ RemoveJournal \/ StampRebuild
    BY <1>1, <2>1
       DEF BeginJournal, Commit, StampLineage, RemoveJournal, StampRebuild, NoMutation, AfterCommit
  <2>2. CASE WriteCommitted \/ DeleteCommitRow \/ WriteSettled
    BY <1>1, <1>7, <2>2 DEF WriteCommitted, DeleteCommitRow, WriteSettled, AfterCommit
  <2>. QED
    BY <1>2, <1>8, <1>11, <2>1, <2>2 DEF Milestone
<1>. QED
  BY <1>3, <1>4, <1>5, <1>6, <1>9, <1>10, <1>11 DEF BytesMove

\* A step that leaves the bytes, the journals and the evidence alone.
LEMMA BytesUntouched ==
  ASSUME UNCHANGED <<files, journals, commits>>
  PROVE  BytesKept
  BY DEF BytesKept, RecoveredBytes, Undecided, Readable, Committed

\* The steps that move bytes keep what a recovery would leave.
LEMMA MoveKeeps ==
  ASSUME Typed, Projected, Parking, [Next]_vars, BytesMove
  PROVE  BytesKept
<1>1. ~Milestone
  BY DEF BytesMove, Milestone, ParkPrior, PlaceBytes, DropBackup, RestoreDocument, RestoreRename,
         BeginJournal, WriteTransaction, Commit, WriteCommitted, DeleteCommitRow, StampLineage,
         WriteSettled, RemoveJournal, TearJournal, StampRebuild
<1>2. Alike
  BY <1>1, StepAlike
<1>. USE DEF Goto
<1>3. CASE ParkPrior
  <2>1. pc = "park" /\ pc \in BeforeCommit /\ pc \notin NoMutation /\ cur' = cur
    BY <1>3 DEF ParkPrior, BeforeCommit, NoMutation
  <2>2. /\ J \in Journal /\ op.name \in Names /\ cur \in Ids /\ files \in [Names -> Bytes]
        /\ J.backup = Absent /\ (J.tx.prior <=> files[op.name] # Absent) /\ Target = op.name
    BY <2>1, TheJournal, TheOperation, TheUndecided DEF Parking, Typed, TypeOK
  <2>3. CASE files[op.name] = Absent
    BY <1>2, <1>3, <2>3, BytesUntouched DEF ParkPrior, Alike
  <2>4. CASE files[op.name] # Absent
    <3>. DEFINE j == [J EXCEPT !.backup = files[op.name]]
    <3>1. SetJournal(j) /\ files' = [files EXCEPT ![op.name] = Absent]
      BY <1>3, <2>4 DEF ParkPrior
    <3>2. j \in Journal /\ j.tx = J.tx /\ j.backup = files[op.name]
      BY <2>2 DEF Journal
    <3>. HIDE DEF j
    <3>3. journals'[cur] = j
      BY <2>1, <3>1, <3>2, Rewrites
    <3>4. GivesBytes(journals'[cur], files'[Target]) = GivesBytes(J, files[Target])
      BY <2>2, <2>4, <3>1, <3>2, <3>3 DEF GivesBytes
    <3>5. files' = [files EXCEPT ![Target] = files'[Target]]
      BY <2>2, <3>1
    <3>. QED
      BY <1>2, <2>1, <3>4, <3>5, BytesMoved
  <2>. QED
    BY <2>3, <2>4
<1>4. CASE PlaceBytes
  <2>1. /\ pc = "place" /\ pc \in BeforeCommit /\ UNCHANGED journals
        /\ files' = [files EXCEPT ![op.name] = op.new]
    BY <1>4 DEF PlaceBytes, BeforeCommit
  <2>2. op.name \in Names /\ files \in [Names -> Bytes] /\ Parked(J) /\ Target = op.name /\ J = journals[cur]
    BY <2>1, TheOperation, TheUndecided DEF Parking, Typed, TypeOK
  <2>3. GivesBytes(journals'[cur], files'[Target]) = GivesBytes(J, files[Target])
    BY <2>1, <2>2 DEF GivesBytes, Parked
  <2>4. files' = [files EXCEPT ![Target] = files'[Target]]
    BY <2>1, <2>2
  <2>. QED
    BY <1>2, <2>1, <2>3, <2>4, BytesMoved
<1>5. CASE DropBackup
  <2>1. /\ pc = "dropBackup" /\ pc \notin NoMutation /\ UNCHANGED files /\ Committed(cur)
    BY <1>5 DEF DropBackup, NoMutation, Projected, Directed
  <2>2. PICK c \in Ids : c = cur
    BY <2>1, TheJournal
  <2>3. Journalled = {c} /\ Journalled' = {c} /\ Committed(c)
    BY <1>2, <2>1, <2>2, TheJournal DEF Alike
  <2>4. Committed(c)'
    BY <1>2, <2>3 DEF Alike, Committed
  <2>. QED
    BY <2>1, <2>3, <2>4, BytesDecided DEF Undecided
<1>6. CASE RestoreDocument
  <2>1. pc = "restore" /\ pc \in Undoing /\ UNCHANGED journals
    BY <1>6 DEF RestoreDocument, Undoing
  <2>2. Target \in Names /\ files \in [Names -> Bytes] /\ J = journals[cur]
    BY <2>1, TheUndecided DEF Typed, TypeOK
  <2>3. CASE UNCHANGED files
    BY <1>2, <2>1, <2>3, BytesUntouched DEF Alike
  <2>4. CASE ~UNCHANGED files
    <3>1. files' = [files EXCEPT ![Target] = Absent] /\ ~(J.tx.prior /\ J.backup = Absent)
      BY <1>6, <2>4 DEF RestoreDocument
    <3>2. GivesBytes(journals'[cur], files'[Target]) = GivesBytes(J, files[Target])
      BY <2>1, <2>2, <3>1 DEF GivesBytes
    <3>3. files' = [files EXCEPT ![Target] = files'[Target]]
      BY <2>2, <3>1
    <3>. QED
      BY <1>2, <2>1, <3>2, <3>3, BytesMoved
  <2>. QED
    BY <2>3, <2>4
<1>7. CASE RestoreRename
  <2>. DEFINE j == [J EXCEPT !.backup = Absent]
  <2>1. /\ pc = "restoreRename" /\ pc \in Undoing /\ pc \notin NoMutation /\ cur' = cur /\ SetJournal(j)
        /\ files' = [files EXCEPT ![Target] = J.backup]
    BY <1>7 DEF RestoreRename, Undoing, NoMutation
  <2>2. /\ Target \in Names /\ files \in [Names -> Bytes] /\ J \in Journal
        /\ J.tx.prior /\ J.backup # Absent
    BY <2>1, TheUndecided, TheJournal DEF Parking, Typed, TypeOK
  <2>3. j \in Journal /\ j.tx = J.tx /\ j.backup = Absent
    BY <2>2, AbsentInBytes DEF Journal
  <2>. HIDE DEF j
  <2>4. journals'[cur] = j
    BY <2>1, <2>3, Rewrites
  <2>5. GivesBytes(journals'[cur], files'[Target]) = GivesBytes(J, files[Target])
    BY <2>1, <2>2, <2>3, <2>4 DEF GivesBytes
  <2>6. files' = [files EXCEPT ![Target] = files'[Target]]
    BY <2>1, <2>2
  <2>. QED
    BY <1>2, <2>1, <2>5, <2>6, BytesMoved
<1>. QED
  BY <1>3, <1>4, <1>5, <1>6, <1>7 DEF BytesMove

\* So does every step but the commit.
LEMMA StepBytes ==
  ~TornRemoval /\ Typed /\ Projected /\ Parking /\ [Next]_vars => BytesKept \/ Commit
<1>. SUFFICES ASSUME ~TornRemoval, Typed, Projected, Parking, [Next]_vars
              PROVE  BytesKept \/ Commit
  OBVIOUS
<1>. USE DEF Goto
<1>1. CASE BeginJournal
  <2>1. PICK i \in Ids \ (Journalled \cup commits) :
               journals' = [journals EXCEPT ![i] = EmptyJournal]
    BY <1>1 DEF BeginJournal
  <2>2. Journalled = {} /\ journals'[i].tx = Absent /\ UNCHANGED files
    BY <1>1, <2>1 DEF BeginJournal, Typed, TypeOK, Working, Clean, EmptyJournal
  <2>3. Journalled' \subseteq {i}
    BY <2>1, <2>2 DEF Journalled, Typed, TypeOK
  <2>4. ~Undecided(i) /\ ~Undecided(i)'
    BY <2>2 DEF Undecided, Readable, Journalled
  <2>. QED
    BY <2>2, <2>3, <2>4, BytesDecided
<1>2. CASE WriteTransaction
  <2>. DEFINE record == [name |-> op.name, prior |-> files[op.name] # Absent]
              j == [J EXCEPT !.tx = record]
  <2>1. pc = "journal" /\ pc \notin NoMutation /\ UNCHANGED <<cur, files>> /\ SetJournal(j)
    BY <1>2 DEF WriteTransaction, NoMutation
  <2>0. PICK c \in Ids : c = cur
    BY <2>1, TheJournal
  <2>2. J = EmptyJournal /\ J \in Journal /\ op.name \in Names /\ Journalled = {c} /\ J = journals[c]
    BY <2>0, <2>1, TheJournal DEF Projected, Directed, Typed, Working, Operation, J
  <2>3. record \in Tx /\ record.prior = (files[op.name] # Absent) /\ record.name = op.name
    BY <2>2, (files[op.name] # Absent) \in BOOLEAN DEF Tx
  <2>. HIDE DEF record
  <2>4. j \in Journal /\ j.tx = record /\ j.backup = Absent
    <3>1. J \in Journal /\ J.backup = Absent
      BY <2>2 DEF EmptyJournal
    <3>. QED
      BY <2>3, <3>1 DEF Journal
  <2>. HIDE DEF j
  <2>5. journals'[c] = j /\ Journalled' = {c}
    BY <2>0, <2>1, <2>4, Rewrites
  <2>6. ~Undecided(c)
    BY <2>2 DEF Undecided, Readable, EmptyJournal
  <2>7. \A n \in Names : LeftBytes(c, n) = files[n]
    BY <2>6 DEF LeftBytes
  <2>8. \A n \in Names : LeftBytes(c, n)' = files[n]
    BY <2>1, <2>3, <2>4, <2>5 DEF LeftBytes, GivesBytes
  <2>9. BytesKept
    BY <2>2, <2>5, <2>7, <2>8, BytesKeptBy
  <2>. QED
    BY <2>9
<1>3. CASE WriteCommitted \/ DeleteCommitRow \/ WriteSettled
  <2>1. /\ pc \in {"settleWrite", "unrecord", "settledWrite"} /\ pc \notin NoMutation
        /\ UNCHANGED <<cur, files>>
        /\ commits' = commits \/ J.committed
    BY <1>3 DEF WriteCommitted, DeleteCommitRow, WriteSettled, NoMutation, Projected, Directed, db, disk
  <2>2. PICK c \in Ids : c = cur
    BY <2>1, TheJournal
  <2>3. J \in Journal /\ J = journals[c] /\ Journalled = {c}
    BY <2>1, <2>2, TheJournal DEF J
  <2>4. Committed(c)
    BY <2>1, <2>2, <2>3 DEF Projected, Directed, Committed
  <2>5. PICK j \in Journal : /\ (UNCHANGED journals /\ j = J) \/ SetJournal(j)
                             /\ J.committed => j.committed
    <3>1. \A j : j \in {J, [J EXCEPT !.committed = TRUE, !.unwritten = FALSE],
                        [J EXCEPT !.settled = TRUE, !.unwritten = FALSE]} =>
                 j \in Journal /\ (J.committed => j.committed)
      BY <2>3 DEF Journal
    <3>. QED
      BY <1>3, <2>3, <3>1 DEF WriteCommitted, DeleteCommitRow, WriteSettled, disk
  <2>6. journals'[c] = j /\ Journalled' = {c}
    BY <2>1, <2>2, <2>3, <2>5, Rewrites DEF Journalled
  <2>7. Committed(c)'
    BY <2>1, <2>3, <2>4, <2>5, <2>6 DEF Committed
  <2>. QED
    BY <2>1, <2>3, <2>4, <2>6, <2>7, BytesDecided DEF Undecided
<1>4. CASE StampLineage \/ StampRebuild
  BY <1>4, BytesUntouched DEF StampLineage, StampRebuild, db
<1>5. CASE RemoveJournal
  <2>1. pc = "remove" /\ pc \notin NoMutation /\ UNCHANGED files /\ SetJournal(Absent)
    BY <1>5 DEF RemoveJournal, NoMutation
  <2>2. PICK c \in Ids : c = cur
    BY <2>1, TheJournal
  <2>3. /\ J = journals[c] /\ Journalled = {c} /\ journals'[c] = Absent /\ Journalled' = {}
        /\ Readable(c) /\ ~Committed(c) => Restored(J)
    BY <2>1, <2>2, TheJournal DEF SetJournal, Journalled, Typed, TypeOK, J, Parking
  <2>4. \A n \in Names : LeftBytes(c, n) = files[n]
    BY <2>3 DEF LeftBytes, Undecided, GivesBytes, Restored
  <2>5. \A n \in Names : LeftBytes(c, n)' = files[n]
    BY <2>1, <2>3 DEF LeftBytes, Undecided, Readable
  <2>6. BytesKept
    BY <2>3, <2>4, <2>5, BytesKeptBy
  <2>. QED
    BY <2>6
<1>6. CASE TearJournal
  BY <1>6 DEF TearJournal
<1>7. CASE BytesMove
  BY <1>7, MoveKeeps
<1>8. CASE ~Milestone /\ ~BytesMove
  BY <1>8, StepAlike, BytesAlike
<1>. QED
  BY <1>1, <1>2, <1>3, <1>4, <1>5, <1>6, <1>7, <1>8 DEF Milestone

\* The commit makes the bytes that were placed the registry's.
LEMMA CommitBytes ==
  ASSUME Typed, Projected, Parking, BytesFollow, Commit
  PROVE  /\ BytesFollow'
         /\ registry' = [registry EXCEPT ![op.name] = op.new]
<1>1. /\ pc = "commit" /\ pc \in BeforeCommit /\ pc \notin NoMutation
      /\ UNCHANGED <<files, journals, cur>> /\ commits' = commits \cup {cur}
      /\ registry' = [registry EXCEPT ![op.name] = op.new]
  BY DEF Commit, BeforeCommit, NoMutation, Goto, disk
<1>2. PICK c \in Ids : c = cur
  BY <1>1, TheJournal
<1>3. /\ Journalled = {c} /\ J = journals[c] /\ J.tx.name = op.name /\ op.name \in Names
      /\ files[op.name] = op.new /\ registry \in [Names -> Bytes]
  BY <1>1, <1>2, TheJournal, TheOperation DEF J, Parking, Done, Typed, TypeOK
<1>4. Journalled' = {c} /\ ~Undecided(c)'
  BY <1>1, <1>2, <1>3 DEF Journalled, Undecided, Committed
<1>5. \A n \in Names : RecoveredBytes(n)' = files[n]
  BY <1>1, <1>4, BytesLeftNext DEF LeftBytes
<1>6. \A n \in Names : n # op.name => files[n] = registry[n]
  BY <1>3, BytesLeft DEF BytesFollow, LeftBytes
<1>7. \A n \in Names : RecoveredBytes(n)' = registry'[n]
  BY <1>1, <1>3, <1>5, <1>6
<1>. QED
  BY <1>1, <1>7 DEF BytesFollow

-----------------------------------------------------------------------------
(* The refinement: each step is the whole change at once, a rewrite of the *)
(* projection, a request, the end of one, or nothing.                      *)

Applied == op # Absent /\ mode \in {"apply", "discard"} /\ cur \in decided

\* What each step but the commit makes of the request.
Answers ==
    \/ op' = op /\ (Applied' <=> Applied)
    \/ op' = Absent /\ ~Applied'
    \/ op = Absent /\ op' \in Operation /\ ~Applied /\ ~Applied'

\* A step that goes on with the mutation at hand, or is the end of it.
LEMMA GoesOn ==
  ASSUME UNCHANGED decided, UNCHANGED <<mode, op, cur>> \/ op' = Absent
  PROVE  Answers
  BY DEF Answers, Applied

\* No other step has a change happen.
LEMMA StepAnswers == Typed /\ Evidence /\ Moded /\ [Next]_vars => Answers \/ Commit
<1>. SUFFICES ASSUME Typed, Evidence, Moded, [Next]_vars PROVE Answers \/ Commit
  OBVIOUS
<1>. USE DEF Goto, Finish, To
<1>1. CASE \E n \in Names, c \in Bytes : Start(n, c)
  <2>1. PICK n \in Names, c \in Bytes : Start(n, c)
    BY <1>1
  <2>2. op = Absent /\ op' \in Operation /\ mode' = "operate"
    BY <2>1 DEF Start, Moded, Operation
  <2>. QED
    BY <2>2 DEF Answers, Applied
<1>2. CASE BeginJournal
  <2>1. PICK i \in Ids \ (Journalled \cup commits) : cur' = i
    BY <1>2 DEF BeginJournal
  <2>2. i \notin decided /\ UNCHANGED <<op, decided>> /\ mode \in {"startup", "operate"}
    BY <1>2, <2>1 DEF BeginJournal, Evidence, Recorded, Moded, Clean
  <2>. QED
    BY <2>1, <2>2 DEF Answers, Applied
<1>3. CASE \/ Refuse \/ WriteTransaction \/ StageSourceChange \/ ParkPrior \/ PlaceBytes \/ Register
           \/ OpenProjectionBackup \/ WriteManifest \/ MoveOut \/ MoveIn \/ RetireProjection \/ DropBackup
  BY <1>3, GoesOn
     DEF Refuse, WriteTransaction, StageSourceChange, ParkPrior, PlaceBytes,
         Register, OpenProjectionBackup, WriteManifest, MoveOut, MovesOut, MoveIn, MovesIn,
         RetireProjection, DropBackup
<1>4. CASE \/ SettleCommit \/ WriteCommitted \/ DeleteCommitRow \/ StampLineage
           \/ MarkSettled \/ WriteSettled \/ TearJournal
  BY <1>4, GoesOn
     DEF SettleCommit, WriteCommitted, DeleteCommitRow, StampLineage, MarkSettled, WriteSettled,
         TearJournal
<1>5. CASE RemoveJournal
  <2>1. CASE mode \in {"apply", "discard"}
    BY <1>5, <2>1 DEF RemoveJournal, Answers, Applied
  <2>2. CASE mode \notin {"apply", "discard"}
    BY <1>5, <2>2 DEF RemoveJournal, Answers, Applied
  <2>. QED
    BY <2>1, <2>2
<1>6. CASE \E i \in Ids : RecoverJournal(i)
  <2>1. PICK i \in Ids : RecoverJournal(i)
    BY <1>6
  <2>2. mode \in {"startup", "operate"} /\ UNCHANGED mode /\ (op' = op \/ op' = Absent)
    BY <2>1 DEF RecoverJournal, Moded
  <2>. QED
    BY <2>2 DEF Answers, Applied
<1>7. CASE \/ Recovered \/ RestoreDocument \/ RestoreRename \/ UndoProjection \/ TearProjection
           \/ Heal \/ RebuildOut \/ RebuildIn \/ StampRebuild
  BY <1>7, GoesOn
     DEF Recovered, RestoreDocument, RestoreRename, UndoProjection, UndoesArtifact, TearProjection,
         Heal, RebuildOut, RebuildIn, StampRebuild
<1>8. CASE DropProjection
  <2>1. CASE UNCHANGED <<mode, op, cur>> \/ op' = Absent
    BY <1>8, <2>1, GoesOn DEF DropProjection
  <2>2. CASE pc = "dropProjection" /\ mode = "undo" /\ mode' = "discard" /\ UNCHANGED <<op, cur>>
    <3>1. cur \notin decided /\ UNCHANGED decided
      BY <1>8, <2>2 DEF DropProjection, Evidence, Placed, Uncommitted, Undoing
    <3>. QED
      BY <2>2, <3>1 DEF Answers, Applied
  <2>. QED
    BY <1>8, <2>1, <2>2 DEF DropProjection
<1>9. CASE FailBeforeCommit
  <2>1. pc \in BeforeCommit /\ UNCHANGED <<op, cur, decided>>
    BY <1>9 DEF FailBeforeCommit, BeforeCommit
  <2>2. cur \notin decided
    BY <2>1 DEF Evidence, Placed, Uncommitted
  <2>. QED
    BY <2>1, <2>2 DEF Answers, Applied
<1>10. CASE FailAfterCommit
  <2>1. CASE op' = Absent
    BY <1>10, <2>1, GoesOn DEF FailAfterCommit
  <2>2. CASE op' # Absent
    <3>1. mode = "apply" /\ mode' = "discard" /\ UNCHANGED <<op, cur, decided>>
      BY <1>10, <2>2 DEF FailAfterCommit
    <3>. QED
      BY <3>1 DEF Answers, Applied
  <2>. QED
    BY <2>1, <2>2
<1>11. CASE FailOutright \/ Crash \/ Restart
  BY <1>11, GoesOn DEF FailOutright, Crash, Restart
<1>12. CASE UNCHANGED vars
  BY <1>12, GoesOn DEF vars
<1>. QED
  BY <1>1, <1>2, <1>3, <1>4, <1>5, <1>6, <1>7, <1>8, <1>9, <1>10, <1>11, <1>12
     DEF Next, Apply, Settle, Recover, Fail

\* What the abstract change sees of the bytes and of the corpus.
TheBytes == [n \in Names |-> RecoveredBytes(n)]
TheCorpus == [a \in Artifacts |-> RecoveredArtifact(a)]

\* Nothing is asked for at first, and nothing is there.
LEMMA InitMatter == Init => Matter!Init /\ BytesFollow
<1>. SUFFICES ASSUME Init PROVE Matter!Init /\ BytesFollow
  OBVIOUS
<1>1. Journalled = {} /\ \A n \in Names : files[n] = Absent /\ registry[n] = Absent
  BY DEF Init, Journalled
<1>2. \A n \in Names : RecoveredBytes(n) = Absent
  BY <1>1 DEF RecoveredBytes, Undecided, Readable, Journalled
<1>3. \A a \in Artifacts : RecoveredArtifact(a) = Absent
  BY <1>1, RecoveredLive DEF Init, NoArtifacts
<1>4. TheCorpus = Matter!Derived(Matter!Empty)
  BY <1>3, SourcesAssumption DEF TheCorpus, Matter!Derived, Matter!Empty
<1>5. TheBytes = Matter!Empty
  BY <1>2 DEF TheBytes, Matter!Empty
<1>6. op = Absent /\ registry = Matter!Empty /\ healed = TRUE
  BY DEF Init, Matter!Empty
<1>7. Matter!Init
  BY <1>4, <1>5, <1>6 DEF Matter!Init, TheBytes, TheCorpus
<1>. QED
  BY <1>1, <1>2, <1>7 DEF BytesFollow

\* The change happens at the commit, to the bytes, the registry and the corpus.
LEMMA CommitApplies ==
  ASSUME Typed, Typed', Projected, Evidence, Moded, Parking, BytesFollow, Commit
  PROVE  Matter!Apply
<1>1. /\ pc = "commit" /\ mode = "apply" /\ op \in Operation /\ cur \notin decided
      /\ UNCHANGED <<op, mode, cur>> /\ cur \in decided'
  BY DEF Commit, Goto, Moded, BeforeCommit, Typed, Working, Evidence, Placed, Uncommitted
<1>2. op # Absent
  BY <1>1, AbsentAssumption DEF Operation, Bytes
<1>3. ~Applied /\ Applied' = TRUE
  BY <1>1, <1>2 DEF Applied
<1>4. /\ registry' = [registry EXCEPT ![op.name] = op.new]
      /\ \A n \in Names : RecoveredBytes(n)' = registry'[n]
  BY CommitBytes DEF BytesFollow
<1>5. registry' \in [Names -> Bytes]
  BY DEF Typed, TypeOK
<1>6. TheBytes' = registry'
  BY <1>4, <1>5 DEF TheBytes
<1>7. CASE op.name \in Sources
  <2>1. healed' = TRUE /\ \A a \in Artifacts : RecoveredArtifact(a)' = Build(registry)'[a]
    BY <1>7, CommitCorpus DEF Typed, TypeOK
  <2>2. Build(registry)' = Matter!Derived(registry')
    BY DEF Build, Matter!Derived
  <2>3. TheCorpus' = Matter!Derived(registry')
    BY <2>1, <2>2 DEF TheCorpus, Matter!Derived
  <2>. QED
    BY <1>1, <1>2, <1>3, <1>4, <1>6, <1>7, <2>1, <2>3 DEF Matter!Apply, Applied, TheBytes, TheCorpus
<1>8. CASE op.name \notin Sources
  <2>1. healed' = healed /\ TheCorpus' = TheCorpus
    BY <1>8, CommitCorpus DEF CorpusKept, TheCorpus
  <2>. QED
    BY <1>1, <1>2, <1>3, <1>4, <1>6, <1>8, <2>1 DEF Matter!Apply, Applied, TheBytes, TheCorpus
<1>. QED
  BY <1>7, <1>8

\* A rewrite without a journal is the abstract one.
LEMMA RebuildRewrites ==
  ASSUME Typed, Typed', BytesKept, Rebuilding, RebuildOut \/ RebuildIn
  PROVE  Matter!Rewrite \/ Matter!Whole
<1>1. /\ \A a \in Artifacts : RecoveredArtifact(a)' = live'[a]
      /\ registry' = registry
  BY RebuildCorpus
<1>2. live' \in Projection
  BY DEF Typed, TypeOK
<1>3. TheCorpus' = live'
  BY <1>1, <1>2 DEF TheCorpus, Projection
<1>4. TheBytes' = TheBytes /\ UNCHANGED op /\ Applied' = Applied
  BY DEF BytesKept, TheBytes, Applied, RebuildOut, RebuildIn, Goto
<1>5. CASE healed' = FALSE
  BY <1>1, <1>2, <1>3, <1>4, <1>5
     DEF Matter!Rewrite, Applied, TheBytes, TheCorpus, Projection, Snapshot, Bytes
<1>6. CASE healed' # FALSE
  <2>1. healed' = TRUE /\ live' = Build(registry)
    BY <1>6 DEF RebuildOut, RebuildIn, Rebuilding, Typed, TypeOK
  <2>2. TheCorpus' = Matter!Derived(registry)
    BY <1>3, <2>1 DEF Build, Matter!Derived
  <2>. QED
    BY <1>1, <1>4, <2>1, <2>2 DEF Matter!Whole, Applied, TheBytes, TheCorpus
<1>. QED
  BY <1>5, <1>6

\* Every other step is a request, the end of one, or nothing.
LEMMA AnswersMatter ==
  ASSUME Answers, CorpusKept, BytesKept, UNCHANGED <<registry, healed>>
  PROVE  [Matter!Next]_(Matter!vars)
<1>1. TheBytes' = TheBytes /\ TheCorpus' = TheCorpus
  BY DEF BytesKept, CorpusKept, TheBytes, TheCorpus
<1>2. CASE op' = op /\ (Applied' <=> Applied)
  <2>1. Applied' = Applied
    BY <1>2 DEF Applied
  <2>. QED
    BY <1>1, <1>2, <2>1 DEF Matter!vars, Applied, TheBytes, TheCorpus
<1>3. CASE op' = Absent /\ ~Applied'
  <2>1. Applied' = FALSE
    BY <1>3 DEF Applied
  <2>2. CASE op = Absent
    <3>1. Applied = FALSE
      BY <2>2 DEF Applied
    <3>. QED
      BY <1>1, <1>3, <2>1, <2>2, <3>1 DEF Matter!vars, Applied, TheBytes, TheCorpus
  <2>3. CASE op # Absent
    BY <1>1, <1>3, <2>1, <2>3 DEF Matter!Next, Matter!Forget, Applied, TheBytes, TheCorpus
  <2>. QED
    BY <2>2, <2>3
<1>4. CASE op = Absent /\ op' \in Operation /\ ~Applied /\ ~Applied'
  <2>1. Applied' = Applied
    BY <1>4 DEF Applied
  <2>. QED
    BY <1>1, <1>4, <2>1
       DEF Matter!Next, Matter!Request, Operation, Bytes, Applied, TheBytes, TheCorpus
<1>. QED
  BY <1>2, <1>3, <1>4 DEF Answers

\* A change of a document is atomic: what a recovery would leave of the bytes,
\* the registry and the source projection changes in one step, the commit, as
\* requested and once (document-mutation.ts), whatever the sets of documents,
\* artifacts and ids, and wherever the process stops or a step throws.  Where
\* a directory is removed as one step.
THEOREM ChangesAreAtomic == ~TornRemoval /\ Spec => ImplementsAtomicMatter
<1>. DEFINE Inv == /\ ~TornRemoval /\ Typed /\ Evidence /\ Projected /\ Rebuilding
                   /\ CorpusFollowsRegistry /\ Moded /\ Parking /\ BytesFollow
<1>1. ~TornRemoval /\ Init => Inv /\ Matter!Init
  BY InitTyped, InitEvidence, InitProjected, InitCorpus, InitModed, InitParking, InitMatter
<1>2. Inv /\ [Next]_vars => Inv'
  <2>. SUFFICES ASSUME Inv, [Next]_vars PROVE Inv'
    OBVIOUS
  <2>1. Typed'
    BY StepTyped
  <2>2. Evidence' /\ Projected' /\ Rebuilding' /\ CorpusFollowsRegistry'
    BY <2>1, StepEvidence, StepProjected, StepRebuilding, StepCorpusFollows
  <2>3. Moded' /\ Parking'
    BY StepModed, StepParking
  <2>4. BytesFollow'
    <3>1. CASE Commit
      BY <3>1, CommitBytes
    <3>2. CASE ~Commit
      <4>1. BytesKept /\ registry' = registry
        BY <3>2, StepBytes, RegistryStays, RebuildCorpus, <2>1
      <4>. QED
        BY <4>1 DEF BytesFollow, BytesKept
    <3>. QED
      BY <3>1, <3>2
  <2>. QED
    BY <2>1, <2>2, <2>3, <2>4
<1>3. Inv /\ Inv' /\ [Next]_vars => [Matter!Next]_(Matter!vars)
  <2>. SUFFICES ASSUME Inv, Inv', [Next]_vars PROVE [Matter!Next]_(Matter!vars)
    OBVIOUS
  <2>1. CASE Commit
    BY <2>1, CommitApplies DEF Matter!Next
  <2>2. CASE RebuildOut \/ RebuildIn
    <3>1. BytesKept
      BY <2>2, StepBytes DEF RebuildOut, RebuildIn, Commit
    <3>. QED
      BY <2>2, <3>1, RebuildRewrites DEF Matter!Next
  <2>3. CASE ~Commit /\ ~RebuildOut /\ ~RebuildIn
    <3>1. Answers /\ CorpusKept /\ BytesKept /\ UNCHANGED <<registry, healed>>
      BY <2>3, StepAnswers, StepCorpus, StepBytes, RegistryStays
    <3>. QED
      BY <3>1, AnswersMatter
  <2>. QED
    BY <2>1, <2>2, <2>3
<1>. QED
  BY <1>1, <1>2, <1>3, PTL DEF Spec, ImplementsAtomicMatter, Matter!Spec

=============================================================================
