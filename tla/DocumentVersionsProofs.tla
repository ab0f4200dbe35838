------------------------ MODULE DocumentVersionsProofs ------------------------
(***************************************************************************)
(* That DocumentVersions keeps its promises, for any names, documents and  *)
(* contents: its types, that a kept version has its bytes, that no write   *)
(* loses bytes, and that what was removed is gone.                         *)
(***************************************************************************)
EXTENDS DocumentVersions, SequenceTheorems, TLAPS

\* Of a document's rows: the contents of all, and of those kept.
HeldIn(s) == {s[k].content : k \in DOMAIN s}
KeptIn(s) == {s[k].content : k \in {k \in DOMAIN s : ~s[k].removed}}

\* The current version is not a removed one.
EndsKept(s) == s # <<>> => ~s[Len(s)].removed

\* What an operation found out about a name is so until it ends: i is its live
\* document, or there is none and i has no rows.
Looked(i, n) == i \in Live(n) \/ (Live(n) = {} /\ docs[i] = Absent)

\* An operation is before its commit.
Busy == op.pc \in {"stage", "park", "place", "capture"}

Writes == Busy /\ op.kind # "delete"
Deletes == Busy /\ op.kind = "delete"

\* What an operation has in hand.
Working ==
    /\ \A i \in Ids : EndsKept(rows[i])
    /\ mode # "serving" => At("idle")
    /\ Busy => journal # Absent
    /\ At("park") \/ At("place") => op.todo = {}
    /\ At("place") => op.kind # "delete"
    /\ Writes =>
        /\ op.doc \in Ids /\ op.name \in Names /\ op.content \in Contents
        /\ Looked(op.doc, op.name)
        /\ op.from \in (Names \ {op.name}) \cup {Absent}
        /\ ~At("capture") \/ op.from = Absent => op.source = Absent /\ op.found = Absent
    /\ At("capture") /\ op.kind # "delete" /\ op.from # Absent =>
        op.source \in Ids \ {op.doc} /\ Looked(op.source, op.from)
    /\ Deletes =>
        /\ op.name \in Names /\ op.content = Absent /\ op.from = Absent
        /\ op.todo = {} /\ op.staged = {}
        /\ Live(op.name) \subseteq {op.doc}

\* The bytes that an operation stored are there, what its rows will hold it
\* will have stored when it commits, it stores nothing else, and what it purges
\* nobody keeps.
Bytes ==
    /\ At("stage") => \A s \in op.todo : s[1] = op.doc
    /\ Busy => \A s \in op.staged : s[1] = op.doc
    /\ At("capture") /\ op.kind # "delete" => op.todo \subseteq Unstored(op)
    /\ Busy => \A s \in op.staged : s[2] \in stored[s[1]]
    /\ At("capture") /\ op.kind # "delete" =>
        \A s \in Unstored(op) : s \in op.todo \/ s[2] \in stored[s[1]]
    /\ At("purge") => \A s \in op.todo : s[2] \notin Kept(s[1])

\* Where removed bytes are still stored, somebody will see to them, or the
\* write that stored them again is about to keep them.
SeenTo(i, x) ==
    \/ Busy /\ <<i, x>> \in op.staged
    \/ At("capture") /\ op.kind # "delete" /\ <<i, x>> \in Unstored(op)
    \/ At("settle") /\ op.kind \in {"redaction", "delete"} /\ i = op.doc
    \/ At("purge") /\ <<i, x>> \in op.todo

Gone ==
    mode = "serving" => \A i \in Ids \ owed : \A x \in stored[i] \cap Removed(i) : SeenTo(i, x)

-----------------------------------------------------------------------------

\* The rows with a version more, and as a write leaves them.
Added(s, x) == Append(s, NewVersion(x))
Marked(s, o) ==
    [k \in DOMAIN s |-> [s[k] EXCEPT !.removed = @ \/ (o.kind = "redaction" /\ s[k].content # o.content)]]

\* A new version ends a document's rows, and adds its bytes to the kept ones.
LEMMA NewVersionRows ==
    ASSUME NEW s \in Seq(Version), NEW x \in Contents
    PROVE  /\ Added(s, x) \in Seq(Version) /\ Added(s, x) # <<>> /\ EndsKept(Added(s, x))
           /\ Added(s, x)[Len(Added(s, x))].content = x
           /\ HeldIn(Added(s, x)) = HeldIn(s) \cup {x}
           /\ KeptIn(Added(s, x)) = KeptIn(s) \cup {x}
<1> DEFINE t == Added(s, x)
<1>1. NewVersion(x) \in Version /\ NewVersion(x).content = x /\ NewVersion(x).removed = FALSE
  BY DEF NewVersion, Version
<1>2. t \in Seq(Version) /\ t # <<>> /\ Len(t) = Len(s) + 1 /\ t[Len(t)] = NewVersion(x)
  BY <1>1, AppendProperties DEF Added
<1>3. \A k \in DOMAIN s : k \in DOMAIN t /\ t[k] = s[k]
  BY <1>1, <1>2, AppendProperties, LenProperties DEF Added
<1>4. \A k \in DOMAIN t : k \in DOMAIN s \/ k = Len(t)
  BY <1>1, <1>2, AppendProperties, LenProperties DEF Added
<1>5. Len(t) \in DOMAIN t
  BY <1>2, LenProperties
<1>6. EndsKept(t) /\ t[Len(t)].content = x
  BY <1>1, <1>2 DEF EndsKept
<1>7. HeldIn(t) = HeldIn(s) \cup {x}
  BY <1>1, <1>2, <1>3, <1>4, <1>5 DEF HeldIn
<1>8. KeptIn(t) = KeptIn(s) \cup {x}
  BY <1>1, <1>2, <1>3, <1>4, <1>5 DEF KeptIn
<1> QED
  BY <1>2, <1>6, <1>7, <1>8

\* The current version of a document is one of its kept ones.
LEMMA CurrentIsKept ==
    ASSUME NEW s \in Seq(Version), EndsKept(s), s # <<>>
    PROVE  s[Len(s)].content \in KeptIn(s) /\ s[Len(s)].content \in Contents
<1>1. Len(s) \in DOMAIN s /\ ~s[Len(s)].removed
  BY LenProperties, EmptySeq DEF EndsKept
<1>2. s[Len(s)] \in Version
  BY <1>1, LenProperties
<1> QED
  BY <1>1, <1>2 DEF KeptIn, Version

\* A redaction leaves the versions of one content, and of any other write all.
LEMMA MarkedRows ==
    ASSUME NEW s \in Seq(Version), NEW o
    PROVE  /\ Marked(s, o) \in Seq(Version) /\ Len(Marked(s, o)) = Len(s)
           /\ s # <<>> => Marked(s, o) # <<>>
           /\ HeldIn(Marked(s, o)) = HeldIn(s)
           /\ o.kind # "redaction" => KeptIn(Marked(s, o)) = KeptIn(s)
           /\ o.kind = "redaction" => KeptIn(Marked(s, o)) = KeptIn(s) \cap {o.content}
           /\ s # <<>> /\ EndsKept(s) /\ s[Len(s)].content = o.content => EndsKept(Marked(s, o))
<1> DEFINE t == Marked(s, o)
<1>1. Len(s) \in Nat /\ DOMAIN s = 1 .. Len(s) /\ \A k \in DOMAIN s : s[k] \in Version
  BY LenProperties
<1>2. \A k \in DOMAIN s :
        /\ t[k] \in Version
        /\ t[k].content = s[k].content
        /\ t[k].removed = (s[k].removed \/ (o.kind = "redaction" /\ s[k].content # o.content))
  BY <1>1 DEF Version, Marked
<1>3. t \in [1 .. Len(s) -> Version]
  BY <1>1, <1>2 DEF Marked
<1>4. t \in Seq(Version) /\ Len(t) = Len(s) /\ DOMAIN t = DOMAIN s
  BY <1>1, <1>3 DEF Marked
<1> HIDE DEF t
<1>5. s # <<>> => t # <<>>
  BY <1>4, EmptySeq
<1>6. HeldIn(t) = HeldIn(s)
  BY <1>2, <1>4 DEF HeldIn
<1>7. o.kind # "redaction" => KeptIn(t) = KeptIn(s)
  <2>1. o.kind # "redaction" => \A k \in DOMAIN s : t[k].removed = s[k].removed
    BY <1>1, <1>2 DEF Version
  <2>2. o.kind # "redaction" => {k \in DOMAIN t : ~t[k].removed} = {k \in DOMAIN s : ~s[k].removed}
    BY <2>1, <1>4
  <2> QED
    BY <2>2, <1>2, <1>4 DEF KeptIn
<1>8. o.kind = "redaction" => KeptIn(t) = KeptIn(s) \cap {o.content}
  <2> SUFFICES ASSUME o.kind = "redaction"
               PROVE  KeptIn(t) = KeptIn(s) \cap {o.content}
    OBVIOUS
  <2>1. \A k \in DOMAIN s : ~t[k].removed <=> ~s[k].removed /\ s[k].content = o.content
    BY <1>1, <1>2 DEF Version
  <2>2. ASSUME NEW x
        PROVE  x \in KeptIn(t) <=> x \in KeptIn(s) /\ x = o.content
    <3>1. x \in KeptIn(t) <=> \E k \in DOMAIN t : ~t[k].removed /\ t[k].content = x
      BY DEF KeptIn
    <3>2. x \in KeptIn(s) <=> \E k \in DOMAIN s : ~s[k].removed /\ s[k].content = x
      BY DEF KeptIn
    <3> QED
      BY <3>1, <3>2, <2>1, <1>2, <1>4, Zenon
  <2> QED
    BY <2>2
<1>9. s # <<>> /\ EndsKept(s) /\ s[Len(s)].content = o.content => EndsKept(t)
  <2>1. s # <<>> => Len(s) \in DOMAIN s
    BY <1>1, EmptySeq
  <2> QED
    BY <2>1, <1>2, <1>4 DEF EndsKept
<1> QED
  BY <1>4, <1>5, <1>6, <1>7, <1>8, <1>9 DEF t

\* What a capture makes of a document's rows: its content is kept and current;
\* a redaction keeps nothing else; of any other write all that was kept is, and
\* what the write replaced, and no other content is added.
LEMMA CapturedRows ==
    ASSUME NEW o, o.kind \in Kinds, o.content \in Contents, o.prior \in Contents \cup {Absent},
           rows[o.doc] \in Seq(Version), EndsKept(rows[o.doc])
    PROVE  /\ Captured(o) \in Seq(Version) /\ Captured(o) # <<>> /\ EndsKept(Captured(o))
           /\ o.kind = "redaction" =>
                /\ KeptIn(Captured(o)) = {o.content}
                /\ HeldIn(Captured(o)) = HeldIn(rows[o.doc]) \cup {o.content}
           /\ o.kind # "redaction" =>
                /\ KeptIn(rows[o.doc]) \subseteq KeptIn(Captured(o))
                /\ o.content \in KeptIn(Captured(o))
                /\ o.prior # Absent => o.prior \in KeptIn(Captured(o))
                /\ NewPrior(o) => o.prior \in Contents
                /\ KeptIn(Captured(o)) \subseteq KeptIn(rows[o.doc])
                      \cup {o.content} \cup (IF NewPrior(o) THEN {o.prior} ELSE {})
                /\ HeldIn(Captured(o)) \subseteq HeldIn(rows[o.doc])
                      \cup {o.content} \cup (IF NewPrior(o) THEN {o.prior} ELSE {})
<1> DEFINE some == IF NewPrior(o) THEN Added(rows[o.doc], o.prior) ELSE rows[o.doc]
           all == IF NewContent(o) THEN Added(some, o.content) ELSE some
           added == {o.content} \cup (IF NewPrior(o) THEN {o.prior} ELSE {})
<1>1. Absent \notin Contents
  BY AbsentAssumption
<1>2. rows[o.doc] # <<>> =>
        Current(o.doc) = rows[o.doc][Len(rows[o.doc])].content /\ Current(o.doc) \in KeptIn(rows[o.doc])
  BY CurrentIsKept DEF Current
<1>3. rows[o.doc] = <<>> => Current(o.doc) = Absent
  BY DEF Current
<1>4. NewPrior(o) =>
        /\ o.kind # "redaction" /\ o.prior \in Contents /\ o.prior # o.content
        /\ o.prior # Absent /\ o.prior # Current(o.doc)
  BY DEF NewPrior
<1>5. ~NewPrior(o) /\ o.kind # "redaction" => o.prior \in {Absent, Current(o.doc), o.content}
  BY DEF NewPrior
<1>6. /\ some \in Seq(Version) /\ EndsKept(some)
      /\ HeldIn(some) = HeldIn(rows[o.doc]) \cup (IF NewPrior(o) THEN {o.prior} ELSE {})
      /\ KeptIn(some) = KeptIn(rows[o.doc]) \cup (IF NewPrior(o) THEN {o.prior} ELSE {})
  <2>1. CASE NewPrior(o)
    <3>1. some = Added(rows[o.doc], o.prior)
      BY <2>1
    <3> HIDE DEF some
    <3> QED
      BY <3>1, <2>1, <1>4, NewVersionRows
  <2>2. CASE ~NewPrior(o)
    BY <2>2
  <2> QED
    BY <2>1, <2>2
<1>7. ~NewContent(o) => some # <<>> /\ some[Len(some)].content = o.content /\ ~NewPrior(o)
  <2> SUFFICES ASSUME ~NewContent(o)
               PROVE  some # <<>> /\ some[Len(some)].content = o.content /\ ~NewPrior(o)
    OBVIOUS
  <2>1. ~NewPrior(o) /\ o.content = Current(o.doc)
    BY <1>4 DEF NewContent
  <2>2. some = rows[o.doc] /\ some # <<>>
    BY <2>1, <1>1, <1>3
  <2> QED
    BY <2>1, <2>2, <1>2
<1>8. /\ all \in Seq(Version) /\ all # <<>> /\ EndsKept(all) /\ all[Len(all)].content = o.content
      /\ HeldIn(all) = HeldIn(some) \cup {o.content}
      /\ KeptIn(all) = KeptIn(some) \cup {o.content}
  <2> HIDE DEF some
  <2>1. CASE NewContent(o)
    <3>1. all = Added(some, o.content)
      BY <2>1
    <3> HIDE DEF all
    <3> QED
      BY <3>1, <1>6, NewVersionRows
  <2>2. CASE ~NewContent(o)
    <3>1. o.content \in KeptIn(some)
      BY <2>2, <1>6, <1>7, CurrentIsKept
    <3>2. KeptIn(some) \subseteq HeldIn(some)
      BY DEF KeptIn, HeldIn
    <3> QED
      BY <2>2, <3>1, <3>2, <1>6, <1>7
  <2> QED
    BY <2>1, <2>2
<1>9. Captured(o) = Marked(all, o)
  BY DEF Captured, Marked, Added
<1>10. /\ Captured(o) \in Seq(Version) /\ Captured(o) # <<>> /\ EndsKept(Captured(o))
       /\ HeldIn(Captured(o)) = HeldIn(all)
       /\ o.kind # "redaction" => KeptIn(Captured(o)) = KeptIn(all)
       /\ o.kind = "redaction" => KeptIn(Captured(o)) = KeptIn(all) \cap {o.content}
  <2> HIDE DEF all, some
  <2>1. all \in Seq(Version) /\ all # <<>> /\ EndsKept(all) /\ all[Len(all)].content = o.content
    BY <1>8
  <2>2. /\ Marked(all, o) \in Seq(Version) /\ Marked(all, o) # <<>> /\ EndsKept(Marked(all, o))
        /\ HeldIn(Marked(all, o)) = HeldIn(all)
        /\ o.kind # "redaction" => KeptIn(Marked(all, o)) = KeptIn(all)
        /\ o.kind = "redaction" => KeptIn(Marked(all, o)) = KeptIn(all) \cap {o.content}
    BY <2>1, MarkedRows
  <2> QED
    BY <1>9, <2>2
<1>11. o.kind # "redaction" /\ o.prior # Absent => o.prior \in KeptIn(all)
  <2> HIDE DEF some, all
  <2>1. CASE NewPrior(o)
    BY <2>1, <1>6, <1>8
  <2>2. CASE ~NewPrior(o) /\ o.kind # "redaction" /\ o.prior # Absent
    BY <2>2, <1>2, <1>3, <1>5, <1>6, <1>8
  <2> QED
    BY <2>1, <2>2
<1> HIDE DEF some, all
<1> QED
  BY <1>4, <1>6, <1>8, <1>10, <1>11

-----------------------------------------------------------------------------

Types == TypeOK /\ Working

\* At first nothing is versioned, and nothing under way.
LEMMA TypesInit == Init => Types
<1> SUFFICES ASSUME Init PROVE Types
  OBVIOUS
<1> USE AbsentAssumption, BoundsAssumption
<1>1. op \in Operation /\ At("idle")
  BY DEF Init, Idle, Operation, Kinds, At
<1>2. \A n \in Names : Live(n) = {}
  BY DEF Init, Live
<1>3. rows \in [Ids -> Seq(Version)] /\ \A i \in Ids : rows[i] = <<>>
  BY EmptySeq DEF Init
<1>4. TypeOK
  BY <1>1, <1>2, <1>3 DEF Init, TypeOK
<1>5. Working
  BY <1>1, <1>3 DEF Init, Working, Busy, Writes, Deletes, At, EndsKept
<1> QED
  BY <1>4, <1>5 DEF Types

\* While the documents and their rows stay as they are, so does what was looked up.
LEMMA SameDocuments ==
    ASSUME docs' = docs, rows' = rows
    PROVE  /\ \A i, n : Looked(i, n)' <=> Looked(i, n)
           /\ \A n : Live(n)' = Live(n)
           /\ \A i : Kept(i)' = Kept(i)
           /\ \A i : Removed(i)' = Removed(i)
           /\ \A i : Current(i)' = Current(i)
<1>1. \A n : Live(n)' = Live(n)
  BY DEF Live
<1>2. \A i : Kept(i)' = Kept(i)
  BY DEF Kept, IsLive
<1> QED
  BY <1>1, <1>2 DEF Looked, Removed, Current

\* The types of steps that leave documents and rows alone.
LEMMA TypesOfSame ==
    ASSUME Types, docs' = docs, rows' = rows,
           file' \in [Names -> Contents \cup {Absent}],
           registered' = registered,
           stored' \in [Ids -> SUBSET Contents],
           journal' \in Journal \cup {Absent},
           mode' \in {"down", "starting", "serving"},
           op' \in Operation,
           owed' \subseteq Ids,
           written' = written,
           budget' \in [writes : 0 .. MaxWrites, troubles : 0 .. MaxTroubles]
    PROVE  TypeOK'
<1>1. \A n : Live(n)' = Live(n)
  BY SameDocuments
<1> QED
  BY <1>1 DEF Types, TypeOK

\* An operation that ends has nothing in hand.
LEMMA WorkingWhenDone ==
    ASSUME Types, docs' = docs, rows' = rows,
           op'.pc \in {"idle", "settle", "purge"},
           mode' # "serving" => op'.pc = "idle"
    PROVE  Working'
BY DEF Types, Working, Busy, Writes, Deletes, At, EndsKept

\* The journal of a new operation is one that RollsBack undoes to the bytes of now.
LEMMA JournalOfNew ==
    ASSUME Types, NEW n \in Names
    PROVE  Journalled(n) \in Journal /\ Journalled(n) # Absent
<1>1. Journalled(n) \in Journal
  BY DEF Journalled, Journal
<1> QED
  BY <1>1, AbsentAssumption

-----------------------------------------------------------------------------

\* A write looks its document up, and stages.
LEMMA TypesBegin ==
    ASSUME Types, NEW kind \in Kinds \ {"delete"}, NEW n \in Names, NEW c \in Contents,
           NEW i \in Ids, NEW from \in Names \cup {Absent}, Begin(kind, n, c, from, i)
    PROVE  Types'
<1> USE AbsentAssumption, BoundsAssumption
<1>1. op' = [Idle EXCEPT !.pc = "stage", !.kind = kind, !.name = n, !.content = c,
                         !.doc = i, !.from = from, !.todo = ToStage(kind, n, c, i)]
  BY DEF Begin
<1>2. ToStage(kind, n, c, i) \subseteq Ids \X Contents
  BY DEF ToStage, Types, TypeOK
<1>3. op' \in Operation
  BY <1>1, <1>2 DEF Idle, Operation, Kinds
<1>4. /\ op'.pc = "stage" /\ op'.kind = kind /\ op'.name = n /\ op'.content = c /\ op'.doc = i
      /\ op'.from = from /\ op'.source = Absent /\ op'.found = Absent
      /\ journal' = Journalled(n)
  BY <1>1 DEF Begin, Idle
<1>5. TypeOK'
  <2>1. budget' \in [writes : 0 .. MaxWrites, troubles : 0 .. MaxTroubles]
    BY SMTT(30) DEF Begin, Types, TypeOK
  <2>2. /\ docs' = docs /\ rows' = rows /\ file' = file /\ registered' = registered /\ stored' = stored
        /\ mode' = mode /\ owed' = owed /\ written' = written
    BY DEF Begin, history
  <2> QED
    BY <1>3, <1>4, <2>1, <2>2, TypesOfSame, JournalOfNew DEF Types, TypeOK
<1>6. Looked(i, n)'
  <2>1. Looked(i, n)
    BY DEF Begin, IsDocumentOf, Looked
  <2> QED
    BY <2>1, SameDocuments DEF Begin
<1>7. from \in (Names \ {n}) \cup {Absent}
  BY DEF Begin, May, Types, TypeOK
<1>8. Working'
  BY <1>4, <1>6, <1>7, JournalOfNew DEF Begin, Types, Working, Busy, Writes, Deletes, At, EndsKept
<1> QED
  BY <1>5, <1>8 DEF Types

\* A delete looks it up.
LEMMA TypesBeginDelete ==
    ASSUME Types, NEW n \in Names, BeginDelete(n)
    PROVE  Types'
<1> USE AbsentAssumption, BoundsAssumption
<1>1. PICK i \in Ids \cup {Absent} :
        /\ op' = [Idle EXCEPT !.pc = "stage", !.kind = "delete", !.name = n, !.doc = i]
        /\ Live(n) = {} \/ i \in Live(n)
  BY DEF BeginDelete, Live
<1>2. op' \in Operation
  BY <1>1 DEF Idle, Operation, Kinds
<1>3. /\ op'.pc = "stage" /\ op'.kind = "delete" /\ op'.name = n /\ op'.doc = i /\ op'.content = Absent
      /\ op'.from = Absent /\ op'.todo = {} /\ op'.staged = {}
  BY <1>1 DEF Idle
<1>4. TypeOK'
  <2>1. budget' \in [writes : 0 .. MaxWrites, troubles : 0 .. MaxTroubles]
    BY SMTT(30) DEF BeginDelete, Types, TypeOK
  <2>2. journal' \in Journal
    BY JournalOfNew DEF BeginDelete
  <2>3. /\ docs' = docs /\ rows' = rows /\ file' = file /\ registered' = registered /\ stored' = stored
        /\ mode' = mode /\ owed' = owed /\ written' = written
    BY DEF BeginDelete, history
  <2> QED
    BY <1>2, <2>1, <2>2, <2>3, TypesOfSame DEF Types, TypeOK
<1>5. Live(n)' \subseteq {i}
  <2>1. Live(n) \subseteq {i}
    <3>1. \A d, e \in Live(n) : d = e
      BY DEF Types, TypeOK
    <3> QED
      BY <1>1, <3>1
  <2> QED
    BY <2>1, SameDocuments DEF BeginDelete
<1>6. Working'
  BY <1>3, <1>5, JournalOfNew DEF BeginDelete, Types, Working, Busy, Writes, Deletes, At, EndsKept
<1> QED
  BY <1>4, <1>6 DEF Types

\* Bytes are stored.
LEMMA TypesStore ==
    ASSUME Types, NEW i \in Ids, NEW x \in Contents, Store(i, x)
    PROVE  Types'
<1>0. PICK placed : placed = IF At("stage") THEN op.staged \cup {<<i, x>>} ELSE op.staged
  OBVIOUS
<1>1. /\ op' = [op EXCEPT !.todo = @ \ {<<i, x>>}, !.staged = placed]
      /\ op \in Operation /\ <<i, x>> \in op.todo
  BY <1>0 DEF Store, Types, TypeOK
<1>2. op' \in Operation
  <2>1. op.staged \in SUBSET (Ids \X Contents) /\ op.todo \in SUBSET (Ids \X Contents)
    BY <1>1 DEF Operation
  <2>2. placed \in SUBSET (Ids \X Contents) /\ op.todo \ {<<i, x>>} \in SUBSET (Ids \X Contents)
    BY <1>0, <2>1
  <2> QED
    BY <1>1, <2>2, ZenonT(60) DEF Operation
<1>3. /\ op'.pc = op.pc /\ op'.kind = op.kind /\ op'.name = op.name /\ op'.content = op.content
      /\ op'.doc = op.doc /\ op'.from = op.from /\ op'.source = op.source /\ op'.found = op.found
  BY <1>1 DEF Operation
<1>4. TypeOK'
  BY <1>2, TypesOfSame DEF Store, durable, history, Types, TypeOK
<1>5. Writes /\ ~Deletes
  BY <1>1 DEF Store, Types, Working, Busy, Writes, Deletes, At
<1>6. /\ \A d, n : Looked(d, n)' <=> Looked(d, n)
      /\ Writes' /\ ~Deletes'
  BY <1>3, <1>5, SameDocuments DEF Store, Busy, Writes, Deletes, At
<1>7. Working'
  BY <1>3, <1>5, <1>6 DEF Store, Types, Working, Busy, At, EndsKept
<1> QED
  BY <1>4, <1>7 DEF Types

\* A step on, with the bytes of the working file looked at or put aside.
LEMMA TypesLookPark ==
    ASSUME Types, Look \/ Park
    PROVE  Types'
<1>1. op \in Operation /\ op.name \in Names /\ Busy /\ op.todo = {} /\ ~At("capture") /\ ~At("place")
  BY DEF Look, Park, Types, TypeOK, Working, Busy, Writes, Deletes, At
<1>2. PICK pc \in {"park", "place", "capture"} :
        op' = [op EXCEPT !.pc = pc] /\ (pc = "place" => op.kind # "delete") /\ (pc = "capture" => op.kind = "delete")
  BY DEF Look, Park, AfterParking
<1>3. /\ op' \in Operation /\ op'.pc = pc /\ op'.kind = op.kind /\ op'.name = op.name
      /\ op'.content = op.content /\ op'.doc = op.doc /\ op'.from = op.from /\ op'.source = op.source
      /\ op'.found = op.found /\ op'.todo = op.todo /\ op'.staged = op.staged
  BY <1>1, <1>2 DEF Operation
<1>4. journal' \in Journal /\ journal' # Absent
  <2>1. journal \in Journal /\ journal # Absent /\ file[op.name] \in Contents \cup {Absent}
    BY <1>1 DEF Types, TypeOK, Working
  <2> QED
    BY <2>1, AbsentAssumption DEF Look, Park, durable, Journal
<1>5. /\ file' \in [Names -> Contents \cup {Absent}]
      /\ docs' = docs /\ rows' = rows /\ registered' = registered /\ stored' = stored
      /\ mode' = mode /\ owed' = owed /\ written' = written /\ budget' = budget
  BY DEF Look, Park, durable, history, Types, TypeOK
<1>6. TypeOK'
  BY <1>3, <1>4, <1>5, TypesOfSame DEF Types, TypeOK
<1>7. /\ \A d, n : Looked(d, n)' <=> Looked(d, n)
      /\ \A n : Live(n)' = Live(n)
  BY <1>5, SameDocuments
<1>8. Deletes' => /\ op'.name \in Names /\ op'.content = Absent /\ op'.from = Absent
                  /\ op'.todo = {} /\ op'.staged = {}
                  /\ (Live(op.name) \subseteq {op.doc})'
  <2>1. Deletes' => /\ Deletes
    BY <1>1, <1>3 DEF Deletes
  <2>2. Live(op.name)' = Live(op.name) /\ op'.doc = op.doc
    BY <1>3, <1>5 DEF Live
  <2> QED
    BY <1>1, <1>3, <2>1, <2>2 DEF Types, Working
<1>9. Writes' =>
        /\ op.doc \in Ids /\ op.content \in Contents /\ Looked(op.doc, op.name)
        /\ op.from \in (Names \ {op.name}) \cup {Absent}
        /\ op.source = Absent /\ op.found = Absent
  BY <1>1, <1>3 DEF Types, Working, Writes
<1>10. Looked(op.doc, op.name) => Looked(op.doc, op.name)'
  BY <1>3, <1>5 DEF Looked, Live
<1>11. mode = "serving"
  BY <1>1 DEF Types, Working, Busy, At
<1>12. /\ \A i \in Ids : EndsKept(rows'[i])
       /\ mode' = "serving" /\ journal' # Absent /\ op'.todo = {}
       /\ At("place")' => op'.kind # "delete"
       /\ At("capture")' => op'.kind = "delete"
  BY <1>1, <1>2, <1>3, <1>4, <1>5, <1>11 DEF Types, Working, At
<1>13. Working'
  BY <1>1, <1>3, <1>8, <1>9, <1>10, <1>12 DEF Working, Writes, EndsKept
<1> QED
  BY <1>6, <1>13 DEF Types

\* The file is put in place.
LEMMA TypesPlace ==
    ASSUME Types, NEW j \in Ids \cup {Absent}, Place(j)
    PROVE  Types'
<1> DEFINE o == [op EXCEPT !.pc = "capture", !.prior = journal.backup, !.source = j,
                           !.found = IF op.from = Absent THEN Absent ELSE file[op.from]]
<1> USE AbsentAssumption
<1>1. /\ op \in Operation /\ At("place") /\ op.kind # "delete" /\ Busy /\ mode = "serving"
      /\ op.name \in Names /\ op.doc \in Ids /\ op.content \in Contents
      /\ op.from \in (Names \ {op.name}) \cup {Absent}
      /\ Looked(op.doc, op.name)
      /\ journal \in Journal /\ journal # Absent
  BY DEF Place, Types, TypeOK, Working, Busy, Writes, At
<1>2. journal.backup \in Contents \cup {Absent} /\ (op.from # Absent => file[op.from] \in Contents \cup {Absent})
  BY <1>1 DEF Types, TypeOK, Journal
<1>3. o \in Operation
  <2> DEFINE p == journal.backup
             f == IF op.from = Absent THEN Absent ELSE file[op.from]
  <2>1. p \in Contents \cup {Absent} /\ f \in Contents \cup {Absent}
    BY <1>2
  <2> HIDE DEF p, f
  <2>2. [op EXCEPT !.pc = "capture", !.prior = p, !.source = j, !.found = f] \in Operation
    BY <1>1, <2>1 DEF Operation
  <2> QED
    BY <2>2 DEF p, f
<1>4. /\ o.kind = op.kind /\ o.doc = op.doc /\ o.content = op.content /\ o.prior = journal.backup
      /\ o.source = j /\ o.found = IF op.from = Absent THEN Absent ELSE file[op.from]
      /\ o.name = op.name /\ o.from = op.from /\ o.pc = "capture" /\ o.staged = op.staged
  BY <1>1 DEF Operation
<1>5. op' = [o EXCEPT !.todo = Unstored(o)]
  BY DEF Place
<1>6. /\ op.from = Absent => j = Absent
      /\ op.from # Absent => j \in Ids \ {op.doc} /\ Looked(j, op.from)
  BY <1>1 DEF Place, IsDocumentOf, Looked
<1> HIDE DEF o
<1>7. Unstored(o) \subseteq Ids \X Contents
  <2>1. o.doc \in Ids /\ o.content \in Contents
    BY <1>1, <1>4
  <2>2. NewPrior(o) => o.prior \in Contents
    BY <1>2, <1>4 DEF NewPrior
  <2>3. NewFound(o) => o.source \in Ids /\ o.found \in Contents
    BY <1>2, <1>4, <1>6 DEF NewFound
  <2> QED
    BY <2>1, <2>2, <2>3 DEF Unstored
<1>8. op' \in Operation
  BY <1>3, <1>5, <1>7 DEF Operation
<1>9. /\ op'.kind = op.kind /\ op'.doc = op.doc /\ op'.content = op.content
      /\ op'.source = j /\ op'.found = IF op.from = Absent THEN Absent ELSE file[op.from]
      /\ op'.name = op.name /\ op'.from = op.from /\ op'.pc = "capture" /\ op'.staged = op.staged
  BY <1>3, <1>4, <1>5 DEF Operation
<1>10. file' \in [Names -> Contents \cup {Absent}]
  BY <1>1 DEF Place, Types, TypeOK
<1>11. TypeOK'
  BY <1>8, <1>10, TypesOfSame DEF Place, history, Types, TypeOK
<1>12. /\ \A d, n : Looked(d, n)' <=> Looked(d, n)
       /\ mode' = mode /\ rows' = rows /\ journal' = journal
  BY SameDocuments DEF Place
<1>13. Looked(op.doc, op.name)' /\ (op.from # Absent => Looked(op.source, op.from)')
  <2>1. docs' = docs
    BY DEF Place
  <2>2. Looked(op.doc, op.name)'
    BY <2>1, <1>1, <1>9 DEF Looked, Live
  <2>3. op.from # Absent => Looked(op.source, op.from)'
    BY <2>1, <1>6, <1>9 DEF Looked, Live
  <2> QED
    BY <2>2, <2>3
<1>14. Working'
  BY <1>1, <1>6, <1>9, <1>12, <1>13 DEF Types, Working, Busy, Writes, Deletes, At, EndsKept
<1> QED
  BY <1>11, <1>14 DEF Types

\* What a write has in hand when it commits: its document, and if the file it
\* is made from still was there, the document of that.
LEMMA AtCommit ==
    ASSUME Types, CommitWrite
    PROVE  /\ At("capture") /\ op.kind # "delete" /\ op.kind \in Kinds /\ mode = "serving"
           /\ op.doc \in Ids /\ op.name \in Names /\ op.content \in Contents
           /\ op.prior \in Contents \cup {Absent}
           /\ Looked(op.doc, op.name) /\ op.from \in (Names \ {op.name}) \cup {Absent}
           /\ op.found # Absent =>
                /\ op.found \in Contents /\ op.from \in Names \ {op.name}
                /\ op.source \in Ids \ {op.doc} /\ Looked(op.source, op.from)
           /\ NewFound(op) => op.found # Absent
<1> USE AbsentAssumption
<1>1. At("capture") /\ op.kind # "delete" /\ op \in Operation
  BY DEF CommitWrite, Types, TypeOK
<1>2. op.kind \in Kinds /\ op.prior \in Contents \cup {Absent} /\ op.found \in Contents \cup {Absent}
  BY <1>1 DEF Operation
<1>3. mode = "serving" /\ Writes
  BY <1>1 DEF Types, Working, At, Busy, Writes
<1>4. op.found # Absent => op.from # Absent
  BY <1>1, <1>3 DEF Types, Working
<1> QED
  BY <1>1, <1>2, <1>3, <1>4 DEF Types, Working, NewFound

\* The rows of a write.
LEMMA RowsAtCommit ==
    ASSUME Types, CommitWrite, NEW d \in Ids
    PROVE  /\ rows[d] \in Seq(Version) /\ EndsKept(rows[d])
           /\ rows'[d] \in Seq(Version) /\ EndsKept(rows'[d])
           /\ d = op.doc => rows'[d] = Captured(op)
           /\ d # op.doc => rows'[d] = IF d = op.source /\ NewFound(op)
                                      THEN Added(rows[d], op.found) ELSE rows[d]
           /\ docs'[d] = IF d = op.doc THEN [name |-> op.name, removed |-> FALSE]
                         ELSE IF d = op.source /\ op.found # Absent
                              THEN [name |-> op.from, removed |-> FALSE] ELSE docs[d]
<1>1. rows[d] \in Seq(Version) /\ EndsKept(rows[d])
  BY DEF Types, TypeOK, Working
<1>2. /\ d = op.doc => rows'[d] = Captured(op)
      /\ d # op.doc => rows'[d] = IF d = op.source /\ NewFound(op)
                                 THEN Added(rows[d], op.found) ELSE rows[d]
      /\ docs'[d] = IF d = op.doc THEN [name |-> op.name, removed |-> FALSE]
                    ELSE IF d = op.source /\ op.found # Absent
                         THEN [name |-> op.from, removed |-> FALSE] ELSE docs[d]
  BY DEF CommitWrite, Added
<1>3. rows'[d] \in Seq(Version) /\ EndsKept(rows'[d])
  <2>1. CASE d = op.doc
    <3>1. /\ op.kind \in Kinds /\ op.content \in Contents /\ op.prior \in Contents \cup {Absent}
          /\ rows[op.doc] \in Seq(Version) /\ EndsKept(rows[op.doc])
      BY <2>1, <1>1, AtCommit
    <3>2. Captured(op) \in Seq(Version) /\ EndsKept(Captured(op))
      BY <3>1, CapturedRows
    <3> QED
      BY <2>1, <3>2, <1>2
  <2>2. CASE d # op.doc /\ d = op.source /\ NewFound(op)
    <3>1. rows'[d] = Added(rows[d], op.found) /\ op.found \in Contents
      BY <2>2, <1>2, AtCommit
    <3>2. Added(rows[d], op.found) \in Seq(Version) /\ EndsKept(Added(rows[d], op.found))
      BY <3>1, <1>1, NewVersionRows
    <3> QED
      BY <3>1, <3>2
  <2>3. CASE d # op.doc /\ ~(d = op.source /\ NewFound(op))
    BY <2>3, <1>1, <1>2
  <2> QED
    BY <2>1, <2>2, <2>3
<1> QED
  BY <1>1, <1>2, <1>3

\* A write commits.
LEMMA TypesCommitWrite ==
    ASSUME Types, CommitWrite
    PROVE  Types'
<1> USE AbsentAssumption
<1>1. /\ rows' \in [Ids -> Seq(Version)]
      /\ \A d \in Ids : EndsKept(rows'[d])
  <2>1. rows' = [d \in Ids |-> rows'[d]]
    BY DEF CommitWrite
  <2> QED
    BY <2>1, RowsAtCommit
<1>2. docs' \in [Ids -> Document \cup {Absent}]
  <2>1. docs' = [d \in Ids |-> docs'[d]]
    BY DEF CommitWrite
  <2>2. \A d \in Ids : docs[d] \in Document \cup {Absent}
    BY DEF Types, TypeOK
  <2>3. [name |-> op.name, removed |-> FALSE] \in Document
    BY AtCommit DEF Document
  <2>4. op.found # Absent => [name |-> op.from, removed |-> FALSE] \in Document
    BY AtCommit DEF Document
  <2>5. \A d \in Ids : docs'[d] \in Document \cup {Absent}
    BY <2>2, <2>3, <2>4, RowsAtCommit
  <2> QED
    BY <2>1, <2>5
<1>3. ASSUME NEW d \in Ids, docs'[d] = Absent
      PROVE  rows'[d] = <<>>
  <2>1. [name |-> op.name, removed |-> FALSE] \in Document
    BY AtCommit DEF Document
  <2>2. op.found # Absent => [name |-> op.from, removed |-> FALSE] \in Document
    BY AtCommit DEF Document
  <2>3. d # op.doc /\ ~(d = op.source /\ op.found # Absent) /\ docs[d] = Absent
    BY <1>3, <2>1, <2>2, RowsAtCommit
  <2>4. rows'[d] = rows[d]
    BY <2>3, AtCommit, RowsAtCommit
  <2> QED
    BY <2>3, <2>4 DEF Types, TypeOK
<1>4. ASSUME NEW n \in Names, NEW d \in Live(n)', NEW e \in Live(n)'
      PROVE  d = e
  <2>1. \A f \in Live(n) : \A g \in Live(n) : f = g
    BY DEF Types, TypeOK
  <2>2. ASSUME NEW f \in Live(n)'
        PROVE  /\ f \in Ids
               /\ f = op.doc => n = op.name
               /\ f # op.doc /\ f = op.source /\ op.found # Absent => n = op.from
               /\ f # op.doc /\ ~(f = op.source /\ op.found # Absent) => f \in Live(n)
    <3>1. f \in Ids /\ docs'[f] # Absent /\ docs'[f].name = n /\ ~docs'[f].removed
      BY DEF Live
    <3> QED
      BY <3>1, RowsAtCommit DEF Live
  <2>3. CASE n = op.name
    <3>1. \A f \in Live(n) : f = op.doc
      BY <2>1, <2>3, AtCommit DEF Looked
    <3>2. \A f \in Live(n)' : f = op.doc
      BY <2>2, <2>3, <3>1, AtCommit
    <3> QED
      BY <3>2
  <2>4. CASE op.found # Absent /\ n = op.from
    <3>1. \A f \in Live(n) : f = op.source
      BY <2>1, <2>4, AtCommit DEF Looked
    <3>2. \A f \in Live(n)' : f = op.source
      BY <2>2, <2>4, <3>1, AtCommit
    <3> QED
      BY <3>2
  <2>5. CASE n # op.name /\ ~(op.found # Absent /\ n = op.from)
    BY <2>1, <2>2, <2>5
  <2> QED
    BY <2>3, <2>4, <2>5
<1>5. written' \subseteq Ids \X Contents
  <2>1. op.kind = "redaction" => written' \subseteq Ids \X Contents
    BY AtCommit DEF CommitWrite, Types, TypeOK
  <2>2. Promised(op) \subseteq Ids \X Contents
    BY AtCommit DEF Promised
  <2>3. op.kind # "redaction" => written' \subseteq Ids \X Contents
    BY <2>2 DEF CommitWrite, Types, TypeOK
  <2> QED
    BY <2>1, <2>3
<1>6. op' \in Operation /\ op'.pc = "settle"
  BY DEF CommitWrite, Operation, Types, TypeOK
<1>7. owed' \subseteq Ids /\ registered' \subseteq Names
  BY AtCommit DEF CommitWrite, Types, TypeOK
<1>8. TypeOK'
  BY <1>1, <1>2, <1>3, <1>4, <1>5, <1>6, <1>7 DEF CommitWrite, Types, TypeOK
<1>9. Working'
  BY <1>1, <1>6, AtCommit DEF CommitWrite, Working, Busy, Writes, Deletes, At
<1> QED
  BY <1>8, <1>9 DEF Types

\* A delete commits.
LEMMA TypesCommitDelete ==
    ASSUME Types, CommitDelete
    PROVE  Types'
<1> USE AbsentAssumption
<1>1. \A d \in Ids : docs'[d] = IF d \in Live(op.name) THEN [docs[d] EXCEPT !.removed = TRUE] ELSE docs[d]
  BY DEF CommitDelete
<1>2. \A d \in Ids : docs[d] \in Document \cup {Absent}
  BY DEF Types, TypeOK
<1>3. \A d \in Live(op.name) : docs[d] \in Document /\ [docs[d] EXCEPT !.removed = TRUE] \in Document
  BY <1>2 DEF Live, Document
<1>4. docs' \in [Ids -> Document \cup {Absent}]
  <2>1. docs' = [d \in Ids |-> docs'[d]]
    BY DEF CommitDelete
  <2>2. \A d \in Ids : docs'[d] \in Document \cup {Absent}
    BY <1>1, <1>2, <1>3
  <2> QED
    BY <2>1, <2>2
<1>5. \A d \in Ids : docs'[d] = Absent => rows'[d] = <<>>
  BY <1>1, <1>3 DEF CommitDelete, Types, TypeOK
<1>6. \A n : Live(n)' \subseteq Live(n)
  <2> SUFFICES ASSUME NEW n, NEW d \in Live(n)' PROVE d \in Live(n)
    OBVIOUS
  <2>1. d \in Ids /\ docs'[d] # Absent /\ docs'[d].name = n /\ ~docs'[d].removed
    BY DEF Live
  <2>2. d \notin Live(op.name)
    BY <1>1, <1>3, <2>1 DEF Document
  <2> QED
    BY <1>1, <2>1, <2>2 DEF Live
<1>7. op' \in Operation /\ op'.pc = "settle"
  BY DEF CommitDelete, Operation, Types, TypeOK
<1>8. TypeOK'
  <2>1. \A n \in Names : \A i, j \in Live(n)' : i = j
    BY <1>6 DEF Types, TypeOK
  <2> QED
    BY <1>4, <1>5, <1>7, <2>1 DEF CommitDelete, Types, TypeOK
<1>9. Working'
  BY <1>7 DEF CommitDelete, Types, Working, Busy, Writes, Deletes, At, EndsKept
<1> QED
  BY <1>8, <1>9 DEF Types

\* An event makes a document.
LEMMA TypesRecordEvent ==
    ASSUME Types, NEW n \in Names, NEW i \in Ids, RecordEvent(n, i)
    PROVE  Types' /\ docs[i] = Absent /\ rows[i] = <<>>
<1> USE AbsentAssumption
<1>1. docs[i] = Absent /\ Live(n) = {} /\ At("idle")
  BY DEF RecordEvent, IsDocumentOf
<1>2. rows[i] = <<>>
  BY <1>1 DEF Types, TypeOK
<1>3. \A d \in Ids : docs'[d] = IF d = i THEN [name |-> n, removed |-> FALSE] ELSE docs[d]
  BY DEF RecordEvent, Types, TypeOK
<1>4. [name |-> n, removed |-> FALSE] \in Document
  BY DEF Document
<1>5. docs' \in [Ids -> Document \cup {Absent}]
  BY <1>4 DEF RecordEvent, Types, TypeOK
<1>6. \A d \in Ids : docs'[d] = Absent => rows'[d] = <<>>
  BY <1>2 DEF RecordEvent, Types, TypeOK
<1>7. ASSUME NEW m \in Names, NEW d \in Live(m)', NEW e \in Live(m)'
      PROVE  d = e
  <2>1. \A f \in Live(m)' : f \in Ids /\ docs'[f] # Absent /\ docs'[f].name = m /\ ~docs'[f].removed
    BY DEF Live
  <2>2. \A f \in Live(m)' : (f = i /\ m = n) \/ (f # i /\ f \in Live(m))
    BY <1>3, <2>1 DEF Live
  <2>3. \A f, g \in Live(m) : f = g
    BY DEF Types, TypeOK
  <2> QED
    BY <1>1, <2>2, <2>3
<1>8. TypeOK'
  <2>1. \A m \in Names : \A d, e \in Live(m)' : d = e
    BY <1>7
  <2> QED
    BY <1>5, <1>6, <2>1 DEF RecordEvent, history, Types, TypeOK
<1>9. Working'
  BY <1>1 DEF RecordEvent, Types, Working, Busy, Writes, Deletes, At, EndsKept
<1> QED
  BY <1>1, <1>2, <1>8, <1>9 DEF Types

\* Every step keeps the types.
LEMMA TypesStep ==
    ASSUME Types, [Next]_vars
    PROVE  Types'
<1> USE AbsentAssumption, BoundsAssumption
<1>1. Idle \in Operation /\ Idle.pc = "idle"
  BY DEF Idle, Operation, Kinds
<1>2. ASSUME NEW i \in Ids
      PROVE  Unkept(i) \subseteq Ids \X Contents
  BY DEF Unkept, Types, TypeOK
<1>3. Trouble => budget' \in [writes : 0 .. MaxWrites, troubles : 0 .. MaxTroubles]
  BY SMTT(30) DEF Trouble, Types, TypeOK
<1>4. ASSUME NEW left \in Contents \cup {Absent}, journal # Absent, RollsBack(left)
      PROVE  /\ file' \in [Names -> Contents \cup {Absent}] /\ journal' = Absent
             /\ docs' = docs /\ rows' = rows /\ registered' = registered /\ stored' = stored
  <2>1. journal \in Journal
    BY <1>4 DEF Types, TypeOK
  <2>2. Restored(left) \in Contents \cup {Absent}
    BY <2>1 DEF Restored, Journal
  <2> QED
    BY <1>4, <2>2 DEF RollsBack, Types, TypeOK
<1>5. Fails => /\ file' \in [Names -> Contents \cup {Absent}] /\ journal' = Absent
               /\ docs' = docs /\ rows' = rows /\ registered' = registered /\ stored' = stored
               /\ budget' \in [writes : 0 .. MaxWrites, troubles : 0 .. MaxTroubles]
  <2> SUFFICES ASSUME Fails
               PROVE  /\ file' \in [Names -> Contents \cup {Absent}] /\ journal' = Absent
                      /\ docs' = docs /\ rows' = rows /\ registered' = registered /\ stored' = stored
                      /\ budget' \in [writes : 0 .. MaxWrites, troubles : 0 .. MaxTroubles]
    OBVIOUS
  <2>1. Busy /\ journal # Absent /\ op.name \in Names
    BY DEF Fails, Types, Working, Busy, Writes, Deletes
  <2>2. PICK left \in Contents \cup {Absent} : RollsBack(left)
    <3>1. file[op.name] \in Contents \cup {Absent}
      BY <2>1 DEF Types, TypeOK
    <3> QED
      BY <3>1 DEF Fails
  <2>3. budget' \in [writes : 0 .. MaxWrites, troubles : 0 .. MaxTroubles]
    BY <1>3 DEF Fails, Types, TypeOK
  <2> QED
    BY <1>4, <2>1, <2>2, <2>3
<1>6. op \in Operation /\ op.doc \in Ids \cup {Absent} /\ op.source \in Ids \cup {Absent}
      /\ op.todo \subseteq Ids \X Contents
  BY DEF Types, TypeOK, Operation
<1>7. ~At("idle") => mode = "serving"
  BY DEF Types, Working
<1>8. CASE Settle
  <2>1. op' \in Operation /\ op'.pc \in {"idle", "purge"}
    <3>1. CASE op.kind \in {"redaction", "delete"} /\ op.doc # Absent
      BY <3>1, <1>8, <1>1, <1>2, <1>6, ZenonT(60) DEF Settle, Operation
    <3>2. CASE ~(op.kind \in {"redaction", "delete"} /\ op.doc # Absent)
      BY <3>2, <1>8, <1>1 DEF Settle
    <3> QED
      BY <3>1, <3>2
  <2>2. TypeOK'
    BY <1>8, <2>1, TypesOfSame DEF Settle, durable, history, Types, TypeOK
  <2>3. mode' = "serving"
    BY <1>8, <1>7 DEF Settle, At
  <2> QED
    BY <1>8, <2>1, <2>2, <2>3, WorkingWhenDone DEF Settle, durable, Types
<1>9. CASE SettleFails
  <2>1. TypeOK'
    BY <1>9, <1>1, <1>3, <1>6, TypesOfSame DEF SettleFails, durable, Types, TypeOK
  <2> QED
    BY <1>9, <1>1, <2>1, WorkingWhenDone DEF SettleFails, durable, Types
<1>10. ASSUME NEW i \in Ids, NEW x \in Contents, Purge(i, x)
       PROVE  Types'
  <2>1. op' \in Operation /\ op'.pc = "purge"
    BY <1>10, <1>6 DEF Purge, Operation, At
  <2>2. TypeOK'
    BY <1>10, <2>1, TypesOfSame DEF Purge, history, Types, TypeOK
  <2>3. mode' = "serving"
    BY <1>10, <1>7 DEF Purge, At
  <2> QED
    BY <1>10, <2>1, <2>2, <2>3, WorkingWhenDone DEF Purge, Types
<1>11. CASE PurgeEnds
  <2>1. TypeOK'
    BY <1>11, <1>1, TypesOfSame DEF PurgeEnds, durable, history, Types, TypeOK
  <2> QED
    BY <1>11, <1>1, <2>1, WorkingWhenDone DEF PurgeEnds, durable, Types
<1>12. CASE PurgeFails
  <2>1. TypeOK'
    BY <1>12, <1>1, <1>3, TypesOfSame DEF PurgeFails, durable, Types, TypeOK
  <2> QED
    BY <1>12, <1>1, <2>1, WorkingWhenDone DEF PurgeFails, durable, Types
<1>13. CASE Fails
  <2>1. TypeOK'
    BY <1>13, <1>1, <1>5, <1>6, TypesOfSame DEF Fails, Types, TypeOK
  <2> QED
    BY <1>13, <1>1, <1>5, <2>1, WorkingWhenDone DEF Fails, Types
<1>14. CASE Crash
  <2>1. TypeOK'
    BY <1>14, <1>1, <1>3, TypesOfSame DEF Crash, durable, history, Types, TypeOK
  <2> QED
    BY <1>14, <1>1, <2>1, WorkingWhenDone DEF Crash, durable, Types
<1>15. CASE Restart
  <2>1. TypeOK' /\ op' = op
    BY <1>15, TypesOfSame DEF Restart, durable, history, Types, TypeOK
  <2>2. op.pc = "idle"
    BY <1>15, <1>7 DEF Restart, At
  <2> QED
    BY <1>15, <2>1, <2>2, WorkingWhenDone DEF Restart, durable, Types
<1>16. CASE Recover
  <2>1. file[journal.name] \in Contents \cup {Absent} /\ journal # Absent /\ RollsBack(file[journal.name])
    BY <1>16 DEF Recover, Types, TypeOK, Journal
  <2>2. /\ file' \in [Names -> Contents \cup {Absent}] /\ journal' = Absent
        /\ docs' = docs /\ rows' = rows /\ registered' = registered /\ stored' = stored
    BY <1>4, <2>1
  <2>3. TypeOK' /\ op' = op
    BY <1>16, <2>2, TypesOfSame DEF Recover, history, Types, TypeOK
  <2> QED
    BY <1>16, <2>2, <2>3, WorkingWhenDone DEF Recover, At, Types
<1>17. CASE RecoveryFails
  <2>1. TypeOK' /\ op' = op
    BY <1>17, <1>3, TypesOfSame DEF RecoveryFails, durable, Types, TypeOK
  <2> QED
    BY <1>17, <2>1, WorkingWhenDone DEF RecoveryFails, durable, At, Types
<1>18. CASE Sweep
  <2>1. op' \in Operation /\ op'.pc = "purge"
    <3> DEFINE left == UNION {Unkept(i) : i \in {i \in Ids : Sweepable(i)}}
    <3>1. left \subseteq Ids \X Contents
      BY <1>2
    <3>2. op' = [Idle EXCEPT !.pc = "purge", !.todo = left]
      BY <1>18 DEF Sweep
    <3> HIDE DEF left
    <3> QED
      BY <1>1, <3>1, <3>2, ZenonT(60) DEF Operation
  <2>2. TypeOK'
    BY <1>18, <2>1, TypesOfSame DEF Sweep, durable, Types, TypeOK
  <2> QED
    BY <1>18, <2>1, <2>2, WorkingWhenDone DEF Sweep, durable, Types
<1>19. ASSUME NEW n \in Names, NEW c \in Contents \cup {Absent}, OutsideChange(n, c)
       PROVE  Types'
  <2>1. TypeOK'
    BY <1>19, <1>3, TypesOfSame DEF OutsideChange, history, Types, TypeOK
  <2>2. Working'
    BY <1>19, SameDocuments DEF OutsideChange, Types, Working, Busy, Writes, Deletes, At, EndsKept
  <2> QED
    BY <2>1, <2>2 DEF Types
<1>20. CASE UNCHANGED vars
  <2>1. /\ docs' = docs /\ rows' = rows /\ op' = op /\ mode' = mode /\ journal' = journal
    BY <1>20 DEF vars, durable
  <2>2. TypeOK'
    BY <1>20, TypesOfSame DEF vars, durable, history, Types, TypeOK
  <2>3. Working'
    BY <2>1, SameDocuments DEF Types, Working, Busy, Writes, Deletes, At, EndsKept
  <2> QED
    BY <2>2, <2>3 DEF Types
<1> QED
  BY <1>8, <1>9, <1>10, <1>11, <1>12, <1>13, <1>14, <1>15, <1>16, <1>17, <1>18, <1>19, <1>20,
     TypesBegin, TypesBeginDelete, TypesStore, TypesLookPark, TypesPlace, TypesCommitWrite, TypesCommitDelete,
     TypesRecordEvent DEF Next

\* What an operation has in hand fits what legal.db holds, for any operations.
THEOREM TypesHold == Spec => []Types
<1>1. Init => Types
  BY TypesInit
<1>2. Types /\ [Next]_vars => Types'
  BY TypesStep
<1> QED
  BY <1>1, <1>2, PTL DEF Spec

\* TypeOK, with the promise of legal.db's index that a name has one live document.
THEOREM TypeCorrect == Spec => []TypeOK
<1>1. Types => TypeOK
  BY DEF Types
<1> QED
  BY <1>1, TypesHold, PTL

-----------------------------------------------------------------------------

\* What is kept and removed, of a document's rows.
LEMMA KeptOfRows ==
    ASSUME NEW i
    PROVE  /\ Kept(i) = IF IsLive(i) THEN KeptIn(rows[i]) ELSE {}
           /\ Removed(i) = HeldIn(rows[i]) \ Kept(i)
           /\ Kept(i)' = IF IsLive(i)' THEN KeptIn(rows'[i]) ELSE {}
           /\ Removed(i)' = HeldIn(rows'[i]) \ Kept(i)'
           /\ rows[i] = <<>> => KeptIn(rows[i]) = {} /\ HeldIn(rows[i]) = {}
BY DEF Kept, Removed, KeptIn, HeldIn, IsLive

\* A write works on a live document, or on one with no rows.
LEMMA KeptOfLooked ==
    ASSUME Types, NEW i \in Ids, NEW n, Looked(i, n)
    PROVE  Kept(i) = KeptIn(rows[i])
<1>1. CASE i \in Live(n)
  BY <1>1, KeptOfRows DEF Live, IsLive
<1>2. CASE docs[i] = Absent
  <2>1. rows[i] = <<>>
    BY <1>2 DEF Types, TypeOK
  <2> QED
    BY <1>2, <2>1, KeptOfRows DEF IsLive
<1> QED
  BY <1>1, <1>2 DEF Looked

\* The documents that a write commits are live.
LEMMA LiveAtCommit ==
    ASSUME Types, CommitWrite, NEW d \in Ids, d = op.doc \/ (d = op.source /\ op.found # Absent)
    PROVE  IsLive(d)'
<1>1. \A n \in Names :
        [name |-> n, removed |-> FALSE] \in Document /\ [name |-> n, removed |-> FALSE].removed = FALSE
  BY DEF Document
<1>2. \E n \in Names : docs'[d] = [name |-> n, removed |-> FALSE]
  BY AtCommit, RowsAtCommit
<1>3. docs'[d] \in Document /\ docs'[d].removed = FALSE
  BY <1>1, <1>2
<1> QED
  BY <1>3, AbsentAssumption DEF IsLive

\* What a write keeps of its document: what it wrote, and unless it redacts,
\* what it replaced and all that was kept; it makes no other version removed.
LEMMA KeptAtCommit ==
    ASSUME Types, CommitWrite, NEW i \in Ids, i = op.doc
    PROVE  /\ op.content \in Kept(i)'
           /\ NewPrior(op) => op.prior \in Kept(i)'
           /\ Kept(i)' \subseteq Kept(i) \cup {op.content} \cup (IF NewPrior(op) THEN {op.prior} ELSE {})
           /\ op.kind # "redaction" =>
                /\ Kept(i) \subseteq Kept(i)'
                /\ op.prior # Absent => op.prior \in Kept(i)'
                /\ Removed(i)' \subseteq Removed(i)
<1> DEFINE k == KeptIn(rows[i])
           h == HeldIn(rows[i])
           kc == KeptIn(Captured(op))
           hc == HeldIn(Captured(op))
<1>1. /\ i \in Ids /\ op.kind \in Kinds /\ op.content \in Contents /\ op.prior \in Contents \cup {Absent}
      /\ rows[i] \in Seq(Version) /\ EndsKept(rows[i])
      /\ rows'[i] = Captured(op) /\ Looked(i, op.name)
  BY AtCommit, RowsAtCommit
<1>2. IsLive(i)'
  BY <1>1, LiveAtCommit
<1>3. Kept(i)' = kc /\ Removed(i)' = hc \ kc
  <2>1. Kept(i)' = KeptIn(rows'[i]) /\ Removed(i)' = HeldIn(rows'[i]) \ Kept(i)'
    BY <1>2, KeptOfRows
  <2> QED
    BY <2>1, <1>1
<1>4. Kept(i) = k /\ Removed(i) = h \ k
  BY <1>1, KeptOfLooked, KeptOfRows
<1>5. /\ op.kind = "redaction" => kc = {op.content} /\ ~NewPrior(op)
      /\ op.kind # "redaction" =>
            /\ k \subseteq kc /\ op.content \in kc /\ (op.prior # Absent => op.prior \in kc)
            /\ NewPrior(op) => op.prior # Absent
            /\ kc \subseteq k \cup {op.content} \cup (IF NewPrior(op) THEN {op.prior} ELSE {})
            /\ hc \subseteq h \cup {op.content} \cup (IF NewPrior(op) THEN {op.prior} ELSE {})
  BY <1>1, CapturedRows DEF NewPrior
<1> HIDE DEF k, h, kc, hc
<1> QED
  BY <1>3, <1>4, <1>5

\* What it keeps of other documents: all, and the bytes it was made from.
LEMMA KeptOfOthers ==
    ASSUME Types, CommitWrite, NEW d \in Ids \ {op.doc}
    PROVE  /\ Kept(d) \subseteq Kept(d)'
           /\ d = op.source /\ op.found # Absent => op.found \in Kept(d)'
           /\ Kept(d)' \subseteq Kept(d) \cup (IF d = op.source /\ NewFound(op) THEN {op.found} ELSE {})
           /\ Removed(d)' \subseteq Removed(d)
<1>1. /\ rows[d] \in Seq(Version) /\ EndsKept(rows[d])
      /\ rows'[d] = IF d = op.source /\ NewFound(op) THEN Added(rows[d], op.found) ELSE rows[d]
  BY RowsAtCommit
<1>2. Kept(d)' = (IF IsLive(d)' THEN KeptIn(rows'[d]) ELSE {}) /\ Removed(d)' = HeldIn(rows'[d]) \ Kept(d)'
  BY DEF Kept, Removed, KeptIn, HeldIn, IsLive
<1>3. Kept(d) = (IF IsLive(d) THEN KeptIn(rows[d]) ELSE {}) /\ Removed(d) = HeldIn(rows[d]) \ Kept(d)
  BY KeptOfRows
<1>4. CASE d = op.source /\ op.found # Absent
  <2>1. IsLive(d)' /\ Kept(d) = KeptIn(rows[d]) /\ op.found \in Contents
    BY <1>4, AtCommit, LiveAtCommit, KeptOfLooked
  <2>2. CASE NewFound(op)
    <3>1. /\ KeptIn(rows'[d]) = KeptIn(rows[d]) \cup {op.found}
          /\ HeldIn(rows'[d]) = HeldIn(rows[d]) \cup {op.found}
      BY <1>1, <1>4, <2>1, <2>2, NewVersionRows
    <3> QED
      BY <1>2, <1>3, <1>4, <2>1, <2>2, <3>1
  <2>3. CASE ~NewFound(op)
    <3>1. op.found = Current(d) /\ op.found # Absent
      BY <1>4, <2>3 DEF NewFound
    <3>2. op.found \in KeptIn(rows[d])
      BY <3>1, <1>1, CurrentIsKept DEF Current
    <3>3. rows'[d] = rows[d]
      BY <1>1, <2>3
    <3> QED
      BY <1>2, <1>3, <2>1, <2>3, <3>2, <3>3
  <2> QED
    BY <2>2, <2>3
<1>5. CASE ~(d = op.source /\ op.found # Absent)
  <2>1. rows'[d] = rows[d] /\ docs'[d] = docs[d]
    BY <1>5, RowsAtCommit, AtCommit
  <2>2. IsLive(d)' <=> IsLive(d)
    BY <2>1 DEF IsLive
  <2> QED
    BY <1>2, <1>3, <1>5, <2>1, <2>2
<1> QED
  BY <1>4, <1>5

\* What a write has yet to store its rows will keep.
LEMMA UnstoredAtCommit ==
    ASSUME Types, CommitWrite
    PROVE  /\ \A s \in Unstored(op) : s[1] \in Ids /\ s[2] \in Kept(s[1])'
           /\ \A d \in Ids : \A x \in Kept(d)' :
                x \in Kept(d) \/ <<d, x>> \in Unstored(op) \cup op.staged
<1>1. PICK i \in Ids : i = op.doc
  BY AtCommit
<1>2. ASSUME NEW s \in Unstored(op)
      PROVE  s[1] \in Ids /\ s[2] \in Kept(s[1])'
  <2>1. \/ s[1] = i /\ s[2] = op.content
        \/ s[1] = i /\ s[2] = op.prior /\ NewPrior(op)
        \/ s[1] = op.source /\ s[2] = op.found /\ NewFound(op)
    BY <1>1 DEF Unstored
  <2>2. op.content \in Kept(i)' /\ (NewPrior(op) => op.prior \in Kept(i)')
    BY <1>1, KeptAtCommit
  <2>3. \A j \in Ids \ {op.doc} : j = op.source /\ op.found # Absent => op.found \in Kept(j)'
    BY KeptOfOthers
  <2>4. NewFound(op) => op.source \in Ids \ {op.doc} /\ op.found # Absent
    BY AtCommit
  <2>5. CASE s[1] = op.source /\ s[2] = op.found /\ NewFound(op)
    <3>1. PICK j \in Ids \ {op.doc} : j = op.source
      BY <2>4, <2>5
    <3> QED
      BY <2>3, <2>4, <2>5, <3>1
  <2>6. CASE s[1] = i /\ s[2] \in Kept(i)'
    BY <2>6
  <2> QED
    BY <2>1, <2>2, <2>5, <2>6
<1>3. ASSUME NEW d \in Ids, NEW x \in Kept(d)', x \notin Kept(d)
      PROVE  <<d, x>> \in Unstored(op) \cup op.staged
  <2>1. CASE d = op.doc
    <3>1. x = op.content \/ (NewPrior(op) /\ x = op.prior)
      BY <2>1, <1>3, KeptAtCommit
    <3> QED
      BY <2>1, <3>1 DEF Unstored
  <2>2. CASE d # op.doc
    <3>1. d = op.source /\ NewFound(op) /\ x = op.found
      BY <2>2, <1>3, KeptOfOthers
    <3> QED
      BY <3>1 DEF Unstored
  <2> QED
    BY <2>1, <2>2
<1> QED
  BY <1>2, <1>3

\* A delete takes what its document keeps, and nothing of another's.
LEMMA KeptAfterDelete ==
    ASSUME Types, CommitDelete, NEW d \in Ids
    PROVE  Kept(d)' \subseteq Kept(d) /\ (d # op.doc => Kept(d)' = Kept(d) /\ Removed(d)' = Removed(d))
<1>1. Live(op.name) \subseteq {op.doc}
  BY DEF CommitDelete, Types, Working, Busy, Deletes, At
<1>2. rows' = rows /\ docs'[d] = IF d \in Live(op.name) THEN [docs[d] EXCEPT !.removed = TRUE] ELSE docs[d]
  BY DEF CommitDelete
<1>3. CASE d \in Live(op.name)
  <2>1. d = op.doc /\ docs[d] # Absent /\ ~docs[d].removed /\ docs[d] \in Document \cup {Absent}
    BY <1>1, <1>3 DEF Live, Types, TypeOK
  <2>2. docs'[d].removed
    BY <1>2, <1>3, <2>1 DEF Document
  <2>3. Kept(d)' = {}
    BY <2>2 DEF Kept, IsLive
  <2> QED
    BY <2>1, <2>3
<1>4. CASE d \notin Live(op.name)
  <2>1. docs'[d] = docs[d] /\ rows'[d] = rows[d]
    BY <1>2, <1>4
  <2> QED
    BY <2>1 DEF Kept, Removed, IsLive
<1> QED
  BY <1>3, <1>4

\* The document that an event makes has no versions.
LEMMA KeptAfterEvent ==
    ASSUME Types, NEW n \in Names, NEW i \in Ids, RecordEvent(n, i), NEW d \in Ids
    PROVE  Kept(d)' = Kept(d) /\ Removed(d)' = Removed(d)
<1>1. rows[i] = <<>> /\ rows' = rows
  BY TypesRecordEvent DEF RecordEvent
<1>2. d # i => docs'[d] = docs[d]
  BY DEF RecordEvent, Types, TypeOK
<1>3. CASE d = i
  BY <1>1, <1>3 DEF Kept, Removed
<1>4. CASE d # i
  BY <1>1, <1>2, <1>4 DEF Kept, Removed, IsLive
<1> QED
  BY <1>3, <1>4

-----------------------------------------------------------------------------

\* A write's unstored bytes are told by what it has in hand and the rows.
LEMMA SameUnstored ==
    ASSUME rows' = rows, NEW o,
           op'.kind = o.kind, op'.prior = o.prior, op'.content = o.content, op'.doc = o.doc,
           op'.found = o.found, op'.source = o.source, op'.staged = o.staged
    PROVE  Unstored(op)' = Unstored(o)
<1>1. NewPrior(op)' <=> NewPrior(o)
  BY DEF NewPrior, Current
<1>2. NewFound(op)' <=> NewFound(o)
  BY DEF NewFound, Current
<1> QED
  BY <1>1, <1>2 DEF Unstored

\* What storing changes of the operation.
LEMMA OpOfStore ==
    ASSUME Types, NEW i \in Ids, NEW x \in Contents, Store(i, x)
    PROVE  /\ op'.pc = op.pc /\ op'.kind = op.kind /\ op'.doc = op.doc /\ op'.source = op.source
           /\ op'.todo = op.todo \ {<<i, x>>} /\ <<i, x>> \in op.todo
           /\ op'.staged = IF At("stage") THEN op.staged \cup {<<i, x>>} ELSE op.staged
           /\ At("capture") => Unstored(op)' = Unstored(op)
           /\ At("stage") \/ At("capture")
           /\ stored'[i] = stored[i] \cup {x} /\ \A d \in Ids \ {i} : stored'[d] = stored[d]
<1>1. /\ op' = [op EXCEPT !.todo = @ \ {<<i, x>>},
                          !.staged = IF At("stage") THEN @ \cup {<<i, x>>} ELSE @]
      /\ op \in Operation /\ rows' = rows
  BY DEF Store, Types, TypeOK
<1>2. /\ op'.pc = op.pc /\ op'.kind = op.kind /\ op'.doc = op.doc /\ op'.source = op.source
      /\ op'.prior = op.prior /\ op'.content = op.content /\ op'.found = op.found
      /\ op'.todo = op.todo \ {<<i, x>>}
      /\ op'.staged = IF At("stage") THEN op.staged \cup {<<i, x>>} ELSE op.staged
  BY <1>1 DEF Operation
<1>3. At("capture") => op'.staged = op.staged
  BY <1>2 DEF At
<1>4. At("capture") => Unstored(op)' = Unstored(op)
  BY <1>1, <1>2, <1>3, SameUnstored
<1>5. stored'[i] = stored[i] \cup {x} /\ \A d \in Ids \ {i} : stored'[d] = stored[d]
  BY DEF Store, Types, TypeOK
<1>6. <<i, x>> \in op.todo /\ (At("stage") \/ At("capture"))
  BY DEF Store
<1> QED
  BY <1>2, <1>4, <1>5, <1>6

\* What putting the file in place does.
LEMMA OpOfPlace ==
    ASSUME Types, NEW j \in Ids \cup {Absent}, Place(j)
    PROVE  /\ At("place") /\ op'.pc = "capture" /\ op'.kind = op.kind /\ op'.doc = op.doc
           /\ op'.staged = op.staged
           /\ op'.todo = Unstored(op)'
<1> DEFINE o == [op EXCEPT !.pc = "capture", !.prior = journal.backup, !.source = j,
                           !.found = IF op.from = Absent THEN Absent ELSE file[op.from]]
<1>1. op' = [o EXCEPT !.todo = Unstored(o)] /\ rows' = rows
  BY DEF Place
<1>2. DOMAIN op = {"pc", "kind", "name", "content", "doc", "from", "source", "prior", "found", "staged", "todo"}
  BY DEF Types, TypeOK, Operation
<1>3. o.pc = "capture" /\ o.kind = op.kind /\ o.doc = op.doc /\ o.staged = op.staged
  BY <1>2
<1>4. DOMAIN o = DOMAIN op
  OBVIOUS
<1> HIDE DEF o
<1>5. /\ op'.pc = o.pc /\ op'.kind = o.kind /\ op'.doc = o.doc /\ op'.staged = o.staged
      /\ op'.prior = o.prior /\ op'.content = o.content /\ op'.found = o.found /\ op'.source = o.source
      /\ op'.todo = Unstored(o)
  BY <1>1, <1>2, <1>4
<1>6. Unstored(op)' = Unstored(o)
  BY <1>1, <1>5, SameUnstored
<1> QED
  BY <1>3, <1>5, <1>6 DEF Place

\* To look, and to put the file aside, changes what an operation does next and no more.
LEMMA OpOfLookPark ==
    ASSUME Types, Look \/ Park
    PROVE  /\ Busy /\ ~At("capture") /\ op.todo = {}
           /\ op'.pc \in {"park", "place", "capture"} /\ (op'.pc = "capture" => op'.kind = "delete")
           /\ op'.kind = op.kind /\ op'.doc = op.doc /\ op'.staged = op.staged /\ op'.todo = op.todo
           /\ docs' = docs /\ rows' = rows /\ stored' = stored /\ owed' = owed /\ mode' = mode
<1>1. /\ Busy /\ ~At("capture") /\ op.todo = {} /\ op \in Operation
      /\ docs' = docs /\ rows' = rows /\ stored' = stored /\ owed' = owed /\ mode' = mode
  BY DEF Look, Park, durable, history, Types, TypeOK, Working, Busy, At
<1>2. PICK pc \in {"park", "place", "capture"} :
        op' = [op EXCEPT !.pc = pc] /\ (pc = "capture" => op.kind = "delete")
  BY DEF Look, Park, AfterParking
<1> QED
  BY <1>1, <1>2 DEF Operation

\* At first no bytes are stored, and none are needed.
LEMMA BytesInit == Init => Bytes /\ KeptAreStored /\ NothingLost /\ Gone
<1> SUFFICES ASSUME Init PROVE Bytes /\ KeptAreStored /\ NothingLost /\ Gone
  OBVIOUS
<1>1. op.pc = "idle" /\ written = {} /\ (\A i \in Ids : stored[i] = {}) /\ (\A i \in Ids : docs[i] = Absent)
  BY DEF Init, Idle
<1>2. Bytes
  BY <1>1 DEF Bytes, Busy, At
<1>3. KeptAreStored
  BY <1>1 DEF KeptAreStored, Kept, IsLive
<1>4. NothingLost
  BY <1>1 DEF NothingLost
<1>5. Gone
  BY <1>1 DEF Gone
<1> QED
  BY <1>2, <1>3, <1>4, <1>5

\* Every step keeps track of the bytes.
LEMMA BytesStep ==
    ASSUME Types, Bytes, [Next]_vars
    PROVE  Bytes'
<1>1. ASSUME NEW kind \in Kinds \ {"delete"}, NEW n \in Names, NEW c \in Contents,
             NEW i \in Ids, NEW from \in Names \cup {Absent}, Begin(kind, n, c, from, i)
      PROVE  Bytes'
  <2>1. /\ op'.pc = "stage" /\ op'.doc = i /\ op'.staged = {}
        /\ \A s \in op'.todo : s[1] = i
    BY <1>1 DEF Begin, ToStage, Idle
  <2> QED
    BY <2>1 DEF Bytes, Busy, At
<1>2. ASSUME NEW n \in Names, BeginDelete(n)
      PROVE  Bytes'
  <2>1. op'.pc = "stage" /\ op'.staged = {} /\ op'.todo = {}
    BY <1>2 DEF BeginDelete, Idle
  <2> QED
    BY <2>1 DEF Bytes, Busy, At
<1>3. ASSUME NEW i \in Ids, NEW x \in Contents, Store(i, x)
      PROVE  Bytes'
  <2>1. \A d \in Ids : stored[d] \subseteq stored'[d]
    BY <1>3, OpOfStore
  <2>2. \A s \in op.staged : s[1] \in Ids
    BY DEF Types, TypeOK, Operation
  <2> DEFINE new == <<i, x>>
  <2>3. /\ op'.doc = op.doc /\ op'.todo \subseteq op.todo /\ new \in op.todo
        /\ op'.staged = op.staged \/ (At("stage") /\ op'.staged = op.staged \cup {new})
        /\ At("stage") \/ At("capture")
        /\ At("stage")' <=> At("stage")
        /\ new[1] = i /\ new[2] = x /\ x \in stored'[i]
    BY <1>3, OpOfStore DEF At
  <2>4. /\ At("stage") => \A s \in op.todo : s[1] = op.doc
        /\ \A s \in op.staged : s[1] = op.doc /\ s[2] \in stored[s[1]]
    BY <2>3 DEF Bytes, Busy, At
  <2> HIDE DEF new
  <2>5. /\ At("stage")' => \A s \in op'.todo : s[1] = op'.doc
        /\ \A s \in op'.staged : s[1] = op'.doc /\ s[2] \in stored'[s[1]]
    <3>1. At("stage")' => \A s \in op'.todo : s[1] = op'.doc
      BY <2>3, <2>4
    <3>2. \A s \in op.staged : s[1] = op'.doc /\ s[2] \in stored'[s[1]]
      BY <2>1, <2>2, <2>3, <2>4
    <3>3. At("stage") => new[1] = op'.doc /\ new[2] \in stored'[new[1]]
      BY <2>3, <2>4
    <3> QED
      BY <2>3, <3>1, <3>2, <3>3
  <2>6. ASSUME At("capture")', op'.kind # "delete"
        PROVE  op'.todo \subseteq Unstored(op)' /\ \A s \in Unstored(op)' : s \in op'.todo \/ s[2] \in stored'[s[1]]
    <3>1. At("capture") /\ op.kind # "delete" /\ Unstored(op)' = Unstored(op)
      BY <1>3, <2>6, OpOfStore DEF At
    <3>2. op.todo \subseteq Unstored(op) /\ \A s \in Unstored(op) : s \in op.todo \/ s[2] \in stored[s[1]]
      BY <3>1 DEF Bytes
    <3>3. \A s \in Unstored(op) : s[1] = op.doc \/ (s[1] = op.source /\ NewFound(op))
      BY DEF Unstored
    <3>4. op.doc \in Ids /\ (NewFound(op) => op.source \in Ids)
      <4>1. op.doc \in Ids /\ (op.from # Absent => op.source \in Ids)
        BY <3>1 DEF Types, Working, Busy, Writes, At
      <4>2. op.found # Absent => op.from # Absent
        BY <3>1 DEF Types, Working, Busy, Writes, At
      <4> QED
        BY <4>1, <4>2 DEF NewFound
    <3>5. ASSUME NEW s \in Unstored(op)
          PROVE  s \in op'.todo \/ s[2] \in stored'[s[1]]
      <4>1. CASE s = new
        BY <2>3, <4>1
      <4>2. CASE s # new /\ s \in op.todo
        <5>1. op'.todo = op.todo \ {new}
          BY <1>3, OpOfStore DEF new
        <5> QED
          BY <4>2, <5>1
      <4>3. CASE s[2] \in stored[s[1]]
        <5>1. s[1] \in Ids
          BY <3>3, <3>4, <3>5
        <5> QED
          BY <4>3, <5>1, <2>1
      <4>4. s \in op.todo \/ s[2] \in stored[s[1]]
        BY <3>2, <3>5
      <4> QED
        BY <4>1, <4>2, <4>3, <4>4
    <3> QED
      BY <1>3, <3>1, <3>2, <3>5, OpOfStore, ZenonT(60)
  <2>7. ~At("purge")'
    BY <1>3, OpOfStore DEF At
  <2> QED
    BY <2>3, <2>5, <2>6, <2>7 DEF Bytes
<1>4. ASSUME NEW j \in Ids \cup {Absent}, Place(j)
      PROVE  Bytes'
  <2>1. stored' = stored
    BY <1>4 DEF Place
  <2> QED
    BY <1>4, <2>1, OpOfPlace DEF Bytes, Busy, At
<1>5. ASSUME op'.pc \in {"idle", "settle"}
      PROVE  Bytes'
  BY <1>5 DEF Bytes, Busy, At
<1>6. CASE Settle
  <2>1. CASE op.kind \in {"redaction", "delete"} /\ op.doc # Absent
    <3>1. op'.pc = "purge" /\ op'.todo = Unkept(op.doc) /\ docs' = docs /\ rows' = rows
      BY <1>6, <2>1 DEF Settle, Idle, durable
    <3>2. \A s \in op'.todo : s[2] \notin Kept(s[1])
      BY <3>1 DEF Unkept
    <3> QED
      BY <3>1, <3>2, SameDocuments DEF Bytes, Busy, At
  <2>2. CASE ~(op.kind \in {"redaction", "delete"} /\ op.doc # Absent)
    BY <1>5, <1>6, <2>2 DEF Settle, Idle
  <2> QED
    BY <2>1, <2>2
<1>7. ASSUME NEW i \in Ids, NEW x \in Contents, Purge(i, x)
      PROVE  Bytes'
  <2>1. /\ op.pc = "purge" /\ op'.pc = "purge" /\ op'.todo \subseteq op.todo /\ docs' = docs /\ rows' = rows
    BY <1>7 DEF Purge, Types, TypeOK, Operation, At
  <2> QED
    BY <2>1, SameDocuments DEF Bytes, Busy, At
<1>8. CASE Sweep
  <2>1. /\ op'.pc = "purge" /\ op'.todo = UNION {Unkept(i) : i \in {i \in Ids : Sweepable(i)}}
        /\ docs' = docs /\ rows' = rows
    BY <1>8 DEF Sweep, Idle, durable
  <2>2. \A s \in op'.todo : s[2] \notin Kept(s[1])
    BY <2>1 DEF Unkept
  <2> QED
    BY <2>1, <2>2, SameDocuments DEF Bytes, Busy, At
<1>9. ASSUME op' = op, docs' = docs, rows' = rows, stored' = stored
      PROVE  Bytes'
  <2>1. Unstored(op)' = Unstored(op)
    BY <1>9, SameUnstored
  <2> QED
    BY <1>9, <2>1, SameDocuments DEF Bytes, Busy, At
<1>10. CASE Recover \/ RecoveryFails \/ Restart \/ UNCHANGED vars
  BY <1>9, <1>10 DEF Recover, RollsBack, RecoveryFails, Restart, vars, durable
<1>11. ASSUME NEW n \in Names, NEW c \in Contents \cup {Absent}, OutsideChange(n, c)
       PROVE  Bytes'
  BY <1>9, <1>11 DEF OutsideChange
<1>12. ASSUME NEW n \in Names, NEW i \in Ids, RecordEvent(n, i)
       PROVE  Bytes'
  BY <1>5, <1>12 DEF RecordEvent, At
<1>13. CASE CommitWrite \/ CommitDelete
  BY <1>5, <1>13 DEF CommitWrite, CommitDelete, Types, TypeOK, Operation
<1>14. CASE SettleFails \/ PurgeEnds \/ PurgeFails \/ Fails \/ Crash
  BY <1>5, <1>14 DEF SettleFails, PurgeEnds, PurgeFails, Fails, Crash, Idle
<1>15. CASE Look \/ Park
  BY <1>15, OpOfLookPark DEF Bytes, Busy, At
<1> QED
  BY <1>1, <1>2, <1>3, <1>4, <1>6, <1>7, <1>8, <1>10, <1>11, <1>12, <1>13, <1>14, <1>15 DEF Next

-----------------------------------------------------------------------------

\* Only commits and events change documents, and only stores and purges bytes.
LEMMA WhatChanges ==
    ASSUME [Next]_vars
    PROVE  /\ \/ docs' = docs /\ rows' = rows /\ written' = written
              \/ CommitWrite \/ CommitDelete
              \/ \E n \in Names, i \in Ids : RecordEvent(n, i)
           /\ \/ stored' = stored
              \/ \E i \in Ids, x \in Contents : Store(i, x) \/ Purge(i, x)
BY ZenonT(60) DEF Next, vars, durable, history, Begin, BeginDelete, Store, Purge, Place, CommitWrite, CommitDelete,
       Settle, SettleFails, PurgeEnds, PurgeFails, Fails, Crash, Restart, Recover, RecoveryFails, Sweep,
       OutsideChange, RecordEvent, RollsBack, Look, Park

\* Every step keeps the bytes of the kept versions.
LEMMA KeptStep ==
    ASSUME Types, Bytes, KeptAreStored, [Next]_vars
    PROVE  KeptAreStored'
<1>1. CASE CommitWrite
  <2> SUFFICES ASSUME NEW d \in Ids, NEW x \in Kept(d)' PROVE x \in stored'[d]
    BY DEF KeptAreStored
  <2>1. stored' = stored /\ op.todo = {} /\ At("capture") /\ op.kind # "delete"
    BY <1>1 DEF CommitWrite
  <2>2. CASE x \in Kept(d)
    BY <2>1, <2>2 DEF KeptAreStored
  <2>3. CASE <<d, x>> \in Unstored(op) \cup op.staged
    <3> DEFINE s == <<d, x>>
    <3>1. s[1] = d /\ s[2] = x /\ s \in Unstored(op) \cup op.staged
      BY <2>3
    <3> HIDE DEF s
    <3>2. s[2] \in stored[s[1]]
      BY <2>1, <3>1 DEF Bytes, Busy, At
    <3> QED
      BY <2>1, <3>1, <3>2
  <2> QED
    BY <1>1, <2>2, <2>3, UnstoredAtCommit
<1>2. CASE CommitDelete
  BY <1>2, KeptAfterDelete DEF CommitDelete, KeptAreStored
<1>3. ASSUME NEW n \in Names, NEW i \in Ids, RecordEvent(n, i)
      PROVE  KeptAreStored'
  BY <1>3, KeptAfterEvent DEF RecordEvent, KeptAreStored
<1>4. ASSUME NEW i \in Ids, NEW x \in Contents, Store(i, x)
      PROVE  KeptAreStored'
  <2>1. docs' = docs /\ rows' = rows
    BY <1>4 DEF Store
  <2> QED
    BY <1>4, <2>1, OpOfStore, SameDocuments, ZenonT(60) DEF KeptAreStored
<1>5. ASSUME NEW i \in Ids, NEW x \in Contents, Purge(i, x)
      PROVE  KeptAreStored'
  <2>1. docs' = docs /\ rows' = rows
    BY <1>5 DEF Purge
  <2>2. x \notin Kept(i)
    BY <1>5 DEF Purge, Bytes
  <2>3. \A d \in Ids : stored'[d] = IF d = i THEN stored[d] \ {x} ELSE stored[d]
    BY <1>5 DEF Purge, Types, TypeOK
  <2> QED
    BY <2>1, <2>2, <2>3, SameDocuments DEF KeptAreStored
<1>6. CASE docs' = docs /\ rows' = rows /\ stored' = stored
  BY <1>6, SameDocuments DEF KeptAreStored
<1> QED
  BY <1>1, <1>2, <1>3, <1>4, <1>5, <1>6, WhatChanges

\* Every step keeps what was written, or a redaction or delete says otherwise.
LEMMA LostStep ==
    ASSUME Types, NothingLost, [Next]_vars
    PROVE  NothingLost'
<1>1. CASE CommitWrite
  <2> SUFFICES ASSUME NEW w \in written' PROVE w[2] \in Kept(w[1])'
    BY DEF NothingLost
  <2>1. PICK d \in Ids, x \in Contents : w = <<d, x>>
    <3>1. written' \subseteq Ids \X Contents
      BY <1>1, TypesCommitWrite DEF Types, TypeOK
    <3> QED
      BY <3>1
  <2>2. w[1] = d /\ w[2] = x
    BY <2>1
  <2>3. CASE w \in written /\ (d # op.doc \/ op.kind # "redaction")
    <3>1. x \in Kept(d)
      BY <2>2, <2>3 DEF NothingLost
    <3>2. Kept(d) \subseteq Kept(d)'
      BY <1>1, <2>3, KeptAtCommit, KeptOfOthers
    <3> QED
      BY <2>2, <3>1, <3>2
  <2>4. CASE d = op.doc /\ x = op.content
    BY <1>1, <2>2, <2>4, KeptAtCommit
  <2>5. CASE d = op.doc /\ x = op.prior /\ op.kind # "redaction"
    <3>1. op.prior # Absent
      BY <2>5, AbsentAssumption
    <3> QED
      BY <1>1, <2>2, <2>5, <3>1, KeptAtCommit
  <2>6. CASE d = op.source /\ x = op.found /\ op.found # Absent
    <3>1. d # op.doc
      BY <1>1, <2>6, AtCommit
    <3> QED
      BY <1>1, <2>2, <2>6, <3>1, KeptOfOthers
  <2>7. CASE op.kind = "redaction"
    <3>1. (w \in written /\ w[1] # op.doc) \/ w = <<op.doc, op.content>>
      BY <1>1, <2>7 DEF CommitWrite
    <3>2. (w \in written /\ d # op.doc) \/ (d = op.doc /\ x = op.content)
      BY <2>1, <2>2, <3>1
    <3> QED
      BY <2>3, <2>4, <3>2
  <2>8. CASE op.kind # "redaction"
    <3>1. w \in written \/ w \in Promised(op)
      BY <1>1, <2>8 DEF CommitWrite
    <3>2. w \in Promised(op) =>
            \/ d = op.doc /\ x = op.content
            \/ d = op.doc /\ x = op.prior
            \/ d = op.source /\ x = op.found /\ op.found # Absent
      BY <2>1 DEF Promised
    <3> QED
      BY <2>3, <2>4, <2>5, <2>6, <2>8, <3>1, <3>2
  <2> QED
    BY <2>7, <2>8
<1>2. CASE CommitDelete
  <2> SUFFICES ASSUME NEW w \in written' PROVE w[2] \in Kept(w[1])'
    BY DEF NothingLost
  <2>1. w \in written /\ w[1] # op.doc /\ w[1] \in Ids
    BY <1>2 DEF CommitDelete, Types, TypeOK
  <2> QED
    BY <1>2, <2>1, KeptAfterDelete DEF NothingLost
<1>3. ASSUME NEW n \in Names, NEW i \in Ids, RecordEvent(n, i)
      PROVE  NothingLost'
  <2>1. written' = written /\ \A w \in written : w[1] \in Ids
    BY <1>3 DEF RecordEvent, history, Types, TypeOK
  <2> QED
    BY <1>3, <2>1, KeptAfterEvent DEF NothingLost
<1>4. CASE docs' = docs /\ rows' = rows /\ written' = written
  BY <1>4, SameDocuments DEF NothingLost
<1> QED
  BY <1>1, <1>2, <1>3, <1>4, WhatChanges

\* A version that is listed as kept can be read, whatever stopped in between.
THEOREM KeptAreStoredHolds == Spec => []KeptAreStored
<1>1. Init => Bytes /\ KeptAreStored
  BY BytesInit
<1>2. Types /\ Bytes /\ KeptAreStored /\ [Next]_vars => Bytes' /\ KeptAreStored'
  BY BytesStep, KeptStep
<1> QED
  BY <1>1, <1>2, TypesHold, PTL DEF Spec

\* No write of a document loses what it, or an earlier one, wrote, put aside or
\* found in the document it copied.
THEOREM NothingLostHolds == Spec => []NothingLost
<1>1. Init => NothingLost
  BY BytesInit
<1>2. Types /\ NothingLost /\ [Next]_vars => NothingLost'
  BY LostStep
<1> QED
  BY <1>1, <1>2, TypesHold, PTL DEF Spec

-----------------------------------------------------------------------------

\* A removed version is a document's that the sweep goes through.
LEMMA RemovedIsSwept ==
    ASSUME Types, NEW i \in Ids, NEW x \in Removed(i)
    PROVE  Sweepable(i)
<1>1. x \in HeldIn(rows[i]) /\ x \notin Kept(i)
  BY KeptOfRows
<1>2. docs[i] # Absent
  <2>1. rows[i] # <<>>
    BY <1>1, KeptOfRows
  <2> QED
    BY <2>1 DEF Types, TypeOK
<1>3. CASE ~docs[i].removed
  <2>1. x \notin KeptIn(rows[i])
    BY <1>1, <1>2, <1>3, KeptOfRows DEF IsLive
  <2>2. PICK k \in DOMAIN rows[i] : x = rows[i][k].content
    BY <1>1 DEF HeldIn
  <2>3. rows[i][k].removed
    BY <2>1, <2>2 DEF KeptIn
  <2> QED
    BY <1>2, <2>3 DEF Sweepable
<1> QED
  BY <1>2, <1>3 DEF Sweepable

\* A write's commit keeps what it had stored again, or leaves it to the next start.
LEMMA GoneAtCommit ==
    ASSUME Types, Gone, CommitWrite, NEW i \in Ids \ owed', NEW x \in stored'[i] \cap Removed(i)'
    PROVE  op.kind = "redaction" /\ i = op.doc
<1> SUFFICES ASSUME i # op.doc \/ op.kind # "redaction" PROVE FALSE
  BY AtCommit DEF Kinds
<1>1. x \in Removed(i) /\ x \notin Kept(i)'
  <2>1. Removed(i)' \subseteq Removed(i)
    BY KeptAtCommit, KeptOfOthers
  <2>2. x \notin Kept(i)'
    BY KeptOfRows
  <2> QED
    BY <2>1, <2>2
<1>2. x \in stored[i] /\ i \notin owed /\ mode = "serving" /\ At("capture")
  BY AtCommit DEF CommitWrite
<1>3. SeenTo(i, x)
  BY <1>1, <1>2 DEF Gone
<1>4. <<i, x>> \in op.staged \/ <<i, x>> \in Unstored(op)
  BY <1>2, <1>3 DEF SeenTo, Busy, At
<1> DEFINE s == <<i, x>>
<1>5. s[1] = i /\ s[2] = x
  OBVIOUS
<1>6. s \notin Unstored(op)
  <2> HIDE DEF s
  <2> QED
    BY <1>1, <1>5, UnstoredAtCommit
<1>7. s \notin op.staged
  <2>1. owed' = owed \cup {d \in Ids : \E u \in op.staged : u[1] = d /\ u[2] \notin Kept(d)'}
    BY DEF CommitWrite
  <2> HIDE DEF s
  <2> QED
    BY <1>1, <1>5, <2>1
<1> QED
  BY <1>4, <1>6, <1>7

\* Every step sees to removed bytes.
LEMMA GoneStep ==
    ASSUME Types, Bytes, Gone, [Next]_vars
    PROVE  Gone'
<1> SUFFICES ASSUME mode' = "serving", NEW i \in Ids \ owed', NEW x \in stored'[i] \cap Removed(i)'
             PROVE  SeenTo(i, x)'
  BY DEF Gone
<1> DEFINE s == <<i, x>>
<1>1. s[1] = i /\ s[2] = x
  OBVIOUS
<1> HIDE DEF s
<1>2. ASSUME mode = "serving", i \notin owed, x \in stored[i], x \in Removed(i)
      PROVE  SeenTo(i, x)
  BY <1>2 DEF Gone
<1>3. ~At("idle") => mode = "serving"
  BY DEF Types, Working
<1>4. ASSUME docs' = docs, rows' = rows
      PROVE  x \in Removed(i)
  BY <1>4, SameDocuments
<1>5. At("idle") => ~SeenTo(i, x)
  BY DEF SeenTo, Busy, At
<1>6. ASSUME NEW kind, NEW n, NEW c, NEW d, NEW from, Begin(kind, n, c, from, d)
      PROVE  SeenTo(i, x)'
  BY <1>2, <1>4, <1>5, <1>6 DEF Begin, history
<1>7. ASSUME NEW n, BeginDelete(n)
      PROVE  SeenTo(i, x)'
  BY <1>2, <1>4, <1>5, <1>7 DEF BeginDelete, history
<1>8. ASSUME NEW d \in Ids, NEW y \in Contents, Store(d, y)
      PROVE  SeenTo(i, x)'
  <2>1. docs' = docs /\ rows' = rows /\ owed' = owed /\ mode' = mode
    BY <1>8 DEF Store, history
  <2>2. /\ op'.pc = op.pc /\ op'.kind = op.kind /\ op'.doc = op.doc
        /\ op'.staged = IF At("stage") THEN op.staged \cup {<<d, y>>} ELSE op.staged
        /\ At("capture") => Unstored(op)' = Unstored(op)
        /\ stored'[d] = stored[d] \cup {y} /\ \A e \in Ids \ {d} : stored'[e] = stored[e]
    BY <1>8, OpOfStore
  <2>3. <<d, y>> \in op.todo /\ (At("stage") \/ At("capture"))
    BY <1>8, OpOfStore
  <2>4. CASE i = d /\ x = y
    <3>1. CASE At("stage")
      BY <2>2, <2>4, <3>1 DEF SeenTo, Busy, At
    <3>2. CASE At("capture")
      <4>1. op.kind # "delete"
        BY <2>3, <3>2 DEF Types, Working, Busy, Deletes, At
      <4>2. <<d, y>> \in Unstored(op)
        BY <2>3, <3>2, <4>1 DEF Bytes
      <4> QED
        BY <2>2, <2>4, <3>2, <4>1, <4>2 DEF SeenTo, Busy, At
    <3> QED
      BY <2>3, <3>1, <3>2
  <2>5. CASE ~(i = d /\ x = y)
    <3>1. x \in stored[i]
      BY <2>2, <2>5
    <3>2. SeenTo(i, x)
      BY <1>2, <1>4, <2>1, <3>1
    <3>3. \/ <<i, x>> \in op.staged
          \/ At("capture") /\ op.kind # "delete" /\ <<i, x>> \in Unstored(op)
      BY <2>3, <3>2 DEF SeenTo, Busy, At
    <3> QED
      BY <2>2, <2>3, <3>3 DEF SeenTo, Busy, At
  <2> QED
    BY <2>4, <2>5
<1>9. ASSUME NEW j \in Ids \cup {Absent}, Place(j)
      PROVE  SeenTo(i, x)'
  <2>1. docs' = docs /\ rows' = rows /\ stored' = stored /\ owed' = owed /\ mode' = mode
    BY <1>9 DEF Place, history
  <2>2. SeenTo(i, x)
    BY <1>2, <1>4, <2>1
  <2> QED
    BY <1>9, <2>2, OpOfPlace DEF SeenTo, Busy, At
<1>10. CASE CommitWrite
  <2>1. op.kind = "redaction" /\ i = op.doc
    BY <1>10, GoneAtCommit
  <2>2. op'.pc = "settle" /\ op'.kind = op.kind /\ op'.doc = op.doc
    BY <1>10 DEF CommitWrite, Types, TypeOK, Operation
  <2> QED
    BY <2>1, <2>2 DEF SeenTo, Busy, At
<1>11. CASE CommitDelete
  <2>1. op'.pc = "settle" /\ op'.kind = "delete" /\ op'.doc = op.doc
    BY <1>11 DEF CommitDelete, Types, TypeOK, Operation
  <2>2. CASE i # op.doc
    <3>1. /\ Removed(i)' = Removed(i) /\ stored' = stored /\ owed' = owed /\ mode' = mode
          /\ At("capture") /\ op.kind = "delete"
      BY <1>11, <2>2, KeptAfterDelete DEF CommitDelete
    <3>2. SeenTo(i, x)
      BY <1>2, <3>1
    <3>3. op.staged = {}
      BY <3>1 DEF Types, Working, Busy, Deletes, At
    <3> QED
      BY <3>1, <3>2, <3>3 DEF SeenTo, Busy, At
  <2> QED
    BY <2>1, <2>2 DEF SeenTo, Busy, At
<1>12. CASE Settle
  <2>1. docs' = docs /\ rows' = rows /\ stored' = stored /\ owed' = owed /\ mode' = mode /\ At("settle")
    BY <1>12 DEF Settle, durable, history
  <2>2. SeenTo(i, x)
    BY <1>2, <1>4, <2>1
  <2>3. op.kind \in {"redaction", "delete"} /\ i = op.doc /\ op.doc # Absent
    BY <2>1, <2>2, AbsentAssumption DEF SeenTo, Busy, At
  <2>4. op'.pc = "purge" /\ op'.todo = Unkept(i)
    BY <1>12, <2>3 DEF Settle, Idle
  <2>5. x \notin Kept(i)
    BY <1>4, <2>1, KeptOfRows
  <2>6. <<i, x>> \in op'.todo
    BY <2>1, <2>4, <2>5 DEF Unkept
  <2> QED
    BY <2>4, <2>6 DEF SeenTo, Busy, At
<1>13. CASE SettleFails
  <2>1. /\ docs' = docs /\ rows' = rows /\ stored' = stored /\ mode' = mode /\ At("settle")
        /\ owed' = owed \cup (IF op.kind \in {"redaction", "delete"} THEN {op.doc} \ {Absent} ELSE {})
    BY <1>13 DEF SettleFails, durable
  <2>2. SeenTo(i, x)
    BY <1>2, <1>4, <2>1
  <2>3. op.kind \in {"redaction", "delete"} /\ i = op.doc /\ i # Absent
    BY <2>1, <2>2, AbsentAssumption DEF SeenTo, Busy, At
  <2> QED
    BY <2>1, <2>3
<1>14. ASSUME NEW d \in Ids, NEW y \in Contents, Purge(d, y)
       PROVE  SeenTo(i, x)'
  <2>1. docs' = docs /\ rows' = rows /\ owed' = owed /\ mode' = mode /\ At("purge")
    BY <1>14 DEF Purge, history
  <2>2. /\ op'.pc = "purge" /\ op'.todo = op.todo \ {<<d, y>>}
        /\ x \in stored[i] /\ ~(i = d /\ x = y)
    BY <1>14, <2>1 DEF Purge, Types, TypeOK, Operation, At
  <2>3. SeenTo(i, x)
    BY <1>2, <1>4, <2>1, <2>2
  <2> QED
    BY <2>1, <2>2, <2>3 DEF SeenTo, Busy, At
<1>15. CASE PurgeEnds
  <2>1. /\ docs' = docs /\ rows' = rows /\ stored' = stored /\ owed' = owed /\ mode' = mode
        /\ At("purge") /\ op.todo = {}
    BY <1>15 DEF PurgeEnds, durable, history
  <2>2. SeenTo(i, x)
    BY <1>2, <1>4, <2>1
  <2> QED
    BY <2>1, <2>2 DEF SeenTo, Busy, At
<1>16. CASE PurgeFails
  <2>1. /\ docs' = docs /\ rows' = rows /\ stored' = stored /\ mode' = mode /\ At("purge")
        /\ owed' = owed \cup {d \in Ids : \E u \in op.todo : u[1] = d}
    BY <1>16 DEF PurgeFails, durable
  <2>2. SeenTo(i, x)
    BY <1>2, <1>4, <2>1
  <2>3. s \in op.todo
    BY <2>1, <2>2 DEF SeenTo, Busy, At, s
  <2> QED
    BY <1>1, <2>1, <2>3
<1>17. CASE Fails
  <2>1. /\ docs' = docs /\ rows' = rows /\ stored' = stored /\ mode' = mode
        /\ Busy
        /\ owed' = owed \cup ({op.doc, op.source} \ {Absent})
    BY <1>17 DEF Fails, RollsBack, Busy
  <2>2. SeenTo(i, x)
    BY <1>2, <1>4, <2>1
  <2>3. s \in op.staged \/ s \in Unstored(op)
    BY <2>1, <2>2 DEF SeenTo, Busy, At, s
  <2>4. s \in op.staged => i = op.doc
    BY <1>1, <2>1 DEF Bytes
  <2>5. s \in Unstored(op) => i = op.doc \/ i = op.source
    BY <1>1 DEF Unstored
  <2> QED
    BY <2>1, <2>3, <2>4, <2>5, AbsentAssumption
<1>18. CASE Crash
  BY <1>18 DEF Crash
<1>19. CASE Restart
  BY <1>19 DEF Restart
<1>20. CASE Recover
  <2>1. /\ docs' = docs /\ rows' = rows /\ stored' = stored /\ owed' = owed /\ mode' = mode /\ At("idle")
    BY <1>20 DEF Recover, RollsBack, history
  <2> QED
    BY <1>2, <1>4, <1>5, <2>1
<1>21. CASE RecoveryFails
  BY <1>21 DEF RecoveryFails
<1>22. CASE Sweep
  <2>1. /\ docs' = docs /\ rows' = rows /\ stored' = stored /\ op'.pc = "purge"
        /\ op'.todo = UNION {Unkept(d) : d \in {d \in Ids : Sweepable(d)}}
    BY <1>22 DEF Sweep, Idle, durable
  <2>2. x \in Removed(i)
    BY <1>4, <2>1
  <2>3. Sweepable(i) /\ x \notin Kept(i)
    BY <2>2, RemovedIsSwept, KeptOfRows
  <2>4. <<i, x>> \in Unkept(i)
    BY <2>1, <2>3 DEF Unkept
  <2>5. <<i, x>> \in op'.todo
    BY <2>1, <2>3, <2>4
  <2> QED
    BY <2>1, <2>5 DEF SeenTo, Busy, At
<1>23. ASSUME NEW n, NEW c, OutsideChange(n, c)
       PROVE  SeenTo(i, x)'
  <2>1. /\ docs' = docs /\ rows' = rows /\ stored' = stored /\ owed' = owed /\ mode' = mode /\ op' = op
    BY <1>23 DEF OutsideChange, history
  <2>2. SeenTo(i, x) /\ Unstored(op)' = Unstored(op)
    BY <1>2, <1>4, <2>1, SameUnstored
  <2> QED
    BY <2>1, <2>2 DEF SeenTo, Busy, At
<1>24. ASSUME NEW n \in Names, NEW d \in Ids, RecordEvent(n, d)
       PROVE  SeenTo(i, x)'
  <2>1. Removed(i)' = Removed(i)
    BY <1>24, KeptAfterEvent
  <2>2. stored' = stored /\ owed' = owed /\ mode' = mode /\ At("idle")
    BY <1>24 DEF RecordEvent, history
  <2> QED
    BY <1>2, <1>5, <2>1, <2>2
<1>25. CASE UNCHANGED vars
  <2>1. /\ docs' = docs /\ rows' = rows /\ stored' = stored /\ owed' = owed /\ mode' = mode /\ op' = op
    BY <1>25 DEF vars, durable, history
  <2>2. SeenTo(i, x) /\ Unstored(op)' = Unstored(op)
    BY <1>2, <1>4, <2>1, SameUnstored
  <2> QED
    BY <2>1, <2>2 DEF SeenTo, Busy, At
<1>26. CASE Look \/ Park
  <2>1. SeenTo(i, x)
    BY <1>2, <1>4, <1>26, OpOfLookPark
  <2>2. <<i, x>> \in op.staged
    BY <1>26, <2>1, OpOfLookPark DEF SeenTo, Busy, At
  <2> QED
    BY <1>26, <2>2, OpOfLookPark DEF SeenTo, Busy, At
<1> QED
  BY <1>6, <1>7, <1>8, <1>9, <1>10, <1>11, <1>12, <1>13, <1>14, <1>15, <1>16, <1>17, <1>18, <1>19, <1>20,
     <1>21, <1>22, <1>23, <1>24, <1>25, <1>26 DEF Next

\* What a redaction or a delete removed is gone, when it has purged or at the next start.
THEOREM RemovedAreGoneHolds == Spec => []RemovedAreGone
<1>1. Init => Bytes /\ Gone
  BY BytesInit
<1>2. Types /\ Bytes /\ Gone /\ [Next]_vars => Bytes' /\ Gone'
  BY BytesStep, GoneStep
<1>3. Gone => RemovedAreGone
  BY DEF Gone, RemovedAreGone, SeenTo, Busy, At
<1> QED
  BY <1>1, <1>2, <1>3, TypesHold, PTL DEF Spec

=============================================================================
