-------------------------- MODULE SessionInboxProofs --------------------------
(***************************************************************************)
(* What the rules of SessionInbox decide, for an inbox of any length.      *)
(***************************************************************************)
EXTENDS SessionInbox, SequenceTheorems, WellFoundedInduction, TLAPS

(* A set of positions that is not empty has a first one.                   *)
LEMMA LeastIs ==
    ASSUME NEW S, S \subseteq Nat, S # {}
    PROVE  Least(S) \in S /\ \A j \in S : Least(S) <= j
<1>1. PICK m \in S : \A j \in S : <<j, m>> \notin OpToRel(<, Nat)
  BY WFMin, NatLessThanWellFounded, Zenon
<1>2. \A j \in S : ~(j < m)
  BY <1>1, Zenon DEF OpToRel
<1>3. ASSUME NEW j \in S
      PROVE  m <= j
  <2>1. j \in Nat /\ m \in Nat /\ ~(j < m)
    BY <1>2
  <2> QED
    BY <2>1
<1>4. \E i \in S : \A j \in S : i <= j
  BY <1>3
<1> QED
  BY <1>4, Zenon DEF Least

(* The positions of the rows, as numbers.                                  *)
LEMMA PositionsAreNaturals ==
    ASSUME NEW rows \in Seq(Row)
    PROVE  /\ DOMAIN rows = 1..Len(rows)
           /\ DOMAIN rows \subseteq Nat
           /\ 0 \notin DOMAIN rows
           /\ \A i \in DOMAIN rows : rows[i] \in Row
  OBVIOUS

(* The first steer is a steer.                                             *)
LEMMA FirstSteerIs ==
    ASSUME NEW rows \in Seq(Row), Steers(rows) # {}
    PROVE  FirstSteer(rows) \in Steers(rows)
<1>1. Steers(rows) \subseteq Nat /\ SteeredControls(rows) \subseteq Steers(rows)
  BY PositionsAreNaturals DEF Steers, SteeredControls
<1>2. Least(Steers(rows)) \in Steers(rows)
  BY <1>1, LeastIs
<1>3. SteeredControls(rows) # {} => Least(SteeredControls(rows)) \in Steers(rows)
  BY <1>1, LeastIs
<1> QED
  BY <1>2, <1>3 DEF FirstSteer

(* A steer goes before whatever is queued.  With the scope "input" nothing *)
(* is left to decide on only when nothing is pending.                      *)
LEMMA NextPromotableIs ==
    ASSUME NEW rows \in Seq(Row), NEW scope \in Scopes
    PROVE  LET i == NextPromotable(rows, scope) IN
           /\ i \in DOMAIN rows \cup {0}
           /\ i = 0 => Steers(rows) = {}
           /\ i = 0 /\ scope = "input" => rows = <<>>
           /\ i # 0 /\ rows[i].delivery # "steer" => Steers(rows) = {}
<1> DEFINE i == NextPromotable(rows, scope)
<1>1. CASE Steers(rows) # {}
  <2>1. i \in Steers(rows)
    BY <1>1, FirstSteerIs DEF NextPromotable
  <2> QED
    BY <1>1, <2>1, PositionsAreNaturals DEF Steers
<1>2. CASE Steers(rows) = {} /\ scope = "input" /\ rows # <<>>
  <2>1. DOMAIN rows # {} /\ DOMAIN rows \subseteq Nat
    BY <1>2, LenProperties, EmptySeq, PositionsAreNaturals
  <2>2. i \in DOMAIN rows
    BY <1>2, <2>1, LeastIs DEF NextPromotable
  <2> QED
    BY <1>2, <2>2, PositionsAreNaturals
<1>3. CASE Steers(rows) = {} /\ ~(scope = "input" /\ rows # <<>>)
  <2>1. i = 0
    BY <1>3, Zenon DEF NextPromotable
  <2> QED
    BY <1>3, <2>1
<1> QED
  BY <1>1, <1>2, <1>3

(* A compaction is pulled before prompts only: nothing steered before it is*)
(* a control, so that it never crosses a move.                             *)
THEOREM CompactionCrossesNoMove ==
    ASSUME NEW rows \in Seq(Row), Steers(rows) # {},
           NEW k \in Steers(rows), k < FirstSteer(rows)
    PROVE  rows[k].type = "prompt" /\ rows[FirstSteer(rows)].type = "compaction"
<1>1. Steers(rows) \subseteq Nat /\ SteeredControls(rows) \subseteq Nat
  BY PositionsAreNaturals DEF Steers, SteeredControls
<1>2. FirstSteer(rows) # Least(Steers(rows))
  BY <1>1, LeastIs
<1>3. /\ SteeredControls(rows) # {}
      /\ FirstSteer(rows) = Least(SteeredControls(rows))
      /\ rows[FirstSteer(rows)].type = "compaction"
  BY <1>2, Zenon DEF FirstSteer
<1>4. k \notin SteeredControls(rows)
  BY <1>1, <1>3, LeastIs
<1> QED
  BY <1>3, <1>4 DEF SteeredControls, IsControl

(* Without keeps every other row, in order.                                *)
LEMMA WithoutIs ==
    ASSUME NEW rows \in Seq(Row), NEW i \in DOMAIN rows
    PROVE  /\ Without(rows, i) \in Seq(Row)
           /\ Len(Without(rows, i)) = Len(rows) - 1
           /\ \A m \in 1..(Len(rows) - 1) :
                 Without(rows, i)[m] = rows[IF m < i THEN m ELSE m + 1]
<1>1. i \in 1..Len(rows) /\ Len(rows) \in Nat
  BY PositionsAreNaturals, LenProperties
<1>2. /\ SubSeq(rows, 1, i - 1) \in Seq(Row)
      /\ Len(SubSeq(rows, 1, i - 1)) = i - 1
      /\ \A m \in 1..(i - 1) : SubSeq(rows, 1, i - 1)[m] = rows[m]
  BY <1>1, SubSeqProperties
<1>3. /\ SubSeq(rows, i + 1, Len(rows)) \in Seq(Row)
      /\ Len(SubSeq(rows, i + 1, Len(rows))) = Len(rows) - i
      /\ \A m \in 1..(Len(rows) - i) : SubSeq(rows, i + 1, Len(rows))[m] = rows[i + m]
  BY <1>1, SubSeqProperties
<1> DEFINE a == SubSeq(rows, 1, i - 1)
           b == SubSeq(rows, i + 1, Len(rows))
<1>4. Without(rows, i) = a \o b
  BY DEF Without
<1> HIDE DEF a, b
<1>5. /\ a \o b \in Seq(Row)
      /\ Len(a \o b) = Len(a) + Len(b)
      /\ \A m \in 1..Len(a) + Len(b) :
            (a \o b)[m] = IF m <= Len(a) THEN a[m] ELSE b[m - Len(a)]
  BY <1>2, <1>3, ConcatProperties DEF a, b
<1>6. Len(a) = i - 1 /\ Len(b) = Len(rows) - i
  BY <1>2, <1>3 DEF a, b
<1>7. \A m \in 1..(i - 1) : a[m] = rows[m]
  BY <1>2 DEF a
<1>8. \A m \in 1..(Len(rows) - i) : b[m] = rows[i + m]
  BY <1>3 DEF b
<1>9. ASSUME NEW m \in 1..(Len(rows) - 1)
       PROVE  (a \o b)[m] = rows[IF m < i THEN m ELSE m + 1]
  <2>1. /\ m \in 1..Len(a) + Len(b)
        /\ m <= Len(a) <=> m < i
        /\ m - Len(a) = m - (i - 1)
    BY <1>1, <1>6
  <2>2. (a \o b)[m] = IF m < i THEN a[m] ELSE b[m - (i - 1)]
    BY <1>5, <2>1, Zenon
  <2>3. CASE m < i
    <3>1. m \in 1..(i - 1)
      BY <1>1, <2>3
    <3> QED
      BY <1>7, <2>3, <2>2, <3>1, Zenon
  <2>4. CASE ~(m < i)
    <3>1. m - (i - 1) \in 1..(Len(rows) - i) /\ i + (m - (i - 1)) = m + 1
      BY <1>1, <2>4
    <3>2. b[m - (i - 1)] = rows[m + 1]
      BY <1>8, <3>1, Zenon
    <3> QED
      BY <2>4, <2>2, <3>2, Zenon
  <2> QED
    BY <2>3, <2>4
<1>10. Len(a) + Len(b) = Len(rows) - 1
  BY <1>1, <1>6
<1>11. Without(rows, i) \in Seq(Row) /\ Len(Without(rows, i)) = Len(rows) - 1
  BY <1>4, <1>5, <1>10, Zenon
<1>12. \A m \in 1..(Len(rows) - 1) : Without(rows, i)[m] = rows[IF m < i THEN m ELSE m + 1]
  BY <1>4, <1>9, Zenon
<1> QED
  BY <1>11, <1>12

(* Ids of different rows differ.                                           *)
DistinctIds(rows) ==
    \A i, j \in DOMAIN rows : rows[i].id = rows[j].id => i = j

SteerIds(rows) == {rows[i].id : i \in Steers(rows)}

(* A row taken out takes its id with it, and no other.                     *)
LEMMA WithoutIds ==
    ASSUME NEW rows \in Seq(Row), NEW i \in DOMAIN rows
    PROVE  /\ PendingIds(rows) \ {rows[i].id} \subseteq PendingIds(Without(rows, i))
           /\ PendingIds(Without(rows, i)) \subseteq PendingIds(rows)
           /\ SteerIds(rows) \ {rows[i].id} \subseteq SteerIds(Without(rows, i))
           /\ DistinctIds(rows) => /\ DistinctIds(Without(rows, i))
                                   /\ rows[i].id \notin PendingIds(Without(rows, i))
<1> DEFINE new == Without(rows, i)
           was(m) == IF m < i THEN m ELSE m + 1
           now(k) == IF k < i THEN k ELSE k - 1
<1>1. i \in 1..Len(rows) /\ Len(rows) \in Nat /\ DOMAIN rows = 1..Len(rows)
  BY PositionsAreNaturals, LenProperties
<1>2. DOMAIN new = 1..(Len(rows) - 1) /\ \A m \in DOMAIN new : new[m] = rows[was(m)]
  BY WithoutIs, PositionsAreNaturals
<1> HIDE DEF new
<1>3. \A m \in DOMAIN new : was(m) \in DOMAIN rows \ {i}
  BY <1>1, <1>2
<1>4. \A k \in DOMAIN rows \ {i} : now(k) \in DOMAIN new /\ new[now(k)] = rows[k]
  <2>1. \A k \in DOMAIN rows \ {i} : now(k) \in DOMAIN new /\ was(now(k)) = k
    BY <1>1, <1>2
  <2> QED
    BY <1>2, <2>1, Zenon
<1>5. \A m, n \in DOMAIN new : was(m) = was(n) => m = n
  BY <1>1, <1>2
<1> HIDE DEF was, now
<1>6. PendingIds(rows) \ {rows[i].id} \subseteq PendingIds(new)
  BY <1>4, Zenon DEF PendingIds
<1>7. PendingIds(new) \subseteq PendingIds(rows)
  BY <1>2, <1>3, Zenon DEF PendingIds
<1>8. SteerIds(rows) \ {rows[i].id} \subseteq SteerIds(new)
  <2> SUFFICES ASSUME NEW k \in Steers(rows), rows[k].id # rows[i].id
               PROVE  rows[k].id \in SteerIds(new)
    BY Zenon DEF SteerIds
  <2>1. k \in DOMAIN rows \ {i} /\ rows[k].delivery = "steer"
    BY DEF Steers
  <2>2. now(k) \in Steers(new) /\ new[now(k)] = rows[k]
    BY <1>4, <2>1, Zenon DEF Steers
  <2> QED
    BY <2>2, Zenon DEF SteerIds
<1>9. ASSUME DistinctIds(rows)
      PROVE  DistinctIds(new) /\ rows[i].id \notin PendingIds(new)
  <2>1. DistinctIds(new)
    BY <1>2, <1>3, <1>5, <1>9, Zenon DEF DistinctIds
  <2>2. rows[i].id \notin PendingIds(new)
    <3> SUFFICES ASSUME NEW m \in DOMAIN new, new[m].id = rows[i].id
                 PROVE  FALSE
      BY Zenon DEF PendingIds
    <3>1. was(m) \in DOMAIN rows /\ was(m) # i /\ rows[was(m)].id = rows[i].id
      BY <1>2, <1>3
    <3> QED
      BY <1>9, <3>1 DEF DistinctIds
  <2> QED
    BY <2>1, <2>2
<1> QED
  BY <1>6, <1>7, <1>8, <1>9, Zenon DEF new

(* A row that is enqueued.                                                 *)
LEMMA AppendIds ==
    ASSUME NEW rows \in Seq(Row), NEW row \in Row
    PROVE  /\ Append(rows, row) \in Seq(Row)
           /\ PendingIds(Append(rows, row)) = PendingIds(rows) \cup {row.id}
           /\ SteerIds(rows) \subseteq SteerIds(Append(rows, row))
           /\ row.id \notin PendingIds(rows) /\ DistinctIds(rows)
                 => DistinctIds(Append(rows, row))
<1> DEFINE new == Append(rows, row)
           n == Len(rows)
<1>1. /\ new \in Seq(Row) /\ n \in Nat
      /\ DOMAIN rows = 1..n /\ DOMAIN new = 1..(n + 1)
      /\ new[n + 1] = row
      /\ \A k \in 1..n : new[k] = rows[k]
  BY AppendProperties, LenProperties
<1> HIDE DEF new, n
<1>2. /\ DOMAIN new = DOMAIN rows \cup {n + 1}
      /\ n + 1 \notin DOMAIN rows
  BY <1>1
<1>3. PendingIds(new) = PendingIds(rows) \cup {row.id}
  <2>1. PendingIds(new) \subseteq PendingIds(rows) \cup {row.id}
    BY <1>1, <1>2, Zenon DEF PendingIds
  <2>2. PendingIds(rows) \cup {row.id} \subseteq PendingIds(new)
    BY <1>1, <1>2, Zenon DEF PendingIds
  <2> QED
    BY <2>1, <2>2
<1>4. SteerIds(rows) \subseteq SteerIds(new)
  <2> SUFFICES ASSUME NEW k \in Steers(rows)
               PROVE  rows[k].id \in SteerIds(new)
    BY Zenon DEF SteerIds
  <2>1. k \in Steers(new) /\ new[k] = rows[k]
    BY <1>1, <1>2, Zenon DEF Steers
  <2> QED
    BY <2>1, Zenon DEF SteerIds
<1>5. row.id \notin PendingIds(rows) /\ DistinctIds(rows) => DistinctIds(new)
  BY <1>1, <1>2, Zenon DEF DistinctIds, PendingIds
<1> QED
  BY <1>1, <1>3, <1>4, <1>5, Zenon DEF new

(* A row whose delivery changes.                                           *)
LEMMA RedeliveredIds ==
    ASSUME NEW rows \in Seq(Row), NEW i \in DOMAIN rows, NEW d \in Deliveries
    PROVE  /\ Redelivered(rows, i, d) \in Seq(Row)
           /\ PendingIds(Redelivered(rows, i, d)) = PendingIds(rows)
           /\ SteerIds(rows) \ {rows[i].id} \subseteq SteerIds(Redelivered(rows, i, d))
           /\ d = "steer" => SteerIds(rows) \subseteq SteerIds(Redelivered(rows, i, d))
           /\ DistinctIds(rows) => DistinctIds(Redelivered(rows, i, d))
<1> DEFINE new == Redelivered(rows, i, d)
<1>1. rows[i] \in Row /\ [rows[i] EXCEPT !.delivery = d] \in Row
  BY PositionsAreNaturals DEF Row
<1>2. new \in Seq(Row)
  BY <1>1, ExceptSeq DEF Redelivered
<1>3. /\ DOMAIN new = DOMAIN rows
      /\ \A k \in DOMAIN rows : new[k] = IF k = i THEN [rows[i] EXCEPT !.delivery = d] ELSE rows[k]
  BY DEF Redelivered
<1> HIDE DEF new
<1>4. \A k \in DOMAIN rows : /\ new[k].id = rows[k].id
                             /\ new[k].delivery = IF k = i THEN d ELSE rows[k].delivery
  BY <1>1, <1>3 DEF Row
<1>5. PendingIds(new) = PendingIds(rows)
  BY <1>3, <1>4 DEF PendingIds
<1>6. \A k \in Steers(rows) : k # i \/ d = "steer" => k \in Steers(new)
  BY <1>3, <1>4 DEF Steers
<1>7. /\ SteerIds(rows) \ {rows[i].id} \subseteq SteerIds(new)
      /\ d = "steer" => SteerIds(rows) \subseteq SteerIds(new)
  <2> SUFFICES ASSUME NEW k \in Steers(rows), rows[k].id # rows[i].id \/ d = "steer"
               PROVE  rows[k].id \in SteerIds(new)
    BY Zenon DEF SteerIds
  <2>1. k \in Steers(new) /\ k \in DOMAIN rows
    BY <1>6 DEF Steers
  <2> QED
    BY <1>4, <2>1, Zenon DEF SteerIds
<1>8. DistinctIds(rows) => DistinctIds(new)
  BY <1>3, <1>4 DEF DistinctIds
<1> QED
  BY <1>2, <1>5, <1>7, <1>8, Zenon DEF new

(* The row of a pending id is found.                                       *)
LEMMA IndexOfIs ==
    ASSUME NEW rows \in Seq(Row), NEW id \in PendingIds(rows)
    PROVE  IndexOf(rows, id) \in DOMAIN rows /\ rows[IndexOf(rows, id)].id = id
  BY DEF PendingIds, IndexOf

(* A set of ids that holds, with the id of a row, those of the rows before *)
(* it of the same delivery: what a promotion still has to publish.         *)
FirstIn(rows, ids) ==
    \A j \in DOMAIN rows : rows[j].id \in ids =>
        \A i \in DOMAIN rows :
            i < j /\ rows[i].delivery = rows[j].delivery => rows[i].id \in ids

(* Rows that are first of their kind are so when another row is appended.  *)
LEMMA AppendFirst ==
    ASSUME NEW rows \in Seq(Row), NEW row \in Row, NEW ids,
           ids \subseteq PendingIds(rows), row.id \notin PendingIds(rows), FirstIn(rows, ids)
    PROVE  FirstIn(Append(rows, row), ids)
<1> DEFINE new == Append(rows, row)
           n == Len(rows)
<1>1. /\ n \in Nat /\ DOMAIN rows = 1..n /\ DOMAIN new = 1..(n + 1)
      /\ new[n + 1] = row
      /\ \A k \in 1..n : new[k] = rows[k]
  BY AppendProperties, LenProperties
<1> HIDE DEF new, n
<1> SUFFICES ASSUME NEW j \in DOMAIN new, new[j].id \in ids,
                    NEW i \in DOMAIN new, i < j, new[i].delivery = new[j].delivery
             PROVE  new[i].id \in ids
  BY Zenon DEF FirstIn, new
<1>2. j # n + 1
  BY <1>1
<1>3. j \in DOMAIN rows /\ i \in DOMAIN rows
  BY <1>1, <1>2
<1> QED
  BY <1>1, <1>3, Zenon DEF FirstIn

(* And when one of them is taken out.                                      *)
LEMMA WithoutFirst ==
    ASSUME NEW rows \in Seq(Row), NEW i \in DOMAIN rows, NEW ids,
           DistinctIds(rows), FirstIn(rows, ids)
    PROVE  FirstIn(Without(rows, i), ids \ {rows[i].id})
<1> DEFINE new == Without(rows, i)
           was(m) == IF m < i THEN m ELSE m + 1
<1>1. i \in 1..Len(rows) /\ Len(rows) \in Nat /\ DOMAIN rows = 1..Len(rows)
  BY PositionsAreNaturals, LenProperties
<1>2. DOMAIN new = 1..(Len(rows) - 1) /\ \A m \in DOMAIN new : new[m] = rows[was(m)]
  BY WithoutIs, PositionsAreNaturals
<1> HIDE DEF new
<1> SUFFICES ASSUME NEW n \in DOMAIN new, new[n].id \in ids \ {rows[i].id},
                    NEW m \in DOMAIN new, m < n, new[m].delivery = new[n].delivery
             PROVE  new[m].id \in ids \ {rows[i].id}
  BY Zenon DEF FirstIn, new
<1>3. /\ was(m) \in DOMAIN rows /\ was(n) \in DOMAIN rows
      /\ was(m) < was(n) /\ was(m) # i
  BY <1>1, <1>2
<1>4. new[m] = rows[was(m)] /\ new[n] = rows[was(n)]
  BY <1>2
<1> HIDE DEF was
<1>5. rows[was(m)].id \in ids
  BY <1>3, <1>4, Zenon DEF FirstIn
<1>6. rows[was(m)].id # rows[i].id
  BY <1>3, Zenon DEF DistinctIds
<1> QED
  BY <1>4, <1>5, <1>6

(* What a promotion publishes is such a set.                               *)
LEMMA SteersToControlFirst ==
    ASSUME NEW rows \in Seq(Row), DistinctIds(rows)
    PROVE  FirstIn(rows, {rows[i].id : i \in SteersToControl(rows)})
<1> SUFFICES ASSUME NEW j \in DOMAIN rows, NEW k \in SteersToControl(rows),
                    rows[j].id = rows[k].id,
                    NEW i \in DOMAIN rows, i < j, rows[i].delivery = rows[j].delivery
             PROVE  i \in SteersToControl(rows)
  BY Zenon DEF FirstIn
<1>1. /\ SteersToControl(rows) \subseteq Steers(rows)
      /\ SteersToControl(rows) # {} => SteersToControl(rows) =
            {s \in Steers(rows) : \A c \in SteeredControls(rows) : s < c}
  BY DEF SteersToControl
<1>2. j = k
  BY <1>1, Zenon DEF DistinctIds, Steers
<1>3. i \in Steers(rows)
  BY <1>1, <1>2 DEF Steers
<1>4. SteeredControls(rows) \subseteq Nat /\ i \in Nat /\ j \in Nat
  BY PositionsAreNaturals DEF Steers, SteeredControls
<1>5. \A c \in SteeredControls(rows) : j < c
  BY <1>1, <1>2
<1>6. \A c \in SteeredControls(rows) : i < c
  BY <1>4, <1>5
<1> QED
  BY <1>1, <1>2, <1>3, <1>6

(* Where nothing is steered, the next row is the first of the queued ones. *)
LEMMA FirstQueuedFirst ==
    ASSUME NEW rows \in Seq(Row), DistinctIds(rows), Steers(rows) = {}, rows # <<>>
    PROVE  FirstIn(rows, {rows[NextPromotable(rows, "input")].id})
<1>1. DOMAIN rows # {} /\ DOMAIN rows \subseteq Nat
  BY LenProperties, EmptySeq, PositionsAreNaturals
<1>2. /\ NextPromotable(rows, "input") \in DOMAIN rows
      /\ \A i \in DOMAIN rows : NextPromotable(rows, "input") <= i
  BY <1>1, LeastIs DEF NextPromotable
<1> SUFFICES ASSUME NEW j \in DOMAIN rows, rows[j].id = rows[NextPromotable(rows, "input")].id,
                    NEW i \in DOMAIN rows, i < j
             PROVE  FALSE
  BY Zenon DEF FirstIn
<1>3. j = NextPromotable(rows, "input")
  BY <1>2, Zenon DEF DistinctIds
<1> QED
  BY <1>1, <1>2, <1>3
=============================================================================
