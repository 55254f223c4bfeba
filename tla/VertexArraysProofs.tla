--------------------------- MODULE VertexArraysProofs ---------------------------
(***************************************************************************)
(* Proofs about vertex arrays and draw calls, for any number of arrays,    *)
(* buffers, vertex array objects and vertices.                             *)
(***************************************************************************)
EXTENDS VertexArrays, Integers, SequenceTheorems, WellFoundedInduction, TLAPS

(***************************************************************************)
(* A set of numbers has a least one.                                       *)
(***************************************************************************)
LEMMA LeastNatural ==
  ASSUME NEW S \in SUBSET Nat, S # {}
  PROVE  \E m \in S : \A k \in S : m <= k
  <1> DEFINE R == {ss \in Nat \X Nat : ss[1] < ss[2]}
  <1>1. OpToRel(<, Nat) = R
    BY Zenon DEF OpToRel
  <1>2. IsWellFoundedOn(R, Nat)
    BY <1>1, NatLessThanWellFounded, Zenon
  <1>3. \A a, b \in Nat : a < b => <<a, b>> \in R
    OBVIOUS
  <1> HIDE DEF R
  <1>4. PICK x \in S : \A y \in S : ~ (<<y, x>> \in R)
    BY <1>2, WFMin, Zenon
  <1>5. x \in Nat /\ S \subseteq Nat
    OBVIOUS
  <1>6. ASSUME NEW k \in S PROVE x <= k
    <2>1. ~(<<k, x>> \in R)
      BY <1>4
    <2> QED BY <1>3, <1>5, <2>1
  <1> QED BY <1>6

LEMMA LowestIs ==
  ASSUME NEW S \in SUBSET Nat, NEW other
  PROVE  /\ S = {} => Lowest(S, other) = other
         /\ S # {} => Lowest(S, other) \in S /\ \A k \in S : Lowest(S, other) <= k
  BY LeastNatural DEF Lowest

(***************************************************************************)
(* The list.                                                               *)
(***************************************************************************)
Link == [index : Indices, chunk : Nat]

(* What is left of list l without the link at p.                           *)
Taken(l, p, m) ==
  /\ Len(m) = Len(l) - 1
  /\ \A k \in 1 .. Len(l) - 1 : m[k] = IF k < p THEN l[k] ELSE l[k + 1]

LEMMA WithoutIs ==
  ASSUME NEW l \in Seq(Link), NEW i \in Indices
  PROVE  /\ Without(l, i) \in Seq(Link)
         /\ (\A p \in 1 .. Len(l) : l[p].index # i) => Without(l, i) = l
         /\ (\E p \in 1 .. Len(l) : l[p].index = i) =>
              \E p \in 1 .. Len(l) : l[p].index = i /\ Taken(l, p, Without(l, i))
  <1> DEFINE at == {p \in DOMAIN l : l[p].index = i}
             p  == CHOOSE x \in at : TRUE
             before == SubSeq(l, 1, p - 1)
             after  == SubSeq(l, p + 1, Len(l))
  <1>1. Len(l) \in Nat /\ DOMAIN l = 1 .. Len(l) /\ \A k \in 1 .. Len(l) : l[k] \in Link
    OBVIOUS
  <1>2. Without(l, i) = IF at = {} THEN l ELSE before \o after
    BY Zenon DEF Without
  <1>3. CASE at = {}
    BY <1>1, <1>2, <1>3
  <1>4. CASE at # {}
    <2>1. p \in 1 .. Len(l) /\ l[p].index = i
      BY <1>1, <1>4
    <2> HIDE DEF p, at
    <2>2. /\ before \in Seq(Link) /\ Len(before) = p - 1
          /\ \A k \in 1 .. p - 1 : before[k] = l[k]
      BY <1>1, <2>1, SubSeqProperties
    <2>3. \A k \in p + 1 .. Len(l) : l[k] \in Link
      BY <1>1, <2>1
    <2>4. /\ after \in Seq(Link) /\ Len(after) = Len(l) - p
          /\ \A k \in 1 .. Len(l) - p : after[k] = l[p + k]
      <3>1. /\ after \in Seq(Link)
            /\ Len(after) = IF p + 1 <= Len(l) THEN Len(l) - (p + 1) + 1 ELSE 0
            /\ \A k \in 1 .. Len(l) - (p + 1) + 1 : after[k] = l[p + 1 + k - 1]
        BY <1>1, <2>1, <2>3, SubSeqProperties
      <3> HIDE DEF after
      <3>2. Len(l) - (p + 1) + 1 = Len(l) - p
        BY <1>1, <2>1
      <3>3. ASSUME NEW k \in 1 .. Len(l) - p PROVE after[k] = l[p + k]
        <4>1. p + 1 + k - 1 = p + k /\ k \in 1 .. Len(l) - (p + 1) + 1
          BY <1>1, <2>1
        <4> QED BY <3>1, <4>1
      <3>4. Len(after) = Len(l) - p
        <4>1. p \in 1 .. Len(l) /\ Len(l) \in Nat
          BY <1>1, <2>1
        <4>2. Len(after) = IF p + 1 <= Len(l) THEN Len(l) - (p + 1) + 1 ELSE 0
          BY <3>1
        <4> QED BY <4>1, <4>2
      <3> QED BY <3>1, <3>3, <3>4
    <2> HIDE DEF before, after
    <2>5. /\ before \o after \in Seq(Link)
          /\ Len(before \o after) = Len(l) - 1
          /\ \A k \in 1 .. Len(l) - 1 :
               (before \o after)[k] = IF k <= p - 1 THEN before[k] ELSE after[k - (p - 1)]
      <3>1. /\ before \o after \in Seq(Link)
            /\ Len(before \o after) = Len(before) + Len(after)
            /\ \A k \in 1 .. Len(before) + Len(after) :
                 (before \o after)[k] = IF k <= Len(before) THEN before[k]
                                        ELSE after[k - Len(before)]
        BY <2>2, <2>4, ConcatProperties
      <3>2. Len(before) = p - 1 /\ Len(before) + Len(after) = Len(l) - 1
        BY <1>1, <2>1, <2>2, <2>4
      <3> QED BY <3>1, <3>2
    <2>6. ASSUME NEW k \in 1 .. Len(l) - 1
          PROVE  (before \o after)[k] = IF k < p THEN l[k] ELSE l[k + 1]
      <3>1. CASE k < p
        BY <1>1, <2>1, <2>2, <2>5, <3>1
      <3>2. CASE k >= p
        <4>1. k - (p - 1) \in 1 .. Len(l) - p /\ p + (k - (p - 1)) = k + 1 /\ ~(k <= p - 1)
          BY <1>1, <2>1, <3>2
        <4> QED BY <1>1, <2>1, <2>4, <2>5, <3>2, <4>1
      <3>3. k < p \/ k >= p
        BY <1>1, <2>1
      <3> QED BY <3>1, <3>2, <3>3, Zenon
    <2>7. Taken(l, p, before \o after)
      BY <2>5, <2>6 DEF Taken
    <2> QED BY <1>2, <1>4, <2>1, <2>5, <2>7
  <1> QED BY <1>3, <1>4

(* The array of index i has gone into list l at `at'.                      *)
Grown(x) == [x EXCEPT !.chunk = @ + 1]
Inserted(l, i, hit, at, own, m) ==
  /\ Len(m) = Len(l) + 1
  /\ m[at] = [index |-> i, chunk |-> own]
  /\ \A k \in 1 .. at - 1 : m[k] = IF k < hit THEN Grown(l[k]) ELSE l[k]
  /\ \A k \in at .. Len(l) : m[k + 1] = l[k]

(* Where: by the first array it overlaps, in its chunk, by address.        *)
Placed(s, i, hit, at, own) ==
  LET l == s.list IN
  /\ hit \in 1 .. Len(l) + 1 /\ at \in hit .. Len(l) + 1
  /\ hit <= Len(l) =>
       /\ Overlap(s.table[i].array, s.table[l[hit].index].array)
       /\ own = l[hit].chunk
       /\ \A k \in hit .. at - 1 :
            /\ l[k].chunk = own
            /\ ~(s.table[l[k].index].array.ptr >= s.table[i].array.ptr)
       /\ at <= Len(l) =>
            l[at].chunk # own \/ s.table[l[at].index].array.ptr >= s.table[i].array.ptr
  /\ hit = Len(l) + 1 => own = IF l = << >> THEN 1 ELSE l[Len(l)].chunk

AddedTo(s, i, m) ==
  \E hit, at \in 1 .. Len(s.list) + 1, own \in Nat :
    /\ Placed(s, i, hit, at, own)
    /\ at = 1 => m = <<[index |-> i, chunk |-> own]>>
    /\ at # 1 => Inserted(s.list, i, hit, at, own, m)

LEMMA AddedIs ==
  ASSUME NEW s, s.list \in Seq(Link), NEW i \in Indices
  PROVE  \E m \in Seq(Link) :
           /\ AddedTo(s, i, m)
           /\ Added(s, i) = [s EXCEPT !.count = @ + 1, !.list = m]
  <1> DEFINE l     == s.list
             end   == Len(l) + 1
             hits  == {p \in DOMAIN l : Overlap(s.table[i].array, s.table[l[p].index].array)}
             hit   == Lowest(hits, end)
             above == FirstAbove(s, i, hit)
             at    == IF hit = end THEN end ELSE Lowest(above, end)
             own   == IF l = << >> THEN FirstChunk ELSE l[IF hit = end THEN Len(l) ELSE hit].chunk
             grown == [p \in DOMAIN l |-> IF p < hit THEN [l[p] EXCEPT !.chunk = @ + 1] ELSE l[p]]
             new   == <<[index |-> i, chunk |-> own]>>
             m     == IF at = 1 THEN new
                      ELSE SubSeq(grown, 1, at - 1) \o new \o SubSeq(grown, at, Len(l))
  <1>1. Added(s, i) = [s EXCEPT !.count = @ + 1, !.list = m]
    BY Zenon DEF Added
  <1>2. /\ Len(l) \in Nat /\ DOMAIN l = 1 .. Len(l)
        /\ \A k \in 1 .. Len(l) : l[k] \in Link
        /\ l = << >> <=> Len(l) = 0
    OBVIOUS
  <1>3. /\ hit \in 1 .. end
        /\ hit <= Len(l) => Overlap(s.table[i].array, s.table[l[hit].index].array)
    <2>1. hits \in SUBSET Nat /\ hits \subseteq 1 .. Len(l)
      BY <1>2
    <2>2. \A q \in hits : Overlap(s.table[i].array, s.table[l[q].index].array)
      OBVIOUS
    <2> HIDE DEF hits
    <2>3. hits = {} => hit = end
      BY <2>1, LowestIs
    <2>4. hits # {} => hit \in hits
      BY <2>1, LowestIs
    <2> HIDE DEF hit
    <2>5. CASE hits = {}
      BY <1>2, <2>3, <2>5
    <2>6. CASE hits # {}
      <3>1. hit \in hits /\ hit \in 1 .. Len(l)
        BY <2>1, <2>4, <2>6
      <3>2. hit \in 1 .. end
        BY <1>2, <3>1
      <3> QED BY <2>2, <3>1, <3>2, Zenon
    <2> QED BY <2>5, <2>6
  <1> HIDE DEF hits, hit
  <1>4. /\ above \in SUBSET (hit .. Len(l))
        /\ \A q \in hit .. Len(l) :
             q \in above <=> \/ l[q].chunk # l[hit].chunk
                             \/ s.table[l[q].index].array.ptr >= s.table[i].array.ptr
    BY DEF FirstAbove
  <1>5. /\ at \in hit .. end
        /\ hit = end => at = end
        /\ at <= Len(l) => at \in above
        /\ \A k \in hit .. at - 1 : hit <= Len(l) => k \notin above
    <2>1. above \in SUBSET Nat
      BY <1>3, <1>4
    <2>2. above = {} => Lowest(above, end) = end
      BY <2>1, LowestIs
    <2>3. above # {} => Lowest(above, end) \in above /\ \A k \in above : Lowest(above, end) <= k
      BY <2>1, LowestIs
    <2> HIDE DEF above
    <2>4. CASE hit = end
      BY <1>2, <1>3, <2>4
    <2>5. CASE hit # end
      <3>1. CASE above = {}
        BY <1>2, <1>3, <2>2, <2>5, <3>1
      <3>2. CASE above # {}
        <4> DEFINE low == Lowest(above, end)
        <4>1. low \in above /\ (\A k \in above : low <= k) /\ low \in hit .. Len(l)
          BY <1>4, <2>3, <3>2
        <4>2. at = low
          BY <2>5
        <4> HIDE DEF low, at
        <4>3. \A k \in hit .. low - 1 : k \notin above
          BY <1>2, <1>3, <4>1
        <4> QED BY <1>2, <1>3, <2>5, <4>1, <4>2, <4>3
      <3> QED BY <3>1, <3>2
    <2> QED BY <2>4, <2>5
  <1> HIDE DEF above, at
  <1>6. own \in Nat
    BY <1>2, <1>3 DEF FirstChunk, Link
  <1>7. Placed(s, i, hit, at, own)
    <2>1. hit <= Len(l) => own = l[hit].chunk
      BY <1>2, <1>3
    <2>2. hit = Len(l) + 1 => own = IF l = << >> THEN 1 ELSE l[Len(l)].chunk
      BY <1>2, <1>3 DEF FirstChunk
    <2> HIDE DEF own
    <2> QED BY <1>2, <1>3, <1>4, <1>5, <2>1, <2>2 DEF Placed
  <1> HIDE DEF own
  <1>8. CASE at = 1
    <2>1. m = new /\ new \in Seq(Link)
      BY <1>6, <1>8 DEF Link
    <2> HIDE DEF m
    <2>2. AddedTo(s, i, m)
      BY <1>2, <1>3, <1>5, <1>6, <1>7, <1>8, <2>1 DEF AddedTo
    <2> QED BY <1>1, <2>1, <2>2
  <1>9. CASE at # 1
    <2>1. /\ \A k \in 1 .. Len(l) : grown[k] = IF k < hit THEN Grown(l[k]) ELSE l[k]
          /\ \A k \in 1 .. Len(l) : grown[k] \in Link
      <3>1. \A x \in Link : Grown(x) \in Link /\ Grown(x) = [x EXCEPT !.chunk = @ + 1]
        BY DEF Grown, Link
      <3>2. \A k \in 1 .. Len(l) : grown[k] = IF k < hit THEN Grown(l[k]) ELSE l[k]
        BY <1>2, <3>1
      <3> HIDE DEF grown
      <3> QED BY <1>2, <3>1, <3>2
    <2> HIDE DEF grown
    <2> DEFINE before == SubSeq(grown, 1, at - 1)
               after  == SubSeq(grown, at, Len(l))
    <2>2. /\ before \in Seq(Link) /\ Len(before) = at - 1
          /\ \A k \in 1 .. at - 1 : before[k] = grown[k]
      <3>1. at - 1 \in Int /\ \A k \in 1 .. at - 1 : grown[k] \in Link
        BY <1>2, <1>3, <1>5, <2>1
      <3>2. /\ before \in Seq(Link)
            /\ Len(before) = IF 1 <= at - 1 THEN (at - 1) - 1 + 1 ELSE 0
            /\ \A k \in 1 .. (at - 1) - 1 + 1 : before[k] = grown[1 + k - 1]
        BY <3>1, SubSeqProperties
      <3> QED BY <1>2, <1>3, <1>5, <3>2
    <2>3. /\ after \in Seq(Link) /\ Len(after) = Len(l) - at + 1
          /\ \A k \in 1 .. Len(l) - at + 1 : after[k] = grown[at + k - 1]
      <3>1. at \in Int /\ Len(l) \in Int /\ \A k \in at .. Len(l) : grown[k] \in Link
        BY <1>2, <1>3, <1>5, <2>1
      <3>2. /\ after \in Seq(Link)
            /\ Len(after) = IF at <= Len(l) THEN Len(l) - at + 1 ELSE 0
            /\ \A k \in 1 .. Len(l) - at + 1 : after[k] = grown[at + k - 1]
        BY <3>1, SubSeqProperties
      <3> QED BY <1>2, <1>3, <1>5, <3>2
    <2>4. m = before \o new \o after
      BY <1>9
    <2>5. new \in Seq(Link) /\ Len(new) = 1 /\ new[1] = [index |-> i, chunk |-> own]
      BY <1>6 DEF Link
    <2> HIDE DEF m, before, after, new
    <2> DEFINE front == before \o new
    <2>6. /\ front \in Seq(Link) /\ Len(front) = at
          /\ \A k \in 1 .. at : front[k] = IF k <= at - 1 THEN before[k] ELSE new[k - (at - 1)]
      <3>1. /\ front \in Seq(Link) /\ Len(front) = Len(before) + Len(new)
            /\ \A k \in 1 .. Len(before) + Len(new) :
                 front[k] = IF k <= Len(before) THEN before[k] ELSE new[k - Len(before)]
        BY <2>2, <2>5, ConcatProperties
      <3> HIDE DEF front
      <3>2. Len(before) = at - 1 /\ Len(before) + Len(new) = at
        BY <1>2, <1>3, <1>5, <2>2, <2>5
      <3> QED BY <3>1, <3>2
    <2> HIDE DEF front
    <2>7. /\ front \o after \in Seq(Link) /\ Len(front \o after) = Len(l) + 1
          /\ \A k \in 1 .. Len(l) + 1 :
               (front \o after)[k] = IF k <= at THEN front[k] ELSE after[k - at]
      <3>1. /\ front \o after \in Seq(Link)
            /\ Len(front \o after) = Len(front) + Len(after)
            /\ \A k \in 1 .. Len(front) + Len(after) :
                 (front \o after)[k] = IF k <= Len(front) THEN front[k]
                                       ELSE after[k - Len(front)]
        BY <2>3, <2>6, ConcatProperties
      <3>2. Len(front) = at /\ Len(front) + Len(after) = Len(l) + 1
        BY <1>2, <1>3, <1>5, <2>3, <2>6
      <3> QED BY <3>1, <3>2
    <2>8. m = front \o after
      BY <2>4 DEF front
    <2>9. m[at] = [index |-> i, chunk |-> own]
      BY <1>2, <1>3, <1>5, <2>5, <2>6, <2>7, <2>8
    <2>10. ASSUME NEW k \in 1 .. at - 1
           PROVE  m[k] = IF k < hit THEN Grown(l[k]) ELSE l[k]
      <3>1. m[k] = before[k]
        BY <1>2, <1>3, <1>5, <2>6, <2>7, <2>8
      <3> QED BY <1>2, <1>3, <1>5, <2>1, <2>2, <3>1
    <2>11. ASSUME NEW k \in at .. Len(l)
           PROVE  m[k + 1] = l[k]
      <3>1. m[k + 1] = after[k + 1 - at]
        BY <1>2, <1>3, <1>5, <2>7, <2>8
      <3>2. after[k + 1 - at] = grown[at + (k + 1 - at) - 1] /\ at + (k + 1 - at) - 1 = k
        BY <1>2, <1>3, <1>5, <2>3
      <3> QED BY <1>2, <1>3, <1>5, <2>1, <3>1, <3>2
    <2>12. m \in Seq(Link) /\ Len(m) = Len(l) + 1
      BY <2>7, <2>8
    <2>13. Inserted(l, i, hit, at, own, m)
      BY <2>9, <2>10, <2>11, <2>12 DEF Inserted
    <2>14. AddedTo(s, i, m)
      BY <1>2, <1>3, <1>5, <1>6, <1>7, <1>9, <2>13 DEF AddedTo
    <2> QED BY <1>1, <2>12, <2>14 DEF m
  <1> QED BY <1>8, <1>9

-----------------------------------------------------------------------------
(* The record and the two contexts, and what the parts of calls make of    *)
(* them.  The count and the numbers of chunks are integers here; that they *)
(* are what TypeOK says takes what the application keeps to.               *)

BufferNames == Buffers \cup {None}
Loose == [table : [Indices -> {Absent} \cup Entry], first : Indices \cup {None},
          list : Seq(Link), count : Int, bound : BufferNames, elem : BufferNames, vao : Names]
Typed ==
  /\ state \in Loose /\ driver \in Driver /\ gl \in Driver
  /\ wrong \subseteq Indices /\ cast \in Casts

LEMMA EntryIs ==
  ASSUME NEW e \in Entry
  PROVE  /\ e # Absent /\ e.enabled \in BOOLEAN /\ e.array \in Arrays \cup {NoArray}
         /\ e.buffer \in BufferNames
         /\ e = [enabled |-> e.enabled, array |-> e.array, buffer |-> e.buffer]
  BY VertexArraysAssumption DEF Entry, BufferNames

LEMMA LooseIs ==
  ASSUME NEW s \in Loose
  PROVE  /\ s.table \in [Indices -> {Absent} \cup Entry] /\ s.first \in Indices \cup {None}
         /\ s.list \in Seq(Link) /\ s.count \in Int /\ s.bound \in BufferNames
         /\ s.elem \in BufferNames /\ s.vao \in Names
         /\ \A i \in Indices : s.table[i] \in {Absent} \cup Entry
         /\ \A i \in Indices : s.table[i] # Absent => s.table[i] \in Entry
  BY DEF Loose

LEMMA DriverIs ==
  ASSUME NEW c \in Driver
  PROVE  /\ c.enabled \in [Names -> SUBSET Indices] /\ c.src \in [Names -> [Indices -> Source]]
         /\ c.bound \in BufferNames /\ c.elem \in [Names -> BufferNames]
         /\ c.values \in SUBSET Indices
         /\ \A v \in Names : c.src[v] \in [Indices -> Source] /\ c.elem[v] \in BufferNames
         /\ \A v \in Names, i \in Indices : c.src[v][i] \in Source
  BY DEF Driver, BufferNames

LEMMA SourceIs ==
  /\ Unset \in Source /\ Gone \in Source
  /\ \A a \in Arrays \cup {NoArray}, b \in BufferNames \cup {Absent} :
       [array |-> a, buffer |-> b] \in Source
  /\ \A s \in Source : /\ s.array \in Arrays \cup {NoArray} /\ s.buffer \in BufferNames \cup {Absent}
                       /\ s = [array |-> s.array, buffer |-> s.buffer]
  BY DEF Source, Unset, Gone, BufferNames

(* Two records that differ in their lists at most.                         *)
Relisted(s, t) ==
  /\ s \in Loose /\ t \in Loose
  /\ t.table = s.table /\ t.first = s.first /\ t.bound = s.bound
  /\ t.elem = s.elem /\ t.vao = s.vao

WithList(s, n, m) == [s EXCEPT !.count = n, !.list = m]

LEMMA RelistedIs ==
  ASSUME NEW s \in Loose, NEW m \in Seq(Link), NEW n \in Int
  PROVE  /\ Relisted(s, WithList(s, n, m))
         /\ WithList(s, n, m).list = m /\ WithList(s, n, m).count = n
  BY DEF Relisted, Loose, WithList

LEMMA AddedFields ==
  ASSUME NEW s \in Loose, NEW i \in Indices
  PROVE  /\ Relisted(s, Added(s, i)) /\ Added(s, i).count = s.count + 1
         /\ AddedTo(s, i, Added(s, i).list)
  <1>1. s.list \in Seq(Link) /\ s.count + 1 \in Int
    BY LooseIs
  <1>2. PICK m \in Seq(Link) : /\ AddedTo(s, i, m)
                               /\ Added(s, i) = [s EXCEPT !.count = @ + 1, !.list = m]
    BY <1>1, AddedIs
  <1> DEFINE n == s.count + 1
  <1>3. Added(s, i) = WithList(s, n, m)
    BY <1>2, Zenon DEF WithList
  <1>4. n \in Int
    BY <1>1
  <1> HIDE DEF n
  <1>5. Relisted(s, Added(s, i)) /\ Added(s, i).list = m /\ Added(s, i).count = n
    BY <1>3, <1>4, RelistedIs
  <1> QED BY <1>2, <1>5 DEF n

LEMMA RemovedFields ==
  ASSUME NEW s \in Loose, NEW i \in Indices
  PROVE  /\ Relisted(s, Removed(s, i))
         /\ s.list = << >> => Removed(s, i) = s
         /\ s.list # << >> => /\ Removed(s, i).count = s.count - 1
                              /\ Removed(s, i).list = Without(s.list, i)
  <1>1. s.list \in Seq(Link) /\ s.count - 1 \in Int
    BY LooseIs
  <1>2. Without(s.list, i) \in Seq(Link)
    BY <1>1, WithoutIs
  <1>3. CASE s.list = << >>
    BY <1>3 DEF Removed, Relisted
  <1>4. CASE s.list # << >>
    <2> DEFINE n == s.count - 1
               m == Without(s.list, i)
    <2>1. Removed(s, i) = WithList(s, n, m)
      BY <1>4, Zenon DEF Removed, WithList
    <2>2. n \in Int /\ m \in Seq(Link)
      BY <1>1, <1>2
    <2> HIDE DEF n, m
    <2>3. Relisted(s, Removed(s, i)) /\ Removed(s, i).list = m /\ Removed(s, i).count = n
      BY <2>1, <2>2, RelistedIs
    <2> QED BY <1>4, <2>3 DEF n, m
  <1> QED BY <1>3, <1>4

(* The record with an entry, or with another one, for index i.             *)
EnteredIn(s, i, e, t) ==
  /\ t \in Loose
  /\ \A j \in Indices : t.table[j] = IF j = i THEN e ELSE s.table[j]
  /\ t.first = IF s.first = None THEN i ELSE s.first
  /\ t.bound = s.bound /\ t.elem = s.elem /\ t.vao = s.vao
SameList(s, t) == t.list = s.list /\ t.count = s.count

LEMMA EnteredIs ==
  ASSUME state \in Loose, NEW i \in Indices, NEW e \in Entry
  PROVE  EnteredIn(state, i, e, Entered(i, e)) /\ SameList(state, Entered(i, e))
  BY DEF Entered, EnteredIn, SameList, Loose

(* Contexts.                                                               *)
LEMMA PointedIs ==
  ASSUME state.vao \in Names, NEW c \in Driver, NEW i \in Indices, NEW x \in Source
  PROVE  LET d == Pointed(c, i, x) IN
           /\ d \in Driver /\ d.enabled = c.enabled /\ d.bound = c.bound /\ d.elem = c.elem
           /\ d.values = c.values
           /\ \A v \in Names, j \in Indices :
                d.src[v][j] = IF v = state.vao /\ j = i THEN x ELSE c.src[v][j]
  <1> DEFINE src == [c.src EXCEPT ![state.vao][i] = x]
             d   == [c EXCEPT !.src = src]
  <1>1. Pointed(c, i, x) = d
    BY DEF Pointed
  <1>2. /\ src \in [Names -> [Indices -> Source]]
        /\ \A v \in Names, j \in Indices :
             src[v][j] = IF v = state.vao /\ j = i THEN x ELSE c.src[v][j]
    BY DriverIs
  <1> HIDE DEF src
  <1>3. /\ d \in Driver /\ d.enabled = c.enabled /\ d.bound = c.bound /\ d.elem = c.elem
        /\ d.values = c.values /\ d.src = src
    BY <1>2 DEF Driver
  <1> QED BY <1>1, <1>2, <1>3

SwitchedTo(c, i, on, d) ==
  /\ d \in Driver /\ d.src = c.src /\ d.bound = c.bound /\ d.elem = c.elem
  /\ d.values = c.values
  /\ \A v \in Names : d.enabled[v] =
       IF v # state.vao THEN c.enabled[v]
       ELSE IF on THEN c.enabled[v] \cup {i} ELSE c.enabled[v] \ {i}

LEMMA SwitchedIs ==
  ASSUME state.vao \in Names, NEW c \in Driver, NEW i \in Indices, NEW on \in BOOLEAN
  PROVE  SwitchedTo(c, i, on, Switched(c, i, on))
  <1> DEFINE now == [c.enabled EXCEPT ![state.vao] = IF on THEN @ \cup {i} ELSE @ \ {i}]
             d   == [c EXCEPT !.enabled = now]
  <1>1. Switched(c, i, on) = d
    BY DEF Switched
  <1>2. /\ now \in [Names -> SUBSET Indices]
        /\ \A v \in Names : now[v] =
             IF v # state.vao THEN c.enabled[v]
             ELSE IF on THEN c.enabled[v] \cup {i} ELSE c.enabled[v] \ {i}
    BY DriverIs
  <1> HIDE DEF now
  <1>3. /\ d \in Driver /\ d.src = c.src /\ d.bound = c.bound /\ d.elem = c.elem
        /\ d.values = c.values /\ d.enabled = now
    BY <1>2 DEF Driver
  <1> QED BY <1>1, <1>2, <1>3 DEF SwitchedTo

(* A context with other arrays for object v.                               *)
LEMMA SourcesIs ==
  ASSUME NEW c \in Driver, NEW v \in Names, NEW f \in [Indices -> Source]
  PROVE  LET d == [c EXCEPT !.src[v] = f] IN
           /\ d \in Driver /\ d.enabled = c.enabled /\ d.bound = c.bound /\ d.elem = c.elem
           /\ d.values = c.values /\ d.src[v] = f
           /\ \A w \in Names \ {v} : d.src[w] = c.src[w]
  <1> DEFINE src == [c.src EXCEPT ![v] = f]
             d   == [c EXCEPT !.src = src]
  <1>1. [c EXCEPT !.src[v] = f] = d
    OBVIOUS
  <1>2. /\ src \in [Names -> [Indices -> Source]]
        /\ src[v] = f /\ \A w \in Names \ {v} : src[w] = c.src[w]
    BY DriverIs
  <1> HIDE DEF src
  <1>3. /\ d \in Driver /\ d.enabled = c.enabled /\ d.bound = c.bound /\ d.elem = c.elem
        /\ d.values = c.values /\ d.src = src
    BY <1>2 DEF Driver
  <1> QED BY <1>1, <1>2, <1>3

LEMMA WithoutBufferIs ==
  ASSUME state.vao \in Names, NEW c \in Driver, NEW b
  PROVE  LET d == WithoutBuffer(c, b) IN
           /\ d \in Driver /\ d.enabled = c.enabled /\ d.values = c.values
           /\ d.bound = Unless(c.bound, b)
           /\ \A v \in Names : d.elem[v] = IF v = state.vao THEN Unless(c.elem[v], b) ELSE c.elem[v]
           /\ \A v \in Names \ {state.vao} : d.src[v] = c.src[v]
           /\ \A j \in Indices : d.src[state.vao][j] =
                Outside(c.src[state.vao][j], b)
  <1> DEFINE v == state.vao
             elem == [c.elem EXCEPT ![v] = Unless(@, b)]
             f    == [j \in Indices |-> Outside(c.src[v][j], b)]
             src  == [c.src EXCEPT ![v] = f]
             d    == [c EXCEPT !.bound = Unless(c.bound, b), !.elem = elem, !.src = src]
  <1>1. WithoutBuffer(c, b) = d
    BY DEF WithoutBuffer
  <1>2. \A x \in Source : Outside(x, b) \in Source
    BY DEF Source, Unless, Outside
  <1>3. f \in [Indices -> Source] /\ \A j \in Indices : f[j] = Outside(c.src[v][j], b)
    BY <1>2, DriverIs
  <1> HIDE DEF f
  <1>4. /\ src \in [Names -> [Indices -> Source]]
        /\ src[v] = f /\ \A w \in Names \ {v} : src[w] = c.src[w]
    BY <1>3, DriverIs
  <1>5. /\ elem \in [Names -> BufferNames] /\ Unless(c.bound, b) \in BufferNames
        /\ \A w \in Names : elem[w] = IF w = v THEN Unless(c.elem[w], b) ELSE c.elem[w]
    BY DriverIs DEF Unless, BufferNames
  <1> HIDE DEF src, elem
  <1>6. /\ d \in Driver /\ d.enabled = c.enabled /\ d.values = c.values
        /\ d.bound = Unless(c.bound, b) /\ d.elem = elem /\ d.src = src
    BY <1>4, <1>5 DEF Driver, BufferNames
  <1> QED BY <1>1, <1>3, <1>4, <1>5, <1>6

DroppedTo(c, v, d) ==
  /\ d \in Driver /\ d.bound = c.bound /\ d.values = c.values
  /\ \A w \in Names : d.enabled[w] = IF w = v THEN {} ELSE c.enabled[w]
  /\ \A w \in Names : d.elem[w] = IF w = v THEN None ELSE c.elem[w]
  /\ \A w \in Names : d.src[w] = IF w = v THEN [i \in Indices |-> Unset] ELSE c.src[w]

LEMMA DroppedIs ==
  ASSUME NEW c \in Driver, NEW v \in Names
  PROVE  DroppedTo(c, v, Dropped(c, v))
  <1> DEFINE enabled == [c.enabled EXCEPT ![v] = {}]
             none    == [i \in Indices |-> Unset]
             src     == [c.src EXCEPT ![v] = none]
             elem    == [c.elem EXCEPT ![v] = None]
             d       == [c EXCEPT !.enabled = enabled, !.src = src, !.elem = elem]
  <1>1. Dropped(c, v) = d
    BY DEF Dropped
  <1>2. none \in [Indices -> Source]
    BY SourceIs
  <1> HIDE DEF none
  <1>3. /\ enabled \in [Names -> SUBSET Indices]
        /\ \A w \in Names : enabled[w] = IF w = v THEN {} ELSE c.enabled[w]
    BY DriverIs
  <1>4. /\ src \in [Names -> [Indices -> Source]]
        /\ \A w \in Names : src[w] = IF w = v THEN none ELSE c.src[w]
    BY <1>2, DriverIs
  <1>5. /\ elem \in [Names -> BufferNames]
        /\ \A w \in Names : elem[w] = IF w = v THEN None ELSE c.elem[w]
    BY DriverIs DEF BufferNames
  <1> HIDE DEF enabled, src, elem
  <1>6. /\ d \in Driver /\ d.bound = c.bound /\ d.values = c.values
        /\ d.enabled = enabled /\ d.src = src /\ d.elem = elem
    BY <1>3, <1>4, <1>5 DEF Driver, BufferNames
  <1> QED BY <1>1, <1>3, <1>4, <1>5, <1>6 DEF none, DroppedTo

-----------------------------------------------------------------------------
(* What the calls do.                                                      *)

(* glVertexAttribPointer.                                                  *)
PointerStep(i, a, e) ==
  /\ e \in Entry /\ e.array = a /\ e.buffer = state.bound
  /\ e.enabled <=> state.table[i] # Absent /\ state.table[i].enabled
  /\ state.vao # None => state' = state
  /\ state.vao = None => EnteredIn(state, i, e, state') /\ (~e.enabled => SameList(state, state'))
  /\ gl' = Pointed(gl, i, [array |-> a, buffer |-> gl.bound])
  /\ driver' = IF state.vao # None \/ (state.bound # None /\ state.table[i] # e)
               THEN Pointed(driver, i, [array |-> a, buffer |-> driver.bound]) ELSE driver
  /\ UNCHANGED <<wrong, cast>>

LEMMA PointerIs ==
  ASSUME Typed, NEW i \in Indices, NEW a \in Arrays, VertexAttribPointer(i, a)
  PROVE  Typed' /\ \E e : PointerStep(i, a, e)
  <1> DEFINE src   == [array |-> a, buffer |-> state.bound]
             known == state.table[i] # Absent
             e     == [enabled |-> known /\ state.table[i].enabled, array |-> a, buffer |-> state.bound]
             s     == Entered(i, e)
  <1>1. /\ state \in Loose /\ driver \in Driver /\ gl \in Driver /\ state.vao \in Names
        /\ state.bound \in BufferNames /\ gl.bound \in BufferNames /\ driver.bound \in BufferNames
    BY LooseIs, DriverIs DEF Typed
  <1>2. known => state.table[i].enabled \in BOOLEAN
    BY <1>1, LooseIs, EntryIs
  <1>3. e \in Entry /\ e.array = a /\ e.buffer = state.bound
        /\ (e.enabled <=> known /\ state.table[i].enabled)
    BY <1>1, <1>2 DEF Entry, BufferNames
  <1>4. /\ [src EXCEPT !.buffer = gl.bound] = [array |-> a, buffer |-> gl.bound]
        /\ [src EXCEPT !.buffer = driver.bound] = [array |-> a, buffer |-> driver.bound]
    OBVIOUS
  <1>5. /\ gl' = Pointed(gl, i, [src EXCEPT !.buffer = gl.bound])
        /\ IF state.vao # None THEN UNCHANGED state
           ELSE state' = IF e.enabled /\ e # state.table[i] THEN Added(Removed(s, i), i) ELSE s
        /\ driver' = IF state.vao # None \/ (state.bound # None /\ state.table[i] # e)
                     THEN Pointed(driver, i, [src EXCEPT !.buffer = driver.bound]) ELSE driver
        /\ UNCHANGED <<wrong, cast>>
    BY Zenon DEF VertexAttribPointer
  <1> HIDE DEF e
  <1>6. EnteredIn(state, i, e, s) /\ SameList(state, s) /\ s \in Loose
    BY <1>1, <1>3, EnteredIs DEF EnteredIn
  <1> HIDE DEF s
  <1>7. Relisted(s, Added(Removed(s, i), i))
    BY <1>6, RemovedFields, AddedFields DEF Relisted
  <1>8. EnteredIn(state, i, e, Added(Removed(s, i), i))
    BY <1>6, <1>7 DEF Relisted, EnteredIn
  <1>9. PointerStep(i, a, e)
    BY <1>3, <1>4, <1>5, <1>6, <1>8 DEF PointerStep
  <1>10. /\ [array |-> a, buffer |-> gl.bound] \in Source
         /\ [array |-> a, buffer |-> driver.bound] \in Source
    BY <1>1, SourceIs
  <1>11. gl' \in Driver /\ driver' \in Driver
    BY <1>1, <1>4, <1>5, <1>10, PointedIs
  <1>12. state' \in Loose
    BY <1>1, <1>5, <1>6, <1>8 DEF EnteredIn
  <1> QED BY <1>5, <1>9, <1>11, <1>12 DEF Typed

(* glEnableVertexAttribArray and its counterpart.                          *)
SetStep(i, on) ==
  LET e == state.table[i] IN
  /\ gl' = Switched(gl, i, on) /\ UNCHANGED <<wrong, cast>>
  /\ state.vao # None => state' = state /\ driver' = Switched(driver, i, on)
  /\ state.vao = None /\ e # Absent /\ e.enabled = on => state' = state /\ driver' = driver
  /\ state.vao = None /\ ~(e # Absent /\ e.enabled = on) =>
       /\ driver' = Switched(driver, i, on)
       /\ \E new \in Entry, s \in Loose :
            /\ new.enabled = on
            /\ new.array = IF e # Absent THEN e.array ELSE NoArray
            /\ new.buffer = IF e # Absent THEN e.buffer ELSE state.bound
            /\ EnteredIn(state, i, new, s) /\ SameList(state, s)
            /\ EnteredIn(state, i, new, state')
            /\ state' = IF e = Absent \/ state.bound # None THEN s
                        ELSE IF on THEN Added(s, i) ELSE Removed(s, i)

LEMMA SetIs ==
  ASSUME Typed, NEW i \in Indices, NEW on \in BOOLEAN, SetVertexAttribArray(i, on)
  PROVE  Typed' /\ SetStep(i, on)
  <1> DEFINE e     == state.table[i]
             known == e # Absent
             new   == IF known THEN [e EXCEPT !.enabled = on]
                      ELSE [enabled |-> on, array |-> NoArray, buffer |-> state.bound]
             s     == Entered(i, new)
  <1>1. /\ state \in Loose /\ driver \in Driver /\ gl \in Driver /\ state.vao \in Names
        /\ state.bound \in BufferNames /\ (known => e \in Entry)
    BY LooseIs, DriverIs DEF Typed
  <1>2. /\ new \in Entry /\ new.enabled = on
        /\ new.array = IF known THEN e.array ELSE NoArray
        /\ new.buffer = IF known THEN e.buffer ELSE state.bound
    BY <1>1 DEF Entry, BufferNames
  <1>3. /\ gl' = Switched(gl, i, on)
        /\ IF state.vao # None THEN UNCHANGED state /\ driver' = Switched(driver, i, on)
           ELSE IF known /\ e.enabled = on THEN UNCHANGED <<state, driver>>
           ELSE /\ driver' = Switched(driver, i, on)
                /\ state' = IF ~known \/ state.bound # None THEN s
                            ELSE IF on THEN Added(s, i) ELSE Removed(s, i)
        /\ UNCHANGED <<wrong, cast>>
    BY Zenon DEF SetVertexAttribArray
  <1> HIDE DEF new
  <1>4. EnteredIn(state, i, new, s) /\ SameList(state, s) /\ s \in Loose
    BY <1>1, <1>2, EnteredIs DEF EnteredIn
  <1> HIDE DEF s
  <1>5. /\ EnteredIn(state, i, new, Added(s, i))
        /\ EnteredIn(state, i, new, Removed(s, i))
    <2>1. Relisted(s, Added(s, i)) /\ Relisted(s, Removed(s, i))
      BY <1>4, RemovedFields, AddedFields
    <2> QED BY <1>4, <2>1 DEF Relisted, EnteredIn
  <1>6. ASSUME state.vao = None, ~(known /\ e.enabled = on)
        PROVE  /\ EnteredIn(state, i, new, state')
               /\ state' = IF e = Absent \/ state.bound # None THEN s
                           ELSE IF on THEN Added(s, i) ELSE Removed(s, i)
    BY <1>3, <1>4, <1>5, <1>6
  <1>7. SetStep(i, on)
    BY <1>2, <1>3, <1>4, <1>6 DEF SetStep
  <1>8. gl' \in Driver /\ driver' \in Driver
    BY <1>1, <1>3, SwitchedIs DEF SwitchedTo
  <1>9. state' \in Loose
    BY <1>1, <1>3, <1>6 DEF EnteredIn
  <1> QED BY <1>3, <1>7, <1>8, <1>9 DEF Typed

(* glVertexAttrib*.                                                        *)
LEMMA AttribIs ==
  ASSUME Typed, NEW i \in Indices, VertexAttrib(i)
  PROVE  /\ Typed'
         /\ "values" \in Manners => state' = state
         /\ UNCHANGED <<driver, wrong, cast>>
         /\ gl'.enabled = gl.enabled /\ gl'.src = gl.src /\ gl'.bound = gl.bound
         /\ gl'.elem = gl.elem
  <1>1. state \in Loose /\ gl \in Driver
    BY DEF Typed
  <1>2. /\ gl' \in Driver /\ gl'.enabled = gl.enabled /\ gl'.src = gl.src
        /\ gl'.bound = gl.bound /\ gl'.elem = gl.elem
    BY <1>1 DEF VertexAttrib, Driver
  <1>3. state' \in Loose
    <2>1. ASSUME NEW j \in Indices, NEW on \in BOOLEAN
          PROVE  Entered(j, [enabled |-> on, array |-> NoArray, buffer |-> None]) \in Loose
      <3>1. [enabled |-> on, array |-> NoArray, buffer |-> None] \in Entry
        BY DEF Entry
      <3> QED BY <1>1, <3>1, EnteredIs DEF EnteredIn
    <2> QED BY <1>1, <2>1 DEF VertexAttrib
  <1> QED BY <1>2, <1>3 DEF Typed, VertexAttrib

(* A record whose table and list are the same.                             *)
Rebound(t) ==
  /\ t \in Loose /\ t.table = state.table /\ t.first = state.first /\ SameList(state, t)

LEMMA ReboundIs ==
  ASSUME state \in Loose, NEW b \in BufferNames, NEW v \in Names
  PROVE  /\ Rebound([state EXCEPT !.bound = b]) /\ Rebound([state EXCEPT !.elem = b])
         /\ Rebound([state EXCEPT !.vao = v])
         /\ [state EXCEPT !.bound = b].bound = b /\ [state EXCEPT !.bound = b].elem = state.elem
         /\ [state EXCEPT !.bound = b].vao = state.vao
         /\ [state EXCEPT !.elem = b].bound = state.bound /\ [state EXCEPT !.elem = b].elem = b
         /\ [state EXCEPT !.elem = b].vao = state.vao
         /\ [state EXCEPT !.vao = v].bound = state.bound
         /\ [state EXCEPT !.vao = v].elem = state.elem /\ [state EXCEPT !.vao = v].vao = v
  BY DEF Rebound, SameList, Loose

LEMMA UnlessIs ==
  ASSUME NEW x \in BufferNames, NEW b
  PROVE  Unless(x, b) \in BufferNames
  BY DEF Unless, BufferNames

(* glBindBuffer.                                                           *)
LEMMA BindArrayIs ==
  ASSUME Typed, NEW b \in BufferNames, BindArrayBuffer(b)
  PROVE  /\ Typed' /\ Rebound(state') /\ UNCHANGED wrong
         /\ state'.bound = b /\ state'.elem = state.elem /\ state'.vao = state.vao
         /\ gl' = [gl EXCEPT !.bound = b]
         /\ driver' = IF b = state.bound THEN driver ELSE [driver EXCEPT !.bound = b]
  <1>1. state \in Loose /\ driver \in Driver /\ gl \in Driver /\ state.vao \in Names
    BY LooseIs DEF Typed
  <1>2. /\ Rebound(state') /\ state'.bound = b /\ state'.elem = state.elem
        /\ state'.vao = state.vao
    BY <1>1, ReboundIs DEF BindArrayBuffer
  <1>3. \A c \in Driver : [c EXCEPT !.bound = b] \in Driver
    BY DEF Driver, BufferNames
  <1>4. driver' \in Driver /\ gl' \in Driver
    BY <1>1, <1>3 DEF BindArrayBuffer
  <1> QED BY <1>2, <1>4 DEF Typed, Rebound, BindArrayBuffer

LEMMA ElementIs ==
  ASSUME NEW c \in Driver, NEW v \in Names, NEW b \in BufferNames
  PROVE  LET d == [c EXCEPT !.elem[v] = b] IN
           /\ d \in Driver /\ d.enabled = c.enabled /\ d.src = c.src /\ d.bound = c.bound
           /\ d.values = c.values /\ d.elem = [c.elem EXCEPT ![v] = b]
  <1> DEFINE elem == [c.elem EXCEPT ![v] = b]
  <1>1. elem \in [Names -> BufferNames]
    BY DriverIs
  <1>2. [c EXCEPT !.elem[v] = b] = [c EXCEPT !.elem = elem]
    OBVIOUS
  <1> HIDE DEF elem
  <1>3. LET d == [c EXCEPT !.elem = elem] IN
          /\ d \in Driver /\ d.enabled = c.enabled /\ d.src = c.src /\ d.bound = c.bound
          /\ d.values = c.values /\ d.elem = elem
    BY <1>1 DEF Driver, BufferNames
  <1> QED BY <1>2, <1>3 DEF elem

LEMMA BindElementIs ==
  ASSUME Typed, NEW b \in BufferNames, BindElementBuffer(b)
  PROVE  /\ Typed' /\ Rebound(state') /\ UNCHANGED wrong
         /\ state'.bound = state.bound /\ state'.elem = b /\ state'.vao = state.vao
         /\ gl' = [gl EXCEPT !.elem[state.vao] = b]
         /\ driver' = IF b = state.elem THEN driver ELSE [driver EXCEPT !.elem[state.vao] = b]
  <1>1. state \in Loose /\ driver \in Driver /\ gl \in Driver /\ state.vao \in Names
    BY LooseIs DEF Typed
  <1>2. /\ Rebound(state') /\ state'.bound = state.bound /\ state'.elem = b
        /\ state'.vao = state.vao
    BY <1>1, ReboundIs DEF BindElementBuffer
  <1>3. /\ gl' = [gl EXCEPT !.elem[state.vao] = b] /\ UNCHANGED <<wrong, cast>>
        /\ driver' = IF b = state.elem THEN driver ELSE [driver EXCEPT !.elem[state.vao] = b]
    BY Zenon DEF BindElementBuffer
  <1>4. driver' \in Driver /\ gl' \in Driver
    BY <1>1, <1>3, ElementIs
  <1> QED BY <1>2, <1>3, <1>4 DEF Typed, Rebound

(* glGet* of a buffer binding.                                             *)
LEMMA AllInIs ==
  ASSUME NEW table \in [Indices -> {Absent} \cup Entry], NEW b \in BufferNames
  PROVE  /\ AllIn(table, b) \in [Indices -> {Absent} \cup Entry]
         /\ (\A i \in Indices : table[i] # Absent => table[i].buffer = b) =>
              AllIn(table, b) = table
  <1>1. \A e \in Entry : /\ [e EXCEPT !.buffer = b] \in Entry
                         /\ e.buffer = b => [e EXCEPT !.buffer = b] = e
    BY DEF Entry, BufferNames
  <1> DEFINE new(i) == IF table[i] = Absent THEN Absent ELSE [table[i] EXCEPT !.buffer = b]
  <1>2. \A i \in Indices : /\ new(i) \in {Absent} \cup Entry
                           /\ (table[i] # Absent => table[i].buffer = b) => new(i) = table[i]
    BY <1>1
  <1>3. AllIn(table, b) = [i \in Indices |-> new(i)]
    BY DEF AllIn
  <1> HIDE DEF new
  <1> QED BY <1>2, <1>3

LEMMA ToldIs ==
  ASSUME NEW b \in BufferNames
  PROVE  /\ Told(b) \subseteq BufferNames
         /\ \A x \in Told(b) : x = None <=> b = None
  BY VertexArraysAssumption DEF Told, BufferNames

LEMMA QueriesAre ==
  ASSUME Typed, GetArrayBufferBinding \/ GetElementBufferBinding
  PROVE  /\ Typed' /\ UNCHANGED <<driver, gl, wrong>> /\ SameList(state, state')
         /\ state'.first = state.first /\ state'.elem = state.elem /\ state'.vao = state.vao
         /\ \/ GetArrayBufferBinding /\ state'.bound \in Told(driver.bound)
               /\ state'.table = AllIn(state.table, state'.bound)
            \/ GetElementBufferBinding /\ state'.bound \in Told(driver.elem[state.vao])
               /\ Rebound(state')
  <1>1. /\ state \in Loose /\ driver \in Driver /\ gl \in Driver /\ state.vao \in Names
        /\ driver.bound \in BufferNames /\ driver.elem[state.vao] \in BufferNames
        /\ state.table \in [Indices -> {Absent} \cup Entry]
    BY LooseIs, DriverIs DEF Typed
  <1>2. CASE GetArrayBufferBinding
    <2>0. PICK b \in Told(driver.bound) :
            state' = [state EXCEPT !.bound = b, !.table = AllIn(state.table, b)]
      BY <1>2 DEF GetArrayBufferBinding
    <2> DEFINE table == AllIn(state.table, b)
    <2>1. table \in [Indices -> {Absent} \cup Entry] /\ b \in BufferNames
      BY <1>1, AllInIs, ToldIs
    <2>2. state' = [state EXCEPT !.bound = b, !.table = table]
      BY <2>0
    <2> HIDE DEF table
    <2>3. /\ state' \in Loose /\ state'.bound = b /\ state'.table = table
          /\ SameList(state, state') /\ state'.first = state.first
          /\ state'.elem = state.elem /\ state'.vao = state.vao
      BY <1>1, <2>1, <2>2 DEF Loose, SameList
    <2> QED BY <1>1, <1>2, <2>3 DEF table, GetArrayBufferBinding, Typed
  <1>3. CASE GetElementBufferBinding
    <2>0. PICK b \in Told(driver.elem[state.vao]) : state' = [state EXCEPT !.bound = b]
      BY <1>3 DEF GetElementBufferBinding
    <2>1. /\ Rebound(state') /\ state'.bound = b
          /\ state'.elem = state.elem /\ state'.vao = state.vao
      BY <1>1, <2>0, ReboundIs, ToldIs
    <2> QED BY <1>1, <1>3, <2>1 DEF GetElementBufferBinding, Typed, Rebound
  <1> QED BY <1>2, <1>3

(* glDeleteBuffers.                                                        *)
LEMMA DeleteBuffersIs ==
  ASSUME Typed, NEW b \in Buffers, DeleteBuffers(b)
  PROVE  /\ Typed' /\ UNCHANGED wrong /\ SameList(state, state')
         /\ state'.first = state.first /\ state'.vao = state.vao
         /\ state'.bound = Unless(state.bound, b)
         /\ state'.elem = IF state.bound = b THEN state.elem ELSE Unless(state.elem, b)
         /\ state'.table = IF state.first = None \/ state.table[state.first].buffer # b
                           THEN state.table ELSE AllIn(state.table, None)
         /\ driver' = WithoutBuffer(driver, b) /\ gl' = WithoutBuffer(gl, b)
  <1> DEFINE table == IF state.first = None \/ state.table[state.first].buffer # b
                      THEN state.table ELSE AllIn(state.table, None)
             elem  == IF state.bound = b THEN state.elem ELSE Unless(state.elem, b)
             bound == Unless(state.bound, b)
  <1>1. /\ state \in Loose /\ driver \in Driver /\ gl \in Driver /\ state.vao \in Names
        /\ state.bound \in BufferNames /\ state.elem \in BufferNames
        /\ state.table \in [Indices -> {Absent} \cup Entry]
    BY LooseIs DEF Typed
  <1>2. None \in BufferNames
    BY DEF BufferNames
  <1>3. /\ table \in [Indices -> {Absent} \cup Entry] /\ elem \in BufferNames
        /\ bound \in BufferNames
    BY <1>1, <1>2, AllInIs, UnlessIs
  <1>4. state' = [state EXCEPT !.bound = bound, !.elem = elem, !.table = table]
    BY DEF DeleteBuffers
  <1> HIDE DEF table, elem, bound
  <1>5. /\ state' \in Loose /\ state'.bound = bound /\ state'.elem = elem /\ state'.table = table
        /\ SameList(state, state') /\ state'.first = state.first /\ state'.vao = state.vao
    BY <1>1, <1>3, <1>4 DEF Loose, SameList
  <1>6. /\ driver' = WithoutBuffer(driver, b) /\ gl' = WithoutBuffer(gl, b)
        /\ UNCHANGED <<wrong, cast>>
    BY DEF DeleteBuffers
  <1>7. driver' \in Driver /\ gl' \in Driver
    BY <1>1, <1>6, WithoutBufferIs
  <1> QED BY <1>5, <1>6, <1>7 DEF Typed, table, elem, bound

(* Vertex array objects.                                                   *)
LEMMA ObjectsAre ==
  ASSUME Typed, NEW v \in Names, NEW now \in Names,
         \/ BindVertexArray(v) /\ now = v
         \/ v \in Vaos /\ DeleteVertexArrays(v) /\ now = Unless(state.vao, v)
  PROVE  /\ Typed' /\ Rebound(state') /\ UNCHANGED wrong
         /\ state'.bound = state.bound /\ state'.elem = state.elem /\ state'.vao = now
         /\ BindVertexArray(v) => UNCHANGED <<driver, gl>>
         /\ DeleteVertexArrays(v) => driver' = Dropped(driver, v) /\ gl' = Dropped(gl, v)
  <1>1. state \in Loose /\ driver \in Driver /\ gl \in Driver /\ state.bound \in BufferNames
    BY LooseIs DEF Typed
  <1>2. state' = [state EXCEPT !.vao = now] /\ UNCHANGED <<wrong, cast>>
    BY DEF BindVertexArray, DeleteVertexArrays
  <1>3. /\ Rebound(state') /\ state'.bound = state.bound /\ state'.elem = state.elem
        /\ state'.vao = now
    BY <1>1, <1>2, ReboundIs
  <1>4. /\ BindVertexArray(v) => UNCHANGED <<driver, gl>>
        /\ DeleteVertexArrays(v) => driver' = Dropped(driver, v) /\ gl' = Dropped(gl, v)
    BY DEF BindVertexArray, DeleteVertexArrays
  <1>5. driver' \in Driver /\ gl' \in Driver
    BY <1>1, <1>4, DroppedIs DEF DroppedTo
  <1> QED BY <1>2, <1>3, <1>4, <1>5 DEF Typed, Rebound

(* A draw.                                                                 *)
Drawn(sent, copies) ==
  IF ~sent \/ ~copies THEN driver' = driver
  ELSE /\ driver'.enabled = driver.enabled /\ driver'.bound = driver.bound
       /\ driver'.elem = driver.elem
       /\ \A w \in Names \ {None} : driver'.src[w] = driver.src[w]
       /\ \A i \in Indices : driver'.src[None][i] = IF InList(i) THEN Gone ELSE driver.src[None][i]

LEMMA DrawIs ==
  ASSUME Typed, NEW vertices, NEW sent, NEW copies, NEW room, Draw(vertices, sent, copies, room)
  PROVE  Typed' /\ UNCHANGED <<state, gl>> /\ Drawn(sent, copies)
  <1> DEFINE f == [i \in Indices |-> IF InList(i) THEN Gone ELSE driver.src[None][i]]
  <1>1. driver \in Driver /\ gl \in Driver /\ None \in Names
    BY DEF Typed, Names
  <1>2. f \in [Indices -> Source]
    BY <1>1, DriverIs, SourceIs
  <1>3. driver' = IF ~sent \/ ~copies THEN driver ELSE [driver EXCEPT !.src[None] = f]
    BY DEF Draw
  <1>4. \A i \in Indices : f[i] = IF InList(i) THEN Gone ELSE driver.src[None][i]
    OBVIOUS
  <1> HIDE DEF f
  <1>5. Drawn(sent, copies) /\ driver' \in Driver
    <2>1. CASE ~sent \/ ~copies
      BY <1>1, <1>3, <2>1 DEF Drawn
    <2>2. CASE ~(~sent \/ ~copies)
      <3>1. driver' = [driver EXCEPT !.src[None] = f]
        BY <1>3, <2>2
      <3> QED BY <1>1, <1>2, <1>4, <2>2, <3>1, SourcesIs DEF Drawn
    <2> QED BY <2>1, <2>2
  <1>6. UNCHANGED <<state, gl, cast>>
    BY DEF Draw
  <1>7. wrong' \subseteq Indices
    BY <1>1, DriverIs, LooseIs DEF Draw, Typed
  <1> QED BY <1>5, <1>6, <1>7 DEF Typed

Drawing ==
  \/ \E f, n \in 0 .. MaxVertex, room \in BOOLEAN :
       n > 0 /\ f + n <= MaxVertex + 1 /\ DrawArrays(f, n, room)
  \/ \E vertices \in (SUBSET (0 .. MaxVertex)) \ {{}}, short, room \in BOOLEAN :
       DrawElements(vertices, short, room)

LEMMA DrawingIs ==
  ASSUME Typed, Drawing
  PROVE  Typed' /\ UNCHANGED <<state, gl>> /\ \E sent, copies \in BOOLEAN : Drawn(sent, copies)
  <1>1. ASSUME NEW vertices, NEW sent \in BOOLEAN, NEW copies \in BOOLEAN, NEW room,
               Draw(vertices, sent, copies, room)
        PROVE  Typed' /\ UNCHANGED <<state, gl>> /\ \E x, y \in BOOLEAN : Drawn(x, y)
    BY <1>1, DrawIs, Zenon
  <1>2. ASSUME NEW f \in 0 .. MaxVertex, NEW n \in 0 .. MaxVertex, NEW room, DrawArrays(f, n, room)
        PROVE  \E sent, copies \in BOOLEAN : Draw(f .. (f + n - 1), sent, copies, room)
    <2>1. (state.vao # None \/ HasArrays) \in BOOLEAN /\ (state.vao = None) \in BOOLEAN
      OBVIOUS
    <2> QED BY <1>2, <2>1, Zenon DEF DrawArrays
  <1>3. ASSUME NEW vertices, NEW short, NEW room, DrawElements(vertices, short, room)
        PROVE  \E sent, copies \in BOOLEAN : Draw(vertices, sent, copies, room)
    BY <1>3 DEF DrawElements, CopyIndices
  <1> QED BY <1>1, <1>2, <1>3 DEF Drawing

LEMMA StepIs ==
  ASSUME Typed, Next
  PROVE  \/ \E i \in Indices, a \in Arrays : VertexAttribPointer(i, a)
         \/ \E i \in Indices, on \in BOOLEAN : SetVertexAttribArray(i, on)
         \/ \E i \in Indices : VertexAttrib(i)
         \/ \E b \in BufferNames : BindArrayBuffer(b)
         \/ \E b \in BufferNames : BindElementBuffer(b)
         \/ \E b \in Buffers : DeleteBuffers(b)
         \/ GetArrayBufferBinding \/ GetElementBufferBinding
         \/ \E v \in Names : BindVertexArray(v)
         \/ \E v \in Vaos : DeleteVertexArrays(v)
         \/ Drawing
  <1>1. /\ cast.indices \subseteq Indices /\ cast.arrays \subseteq Arrays
        /\ cast.buffers \subseteq Buffers
    BY VertexArraysAssumption DEF Typed
  <1>2. \A b \in cast.buffers : b \in BufferNames /\ b \in Buffers
    BY <1>1 DEF BufferNames
  <1>3. None \in BufferNames
    BY DEF BufferNames
  <1> QED BY <1>1, <1>2, <1>3, Zenon DEF Next, Drawing

LEMMA TypedInit == Init => Typed
  <1> SUFFICES ASSUME Init PROVE Typed
    OBVIOUS
  <1>1. Unset \in Source /\ << >> \in Seq(Link)
    BY SourceIs
  <1>2. Context \in Driver
    BY <1>1 DEF Context, Driver
  <1>3. state \in Loose
    BY <1>1 DEF Init, Loose, BufferNames, Names
  <1> QED BY <1>2, <1>3 DEF Init, Typed

LEMMA TypedStep ==
  ASSUME Typed, [Next]_vars
  PROVE  Typed'
  <1>1. CASE UNCHANGED vars
    BY <1>1 DEF vars, Typed
  <1>2. CASE Next
    <2>1. ASSUME NEW i \in Indices, NEW a \in Arrays, VertexAttribPointer(i, a) PROVE Typed'
      BY <2>1, PointerIs
    <2>2. ASSUME NEW i \in Indices, NEW on \in BOOLEAN, SetVertexAttribArray(i, on) PROVE Typed'
      BY <2>2, SetIs
    <2>3. ASSUME NEW i \in Indices, VertexAttrib(i) PROVE Typed'
      BY <2>3, AttribIs
    <2>4. ASSUME NEW b \in BufferNames, BindArrayBuffer(b) PROVE Typed'
      BY <2>4, BindArrayIs
    <2>5. ASSUME NEW b \in BufferNames, BindElementBuffer(b) PROVE Typed'
      BY <2>5, BindElementIs
    <2>6. ASSUME NEW b \in Buffers, DeleteBuffers(b) PROVE Typed'
      BY <2>6, DeleteBuffersIs
    <2>7. CASE GetArrayBufferBinding \/ GetElementBufferBinding
      BY <2>7, QueriesAre
    <2>8. ASSUME NEW v \in Names, BindVertexArray(v) PROVE Typed'
      BY <2>8, ObjectsAre
    <2>9. ASSUME NEW v \in Vaos, DeleteVertexArrays(v) PROVE Typed'
      <3>1. v \in Names /\ Unless(state.vao, v) \in Names
        BY LooseIs DEF Typed, Names, Unless
      <3> QED BY <2>9, <3>1, ObjectsAre
    <2>10. CASE Drawing
      BY <2>10, DrawingIs
    <2> QED BY <1>2, <2>1, <2>2, <2>3, <2>4, <2>5, <2>6, <2>7, <2>8, <2>9, <2>10, StepIs
  <1> QED BY <1>1, <1>2

-----------------------------------------------------------------------------
(* What the record and the two contexts have in common: buffers bound,     *)
(* arrays enabled, the arrays of vertex array objects; and an entry has    *)
(* the array the application named.  Only the object that is bound has an  *)
(* element buffer.                                                         *)
ContextsLinked ==
  /\ driver.bound = gl.bound /\ state.bound = gl.bound
  /\ \A v \in Names : driver.elem[v] = gl.elem[v] /\ driver.enabled[v] = gl.enabled[v]
  /\ \A v \in Vaos, i \in Indices : driver.src[v][i] = gl.src[v][i]
  /\ state.elem = gl.elem[state.vao] /\ \A v \in Names \ {state.vao} : gl.elem[v] = None
EntryLinked(i) ==
  LET e   == state.table[i]
      src == gl.src[None][i]
  IN /\ e = Absent => i \notin gl.enabled[None] /\ src = Unset
     /\ e # Absent => /\ e.enabled <=> i \in gl.enabled[None]
                      /\ src = [array |-> e.array, buffer |-> e.buffer]
Linked ==
  /\ ContextsLinked /\ \A i \in Indices : EntryLinked(i)
  /\ state.first # None => state.first \in Indices /\ state.table[state.first] # Absent

Linking == {"pointers", "values", "detached", "elements", "queries"}

LEMMA NamesApart ==
  /\ None \in Names /\ None \notin Vaos /\ Vaos \subseteq Names
  /\ \A v \in Names : v = None \/ v \in Vaos
  /\ \A b \in Buffers : b # None
  BY VertexArraysAssumption DEF Names

LEMMA LinkedPointer ==
  ASSUME Typed, Linked, NEW i \in Indices, NEW a \in Arrays, NEW e, PointerStep(i, a, e)
  PROVE  Linked'
  <1> DEFINE src == [array |-> a, buffer |-> gl.bound]
  <1>1. /\ state.vao \in Names /\ driver \in Driver /\ gl \in Driver /\ src \in Source
        /\ driver.bound = gl.bound /\ state.bound = gl.bound
    <2>1. state.vao \in Names /\ driver \in Driver /\ gl \in Driver /\ gl.bound \in BufferNames
      BY LooseIs, DriverIs DEF Typed
    <2> QED BY <2>1, SourceIs DEF Linked, ContextsLinked
  <1>2. src.array = a /\ src.buffer = gl.bound
    OBVIOUS
  <1> HIDE DEF src
  <1>3. /\ gl'.enabled = gl.enabled /\ gl'.bound = gl.bound /\ gl'.elem = gl.elem
        /\ \A v \in Names, j \in Indices :
             gl'.src[v][j] = IF v = state.vao /\ j = i THEN src ELSE gl.src[v][j]
    BY <1>1, PointedIs DEF PointerStep, src
  <1>4. /\ driver'.enabled = driver.enabled /\ driver'.bound = driver.bound
        /\ driver'.elem = driver.elem
        /\ \A v \in Names, j \in Indices :
             driver'.src[v][j] =
               IF v = state.vao /\ j = i /\ (state.vao # None \/ (state.bound # None /\ state.table[i] # e))
               THEN src ELSE driver.src[v][j]
    <2>1. CASE state.vao # None \/ (state.bound # None /\ state.table[i] # e)
      <3>1. driver' = Pointed(driver, i, src)
        BY <1>1, <2>1 DEF PointerStep, src
      <3> QED BY <1>1, <2>1, <3>1, PointedIs
    <2>2. CASE ~(state.vao # None \/ (state.bound # None /\ state.table[i] # e))
      <3>1. driver' = driver
        BY <2>2 DEF PointerStep
      <3> QED BY <2>2, <3>1
    <2> QED BY <2>1, <2>2
  <1>5. CASE state.vao # None
    <2>1. state' = state
      BY <1>5 DEF PointerStep
    <2> QED BY <1>1, <1>3, <1>4, <1>5, <2>1, NamesApart DEF Linked, ContextsLinked, EntryLinked
  <1>6. CASE state.vao = None
    <2>1. EnteredIn(state, i, e, state')
      BY <1>6 DEF PointerStep
    <2>2. ContextsLinked'
      BY <1>1, <1>3, <1>4, <1>6, <2>1, NamesApart DEF Linked, ContextsLinked, EnteredIn
    <2>3. ASSUME NEW j \in Indices PROVE EntryLinked(j)'
      <3>1. CASE j # i
        BY <1>3, <1>4, <2>1, <3>1, NamesApart DEF Linked, EntryLinked, EnteredIn
      <3>2. CASE j = i
        <4>1. state'.table[i] = e /\ e # Absent /\ e.array = a /\ e.buffer = gl.bound
          BY <1>1, <2>1, EntryIs DEF EnteredIn, PointerStep
        <4>2. e.enabled <=> i \in gl'.enabled[None]
          BY <1>3 DEF Linked, EntryLinked, PointerStep
        <4>3. gl'.src[None][i] = src /\ src = [array |-> e.array, buffer |-> e.buffer]
          BY <1>3, <1>6, <4>1, NamesApart DEF src
        <4> QED BY <3>2, <4>1, <4>2, <4>3 DEF EntryLinked
      <3> QED BY <3>1, <3>2
    <2>4. state'.first # None => state'.first \in Indices /\ state'.table[state'.first] # Absent
      <3>1. e # Absent
        BY EntryIs DEF PointerStep
      <3> QED BY <2>1, <3>1 DEF EnteredIn, Linked
    <2> QED BY <2>2, <2>3, <2>4 DEF Linked
  <1> QED BY <1>5, <1>6

LEMMA LinkedSet ==
  ASSUME Typed, Linked, "pointers" \in Manners, NEW i \in Indices, NEW on \in BOOLEAN,
         SetVertexAttribArray(i, on), SetStep(i, on)
  PROVE  Linked'
  <1> DEFINE e == state.table[i]
  <1>1. state.vao \in Names /\ driver \in Driver /\ gl \in Driver
    BY LooseIs DEF Typed
  <1>2. /\ gl'.src = gl.src /\ gl'.bound = gl.bound /\ gl'.elem = gl.elem
        /\ \A v \in Names : gl'.enabled[v] =
             IF v # state.vao THEN gl.enabled[v]
             ELSE IF on THEN gl.enabled[v] \cup {i} ELSE gl.enabled[v] \ {i}
    <2>1. gl' = Switched(gl, i, on)
      BY DEF SetStep
    <2>2. SwitchedTo(gl, i, on, gl')
      BY <1>1, <2>1, SwitchedIs
    <2> QED BY <2>2, Zenon DEF SwitchedTo
  <1>3. state.vao = None => e # Absent
    BY DEF SetVertexAttribArray
  <1>4. /\ driver'.src = driver.src /\ driver'.bound = driver.bound /\ driver'.elem = driver.elem
        /\ \A v \in Names : driver'.enabled[v] = gl'.enabled[v]
    <2>1. CASE driver' = Switched(driver, i, on)
      <3>1. /\ driver'.src = driver.src /\ driver'.bound = driver.bound
            /\ driver'.elem = driver.elem
            /\ \A v \in Names : driver'.enabled[v] =
                 IF v # state.vao THEN driver.enabled[v]
                 ELSE IF on THEN driver.enabled[v] \cup {i} ELSE driver.enabled[v] \ {i}
        <4>1. SwitchedTo(driver, i, on, driver')
          BY <1>1, <2>1, SwitchedIs
        <4> QED BY <4>1, Zenon DEF SwitchedTo
      <3>2. \A v \in Names : driver.enabled[v] = gl.enabled[v]
        BY DEF Linked, ContextsLinked
      <3>3. ASSUME NEW v \in Names PROVE driver'.enabled[v] = gl'.enabled[v]
        <4>1. driver.enabled[v] = gl.enabled[v]
          BY <3>2
        <4>2. CASE v # state.vao
          BY <1>2, <3>1, <4>1, <4>2
        <4>3. CASE v = state.vao /\ on
          BY <1>2, <3>1, <4>1, <4>3
        <4>4. CASE v = state.vao /\ ~on
          BY <1>2, <3>1, <4>1, <4>4
        <4> QED BY <4>2, <4>3, <4>4
      <3> QED BY <3>1, <3>3
    <2>2. CASE state.vao = None /\ e # Absent /\ e.enabled = on
      <3>1. driver' = driver /\ (on <=> i \in gl.enabled[None])
        BY <2>2 DEF SetStep, Linked, EntryLinked
      <3>2. ASSUME NEW v \in Names PROVE gl'.enabled[v] = gl.enabled[v]
        <4>1. CASE v # None
          BY <1>2, <2>2, <4>1
        <4>2. CASE v = None /\ on
          <5>1. gl'.enabled[v] = gl.enabled[v] \cup {i} /\ i \in gl.enabled[v]
            BY <1>2, <2>2, <3>1, <4>2
          <5> QED BY <5>1
        <4>3. CASE v = None /\ ~on
          <5>1. gl'.enabled[v] = gl.enabled[v] \ {i} /\ i \notin gl.enabled[v]
            BY <1>2, <2>2, <3>1, <4>3
          <5> QED BY <5>1
        <4> QED BY <4>1, <4>2, <4>3
      <3> QED BY <3>1, <3>2 DEF Linked, ContextsLinked
    <2> QED BY <2>1, <2>2 DEF SetStep
  <1>5. CASE state' = state
    <2>1. ASSUME state.vao = None, e.enabled # on PROVE FALSE
      <3>1. e # Absent /\ ~(e # Absent /\ e.enabled = on)
        BY <1>3, <2>1
      <3>2. \E new \in Entry : new.enabled = on /\ EnteredIn(state, i, new, state')
        BY <2>1, <3>1 DEF SetStep
      <3> QED BY <1>5, <2>1, <3>2 DEF EnteredIn
    <2>2. ContextsLinked'
      BY <1>2, <1>4, <1>5 DEF Linked, ContextsLinked
    <2>3. ASSUME NEW j \in Indices PROVE EntryLinked(j)'
      <3>1. j \in gl'.enabled[None] <=> j \in gl.enabled[None]
        <4>1. CASE state.vao = None /\ j = i
          <5>1. e.enabled <=> i \in gl.enabled[None]
            BY <1>3, <4>1 DEF Linked, EntryLinked
          <5>2. gl'.enabled[None] = IF on THEN gl.enabled[None] \cup {i} ELSE gl.enabled[None] \ {i}
            BY <1>2, <4>1, NamesApart
          <5>3. e.enabled = on
            BY <2>1, <4>1
          <5> QED BY <4>1, <5>1, <5>2, <5>3
        <4>2. CASE state.vao # None \/ j # i
          BY <1>2, <4>2, NamesApart
        <4> QED BY <4>1, <4>2
      <3> QED BY <1>2, <1>4, <1>5, <3>1 DEF Linked, EntryLinked
    <2> QED BY <1>5, <2>2, <2>3 DEF Linked
  <1>6. CASE state' # state
    <2>1. state.vao = None /\ ~(e # Absent /\ e.enabled = on)
      BY <1>6 DEF SetStep
    <2>2. PICK new \in Entry : /\ new.enabled = on
                               /\ new.array = e.array /\ new.buffer = e.buffer
                               /\ EnteredIn(state, i, new, state')
      BY <1>3, <2>1 DEF SetStep
    <2>3. ContextsLinked'
      BY <1>2, <1>4, <2>2 DEF Linked, ContextsLinked, EnteredIn
    <2>4. ASSUME NEW j \in Indices PROVE EntryLinked(j)'
      <3>1. CASE j # i
        <4>1. state'.table[j] = state.table[j]
          BY <2>2, <3>1 DEF EnteredIn
        <4>2. j \in gl'.enabled[None] <=> j \in gl.enabled[None]
          BY <1>2, <3>1, NamesApart
        <4> QED BY <1>2, <1>4, <4>1, <4>2 DEF Linked, EntryLinked
      <3>2. CASE j = i
        <4>1. state'.table[i] = new /\ new # Absent
          BY <2>2, EntryIs DEF EnteredIn
        <4>2. new.enabled <=> i \in gl'.enabled[None]
          BY <1>2, <2>1, <2>2, NamesApart
        <4>3. gl.src[None][i] = [array |-> new.array, buffer |-> new.buffer]
          BY <1>3, <2>1, <2>2 DEF Linked, EntryLinked
        <4> QED BY <1>2, <1>4, <3>2, <4>1, <4>2, <4>3 DEF EntryLinked
      <3> QED BY <3>1, <3>2
    <2>5. state'.first # None => state'.first \in Indices /\ state'.table[state'.first] # Absent
      <3>1. new # Absent
        BY EntryIs
      <3> QED BY <2>2, <3>1 DEF EnteredIn, Linked
    <2> QED BY <2>3, <2>4, <2>5 DEF Linked
  <1> QED BY <1>5, <1>6

LEMMA LinkedInit == Init => Linked
  BY NamesApart DEF Init, Linked, ContextsLinked, EntryLinked, Context

LEMMA LinkedBound ==
  ASSUME Typed, Linked, NEW b \in BufferNames, BindArrayBuffer(b)
  PROVE  Linked'
  <1>1. /\ Rebound(state') /\ state'.bound = b /\ state'.elem = state.elem
        /\ state'.vao = state.vao
        /\ gl' = [gl EXCEPT !.bound = b]
        /\ driver' = IF b = state.bound THEN driver ELSE [driver EXCEPT !.bound = b]
    BY BindArrayIs
  <1>2. \A c \in Driver : LET d == [c EXCEPT !.bound = b] IN
          d.bound = b /\ d.enabled = c.enabled /\ d.src = c.src /\ d.elem = c.elem
    BY DEF Driver
  <1>3. /\ gl'.bound = b /\ gl'.enabled = gl.enabled /\ gl'.src = gl.src /\ gl'.elem = gl.elem
        /\ driver'.bound = b /\ driver'.enabled = driver.enabled /\ driver'.src = driver.src
        /\ driver'.elem = driver.elem
    BY <1>1, <1>2 DEF Typed, Linked, ContextsLinked
  <1> QED BY <1>1, <1>3 DEF Linked, ContextsLinked, EntryLinked, Rebound

LEMMA LinkedElement ==
  ASSUME Typed, Linked, NEW b \in BufferNames, BindElementBuffer(b)
  PROVE  Linked'
  <1>1. /\ Rebound(state') /\ state'.bound = state.bound /\ state'.elem = b
        /\ state'.vao = state.vao
        /\ gl' = [gl EXCEPT !.elem[state.vao] = b]
        /\ driver' = IF b = state.elem THEN driver ELSE [driver EXCEPT !.elem[state.vao] = b]
    BY BindElementIs
  <1>2. state.vao \in Names /\ driver \in Driver /\ gl \in Driver
    BY LooseIs DEF Typed
  <1>3. /\ gl'.bound = gl.bound /\ gl'.enabled = gl.enabled /\ gl'.src = gl.src
        /\ \A v \in Names : gl'.elem[v] = IF v = state.vao THEN b ELSE gl.elem[v]
    <2>1. gl.elem \in [Names -> BufferNames]
      BY <1>2, DriverIs
    <2> QED BY <1>1, <1>2, <2>1, ElementIs
  <1>4. /\ driver'.bound = driver.bound /\ driver'.enabled = driver.enabled
        /\ driver'.src = driver.src
        /\ \A v \in Names : driver'.elem[v] = IF v = state.vao THEN b ELSE driver.elem[v]
    <2>1. driver.elem \in [Names -> BufferNames] /\ driver.elem[state.vao] = state.elem
      BY <1>2, DriverIs DEF Linked, ContextsLinked
    <2> QED BY <1>1, <1>2, <2>1, ElementIs
  <1> QED BY <1>1, <1>2, <1>3, <1>4 DEF Linked, ContextsLinked, EntryLinked, Rebound

(* Asked while none is bound, the driver tells of none.                    *)
LEMMA LinkedQueries ==
  ASSUME Typed, Linked, "queries" \in Manners, GetArrayBufferBinding \/ GetElementBufferBinding
  PROVE  Linked' /\ state'.table = state.table
  <1>1. /\ UNCHANGED <<driver, gl>> /\ state'.first = state.first
        /\ state'.elem = state.elem /\ state'.vao = state.vao
    BY QueriesAre
  <1>2. state.table \in [Indices -> {Absent} \cup Entry] /\ driver.bound \in BufferNames
        /\ state.vao \in Names
    BY LooseIs, DriverIs DEF Typed
  <1>3. state'.bound = gl.bound /\ state'.table = state.table
    <2>0. driver.bound = gl.bound /\ driver.elem[state.vao] = gl.elem[state.vao]
      BY <1>2 DEF Linked, ContextsLinked
    <2>1. CASE /\ GetArrayBufferBinding /\ state'.bound \in Told(driver.bound)
               /\ state'.table = AllIn(state.table, state'.bound)
      <3>1. /\ gl.bound = None
            /\ \A i \in Indices : state.table[i] # Absent => state.table[i].buffer = None
        BY <2>1 DEF GetArrayBufferBinding
      <3>2. state'.bound = None
        BY <1>2, <2>0, <2>1, <3>1, ToldIs
      <3>3. AllIn(state.table, None) = state.table
        BY <1>2, <2>0, <3>1, AllInIs
      <3> QED BY <2>1, <3>1, <3>2, <3>3
    <2>2. CASE /\ GetElementBufferBinding /\ state'.bound \in Told(driver.elem[state.vao])
               /\ Rebound(state')
      <3>1. gl.elem[state.vao] = None /\ gl.bound = None /\ None \in BufferNames
        BY <1>2, <2>0, <2>2 DEF GetElementBufferBinding, BufferNames
      <3>2. state'.bound = None
        BY <2>0, <2>2, <3>1, ToldIs
      <3> QED BY <2>2, <3>1, <3>2 DEF Rebound
    <2> QED BY <2>1, <2>2, QueriesAre
  <1> QED BY <1>1, <1>3 DEF Linked, ContextsLinked, EntryLinked

(* A buffer that is deleted is only bound, to one target at most.          *)
LEMMA LinkedDelete ==
  ASSUME Typed, Linked, "detached" \in Manners, NEW b \in Buffers, DeleteBuffers(b)
  PROVE  /\ Linked' /\ state'.table = state.table
         /\ \A v \in Names, i \in Indices : driver.src[v][i] = gl.src[v][i] =>
              driver'.src[v][i] = driver.src[v][i]
         /\ \A v \in Names, i \in Indices : gl'.src[v][i] = gl.src[v][i]
  <1>1. /\ \A v \in Names, i \in Indices : gl.src[v][i].buffer # b
        /\ ~(gl.bound = b /\ gl.elem[state.vao] = b)
    BY DEF DeleteBuffers
  <1>2. /\ SameList(state, state')
        /\ state'.first = state.first /\ state'.vao = state.vao
        /\ state'.bound = Unless(state.bound, b)
        /\ state'.elem = IF state.bound = b THEN state.elem ELSE Unless(state.elem, b)
        /\ state'.table = IF state.first = None \/ state.table[state.first].buffer # b
                          THEN state.table ELSE AllIn(state.table, None)
        /\ driver' = WithoutBuffer(driver, b) /\ gl' = WithoutBuffer(gl, b)
    BY DeleteBuffersIs
  <1>3. state.vao \in Names /\ driver \in Driver /\ gl \in Driver
    BY LooseIs DEF Typed
  <1>4. /\ gl'.enabled = gl.enabled /\ gl'.bound = Unless(gl.bound, b)
        /\ \A v \in Names : gl'.elem[v] = IF v = state.vao THEN Unless(gl.elem[v], b) ELSE gl.elem[v]
        /\ \A v \in Names \ {state.vao} : gl'.src[v] = gl.src[v]
        /\ \A i \in Indices : gl'.src[state.vao][i] = Outside(gl.src[state.vao][i], b)
    BY <1>2, <1>3, WithoutBufferIs
  <1>5. /\ driver'.enabled = driver.enabled /\ driver'.bound = Unless(driver.bound, b)
        /\ \A v \in Names : driver'.elem[v] = IF v = state.vao THEN Unless(driver.elem[v], b)
                                              ELSE driver.elem[v]
        /\ \A v \in Names \ {state.vao} : driver'.src[v] = driver.src[v]
        /\ \A i \in Indices : driver'.src[state.vao][i] = Outside(driver.src[state.vao][i], b)
    BY <1>2, <1>3, WithoutBufferIs
  <1>6. \A x \in Source : x.buffer # b => Outside(x, b) = x
    BY DEF Source, Outside, Unless
  <1>7. ASSUME NEW v \in Names, NEW i \in Indices
        PROVE  gl'.src[v][i] = gl.src[v][i]
    BY <1>1, <1>3, <1>4, <1>6, DriverIs
  <1>8. ASSUME NEW v \in Names, NEW i \in Indices, driver.src[v][i] = gl.src[v][i]
        PROVE  driver'.src[v][i] = driver.src[v][i]
    BY <1>1, <1>3, <1>5, <1>6, <1>8, DriverIs
  <1>9. state'.table = state.table
    <2>1. ASSUME state.first # None PROVE state.table[state.first].buffer # b
      <3> DEFINE src == gl.src[None][state.first]
      <3>1. src = [array |-> state.table[state.first].array, buffer |-> state.table[state.first].buffer]
        BY <2>1 DEF Linked, EntryLinked
      <3>2. src.buffer # b
        BY <1>1, <2>1, NamesApart DEF Linked
      <3> HIDE DEF src
      <3> QED BY <3>1, <3>2
    <2> QED BY <1>2, <2>1
  <1>10. state'.elem = gl'.elem[state'.vao]
    BY <1>1, <1>2, <1>3, <1>4 DEF Linked, ContextsLinked, Unless
  <1>11. ContextsLinked'
    <2>1. driver'.bound = gl'.bound /\ state'.bound = gl'.bound
      BY <1>2, <1>4, <1>5 DEF Linked, ContextsLinked
    <2>2. \A v \in Names : driver'.elem[v] = gl'.elem[v] /\ driver'.enabled[v] = gl'.enabled[v]
      BY <1>4, <1>5 DEF Linked, ContextsLinked
    <2>3. \A v \in Vaos, i \in Indices : driver'.src[v][i] = gl'.src[v][i]
      BY <1>7, <1>8, NamesApart DEF Linked, ContextsLinked
    <2>4. \A v \in Names \ {state'.vao} : gl'.elem[v] = None
      BY <1>2, <1>4 DEF Linked, ContextsLinked
    <2> QED BY <1>10, <2>1, <2>2, <2>3, <2>4 DEF ContextsLinked
  <1> QED BY <1>2, <1>4, <1>7, <1>8, <1>9, <1>11, NamesApart DEF Linked, EntryLinked

(* A vertex array object is bound while no element buffer is.              *)
LEMMA LinkedObjects ==
  ASSUME Typed, Linked, "elements" \in Manners, NEW v \in Names, NEW now \in Names,
         \/ BindVertexArray(v) /\ now = v
         \/ v \in Vaos /\ DeleteVertexArrays(v) /\ now = Unless(state.vao, v)
  PROVE  /\ Linked'
         /\ \A i \in Indices : /\ gl'.src[None][i] = gl.src[None][i]
                               /\ driver'.src[None][i] = driver.src[None][i]
  <1>1. /\ Rebound(state') /\ state'.bound = state.bound /\ state'.elem = state.elem
        /\ state'.vao = now
    BY ObjectsAre
  <1>2. state.vao \in Names /\ driver \in Driver /\ gl \in Driver
    BY LooseIs DEF Typed
  <1>3. CASE BindVertexArray(v) /\ now = v
    <2>1. UNCHANGED <<driver, gl>>
      BY <1>3, ObjectsAre
    <2>2. \A w \in Names : gl.elem[w] = None
      BY <1>3 DEF BindVertexArray, ElementsUnbound, Linked, ContextsLinked
    <2> QED BY <1>1, <1>2, <2>1, <2>2, NamesApart
            DEF Linked, ContextsLinked, EntryLinked, Rebound
  <1>4. CASE v \in Vaos /\ DeleteVertexArrays(v) /\ now = Unless(state.vao, v)
    <2>1. driver' = Dropped(driver, v) /\ gl' = Dropped(gl, v)
      BY <1>4, ObjectsAre
    <2>2. /\ gl'.bound = gl.bound
          /\ \A w \in Names : gl'.enabled[w] = IF w = v THEN {} ELSE gl.enabled[w]
          /\ \A w \in Names : gl'.elem[w] = IF w = v THEN None ELSE gl.elem[w]
          /\ \A w \in Names : gl'.src[w] = IF w = v THEN [i \in Indices |-> Unset] ELSE gl.src[w]
      <3>1. DroppedTo(gl, v, gl')
        BY <1>2, <2>1, DroppedIs
      <3> QED BY <3>1, Zenon DEF DroppedTo
    <2>3. /\ driver'.bound = driver.bound
          /\ \A w \in Names : driver'.enabled[w] = IF w = v THEN {} ELSE driver.enabled[w]
          /\ \A w \in Names : driver'.elem[w] = IF w = v THEN None ELSE driver.elem[w]
          /\ \A w \in Names : driver'.src[w] = IF w = v THEN [i \in Indices |-> Unset] ELSE driver.src[w]
      <3>1. DroppedTo(driver, v, driver')
        BY <1>2, <2>1, DroppedIs
      <3> QED BY <3>1, Zenon DEF DroppedTo
    <2>4. v # None
      BY <1>4, NamesApart
    <2>5. state'.elem = gl'.elem[now] /\ \A w \in Names \ {now} : gl'.elem[w] = None
      <3>1. CASE v = state.vao
        <4>1. gl.elem[state.vao] = None /\ now = None
          BY <1>4, <3>1 DEF DeleteVertexArrays, ElementsUnbound, Unless
        <4>2. \A w \in Names : gl.elem[w] = None
          BY <4>1 DEF Linked, ContextsLinked
        <4> QED BY <1>1, <1>2, <2>2, <4>1, <4>2 DEF Linked, ContextsLinked
      <3>2. CASE v # state.vao
        <4>1. now = state.vao
          BY <1>4, <3>2 DEF Unless
        <4> QED BY <1>1, <1>2, <2>2, <3>2, <4>1 DEF Linked, ContextsLinked
      <3> QED BY <3>1, <3>2
    <2>6. \A w \in Vaos, i \in Indices : driver'.src[w][i] = gl'.src[w][i]
      BY <2>2, <2>3, NamesApart DEF Linked, ContextsLinked
    <2>7. \A w \in Names : driver'.elem[w] = gl'.elem[w] /\ driver'.enabled[w] = gl'.enabled[w]
      BY <2>2, <2>3 DEF Linked, ContextsLinked
    <2>8. ContextsLinked'
      BY <1>1, <2>2, <2>3, <2>5, <2>6, <2>7 DEF Linked, ContextsLinked
    <2>9. \A i \in Indices : /\ gl'.src[None][i] = gl.src[None][i]
                             /\ driver'.src[None][i] = driver.src[None][i]
      BY <2>2, <2>3, <2>4, NamesApart
    <2>10. gl'.enabled[None] = gl.enabled[None]
      BY <2>2, <2>4, NamesApart
    <2> QED BY <1>1, <2>8, <2>9, <2>10 DEF Linked, EntryLinked, Rebound
  <1> QED BY <1>3, <1>4

LEMMA LinkedDrawing ==
  ASSUME Typed, Linked, Drawing
  PROVE  Linked'
  <1>1. PICK sent, copies \in BOOLEAN : Drawn(sent, copies)
    BY DrawingIs
  <1>2. UNCHANGED <<state, gl>>
    BY DrawingIs
  <1>3. /\ driver'.enabled = driver.enabled /\ driver'.bound = driver.bound
        /\ driver'.elem = driver.elem
        /\ \A w \in Names \ {None} : driver'.src[w] = driver.src[w]
    BY <1>1 DEF Drawn
  <1> QED BY <1>2, <1>3, NamesApart DEF Linked, ContextsLinked, EntryLinked

LEMMA LinkedStep ==
  ASSUME Typed, Linked, Linking \subseteq Manners, [Next]_vars
  PROVE  Linked'
  <1>1. CASE UNCHANGED vars
    BY <1>1 DEF vars, Linked, ContextsLinked, EntryLinked
  <1>2. CASE Next
    <2>1. ASSUME NEW i \in Indices, NEW a \in Arrays, VertexAttribPointer(i, a) PROVE Linked'
      BY <2>1, PointerIs, LinkedPointer
    <2>2. ASSUME NEW i \in Indices, NEW on \in BOOLEAN, SetVertexAttribArray(i, on) PROVE Linked'
      BY <2>2, SetIs, LinkedSet DEF Linking
    <2>3. ASSUME NEW i \in Indices, VertexAttrib(i) PROVE Linked'
      <3>1. /\ UNCHANGED <<state, driver>> /\ gl'.enabled = gl.enabled /\ gl'.src = gl.src
            /\ gl'.bound = gl.bound /\ gl'.elem = gl.elem
        BY <2>3, AttribIs DEF Linking
      <3> QED BY <3>1 DEF Linked, ContextsLinked, EntryLinked
    <2>4. ASSUME NEW b \in BufferNames, BindArrayBuffer(b) PROVE Linked'
      BY <2>4, LinkedBound
    <2>5. ASSUME NEW b \in BufferNames, BindElementBuffer(b) PROVE Linked'
      BY <2>5, LinkedElement
    <2>6. ASSUME NEW b \in Buffers, DeleteBuffers(b) PROVE Linked'
      BY <2>6, LinkedDelete DEF Linking
    <2>7. CASE GetArrayBufferBinding \/ GetElementBufferBinding
      BY <2>7, LinkedQueries DEF Linking
    <2>8. ASSUME NEW v \in Names, BindVertexArray(v) PROVE Linked'
      BY <2>8, LinkedObjects DEF Linking
    <2>9. ASSUME NEW v \in Vaos, DeleteVertexArrays(v) PROVE Linked'
      <3>1. v \in Names /\ Unless(state.vao, v) \in Names
        BY LooseIs DEF Typed, Names, Unless
      <3> QED BY <2>9, <3>1, LinkedObjects DEF Linking
    <2>10. CASE Drawing
      BY <2>10, LinkedDrawing
    <2> QED BY <1>2, <2>1, <2>2, <2>3, <2>4, <2>5, <2>6, <2>7, <2>8, <2>9, <2>10, StepIs
  <1> QED BY <1>1, <1>2

LEMMA LinkedAgrees == Typed /\ Linked => AnswersAgree
  <1> SUFFICES ASSUME Typed, Linked PROVE AnswersAgree
    OBVIOUS
  <1>1. state \in Loose /\ state.vao \in Names
    BY LooseIs DEF Typed
  <1>2. /\ driver.bound = gl.bound /\ driver.elem[state.vao] = gl.elem[state.vao]
        /\ state.bound = gl.bound /\ state.elem = gl.elem[state.vao]
    BY <1>1 DEF Linked, ContextsLinked
  <1>3. ASSUME NEW i \in Indices, NEW told \in Answers(i),
               state.vao # None \/ state.table[i] # Absent \/ state.bound = None
        PROVE  LET meant == gl.src[state.vao][i] IN
                 /\ told.enabled = (i \in gl.enabled[state.vao]) /\ told.array = meant.array
                 /\ told.buffer = None <=> meant.buffer = None
                 /\ state.vao = None => told.buffer = meant.buffer
    <2>1. CASE state.vao # None
      <3>1. driver.src[state.vao][i] = gl.src[state.vao][i]
        BY <1>1, <2>1, NamesApart DEF Linked, ContextsLinked
      <3>2. driver.enabled[state.vao] = gl.enabled[state.vao]
        BY <1>1 DEF Linked, ContextsLinked
      <3> DEFINE src == driver.src[state.vao][i]
      <3>3. PICK b \in Told(src.buffer) :
              told = [enabled |-> i \in driver.enabled[state.vao], array |-> src.array, buffer |-> b]
        BY <2>1 DEF Answers
      <3>4. b = None <=> src.buffer = None
        BY <3>3, NamesApart DEF Told
      <3> QED BY <2>1, <3>1, <3>2, <3>3, <3>4
    <2>2. CASE state.vao = None /\ state.table[i] # Absent
      <3> DEFINE e == state.table[i]
      <3>1. e \in Entry /\ told = e
        BY <1>1, <1>3, <2>2, LooseIs DEF Answers
      <3>2. /\ e.enabled = (i \in gl.enabled[None])
            /\ gl.src[None][i] = [array |-> e.array, buffer |-> e.buffer]
        BY <2>2, <3>1, EntryIs DEF Linked, EntryLinked
      <3>3. e = [enabled |-> e.enabled, array |-> e.array, buffer |-> e.buffer]
        BY <3>1, EntryIs
      <3> HIDE DEF e
      <3> QED BY <2>2, <3>1, <3>2, <3>3
    <2>3. CASE state.vao = None /\ state.table[i] = Absent
      <3>1. state.bound = None
        BY <1>3, <2>3
      <3>2. i \notin gl.enabled[None] /\ gl.src[None][i] = Unset
        BY <2>3 DEF Linked, EntryLinked
      <3>3. told = [enabled |-> FALSE, array |-> NoArray, buffer |-> None]
        BY <1>3, <2>3, <3>1 DEF Answers
      <3>4. (i \in gl.enabled[None]) = FALSE
        BY <3>2
      <3>5. gl.src[None][i].array = NoArray /\ gl.src[None][i].buffer = None
        BY <3>2 DEF Unset
      <3> QED BY <2>3, <3>3, <3>4, <3>5
    <2> QED BY <2>1, <2>2, <2>3
  <1> QED BY <1>2, <1>3 DEF AnswersAgree

-----------------------------------------------------------------------------
(* The table and the list: a step that changes either specifies an array   *)
(* that is not enabled, or enables or disables one.                        *)
SameTable == state'.table = state.table /\ SameList(state, state')
Specified(i, e) ==
  /\ e \in Entry /\ ~e.enabled /\ (state.table[i] = Absent \/ ~state.table[i].enabled)
  /\ EnteredIn(state, i, e, state') /\ SameList(state, state')

(* One step of glEnableVertexAttribArray or its counterpart, t being the   *)
(* record with the new entry.                                              *)
Toggled(i, on, e, t) ==
  /\ SetVertexAttribArray(i, on) /\ state.vao = None /\ state.table[i] \in Entry
  /\ e \in Entry /\ e.enabled = on /\ state.table[i].enabled = ~on
  /\ e.array = state.table[i].array /\ e.buffer = state.table[i].buffer
  /\ EnteredIn(state, i, e, t) /\ SameList(state, t) /\ EnteredIn(state, i, e, state')
  /\ state' = IF state.bound # None THEN t ELSE IF on THEN Added(t, i) ELSE Removed(t, i)

LEMMA TableSteps ==
  ASSUME Typed, Linked, Linking \subseteq Manners, [Next]_vars
  PROVE  \/ SameTable
         \/ \E i \in Indices : \E e : Specified(i, e)
         \/ \E i \in Indices, on \in BOOLEAN : \E e, t : Toggled(i, on, e, t)
  <1>1. CASE UNCHANGED vars
    BY <1>1 DEF vars, SameTable, SameList
  <1>2. CASE Next
    <2>1. ASSUME NEW i \in Indices, NEW a \in Arrays, VertexAttribPointer(i, a)
          PROVE  SameTable \/ \E e : Specified(i, e)
      <3>1. PICK e : PointerStep(i, a, e)
        BY <2>1, PointerIs
      <3>2. CASE state.vao # None
        BY <3>1, <3>2 DEF PointerStep, SameTable, SameList
      <3>3. CASE state.vao = None
        <4>1. i \notin gl.enabled[None]
          BY <2>1, <3>3 DEF VertexAttribPointer, Linking
        <4>2. state.table[i] = Absent \/ ~state.table[i].enabled
          BY <4>1 DEF Linked, EntryLinked
        <4>3. ~e.enabled
          BY <3>1, <4>2 DEF PointerStep
        <4>4. Specified(i, e)
          BY <3>1, <3>3, <4>2, <4>3 DEF PointerStep, Specified
        <4> QED BY <4>4
      <3> QED BY <3>2, <3>3
    <2>2. ASSUME NEW i \in Indices, NEW on \in BOOLEAN, SetVertexAttribArray(i, on)
          PROVE  SameTable \/ \E e, t : Toggled(i, on, e, t)
      <3> DEFINE e == state.table[i]
      <3>1. SetStep(i, on)
        BY <2>2, SetIs
      <3>2. CASE state' = state
        BY <3>2 DEF SameTable, SameList
      <3>3. CASE state' # state
        <4>1. state.vao = None /\ ~(e # Absent /\ e.enabled = on)
          BY <3>1, <3>3 DEF SetStep
        <4>2. e # Absent
          BY <2>2, <4>1 DEF SetVertexAttribArray, Linking
        <4>3. e \in Entry /\ e.enabled = ~on
          <5>1. e \in Entry
            BY <4>2, LooseIs DEF Typed
          <5> QED BY <4>1, <4>2, <5>1, EntryIs
        <4>4. PICK new \in Entry, s \in Loose :
                /\ new.enabled = on /\ new.array = e.array /\ new.buffer = e.buffer
                /\ EnteredIn(state, i, new, s) /\ SameList(state, s)
                /\ EnteredIn(state, i, new, state')
                /\ state' = IF e = Absent \/ state.bound # None THEN s
                            ELSE IF on THEN Added(s, i) ELSE Removed(s, i)
          BY <3>1, <4>1, <4>2 DEF SetStep
        <4>5. Toggled(i, on, new, s)
          BY <2>2, <4>1, <4>2, <4>3, <4>4 DEF Toggled
        <4> QED BY <4>5
      <3> QED BY <3>2, <3>3
    <2>3. ASSUME NEW i \in Indices, VertexAttrib(i) PROVE SameTable
      BY <2>3, AttribIs DEF Linking, SameTable, SameList
    <2>4. ASSUME NEW b \in BufferNames, BindArrayBuffer(b) PROVE SameTable
      BY <2>4, BindArrayIs DEF Rebound, SameTable
    <2>5. ASSUME NEW b \in BufferNames, BindElementBuffer(b) PROVE SameTable
      BY <2>5, BindElementIs DEF Rebound, SameTable
    <2>6. ASSUME NEW b \in Buffers, DeleteBuffers(b) PROVE SameTable
      BY <2>6, LinkedDelete, DeleteBuffersIs DEF Linking, SameTable
    <2>7. CASE GetArrayBufferBinding \/ GetElementBufferBinding
      BY <2>7, LinkedQueries, QueriesAre DEF Linking, SameTable
    <2>8. ASSUME NEW v \in Names, BindVertexArray(v) PROVE SameTable
      BY <2>8, ObjectsAre DEF Rebound, SameTable
    <2>9. ASSUME NEW v \in Vaos, DeleteVertexArrays(v) PROVE SameTable
      <3>1. v \in Names /\ Unless(state.vao, v) \in Names
        BY LooseIs DEF Typed, Names, Unless
      <3> QED BY <2>9, <3>1, ObjectsAre DEF Rebound, SameTable
    <2>10. CASE Drawing
      BY <2>10, DrawingIs DEF SameTable, SameList
    <2> QED BY <1>2, <2>1, <2>2, <2>3, <2>4, <2>5, <2>6, <2>7, <2>8, <2>9, <2>10, StepIs
  <1> QED BY <1>1, <1>2

-----------------------------------------------------------------------------
(* The list has the enabled arrays in application memory, each once.       *)
Has(l, i)   == \E p \in 1 .. Len(l) : l[p].index = i
Distinct(l) == \A p, q \in 1 .. Len(l) : l[p].index = l[q].index => p = q
ChunksTo(l, c) == \A p \in 1 .. Len(l) : l[p].chunk \in 1 .. c

LEMMA TakenHas ==
  ASSUME NEW l \in Seq(Link), NEW m \in Seq(Link), Distinct(l),
         NEW p \in 1 .. Len(l), Taken(l, p, m)
  PROVE  /\ Distinct(m)
         /\ \A j : Has(m, j) <=> Has(l, j) /\ j # l[p].index
         /\ \A c : ChunksTo(l, c) => ChunksTo(m, c)
  <1> DEFINE from(k) == IF k < p THEN k ELSE k + 1
  <1>1. Len(l) \in Nat /\ Len(m) = Len(l) - 1
    BY DEF Taken
  <1>2. \A k \in 1 .. Len(m) : from(k) \in 1 .. Len(l) /\ from(k) # p /\ m[k] = l[from(k)]
    BY <1>1 DEF Taken
  <1>3. \A k, n \in 1 .. Len(m) : from(k) = from(n) => k = n
    BY <1>1
  <1>4. \A q \in 1 .. Len(l) : q # p => \E k \in 1 .. Len(m) : from(k) = q
    <2>1. ASSUME NEW q \in 1 .. Len(l), q # p PROVE \E k \in 1 .. Len(m) : from(k) = q
      <3>1. CASE q < p
        <4>1. q \in 1 .. Len(m) /\ from(q) = q
          BY <1>1, <3>1
        <4> QED BY <4>1
      <3>2. CASE q > p
        <4>1. q - 1 \in 1 .. Len(m) /\ from(q - 1) = q
          BY <1>1, <3>2
        <4> QED BY <4>1
      <3> QED BY <2>1, <3>1, <3>2
    <2> QED BY <2>1
  <1> HIDE DEF from
  <1>5. Distinct(m)
    BY <1>2, <1>3 DEF Distinct
  <1>6. \A j : Has(m, j) <=> Has(l, j) /\ j # l[p].index
    <2>1. ASSUME NEW j, Has(m, j) PROVE Has(l, j) /\ j # l[p].index
      <3>1. PICK k \in 1 .. Len(m) : m[k].index = j
        BY <2>1 DEF Has
      <3>2. from(k) \in 1 .. Len(l) /\ from(k) # p /\ l[from(k)].index = j
        BY <1>2, <3>1
      <3> QED BY <3>2 DEF Has, Distinct
    <2>2. ASSUME NEW j, Has(l, j), j # l[p].index PROVE Has(m, j)
      <3>1. PICK q \in 1 .. Len(l) : l[q].index = j
        BY <2>2 DEF Has
      <3>2. PICK k \in 1 .. Len(m) : from(k) = q
        BY <1>4, <2>2, <3>1
      <3> QED BY <1>2, <3>1, <3>2 DEF Has
    <2> QED BY <2>1, <2>2
  <1>7. \A c : ChunksTo(l, c) => ChunksTo(m, c)
    BY <1>2 DEF ChunksTo
  <1> QED BY <1>5, <1>6, <1>7

LEMMA InsertedHas ==
  ASSUME NEW l \in Seq(Link), NEW m \in Seq(Link), NEW i \in Indices, Distinct(l), ~Has(l, i),
         NEW at \in 1 .. Len(l) + 1, NEW hit, NEW own \in Nat, Inserted(l, i, hit, at, own, m)
  PROVE  /\ Distinct(m)
         /\ \A j : Has(m, j) <=> Has(l, j) \/ j = i
  <1> DEFINE to(k) == IF k < at THEN k ELSE k + 1
  <1>1. Len(l) \in Nat /\ Len(m) = Len(l) + 1 /\ m[at].index = i
    BY DEF Inserted
  <1>2. \A k \in 1 .. Len(l) : to(k) \in 1 .. Len(m) /\ to(k) # at
    BY <1>1
  <1>3. \A k \in 1 .. Len(l) : m[to(k)].index = l[k].index
    <2>1. \A k \in 1 .. Len(l) : Grown(l[k]).index = l[k].index
      <3>1. \A x \in Link : Grown(x).index = x.index
        BY DEF Grown, Link
      <3> QED BY <3>1
    <2>2. ASSUME NEW k \in 1 .. Len(l) PROVE m[to(k)].index = l[k].index
      <3>1. CASE k < at
        <4>1. k \in 1 .. at - 1
          BY <3>1
        <4>2. m[k] = IF k < hit THEN Grown(l[k]) ELSE l[k]
          BY <4>1 DEF Inserted
        <4> QED BY <2>1, <3>1, <4>2
      <3>2. CASE k >= at
        <4>1. k \in at .. Len(l)
          BY <3>2
        <4>2. m[k + 1] = l[k]
          BY <4>1 DEF Inserted
        <4> QED BY <3>2, <4>2
      <3> QED BY <3>1, <3>2
    <2> QED BY <2>2
  <1>4. \A q \in 1 .. Len(m) : q # at => \E k \in 1 .. Len(l) : to(k) = q
    <2>1. ASSUME NEW q \in 1 .. Len(m), q # at PROVE \E k \in 1 .. Len(l) : to(k) = q
      <3>1. CASE q < at
        <4>1. q \in 1 .. Len(l) /\ to(q) = q
          BY <1>1, <3>1
        <4> QED BY <4>1
      <3>2. CASE q > at
        <4>1. q - 1 \in 1 .. Len(l) /\ to(q - 1) = q
          BY <1>1, <3>2
        <4> QED BY <4>1
      <3> QED BY <1>1, <2>1, <3>1, <3>2
    <2> QED BY <2>1
  <1> HIDE DEF to
  <1>5. at \in 1 .. Len(m)
    BY <1>1
  <1>6. \A j : Has(m, j) <=> Has(l, j) \/ j = i
    <2>1. ASSUME NEW j, Has(m, j) PROVE Has(l, j) \/ j = i
      <3>1. PICK q \in 1 .. Len(m) : m[q].index = j
        BY <2>1 DEF Has
      <3>2. CASE q # at
        <4>1. PICK k \in 1 .. Len(l) : to(k) = q
          BY <1>4, <3>2
        <4> QED BY <1>3, <3>1, <4>1 DEF Has
      <3> QED BY <1>1, <3>1, <3>2
    <2>2. ASSUME NEW j, Has(l, j) \/ j = i PROVE Has(m, j)
      <3>1. CASE j = i
        BY <1>1, <1>5, <3>1 DEF Has
      <3>2. CASE Has(l, j)
        <4>1. PICK k \in 1 .. Len(l) : l[k].index = j
          BY <3>2 DEF Has
        <4> QED BY <1>2, <1>3, <4>1 DEF Has
      <3> QED BY <2>2, <3>1, <3>2
    <2> QED BY <2>1, <2>2
  <1>7. ASSUME NEW p \in 1 .. Len(m), NEW q \in 1 .. Len(m), m[p].index = m[q].index
        PROVE  p = q
    <2>1. CASE p = at /\ q # at
      <3>1. PICK k \in 1 .. Len(l) : to(k) = q
        BY <1>4, <2>1
      <3>2. l[k].index = i
        BY <1>1, <1>3, <1>7, <2>1, <3>1
      <3> QED BY <3>2 DEF Has
    <2>2. CASE p # at /\ q = at
      <3>1. PICK k \in 1 .. Len(l) : to(k) = p
        BY <1>4, <2>2
      <3>2. l[k].index = i
        BY <1>1, <1>3, <1>7, <2>2, <3>1
      <3> QED BY <3>2 DEF Has
    <2>3. CASE p # at /\ q # at
      <3>1. PICK k \in 1 .. Len(l) : to(k) = p
        BY <1>4, <2>3
      <3>2. PICK n \in 1 .. Len(l) : to(n) = q
        BY <1>4, <2>3
      <3>3. l[k].index = l[n].index
        BY <1>3, <1>7, <3>1, <3>2
      <3> QED BY <3>1, <3>2, <3>3 DEF Distinct
    <2> QED BY <2>1, <2>2, <2>3
  <1>8. Distinct(m)
    BY <1>7 DEF Distinct
  <1> QED BY <1>6, <1>8

(* No chunk number grows by more than one.                                 *)
LEMMA InsertedChunks ==
  ASSUME NEW l \in Seq(Link), NEW m \in Seq(Link), NEW i \in Indices, NEW c \in Nat,
         \A p \in 1 .. Len(l) : l[p].chunk \in 1 .. c /\ l[p].chunk < c,
         NEW at \in 1 .. Len(l) + 1, NEW hit, NEW own \in 1 .. c, Inserted(l, i, hit, at, own, m)
  PROVE  ChunksTo(m, c)
  <1>1. Len(l) \in Nat /\ Len(m) = Len(l) + 1 /\ m[at].chunk = own
    BY DEF Inserted
  <1>2. \A x \in Link : Grown(x).chunk = x.chunk + 1
    BY DEF Grown, Link
  <1>3. \A k \in 1 .. Len(l) : Grown(l[k]).chunk \in 1 .. c
    <2>1. ASSUME NEW k \in 1 .. Len(l) PROVE Grown(l[k]).chunk \in 1 .. c
      <3>1. l[k] \in Link /\ Grown(l[k]).chunk = l[k].chunk + 1
        BY <1>2
      <3>2. l[k].chunk \in 1 .. c /\ l[k].chunk < c
        OBVIOUS
      <3> QED BY <3>1, <3>2
    <2> QED BY <2>1
  <1>4. ASSUME NEW k \in 1 .. Len(m) PROVE m[k].chunk \in 1 .. c
    <2>1. CASE k < at
      <3>1. k \in 1 .. at - 1 /\ k \in 1 .. Len(l)
        BY <1>1, <2>1
      <3>2. m[k] = IF k < hit THEN Grown(l[k]) ELSE l[k]
        BY <3>1 DEF Inserted
      <3> QED BY <1>3, <3>1, <3>2
    <2>2. CASE k = at
      BY <1>1, <2>2
    <2>3. CASE k > at
      <3>1. k - 1 \in at .. Len(l) /\ k - 1 \in 1 .. Len(l) /\ (k - 1) + 1 = k
        BY <1>1, <2>3
      <3>2. m[(k - 1) + 1] = l[k - 1]
        BY <3>1 DEF Inserted
      <3> QED BY <3>1, <3>2
    <2> QED BY <1>1, <2>1, <2>2, <2>3
  <1> QED BY <1>4 DEF ChunksTo

Counted ==
  /\ state.count = Len(state.list) /\ Distinct(state.list)
  /\ \A i \in Indices : Has(state.list, i) <=> InMemory(i) /\ state.table[i].enabled
  /\ ChunksTo(state.list, MaxChunk)

Counting == Linking \cup {"binding", "rising"}

LEMMA CountedInit == Init => Counted
  BY DEF Init, Counted, Distinct, Has, ChunksTo, InMemory

(* The steps that change the list, and what the guards leave of them.      *)
LEMMA ToggledIs ==
  ASSUME Typed, Counted, {"binding", "rising"} \subseteq Manners,
         NEW i \in Indices, NEW on \in BOOLEAN, NEW e, NEW t, Toggled(i, on, e, t)
  PROVE  \/ e.buffer # None /\ SameList(state, state')
         \/ /\ e.buffer = None /\ on /\ state'.count = state.count + 1
            /\ ~Has(state.list, i)
            /\ \E hit, at \in 1 .. Len(state.list) + 1, own \in 1 .. MaxChunk :
                 /\ Placed(t, i, hit, at, own)
                 /\ at = 1 => state.list = << >>
                 /\ Inserted(state.list, i, hit, at, own, state'.list)
         \/ /\ e.buffer = None /\ ~on /\ state'.count = state.count - 1
            /\ \E p \in 1 .. Len(state.list) :
                 state.list[p].index = i /\ Taken(state.list, p, state'.list)
  <1> DEFINE l == state.list
             old == state.table[i]
  <1>1. /\ state \in Loose /\ l \in Seq(Link) /\ state.count \in Int /\ t \in Loose
        /\ t.list = l /\ t.count = state.count
        /\ e \in Entry /\ old \in Entry /\ old # Absent /\ old.enabled = ~on
        /\ e.array = old.array /\ e.buffer = old.buffer
        /\ \A j \in Indices : t.table[j] = IF j = i THEN e ELSE state.table[j]
        /\ state' = IF state.bound # None THEN t ELSE IF on THEN Added(t, i) ELSE Removed(t, i)
    BY LooseIs, EntryIs DEF Typed, Toggled, EnteredIn, SameList
  <1>2. e.buffer = None <=> state.bound = None
    <2>1. "binding" \in Manners /\ old # Absent => (old.buffer = None <=> state.bound = None)
      BY DEF Toggled, SetVertexAttribArray
    <2> QED BY <1>1, <2>1
  <1>3. CASE state.bound # None
    BY <1>1, <1>2, <1>3 DEF SameList
  <1>4. CASE state.bound = None /\ on
    <2>1. state' = Added(t, i)
      BY <1>1, <1>4
    <2>2. state'.count = state.count + 1 /\ AddedTo(t, i, state'.list)
      BY <1>1, <2>1, AddedFields
    <2>3. ~Has(l, i)
      BY <1>1, <1>4 DEF Counted
    <2>4. PICK hit \in 1 .. Len(l) + 1, at \in 1 .. Len(l) + 1, own \in Nat :
            /\ Placed(t, i, hit, at, own)
            /\ at = 1 => state'.list = <<[index |-> i, chunk |-> own]>>
            /\ at # 1 => Inserted(l, i, hit, at, own, state'.list)
      BY <1>1, <2>2 DEF AddedTo
    <2>5. Len(l) \in Nat /\ (l = << >> <=> Len(l) = 0)
      BY <1>1
    <2>6. at = 1 => l = << >>
      <3> SUFFICES ASSUME at = 1, l # << >> PROVE FALSE
        OBVIOUS
      <3> DEFINE j    == l[1].index
                 head == ArrayOf(j)
      <3>1. /\ j \in Indices /\ Has(l, j) /\ j # i /\ Head(l) = l[1]
        <4>1. 1 \in 1 .. Len(l) /\ Head(l) = l[1]
          BY <1>1, <2>5
        <4>2. Has(l, j) /\ l[1] \in Link
          BY <1>1, <4>1 DEF Has
        <4> QED BY <2>3, <4>1, <4>2 DEF Link
      <3>2. hit = 1 /\ 1 <= Len(l)
        BY <2>4, <2>5 DEF Placed
      <3>3. t.table[i].array = old.array /\ t.table[j].array = head
        BY <1>1, <3>1 DEF ArrayOf
      <3>4. /\ Overlap(t.table[i].array, t.table[l[1].index].array) /\ own = l[1].chunk
            /\ l[1].chunk # own \/ t.table[l[1].index].array.ptr >= t.table[i].array.ptr
        BY <1>1, <2>4, <3>2 DEF Placed
      <3>5. Overlap(old.array, head) /\ head.ptr >= old.array.ptr
        BY <3>3, <3>4
      <3>6. InMemory(i)
        BY <1>1, <1>2, <1>4 DEF InMemory
      <3>7. ~(Overlap(old.array, ArrayOf(Head(l).index)) /\ old.array.ptr <= ArrayOf(Head(l).index).ptr)
        BY <1>4, <3>6 DEF Toggled, SetVertexAttribArray
      <3>8. head.ptr \in Nat /\ old.array.ptr \in Nat
        <4>1. state.table[j] \in Entry
          BY <1>1, <3>1, LooseIs DEF Counted, InMemory
        <4>2. \A a \in Arrays \cup {NoArray} : a.ptr \in Nat
          BY VertexArraysAssumption DEF NoArray
        <4> QED BY <1>1, <4>1, <4>2, EntryIs DEF ArrayOf
      <3> QED BY <3>1, <3>5, <3>7, <3>8
    <2>7. Inserted(l, i, hit, at, own, state'.list)
      <3>1. CASE at = 1
        <4>1. state'.list = <<[index |-> i, chunk |-> own]>> /\ Len(l) = 0
          BY <2>4, <2>5, <2>6, <3>1
        <4> QED BY <3>1, <4>1 DEF Inserted
      <3> QED BY <2>4, <3>1
    <2>8. own \in 1 .. MaxChunk
      <3>1. CASE hit <= Len(l)
        <4>1. own = l[hit].chunk /\ hit \in 1 .. Len(l)
          BY <1>1, <2>4, <2>5, <3>1 DEF Placed
        <4> QED BY <4>1 DEF Counted, ChunksTo
      <3>2. CASE hit = Len(l) + 1
        <4>1. own = IF l = << >> THEN 1 ELSE l[Len(l)].chunk
          BY <1>1, <2>4, <3>2 DEF Placed
        <4> QED BY <2>5, <4>1, VertexArraysAssumption DEF Counted, ChunksTo
      <3> QED BY <2>4, <2>5, <3>1, <3>2
    <2> QED BY <1>2, <1>4, <2>2, <2>3, <2>4, <2>6, <2>7, <2>8
  <1>5. CASE state.bound = None /\ ~on
    <2>1. state' = Removed(t, i)
      BY <1>1, <1>5
    <2>2. Has(l, i)
      BY <1>1, <1>2, <1>5 DEF Counted, InMemory
    <2>3. l # << >> /\ \E p \in 1 .. Len(l) : l[p].index = i
      BY <2>2 DEF Has
    <2>4. state'.count = state.count - 1 /\ state'.list = Without(l, i)
      BY <1>1, <2>1, <2>3, RemovedFields
    <2>5. \E p \in 1 .. Len(l) : l[p].index = i /\ Taken(l, p, Without(l, i))
      BY <1>1, <2>3, WithoutIs, Zenon
    <2> QED BY <1>2, <1>5, <2>4, <2>5
  <1> QED BY <1>3, <1>4, <1>5

LEMMA CountedStep ==
  ASSUME Typed, Linked, Counted, Counting \subseteq Manners, [Next]_vars
  PROVE  Counted'
  <1> DEFINE l == state.list
             m == state'.list
  <1>1. Linking \subseteq Manners /\ {"binding", "rising"} \subseteq Manners
    BY DEF Counting
  <1>2. l \in Seq(Link) /\ m \in Seq(Link) /\ Len(l) \in Nat
    <2>1. Typed'
      BY TypedStep
    <2> QED BY <2>1 DEF Typed, Loose
  <1>3. CASE SameTable
    BY <1>3 DEF SameTable, SameList, Counted, InMemory
  <1>4. ASSUME NEW i \in Indices, NEW e, Specified(i, e) PROVE Counted'
    <2>1. /\ m = l /\ state'.count = state.count /\ ~e.enabled
          /\ \A j \in Indices : state'.table[j] = IF j = i THEN e ELSE state.table[j]
      BY <1>4 DEF Specified, EnteredIn, SameList
    <2>2. ~Has(l, i)
      BY <1>4 DEF Specified, Counted, InMemory
    <2>3. ASSUME NEW j \in Indices
          PROVE  Has(m, j) <=> InMemory(j)' /\ state'.table[j].enabled
      <3>1. CASE j = i
        BY <2>1, <2>2, <3>1
      <3>2. CASE j # i
        BY <2>1, <3>2 DEF Counted, InMemory
      <3> QED BY <3>1, <3>2
    <2> QED BY <2>1, <2>3 DEF Counted
  <1>5. ASSUME NEW i \in Indices, NEW on \in BOOLEAN, NEW e, NEW t, Toggled(i, on, e, t)
        PROVE  Counted'
    <2>1. /\ e \in Entry /\ e.enabled = on /\ e # Absent
          /\ \A j \in Indices : state'.table[j] = IF j = i THEN e ELSE state.table[j]
      BY <1>5, EntryIs DEF Toggled, EnteredIn
    <2>2. /\ state.table[i] # Absent /\ state.table[i].buffer = e.buffer
          /\ state.table[i].enabled = ~on
      BY <1>5, EntryIs DEF Toggled
    <2>3. CASE e.buffer # None /\ SameList(state, state')
      <3>1. ASSUME NEW j \in Indices
            PROVE  Has(m, j) <=> InMemory(j)' /\ state'.table[j].enabled
        BY <2>1, <2>2, <2>3 DEF SameList, Counted, InMemory
      <3> QED BY <2>3, <3>1 DEF SameList, Counted
    <2>4. CASE /\ e.buffer = None /\ on /\ state'.count = state.count + 1
               /\ ~Has(l, i)
               /\ \E hit, at \in 1 .. Len(l) + 1, own \in 1 .. MaxChunk :
                    /\ Placed(t, i, hit, at, own)
                    /\ at = 1 => l = << >>
                    /\ Inserted(l, i, hit, at, own, m)
      <3>1. PICK hit \in 1 .. Len(l) + 1, at \in 1 .. Len(l) + 1, own \in 1 .. MaxChunk :
              Inserted(l, i, hit, at, own, m)
        BY <2>4
      <3>2. Distinct(l) /\ ~Has(l, i) /\ own \in Nat
        BY <2>4 DEF Counted
      <3>3. Distinct(m) /\ \A j : Has(m, j) <=> Has(l, j) \/ j = i
        BY <1>2, <3>1, <3>2, InsertedHas
      <3>4. MaxChunk \in Nat
        BY VertexArraysAssumption
      <3>5. \A p \in 1 .. Len(l) : l[p].chunk \in 1 .. MaxChunk /\ l[p].chunk < MaxChunk
        <4>1. \A p \in DOMAIN l : l[p].chunk < MaxChunk
          BY <1>5 DEF Toggled, SetVertexAttribArray
        <4> QED BY <1>2, <4>1 DEF Counted, ChunksTo
      <3>6. ChunksTo(m, MaxChunk)
        BY <1>2, <3>1, <3>4, <3>5, InsertedChunks
      <3>7. state'.count = Len(m)
        BY <1>2, <2>4, <3>1 DEF Counted, Inserted
      <3>8. ASSUME NEW j \in Indices
            PROVE  Has(m, j) <=> InMemory(j)' /\ state'.table[j].enabled
        BY <2>1, <2>2, <2>4, <3>3 DEF Counted, InMemory
      <3> QED BY <3>3, <3>6, <3>7, <3>8 DEF Counted
    <2>5. CASE /\ e.buffer = None /\ ~on /\ state'.count = state.count - 1
               /\ \E p \in 1 .. Len(l) : l[p].index = i /\ Taken(l, p, m)
      <3>1. PICK p \in 1 .. Len(l) : l[p].index = i /\ Taken(l, p, m)
        BY <2>5
      <3>2. /\ Distinct(m) /\ \A j : Has(m, j) <=> Has(l, j) /\ j # i
            /\ ChunksTo(l, MaxChunk) => ChunksTo(m, MaxChunk)
        BY <1>2, <3>1, TakenHas DEF Counted
      <3>3. state'.count = Len(m)
        BY <1>2, <2>5, <3>1 DEF Counted, Taken
      <3>4. ASSUME NEW j \in Indices
            PROVE  Has(m, j) <=> InMemory(j)' /\ state'.table[j].enabled
        BY <2>1, <2>5, <3>2 DEF Counted, InMemory
      <3> QED BY <3>2, <3>3, <3>4 DEF Counted
    <2> QED BY <1>1, <1>5, <2>3, <2>4, <2>5, ToggledIs
  <1> QED BY <1>1, <1>3, <1>4, <1>5, TableSteps

LEMMA CountedType == Typed /\ Counted => TypeOK /\ ListCounted
  <1> SUFFICES ASSUME Typed, Counted PROVE TypeOK /\ ListCounted
    OBVIOUS
  <1> DEFINE l == state.list
             Numbered == [index : Indices, chunk : 1 .. MaxChunk]
  <1>1. l \in Seq(Link) /\ Len(l) \in Nat /\ DOMAIN l = 1 .. Len(l)
    BY DEF Typed, Loose
  <1>2. ASSUME NEW p \in 1 .. Len(l) PROVE l[p] \in Numbered
    <2>1. l[p] \in Link /\ l[p].chunk \in 1 .. MaxChunk
      BY <1>1 DEF Counted, ChunksTo
    <2> QED BY <2>1 DEF Link
  <1>3. l \in Seq(Numbered)
    <2> HIDE DEF Numbered, l
    <2>1. l = [p \in 1 .. Len(l) |-> l[p]]
      BY <1>1
    <2>2. [p \in 1 .. Len(l) |-> l[p]] \in Seq(Numbered)
      BY <1>1, <1>2, SeqDef
    <2> QED BY <2>1, <2>2
  <1>4. TypeOK
    BY <1>1, <1>3 DEF Typed, Counted, Loose, TypeOK, BufferNames
  <1>5. ListCounted
    BY <1>1 DEF Counted, Distinct, Has, ListCounted, InList
  <1> QED BY <1>4, <1>5

-----------------------------------------------------------------------------
(* The list runs through its chunks in order, and through each of them by  *)
(* address; the arrays of a chunk have one stride.                         *)
Ranked(x, y, table) ==
  LET a == table[x.index].array
      b == table[y.index].array
  IN x.chunk >= y.chunk /\ (x.chunk = y.chunk => a.ptr <= b.ptr /\ Step(a) = Step(b))
Whole(a) == a.size <= Step(a)
InOrder(l, table) ==
  /\ \A p, q \in 1 .. Len(l) : p < q => Ranked(l[p], l[q], table)
  /\ \A p \in 1 .. Len(l) : Whole(table[l[p].index].array)

LEMMA TakenOrder ==
  ASSUME NEW l \in Seq(Link), NEW m \in Seq(Link), NEW table, InOrder(l, table),
         NEW p \in 1 .. Len(l), Taken(l, p, m)
  PROVE  InOrder(m, table)
  <1> DEFINE from(k) == IF k < p THEN k ELSE k + 1
  <1>1. Len(l) \in Nat /\ Len(m) = Len(l) - 1
    BY DEF Taken
  <1>2. \A k \in 1 .. Len(m) : from(k) \in 1 .. Len(l) /\ m[k] = l[from(k)]
    BY <1>1 DEF Taken
  <1>3. \A k, n \in 1 .. Len(m) : k < n => from(k) < from(n)
    BY <1>1
  <1> HIDE DEF from
  <1>4. \A k, n \in 1 .. Len(m) : k < n => Ranked(m[k], m[n], table)
    BY <1>2, <1>3 DEF InOrder
  <1>5. \A k \in 1 .. Len(m) : Whole(table[m[k].index].array)
    BY <1>2 DEF InOrder
  <1> QED BY <1>4, <1>5 DEF InOrder

LEMMA OtherOrder ==
  ASSUME NEW l, NEW table, NEW other, InOrder(l, table),
         \A p \in 1 .. Len(l) : other[l[p].index].array = table[l[p].index].array
  PROVE  InOrder(l, other)
  BY DEF InOrder, Ranked

LEMMA InsertedOrder ==
  ASSUME NEW s, s.list \in Seq(Link), NEW i \in Indices, NEW m \in Seq(Link),
         InOrder(s.list, s.table), Whole(s.table[i].array), s.table[i].array.ptr \in Nat,
         \A p \in 1 .. Len(s.list) : s.table[s.list[p].index].array.ptr \in Nat,
         NEW hit \in 1 .. Len(s.list) + 1, NEW at \in 1 .. Len(s.list) + 1, NEW own \in Nat,
         Placed(s, i, hit, at, own), Inserted(s.list, i, hit, at, own, m),
         hit <= Len(s.list) => Step(s.table[s.list[hit].index].array) = Step(s.table[i].array)
  PROVE  InOrder(m, s.table)
  <1> DEFINE l    == s.list
             L    == Len(l)
             C(k) == l[k].chunk
             A(k) == s.table[l[k].index].array
             P(k) == A(k).ptr
             S(k) == Step(A(k))
             a    == s.table[i].array
             c(k) == m[k].chunk
             x(k) == s.table[m[k].index].array
  <1>1. L \in Nat /\ Len(m) = L + 1 /\ at \in hit .. L + 1 /\ at \in Nat /\ hit \in Nat
    BY DEF Inserted, Placed
  <1>2. ASSUME NEW k \in 1 .. L PROVE C(k) \in Nat /\ P(k) \in Nat
    <2>1. l[k] \in Link
      BY ElementOfSeq
    <2> QED BY <2>1 DEF Link
  <1>3. \A k, n \in 1 .. L : k <= n => C(k) >= C(n) /\ (C(k) = C(n) => P(k) <= P(n) /\ S(k) = S(n))
    <2>1. ASSUME NEW k \in 1 .. L, NEW n \in 1 .. L, k < n
          PROVE  C(k) >= C(n) /\ (C(k) = C(n) => P(k) <= P(n) /\ S(k) = S(n))
      BY <2>1 DEF InOrder, Ranked
    <2> HIDE DEF L, C, P, S
    <2>2. \A k \in 1 .. L : C(k) >= C(k) /\ P(k) <= P(k)
      BY <1>2
    <2>3. ASSUME NEW k \in 1 .. L, NEW n \in 1 .. L, k <= n
          PROVE  C(k) >= C(n) /\ (C(k) = C(n) => P(k) <= P(n) /\ S(k) = S(n))
      <3>1. k < n \/ k = n
        BY <1>1, <2>3
      <3> QED BY <2>1, <2>2, <3>1
    <2> QED BY <2>3
  <1>4. \A k \in 1 .. L : Grown(l[k]).index = l[k].index /\ Grown(l[k]).chunk = C(k) + 1
    <2>1. \A y \in Link : Grown(y).index = y.index /\ Grown(y).chunk = y.chunk + 1
      BY DEF Grown, Link
    <2> QED BY <2>1
  <1>5. ASSUME NEW k \in 1 .. L, k < at
        PROVE  x(k) = A(k) /\ c(k) = IF k < hit THEN C(k) + 1 ELSE C(k)
    <2>1. k \in 1 .. at - 1
      BY <1>1, <1>5
    <2>2. m[k] = IF k < hit THEN Grown(l[k]) ELSE l[k]
      BY <2>1 DEF Inserted
    <2> QED BY <1>4, <2>2
  <1>6. x(at) = a /\ c(at) = own
    BY DEF Inserted
  <1>7. ASSUME NEW k \in 1 .. L, k >= at
        PROVE  x(k + 1) = A(k) /\ c(k + 1) = C(k)
    <2>1. k \in at .. L
      BY <1>1, <1>7
    <2>2. m[k + 1] = l[k]
      BY <2>1 DEF Inserted
    <2> QED BY <2>2
  <1>8. hit <= L => /\ own = C(hit) /\ S(hit) = Step(a)
                    /\ \A k \in hit .. at - 1 : C(k) = own /\ ~(P(k) >= a.ptr)
                    /\ at <= L => C(at) # own \/ P(at) >= a.ptr
    BY DEF Placed
  <1>9. hit = L + 1 /\ L > 0 => own = C(L)
    <2>1. hit = L + 1 => own = IF l = << >> THEN 1 ELSE C(L)
      BY DEF Placed
    <2>2. L > 0 => l # << >>
      OBVIOUS
    <2> QED BY <2>1, <2>2
  <1>10. a.ptr \in Nat /\ own \in Nat /\ Whole(a) /\ \A k \in 1 .. L : Whole(A(k))
    BY DEF InOrder
  <1>11. \A k : P(k) = A(k).ptr /\ S(k) = Step(A(k))
    OBVIOUS
  <1>12. ASSUME NEW k \in 1 .. L + 1, NEW n \in 1 .. L + 1,
                c(k) >= c(n), c(k) = c(n) => x(k).ptr <= x(n).ptr /\ Step(x(k)) = Step(x(n))
         PROVE  Ranked(m[k], m[n], s.table)
    BY <1>12 DEF Ranked
  <1> HIDE DEF L, C, A, P, S, a, c, x
  <1>13. ASSUME NEW k \in 1 .. L + 1, NEW n \in 1 .. L + 1, k < n
         PROVE  c(k) >= c(n) /\ (c(k) = c(n) => x(k).ptr <= x(n).ptr /\ Step(x(k)) = Step(x(n)))
    <2>1. CASE n < at
      <3>1. k \in 1 .. L /\ n \in 1 .. L /\ k < at /\ k <= n
        BY <1>1, <1>13, <2>1
      <3>2. /\ c(k) = IF k < hit THEN C(k) + 1 ELSE C(k)
            /\ c(n) = IF n < hit THEN C(n) + 1 ELSE C(n)
            /\ x(k) = A(k) /\ x(n) = A(n)
        BY <1>5, <2>1, <3>1
      <3>3. /\ C(k) >= C(n) /\ C(k) \in Nat /\ C(n) \in Nat
            /\ C(k) = C(n) => P(k) <= P(n) /\ S(k) = S(n)
        BY <1>2, <1>3, <3>1
      <3>4. c(k) >= c(n) /\ (c(k) = c(n) => C(k) = C(n))
        <4>1. n < hit => k < hit
          BY <1>1, <1>13, <3>1
        <4> HIDE DEF C, c
        <4> QED BY <3>2, <3>3, <4>1
      <3> QED BY <1>11, <3>2, <3>3, <3>4
    <2>2. CASE n = at /\ k < hit
      <3>1. k \in 1 .. L /\ k < at
        BY <1>1, <1>13, <2>2
      <3>2. c(k) = C(k) + 1 /\ C(k) \in Nat
        BY <1>2, <1>5, <2>2, <3>1
      <3>3. C(k) >= own
        <4>1. CASE hit <= L
          <5>1. hit \in 1 .. L /\ k <= hit
            BY <1>1, <2>2, <4>1
          <5> QED BY <1>3, <1>8, <3>1, <4>1, <5>1
        <4>2. CASE hit = L + 1
          <5>1. L \in 1 .. L /\ k <= L /\ L > 0
            BY <1>1, <3>1
          <5> QED BY <1>3, <1>9, <3>1, <4>2, <5>1
        <4> QED BY <1>1, <4>1, <4>2
      <3> QED BY <1>6, <1>10, <2>2, <3>2, <3>3
    <2>3. CASE n = at /\ k >= hit
      <3>1. k \in 1 .. L /\ k < at /\ k \in hit .. at - 1 /\ hit <= L /\ hit \in 1 .. L /\ hit <= k
            /\ ~(k < hit)
        BY <1>1, <1>13, <2>3
      <3>2. x(k) = A(k) /\ c(k) = C(k) /\ C(k) = own /\ ~(P(k) >= a.ptr)
        BY <1>5, <1>8, <3>1
      <3>3. S(k) = Step(a)
        BY <1>3, <1>8, <3>1, <3>2
      <3> QED BY <1>2, <1>6, <1>10, <1>11, <2>3, <3>1, <3>2, <3>3
    <2>4. CASE k < at /\ n > at
      <3> DEFINE j == n - 1
      <3>1. k \in 1 .. L /\ j \in 1 .. L /\ k <= j /\ j >= at /\ j + 1 = n
        BY <1>1, <1>13, <2>4
      <3> HIDE DEF j
      <3>2. /\ c(k) = IF k < hit THEN C(k) + 1 ELSE C(k)
            /\ c(n) = C(j) /\ x(k) = A(k) /\ x(n) = A(j)
        BY <1>5, <1>7, <2>4, <3>1
      <3>3. /\ C(k) >= C(j) /\ C(k) \in Nat /\ C(j) \in Nat
            /\ C(k) = C(j) => P(k) <= P(j) /\ S(k) = S(j)
        BY <1>2, <1>3, <3>1
      <3> QED BY <1>11, <3>2, <3>3
    <2>5. CASE k = at
      <3> DEFINE j == n - 1
      <3>1. /\ j \in 1 .. L /\ j >= at /\ j + 1 = n /\ at \in 1 .. L /\ hit \in 1 .. L
            /\ hit <= L /\ hit <= at /\ at <= j /\ hit <= j /\ at <= L
        BY <1>1, <1>13, <2>5
      <3> HIDE DEF j
      <3>2. c(n) = C(j) /\ x(n) = A(j)
        BY <1>7, <3>1
      <3>3. /\ own = C(hit) /\ S(hit) = Step(a)
            /\ (C(at) # own \/ P(at) >= a.ptr)
        BY <1>8, <3>1
      <3>4. /\ C(hit) >= C(at) /\ C(at) >= C(j) /\ C(hit) >= C(j)
            /\ C(at) = C(j) => P(at) <= P(j)
            /\ C(hit) = C(j) => S(hit) = S(j)
            /\ C(at) \in Nat /\ C(hit) \in Nat /\ C(j) \in Nat /\ P(at) \in Nat /\ P(j) \in Nat
        BY <1>2, <1>3, <3>1
      <3> QED BY <1>6, <1>10, <1>11, <2>5, <3>2, <3>3, <3>4
    <2>6. CASE k > at
      <3> DEFINE j == n - 1
                 o == k - 1
      <3>1. j \in 1 .. L /\ o \in 1 .. L /\ j >= at /\ o >= at /\ j + 1 = n /\ o + 1 = k /\ o <= j
        BY <1>1, <1>13, <2>6
      <3> HIDE DEF j, o
      <3>2. c(n) = C(j) /\ x(n) = A(j) /\ c(k) = C(o) /\ x(k) = A(o)
        BY <1>7, <3>1
      <3>3. C(o) >= C(j) /\ (C(o) = C(j) => P(o) <= P(j) /\ S(o) = S(j))
        BY <1>3, <3>1
      <3> QED BY <1>11, <3>2, <3>3
    <2> QED BY <1>1, <1>13, <2>1, <2>2, <2>3, <2>4, <2>5, <2>6
  <1>14. ASSUME NEW k \in 1 .. L + 1 PROVE Whole(x(k))
    <2>1. CASE k < at
      <3>1. k \in 1 .. L
        BY <1>1, <2>1
      <3> QED BY <1>5, <1>10, <2>1, <3>1
    <2>2. CASE k = at
      BY <1>6, <1>10, <2>2
    <2>3. CASE k > at
      <3>1. k - 1 \in 1 .. L /\ k - 1 >= at /\ (k - 1) + 1 = k
        BY <1>1, <2>3
      <3>2. x((k - 1) + 1) = A(k - 1)
        BY <1>7, <3>1
      <3> QED BY <1>10, <3>1, <3>2
    <2> QED BY <1>1, <2>1, <2>2, <2>3
  <1>15. \A k, n \in 1 .. L + 1 : k < n => Ranked(m[k], m[n], s.table)
    BY <1>12, <1>13
  <1>16. \A k \in 1 .. L + 1 : Whole(s.table[m[k].index].array)
    BY <1>14 DEF x
  <1> QED BY <1>1, <1>15, <1>16 DEF InOrder

Ordered == InOrder(state.list, state.table)

LEMMA ArraysAre ==
  \A a \in Arrays \cup {NoArray} : a.ptr \in Nat /\ a.size \in Nat /\ Step(a) \in Nat
  BY VertexArraysAssumption DEF NoArray, Step

(* Each link is that of an entry in application memory that is enabled.    *)
LEMMA ListedIs ==
  ASSUME Typed, Counted, NEW p \in 1 .. Len(state.list)
  PROVE  LET i == state.list[p].index
             e == state.table[i]
         IN /\ i \in Indices /\ e \in Entry /\ InMemory(i) /\ e.enabled
            /\ e.array \in Arrays \cup {NoArray}
  <1> DEFINE i == state.list[p].index
  <1>1. i \in Indices /\ state \in Loose
    <2>1. state \in Loose /\ state.list \in Seq(Link)
      BY LooseIs DEF Typed
    <2>2. state.list[p] \in Link
      BY <2>1, ElementOfSeq
    <2> QED BY <2>1, <2>2 DEF Link
  <1>2. InMemory(i) /\ state.table[i].enabled
    BY <1>1 DEF Counted, Has
  <1>3. state.table[i] \in Entry
    BY <1>1, <1>2, LooseIs DEF InMemory
  <1> QED BY <1>1, <1>2, <1>3, EntryIs

LEMMA OrderedStep ==
  ASSUME Typed, Linked, Counted, Ordered, Counting \subseteq Manners, "strides" \in Manners,
         [Next]_vars
  PROVE  Ordered'
  <1> DEFINE l == state.list
             m == state'.list
  <1>1. Linking \subseteq Manners /\ {"binding", "rising"} \subseteq Manners
    BY DEF Counting
  <1>2. l \in Seq(Link) /\ m \in Seq(Link) /\ Len(l) \in Nat
    <2>1. Typed'
      BY TypedStep
    <2> QED BY <2>1 DEF Typed, Loose
  <1>3. CASE SameTable
    BY <1>3 DEF SameTable, SameList, Ordered
  <1>4. ASSUME NEW i \in Indices, NEW e, Specified(i, e) PROVE Ordered'
    <2>1. /\ m = l
          /\ \A j \in Indices : state'.table[j] = IF j = i THEN e ELSE state.table[j]
          /\ state.table[i] = Absent \/ ~state.table[i].enabled
      BY <1>4, Zenon DEF Specified, EnteredIn, SameList
    <2>2. ASSUME NEW p \in 1 .. Len(l)
          PROVE  state'.table[l[p].index].array = state.table[l[p].index].array
      <3>1. l[p].index \in Indices /\ l[p].index # i
        BY <2>1, ListedIs DEF InMemory
      <3> QED BY <2>1, <3>1
    <2> QED BY <2>1, <2>2, OtherOrder DEF Ordered
  <1>5. ASSUME NEW i \in Indices, NEW on \in BOOLEAN, NEW e, NEW t, Toggled(i, on, e, t)
        PROVE  Ordered'
    <2>1. /\ e \in Entry /\ e.array = state.table[i].array /\ e.buffer = state.table[i].buffer
          /\ state.table[i] # Absent
          /\ \A j \in Indices : state'.table[j] = IF j = i THEN e ELSE state.table[j]
          /\ \A j \in Indices : t.table[j] = IF j = i THEN e ELSE state.table[j]
          /\ t.list = l
      BY <1>5, EntryIs DEF Toggled, EnteredIn, SameList
    <2>2. \A j \in Indices : /\ state'.table[j].array = state.table[j].array
                             /\ t.table[j].array = state.table[j].array
      BY <2>1
    <2>3. \A p \in 1 .. Len(l) : l[p].index \in Indices
      BY ListedIs
    <2>4. InOrder(l, state'.table) /\ InOrder(l, t.table)
      BY <2>2, <2>3, OtherOrder DEF Ordered
    <2>5. CASE e.buffer # None /\ SameList(state, state')
      BY <2>4, <2>5 DEF SameList, Ordered
    <2>6. CASE /\ e.buffer = None /\ on /\ state'.count = state.count + 1
               /\ ~Has(l, i)
               /\ \E hit, at \in 1 .. Len(l) + 1, own \in 1 .. MaxChunk :
                    /\ Placed(t, i, hit, at, own)
                    /\ at = 1 => l = << >>
                    /\ Inserted(l, i, hit, at, own, m)
      <3>1. PICK hit \in 1 .. Len(l) + 1, at \in 1 .. Len(l) + 1, own \in 1 .. MaxChunk :
              Placed(t, i, hit, at, own) /\ Inserted(l, i, hit, at, own, m)
        BY <2>6
      <3>2. own \in Nat
        OBVIOUS
      <3>3. InMemory(i)
        BY <2>1, <2>6 DEF InMemory
      <3>4. /\ Whole(state.table[i].array)
            /\ \A j \in gl.enabled[None] : InMemory(j) /\ Overlap(state.table[i].array, ArrayOf(j)) =>
                 Step(ArrayOf(j)) = Step(state.table[i].array)
        BY <1>5, <2>6, <3>3 DEF Toggled, SetVertexAttribArray, Whole
      <3>5. Whole(t.table[i].array) /\ t.table[i].array.ptr \in Nat
        <4>1. e.array \in Arrays \cup {NoArray}
          BY <2>1, EntryIs
        <4> QED BY <2>1, <3>4, <4>1, ArraysAre
      <3>6. \A p \in 1 .. Len(l) : t.table[l[p].index].array.ptr \in Nat
        <4>1. \A p \in 1 .. Len(l) : state.table[l[p].index].array \in Arrays \cup {NoArray}
          BY ListedIs
        <4> QED BY <2>2, <2>3, <4>1, ArraysAre
      <3>7. hit <= Len(l) => Step(t.table[l[hit].index].array) = Step(t.table[i].array)
        <4> SUFFICES ASSUME hit <= Len(l)
                     PROVE  Step(t.table[l[hit].index].array) = Step(t.table[i].array)
          OBVIOUS
        <4>1. hit \in 1 .. Len(l)
          BY <1>2
        <4> DEFINE j == l[hit].index
        <4>2. j \in Indices /\ InMemory(j) /\ state.table[j].enabled
          BY <4>1, ListedIs
        <4>3. j \in gl.enabled[None]
          BY <4>2 DEF Linked, EntryLinked, InMemory
        <4>4. Overlap(t.table[i].array, t.table[j].array)
          BY <2>1, <3>1 DEF Placed
        <4>5. t.table[j].array = ArrayOf(j) /\ t.table[i].array = state.table[i].array
          BY <2>2, <4>2 DEF ArrayOf
        <4> HIDE DEF j
        <4>6. Step(ArrayOf(j)) = Step(state.table[i].array)
          BY <3>4, <4>2, <4>3, <4>4, <4>5
        <4> QED BY <4>5, <4>6 DEF j
      <3>8. InOrder(m, t.table)
        BY <1>2, <2>1, <2>4, <3>1, <3>2, <3>5, <3>6, <3>7, InsertedOrder
      <3>9. \A p \in 1 .. Len(m) : m[p].index \in Indices
        <4>1. ASSUME NEW p \in 1 .. Len(m) PROVE m[p].index \in Indices
          <5>1. m[p] \in Link
            BY <1>2, ElementOfSeq
          <5> QED BY <5>1 DEF Link
        <4> QED BY <4>1
      <3>10. InOrder(m, state'.table)
        BY <2>2, <3>8, <3>9, OtherOrder
      <3> QED BY <3>10 DEF Ordered
    <2>7. CASE /\ e.buffer = None /\ ~on /\ state'.count = state.count - 1
               /\ \E p \in 1 .. Len(l) : l[p].index = i /\ Taken(l, p, m)
      <3>1. PICK p \in 1 .. Len(l) : Taken(l, p, m)
        BY <2>7
      <3>2. InOrder(m, state'.table)
        BY <1>2, <2>4, <3>1, TakenOrder
      <3> QED BY <3>2 DEF Ordered
    <2> QED BY <1>1, <1>5, <2>5, <2>6, <2>7, ToggledIs
  <1> QED BY <1>1, <1>3, <1>4, <1>5, TableSteps

-----------------------------------------------------------------------------
(* The driver has the arrays in buffers, and no draw takes one away.       *)
EntrySent(i) ==
  LET e == state.table[i] IN
    e # Absent /\ e.buffer # None =>
      driver.src[None][i] = [array |-> e.array, buffer |-> e.buffer]
Sent == \A i \in Indices : EntrySent(i)

LEMMA SentPointer ==
  ASSUME Typed, Linked, Sent, NEW i \in Indices, NEW a \in Arrays, NEW e, PointerStep(i, a, e)
  PROVE  Sent'
  <1> DEFINE src  == [array |-> a, buffer |-> driver.bound]
             told == state.vao # None \/ (state.bound # None /\ state.table[i] # e)
  <1>1. /\ state.vao \in Names /\ driver \in Driver /\ src \in Source
        /\ driver.bound = state.bound /\ e.array = a /\ e.buffer = state.bound
        /\ driver' = IF told THEN Pointed(driver, i, src) ELSE driver
    <2>1. state.vao \in Names /\ driver \in Driver /\ driver.bound \in BufferNames
      BY LooseIs, DriverIs DEF Typed
    <2> QED BY <2>1, SourceIs DEF PointerStep, Linked, ContextsLinked
  <1>2. src = [array |-> e.array, buffer |-> e.buffer]
    BY <1>1
  <1> HIDE DEF src
  <1>3. \A v \in Names, j \in Indices :
          driver'.src[v][j] = IF told /\ v = state.vao /\ j = i THEN src ELSE driver.src[v][j]
    BY <1>1, PointedIs
  <1>4. CASE state.vao # None
    <2>1. state' = state
      BY <1>4 DEF PointerStep
    <2> QED BY <1>3, <1>4, <2>1, NamesApart DEF Sent, EntrySent
  <1>5. CASE state.vao = None
    <2>1. \A j \in Indices : state'.table[j] = IF j = i THEN e ELSE state.table[j]
      BY <1>5 DEF PointerStep, EnteredIn
    <2>2. ASSUME NEW j \in Indices PROVE EntrySent(j)'
      <3>1. CASE j # i
        BY <1>3, <2>1, <3>1, NamesApart DEF Sent, EntrySent
      <3>2. CASE j = i /\ state.table[i] # e
        BY <1>1, <1>2, <1>3, <1>5, <2>1, <3>2, NamesApart DEF EntrySent
      <3>3. CASE j = i /\ state.table[i] = e
        <4>1. EntrySent(i)
          BY DEF Sent
        <4> QED BY <1>2, <1>3, <2>1, <3>3, <4>1, NamesApart DEF EntrySent
      <3> QED BY <3>1, <3>2, <3>3
    <2> QED BY <2>2 DEF Sent
  <1> QED BY <1>4, <1>5

LEMMA SentSet ==
  ASSUME Typed, Linked, Sent, Linking \subseteq Manners, NEW i \in Indices, NEW on \in BOOLEAN,
         SetVertexAttribArray(i, on), [Next]_vars
  PROVE  Sent'
  <1>1. driver'.src = driver.src
    <2>1. driver \in Driver /\ state.vao \in Names
      BY LooseIs DEF Typed
    <2>2. driver' = driver \/ driver' = Switched(driver, i, on)
      BY Zenon DEF SetVertexAttribArray
    <2>3. SwitchedTo(driver, i, on, Switched(driver, i, on))
      BY <2>1, SwitchedIs
    <2> QED BY <2>2, <2>3 DEF SwitchedTo
  <1>2. SetStep(i, on)
    BY SetIs
  <1>3. CASE state' = state
    BY <1>1, <1>3 DEF Sent, EntrySent
  <1>4. CASE state' # state
    <2> DEFINE e == state.table[i]
    <2>1. state.vao = None /\ ~(e # Absent /\ e.enabled = on)
      BY <1>2, <1>4 DEF SetStep
    <2>2. e # Absent
      BY <2>1 DEF SetVertexAttribArray, Linking
    <2>3. PICK new \in Entry : /\ new.array = e.array /\ new.buffer = e.buffer
                               /\ EnteredIn(state, i, new, state')
      BY <1>2, <2>1, <2>2 DEF SetStep
    <2>4. \A j \in Indices : state'.table[j] = IF j = i THEN new ELSE state.table[j]
      BY <2>3 DEF EnteredIn
    <2> QED BY <1>1, <2>2, <2>3, <2>4 DEF Sent, EntrySent
  <1> QED BY <1>3, <1>4

LEMMA SentStep ==
  ASSUME Typed, Linked, Counted, Sent, Linking \subseteq Manners, [Next]_vars
  PROVE  Sent'
  <1>1. CASE UNCHANGED vars
    BY <1>1 DEF vars, Sent, EntrySent
  <1>2. CASE Next
    <2>0. ASSUME state'.table = state.table, driver'.src = driver.src PROVE Sent'
      BY <2>0 DEF Sent, EntrySent
    <2>1. ASSUME NEW i \in Indices, NEW a \in Arrays, VertexAttribPointer(i, a) PROVE Sent'
      BY <2>1, PointerIs, SentPointer
    <2>2. ASSUME NEW i \in Indices, NEW on \in BOOLEAN, SetVertexAttribArray(i, on) PROVE Sent'
      BY <2>2, SentSet
    <2>3. ASSUME NEW i \in Indices, VertexAttrib(i) PROVE Sent'
      BY <2>0, <2>3, AttribIs DEF Linking
    <2>4. ASSUME NEW b \in BufferNames, BindArrayBuffer(b) PROVE Sent'
      <3>1. \A c \in Driver : [c EXCEPT !.bound = b].src = c.src
        BY DEF Driver
      <3> QED BY <2>0, <2>4, <3>1, BindArrayIs DEF Rebound, Typed
    <2>5. ASSUME NEW b \in BufferNames, BindElementBuffer(b) PROVE Sent'
      <3>1. \A c \in Driver : [c EXCEPT !.elem[state.vao] = b].src = c.src
        BY DEF Driver
      <3> QED BY <2>0, <2>5, <3>1, BindElementIs DEF Rebound, Typed
    <2>6. ASSUME NEW b \in Buffers, DeleteBuffers(b) PROVE Sent'
      <3>1. state'.table = state.table
        BY <2>6, LinkedDelete DEF Linking
      <3>2. ASSUME NEW i \in Indices PROVE EntrySent(i)'
        <4>1. CASE state.table[i] # Absent /\ state.table[i].buffer # None
          <5>1. driver.src[None][i] = gl.src[None][i]
            BY <4>1 DEF Sent, EntrySent, Linked, EntryLinked
          <5>2. driver'.src[None][i] = driver.src[None][i]
            BY <2>6, <5>1, NamesApart, LinkedDelete DEF Linking
          <5> QED BY <3>1, <5>2 DEF Sent, EntrySent
        <4>2. CASE ~(state.table[i] # Absent /\ state.table[i].buffer # None)
          BY <3>1, <4>2 DEF EntrySent
        <4> QED BY <4>1, <4>2
      <3> QED BY <3>2 DEF Sent
    <2>7. CASE GetArrayBufferBinding \/ GetElementBufferBinding
      BY <2>0, <2>7, LinkedQueries, QueriesAre DEF Linking
    <2>8. ASSUME NEW v \in Names, BindVertexArray(v) PROVE Sent'
      <3>1. state'.table = state.table /\ driver' = driver
        BY <2>8, ObjectsAre DEF Rebound
      <3> QED BY <2>0, <3>1
    <2>9. ASSUME NEW v \in Vaos, DeleteVertexArrays(v) PROVE Sent'
      <3>1. v \in Names /\ Unless(state.vao, v) \in Names
        BY LooseIs DEF Typed, Names, Unless
      <3>2. state'.table = state.table
        BY <2>9, <3>1, ObjectsAre DEF Rebound
      <3>3. \A i \in Indices : driver'.src[None][i] = driver.src[None][i]
        BY <2>9, <3>1, LinkedObjects DEF Linking
      <3> QED BY <3>2, <3>3 DEF Sent, EntrySent
    <2>10. CASE Drawing
      <3>1. UNCHANGED <<state, gl>> /\ \E sent, copies \in BOOLEAN : Drawn(sent, copies)
        BY <2>10, DrawingIs
      <3>2. \A i \in Indices : driver'.src[None][i] = driver.src[None][i] \/ InList(i)
        BY <3>1 DEF Drawn
      <3>3. \A i \in Indices : InList(i) => InMemory(i)
        <4>1. DOMAIN state.list = 1 .. Len(state.list)
          BY DEF Typed, Loose
        <4> QED BY <4>1 DEF InList, Counted, Has
      <3> QED BY <3>1, <3>2, <3>3 DEF Sent, EntrySent, InMemory
    <2> QED BY <1>2, <2>1, <2>2, <2>3, <2>4, <2>5, <2>6, <2>7, <2>8, <2>9, <2>10, StepIs
  <1> QED BY <1>1, <1>2

-----------------------------------------------------------------------------
(* What is copied for a draw has all that the draw reads.                  *)

LEMMA RunStart ==
  ASSUME NEW l, NEW p \in Nat \ {0}
  PROVE  \E q \in 1 .. p : InOneChunk(l, q, p) /\ (q = 1 \/ ~InOneChunk(l, q - 1, p))
  <1> DEFINE Q == {q \in 1 .. p : InOneChunk(l, q, p)}
  <1>1. InOneChunk(l, p, p)
    BY DEF InOneChunk
  <1>2. Q \in SUBSET Nat /\ p \in Q
    BY <1>1
  <1>3. PICK q \in Q : \A k \in Q : q <= k
    BY <1>2, LeastNatural
  <1>4. q = 1 \/ ~InOneChunk(l, q - 1, p)
    <2>1. q = 1 \/ q - 1 \in 1 .. p
      OBVIOUS
    <2>2. q - 1 \notin Q
      BY <1>2, <1>3
    <2> QED BY <2>1, <2>2
  <1> QED BY <1>4

LEMMA RunEnd ==
  ASSUME NEW l, NEW n \in Nat, NEW p \in 1 .. n
  PROVE  \E r \in p .. n : InOneChunk(l, p, r) /\ (r = n \/ ~InOneChunk(l, p, r + 1))
  <1> DEFINE R == {r \in p .. n : r = n \/ ~InOneChunk(l, p, r + 1)}
  <1>1. R \in SUBSET Nat /\ n \in R
    OBVIOUS
  <1>2. PICK r \in R : \A k \in R : r <= k
    BY <1>1, LeastNatural
  <1>3. InOneChunk(l, p, r)
    <2>1. CASE r = p
      BY <2>1 DEF InOneChunk
    <2>2. CASE r # p
      <3>1. r - 1 \in p .. n /\ (r - 1) + 1 = r /\ r - 1 # n
        BY <2>2
      <3>2. r - 1 \notin R
        BY <1>1, <1>2
      <3> QED BY <3>1, <3>2
    <2> QED BY <2>1, <2>2
  <1> QED BY <1>3

LEMMA ElementsCountIs ==
  ASSUME NEW vertices \in SUBSET (0 .. MaxVertex), vertices # {}
  PROVE  /\ ElementsCount(vertices) \in Nat
         /\ \A v \in vertices : v + 1 <= ElementsCount(vertices)
  <1> DEFINE above == {u \in 0 .. MaxVertex : \A v \in vertices : v <= u}
  <1>1. MaxVertex \in Nat
    BY VertexArraysAssumption
  <1>2. above \in SUBSET Nat /\ MaxVertex \in above
    BY <1>1
  <1>3. PICK u \in above : \A k \in above : u <= k
    BY <1>2, LeastNatural
  <1>4. u \in vertices
    <2> SUFFICES ASSUME u \notin vertices PROVE FALSE
      OBVIOUS
    <2>1. \A v \in vertices : v <= u /\ v # u /\ v \in Nat
      BY <1>1
    <2>2. u - 1 \in 0 .. MaxVertex
      <3>1. PICK v \in vertices : TRUE
        OBVIOUS
      <3>2. v <= u /\ v # u /\ v \in Nat
        BY <2>1
      <3> QED BY <1>1, <3>2
    <2>3. \A v \in vertices : v <= u - 1
      BY <1>2, <2>1
    <2>4. u - 1 \in above
      BY <2>2, <2>3
    <2> QED BY <1>2, <1>3, <2>4
  <1> DEFINE n == CHOOSE x \in vertices : \A v \in vertices : v <= x
  <1>5. n \in vertices /\ \A v \in vertices : v <= n
    BY <1>3, <1>4
  <1>6. ElementsCount(vertices) = 1 + n
    BY DEF ElementsCount
  <1> HIDE DEF n
  <1>7. \A v \in vertices : v \in Nat
    BY <1>1
  <1> QED BY <1>5, <1>6, <1>7

LEMMA Multiples ==
  ASSUME NEW s \in Nat, NEW v \in Nat, NEW n \in Nat, v + 1 <= n
  PROVE  v * s \in Nat /\ s * n \in Nat /\ v * s + s <= s * n
  <1>1. PICK d \in Nat : n = (v + 1) + d
    <2>1. n - (v + 1) \in Nat /\ n = (v + 1) + (n - (v + 1))
      OBVIOUS
    <2> QED BY <2>1
  <1>2. s * n = v * s + s + s * d
    BY <1>1
  <1>3. v * s \in Nat /\ s * d \in Nat
    OBVIOUS
  <1> QED BY <1>2, <1>3

LEMMA Within ==
  ASSUME NEW first \in Nat, NEW last \in Nat, NEW ptr \in Nat, NEW size \in Nat,
         NEW S \in Nat, NEW V \in Nat, NEW N \in Nat,
         first <= ptr, ptr <= last, size <= S, V + S <= N,
         NEW x \in (ptr + V) .. (ptr + V + size - 1)
  PROVE  x \in first .. (first + N + (last - first) - 1)
  OBVIOUS

LEMMA CopiesSuffice ==
  ASSUME Typed, Counted, Ordered, NEW p \in 1 .. Len(state.list),
         NEW vertices \in SUBSET (0 .. MaxVertex), vertices # {}
  PROVE  Reads(ArrayOf(state.list[p].index), vertices) \subseteq CopiedFor(p, ElementsCount(vertices))
  <1> DEFINE l == state.list
             n == ElementsCount(vertices)
             A(k) == ArrayOf(l[k].index)
             q == CHOOSE q \in 1 .. p : InOneChunk(l, q, p) /\ (q = 1 \/ ~InOneChunk(l, q - 1, p))
             r == CHOOSE r \in p .. Len(l) : InOneChunk(l, p, r)
                                             /\ (r = Len(l) \/ ~InOneChunk(l, p, r + 1))
  <1>1. Len(l) \in Nat /\ p \in Nat \ {0}
    BY DEF Typed, Loose
  <1>2. q \in 1 .. p /\ InOneChunk(l, q, p)
    BY <1>1, RunStart
  <1>3. r \in p .. Len(l) /\ InOneChunk(l, p, r)
    BY <1>1, RunEnd
  <1>4. CopiedFor(p, n) = Copied(A(q), A(r), n)
    BY DEF CopiedFor
  <1> HIDE DEF q, r
  <1>5. q \in 1 .. Len(l) /\ r \in 1 .. Len(l) /\ q <= p /\ p <= r
    BY <1>1, <1>2, <1>3
  <1>6. l[q].chunk = l[p].chunk /\ l[p].chunk = l[r].chunk
    BY <1>1, <1>2, <1>3 DEF InOneChunk
  <1>7. \A k \in 1 .. Len(l) : A(k) \in Arrays \cup {NoArray}
    BY ListedIs DEF ArrayOf
  <1>8. /\ A(q).ptr \in Nat /\ A(p).ptr \in Nat /\ A(r).ptr \in Nat
        /\ A(p).size \in Nat /\ Step(A(p)) \in Nat
    BY <1>5, <1>7, ArraysAre
  <1>9. A(q).ptr <= A(p).ptr
    <2>1. CASE q < p
      BY <1>5, <1>6, <2>1 DEF Ordered, InOrder, Ranked, ArrayOf
    <2>2. CASE q = p
      BY <1>8, <2>2
    <2> QED BY <1>1, <1>5, <2>1, <2>2
  <1>10. A(p).ptr <= A(r).ptr /\ Step(A(r)) = Step(A(p))
    <2>1. CASE p < r
      BY <1>5, <1>6, <2>1 DEF Ordered, InOrder, Ranked, ArrayOf
    <2>2. CASE r = p
      BY <1>8, <2>2
    <2> QED BY <1>1, <1>5, <2>1, <2>2
  <1>11. A(p).size <= Step(A(p))
    BY DEF Ordered, InOrder, Whole, ArrayOf
  <1>12. n \in Nat /\ \A v \in vertices : v + 1 <= n /\ v \in Nat
    BY ElementsCountIs, VertexArraysAssumption
  <1> HIDE DEF n, A
  <1>13. ASSUME NEW v \in vertices,
                NEW x \in (A(p).ptr + v * Step(A(p))) .. (A(p).ptr + v * Step(A(p)) + A(p).size - 1)
         PROVE  x \in Copied(A(q), A(r), n)
    <2> DEFINE S == Step(A(p))
               V == v * S
               N == S * n
    <2>1. V \in Nat /\ N \in Nat /\ V + S <= N
      BY <1>8, <1>12, Multiples
    <2>2. Copied(A(q), A(r), n) = A(q).ptr .. (A(q).ptr + N + (A(r).ptr - A(q).ptr) - 1)
      BY <1>10 DEF Copied
    <2>3. S \in Nat /\ A(p).size <= S
      BY <1>8, <1>11
    <2> DEFINE first == A(q).ptr
               last  == A(r).ptr
               ptr   == A(p).ptr
               size  == A(p).size
    <2>4. /\ first \in Nat /\ last \in Nat /\ ptr \in Nat /\ size \in Nat
          /\ first <= ptr /\ ptr <= last /\ size <= S
          /\ x \in (ptr + V) .. (ptr + V + size - 1)
      BY <1>8, <1>9, <1>10, <2>3
    <2>5. Copied(A(q), A(r), n) = first .. (first + N + (last - first) - 1)
      BY <2>2
    <2> HIDE DEF V, N, S, first, last, ptr, size
    <2>6. x \in first .. (first + N + (last - first) - 1)
      BY <2>1, <2>3, <2>4, Within
    <2> QED BY <2>5, <2>6
  <1>14. Reads(A(p), vertices) \subseteq Copied(A(q), A(r), n)
    BY <1>13 DEF Reads
  <1> QED BY <1>4, <1>14 DEF A, n

-----------------------------------------------------------------------------
(* Draws.                                                                  *)

LEMMA HasArraysIs ==
  ASSUME Linked, NEW i \in gl.enabled[None], i \in Indices
  PROVE  HasArrays
  BY DEF HasArrays, Linked, EntryLinked

(* An attribute that a draw reads, when it is drawn with nothing amiss.    *)
LEMMA ReadsRightIs ==
  ASSUME Typed, Linked, Counted, Ordered, Sent,
         NEW vertices \in SUBSET (0 .. MaxVertex), vertices # {}, NEW copies \in BOOLEAN,
         copies => state.vao = None,
         copies /\ state.list # << >> => gl.bound = None,
         NEW i \in Indices, i \in gl.enabled[state.vao],
         ~copies /\ state.vao = None => ~InMemory(i),
         state.vao # None => gl.src[state.vao][i].buffer # None
  PROVE  ReadsRight(i, vertices, copies)
  <1> DEFINE e == state.table[i]
             meant == gl.src[state.vao][i]
  <1>1. /\ state.vao \in Names /\ DOMAIN state.list = 1 .. Len(state.list)
        /\ state.list # << >> <=> Len(state.list) # 0
        /\ Len(state.list) \in Nat
    BY LooseIs DEF Typed, Loose
  <1>2. InList(i) <=> Has(state.list, i)
    BY <1>1 DEF InList, Has
  <1>3. state.vao = None => /\ e # Absent /\ e.enabled
                            /\ meant = [array |-> e.array, buffer |-> e.buffer]
    BY DEF Linked, EntryLinked
  <1>4. CASE copies /\ InList(i)
    <2>1. InMemory(i) /\ state.list # << >>
      BY <1>1, <1>2, <1>4 DEF Counted, Has
    <2>2. driver.bound = None /\ e.buffer = None
      BY <1>4, <2>1 DEF Linked, ContextsLinked, InMemory
    <2>3. meant = [array |-> ArrayOf(i), buffer |-> driver.bound]
      BY <1>3, <1>4, <2>2 DEF ArrayOf
    <2>4. ASSUME NEW p \in DOMAIN state.list, state.list[p].index = i
          PROVE  Reads(ArrayOf(i), vertices) \subseteq CopiedFor(p, ElementsCount(vertices))
      BY <1>1, <2>4, CopiesSuffice
    <2> QED BY <1>4, <2>3, <2>4 DEF ReadsRight
  <1>5. CASE ~(copies /\ InList(i))
    <2>1. meant = driver.src[state.vao][i] /\ meant.buffer # None
      <3>1. CASE state.vao # None
        BY <1>1, <3>1, NamesApart DEF Linked, ContextsLinked
      <3>2. CASE state.vao = None
        <4>1. ~InMemory(i)
          BY <1>2, <1>3, <1>5, <3>2 DEF Counted
        <4>2. e.buffer # None
          BY <1>3, <3>2, <4>1 DEF InMemory
        <4> QED BY <1>3, <3>2, <4>2 DEF Sent, EntrySent
      <3> QED BY <3>1, <3>2
    <2> QED BY <1>5, <2>1 DEF ReadsRight
  <1> QED BY <1>4, <1>5

LEMMA DrawnRight ==
  ASSUME Typed, Linked, Counted, Ordered, Sent, {"unbound", "arrays", "fits", "objects"} \subseteq Manners,
         NEW vertices \in SUBSET (0 .. MaxVertex), vertices # {}, NEW copies \in BOOLEAN,
         NEW sent, NEW room, Draw(vertices, sent, copies, room),
         copies => state.vao = None,
         gl.enabled[state.vao] # {} => sent,
         ~copies /\ state.vao = None => \A i \in gl.enabled[None] : ~InMemory(i)
  PROVE  wrong' = wrong
  <1> DEFINE right == sent /\ (copies => Laid(room))
  <1>1. gl.enabled[state.vao] \subseteq Indices
    <2>1. gl.enabled \in [Names -> SUBSET Indices] /\ state.vao \in Names
      BY DriverIs, LooseIs DEF Typed
    <2> QED BY <2>1
  <1>2. /\ room /\ (copies /\ state.list # << >> => gl.bound = None)
        /\ state.vao # None =>
             \A i \in gl.enabled[state.vao] : gl.src[state.vao][i].buffer # None
    BY DEF Draw
  <1>3. wrong' = wrong \cup {i \in gl.enabled[state.vao] : ~(right /\ ReadsRight(i, vertices, copies))}
    BY DEF Draw
  <1>4. Laid(room)
    BY <1>2 DEF Laid, Counted
  <1>5. ASSUME NEW i \in gl.enabled[state.vao] PROVE right /\ ReadsRight(i, vertices, copies)
    <2>1. ReadsRight(i, vertices, copies)
      <3>1. i \in Indices /\ i \in gl.enabled[state.vao]
        BY <1>1
      <3>2. ~copies /\ state.vao = None => ~InMemory(i)
        OBVIOUS
      <3> QED BY <1>2, <3>1, <3>2, ReadsRightIs
    <2> QED BY <1>4, <2>1
  <1> HIDE DEF right
  <1> QED BY <1>3, <1>5

LEMMA DrawingRight ==
  ASSUME Typed, Linked, Counted, Ordered, Sent, Manners = AllManners, Drawing
  PROVE  wrong' = wrong
  <1>1. /\ {"unbound", "arrays", "fits", "objects"} \subseteq Manners
        /\ "elements" \in Manners /\ "objects" \in Manners
    BY DEF AllManners
  <1>2. state.vao \in Names /\ gl.enabled[None] \subseteq Indices
    <2>1. gl.enabled \in [Names -> SUBSET Indices] /\ state.vao \in Names
      BY DriverIs, LooseIs DEF Typed
    <2> QED BY <2>1, NamesApart
  <1>3. gl.enabled[state.vao] # {} => state.vao # None \/ HasArrays
    BY <1>2, HasArraysIs
  <1>4. ASSUME NEW f \in 0 .. MaxVertex, NEW n \in 0 .. MaxVertex, NEW room \in BOOLEAN,
               n > 0, f + n <= MaxVertex + 1, DrawArrays(f, n, room)
        PROVE  wrong' = wrong
    <2> DEFINE vertices == f .. (f + n - 1)
               sent     == state.vao # None \/ HasArrays
               copies   == state.vao = None
    <2>1. vertices \in SUBSET (0 .. MaxVertex) /\ vertices # {}
      <3>1. MaxVertex \in Nat
        BY VertexArraysAssumption
      <3>2. f \in Nat /\ f + n - 1 \in Nat /\ f <= f + n - 1 /\ f + n - 1 <= MaxVertex
        BY <1>4, <3>1
      <3>3. f \in vertices
        BY <3>2
      <3>4. vertices \subseteq 0 .. MaxVertex
        BY <3>1, <3>2
      <3> QED BY <3>3, <3>4
    <2>2. copies \in BOOLEAN /\ (copies <=> state.vao = None)
          /\ (gl.enabled[state.vao] # {} => sent)
      BY <1>3
    <2>3. Draw(vertices, sent, copies, room)
      BY <1>4, Zenon DEF DrawArrays
    <2> HIDE DEF vertices, sent, copies
    <2> QED BY <1>1, <2>1, <2>2, <2>3, DrawnRight
  <1>5. ASSUME NEW vertices \in (SUBSET (0 .. MaxVertex)) \ {{}}, NEW short \in BOOLEAN,
               NEW room \in BOOLEAN, DrawElements(vertices, short, room)
        PROVE  wrong' = wrong
    <2> DEFINE inBuffer == gl.elem[state.vao] # None
               sent     == /\ state.vao # None \/ HasArrays
                           /\ inBuffer => state.elem # None
                           /\ ~inBuffer => CopyIndices /\ short
                           /\ driver.elem[state.vao] = gl.elem[state.vao]
    <2>1. Draw(vertices, sent, CopyIndices, room)
      BY <1>5, Zenon DEF DrawElements
    <2>2. /\ IF inBuffer THEN \A i \in gl.enabled[None] : ~InMemory(i) \/ state.vao # None ELSE short
          /\ state.vao # None => inBuffer
      BY <1>1, <1>5, Zenon DEF DrawElements
    <2>3. state.elem = gl.elem[state.vao] /\ driver.elem[state.vao] = gl.elem[state.vao]
      BY <1>2 DEF Linked, ContextsLinked
    <2>4. gl.enabled[state.vao] # {} => sent
      BY <1>3, <2>2, <2>3 DEF CopyIndices
    <2>5. CopyIndices \in BOOLEAN /\ (CopyIndices => state.vao = None)
      BY DEF CopyIndices
    <2>6. ~CopyIndices /\ state.vao = None => \A i \in gl.enabled[None] : ~InMemory(i)
      BY <2>2, <2>3 DEF CopyIndices
    <2> DEFINE copies == CopyIndices
    <2>7. /\ copies \in BOOLEAN /\ Draw(vertices, sent, copies, room)
          /\ copies => state.vao = None
          /\ ~copies /\ state.vao = None => \A i \in gl.enabled[None] : ~InMemory(i)
      BY <2>1, <2>5, <2>6
    <2>8. vertices \in SUBSET (0 .. MaxVertex) /\ vertices # {}
      OBVIOUS
    <2> HIDE DEF sent, copies
    <2> QED BY <1>1, <2>4, <2>7, <2>8, DrawnRight
  <1> QED BY <1>4, <1>5 DEF Drawing

LEMMA WrongStep ==
  ASSUME Typed, Linked, Counted, Ordered, Sent, Manners = AllManners, wrong = {}, [Next]_vars
  PROVE  wrong' = {}
  <1>1. CASE UNCHANGED vars
    BY <1>1 DEF vars
  <1>2. CASE Next
    <2>1. CASE Drawing
      BY <2>1, DrawingRight
    <2>2. CASE ~Drawing
      BY <1>2, <2>2, StepIs, Zenon
         DEF VertexAttribPointer, SetVertexAttribArray, VertexAttrib, BindArrayBuffer,
             BindElementBuffer, DeleteBuffers, GetArrayBufferBinding, GetElementBufferBinding,
             BindVertexArray, DeleteVertexArrays
    <2> QED BY <2>1, <2>2
  <1> QED BY <1>1, <1>2

-----------------------------------------------------------------------------
(* What an application that keeps to "pointers", "values", "detached",     *)
(* "elements" and "queries" is told of arrays is what a driver would tell  *)
(* it, but for the names of buffers in objects; and the record of what is  *)
(* bound, which decides what is not sent, is what it bound, whatever else  *)
(* it does.                                                                *)
THEOREM AnswersAreRight == Linking \subseteq Manners => (Spec => []AnswersAgree)
  <1> SUFFICES ASSUME Linking \subseteq Manners PROVE Spec => []AnswersAgree
    OBVIOUS
  <1>1. Init => Typed /\ Linked
    BY TypedInit, LinkedInit
  <1>2. Typed /\ Linked /\ [Next]_vars => (Typed /\ Linked)'
    BY TypedStep, LinkedStep
  <1>3. Typed /\ Linked => AnswersAgree
    BY LinkedAgrees
  <1> QED BY <1>1, <1>2, <1>3, PTL DEF Spec

(* With "binding" and "rising" as well, the record has the types it should *)
(* have: no count below zero, no chunk number over the last one.           *)
THEOREM TypeCorrect == Counting \subseteq Manners => (Spec => []TypeOK)
  <1> SUFFICES ASSUME Counting \subseteq Manners PROVE Spec => []TypeOK
    OBVIOUS
  <1>1. Init => Typed /\ Linked /\ Counted
    BY TypedInit, LinkedInit, CountedInit
  <1>2. Typed /\ Linked /\ Counted /\ [Next]_vars => (Typed /\ Linked /\ Counted)'
    BY TypedStep, LinkedStep, CountedStep DEF Counting
  <1>3. Typed /\ Linked /\ Counted => TypeOK
    BY CountedType
  <1> QED BY <1>1, <1>2, <1>3, PTL DEF Spec

(* And the list has each enabled array in application memory, once, and    *)
(* nothing else, whatever buffers the application binds and deletes while  *)
(* it enables and disables arrays.                                         *)
THEOREM ListIsCounted == Counting \subseteq Manners => (Spec => []ListCounted)
  <1> SUFFICES ASSUME Counting \subseteq Manners PROVE Spec => []ListCounted
    OBVIOUS
  <1>1. Init => Typed /\ Linked /\ Counted
    BY TypedInit, LinkedInit, CountedInit
  <1>2. Typed /\ Linked /\ Counted /\ [Next]_vars => (Typed /\ Linked /\ Counted)'
    BY TypedStep, LinkedStep, CountedStep DEF Counting
  <1>3. Typed /\ Linked /\ Counted => ListCounted
    BY CountedType
  <1> QED BY <1>1, <1>2, <1>3, PTL DEF Spec

(* With all the manners, every draw reads what the application named, from *)
(* a buffer or from memory that has been copied as far as the draw reads,  *)
(* never from the application's own after the call.                        *)
THEOREM DrawsRead == Manners = AllManners => (Spec => []DrawsReadRight)
  <1> DEFINE IInv == Typed /\ Linked /\ Counted /\ Ordered /\ Sent /\ wrong = {}
  <1> SUFFICES ASSUME Manners = AllManners PROVE Spec => []DrawsReadRight
    OBVIOUS
  <1>1. Counting \subseteq Manners /\ Linking \subseteq Manners /\ "strides" \in Manners
    BY DEF Counting, Linking, AllManners
  <1>2. Init => IInv
    <2> SUFFICES ASSUME Init PROVE IInv
      OBVIOUS
    <2>1. Ordered
      BY DEF Init, Ordered, InOrder
    <2>2. Sent
      BY DEF Init, Sent, EntrySent
    <2>3. wrong = {}
      BY DEF Init
    <2> QED BY <2>1, <2>2, <2>3, TypedInit, LinkedInit, CountedInit
  <1>3. IInv /\ [Next]_vars => IInv'
    BY <1>1, TypedStep, LinkedStep, CountedStep, OrderedStep, SentStep, WrongStep
  <1>4. IInv => DrawsReadRight
    BY DEF DrawsReadRight
  <1> QED BY <1>2, <1>3, <1>4, PTL DEF Spec

=============================================================================
