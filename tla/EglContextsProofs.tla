--------------------------- MODULE EglContextsProofs ---------------------------
(***************************************************************************)
(* Proofs about the record of EGL contexts, for any number of threads,     *)
(* contexts, surfaces and states.                                          *)
(***************************************************************************)
EXTENDS EglContexts, FiniteSetTheorems, SequenceTheorems, WellFoundedInduction, TLAPS

(***************************************************************************)
(* A set of numbers has a least one.                                       *)
(***************************************************************************)
LEMMA LeastNatural ==
  ASSUME NEW S \in SUBSET Nat, S # {}
  PROVE  \E m \in S : \A k \in S : m <= k
  <1> DEFINE R == {ss \in Nat \X Nat : ss[1] < ss[2]}
  <1>1. OpToRel(<, Nat) = R
    BY Zenon DEF OpToRel
  <1>2. IsWellFoundedOn(R, Nat)
    BY <1>1, NatLessThanWellFounded, Zenon
  <1>3. \A a, b \in Nat : a < b => <<a, b>> \in R
    OBVIOUS
  <1> HIDE DEF R
  <1>4. PICK x \in S : \A y \in S : ~ (<<y, x>> \in R)
    BY <1>2, WFMin, Zenon
  <1>5. x \in Nat /\ S \subseteq Nat
    OBVIOUS
  <1>6. ASSUME NEW k \in S PROVE x <= k
    <2>1. ~(<<k, x>> \in R)
      BY <1>4
    <2> QED BY <1>3, <1>5, <2>1
  <1> QED BY <1>6

(***************************************************************************)
(* Loops: what every step keeps holds after any number of them, and a loop *)
(* whose steps stay in a set has values in it.                             *)
(***************************************************************************)
LEMMA LoopKeeps ==
  ASSUME NEW n \in Nat, NEW S, NEW g, g[0] \in S,
         \A i \in 1 .. n : g[i - 1] \in S => g[i] \in S
  PROVE  \A i \in 0 .. n : g[i] \in S
  <1> DEFINE bad == {i \in 0 .. n : g[i] \notin S}
  <1> SUFFICES ASSUME bad # {} PROVE FALSE
    OBVIOUS
  <1>1. bad \in SUBSET Nat
    OBVIOUS
  <1>2. PICK m \in bad : \A k \in bad : m <= k
    BY <1>1, LeastNatural
  <1>3. m \in 1 .. n
    BY <1>2
  <1>4. m - 1 \notin bad
    BY <1>2, <1>3
  <1> QED BY <1>2, <1>3, <1>4

Loop(g, n, S, F, start) ==
  g \in [0 .. n -> S] /\ g[0] = start /\ \A i \in 1 .. n : g[i] = F[i][g[i - 1]]

LEMMA LoopEnds ==
  ASSUME NEW n \in Nat, NEW S, NEW F, F \in [1 .. n -> [S -> S]], NEW start, start \in S
  PROVE  \E g : Loop(g, n, S, F, start)
  <1> DEFINE Run(m, g) == g[0] = start /\ \A i \in 1 .. m : g[i] = F[i][g[i - 1]]
             good == {m \in 0 .. n : \E g \in [0 .. m -> S] : Run(m, g)}
             id == [i \in 0 .. n |-> i]
  <1>1. 0 \in good
    <2> DEFINE g == [i \in 0 .. 0 |-> start]
    <2>1. g \in [0 .. 0 -> S] /\ g[0] = start /\ 1 .. 0 = {}
      OBVIOUS
    <2> HIDE DEF g
    <2>2. Run(0, g) /\ 0 \in 0 .. n
      BY <2>1
    <2> QED BY <2>1, <2>2, Zenon
  <1>2. ASSUME NEW m \in 1 .. n, m - 1 \in good PROVE m \in good
    <2>1. PICK g \in [0 .. m - 1 -> S] : Run(m - 1, g)
      BY <1>2
    <2>2. g[m - 1] \in S /\ F[m] \in [S -> S]
      OBVIOUS
    <2>3. F[m][g[m - 1]] \in S
      BY <2>2
    <2> DEFINE h == [i \in 0 .. m |-> IF i = m THEN F[m][g[m - 1]] ELSE g[i]]
    <2>4. h \in [0 .. m -> S]
      BY <2>3
    <2>5. h[m] = F[m][g[m - 1]] /\ \A i \in 0 .. m - 1 : h[i] = g[i]
      OBVIOUS
    <2> HIDE DEF h
    <2>6. h[0] = start
      BY <2>1, <2>5
    <2>7. ASSUME NEW i \in 1 .. m PROVE h[i] = F[i][h[i - 1]]
      <3>1. CASE i = m
        BY <2>5, <3>1
      <3>2. CASE i # m
        <4>1. i \in 1 .. m - 1 /\ i - 1 \in 0 .. m - 1
          BY <3>2
        <4>2. g[i] = F[i][g[i - 1]]
          BY <2>1, <4>1
        <4> QED BY <2>5, <4>1, <4>2
      <3> QED BY <3>1, <3>2
    <2>8. Run(m, h) /\ m \in 0 .. n
      BY <2>6, <2>7
    <2> HIDE DEF Run
    <2> QED BY <2>4, <2>8, Zenon
  <1> HIDE DEF good
  <1>3. id[0] \in good /\ \A i \in 1 .. n : id[i - 1] \in good => id[i] \in good
    BY <1>1, <1>2
  <1>4. \A i \in 0 .. n : id[i] \in good
    BY <1>3, LoopKeeps
  <1>5. n \in good
    BY <1>4
  <1>6. PICK g \in [0 .. n -> S] : Run(n, g)
    BY <1>5 DEF good
  <1> QED BY <1>6 DEF Loop

(***************************************************************************)
(* What the helpers return.                                                *)
(***************************************************************************)
LEMMA FindIs ==
  ASSUME NEW h, NEW list \in Seq(Addresses), NEW c
  PROVE  \/ Find(h, list, c) = 0 /\ \A i \in 1 .. Len(list) : h[list[i]].ctx # c
         \/ Find(h, list, c) \in 1 .. Len(list) /\ h[list[Find(h, list, c)]].ctx = c
  <1> DEFINE I == {i \in 1 .. Len(list) : h[list[i]].ctx = c}
  <1>1. CASE I # {}
    <2>1. \E m \in I : \A k \in I : m <= k
      <3>1. I \in SUBSET Nat
        OBVIOUS
      <3> HIDE DEF I
      <3> QED BY <1>1, <3>1, LeastNatural
    <2>2. Find(h, list, c) = CHOOSE m \in I : \A k \in I : m <= k
      BY <1>1 DEF Find, SelectInSeq, Min
    <2>3. Find(h, list, c) \in I
      <3> HIDE DEF I
      <3> QED BY <2>1, <2>2
    <2> QED BY <2>3
  <1>2. CASE I = {}
    BY <1>2 DEF Find, SelectInSeq
  <1> QED BY <1>1, <1>2

(* Those that are not gone stay, in a list where nothing is twice if       *)
(* nothing was.                                                            *)
Once(list) == \A i, j \in 1 .. Len(list) : list[i] = list[j] => i = j

LEMMA AppendIs ==
  ASSUME NEW E, NEW s \in Seq(E), NEW x \in E
  PROVE  /\ Append(s, x) \in Seq(E) /\ Range(Append(s, x)) = Range(s) \cup {x}
         /\ Once(s) /\ x \notin Range(s) => Once(Append(s, x))
  <1>1. /\ Append(s, x) \in Seq(E) /\ Len(Append(s, x)) = Len(s) + 1
        /\ \A i \in 1 .. Len(s) : Append(s, x)[i] = s[i]
        /\ Append(s, x)[Len(s) + 1] = x /\ Len(s) \in Nat
    OBVIOUS
  <1>2. DOMAIN s = 1 .. Len(s) /\ DOMAIN Append(s, x) = 1 .. Len(s) + 1
    BY <1>1
  <1> DEFINE l == Append(s, x)
  <1> HIDE DEF l
  <1>3. Range(l) = Range(s) \cup {x}
    <2>1. ASSUME NEW y \in Range(l) PROVE y \in Range(s) \cup {x}
      BY <1>1, <1>2 DEF Range, l
    <2>2. ASSUME NEW y \in Range(s) PROVE y \in Range(l)
      BY <1>1, <1>2 DEF Range, l
    <2>3. x \in Range(l)
      BY <1>1, <1>2 DEF Range, l
    <2> QED BY <2>1, <2>2, <2>3
  <1>4. Once(s) /\ x \notin Range(s) => Once(l)
    BY <1>1, <1>2 DEF Once, Range, l
  <1> QED BY <1>1, <1>3, <1>4 DEF l

LEMMA WithoutIs ==
  ASSUME NEW list \in Seq(Addresses), NEW gone
  PROVE  /\ Without(list, gone) \in Seq(Addresses)
         /\ Range(Without(list, gone)) = Range(list) \ gone
         /\ Once(list) => Once(Without(list, gone))
  <1> DEFINE n == Len(list)
             S == Seq(Addresses)
             Run(f) == f = [i \in 0 .. n |-> IF i = 0 THEN << >>
                                             ELSE IF list[i] \in gone THEN f[i - 1]
                                             ELSE Append(f[i - 1], list[i])]
             F == [i \in 1 .. n |-> [v \in S |-> IF list[i] \in gone THEN v ELSE Append(v, list[i])]]
             kept == CHOOSE f : Run(f)
  <1>0. n \in Nat /\ << >> \in S /\ DOMAIN list = 1 .. n
    OBVIOUS
  <1>1. F \in [1 .. n -> [S -> S]]
    <2>1. \A i \in 1 .. n : list[i] \in Addresses
      OBVIOUS
    <2>2. \A i \in 1 .. n, v \in S : Append(v, list[i]) \in S
      BY <2>1
    <2> HIDE DEF S, n
    <2> QED BY <2>2
  <1>2. \E f : Run(f)
    <2> HIDE DEF F, S, n
    <2>0. PICK g : Loop(g, n, S, F, << >>)
      BY <1>0, <1>1, LoopEnds, Zenon
    <2>1. g \in [0 .. n -> S] /\ g[0] = << >> /\ \A i \in 1 .. n : g[i] = F[i][g[i - 1]]
      BY <2>0 DEF Loop
    <2>2. ASSUME NEW i \in 1 .. n
          PROVE  g[i] = IF list[i] \in gone THEN g[i - 1] ELSE Append(g[i - 1], list[i])
      <3>1. g[i - 1] \in S
        BY <1>0, <2>1
      <3>2. F[i][g[i - 1]] = IF list[i] \in gone THEN g[i - 1] ELSE Append(g[i - 1], list[i])
        BY <3>1 DEF F
      <3> QED BY <2>1, <3>2
    <2>3. \A i \in 0 .. n : g[i] = IF i = 0 THEN << >>
                                   ELSE IF list[i] \in gone THEN g[i - 1]
                                   ELSE Append(g[i - 1], list[i])
      <3>1. \A i \in 0 .. n : i = 0 \/ i \in 1 .. n
        BY <1>0
      <3>2. \A i \in 1 .. n : i # 0
        BY <1>0
      <3> QED BY <2>1, <2>2, <3>1, <3>2, Zenon
    <2>4. g = [i \in 0 .. n |-> g[i]]
      BY <2>1
    <2>5. g = [i \in 0 .. n |-> IF i = 0 THEN << >>
                                ELSE IF list[i] \in gone THEN g[i - 1]
                                ELSE Append(g[i - 1], list[i])]
      BY <2>3, <2>4, Zenon
    <2> QED BY <2>5, Zenon
  <1>3. Run(kept)
    BY <1>2
  <1>4. Without(list, gone) = kept[n]
    BY Zenon DEF Without
  <1>5. /\ kept[0] = << >>
        /\ \A i \in 1 .. n : kept[i] = IF list[i] \in gone THEN kept[i - 1] ELSE Append(kept[i - 1], list[i])
    <2> HIDE DEF kept, n
    <2>1. \A i \in 0 .. n : kept[i] = IF i = 0 THEN << >>
                                      ELSE IF list[i] \in gone THEN kept[i - 1]
                                      ELSE Append(kept[i - 1], list[i])
      BY <1>3, Zenon
    <2> QED BY <1>0, <2>1
  <1> DEFINE Part(i) == /\ kept[i] \in S
                        /\ Range(kept[i]) = {list[j] : j \in 1 .. i} \ gone
                        /\ Once(list) => Once(kept[i])
             id == [i \in 0 .. n |-> i]
             good == {i \in 0 .. n : Part(i)}
  <1> HIDE DEF kept
  <1>6. Part(0)
    BY <1>5 DEF Range, Once
  <1>7. ASSUME NEW i \in 1 .. n, Part(i - 1) PROVE Part(i)
    <2>1. {list[j] : j \in 1 .. i} = {list[j] : j \in 1 .. i - 1} \cup {list[i]}
      <3>1. 1 .. i = (1 .. i - 1) \cup {i}
        OBVIOUS
      <3> QED BY <3>1
    <2>2. CASE list[i] \in gone
      BY <1>5, <1>7, <2>1, <2>2
    <2>3. CASE list[i] \notin gone
      <3>1. kept[i] = Append(kept[i - 1], list[i]) /\ list[i] \in Addresses /\ kept[i - 1] \in Seq(Addresses)
        <4>1. list[i] \in Addresses
          OBVIOUS
        <4>2. kept[i - 1] \in Seq(Addresses)
          BY <1>7
        <4>3. kept[i] = Append(kept[i - 1], list[i])
          BY <1>5, <2>3, Zenon
        <4> QED BY <4>1, <4>2, <4>3
      <3>2. Once(list) => list[i] \notin {list[j] : j \in 1 .. i - 1}
        BY DEF Once
      <3>3. Once(list) => list[i] \notin Range(kept[i - 1])
        BY <1>7, <3>2
      <3> QED BY <1>7, <2>1, <2>3, <3>1, <3>3, AppendIs
    <2> QED BY <2>2, <2>3
  <1> HIDE DEF Part
  <1>8. id[0] \in good /\ \A i \in 1 .. n : id[i - 1] \in good => id[i] \in good
    BY <1>0, <1>6, <1>7
  <1> HIDE DEF good
  <1>9. \A i \in 0 .. n : id[i] \in good
    BY <1>0, <1>8, LoopKeeps
  <1>10. Part(n)
    BY <1>0, <1>9 DEF good
  <1> QED BY <1>0, <1>4, <1>10 DEF Part, Range

(***************************************************************************)
(* Destroying states: the context and the mark of every state stay, and    *)
(* unless a share context was reached only the states asked for are gone.  *)
(***************************************************************************)
Heaps == [Addresses -> StateSet]
Keeps(h, old) == \A x \in Addresses : h[x].ctx = old[x].ctx /\ h[x].active = old[x].active

LEMMA DecrementedIs ==
  ASSUME NEW n \in 0 .. CountMod - 1
  PROVE  Decremented(n) \in 0 .. CountMod - 1
  <1>1. n + CountMod - 1 \in Nat /\ CountMod \in Nat /\ CountMod > 0
    BY ContextsAssumption
  <1>2. \A m \in Nat, k \in Nat : k > 0 => m % k \in 0 .. k - 1
    OBVIOUS
  <1> QED BY <1>1, <1>2 DEF Decremented

LEMMA SharingIs ==
  ASSUME NEW h \in Heaps, NEW a \in Addresses, NEW n \in 0 .. CountMod - 1
  PROVE  [h EXCEPT ![a].sharing = n] \in Heaps /\ Keeps([h EXCEPT ![a].sharing = n], h)
  BY DEF Heaps, Keeps, StateSet

Calls(start, a) ==
  {v \in [heap : Heaps, gone : SUBSET Addresses, next : Addresses \cup {0}, depth : Nat] :
     /\ Keeps(v.heap, start.heap)
     /\ v.depth = 0 => v.next \in {a, 0} /\ v.gone = start.gone
     /\ v.depth = 1 => v.gone = start.gone \cup {a}}

LEMMA DestroyStepIs ==
  ASSUME NEW start, NEW a \in Addresses, NEW w \in Calls(start, a)
  PROVE  DestroyStep(w) \in Calls(start, a)
  <1>1. CASE w.next = 0
    BY <1>1 DEF DestroyStep
  <1>2. CASE w.next # 0
    <2> DEFINE b == w.next
               n == Decremented(w.heap[b].sharing)
               p == w.heap[b].share
               h == [w.heap EXCEPT ![b].sharing = n]
               k == [h EXCEPT ![p].sharing = Decremented(h[p].sharing)]
    <2>1. b \in Addresses /\ w.heap \in Heaps
      BY <1>2 DEF Calls
    <2>2. w.heap[b].sharing \in 0 .. CountMod - 1 /\ p \in Addresses \cup {0}
      BY <2>1 DEF Heaps, StateSet
    <2>3. n \in 0 .. CountMod - 1
      BY <2>2, DecrementedIs
    <2>4. h \in Heaps /\ Keeps(h, w.heap)
      <3> HIDE DEF n
      <3> QED BY <2>1, <2>3, SharingIs
    <2>5. Keeps(h, start.heap)
      BY <2>4 DEF Calls, Keeps
    <2>6. CASE n > 0
      <3>1. DestroyStep(w) = [w EXCEPT !.heap = h, !.next = 0]
        BY <1>2, <2>6 DEF DestroyStep
      <3> HIDE DEF h
      <3> QED BY <2>4, <2>5, <3>1 DEF Calls
    <2>7. CASE ~(n > 0)
      <3> DEFINE m == IF p = 0 THEN h ELSE k
      <3>1. DestroyStep(w) = [heap |-> m, gone |-> w.gone \cup {b}, next |-> p, depth |-> w.depth + 1]
        BY <1>2, <2>7 DEF DestroyStep
      <3>2. m \in Heaps /\ Keeps(m, start.heap)
        <4>1. CASE p = 0
          BY <2>4, <2>5, <4>1
        <4>2. CASE p # 0
          <5> HIDE DEF h
          <5>1. p \in Addresses /\ h[p].sharing \in 0 .. CountMod - 1
            BY <2>2, <2>4, <4>2 DEF Heaps, StateSet
          <5>2. Decremented(h[p].sharing) \in 0 .. CountMod - 1
            BY <5>1, DecrementedIs
          <5>3. k \in Heaps /\ Keeps(k, h)
            <6> DEFINE d == Decremented(h[p].sharing)
            <6> HIDE DEF d, p
            <6>1. [h EXCEPT ![p].sharing = d] \in Heaps /\ Keeps([h EXCEPT ![p].sharing = d], h)
              BY <2>4, <5>1, <5>2, SharingIs DEF d
            <6> QED BY <6>1 DEF d
          <5> QED BY <2>5, <4>2, <5>3 DEF Keeps
        <4> QED BY <4>1, <4>2
      <3> HIDE DEF m, p
      <3>3. /\ w.depth \in Nat /\ w.gone \in SUBSET Addresses
            /\ w.depth = 0 => b = a /\ w.gone = start.gone
        BY <1>2 DEF Calls
      <3> QED BY <2>1, <2>2, <3>1, <3>2, <3>3 DEF Calls
    <2> QED BY <2>6, <2>7
  <1> QED BY <1>1, <1>2

LEMMA DestroyStateIs ==
  ASSUME NEW w, w.heap \in Heaps, w.gone \in SUBSET Addresses, w.chain \in BOOLEAN,
         NEW a \in Addresses
  PROVE  /\ DestroyState(w, a) \in [heap : Heaps, gone : SUBSET Addresses, chain : BOOLEAN]
         /\ Keeps(DestroyState(w, a).heap, w.heap)
         /\ ~DestroyState(w, a).chain =>
              ~w.chain /\ DestroyState(w, a).gone \subseteq w.gone \cup {a}
  <1> DEFINE start == [heap |-> w.heap, gone |-> w.gone, next |-> a, depth |-> 0]
             S == Calls(start, a)
             n == MaxStates
             Run(f) == f = [i \in 0 .. n |-> IF i = 0 THEN start ELSE DestroyStep(f[i - 1])]
             F == [i \in 1 .. n |-> [v \in S |-> DestroyStep(v)]]
             after == CHOOSE f : Run(f)
  <1>0. n \in Nat
    BY ContextsAssumption
  <1>1. start \in S
    BY DEF Calls, Keeps
  <1>2. \A v \in S : DestroyStep(v) \in S
    <2> HIDE DEF start
    <2> QED BY DestroyStepIs
  <1> DEFINE end == after[n]
  <1>3. DestroyState(w, a) = [heap |-> end.heap, gone |-> end.gone, chain |-> w.chain \/ end.depth > 1]
    BY Zenon DEF DestroyState
  <1> HIDE DEF start, S, n
  <1>4. F \in [1 .. n -> [S -> S]]
    BY <1>2
  <1>5. \E f : Run(f)
    <2> HIDE DEF F
    <2>1. PICK g : Loop(g, n, S, F, start)
      BY <1>0, <1>1, <1>4, LoopEnds, Zenon
    <2>2. g \in [0 .. n -> S] /\ g[0] = start /\ \A i \in 1 .. n : g[i] = F[i][g[i - 1]]
      BY <2>1 DEF Loop
    <2>3. ASSUME NEW i \in 1 .. n PROVE g[i] = DestroyStep(g[i - 1])
      <3>1. g[i - 1] \in S
        BY <1>0, <2>2
      <3>2. F[i][g[i - 1]] = DestroyStep(g[i - 1])
        BY <3>1 DEF F
      <3> QED BY <2>2, <3>2
    <2>4. \A i \in 0 .. n : g[i] = IF i = 0 THEN start ELSE DestroyStep(g[i - 1])
      <3>1. \A i \in 0 .. n : i = 0 \/ i \in 1 .. n
        BY <1>0
      <3> QED BY <2>2, <2>3, <3>1, Zenon
    <2>5. g = [i \in 0 .. n |-> g[i]]
      BY <2>2
    <2>6. g = [i \in 0 .. n |-> IF i = 0 THEN start ELSE DestroyStep(g[i - 1])]
      BY <2>4, <2>5, Zenon
    <2> QED BY <2>6, Zenon
  <1>6. Run(after)
    BY <1>5, Zenon
  <1> HIDE DEF after
  <1>7. after[0] = start /\ \A i \in 1 .. n : after[i] = DestroyStep(after[i - 1])
    <2>1. \A i \in 0 .. n : after[i] = IF i = 0 THEN start ELSE DestroyStep(after[i - 1])
      BY <1>6, Zenon
    <2> QED BY <1>0, <2>1
  <1>8. after[0] \in S /\ \A i \in 1 .. n : after[i - 1] \in S => after[i] \in S
    BY <1>1, <1>2, <1>7
  <1>9. end \in S
    <2>1. \A i \in 0 .. n : after[i] \in S
      BY <1>0, <1>8, LoopKeeps
    <2> QED BY <1>0, <2>1
  <1> HIDE DEF end
  <1>10. /\ end \in [heap : Heaps, gone : SUBSET Addresses, next : Addresses \cup {0}, depth : Nat]
         /\ Keeps(end.heap, w.heap)
         /\ end.depth = 0 => end.gone = w.gone
         /\ end.depth = 1 => end.gone = w.gone \cup {a}
    BY <1>9 DEF S, Calls, start
  <1> DEFINE long == w.chain \/ end.depth > 1
  <1>11. long \in BOOLEAN /\ (~long => ~w.chain /\ end.gone \subseteq w.gone \cup {a})
    BY <1>10
  <1>12. DestroyState(w, a) = [heap |-> end.heap, gone |-> end.gone, chain |-> long]
    BY <1>3
  <1> HIDE DEF long
  <1>13. /\ DestroyState(w, a).heap = end.heap /\ DestroyState(w, a).gone = end.gone
         /\ DestroyState(w, a).chain = long
    BY <1>12
  <1> QED BY <1>10, <1>11, <1>12, <1>13

(* What DestroyAll makes of heap and list: unless a chain was followed     *)
(* nothing but `leaving' went.                                             *)
Removed(heap1, list1, leaving, left) ==
  /\ left.heap \in Heaps /\ Keeps(left.heap, heap1)
  /\ left.list \in Seq(Addresses) /\ Range(left.list) \subseteq Range(list1)
  /\ Once(list1) => Once(left.list)
  /\ left.chain \in BOOLEAN
  /\ ~left.chain => Range(list1) \ Range(leaving) \subseteq Range(left.list)

LEMMA DestroyAllIs ==
  ASSUME NEW w, w.heap \in Heaps, w.list \in Seq(Addresses), NEW leaving, leaving \in Seq(Addresses)
  PROVE  Removed(w.heap, w.list, leaving, DestroyAll(w, leaving))
  <1> DEFINE start == [heap |-> w.heap, gone |-> {}, chain |-> FALSE]
             Record == [heap : Heaps, gone : SUBSET Addresses, chain : BOOLEAN]
             S == {v \in Record : /\ Keeps(v.heap, w.heap)
                                  /\ ~v.chain => v.gone \subseteq Range(leaving)}
             n == Len(leaving)
             Run(f) == f = [i \in 0 .. n |-> IF i = 0 THEN start
                                             ELSE DestroyState(f[i - 1], leaving[i])]
             F == [i \in 1 .. n |-> [v \in S |-> DestroyState(v, leaving[i])]]
             after == CHOOSE f : Run(f)
  <1>0. n \in Nat
    OBVIOUS
  <1>1. start \in S
    BY DEF Keeps
  <1>2. ASSUME NEW i \in 1 .. n, NEW v \in S PROVE DestroyState(v, leaving[i]) \in S
    <2>1. leaving[i] \in Addresses /\ leaving[i] \in Range(leaving)
      BY DEF Range
    <2>2. v.heap \in Heaps /\ v.gone \in SUBSET Addresses /\ v.chain \in BOOLEAN
      OBVIOUS
    <2> DEFINE u == DestroyState(v, leaving[i])
    <2>3. /\ u \in Record /\ Keeps(u.heap, v.heap)
          /\ ~u.chain => ~v.chain /\ u.gone \subseteq v.gone \cup {leaving[i]}
      BY <2>1, <2>2, DestroyStateIs
    <2> HIDE DEF u
    <2>4. Keeps(u.heap, w.heap)
      BY <2>3 DEF Keeps
    <2>5. u \in S
      BY <2>1, <2>3, <2>4
    <2> QED BY <2>5 DEF u
  <1> DEFINE end == after[n]
  <1>3. DestroyAll(w, leaving) = [heap |-> end.heap, list |-> Without(w.list, end.gone), chain |-> end.chain]
    BY Zenon DEF DestroyAll
  <1> HIDE DEF start, S, n
  <1>4. F \in [1 .. n -> [S -> S]]
    BY <1>2
  <1>5. \E f : Run(f)
    <2> HIDE DEF F
    <2>1. PICK g : Loop(g, n, S, F, start)
      BY <1>0, <1>1, <1>4, LoopEnds, Zenon
    <2>2. g \in [0 .. n -> S] /\ g[0] = start /\ \A i \in 1 .. n : g[i] = F[i][g[i - 1]]
      BY <2>1 DEF Loop
    <2>3. ASSUME NEW i \in 1 .. n PROVE g[i] = DestroyState(g[i - 1], leaving[i])
      <3>1. g[i - 1] \in S
        BY <1>0, <2>2
      <3>2. F[i][g[i - 1]] = DestroyState(g[i - 1], leaving[i])
        BY <3>1 DEF F
      <3> QED BY <2>2, <3>2
    <2>4. \A i \in 0 .. n : g[i] = IF i = 0 THEN start ELSE DestroyState(g[i - 1], leaving[i])
      <3>1. \A i \in 0 .. n : i = 0 \/ i \in 1 .. n
        BY <1>0
      <3> QED BY <2>2, <2>3, <3>1, Zenon
    <2>5. g = [i \in 0 .. n |-> g[i]]
      BY <2>2
    <2>6. g = [i \in 0 .. n |-> IF i = 0 THEN start ELSE DestroyState(g[i - 1], leaving[i])]
      BY <2>4, <2>5, Zenon
    <2> QED BY <2>6, Zenon
  <1>6. Run(after)
    BY <1>5, Zenon
  <1> HIDE DEF after
  <1>7. after[0] = start /\ \A i \in 1 .. n : after[i] = DestroyState(after[i - 1], leaving[i])
    <2>1. \A i \in 0 .. n : after[i] = IF i = 0 THEN start ELSE DestroyState(after[i - 1], leaving[i])
      BY <1>6, Zenon
    <2> QED BY <1>0, <2>1
  <1>8. after[0] \in S /\ \A i \in 1 .. n : after[i - 1] \in S => after[i] \in S
    BY <1>1, <1>2, <1>7
  <1>9. end \in S
    <2>1. \A i \in 0 .. n : after[i] \in S
      BY <1>0, <1>8, LoopKeeps
    <2> QED BY <1>0, <2>1
  <1> HIDE DEF end
  <1>10. /\ end.heap \in Heaps /\ Keeps(end.heap, w.heap) /\ end.chain \in BOOLEAN
         /\ ~end.chain => end.gone \subseteq Range(leaving)
    BY <1>9 DEF S
  <1>11. /\ Without(w.list, end.gone) \in Seq(Addresses)
         /\ Range(Without(w.list, end.gone)) = Range(w.list) \ end.gone
         /\ Once(w.list) => Once(Without(w.list, end.gone))
    BY WithoutIs
  <1> HIDE DEF Record
  <1> QED BY <1>3, <1>10, <1>11 DEF Removed

(* What is in the list, or current, is not swept.                          *)
LEMMA SweptIs ==
  ASSUME NEW h \in Heaps, NEW list, NEW now
  PROVE  /\ Swept(h, list, now) \in Heaps
         /\ \A a \in Addresses : a \in Range(list) \cup Range(now) => Swept(h, list, now)[a] = h[a]
  <1>1. NewState(NoCtx) \in StateSet
    BY ContextsAssumption DEF NewState, StateSet
  <1> QED BY <1>1 DEF Swept, Heaps

-----------------------------------------------------------------------------
(* A record of heap and list: each state in the list is of a context, and  *)
(* of another one than the others.                                         *)
World(h, list) ==
  /\ h \in Heaps /\ list \in Seq(Addresses)
  /\ \A a \in Range(list) : h[a].ctx \in Contexts
  /\ \A i, j \in 1 .. Len(list) : h[list[i]].ctx = h[list[j]].ctx => i = j

(* In the list the active ones are the current ones; all that is current   *)
(* is in the list.                                                         *)
Marked(h, list, now) == \A a \in Range(list) : h[a].active <=> \E t \in Threads : now[t] = a
Listed(list, now) == \A t \in Threads : now[t] \in Range(list) \cup {0}
Held(h, list, now) == Marked(h, list, now) /\ Listed(list, now)

Currents == [Threads -> Addresses \cup {0}]

LEMMA CurrentIs ==
  ASSUME NEW now \in Currents, NEW t \in Threads
  PROVE  now[t] \in Range(now) /\ now[t] \in Addresses \cup {0}
  BY DEF Currents, Range

LEMMA RangeIs ==
  ASSUME NEW list \in Seq(Addresses)
  PROVE  /\ Range(list) \subseteq Addresses
         /\ \A i \in 1 .. Len(list) : list[i] \in Range(list)
         /\ \A a \in Range(list) : \E i \in 1 .. Len(list) : list[i] = a
  BY DEF Range

(* Fewer states, all of the same contexts.                                 *)
LEMMA WorldShrinks ==
  ASSUME NEW h, NEW list, World(h, list),
         NEW h2 \in Heaps, NEW list2 \in Seq(Addresses),
         Range(list2) \subseteq Range(list), Once(list) => Once(list2),
         \A a \in Range(list2) : h2[a].ctx = h[a].ctx
  PROVE  World(h2, list2)
  <1>1. Once(list)
    BY DEF World, Once
  <1>2. ASSUME NEW i \in 1 .. Len(list2), NEW j \in 1 .. Len(list2),
               h2[list2[i]].ctx = h2[list2[j]].ctx
        PROVE  i = j
    <2>1. list2[i] \in Range(list2) /\ list2[j] \in Range(list2)
      BY RangeIs
    <2>a. list \in Seq(Addresses) /\ list2[i] \in Range(list) /\ list2[j] \in Range(list)
      BY <2>1 DEF World
    <2>b. /\ \E k \in 1 .. Len(list) : list[k] = list2[i]
          /\ \E l \in 1 .. Len(list) : list[l] = list2[j]
      BY <2>a, RangeIs, Zenon
    <2>2. PICK k, l \in 1 .. Len(list) : list[k] = list2[i] /\ list[l] = list2[j]
      BY <2>b
    <2>3. h[list[k]].ctx = h[list[l]].ctx
      BY <1>2, <2>1, <2>2
    <2>4. list2[i] = list2[j]
      BY <2>2, <2>3 DEF World
    <2> QED BY <1>1, <2>4 DEF Once
  <1>3. \A a \in Range(list2) : h2[a].ctx \in Contexts
    BY DEF World
  <1> QED BY <1>2, <1>3 DEF World

(* What a change of heap and list carries over, with `now' current: if     *)
(* `all', and all that is current was in the list and marked, it still is, *)
(* and of the same context.                                                *)
Carried(h, list, now, h2, list2, all) ==
  /\ World(h2, list2)
  /\ all /\ Held(h, list, now) =>
       /\ Held(h2, list2, now)
       /\ \A t \in Threads : now[t] # 0 => h2[now[t]].ctx = h[now[t]].ctx

LEMMA CarriedOn ==
  ASSUME NEW h, NEW list, NEW now, NEW h2, NEW list2, NEW all, Carried(h, list, now, h2, list2, all),
         NEW h3, NEW list3, NEW all3, Carried(h2, list2, now, h3, list3, all3)
  PROVE  Carried(h, list, now, h3, list3, all /\ all3)
  BY DEF Carried

LEMMA SweptCarries ==
  ASSUME NEW h, NEW list, NEW now \in Currents, World(h, list)
  PROVE  Carried(h, list, now, Swept(h, list, now), list, TRUE)
  <1> DEFINE s == Swept(h, list, now)
  <1>1. h \in Heaps /\ list \in Seq(Addresses) /\ Range(list) \subseteq Addresses
    BY RangeIs DEF World
  <1>2. Range(now) \ {0} \subseteq Addresses
    BY DEF Currents, Range
  <1>3. s \in Heaps /\ \A a \in Range(list) \cup (Range(now) \ {0}) : s[a] = h[a]
    BY <1>1, <1>2, SweptIs
  <1> HIDE DEF s
  <1>4. World(s, list)
    BY <1>1, <1>3, WorldShrinks
  <1>5. \A t \in Threads : now[t] # 0 => s[now[t]].ctx = h[now[t]].ctx
    BY <1>3, CurrentIs
  <1>6. Held(h, list, now) => Held(s, list, now)
    BY <1>3 DEF Held, Marked
  <1> QED BY <1>4, <1>5, <1>6 DEF Carried, s

(* _caching_client_get_or_create_state: the state of context c is in the   *)
(* list, its old one or a new one at an address that was not in it.        *)
Got(w, c, now, v) ==
  /\ v = [heap |-> v.heap, list |-> v.list, at |-> v.at]
  /\ Carried(w.heap, w.list, now, v.heap, v.list, TRUE)
  /\ v.at \in Range(v.list) /\ v.heap[v.at].ctx = c
  /\ Range(v.list) = Range(w.list) \cup {v.at}
  /\ \A x \in Addresses \ {v.at} : v.heap[x] = w.heap[x]

LEMMA GetOrCreateIs ==
  ASSUME NEW w, w = [heap |-> w.heap, list |-> w.list, at |-> w.at],
         NEW now \in Currents, World(w.heap, w.list),
         NEW c \in Contexts, Unused(w.heap) # {}
  PROVE  Got(w, c, now, GetOrCreate(w, c))
  <1> DEFINE i == Find(w.heap, w.list, c)
             a == CHOOSE x \in Unused(w.heap) : \A y \in Unused(w.heap) : x <= y
             v == GetOrCreate(w, c)
  <1>0. w.heap \in Heaps /\ w.list \in Seq(Addresses) /\ 0 \notin Addresses
    BY DEF World, Addresses
  <1>1. \/ i = 0 /\ \A k \in 1 .. Len(w.list) : w.heap[w.list[k]].ctx # c
        \/ i \in 1 .. Len(w.list) /\ w.heap[w.list[i]].ctx = c
    BY <1>0, FindIs
  <1>2. CASE i # 0
    <2>1. v = [w EXCEPT !.at = w.list[i]]
      BY <1>2 DEF GetOrCreate
    <2>2. i \in 1 .. Len(w.list) /\ w.heap[w.list[i]].ctx = c
      BY <1>1, <1>2
    <2> HIDE DEF i
    <2>3. v = [heap |-> w.heap, list |-> w.list, at |-> w.list[i]]
      BY <2>1
    <2> HIDE DEF v
    <2>4. v.heap = w.heap /\ v.list = w.list /\ v.at = w.list[i]
      BY <2>3
    <2>5. v.at \in Range(v.list)
      BY <1>0, <2>2, <2>4, RangeIs
    <2>6. Carried(w.heap, w.list, now, v.heap, v.list, TRUE)
      BY <2>4 DEF Carried
    <2>7. Got(w, c, now, v)
      BY <2>2, <2>3, <2>4, <2>5, <2>6 DEF Got
    <2> QED BY <2>7 DEF v
  <1>3. CASE i = 0
    <2>1. v = [heap |-> [w.heap EXCEPT ![a] = NewState(c)], list |-> Append(w.list, a), at |-> a]
      BY <1>3 DEF GetOrCreate
    <2>2. \A k \in 1 .. Len(w.list) : w.heap[w.list[k]].ctx # c
      BY <1>1, <1>3
    <2>3. a \in Unused(w.heap)
      <3>1. Unused(w.heap) \in SUBSET Nat
        BY DEF Unused, Addresses
      <3>2. \E x \in Unused(w.heap) : \A y \in Unused(w.heap) : x <= y
        BY <3>1, LeastNatural
      <3> QED BY <3>2
    <2> HIDE DEF a, i, v
    <2>4. a \in Addresses /\ w.heap[a].ctx = NoCtx
      BY <2>3 DEF Unused
    <2>5. NewState(c) \in StateSet
      BY ContextsAssumption DEF NewState, StateSet
    <2>6. /\ v.heap \in Heaps /\ v.heap[a] = NewState(c) /\ v.list = Append(w.list, a) /\ v.at = a
          /\ \A x \in Addresses \ {a} : v.heap[x] = w.heap[x]
      BY <1>0, <2>1, <2>4, <2>5 DEF Heaps
    <2>7. a \notin Range(w.list)
      <3>1. NoCtx \notin Contexts
        BY ContextsAssumption
      <3> QED BY <2>4, <3>1 DEF World
    <2>8. v.list \in Seq(Addresses) /\ Range(v.list) = Range(w.list) \cup {a}
      BY <1>0, <2>4, <2>6, AppendIs
    <2>9. NewState(c).ctx = c /\ NewState(c).active = FALSE
      BY DEF NewState
    <2>10. \A x \in Range(w.list) : v.heap[x] = w.heap[x]
      <3>1. \A x \in Range(w.list) : x \in Addresses /\ x # a
        BY <1>0, <2>7, RangeIs
      <3> QED BY <2>6, <3>1
    <2>11. World(v.heap, v.list)
      <3>1. \A x \in Range(v.list) : v.heap[x].ctx \in Contexts
        BY <2>6, <2>8, <2>9, <2>10 DEF World
      <3>2. ASSUME NEW k \in 1 .. Len(v.list), NEW l \in 1 .. Len(v.list),
                   v.heap[v.list[k]].ctx = v.heap[v.list[l]].ctx
            PROVE  k = l
        <4> DEFINE n == Len(w.list)
        <4>1. /\ Len(v.list) = n + 1 /\ v.list[n + 1] = a /\ n \in Nat
              /\ \A m \in 1 .. n : v.list[m] = w.list[m]
          BY <1>0, <2>4, <2>6
        <4>2. \A m \in 1 .. n : w.list[m] \in Range(w.list)
          BY <1>0, RangeIs
        <4>3. \A m \in 1 .. n : v.heap[v.list[m]].ctx = w.heap[w.list[m]].ctx
          BY <2>10, <4>1, <4>2
        <4>4. v.heap[v.list[n + 1]].ctx = c
          BY <2>6, <2>9, <4>1
        <4>5. k \in 1 .. n \/ k = n + 1
          BY <4>1
        <4>6. l \in 1 .. n \/ l = n + 1
          BY <4>1
        <4> HIDE DEF n
        <4>7. \A m \in 1 .. n : w.heap[w.list[m]].ctx # c
          BY <2>2 DEF n
        <4>8. k \in 1 .. n /\ l \in 1 .. n => k = l
          BY <3>2, <4>3 DEF World, n
        <4> QED BY <3>2, <4>3, <4>4, <4>5, <4>6, <4>7, <4>8
      <3> QED BY <2>6, <2>8, <3>1, <3>2 DEF World
    <2>12. Held(w.heap, w.list, now) =>
             /\ Held(v.heap, v.list, now)
             /\ \A t \in Threads : now[t] # 0 => v.heap[now[t]].ctx = w.heap[now[t]].ctx
      <3> SUFFICES ASSUME Held(w.heap, w.list, now)
                   PROVE  /\ Held(v.heap, v.list, now)
                          /\ \A t \in Threads : now[t] # 0 => v.heap[now[t]].ctx = w.heap[now[t]].ctx
        OBVIOUS
      <3>1. \A t \in Threads : now[t] # 0 => now[t] \in Range(w.list)
        BY DEF Held, Listed
      <3>2. \A t \in Threads : now[t] # a
        BY <1>0, <2>4, <2>7, <3>1
      <3>3. Marked(v.heap, v.list, now)
        BY <2>6, <2>8, <2>9, <2>10, <3>2 DEF Held, Marked
      <3>4. Listed(v.list, now)
        BY <2>8 DEF Held, Listed
      <3> QED BY <2>10, <3>1, <3>3, <3>4 DEF Held
    <2>15. Carried(w.heap, w.list, now, v.heap, v.list, TRUE)
      BY <2>11, <2>12 DEF Carried
    <2>16. v = [heap |-> v.heap, list |-> v.list, at |-> v.at]
      BY <2>1
    <2>17. v.heap[v.at].ctx = c
      BY <2>6, <2>9
    <2>18. Got(w, c, now, v)
      BY <2>6, <2>8, <2>15, <2>16, <2>17 DEF Got
    <2> QED BY <2>18 DEF v
  <1> QED BY <1>2, <1>3

(* Destroying states that are not active.                                  *)
LEMMA DestroyAllCarries ==
  ASSUME NEW h, NEW list, NEW now \in Currents, World(h, list),
         NEW leaving \in Seq(Addresses), \A a \in Range(leaving) : ~h[a].active,
         NEW left, Removed(h, list, leaving, left)
  PROVE  Carried(h, list, now, left.heap, left.list, ~left.chain)
  <1>1. h \in Heaps /\ list \in Seq(Addresses) /\ Range(list) \subseteq Addresses
    BY RangeIs DEF World
  <1>3. /\ left.heap \in Heaps /\ left.list \in Seq(Addresses)
        /\ Range(left.list) \subseteq Range(list)
        /\ Once(list) => Once(left.list)
        /\ \A a \in Addresses : left.heap[a].ctx = h[a].ctx /\ left.heap[a].active = h[a].active
    BY DEF Removed, Keeps
  <1>4. World(left.heap, left.list)
    <2>1. \A a \in Range(left.list) : left.heap[a].ctx = h[a].ctx
      BY <1>1, <1>3
    <2> QED BY <1>3, <2>1, WorldShrinks
  <1>5. \A t \in Threads : now[t] # 0 => left.heap[now[t]].ctx = h[now[t]].ctx
    BY <1>3, CurrentIs
  <1>6. Held(h, list, now) => Marked(left.heap, left.list, now)
    BY <1>1, <1>3 DEF Held, Marked
  <1>7. ~left.chain /\ Held(h, list, now) => Listed(left.list, now)
    <2> SUFFICES ASSUME ~left.chain, Held(h, list, now), NEW t \in Threads
                 PROVE  now[t] \in Range(left.list) \cup {0}
      BY DEF Listed
    <2>1. now[t] # 0 => now[t] \in Range(list) /\ h[now[t]].active
      BY DEF Held, Listed, Marked
    <2>2. now[t] # 0 => now[t] \in Range(list) \ Range(leaving)
      BY <2>1
    <2> QED BY <2>2 DEF Removed
  <1> QED BY <1>4, <1>5, <1>6, <1>7 DEF Carried, Held

-----------------------------------------------------------------------------
(* The invariant.  Until a hand-over is raced or a deletion passed on,     *)
(* what a thread is told between its calls is what the driver has; a call  *)
(* whose record is not made yet was accepted; what is on its way to the    *)
(* driver is for the context that is bound; and all that is current is in  *)
(* the list and marked.  After that the list still has one state per       *)
(* context.                                                                *)
Sound == ~raced /\ ~chained
Answers(t) ==
  /\ op[t].at # "commit" => bound[t].ctx = GetCurrentContext(t)
  /\ op[t].at = "commit" => bound[t].ctx = op[t].to.ctx
  /\ \A i \in 1 .. Len(pending[t]) : pending[t][i].ctx = bound[t].ctx

Inv ==
  /\ TypeOK
  /\ World(heap, states)
  /\ Sound => (\A t \in Threads : Answers(t)) /\ Held(heap, states, current)

Uses == {"free", "valid", "doomed"}
DriverOK ==
  /\ ctxs \in [Contexts -> Uses] /\ surfs \in [Surfaces -> Uses]
  /\ bound \in [Threads -> Binding] /\ up \in BOOLEAN /\ calls \in Nat

LEMMA StepIs ==
  ASSUME op \in [Threads -> Steps], NEW t \in Threads
  PROVE  /\ op[t] \in Steps
         /\ op[t].at = "add_surface" => op[t].surf \in Surfaces
         /\ op[t].at = "share" => op[t].ctx \in Contexts /\ op[t].with \in Contexts
         /\ op[t].at = "destroyed" => op[t].ctx \in Contexts
         /\ op[t].at \in {"ask", "commit"} => op[t].to \in Binding
  <1> DEFINE s == op[t]
  <1>1. s \in Steps
    OBVIOUS
  <1> HIDE DEF s
  <1>2. CASE s \in {Idle, [at |-> "add_display"], [at |-> "terminated"]}
    <2>1. s.at \in {"idle", "add_display", "terminated"}
      <3>1. CASE s = Idle
        BY <3>1 DEF Idle
      <3>2. CASE s = [at |-> "add_display"]
        BY <3>2
      <3>3. CASE s = [at |-> "terminated"]
        BY <3>3
      <3> QED BY <1>2, <3>1, <3>2, <3>3
    <2> QED BY <1>1, <2>1 DEF s
  <1>3. CASE s \in [at : {"add_surface"}, surf : Surfaces]
    BY <1>1, <1>3 DEF s
  <1>4. CASE s \in [at : {"share"}, ctx : Contexts, with : Contexts]
    BY <1>1, <1>4 DEF s
  <1>5. CASE s \in [at : {"destroyed"}, ctx : Contexts]
    BY <1>1, <1>5 DEF s
  <1>6. CASE s \in [at : {"ask", "commit"}, to : Binding]
    BY <1>1, <1>6 DEF s
  <1> QED BY <1>1, <1>2, <1>3, <1>4, <1>5, <1>6 DEF Steps

LEMMA ContinueIs ==
  ASSUME op \in [Threads -> Steps], NEW t \in Threads, NEW next \in Steps, Continue(t, next)
  PROVE  op' \in [Threads -> Steps] /\ op'[t] = next /\ \A u \in Threads \ {t} : op'[u] = op[u]
  BY DEF Continue

LEMMA NextSteps ==
  /\ Idle \in Steps /\ [at |-> "add_display"] \in Steps /\ [at |-> "terminated"] \in Steps
  /\ \A s \in Surfaces : [at |-> "add_surface", surf |-> s] \in Steps
  /\ \A c, d \in Contexts : [at |-> "share", ctx |-> c, with |-> d] \in Steps
  /\ \A c \in Contexts : [at |-> "destroyed", ctx |-> c] \in Steps
  /\ \A b \in Binding : [at |-> "ask", to |-> b] \in Steps /\ [at |-> "commit", to |-> b] \in Steps
  BY DEF Steps

LEMMA HandlesKept ==
  ASSUME NEW H, NEW table \in [H -> Uses], NEW field, NEW now, NEW handles
  PROVE  /\ AfterRelease(table, field, now) \in [H -> Uses]
         /\ Destroyed(table, field, handles) \in [H -> Uses]
  BY DEF AfterRelease, Destroyed, Uses

LEMMA BindIs ==
  ASSUME DriverOK, NEW t \in Threads, NEW b \in Binding, Bind(t, b)
  PROVE  /\ DriverOK' /\ bound'[t] = b
         /\ \A u \in Threads \ {t} : bound'[u] = bound[u]
  <1>1. bound' = [bound EXCEPT ![t] = b] /\ UNCHANGED <<up, calls>>
    BY DEF Bind
  <1>2. ctxs' = AfterRelease(ctxs, "ctx", bound') /\ surfs' = AfterRelease(surfs, "surf", bound')
    BY DEF Bind
  <1>3. ctxs' \in [Contexts -> Uses] /\ surfs' \in [Surfaces -> Uses]
    BY <1>2, HandlesKept DEF DriverOK
  <1> QED BY <1>1, <1>3 DEF DriverOK

(* A step of thread t that leaves heap, list and current states alone.     *)
Apart(t) ==
  /\ UNCHANGED <<heap, states, current, raced, chained>>
  /\ DriverOK' /\ op' \in [Threads -> Steps] /\ pending' \in [Threads -> Seq(Binding)]
  /\ entries' \in Seq(SUBSET Surfaces)
  /\ \A u \in Threads \ {t} : op'[u] = op[u] /\ pending'[u] = pending[u] /\ bound'[u].ctx = bound[u].ctx
  /\ Sound => Answers(t)'

LEMMA ApartKeeps ==
  ASSUME Inv, NEW t \in Threads, Apart(t)
  PROVE  Inv'
  <1>1. TypeOK'
    BY DEF Inv, TypeOK, Apart, DriverOK, Uses
  <1>2. Sound' = Sound
    BY DEF Apart, Sound
  <1>3. ASSUME Sound, NEW u \in Threads PROVE Answers(u)'
    <2>1. CASE u = t
      BY <1>3, <2>1 DEF Apart
    <2>2. CASE u # t
      BY <1>3, <2>2 DEF Apart, Inv, Answers, GetCurrentContext
    <2> QED BY <2>1, <2>2
  <1>4. World(heap, states)'
    BY DEF Inv, Apart, World
  <1>5. (Sound => Held(heap, states, current))'
    BY <1>2 DEF Inv, Apart, Held, Marked, Listed
  <1> QED BY <1>1, <1>2, <1>3, <1>4, <1>5 DEF Inv

LEMMA InvTypes ==
  ASSUME Inv
  PROVE  /\ DriverOK /\ op \in [Threads -> Steps] /\ pending \in [Threads -> Seq(Binding)]
         /\ heap \in Heaps /\ states \in Seq(Addresses) /\ current \in Currents
         /\ entries \in Seq(SUBSET Surfaces) /\ raced \in BOOLEAN /\ chained \in BOOLEAN
  BY DEF Inv, TypeOK, DriverOK, Uses, Heaps, Currents

LEMMA OwnStepApart ==
  ASSUME Inv, NEW t \in Threads, op[t].at # "commit", op'[t].at # "commit",
         UNCHANGED <<heap, states, current, raced, chained, pending, bound>>,
         DriverOK', entries' \in Seq(SUBSET Surfaces),
         op' \in [Threads -> Steps], \A u \in Threads \ {t} : op'[u] = op[u]
  PROVE  Apart(t)
  <1>1. Sound => Answers(t)'
    BY DEF Inv, Answers, GetCurrentContext
  <1>2. pending' \in [Threads -> Seq(Binding)]
    BY InvTypes
  <1> QED BY <1>1, <1>2 DEF Apart

(* The calls themselves, and the steps that only talk to the driver.       *)
LEMMA CallApart ==
  ASSUME Inv, NEW t \in Threads, Call(t)
  PROVE  Apart(t)
  <1> USE DEF recordVars, driverVars
  <1>0. /\ DriverOK /\ op \in [Threads -> Steps] /\ pending \in [Threads -> Seq(Binding)]
        /\ entries \in Seq(SUBSET Surfaces) /\ (Sound => Answers(t))
    BY InvTypes DEF Inv
  <1>i. Idle.at = "idle"
    BY DEF Idle
  <1>1. CASE GetDisplay(t)
    <2>1. op[t] = Idle /\ Continue(t, [at |-> "add_display"]) /\ UNCHANGED <<driverVars, recordVars, pending>>
      BY <1>1 DEF GetDisplay, Starts
    <2>2. op' \in [Threads -> Steps] /\ op'[t] = [at |-> "add_display"] /\ \A u \in Threads \ {t} : op'[u] = op[u]
      BY <1>0, <2>1, ContinueIs, NextSteps
    <2>3. op[t].at # "commit" /\ op'[t].at # "commit"
      <3>1. op[t].at = "idle"
        BY <1>i, <2>1
      <3>2. op'[t].at = "add_display"
        <4>1. op'[t] = [at |-> "add_display"]
          BY <2>2
        <4> QED BY <4>1
      <3>3. op'[t].at # "commit"
        BY <3>2, Zenon
      <3> QED BY <3>1, <3>3
    <2>4. DriverOK'
      BY <1>0, <2>1 DEF DriverOK
    <2> QED BY <1>0, <2>1, <2>2, <2>3, <2>4, OwnStepApart
  <1>2. CASE Initialize(t)
    <2>1. up' = TRUE /\ UNCHANGED <<ctxs, surfs, bound, calls, recordVars, op, pending>>
      BY <1>2 DEF Initialize
    <2> QED BY <1>0, <2>1 DEF Apart, DriverOK, Answers, GetCurrentContext
  <1>3. CASE Terminate(t)
    <2>1. /\ op[t] = Idle /\ Continue(t, [at |-> "terminated"]) /\ UNCHANGED <<bound, recordVars, pending>>
          /\ up' = FALSE /\ calls' = calls + 1
          /\ ctxs' = Destroyed(ctxs, "ctx", Contexts) /\ surfs' = Destroyed(surfs, "surf", Surfaces)
      BY <1>3 DEF Terminate, Starts
    <2>2. op' \in [Threads -> Steps] /\ op'[t] = [at |-> "terminated"] /\ \A u \in Threads \ {t} : op'[u] = op[u]
      BY <1>0, <2>1, ContinueIs, NextSteps
    <2>3. ctxs' \in [Contexts -> Uses] /\ surfs' \in [Surfaces -> Uses]
      BY <1>0, <2>1, HandlesKept DEF DriverOK
    <2>4. op[t].at # "commit" /\ op'[t].at # "commit"
      <3>1. op[t].at = "idle"
        BY <1>i, <2>1
      <3>2. op'[t] = [at |-> "terminated"]
        BY <2>2
      <3>3. op'[t].at # "commit"
        BY <3>2
      <3> QED BY <3>1, <3>3
    <2>5. DriverOK'
      <3>1. bound' \in [Threads -> Binding]
        BY <1>0, <2>1 DEF DriverOK
      <3>2. up' \in BOOLEAN
        BY <1>0, <2>1, Zenon DEF DriverOK
      <3>3. calls' \in Nat
        <4>1. calls \in Nat
          BY <1>0 DEF DriverOK
        <4>2. calls' = calls \/ calls' = calls + 1
          BY <2>1
        <4> QED BY <4>1, <4>2
      <3>4. ctxs' \in [Contexts -> Uses] /\ surfs' \in [Surfaces -> Uses]
        BY <1>0, <2>1, <2>3 DEF DriverOK
      <3> QED BY <3>1, <3>2, <3>3, <3>4 DEF DriverOK
    <2> QED BY <1>0, <2>1, <2>2, <2>4, <2>5, OwnStepApart
  <1>4. CASE ReleaseThread(t)
    <2>1. /\ op[t] = Idle /\ pending[t] = << >>
          /\ Bind(t, None) /\ Continue(t, [at |-> "commit", to |-> None]) /\ UNCHANGED <<recordVars, pending>>
      BY <1>4 DEF ReleaseThread, Starts
    <2>2. None \in Binding
      BY DEF None, Binding
    <2>3. /\ op' \in [Threads -> Steps] /\ op'[t] = [at |-> "commit", to |-> None]
          /\ \A u \in Threads \ {t} : op'[u] = op[u]
      BY <1>0, <2>1, <2>2, ContinueIs, NextSteps
    <2>4. DriverOK' /\ bound'[t] = None /\ \A u \in Threads \ {t} : bound'[u] = bound[u]
      BY <1>0, <2>1, <2>2, BindIs
    <2> QED BY <1>0, <2>1, <2>3, <2>4 DEF Apart, Answers, GetCurrentContext
  <1>5. ASSUME NEW s \in Surfaces, CreateSurface(t, s) PROVE Apart(t)
    <2>1. /\ op[t] = Idle /\ Continue(t, [at |-> "add_surface", surf |-> s])
          /\ surfs' = [surfs EXCEPT ![s] = "valid"] /\ calls' = calls + 1
          /\ UNCHANGED <<ctxs, bound, up, recordVars, pending>>
      BY <1>5 DEF CreateSurface, Starts
    <2>2. /\ op' \in [Threads -> Steps] /\ op'[t] = [at |-> "add_surface", surf |-> s]
          /\ \A u \in Threads \ {t} : op'[u] = op[u]
      BY <1>0, <2>1, ContinueIs, NextSteps
    <2>3. surfs' \in [Surfaces -> Uses]
      BY <1>0, <2>1 DEF DriverOK, Uses
    <2>4. op[t].at # "commit" /\ op'[t].at # "commit"
      <3>1. op[t].at = "idle"
        BY <1>i, <2>1
      <3>2. op'[t].at = "add_surface"
        <4>1. op'[t] = [at |-> "add_surface", surf |-> s]
          BY <2>2
        <4> QED BY <4>1
      <3>3. op'[t].at # "commit"
        BY <3>2, Zenon
      <3> QED BY <3>1, <3>3
    <2>5. DriverOK'
      <3>1. bound' \in [Threads -> Binding]
        BY <1>0, <2>1 DEF DriverOK
      <3>2. up' \in BOOLEAN
        BY <1>0, <2>1, Zenon DEF DriverOK
      <3>3. calls' \in Nat
        <4>1. calls \in Nat
          BY <1>0 DEF DriverOK
        <4>2. calls' = calls \/ calls' = calls + 1
          BY <2>1
        <4> QED BY <4>1, <4>2
      <3>4. ctxs' \in [Contexts -> Uses] /\ surfs' \in [Surfaces -> Uses]
        BY <1>0, <2>1, <2>3 DEF DriverOK
      <3> QED BY <3>1, <3>2, <3>3, <3>4 DEF DriverOK
    <2> QED BY <1>0, <2>1, <2>2, <2>4, <2>5, OwnStepApart
  <1>6. ASSUME NEW s \in Surfaces, DestroySurface(t, s) PROVE Apart(t)
    <2>1. surfs' = Destroyed(surfs, "surf", {s}) /\ UNCHANGED <<ctxs, bound, up, calls, recordVars, op, pending>>
      BY <1>6 DEF DestroySurface
    <2>2. surfs' \in [Surfaces -> Uses]
      BY <1>0, <2>1, HandlesKept DEF DriverOK
    <2> QED BY <1>0, <2>1, <2>2 DEF Apart, DriverOK, Answers, GetCurrentContext
  <1>7. ASSUME NEW c \in Contexts, DestroyContext(t, c) PROVE Apart(t)
    <2>1. /\ op[t] = Idle /\ Continue(t, [at |-> "destroyed", ctx |-> c])
          /\ ctxs' = Destroyed(ctxs, "ctx", {c}) /\ UNCHANGED <<surfs, bound, up, calls, recordVars, pending>>
      BY <1>7 DEF DestroyContext, Starts
    <2>2. /\ op' \in [Threads -> Steps] /\ op'[t] = [at |-> "destroyed", ctx |-> c]
          /\ \A u \in Threads \ {t} : op'[u] = op[u]
      BY <1>0, <2>1, ContinueIs, NextSteps
    <2>3. ctxs' \in [Contexts -> Uses]
      BY <1>0, <2>1, HandlesKept DEF DriverOK
    <2>4. op[t].at # "commit" /\ op'[t].at # "commit"
      <3>1. op[t].at = "idle"
        BY <1>i, <2>1
      <3>2. op'[t] = [at |-> "destroyed", ctx |-> c]
        BY <2>2
      <3>3. op'[t].at # "commit"
        BY <3>2
      <3> QED BY <3>1, <3>3
    <2>5. DriverOK'
      <3>1. bound' \in [Threads -> Binding]
        BY <1>0, <2>1 DEF DriverOK
      <3>2. up' \in BOOLEAN
        BY <1>0, <2>1, Zenon DEF DriverOK
      <3>3. calls' \in Nat
        <4>1. calls \in Nat
          BY <1>0 DEF DriverOK
        <4>2. calls' = calls \/ calls' = calls + 1
          BY <2>1
        <4> QED BY <4>1, <4>2
      <3>4. ctxs' \in [Contexts -> Uses] /\ surfs' \in [Surfaces -> Uses]
        BY <1>0, <2>1, <2>3 DEF DriverOK
      <3> QED BY <3>1, <3>2, <3>3, <3>4 DEF DriverOK
    <2> QED BY <1>0, <2>1, <2>2, <2>4, <2>5, OwnStepApart
  <1>8. ASSUME NEW c \in Contexts, NEW share \in Contexts \cup {NoCtx}, CreateContext(t, c, share) PROVE Apart(t)
    <2>1. /\ op[t] = Idle /\ ctxs' = [ctxs EXCEPT ![c] = "valid"] /\ calls' = calls + 1
          /\ IF share = NoCtx THEN UNCHANGED op ELSE Continue(t, [at |-> "share", ctx |-> c, with |-> share])
          /\ UNCHANGED <<surfs, bound, up, recordVars, pending>>
      BY <1>8 DEF CreateContext, Starts
    <2>2. /\ op' \in [Threads -> Steps] /\ op'[t].at # "commit"
          /\ \A u \in Threads \ {t} : op'[u] = op[u]
      <3>1. CASE share = NoCtx
        BY <1>0, <1>i, <2>1, <3>1
      <3>2. CASE share # NoCtx
        <4>1. share \in Contexts /\ Continue(t, [at |-> "share", ctx |-> c, with |-> share])
          BY <2>1, <3>2
        <4>2. /\ op' \in [Threads -> Steps] /\ op'[t] = [at |-> "share", ctx |-> c, with |-> share]
              /\ \A u \in Threads \ {t} : op'[u] = op[u]
          BY <1>0, <4>1, ContinueIs, NextSteps
        <4> QED BY <4>2
      <3> QED BY <3>1, <3>2
    <2>3. ctxs' \in [Contexts -> Uses]
      BY <1>0, <2>1 DEF DriverOK, Uses
    <2>4. op[t].at # "commit" /\ op'[t].at # "commit"
      <3>1. op[t].at = "idle"
        BY <1>i, <2>1
      <3>2. op'[t].at # "commit"
        BY <2>2
      <3> QED BY <3>1, <3>2
    <2>5. DriverOK'
      <3>1. bound' \in [Threads -> Binding]
        BY <1>0, <2>1 DEF DriverOK
      <3>2. up' \in BOOLEAN
        BY <1>0, <2>1, Zenon DEF DriverOK
      <3>3. calls' \in Nat
        <4>1. calls \in Nat
          BY <1>0 DEF DriverOK
        <4>2. calls' = calls \/ calls' = calls + 1
          BY <2>1
        <4> QED BY <4>1, <4>2
      <3>4. ctxs' \in [Contexts -> Uses] /\ surfs' \in [Surfaces -> Uses]
        BY <1>0, <2>1, <2>3 DEF DriverOK
      <3> QED BY <3>1, <3>2, <3>3, <3>4 DEF DriverOK
    <2> QED BY <1>0, <2>1, <2>2, <2>4, <2>5, OwnStepApart
  <1>9. ASSUME NEW b \in Bindings, MakeCurrent(t, b) PROVE Apart(t)
    <2>0. b \in Binding
      BY DEF Bindings, Binding, None
    <2>1. op[t] = Idle /\ UNCHANGED <<driverVars, recordVars>>
      BY <1>9 DEF MakeCurrent, Starts
    <2>2. \/ /\ SameContext(t, b) /\ pending' = [pending EXCEPT ![t] = Append(pending[t], b)]
             /\ Continue(t, [at |-> "commit", to |-> b])
          \/ Continue(t, [at |-> "ask", to |-> b]) /\ UNCHANGED pending
      BY <1>9 DEF MakeCurrent
    <2>3. CASE SameContext(t, b) /\ pending' = [pending EXCEPT ![t] = Append(pending[t], b)]
               /\ Continue(t, [at |-> "commit", to |-> b])
      <3>1. /\ op' \in [Threads -> Steps] /\ op'[t] = [at |-> "commit", to |-> b]
            /\ \A u \in Threads \ {t} : op'[u] = op[u]
        BY <1>0, <2>0, <2>3, ContinueIs, NextSteps
      <3>2. Sound => b.ctx = bound[t].ctx
        BY <1>0, <1>i, <2>1, <2>3 DEF Answers, SameContext, GetCurrentContext
      <3>3. pending[t] \in Seq(Binding) /\ pending'[t] = Append(pending[t], b)
        BY <1>0, <2>3
      <3>4. pending' \in [Threads -> Seq(Binding)] /\ \A u \in Threads \ {t} : pending'[u] = pending[u]
        BY <1>0, <2>0, <2>3
      <3>5. Sound => \A i \in 1 .. Len(pending'[t]) : pending'[t][i].ctx = bound[t].ctx
        <4>1. \A i \in 1 .. Len(pending'[t]) : pending'[t][i] = b \/ (i \in 1 .. Len(pending[t]) /\ pending'[t][i] = pending[t][i])
          BY <2>0, <3>3
        <4> QED BY <1>0, <3>2, <4>1 DEF Answers
      <3> QED BY <1>0, <2>1, <3>1, <3>2, <3>4, <3>5 DEF Apart, DriverOK, Answers
    <2>4. CASE Continue(t, [at |-> "ask", to |-> b]) /\ UNCHANGED pending
      <3>1. /\ op' \in [Threads -> Steps] /\ op'[t] = [at |-> "ask", to |-> b]
            /\ \A u \in Threads \ {t} : op'[u] = op[u]
        BY <1>0, <2>0, <2>4, ContinueIs, NextSteps
      <3> QED BY <1>0, <1>i, <2>1, <2>4, <3>1 DEF Apart, DriverOK, Answers, GetCurrentContext
    <2> QED BY <2>2, <2>3, <2>4
  <1> QED BY <1>1, <1>2, <1>3, <1>4, <1>5, <1>6, <1>7, <1>8, <1>9 DEF Call

LEMMA TalkApart ==
  ASSUME Inv, NEW t \in Threads, AddDisplay(t) \/ AddSurface(t) \/ AskDriver(t) \/ HandleMakeCurrent(t)
  PROVE  Apart(t)
  <1> USE DEF recordVars, driverVars
  <1>0. /\ DriverOK /\ op \in [Threads -> Steps] /\ pending \in [Threads -> Seq(Binding)]
        /\ entries \in Seq(SUBSET Surfaces) /\ (Sound => Answers(t))
    BY InvTypes DEF Inv
  <1>i. Idle.at = "idle"
    BY DEF Idle
  <1>c. Continue(t, Idle) =>
          op' \in [Threads -> Steps] /\ op'[t] = Idle /\ \A u \in Threads \ {t} : op'[u] = op[u]
    BY <1>0, ContinueIs, NextSteps
  <1>1. CASE AddDisplay(t)
    <2>1. /\ op[t].at = "add_display" /\ Continue(t, Idle) /\ entries' = Append(entries, {})
          /\ UNCHANGED <<driverVars, heap, states, current, pending, raced, chained>>
      BY <1>1 DEF AddDisplay
    <2>2. entries' \in Seq(SUBSET Surfaces)
      <3>1. {} \in SUBSET Surfaces
        OBVIOUS
      <3> QED BY <1>0, <2>1, <3>1, AppendIs
    <2> QED BY <1>0, <1>i, <1>c, <2>1, <2>2 DEF Apart, DriverOK, Answers, GetCurrentContext
  <1>2. CASE AddSurface(t)
    <2>1. /\ op[t].at = "add_surface" /\ Continue(t, Idle)
          /\ entries' = IF entries = << >> THEN entries ELSE [entries EXCEPT ![1] = entries[1] \cup {op[t].surf}]
          /\ UNCHANGED <<driverVars, heap, states, current, pending, raced, chained>>
      BY <1>2 DEF AddSurface
    <2>2. entries' \in Seq(SUBSET Surfaces)
      <3>1. op[t].surf \in Surfaces
        BY <1>0, <2>1, StepIs
      <3>2. CASE entries = << >>
        BY <1>0, <2>1, <3>2
      <3>3. CASE entries # << >>
        <4>1. 1 \in 1 .. Len(entries)
          BY <1>0, <3>3
        <4>2. entries[1] \in SUBSET Surfaces
          BY <1>0, <4>1
        <4> DEFINE x == entries[1] \cup {op[t].surf}
        <4>3. x \in SUBSET Surfaces
          BY <3>1, <4>2
        <4>4. entries' = [entries EXCEPT ![1] = x]
          BY <2>1, <3>3
        <4> HIDE DEF x
        <4> QED BY <1>0, <4>1, <4>3, <4>4, ExceptSeq
      <3> QED BY <3>2, <3>3
    <2> QED BY <1>0, <1>i, <1>c, <2>1, <2>2 DEF Apart, DriverOK, Answers, GetCurrentContext
  <1>3. CASE AskDriver(t)
    <2> DEFINE b == op[t].to
    <2>1. /\ op[t].at = "ask" /\ pending[t] = << >> /\ UNCHANGED <<recordVars, pending>>
          /\ \/ Bind(t, b) /\ Continue(t, [at |-> "commit", to |-> b])
             \/ Continue(t, Idle) /\ UNCHANGED driverVars
      BY <1>3 DEF AskDriver
    <2>2. b \in Binding
      BY <1>0, <2>1, StepIs
    <2>3. CASE Bind(t, b) /\ Continue(t, [at |-> "commit", to |-> b])
      <3> HIDE DEF b
      <3>1. /\ op' \in [Threads -> Steps] /\ op'[t] = [at |-> "commit", to |-> b]
            /\ \A u \in Threads \ {t} : op'[u] = op[u]
        BY <1>0, <2>2, <2>3, ContinueIs, NextSteps
      <3>2. DriverOK' /\ bound'[t] = b /\ \A u \in Threads \ {t} : bound'[u] = bound[u]
        BY <1>0, <2>2, <2>3, BindIs
      <3> QED BY <1>0, <2>1, <3>1, <3>2 DEF Apart, Answers
    <2>4. CASE Continue(t, Idle) /\ UNCHANGED driverVars
      BY <1>0, <1>i, <1>c, <2>1, <2>4 DEF Apart, DriverOK, Answers, GetCurrentContext
    <2> QED BY <2>1, <2>3, <2>4
  <1>4. CASE HandleMakeCurrent(t)
    <2> DEFINE b == Head(pending[t])
    <2>1. /\ pending[t] # << >> /\ UNCHANGED <<recordVars, op>>
          /\ pending' = [pending EXCEPT ![t] = Tail(pending[t])]
          /\ Bind(t, b) \/ UNCHANGED driverVars
      BY <1>4 DEF HandleMakeCurrent
    <2>2. /\ b \in Binding /\ b = pending[t][1] /\ 1 \in 1 .. Len(pending[t])
          /\ Tail(pending[t]) \in Seq(Binding) /\ Len(Tail(pending[t])) = Len(pending[t]) - 1
          /\ \A i \in 1 .. Len(Tail(pending[t])) : i + 1 \in 1 .. Len(pending[t]) /\ Tail(pending[t])[i] = pending[t][i + 1]
      <3>1. pending[t] \in Seq(Binding)
        BY <1>0
      <3> QED BY <2>1, <3>1
    <2>3. /\ pending' \in [Threads -> Seq(Binding)] /\ pending'[t] = Tail(pending[t])
          /\ \A u \in Threads \ {t} : pending'[u] = pending[u]
      BY <1>0, <2>1, <2>2
    <2>4. Sound => b.ctx = bound[t].ctx
      BY <1>0, <2>2 DEF Answers
    <2> HIDE DEF b
    <2>5. DriverOK' /\ (Sound => bound'[t].ctx = bound[t].ctx) /\ \A u \in Threads \ {t} : bound'[u] = bound[u]
      <3>1. CASE Bind(t, b)
        BY <1>0, <2>2, <2>4, <3>1, BindIs
      <3>2. CASE UNCHANGED driverVars
        BY <1>0, <3>2 DEF DriverOK
      <3> QED BY <2>1, <3>1, <3>2
    <2>6. Sound => \A i \in 1 .. Len(pending'[t]) : pending'[t][i].ctx = bound[t].ctx
      BY <1>0, <2>2, <2>3 DEF Answers
    <2> QED BY <1>0, <2>1, <2>3, <2>5, <2>6 DEF Apart, Answers, GetCurrentContext
  <1> QED BY <1>1, <1>2, <1>3, <1>4

(* A step of thread t that makes its call's record, with nothing else      *)
(* current than before.                                                    *)
LEMMA CarriedKeeps ==
  ASSUME Inv, NEW t \in Threads, op[t].at # "commit", Continue(t, Idle),
         UNCHANGED <<driverVars, current, pending, raced>>,
         entries' \in Seq(SUBSET Surfaces), chained' \in BOOLEAN, chained => chained',
         NEW all, ~chained' => all, Carried(heap, states, current, heap', states', all)
  PROVE  Inv'
  <1>0. /\ DriverOK /\ op \in [Threads -> Steps] /\ pending \in [Threads -> Seq(Binding)]
        /\ current \in Currents /\ raced \in BOOLEAN
    BY InvTypes
  <1>1. /\ World(heap', states')
        /\ all /\ Held(heap, states, current) =>
             /\ Held(heap', states', current)
             /\ \A u \in Threads : current[u] # 0 => heap'[current[u]].ctx = heap[current[u]].ctx
    BY DEF Carried
  <1>2. op' \in [Threads -> Steps] /\ op'[t] = Idle /\ \A u \in Threads \ {t} : op'[u] = op[u]
    BY <1>0, ContinueIs, NextSteps
  <1>3. TypeOK'
    <2>1. heap' \in Heaps /\ states' \in Seq(Addresses)
      BY <1>1 DEF World
    <2> QED BY <1>0, <1>2, <2>1 DEF TypeOK, driverVars, DriverOK, Uses, Heaps, Currents
  <1>4. Sound' => Sound /\ all
    BY DEF Sound
  <1>5. ASSUME Sound', NEW u \in Threads PROVE Answers(u)'
    <2>1. GetCurrentContext(u)' = GetCurrentContext(u)
      BY <1>1, <1>4, <1>5 DEF GetCurrentContext, Inv
    <2>2. op[u].at = "commit" => op'[u] = op[u] /\ u # t
      BY <1>2
    <2>3. op'[u].at = "commit" => op'[u] = op[u] /\ u # t
      BY <1>2 DEF Idle
    <2> QED BY <1>4, <1>5, <2>1, <2>2, <2>3 DEF Inv, Answers, driverVars
  <1>6. World(heap, states)'
    BY <1>1
  <1>7. Sound' => Held(heap', states', current')
    BY <1>1, <1>4 DEF Inv
  <1> QED BY <1>3, <1>5, <1>6, <1>7 DEF Inv

LEMMA KeepsCarries ==
  ASSUME NEW h, NEW list, NEW now \in Currents, World(h, list), NEW h2 \in Heaps, Keeps(h2, h)
  PROVE  Carried(h, list, now, h2, list, TRUE)
  <1>1. list \in Seq(Addresses) /\ Range(list) \subseteq Addresses
    BY RangeIs DEF World
  <1>3. World(h2, list)
    BY <1>1, WorldShrinks DEF Keeps
  <1>4. \A t \in Threads : now[t] # 0 => h2[now[t]].ctx = h[now[t]].ctx
    BY CurrentIs DEF Keeps
  <1>5. Held(h, list, now) => Held(h2, list, now)
    BY <1>1 DEF Held, Marked, Keeps
  <1> QED BY <1>3, <1>4, <1>5 DEF Carried

(* LinkShare: both states are there, and all the others as before.         *)
LEMMA TwoUnused ==
  ASSUME NEW h, Cardinality(Unused(h)) >= 2, NEW x
  PROVE  Unused(h) \ {x} # {}
  <1> SUFFICES ASSUME Unused(h) \ {x} = {} PROVE FALSE
    OBVIOUS
  <1>1. Unused(h) \subseteq {x} /\ IsFiniteSet({x}) /\ Cardinality({x}) = 1
    BY FS_Singleton
  <1>2. Cardinality(Unused(h)) <= 1 /\ Cardinality(Unused(h)) \in Nat
    BY <1>1, FS_Subset, FS_CardinalityType
  <1> QED BY <1>2

LEMMA LinkShareKeeps ==
  ASSUME Inv, NEW t \in Threads, LinkShare(t)
  PROVE  Inv'
  <1> DEFINE w == [heap |-> heap, list |-> states, at |-> 0]
             c == op[t].ctx
             d == op[t].with
             new == GetOrCreate(w, c)
             parent == GetOrCreate(new, d)
             h1 == [parent.heap EXCEPT ![new.at].share = parent.at]
             linked == [h1 EXCEPT ![parent.at].sharing = (h1[parent.at].sharing + 1) % CountMod]
  <1>0. /\ op \in [Threads -> Steps] /\ current \in Currents /\ entries \in Seq(SUBSET Surfaces)
        /\ chained \in BOOLEAN /\ World(heap, states)
    BY InvTypes DEF Inv
  <1>1. /\ op[t].at = "share" /\ Cardinality(Unused(heap)) >= 2 /\ Continue(t, Idle)
        /\ UNCHANGED <<driverVars, current, entries, pending, raced, chained>>
    BY DEF LinkShare
  <1>2. heap' = Swept(linked, parent.list, current) /\ states' = parent.list
    BY DEF LinkShare
  <1>3. c \in Contexts /\ d \in Contexts
    BY <1>0, <1>1, StepIs
  <1>4. w = [heap |-> w.heap, list |-> w.list, at |-> w.at] /\ w.heap = heap /\ w.list = states
    OBVIOUS
  <1> HIDE DEF w, c, d
  <1>5. Got(w, c, current, new)
    <2>1. Unused(w.heap) # {}
      BY <1>1, <1>4, TwoUnused
    <2> QED BY <1>0, <1>3, <1>4, <2>1, GetOrCreateIs
  <1> HIDE DEF new
  <1>6. /\ new = [heap |-> new.heap, list |-> new.list, at |-> new.at]
        /\ Carried(heap, states, current, new.heap, new.list, TRUE)
        /\ new.at \in Range(new.list)
        /\ \A x \in Addresses \ {new.at} : new.heap[x] = heap[x]
    BY <1>4, <1>5 DEF Got
  <1>7. Got(new, d, current, parent)
    <2>1. World(new.heap, new.list)
      BY <1>6 DEF Carried
    <2>2. Unused(new.heap) # {}
      <3>1. PICK x \in Unused(heap) : x # new.at
        BY <1>1, TwoUnused
      <3>2. x \in Unused(new.heap)
        BY <1>6, <3>1 DEF Unused
      <3> QED BY <3>2
    <2> QED BY <1>0, <1>3, <1>6, <2>1, <2>2, GetOrCreateIs
  <1> HIDE DEF parent
  <1>8. /\ Carried(new.heap, new.list, current, parent.heap, parent.list, TRUE)
        /\ parent.at \in Range(parent.list)
    BY <1>7 DEF Got
  <1>9. Carried(parent.heap, parent.list, current, linked, parent.list, TRUE)
    <2>1. World(parent.heap, parent.list)
      BY <1>8 DEF Carried
    <2>2. parent.heap \in Heaps /\ parent.at \in Addresses /\ new.at \in Addresses
      BY <1>6, <1>8, <2>1, RangeIs DEF World, Carried
    <2>3. h1 \in Heaps /\ Keeps(h1, parent.heap)
      <3> HIDE DEF h1
      <3>1. h1 = [parent.heap EXCEPT ![new.at].share = parent.at]
        BY DEF h1
      <3> QED BY <2>2, <3>1 DEF Heaps, StateSet, Keeps
    <2> DEFINE n == (h1[parent.at].sharing + 1) % CountMod
    <2>4. n \in 0 .. CountMod - 1
      <3>1. h1[parent.at].sharing \in Nat
        <4> HIDE DEF h1
        <4>1. h1[parent.at].sharing \in 0 .. CountMod - 1
          BY <2>2, <2>3 DEF Heaps, StateSet
        <4> QED BY <4>1
      <3>2. \A m \in Nat, k \in Nat : k > 0 => m % k \in 0 .. k - 1
        OBVIOUS
      <3>3. CountMod \in Nat /\ CountMod > 0
        BY ContextsAssumption
      <3> HIDE DEF h1
      <3>4. h1[parent.at].sharing + 1 \in Nat
        BY <3>1
      <3> QED BY <3>2, <3>3, <3>4
    <2> HIDE DEF n, h1
    <2>5. linked \in Heaps /\ Keeps(linked, h1)
      <3>1. [h1 EXCEPT ![parent.at].sharing = n] \in Heaps /\ Keeps([h1 EXCEPT ![parent.at].sharing = n], h1)
        BY <2>2, <2>3, <2>4, SharingIs
      <3> QED BY <3>1 DEF n
    <2> HIDE DEF linked
    <2>6. Keeps(linked, parent.heap)
      BY <2>3, <2>5 DEF Keeps
    <2> QED BY <1>0, <2>1, <2>5, <2>6, KeepsCarries
  <1> HIDE DEF linked
  <1>10. Carried(linked, parent.list, current, heap', states', TRUE)
    <2>1. World(linked, parent.list)
      BY <1>9 DEF Carried
    <2> QED BY <1>0, <1>2, <2>1, SweptCarries
  <1>11. Carried(heap, states, current, heap', states', TRUE)
    BY <1>6, <1>8, <1>9, <1>10 DEF Carried
  <1>12. entries' \in Seq(SUBSET Surfaces) /\ chained' \in BOOLEAN /\ (chained => chained')
    BY <1>0, <1>1
  <1>13. op[t].at # "commit"
    BY <1>1
  <1>14. UNCHANGED <<driverVars, current, pending, raced>>
    BY <1>1
  <1> QED BY <1>1, <1>11, <1>12, <1>13, <1>14, CarriedKeeps

(* ForgetContext: the state is unmarked, so not current, or marked for     *)
(* later.                                                                  *)
LEMMA ForgetContextKeeps ==
  ASSUME Inv, NEW t \in Threads, ForgetContext(t)
  PROVE  Inv'
  <1> DEFINE i == Find(heap, states, op[t].ctx)
             a == states[i]
             w == [heap |-> heap, list |-> states]
             left == DestroyAll(w, <<a>>)
  <1>0. /\ current \in Currents /\ entries \in Seq(SUBSET Surfaces)
        /\ chained \in BOOLEAN /\ World(heap, states)
        /\ heap \in Heaps /\ states \in Seq(Addresses)
    BY InvTypes DEF Inv
  <1>1. /\ op[t].at = "destroyed" /\ Continue(t, Idle)
        /\ UNCHANGED <<driverVars, current, entries, pending, raced>>
    BY DEF ForgetContext
  <1>2. /\ i = 0 => UNCHANGED <<heap, states, chained>>
        /\ i # 0 /\ ~heap[a].active =>
             /\ heap' = Swept(left.heap, left.list, current)
             /\ states' = left.list /\ chained' = (chained \/ left.chain)
        /\ i # 0 /\ heap[a].active =>
             /\ heap' = [heap EXCEPT ![a].destroyCtx = TRUE]
             /\ UNCHANGED <<states, chained>>
    BY DEF ForgetContext, MayDelete
  <1>3. i # 0 => i \in 1 .. Len(states)
    BY <1>0, FindIs
  <1>4. /\ entries' \in Seq(SUBSET Surfaces) /\ op[t].at # "commit"
        /\ UNCHANGED <<driverVars, current, pending, raced>>
    BY <1>0, <1>1
  <1> HIDE DEF i
  <1>5. CASE i = 0
    <2>1. UNCHANGED <<heap, states, chained>>
      BY <1>2, <1>5
    <2>2. Carried(heap, states, current, heap', states', TRUE)
      BY <1>0, <2>1 DEF Carried
    <2> QED BY <1>0, <1>1, <1>4, <2>1, <2>2, CarriedKeeps
  <1>6. CASE i # 0 /\ ~heap[a].active
    <2>1. a \in Addresses /\ a \in Range(states)
      BY <1>0, <1>3, <1>6, RangeIs
    <2> HIDE DEF a
    <2>2. <<a>> \in Seq(Addresses) /\ Range(<<a>>) = {a}
      BY <2>1 DEF Range
    <2>3. w.heap = heap /\ w.list = states
      OBVIOUS
    <2> HIDE DEF w
    <2>4. Removed(heap, states, <<a>>, left)
      BY <1>0, <2>2, <2>3, DestroyAllIs
    <2> HIDE DEF left
    <2>5. Carried(heap, states, current, left.heap, left.list, ~left.chain)
      <3>1. \A x \in Range(<<a>>) : ~heap[x].active
        BY <1>6, <2>2
      <3> QED BY <1>0, <2>2, <2>4, <3>1, DestroyAllCarries
    <2>6. Carried(left.heap, left.list, current, heap', states', TRUE)
      <3>1. World(left.heap, left.list)
        BY <2>5 DEF Carried
      <3> QED BY <1>0, <1>2, <1>6, <3>1, SweptCarries
    <2>7. Carried(heap, states, current, heap', states', ~left.chain)
      BY <2>5, <2>6 DEF Carried
    <2>8. left.chain \in BOOLEAN /\ chained' = (chained \/ left.chain)
      BY <1>2, <1>6, <2>4 DEF Removed
    <2>9. chained' \in BOOLEAN /\ (chained => chained') /\ (~chained' => ~left.chain)
      BY <1>0, <2>8
    <2> QED BY <1>1, <1>4, <2>7, <2>9, CarriedKeeps
  <1>7. CASE i # 0 /\ heap[a].active
    <2>1. a \in Addresses
      BY <1>0, <1>3, <1>7
    <2> HIDE DEF a
    <2>2. heap' = [heap EXCEPT ![a].destroyCtx = TRUE] /\ UNCHANGED <<states, chained>>
      BY <1>2, <1>7
    <2>3. heap' \in Heaps /\ Keeps(heap', heap)
      BY <1>0, <2>1, <2>2 DEF Heaps, StateSet, Keeps
    <2>4. Carried(heap, states, current, heap', states, TRUE)
      BY <1>0, <2>3, KeepsCarries
    <2>5. Carried(heap, states, current, heap', states', TRUE)
      BY <2>2, <2>4
    <2> QED BY <1>0, <1>1, <1>4, <2>2, <2>5, CarriedKeeps
  <1> QED BY <1>5, <1>6, <1>7

LEMMA DpyIs ==
  ASSUME NEW h \in Heaps, NEW a \in Addresses
  PROVE  /\ [h EXCEPT ![a].destroyDpy = TRUE] \in Heaps
         /\ Keeps([h EXCEPT ![a].destroyDpy = TRUE], h)
  BY DEF Heaps, StateSet, Keeps

(* ForgetDisplay: the unmarked states go, the thread's own is marked.      *)
LEMMA ForgetDisplayKeeps ==
  ASSUME Inv, NEW t \in Threads, ForgetDisplay(t)
  PROVE  Inv'
  <1> DEFINE w == [heap |-> heap, list |-> states]
             busy == {a \in Live : ~MayDelete(heap[a])}
             leaving == Without(states, busy)
             left == DestroyAll(w, leaving)
             h == IF current[t] = 0 THEN left.heap
                  ELSE [left.heap EXCEPT ![current[t]].destroyDpy = TRUE]
  <1>0. /\ current \in Currents /\ entries \in Seq(SUBSET Surfaces)
        /\ chained \in BOOLEAN /\ World(heap, states)
        /\ heap \in Heaps /\ states \in Seq(Addresses)
    BY InvTypes DEF Inv
  <1>1. /\ op[t].at = "terminated" /\ Continue(t, Idle)
        /\ UNCHANGED <<driverVars, current, pending, raced>>
    BY DEF ForgetDisplay
  <1>2. /\ states = << >> => UNCHANGED <<heap, states, chained, entries>>
        /\ states # << >> =>
             /\ heap' = Swept(h, left.list, current) /\ states' = left.list
             /\ chained' = (chained \/ left.chain)
             /\ entries' = IF current[t] = 0 /\ entries # << >> THEN Tail(entries) ELSE entries
    BY DEF ForgetDisplay
  <1>3. op[t].at # "commit"
    BY <1>1
  <1>4. CASE states = << >>
    <2>1. UNCHANGED <<heap, states, chained, entries>>
      BY <1>2, <1>4
    <2>2. Carried(heap, states, current, heap', states', TRUE)
      BY <1>0, <2>1 DEF Carried
    <2> QED BY <1>0, <1>1, <1>3, <2>1, <2>2, CarriedKeeps
  <1>5. CASE states # << >>
    <2>1. leaving \in Seq(Addresses) /\ Range(leaving) = Live \ busy
      <3> HIDE DEF busy
      <3> QED BY <1>0, WithoutIs DEF Live
    <2>2. \A a \in Range(leaving) : ~heap[a].active
      BY <2>1 DEF MayDelete
    <2>3. w.heap = heap /\ w.list = states
      OBVIOUS
    <2> HIDE DEF w, leaving
    <2>4. Removed(heap, states, leaving, left)
      BY <1>0, <2>1, <2>3, DestroyAllIs
    <2> HIDE DEF left
    <2>5. Carried(heap, states, current, left.heap, left.list, ~left.chain)
      BY <1>0, <2>1, <2>2, <2>4, DestroyAllCarries
    <2>6. World(left.heap, left.list) /\ left.heap \in Heaps
      BY <2>5 DEF Carried, World
    <2>7. h \in Heaps /\ Keeps(h, left.heap)
      <3>1. CASE current[t] = 0
        BY <2>6, <3>1 DEF Keeps
      <3>2. CASE current[t] # 0
        <4>1. current[t] \in Addresses
          BY <1>0, <3>2, CurrentIs
        <4>2. h = [left.heap EXCEPT ![current[t]].destroyDpy = TRUE]
          BY <3>2
        <4> HIDE DEF h
        <4> QED BY <2>6, <4>1, <4>2, DpyIs
      <3> QED BY <3>1, <3>2
    <2> HIDE DEF h
    <2>8. Carried(left.heap, left.list, current, h, left.list, TRUE)
      BY <1>0, <2>6, <2>7, KeepsCarries
    <2>9. Carried(h, left.list, current, heap', states', TRUE)
      <3>1. World(h, left.list)
        BY <2>8 DEF Carried
      <3> QED BY <1>0, <1>2, <1>5, <3>1, SweptCarries
    <2>10. Carried(heap, states, current, heap', states', ~left.chain)
      BY <2>5, <2>8, <2>9 DEF Carried
    <2>11. left.chain \in BOOLEAN /\ chained' = (chained \/ left.chain)
      BY <1>2, <1>5, <2>4 DEF Removed
    <2>12. chained' \in BOOLEAN /\ (chained => chained') /\ (~chained' => ~left.chain)
      BY <1>0, <2>11
    <2>13. entries' \in Seq(SUBSET Surfaces)
      BY <1>0, <1>2, <1>5
    <2> QED BY <1>1, <1>3, <2>10, <2>12, <2>13, CarriedKeeps
  <1> QED BY <1>4, <1>5

-----------------------------------------------------------------------------
(* Commit: the state of the new context is found or made, and marked; the  *)
(* one that is left loses its mark and goes if it was only waiting for it. *)

(* What the first half leaves, in set.                                     *)
Entered(b, set) ==
  /\ World(set.heap, set.list)
  /\ set.at \in Range(set.list) \cup {0}
  /\ set.at = 0 <=> b.ctx = NoCtx
  /\ set.at # 0 => set.heap[set.at].ctx = b.ctx /\ set.heap[set.at].active
  /\ Held(heap, states, current) =>
       /\ \A u \in Threads : current[u] # 0 => set.heap[current[u]].ctx = heap[current[u]].ctx
       /\ \A a \in Range(set.list) \ {set.at} : set.heap[a].active <=> \E u \in Threads : current[u] = a
       /\ Listed(set.list, current)

LEMMA ActivateIs ==
  ASSUME NEW h \in Heaps, NEW a \in Addresses
  PROVE  /\ [h EXCEPT ![a].active = TRUE] \in Heaps
         /\ [h EXCEPT ![a].active = TRUE][a].active
         /\ \A x \in Addresses : [h EXCEPT ![a].active = TRUE][x].ctx = h[x].ctx
         /\ \A x \in Addresses \ {a} : [h EXCEPT ![a].active = TRUE][x].active = h[x].active
  <1> DEFINE m == [h EXCEPT ![a].active = TRUE]
  <1>1. \A x \in Addresses \ {a} : m[x] = h[x]
    BY DEF Heaps
  <1>2. h[a] \in StateSet /\ m[a] = [h[a] EXCEPT !.active = TRUE]
    BY DEF Heaps
  <1>3. m = [x \in Addresses |-> m[x]]
    BY DEF Heaps
  <1> HIDE DEF m
  <1>4. m[a] \in StateSet /\ m[a].ctx = h[a].ctx /\ m[a].active
    BY <1>2 DEF StateSet
  <1>5. \A x \in Addresses : m[x] \in StateSet
    BY <1>1, <1>4 DEF Heaps
  <1>6. m \in Heaps
    BY <1>3, <1>5 DEF Heaps
  <1>7. m \in Heaps /\ m[a].active /\ (\A x \in Addresses : m[x].ctx = h[x].ctx)
        /\ (\A x \in Addresses \ {a} : m[x].active = h[x].active)
    BY <1>1, <1>4, <1>6
  <1> QED BY <1>7 DEF m

LEMMA DeactivateIs ==
  ASSUME NEW h \in Heaps, NEW a \in Addresses
  PROVE  /\ Deactivated(h, a) \in Heaps /\ ~Deactivated(h, a)[a].active
         /\ \A x \in Addresses : Deactivated(h, a)[x].ctx = h[x].ctx
         /\ \A x \in Addresses \ {a} : Deactivated(h, a)[x].active = h[x].active
  <1> DEFINE m == [h EXCEPT ![a].active = FALSE]
  <1>1. \A x \in Addresses \ {a} : m[x] = h[x]
    BY DEF Heaps
  <1>2. h[a] \in StateSet /\ m[a] = [h[a] EXCEPT !.active = FALSE]
    BY DEF Heaps
  <1>3. m = [x \in Addresses |-> m[x]]
    BY DEF Heaps
  <1> HIDE DEF m
  <1>4. m[a] \in StateSet /\ m[a].ctx = h[a].ctx /\ ~m[a].active
    BY <1>2 DEF StateSet
  <1>5. \A x \in Addresses : m[x] \in StateSet
    BY <1>1, <1>4 DEF Heaps
  <1>6. m \in Heaps
    BY <1>3, <1>5 DEF Heaps
  <1>7. m \in Heaps /\ ~m[a].active /\ (\A x \in Addresses : m[x].ctx = h[x].ctx)
        /\ (\A x \in Addresses \ {a} : m[x].active = h[x].active)
    BY <1>1, <1>4, <1>6
  <1> QED BY <1>7 DEF m, Deactivated

LEMMA EnteredIs ==
  ASSUME Inv, NEW b \in Binding, Unused(heap) # {}
  PROVE  LET w   == [heap |-> heap, list |-> states, at |-> 0]
             got == IF b.ctx = NoCtx THEN w ELSE GetOrCreate(w, b.ctx)
             set == IF b.ctx = NoCtx THEN got
                    ELSE [got EXCEPT !.heap[got.at].surf = b.surf, !.heap[got.at].active = TRUE]
         IN  Entered(b, set)
  <1> DEFINE w == [heap |-> heap, list |-> states, at |-> 0]
             got == IF b.ctx = NoCtx THEN w ELSE GetOrCreate(w, b.ctx)
             set == IF b.ctx = NoCtx THEN got
                    ELSE [got EXCEPT !.heap[got.at].surf = b.surf, !.heap[got.at].active = TRUE]
  <1>0. /\ current \in Currents /\ World(heap, states)
        /\ heap \in Heaps /\ states \in Seq(Addresses) /\ 0 \notin Addresses
    BY InvTypes DEF Inv, Addresses
  <1>1. CASE b.ctx = NoCtx
    <2>1. set.heap = heap /\ set.list = states /\ set.at = 0
      BY <1>1
    <2> HIDE DEF set
    <2>2. Entered(b, set)
      BY <1>0, <1>1, <2>1 DEF Entered, Held, Marked
    <2> QED BY <2>2 DEF set
  <1>2. CASE b.ctx # NoCtx
    <2> DEFINE g == GetOrCreate(w, b.ctx)
               x == g.at
               h1 == [g.heap EXCEPT ![x].surf = b.surf]
               h2 == [h1 EXCEPT ![x].active = TRUE]
    <2>1. b.ctx \in Contexts /\ b.surf \in Surfaces \cup {NoSurf}
      BY <1>2 DEF Binding
    <2>2. w = [heap |-> w.heap, list |-> w.list, at |-> w.at] /\ w.heap = heap /\ w.list = states
      OBVIOUS
    <2>3. got = g /\ set = [got EXCEPT !.heap[got.at].surf = b.surf, !.heap[got.at].active = TRUE]
      BY <1>2
    <2> HIDE DEF w, got, set
    <2>4. Got(w, b.ctx, current, g)
      BY <1>0, <2>1, <2>2, GetOrCreateIs
    <2> HIDE DEF g
    <2>5. /\ g = [heap |-> g.heap, list |-> g.list, at |-> x]
          /\ Carried(heap, states, current, g.heap, g.list, TRUE)
          /\ x \in Range(g.list) /\ g.heap[x].ctx = b.ctx
          /\ World(g.heap, g.list)
      BY <2>2, <2>4 DEF Got, Carried
    <2> HIDE DEF x
    <2>6. x \in Addresses /\ g.heap \in Heaps /\ g.list \in Seq(Addresses) /\ Range(g.list) \subseteq Addresses
      BY <2>5, RangeIs DEF World
    <2>7. set.heap = h2 /\ set.list = g.list /\ set.at = x
      BY <2>3, <2>5
    <2>8. /\ h2 \in Heaps /\ h2[x].active
          /\ \A y \in Addresses : h2[y].ctx = g.heap[y].ctx
          /\ \A y \in Addresses \ {x} : h2[y].active = g.heap[y].active
      <3>1. h1 \in Heaps /\ \A y \in Addresses : h1[y].ctx = g.heap[y].ctx /\ h1[y].active = g.heap[y].active
        <4>1. h1 \in Heaps
          BY <2>1, <2>6 DEF Heaps, StateSet
        <4>2. \A y \in Addresses : h1[y].ctx = g.heap[y].ctx
          BY <2>1, <2>6 DEF Heaps, StateSet
        <4>3. \A y \in Addresses : h1[y].active = g.heap[y].active
          BY <2>1, <2>6 DEF Heaps, StateSet
        <4> QED BY <4>1, <4>2, <4>3
      <3> HIDE DEF h1
      <3>2. /\ h2 \in Heaps /\ h2[x].active
            /\ \A y \in Addresses : h2[y].ctx = h1[y].ctx
            /\ \A y \in Addresses \ {x} : h2[y].active = h1[y].active
        BY <2>6, <3>1, ActivateIs
      <3> QED BY <3>1, <3>2
    <2> HIDE DEF h2
    <2>9. World(h2, g.list)
      <3>1. \A a \in Range(g.list) : h2[a].ctx = g.heap[a].ctx
        BY <2>6, <2>8
      <3> QED BY <2>5, <2>6, <2>8, <3>1, WorldShrinks
    <2>10. Held(heap, states, current) =>
             \A u \in Threads : current[u] # 0 => h2[current[u]].ctx = heap[current[u]].ctx
      <3>1. Held(heap, states, current) =>
              \A u \in Threads : current[u] # 0 => g.heap[current[u]].ctx = heap[current[u]].ctx
        BY <2>5 DEF Carried
      <3> QED BY <1>0, <2>8, <3>1, CurrentIs
    <2>11. Held(heap, states, current) =>
             \A a \in Range(g.list) \ {x} : h2[a].active <=> \E u \in Threads : current[u] = a
      <3>1. Held(heap, states, current) =>
              \A a \in Range(g.list) : g.heap[a].active <=> \E u \in Threads : current[u] = a
        BY <2>5 DEF Carried, Held, Marked
      <3> QED BY <2>6, <2>8, <3>1
    <2>12. Held(heap, states, current) => Listed(g.list, current)
      BY <2>5 DEF Carried, Held
    <2>13. Entered(b, set)
      BY <1>0, <1>2, <2>5, <2>6, <2>7, <2>8, <2>9, <2>10, <2>11, <2>12 DEF Entered
    <2> QED BY <2>13 DEF set, got, w
  <1> QED BY <1>1, <1>2

(* The second half, with set left by the first: what is current now, and   *)
(* the record, fit.                                                        *)
LEMMA CommitEnds ==
  ASSUME Inv, NEW t \in Threads, op[t].at = "commit", Continue(t, Idle),
         UNCHANGED <<driverVars, entries, pending>>,
         raced' \in BOOLEAN, chained' \in BOOLEAN, raced => raced', chained => chained',
         NEW set, Entered(op[t].to, set), current' = [current EXCEPT ![t] = set.at],
         NEW h, h \in Heaps, \A x \in Addresses : h[x].ctx = set.heap[x].ctx,
         ~raced' /\ Held(heap, states, current) => Marked(h, set.list, current'),
         NEW all, ~chained' => all, Carried(h, set.list, current', heap', states', all)
  PROVE  Inv'
  <1> DEFINE now == current'
  <1>0. /\ DriverOK /\ op \in [Threads -> Steps] /\ pending \in [Threads -> Seq(Binding)]
        /\ current \in Currents /\ entries \in Seq(SUBSET Surfaces)
    BY InvTypes
  <1>1. /\ World(set.heap, set.list) /\ set.at \in Range(set.list) \cup {0}
        /\ set.list \in Seq(Addresses) /\ Range(set.list) \subseteq Addresses
    BY RangeIs DEF Entered, World
  <1>2. /\ current' \in Currents /\ current'[t] = set.at
        /\ \A u \in Threads \ {t} : current'[u] = current[u]
    BY <1>0, <1>1 DEF Currents
  <1>3. /\ World(heap', states')
        /\ all /\ Held(h, set.list, current') =>
             /\ Held(heap', states', current')
             /\ \A u \in Threads : current'[u] # 0 => heap'[current'[u]].ctx = h[current'[u]].ctx
    BY DEF Carried
  <1>4. op' \in [Threads -> Steps] /\ op'[t] = Idle /\ \A u \in Threads \ {t} : op'[u] = op[u]
    BY <1>0, ContinueIs, NextSteps
  <1>5. TypeOK'
    <2>1. heap' \in Heaps /\ states' \in Seq(Addresses)
      BY <1>3 DEF World
    <2> QED BY <1>0, <1>2, <1>4, <2>1 DEF TypeOK, driverVars, DriverOK, Uses, Heaps, Currents
  <1>s. ASSUME Sound'
        PROVE  /\ Sound /\ Held(heap, states, current)
               /\ Held(heap', states', current')
               /\ \A u \in Threads : current'[u] # 0 => heap'[current'[u]].ctx = h[current'[u]].ctx
    <2>1. Sound /\ all /\ ~raced' /\ Held(heap, states, current)
      BY <1>s DEF Sound, Inv
    <2>2. Listed(set.list, current)
      BY <2>1 DEF Entered
    <2>3. Listed(set.list, current')
      BY <1>1, <1>2, <2>2 DEF Listed
    <2>4. Held(h, set.list, current')
      BY <2>1, <2>3 DEF Held
    <2> QED BY <1>3, <2>1, <2>4
  <1>6. ASSUME Sound', NEW u \in Threads PROVE Answers(u)'
    <2>1. CASE u = t
      <3>1. /\ bound[t].ctx = op[t].to.ctx
            /\ \A i \in 1 .. Len(pending[t]) : pending[t][i].ctx = bound[t].ctx
        BY <1>s, <1>6 DEF Inv, Answers
      <3>2. GetCurrentContext(t)' = op[t].to.ctx
        <4>1. set.at = 0 <=> op[t].to.ctx = NoCtx
          BY DEF Entered
        <4>2. set.at # 0 => set.at \in Addresses /\ set.heap[set.at].ctx = op[t].to.ctx
          BY <1>1 DEF Entered
        <4>3. set.at # 0 => heap'[set.at].ctx = op[t].to.ctx
          BY <1>2, <1>s, <1>6, <4>2
        <4> QED BY <1>2, <4>1, <4>3 DEF GetCurrentContext
      <3> QED BY <1>4, <2>1, <3>1, <3>2 DEF Answers, Idle, driverVars
    <2>2. CASE u # t
      <3>1. op'[u] = op[u] /\ current'[u] = current[u]
        BY <1>2, <1>4, <2>2
      <3>2. GetCurrentContext(u)' = GetCurrentContext(u)
        <4>1. current[u] # 0 => current[u] \in Addresses /\ set.heap[current[u]].ctx = heap[current[u]].ctx
          BY <1>0, <1>s, <1>6, CurrentIs DEF Entered
        <4>2. current[u] # 0 => heap'[current[u]].ctx = heap[current[u]].ctx
          BY <1>s, <1>6, <3>1, <4>1
        <4> QED BY <3>1, <4>2 DEF GetCurrentContext
      <3> QED BY <1>s, <1>6, <3>1, <3>2 DEF Inv, Answers, driverVars
    <2> QED BY <2>1, <2>2
  <1>7. World(heap, states)'
    BY <1>3
  <1>8. Sound' => Held(heap', states', current')
    BY <1>s
  <1> QED BY <1>5, <1>6, <1>7, <1>8 DEF Inv

LEMMA CommitKeeps ==
  ASSUME Inv, NEW t \in Threads, Commit(t)
  PROVE  Inv'
  <1> DEFINE b    == op[t].to
             w    == [heap |-> heap, list |-> states, at |-> 0]
             got  == IF b.ctx = NoCtx THEN w ELSE GetOrCreate(w, b.ctx)
             set  == IF b.ctx = NoCtx THEN got
                     ELSE [got EXCEPT !.heap[got.at].surf = b.surf, !.heap[got.at].active = TRUE]
             old  == current[t]
             rest == [set EXCEPT !.heap = Deactivated(set.heap, old)]
             leaving == IF heap[old].destroyDpy \/ heap[old].destroyCtx THEN <<old>> ELSE << >>
             left == DestroyAll(rest, leaving)
  <1>0. /\ op \in [Threads -> Steps] /\ current \in Currents /\ raced \in BOOLEAN /\ chained \in BOOLEAN
    BY InvTypes
  <1>1. /\ op[t].at = "commit" /\ Unused(heap) # {} /\ Continue(t, Idle)
        /\ UNCHANGED <<driverVars, entries, pending>>
    BY DEF Commit
  <1>2. /\ current' = [current EXCEPT ![t] = set.at]
        /\ old \in {0, set.at} =>
             heap' = Swept(set.heap, set.list, current') /\ states' = set.list /\ UNCHANGED <<raced, chained>>
        /\ old \notin {0, set.at} =>
             /\ heap' = Swept(left.heap, left.list, current') /\ states' = left.list
             /\ chained' = (chained \/ left.chain)
             /\ raced' = (raced \/ \E u \in Threads \ {t} : current[u] = old)
    BY DEF Commit
  <1>3. b \in Binding
    BY <1>0, <1>1, StepIs
  <1>4. Entered(b, set)
    BY <1>1, <1>3, EnteredIs
  <1>s. old \notin {0, set.at} => rest.heap = Deactivated(set.heap, old) /\ rest.list = set.list
    <2>1. CASE b.ctx = NoCtx
      <3>1. set = w
        BY <2>1
      <3> QED BY <3>1
    <2>2. CASE b.ctx # NoCtx
      <3>0. World(w.heap, w.list) /\ w = [heap |-> w.heap, list |-> w.list, at |-> w.at]
        BY DEF Inv
      <3>1. Got(w, b.ctx, current, got)
        <4>1. b.ctx \in Contexts /\ got = GetOrCreate(w, b.ctx) /\ Unused(w.heap) # {}
          BY <1>1, <1>3, <2>2 DEF Binding
        <4> HIDE DEF w, got, b
        <4> QED BY <1>0, <3>0, <4>1, GetOrCreateIs
      <3>2. set = [got EXCEPT !.heap[got.at].surf = b.surf, !.heap[got.at].active = TRUE]
        BY <2>2
      <3> HIDE DEF set, got
      <3>3. got = [heap |-> got.heap, list |-> got.list, at |-> got.at]
        BY <3>1 DEF Got
      <3>4. DOMAIN set = {"heap", "list", "at"}
        BY <3>2, <3>3
      <3> QED BY <3>4
    <2> QED BY <2>1, <2>2
  <1> HIDE DEF set
  <1>5. /\ World(set.heap, set.list) /\ set.at \in Range(set.list) \cup {0}
        /\ set.heap \in Heaps
        /\ set.list \in Seq(Addresses) /\ Range(set.list) \subseteq Addresses /\ 0 \notin Addresses
    BY <1>4, RangeIs DEF Entered, World, Addresses
  <1>6. /\ current' \in Currents /\ current'[t] = set.at
        /\ \A u \in Threads \ {t} : current'[u] = current[u]
    BY <1>0, <1>2, <1>5 DEF Currents
  <1>7. \A h \in Heaps : (\A x \in Addresses : h[x].ctx = set.heap[x].ctx) => World(h, set.list)
    <2> SUFFICES ASSUME NEW h \in Heaps, \A x \in Addresses : h[x].ctx = set.heap[x].ctx
                 PROVE  World(h, set.list)
      OBVIOUS
    <2>1. \A a \in Range(set.list) : h[a].ctx = set.heap[a].ctx
      BY <1>5
    <2> QED BY <1>5, <2>1, WorldShrinks
  <1>8. CASE old \in {0, set.at}
    <2>1. heap' = Swept(set.heap, set.list, current') /\ states' = set.list /\ UNCHANGED <<raced, chained>>
      BY <1>2, <1>8
    <2>2. World(set.heap, set.list)
      BY <1>5, <1>7
    <2>3. Carried(set.heap, set.list, current', heap', states', TRUE)
      BY <1>6, <2>1, <2>2, SweptCarries
    <2>4. Held(heap, states, current) => Marked(set.heap, set.list, current')
      <3> SUFFICES ASSUME Held(heap, states, current), NEW a \in Range(set.list)
                   PROVE  set.heap[a].active <=> \E u \in Threads : current'[u] = a
        BY DEF Marked
      <3>1. CASE a = set.at
        <4>1. set.at # 0
          BY <1>5, <3>1
        <4> QED BY <1>4, <1>6, <3>1, <4>1 DEF Entered
      <3>2. CASE a # set.at
        <4>1. set.heap[a].active <=> \E u \in Threads : current[u] = a
          BY <1>4, <3>2 DEF Entered
        <4>2. \A u \in Threads : current[u] = a <=> current'[u] = a
          <5>1. a # 0 /\ a # old /\ a # current'[t]
            BY <1>5, <1>6, <1>8, <3>2
          <5> QED BY <1>6, <5>1
        <4> QED BY <4>1, <4>2
      <3> QED BY <3>1, <3>2
    <2> QED BY <1>0, <1>1, <1>2, <1>4, <1>5, <2>1, <2>3, <2>4, CommitEnds
  <1>9. CASE old \notin {0, set.at}
    <2>1. /\ heap' = Swept(left.heap, left.list, current') /\ states' = left.list
          /\ chained' = (chained \/ left.chain)
          /\ raced' = (raced \/ \E u \in Threads \ {t} : current[u] = old)
          /\ rest.heap = Deactivated(set.heap, old) /\ rest.list = set.list
      BY <1>2, <1>9, <1>s
    <2>2. old \in Addresses
      BY <1>0, <1>9, CurrentIs
    <2>3. leaving \in Seq(Addresses) /\ Range(leaving) \subseteq {old}
      <3> HIDE DEF old
      <3>1. <<old>> \in Seq(Addresses) /\ << >> \in Seq(Addresses)
        BY <2>2
      <3>2. Range(<<old>>) = {old} /\ Range(<< >>) = {}
        BY DEF Range
      <3> QED BY <3>1, <3>2
    <2> HIDE DEF leaving, rest, old
    <2> DEFINE h == Deactivated(set.heap, old)
    <2>4. /\ h \in Heaps /\ ~h[old].active
          /\ \A x \in Addresses : h[x].ctx = set.heap[x].ctx
          /\ \A x \in Addresses \ {old} : h[x].active = set.heap[x].active
      BY <1>5, <2>2, DeactivateIs
    <2> HIDE DEF h
    <2>5. Removed(h, set.list, leaving, left)
      <3>1. rest.heap = h /\ rest.list = set.list
        BY <2>1 DEF h
      <3>2. Removed(rest.heap, rest.list, leaving, DestroyAll(rest, leaving))
        BY <1>5, <2>3, <2>4, <3>1, DestroyAllIs
      <3> QED BY <3>1, <3>2
    <2> HIDE DEF left
    <2>6. World(h, set.list)
      BY <1>7, <2>4
    <2>7. Carried(h, set.list, current', left.heap, left.list, ~left.chain)
      <3>1. \A a \in Range(leaving) : ~h[a].active
        BY <2>3, <2>4
      <3> QED BY <1>6, <2>3, <2>5, <2>6, <3>1, DestroyAllCarries
    <2>8. Carried(left.heap, left.list, current', heap', states', TRUE)
      <3>1. World(left.heap, left.list)
        BY <2>7 DEF Carried
      <3> QED BY <1>6, <2>1, <3>1, SweptCarries
    <2>9. Carried(h, set.list, current', heap', states', ~left.chain)
      BY <2>7, <2>8 DEF Carried
    <2>10. ~raced' /\ Held(heap, states, current) => Marked(h, set.list, current')
      <3> SUFFICES ASSUME ~raced', Held(heap, states, current), NEW a \in Range(set.list)
                   PROVE  h[a].active <=> \E u \in Threads : current'[u] = a
        BY DEF Marked
      <3>0. a \in Addresses /\ \A u \in Threads \ {t} : current[u] # old
        BY <1>5, <2>1
      <3>1. CASE a = set.at
        <4>1. set.at # 0 /\ a # old
          BY <1>5, <1>9, <3>1 DEF old
        <4>2. set.heap[a].active
          BY <1>4, <3>1, <4>1 DEF Entered
        <4> QED BY <1>6, <2>4, <3>0, <3>1, <4>1, <4>2
      <3>2. CASE a = old
        <4>1. \A u \in Threads : current'[u] # a
          BY <1>6, <1>9, <3>0, <3>2 DEF old
        <4> QED BY <2>4, <3>2, <4>1
      <3>3. CASE a # set.at /\ a # old
        <4>1. set.heap[a].active <=> \E u \in Threads : current[u] = a
          BY <1>4, <3>3 DEF Entered
        <4>2. \A u \in Threads : current[u] = a <=> current'[u] = a
          BY <1>6, <3>3 DEF old
        <4> QED BY <2>4, <3>0, <3>3, <4>1, <4>2
      <3> QED BY <3>1, <3>2, <3>3
    <2>11. left.chain \in BOOLEAN
      BY <2>5 DEF Removed
    <2>12. /\ raced' \in BOOLEAN /\ chained' \in BOOLEAN
           /\ (raced => raced') /\ (chained => chained') /\ (~chained' => ~left.chain)
      BY <1>0, <2>1, <2>11
    <2> QED BY <1>1, <1>2, <1>4, <2>4, <2>9, <2>10, <2>12, CommitEnds
  <1> QED BY <1>8, <1>9

-----------------------------------------------------------------------------
LEMMA InvInit == Init => Inv
  <1> SUFFICES ASSUME Init PROVE Inv
    OBVIOUS
  <1>1. NewState(NoCtx) \in StateSet
    BY ContextsAssumption DEF NewState, StateSet
  <1>2. None \in Binding /\ Idle \in Steps
    BY NextSteps DEF None, Binding
  <1>3. TypeOK
    <2>1. /\ ctxs \in [Contexts -> {"free", "valid", "doomed"}]
          /\ surfs \in [Surfaces -> {"free", "valid", "doomed"}]
          /\ bound \in [Threads -> Binding] /\ up \in BOOLEAN /\ calls \in Nat
      BY <1>2 DEF Init
    <2>2. heap \in [Addresses -> StateSet] /\ states \in Seq(Addresses)
      BY <1>1 DEF Init
    <2>3. current \in [Threads -> Addresses \cup {0}]
      BY DEF Init
    <2>4. entries \in Seq(SUBSET Surfaces)
      BY DEF Init
    <2>5. op \in [Threads -> Steps]
      BY <1>2 DEF Init
    <2>6. pending \in [Threads -> Seq(Binding)]
      BY DEF Init
    <2>7. raced \in BOOLEAN /\ chained \in BOOLEAN
      BY DEF Init
    <2> QED BY <2>1, <2>2, <2>3, <2>4, <2>5, <2>6, <2>7 DEF TypeOK
  <1>4. Range(states) = {} /\ \A t \in Threads : current[t] = 0
    BY DEF Init, Range
  <1>5. World(heap, states)
    BY <1>1, <1>4 DEF Init, World, Heaps
  <1>6. ASSUME NEW t \in Threads PROVE Answers(t)
    <2>1. op[t].at = "idle" /\ bound[t].ctx = NoCtx /\ pending[t] = << >>
      BY DEF Init, Idle, None
    <2> QED BY <1>4, <2>1 DEF Answers, GetCurrentContext
  <1> QED BY <1>3, <1>4, <1>5, <1>6 DEF Inv, Held, Marked, Listed

(* Overwrite: the state in freed memory was not in the list, and so was    *)
(* nobody's current one unless a hand-over was raced or a deletion passed  *)
(* on.                                                                     *)
LEMMA OverwriteKeeps ==
  ASSUME Inv, NEW a \in Addresses, Overwrite(a)
  PROVE  Inv'
  <1>1. /\ a \notin Live /\ heap' = [heap EXCEPT ![a] = NewState(NoCtx)]
        /\ UNCHANGED <<driverVars, states, current, entries, op, pending, raced, chained>>
    BY DEF Overwrite
  <1>2. heap \in Heaps /\ states \in Seq(Addresses) /\ World(heap, states) /\ Range(states) \subseteq Addresses
    BY InvTypes, RangeIs DEF Inv
  <1>3. NewState(NoCtx) \in StateSet
    BY ContextsAssumption DEF NewState, StateSet
  <1>4. heap' \in Heaps /\ \A x \in Range(states) : heap'[x] = heap[x]
    BY <1>1, <1>2, <1>3 DEF Heaps, Live
  <1>5. World(heap, states)'
    <2>1. World(heap', states)
      <3> DEFINE h == heap'
      <3>1. h \in Heaps /\ \A x \in Range(states) : h[x].ctx = heap[x].ctx
        BY <1>4
      <3> HIDE DEF h
      <3>2. World(h, states)
        BY <1>2, <3>1, WorldShrinks
      <3> QED BY <3>2 DEF h
    <2> QED BY <1>1, <2>1
  <1>6. TypeOK'
    BY <1>1, <1>4 DEF Inv, TypeOK, Heaps, driverVars
  <1>7. ASSUME Sound' PROVE (\A t \in Threads : Answers(t)') /\ Held(heap', states', current')
    <2>1. Sound /\ Held(heap, states, current) /\ \A t \in Threads : Answers(t)
      BY <1>1, <1>7 DEF Inv, Sound
    <2>2. Held(heap', states', current')
      BY <1>1, <1>4, <2>1 DEF Held, Marked, Listed
    <2>3. \A t \in Threads : GetCurrentContext(t)' = GetCurrentContext(t)
      BY <1>1, <1>4, <2>1 DEF Held, Listed, GetCurrentContext
    <2> QED BY <1>1, <2>1, <2>2, <2>3 DEF Answers, driverVars
  <1> QED BY <1>5, <1>6, <1>7 DEF Inv

LEMMA InvStep ==
  ASSUME Inv, [Next]_vars
  PROVE  Inv'
  <1>1. ASSUME NEW t \in Threads, Call(t) PROVE Inv'
    BY <1>1, CallApart, ApartKeeps
  <1>2. ASSUME NEW t \in Threads, AddDisplay(t) \/ AddSurface(t) \/ AskDriver(t) \/ HandleMakeCurrent(t)
        PROVE  Inv'
    BY <1>2, TalkApart, ApartKeeps
  <1>3. ASSUME NEW t \in Threads, LinkShare(t) PROVE Inv'
    BY <1>3, LinkShareKeeps
  <1>4. ASSUME NEW t \in Threads, ForgetContext(t) PROVE Inv'
    BY <1>4, ForgetContextKeeps
  <1>5. ASSUME NEW t \in Threads, ForgetDisplay(t) PROVE Inv'
    BY <1>5, ForgetDisplayKeeps
  <1>6. ASSUME NEW t \in Threads, Commit(t) PROVE Inv'
    BY <1>6, CommitKeeps
  <1>7. ASSUME NEW a \in Addresses, Overwrite(a) PROVE Inv'
    BY <1>7, OverwriteKeeps
  <1>8. CASE UNCHANGED vars
    BY <1>8 DEF vars, Inv, Sound, TypeOK, Answers, GetCurrentContext, World, Held, Marked, Listed
  <1> QED BY <1>1, <1>2, <1>3, <1>4, <1>5, <1>6, <1>7, <1>8 DEF Next, Go

LEMMA InvAlways == Spec => []Inv
  BY InvInit, InvStep, PTL DEF Spec

(* Driver, record, and what the threads have still to do keep their types; *)
(* in particular a count of sharing contexts stays a size_t.               *)
THEOREM TypeCorrect == Spec => []TypeOK
  <1>1. Inv => TypeOK
    BY DEF Inv
  <1> QED BY <1>1, InvAlways, PTL

(* However many threads create, share, bind, destroy and terminate at      *)
(* once, no context has two states in the list.                            *)
THEOREM OneStateEach == Spec => []OneStatePerContext
  <1>1. Inv => OneStatePerContext
    <2>1. Inv => states \in Seq(Addresses)
      BY InvTypes
    <2> QED BY <2>1 DEF Inv, World, OneStatePerContext
  <1> QED BY <1>1, InvAlways, PTL

(* Until a hand-over of a context between threads is raced or a deletion   *)
(* is passed on to a share context, a thread is told between its calls to  *)
(* have current what the driver has current for it.                        *)
THEOREM CurrentIsRight == Spec => []CurrentAgrees
  <1>1. Inv => CurrentAgrees
    BY DEF Inv, Sound, Answers, CurrentAgrees
  <1> QED BY <1>1, InvAlways, PTL

(* ... the active states of the list are the current ones ...              *)
THEOREM ActiveIsCurrent == Spec => []ActiveIffCurrent
  <1>1. Inv => ActiveIffCurrent
    BY DEF Inv, Sound, Held, Marked, ActiveIffCurrent, Live
  <1> QED BY <1>1, InvAlways, PTL

(* ... and nothing that is current is deleted.                             *)
THEOREM CurrentIsKept == Spec => []CurrentIsLive
  <1>1. Inv => CurrentIsLive
    BY DEF Inv, Sound, Held, Listed, CurrentIsLive, Live
  <1> QED BY <1>1, InvAlways, PTL

=============================================================================
