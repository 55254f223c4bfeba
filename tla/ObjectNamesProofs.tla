--------------------------- MODULE ObjectNamesProofs ---------------------------
(***************************************************************************)
(* Proofs about the names of objects, for any number of names, any size of *)
(* the batches and any number of commands in flight.                       *)
(***************************************************************************)
EXTENDS ObjectNames, FiniteSetTheorems, SequenceTheorems, WellFoundedInduction, TLAPS

(***************************************************************************)
(* Induction: a set of numbers has a least one.                            *)
(***************************************************************************)
LEMMA LeastNatural ==
  ASSUME NEW S \in SUBSET Nat, S # {}
  PROVE  \E m \in S : \A k \in S : m <= k
  <1> DEFINE R == {ss \in Nat \X Nat : ss[1] < ss[2]}
  <1>1. OpToRel(<, Nat) = R
    BY Zenon DEF OpToRel
  <1>2. IsWellFoundedOn(R, Nat)
    BY <1>1, NatLessThanWellFounded, Zenon
  <1>3. \A a, b \in Nat : a < b => <<a, b>> \in R
    OBVIOUS
  <1> HIDE DEF R
  <1>4. PICK x \in S : \A y \in S : ~ (<<y, x>> \in R)
    BY <1>2, WFMin, Zenon
  <1>5. x \in Nat /\ S \subseteq Nat
    OBVIOUS
  <1>6. ASSUME NEW k \in S PROVE x <= k
    <2>1. ~(<<k, x>> \in R)
      BY <1>4
    <2> QED BY <1>3, <1>5, <2>1
  <1> QED BY <1>6

LEMMA MinIs ==
  ASSUME NEW S \in SUBSET Nat, S # {}
  PROVE  Min(S) \in S
  BY LeastNatural DEF Min

(***************************************************************************)
(* What the helpers return.                                                *)
(***************************************************************************)
LEMMA RemoveFirstIs ==
  ASSUME NEW E, NEW s \in Seq(E), NEW x
  PROVE  RemoveFirst(s, x) \in Seq(E)
  <1>1. CASE \E i \in 1 .. Len(s) : s[i] = x
    <2> DEFINE I == {i \in 1 .. Len(s) : s[i] = x}
               m == Min(I)
    <2>1. SelectInSeq(s, LAMBDA v : v = x) = m
      BY <1>1 DEF SelectInSeq
    <2>2. RemoveFirst(s, x) = RemoveAt(s, m)
      BY <1>1, <2>1, Zenon DEF RemoveFirst
    <2>3. I \in SUBSET Nat /\ I # {}
      BY <1>1
    <2> HIDE DEF I
    <2>4. m \in I
      BY <2>3, MinIs
    <2>5. m \in 1 .. Len(s)
      BY <2>4 DEF I
    <2> HIDE DEF m
    <2> QED BY <2>2, <2>5 DEF RemoveAt
  <1> QED BY <1>1 DEF RemoveFirst

(* The loop of name_handler_delete_names.                                  *)
After(list, names, m, g) ==
  g = [i \in 0 .. m |-> IF i = 0 THEN list
                        ELSE IF names[i] = 0 THEN g[i - 1]
                        ELSE Append(g[i - 1], names[i])]

LEMMA AfterExists ==
  ASSUME NEW list, NEW names, NEW n \in Nat
  PROVE  \E g : After(list, names, n, g)
  <1> DEFINE bad == {m \in Nat : ~\E g : After(list, names, m, g)}
  <1> SUFFICES ASSUME bad # {} PROVE FALSE
    OBVIOUS
  <1>1. PICK m \in bad : \A k \in bad : m <= k
    BY LeastNatural
  <1>2. m # 0
    <2> DEFINE g == [i \in 0 .. 0 |-> list]
    <2>1. g[0] = list /\ 0 .. 0 = {0}
      OBVIOUS
    <2>2. After(list, names, 0, g)
      BY <2>1 DEF After
    <2> QED BY <2>2
  <1>3. PICK g : After(list, names, m - 1, g)
    BY <1>1, <1>2
  <1> DEFINE last == IF names[m] = 0 THEN g[m - 1] ELSE Append(g[m - 1], names[m])
             h == [i \in 0 .. m |-> IF i = m THEN last ELSE g[i]]
  <1>4. \A i \in 0 .. m - 1 : g[i] = IF i = 0 THEN list
                                     ELSE IF names[i] = 0 THEN g[i - 1]
                                     ELSE Append(g[i - 1], names[i])
    BY <1>3, Zenon DEF After
  <1> HIDE DEF last
  <1>5. /\ h[m] = last /\ \A i \in 0 .. m - 1 : h[i] = g[i]
        /\ 0 .. m = (0 .. m - 1) \cup {m}
    BY <1>1
  <1>6. \A i \in 0 .. m : h[i] = IF i = 0 THEN list
                                 ELSE IF names[i] = 0 THEN h[i - 1]
                                 ELSE Append(h[i - 1], names[i])
    <2> SUFFICES ASSUME NEW i \in 0 .. m
                 PROVE  h[i] = IF i = 0 THEN list
                               ELSE IF names[i] = 0 THEN h[i - 1]
                               ELSE Append(h[i - 1], names[i])
      OBVIOUS
    <2> HIDE DEF h
    <2>1. CASE i = m
      <3>1. h[i - 1] = g[i - 1] /\ i # 0
        BY <1>1, <1>2, <1>5, <2>1
      <3> QED BY <1>5, <2>1, <3>1 DEF last
    <2>2. CASE i # m
      <3>1. i \in 0 .. m - 1 /\ (i # 0 => i - 1 \in 0 .. m - 1)
        BY <1>1, <2>2
      <3>2. h[i] = g[i] /\ (i # 0 => h[i - 1] = g[i - 1])
        BY <1>5, <3>1
      <3> QED BY <1>4, <3>1, <3>2
    <2> QED BY <2>1, <2>2
  <1>7. h = [i \in 0 .. m |-> IF i = 0 THEN list
                              ELSE IF names[i] = 0 THEN h[i - 1]
                              ELSE Append(h[i - 1], names[i])]
    <2>1. h = [i \in 0 .. m |-> h[i]]
      OBVIOUS
    <2> HIDE DEF h
    <2> QED BY <1>6, <2>1, Zenon
  <1> HIDE DEF h
  <1>8. After(list, names, m, h)
    BY <1>7, Zenon DEF After
  <1> QED BY <1>1, <1>8

LEMMA ReturnedIsAfter ==
  ASSUME NEW list, NEW names \in Seq(Nat)
  PROVE  \E g : After(list, names, Len(names), g) /\ Returned(list, names) = g[Len(names)]
  <1> DEFINE g == CHOOSE f : After(list, names, Len(names), f)
  <1>1. After(list, names, Len(names), g)
    BY AfterExists
  <1>2. Returned(list, names) = g[Len(names)]
    BY Zenon DEF Returned, After
  <1> QED BY <1>1, <1>2

LEMMA AppendIs ==
  ASSUME NEW E, NEW s \in Seq(E), NEW x \in E
  PROVE  /\ Append(s, x) \in Seq(E)
         /\ Range(Append(s, x)) = Range(s) \cup {x}
         /\ IsInjective(s) /\ x \notin Range(s) => IsInjective(Append(s, x))
  <1>1. /\ Append(s, x) \in Seq(E) /\ Len(Append(s, x)) = Len(s) + 1
        /\ \A i \in 1 .. Len(s) : Append(s, x)[i] = s[i]
        /\ Append(s, x)[Len(s) + 1] = x
        /\ Len(s) \in Nat /\ DOMAIN s = 1 .. Len(s)
        /\ DOMAIN Append(s, x) = 1 .. Len(s) + 1
    OBVIOUS
  <1>2. 1 .. Len(s) + 1 = (1 .. Len(s)) \cup {Len(s) + 1}
    BY <1>1
  <1> DEFINE t == Append(s, x)
  <1> HIDE DEF t
  <1>3. Range(t) = Range(s) \cup {x}
    <2>1. ASSUME NEW y \in Range(t) PROVE y \in Range(s) \cup {x}
      BY <1>1, <1>2, <2>1 DEF t, Range
    <2>2. ASSUME NEW y \in Range(s) \cup {x} PROVE y \in Range(t)
      BY <1>1, <1>2, <2>2 DEF t, Range
    <2> QED BY <2>1, <2>2
  <1>4. IsInjective(s) /\ x \notin Range(s) => IsInjective(t)
    BY <1>1, <1>2 DEF t, Range, IsInjective
  <1> QED BY <1>1, <1>3, <1>4 DEF t

LEMMA ReturnedIs ==
  ASSUME NEW E, E \subseteq Nat \ {0}, NEW list \in Seq(E), NEW names \in Seq(E \cup {0})
  PROVE  /\ Returned(list, names) \in Seq(E)
         /\ Range(Returned(list, names)) = Range(list) \cup (Range(names) \ {0})
         /\ IsInjective(list) /\ IsInjective(names) /\ Range(list) \cap Range(names) = {} =>
              IsInjective(Returned(list, names))
  <1> DEFINE N == Len(names)
             upTo(m) == {names[j] : j \in 1 .. m}
             apart == /\ IsInjective(list) /\ IsInjective(names)
                      /\ Range(list) \cap Range(names) = {}
  <1>1. /\ names \in Seq(Nat) /\ N \in Nat /\ DOMAIN names = 1 .. N
        /\ \A j \in 1 .. N : names[j] \in E \cup {0}
    <2>1. E \cup {0} \subseteq Nat
      OBVIOUS
    <2>2. names \in Seq(Nat)
      BY <2>1, SeqMonotonic, Zenon
    <2> QED BY <2>2
  <1>2. PICK g : After(list, names, N, g) /\ Returned(list, names) = g[N]
    BY <1>1, ReturnedIsAfter
  <1>3. \A i \in 0 .. N : g[i] = IF i = 0 THEN list
                                 ELSE IF names[i] = 0 THEN g[i - 1]
                                 ELSE Append(g[i - 1], names[i])
    BY <1>2, Zenon DEF After
  <1> DEFINE good(m) == /\ g[m] \in Seq(E) /\ Range(g[m]) = Range(list) \cup (upTo(m) \ {0})
                        /\ apart => IsInjective(g[m])
             bad == {m \in 0 .. N : ~good(m)}
  <1>4. bad = {}
    <2> SUFFICES ASSUME bad # {} PROVE FALSE
      OBVIOUS
    <2>1. PICK m \in bad : \A k \in bad : m <= k
      <3>1. bad \in SUBSET Nat
        OBVIOUS
      <3> HIDE DEF bad
      <3> QED BY <3>1, LeastNatural
    <2>2. m # 0
      <3>1. g[0] = list /\ upTo(0) = {}
        BY <1>1, <1>3
      <3> QED BY <3>1
    <2>3. m \in 1 .. N /\ m - 1 \in 0 .. N
      BY <1>1, <2>2
    <2>4. good(m - 1)
      <3>1. m - 1 \notin bad
        <4> HIDE DEF bad
        <4> QED BY <1>1, <2>1, <2>3
      <3> HIDE DEF good
      <3> QED BY <2>3, <3>1
    <2>5. upTo(m) = upTo(m - 1) \cup {names[m]}
      <3>1. 1 .. m = (1 .. m - 1) \cup {m}
        BY <2>3
      <3> QED BY <3>1
    <2>6. g[m] = IF names[m] = 0 THEN g[m - 1] ELSE Append(g[m - 1], names[m])
      BY <1>3, <2>3
    <2>7. apart => names[m] \notin upTo(m - 1) /\ names[m] \notin Range(list)
      <3>1. ASSUME apart PROVE names[m] \notin upTo(m - 1)
        <4> SUFFICES ASSUME NEW j \in 1 .. m - 1, names[m] = names[j] PROVE FALSE
          OBVIOUS
        <4>1. j \in DOMAIN names /\ m \in DOMAIN names /\ j # m
          BY <1>1, <2>3
        <4> QED BY <3>1, <4>1 DEF IsInjective
      <3>2. names[m] \in Range(names)
        BY <1>1, <2>3 DEF Range
      <3> HIDE DEF upTo
      <3> QED BY <3>1, <3>2
    <2>8. names[m] = 0 \/ names[m] \in E
      BY <1>1, <2>3
    <2> HIDE DEF upTo, apart
    <2>9. good(m)
      <3>1. CASE names[m] = 0
        BY <2>4, <2>5, <2>6, <3>1
      <3>2. CASE names[m] # 0
        <4>1. /\ g[m] \in Seq(E) /\ Range(g[m]) = Range(g[m - 1]) \cup {names[m]}
              /\ IsInjective(g[m - 1]) /\ names[m] \notin Range(g[m - 1]) => IsInjective(g[m])
          BY <2>4, <2>6, <2>8, <3>2, AppendIs
        <4> QED BY <2>4, <2>5, <2>7, <3>2, <4>1
      <3> QED BY <3>1, <3>2
    <2> QED BY <2>9
  <1>5. good(N)
    <2>1. N \in 0 .. N
      BY <1>1
    <2> HIDE DEF good
    <2> QED BY <1>4, <2>1
  <1>6. upTo(N) = Range(names)
    BY <1>1 DEF Range
  <1> QED BY <1>2, <1>5, <1>6

(* The first r names of the batch waited, the others are new.              *)
Allocated(h, n, got) ==
  \E r \in Nat :
    /\ r <= n /\ r <= Len(h.reusable) /\ (r < n => r = Len(h.reusable))
    /\ got.names \in Seq(Nat \ {0}) /\ Len(got.names) = n
    /\ \A i \in 1 .. n : got.names[i] = IF i <= r THEN h.reusable[i] ELSE h.last + (i - r)
    /\ got.rest \in [last : Nat, reusable : Seq(Names)]
    /\ got.rest.last = h.last + n - r
    /\ Len(got.rest.reusable) = Len(h.reusable) - r
    /\ \A i \in 1 .. Len(h.reusable) - r : got.rest.reusable[i] = h.reusable[r + i]

LEMMA AllocNamesIs ==
  ASSUME NEW h \in [last : Nat, reusable : Seq(Names)], NEW n \in Nat,
         NEW got, got = AllocNames(h, n)
  PROVE  Allocated(h, n, got)
  <1> DEFINE s == h.reusable
             r == Less(n, Len(s))
             new == [i \in 1 .. n - r |-> h.last + i]
             old == SubSeq(s, 1, r)
             left == SubSeq(s, r + 1, Len(s))
  <1>1. s \in Seq(Names) /\ h.last \in Nat /\ Len(s) \in Nat
    OBVIOUS
  <1>2. r \in Nat /\ r <= n /\ r <= Len(s) /\ (r < n => r = Len(s))
    BY <1>1 DEF Less
  <1>3. Names \subseteq Nat \ {0}
    BY NamesAssumption DEF Names
  <1>4. got.names = old \o new /\ got.rest = [last |-> h.last + n - r, reusable |-> left]
    BY DEF AllocNames
  <1> HIDE DEF r
  <1>5. /\ old \in Seq(Nat \ {0}) /\ Len(old) = r /\ \A i \in 1 .. r : old[i] = s[i]
    <2>1. s \in Seq(Nat \ {0})
      BY <1>1, <1>3, SeqMonotonic, Zenon
    <2> QED BY <1>1, <1>2, <2>1
  <1>6. new \in Seq(Nat \ {0}) /\ Len(new) = n - r /\ \A i \in 1 .. n - r : new[i] = h.last + i
    BY <1>1, <1>2
  <1>7. left \in Seq(Names) /\ Len(left) = Len(s) - r /\ \A i \in 1 .. Len(s) - r : left[i] = s[r + i]
    BY <1>1, <1>2
  <1> HIDE DEF old, new, left, s
  <1>8. /\ got.names \in Seq(Nat \ {0}) /\ Len(got.names) = n
        /\ \A i \in 1 .. n : got.names[i] = IF i <= r THEN s[i] ELSE h.last + (i - r)
    <2>1. /\ old \o new \in Seq(Nat \ {0}) /\ Len(old \o new) = Len(old) + Len(new)
          /\ \A i \in 1 .. Len(old) + Len(new) :
               (old \o new)[i] = IF i <= Len(old) THEN old[i] ELSE new[i - Len(old)]
      BY <1>5, <1>6, ConcatProperties, Zenon
    <2>2. Len(old) + Len(new) = n /\ Len(old) = r
      BY <1>2, <1>5, <1>6
    <2>3. \A i \in 1 .. n : i <= r => i \in 1 .. r
      BY <1>2
    <2>4. \A i \in 1 .. n : ~(i <= r) => i - r \in 1 .. n - r
      BY <1>2
    <2> QED BY <1>4, <1>5, <1>6, <2>1, <2>2, <2>3, <2>4
  <1>9. h.last + n - r \in Nat
    BY <1>1, <1>2
  <1>10. /\ got.rest \in [last : Nat, reusable : Seq(Names)]
         /\ got.rest.last = h.last + n - r /\ got.rest.reusable = left
    BY <1>4, <1>7, <1>9
  <1> QED BY <1>2, <1>7, <1>8, <1>10 DEF s, Allocated

-----------------------------------------------------------------------------
(* Types.                                                                  *)

Handlers == [last : Nat, reusable : Seq(Names)]
Hands    == [kind : Kinds, name : Names, found : BOOLEAN, freed : BOOLEAN]

LEMMA NamesAre ==
  /\ Names \subseteq Nat \ {0} /\ Kinds \subseteq ObjectKinds /\ DriverNames \subseteq Nat \ {0}
  /\ MaxName \in Nat /\ MaxBatch \in Nat
  BY NamesAssumption DEF Names

LEMMA BatchIs ==
  ASSUME NEW names \in Batches
  PROVE  /\ names \in Seq(Names \cup {0}) /\ Range(names) \subseteq Names \cup {0}
         /\ Len(names) \in 1 .. MaxBatch /\ DOMAIN names = 1 .. Len(names)
  <1>1. PICK n \in 1 .. MaxBatch : names \in [1 .. n -> Names \cup {0}]
    BY DEF Batches
  <1>2. n \in Nat /\ n \in 1 .. MaxBatch
    BY NamesAre
  <1>3. names \in Seq(Names \cup {0}) /\ Len(names) = n /\ DOMAIN names = 1 .. n
    BY <1>1, <1>2
  <1> QED BY <1>1, <1>2, <1>3 DEF Range

LEMMA AfterFreeIs ==
  ASSUME NEW hands \in [Clients -> {NoHand} \cup Hands], NEW names
  PROVE  /\ AfterFree(hands, names) \in [Clients -> {NoHand} \cup Hands]
         /\ \A c \in Clients : hands[c] = NoHand => AfterFree(hands, names)[c] = NoHand
  <1>1. ASSUME NEW c \in Clients
        PROVE  /\ AfterFree(hands, names)[c] \in {NoHand} \cup Hands
               /\ hands[c] = NoHand => AfterFree(hands, names)[c] = NoHand
    <2>1. AfterFree(hands, names)[c] =
            IF hands[c].name \in Range(names) /\ hands[c].found
            THEN [hands[c] EXCEPT !.freed = TRUE] ELSE hands[c]
      BY DEF AfterFree
    <2>2. CASE hands[c] = NoHand
      BY <2>1, <2>2 DEF NoHand
    <2>3. CASE hands[c] # NoHand
      <3>1. hands[c] \in Hands
        BY <2>3
      <3> QED BY <2>1, <2>3, <3>1 DEF Hands
    <2> QED BY <2>2, <2>3
  <1> QED BY <1>1 DEF AfterFree

(* Each name of a batch gets the object made for its last place in it.     *)
LEMMA InsertedIs ==
  ASSUME NEW map \in [Names -> Nat], NEW names \in Seq(Nat),
         NEW made \in [DOMAIN names -> Nat]
  PROVE  /\ Inserted(map, names, made) \in [Names -> Nat]
         /\ \A x \in Names :
              /\ x \notin Range(names) => Inserted(map, names, made)[x] = map[x]
              /\ \A i \in DOMAIN names : IsInjective(names) /\ names[i] = x =>
                   Inserted(map, names, made)[x] = made[i]
  <1> DEFINE last(x, i) == names[i] = x /\ \A j \in DOMAIN names : names[j] = x => j <= i
             at(x) == CHOOSE i \in DOMAIN names : last(x, i)
  <1>1. ASSUME NEW x \in Names, x \in Range(names)
        PROVE  \E i \in DOMAIN names : last(x, i)
    <2> DEFINE n == Len(names)
               S == {n - i : i \in {j \in DOMAIN names : names[j] = x}}
    <2>1. n \in Nat /\ DOMAIN names = 1 .. n
      OBVIOUS
    <2>2. S \in SUBSET Nat /\ S # {}
      BY <1>1, <2>1 DEF Range
    <2>3. PICK m \in S : \A k \in S : m <= k
      BY <2>2, LeastNatural
    <2>4. PICK i \in DOMAIN names : names[i] = x /\ m = n - i
      BY <2>3
    <2>5. ASSUME NEW j \in DOMAIN names, names[j] = x PROVE j <= i
      <3>1. n - j \in S
        BY <2>5
      <3>2. n - i <= n - j
        BY <2>3, <2>4, <3>1
      <3> HIDE DEF n
      <3> QED BY <2>1, <3>2
    <2> QED BY <2>4, <2>5
  <1>2. ASSUME NEW x \in Names, x \in Range(names)
        PROVE  at(x) \in DOMAIN names /\ last(x, at(x))
    BY <1>1, <1>2
  <1>3. Inserted(map, names, made) =
          [x \in Names |-> IF x \in Range(names) THEN made[at(x)] ELSE map[x]]
    BY DEF Inserted
  <1>4. ASSUME NEW x \in Names, NEW i \in DOMAIN names, IsInjective(names), names[i] = x
        PROVE  x \in Range(names) /\ at(x) = i
    <2>1. x \in Range(names)
      BY <1>4 DEF Range
    <2>2. at(x) \in DOMAIN names /\ names[at(x)] = x
      BY <1>2, <2>1
    <2> HIDE DEF at
    <2> QED BY <1>4, <2>1, <2>2 DEF IsInjective
  <1> HIDE DEF at, last
  <1> QED BY <1>2, <1>3, <1>4

LEMMA HeadIs ==
  ASSUME TypeOK, NEW c \in Clients, queue[c] # << >>
  PROVE  /\ Head(queue[c]) \in Command /\ Head(queue[c]) = queue[c][1]
         /\ Head(queue[c]).op \in {"gen", "delete", "bind", "query"}
         /\ Head(queue[c]).kind \in Kinds
         /\ Tail(queue[c]) \in Seq(Command)
         /\ Len(queue[c]) \in Nat \ {0} /\ Len(Tail(queue[c])) = Len(queue[c]) - 1
         /\ \A i \in 1 .. Len(Tail(queue[c])) : Tail(queue[c])[i] = queue[c][i + 1]
         /\ Head(queue[c]).op \in {"gen", "delete"} => Head(queue[c]).names \in Batches
         /\ Head(queue[c]).op \in {"bind", "query"} => Head(queue[c]).names[1] \in Names
  <1>1. queue[c] \in Seq(Command)
    BY DEF TypeOK
  <1>2. /\ Head(queue[c]) \in Command /\ Head(queue[c]) = queue[c][1]
        /\ Tail(queue[c]) \in Seq(Command)
        /\ Len(queue[c]) \in Nat \ {0} /\ Len(Tail(queue[c])) = Len(queue[c]) - 1
        /\ \A i \in 1 .. Len(Tail(queue[c])) : Tail(queue[c])[i] = queue[c][i + 1]
    BY <1>1, HeadTailProperties, EmptySeq
  <1>3. ASSUME NEW cmd \in Command
        PROVE  /\ cmd.op \in {"gen", "delete", "bind", "query"} /\ cmd.kind \in Kinds
               /\ cmd.op \in {"gen", "delete"} => cmd.names \in Batches
               /\ cmd.op \in {"bind", "query"} => cmd.names[1] \in Names
    BY DEF Command
  <1> QED BY <1>2, <1>3

-----------------------------------------------------------------------------
(* What the steps change.                                                  *)

LEMMA IssueIs ==
  ASSUME TypeOK, NEW c \in Clients, NEW op, NEW k, NEW names,
         [op |-> op, kind |-> k, names |-> names] \in Command, Issue(c, op, k, names)
  PROVE  /\ queue' \in [Clients -> Seq(Command)]
         /\ \A d \in Clients : d # c => queue'[d] = queue[d]
         /\ queue'[c] = Append(queue[c], [op |-> op, kind |-> k, names |-> names])
  <1> DEFINE cmd == [op |-> op, kind |-> k, names |-> names]
  <1>1. queue \in [Clients -> Seq(Command)]
    BY DEF TypeOK
  <1>2. queue' = [queue EXCEPT ![c] = Append(queue[c], cmd)]
    BY DEF Issue
  <1>3. cmd \in Command
    OBVIOUS
  <1> HIDE DEF cmd
  <1>4. Append(queue[c], cmd) \in Seq(Command)
    BY <1>1, <1>3
  <1>5. /\ queue' \in [Clients -> Seq(Command)] /\ queue'[c] = Append(queue[c], cmd)
        /\ \A d \in Clients : d # c => queue'[d] = queue[d]
    BY <1>1, <1>2, <1>4
  <1> QED BY <1>5 DEF cmd

LEMMA DoneIs ==
  ASSUME TypeOK, NEW c \in Clients, queue[c] # << >>, Done(c)
  PROVE  /\ queue' \in [Clients -> Seq(Command)] /\ queue'[c] = Tail(queue[c])
         /\ \A d \in Clients : d # c => queue'[d] = queue[d]
  <1>1. queue \in [Clients -> Seq(Command)]
    BY DEF TypeOK
  <1>2. Tail(queue[c]) \in Seq(Command)
    BY HeadIs
  <1> QED BY <1>1, <1>2 DEF Done

GenIssued(c, k, n, got) ==
  /\ UNCHANGED <<used, mapping, hand, objects, own>>
  /\ Allocated(handler[c][k], n, got)
  /\ Range(got.names) \subseteq Names /\ got.names \in Batches
  /\ handler' \in [Clients -> [Kinds -> Handlers]]
  /\ handler'[c][k] = got.rest
  /\ held' \in [Clients -> [Kinds -> SUBSET Names]]
  /\ held'[c][k] = held[c][k] \cup Range(got.names)
  /\ \A d \in Clients, j \in Kinds : ~(d = c /\ j = k) =>
       handler'[d][j] = handler[d][j] /\ held'[d][j] = held[d][j]
  /\ queue' \in [Clients -> Seq(Command)]
  /\ \A d \in Clients : d # c => queue'[d] = queue[d]
  /\ queue'[c] = Append(queue[c], [op |-> "gen", kind |-> k, names |-> got.names])

LEMMA GenIs ==
  ASSUME TypeOK, NEW c \in Clients, NEW k \in Kinds, NEW n \in 1 .. MaxBatch, Gen(c, k, n),
         NEW got, got = AllocNames(handler[c][k], n)
  PROVE  GenIssued(c, k, n, got)
  <1>1. /\ Range(got.names) \subseteq Names
        /\ handler' = [handler EXCEPT ![c][k] = got.rest]
        /\ held' = [held EXCEPT ![c][k] = @ \cup Range(got.names)]
        /\ Issue(c, "gen", k, got.names)
        /\ UNCHANGED <<used, mapping, hand, objects, own>>
    BY DEF Gen
  <1>2. /\ handler \in [Clients -> [Kinds -> Handlers]]
        /\ held \in [Clients -> [Kinds -> SUBSET Names]]
        /\ handler[c][k] \in Handlers
    BY DEF TypeOK, Handlers
  <1>3. n \in Nat
    BY NamesAre
  <1>4. /\ got.rest \in Handlers /\ got.names \in Seq(Nat \ {0})
        /\ Len(got.names) = n /\ Allocated(handler[c][k], n, got)
    <2> DEFINE h == handler[c][k]
    <2>1. h \in [last : Nat, reusable : Seq(Names)] /\ got = AllocNames(h, n)
      BY <1>2 DEF Handlers
    <2> HIDE DEF h
    <2>2. Allocated(h, n, got)
      BY <1>3, <2>1, AllocNamesIs, Zenon
    <2>3. got.rest \in Handlers /\ got.names \in Seq(Nat \ {0}) /\ Len(got.names) = n
      BY <2>2 DEF Allocated, Handlers
    <2> QED BY <2>2, <2>3 DEF h
  <1>5. got.names \in Batches
    <2>1. got.names \in [1 .. n -> Names \cup {0}]
      BY <1>1, <1>4 DEF Range
    <2> QED BY <2>1 DEF Batches
  <1>6. [op |-> "gen", kind |-> k, names |-> got.names] \in Command
    BY <1>5 DEF Command
  <1>7. /\ queue' \in [Clients -> Seq(Command)]
        /\ \A d \in Clients : d # c => queue'[d] = queue[d]
        /\ queue'[c] = Append(queue[c], [op |-> "gen", kind |-> k, names |-> got.names])
    BY <1>1, <1>6, IssueIs
  <1>8. /\ handler' \in [Clients -> [Kinds -> Handlers]]
        /\ handler'[c][k] = got.rest
        /\ \A d \in Clients, j \in Kinds : ~(d = c /\ j = k) => handler'[d][j] = handler[d][j]
    BY <1>1, <1>2, <1>4
  <1>9. /\ held' \in [Clients -> [Kinds -> SUBSET Names]]
        /\ held'[c][k] = held[c][k] \cup Range(got.names)
        /\ \A d \in Clients, j \in Kinds : ~(d = c /\ j = k) => held'[d][j] = held[d][j]
    <2> DEFINE S == Range(got.names)
    <2>1. S \in SUBSET Names /\ held' = [held EXCEPT ![c][k] = held[c][k] \cup S]
      BY <1>1
    <2> HIDE DEF S
    <2>2. /\ held' \in [Clients -> [Kinds -> SUBSET Names]]
          /\ held'[c][k] = held[c][k] \cup S
          /\ \A d \in Clients, j \in Kinds : ~(d = c /\ j = k) => held'[d][j] = held[d][j]
      BY <1>2, <2>1
    <2> QED BY <2>2 DEF S
  <1> QED BY <1>1, <1>4, <1>5, <1>7, <1>8, <1>9, Zenon DEF GenIssued

LEMMA DeleteIs ==
  ASSUME TypeOK, NEW c \in Clients, NEW k \in Kinds, NEW names \in Batches, Delete(c, k, names)
  PROVE  /\ UNCHANGED <<used, mapping, hand, objects, own>>
         /\ Range(names) \subseteq Passed(c, k) \cup {0} /\ (Careful => IsInjective(names))
         /\ handler' \in [Clients -> [Kinds -> Handlers]]
         /\ handler'[c][k].last = handler[c][k].last
         /\ handler'[c][k].reusable = IF Recycles(k) THEN Returned(handler[c][k].reusable, names)
                                      ELSE handler[c][k].reusable
         /\ held' \in [Clients -> [Kinds -> SUBSET Names]]
         /\ held'[c][k] = held[c][k] \ Range(names)
         /\ \A d \in Clients, j \in Kinds : ~(d = c /\ j = k) =>
              handler'[d][j] = handler[d][j] /\ held'[d][j] = held[d][j]
         /\ queue' \in [Clients -> Seq(Command)]
         /\ \A d \in Clients : d # c => queue'[d] = queue[d]
         /\ queue'[c] = Append(queue[c], [op |-> "delete", kind |-> k, names |-> names])
  <1> DEFINE h == handler[c][k]
             list == IF Recycles(k) THEN Returned(h.reusable, names) ELSE h.reusable
             h2 == [h EXCEPT !.reusable = list]
  <1>1. /\ handler \in [Clients -> [Kinds -> Handlers]]
        /\ held \in [Clients -> [Kinds -> SUBSET Names]]
        /\ h \in Handlers
    BY DEF TypeOK, Handlers
  <1>2. list \in Seq(Names)
    BY <1>1, BatchIs, NamesAre, ReturnedIs DEF Handlers
  <1> HIDE DEF list
  <1>3. h2 \in Handlers /\ h2.last = h.last /\ h2.reusable = list
    BY <1>1, <1>2 DEF Handlers
  <1>4. h2 = IF Recycles(k) THEN ReturnNames(h, names) ELSE h
    BY <1>1 DEF ReturnNames, list, Handlers
  <1> HIDE DEF h2
  <1>5. /\ Range(names) \subseteq Passed(c, k) \cup {0} /\ (Careful => IsInjective(names))
        /\ handler' = [handler EXCEPT ![c][k] = h2]
        /\ held' = [held EXCEPT ![c][k] = @ \ Range(names)]
        /\ Issue(c, "delete", k, names)
        /\ UNCHANGED <<used, mapping, hand, objects, own>>
    BY <1>4 DEF Delete
  <1>6. [op |-> "delete", kind |-> k, names |-> names] \in Command
    BY DEF Command
  <1>7. /\ queue' \in [Clients -> Seq(Command)]
        /\ \A d \in Clients : d # c => queue'[d] = queue[d]
        /\ queue'[c] = Append(queue[c], [op |-> "delete", kind |-> k, names |-> names])
    BY <1>5, <1>6, IssueIs
  <1>8. /\ handler' \in [Clients -> [Kinds -> Handlers]]
        /\ handler'[c][k] = h2
        /\ \A d \in Clients, j \in Kinds : ~(d = c /\ j = k) => handler'[d][j] = handler[d][j]
    BY <1>1, <1>3, <1>5
  <1>9. /\ held' \in [Clients -> [Kinds -> SUBSET Names]]
        /\ held'[c][k] = held[c][k] \ Range(names)
        /\ \A d \in Clients, j \in Kinds : ~(d = c /\ j = k) => held'[d][j] = held[d][j]
    BY <1>1, <1>5
  <1>10. handler'[c][k].last = h.last /\ handler'[c][k].reusable = list
    BY <1>3, <1>8
  <1> QED BY <1>5, <1>7, <1>8, <1>9, <1>10 DEF list

LEMMA UseIs ==
  ASSUME TypeOK, NEW c \in Clients, NEW k \in Kinds, NEW op \in {"bind", "query"},
         NEW x \in Names, Use(c, op, k, x)
  PROVE  /\ UNCHANGED <<used, mapping, hand, objects, own>>
         /\ x \in Passed(c, k)
         /\ handler' \in [Clients -> [Kinds -> Handlers]]
         /\ held' \in [Clients -> [Kinds -> SUBSET Names]]
         /\ x \in held[c][k] => UNCHANGED <<handler, held>>
         /\ queue' \in [Clients -> Seq(Command)]
         /\ \A d \in Clients : d # c => queue'[d] = queue[d]
         /\ queue'[c] = Append(queue[c], [op |-> op, kind |-> k, names |-> <<x>>])
  <1>1. /\ handler \in [Clients -> [Kinds -> Handlers]]
        /\ held \in [Clients -> [Kinds -> SUBSET Names]]
    BY DEF TypeOK, Handlers
  <1>2. /\ Issue(c, op, k, <<x>>) /\ UNCHANGED <<used, mapping, hand, objects, own>>
        /\ x \in Passed(c, k)
        /\ \/ /\ x \notin held[c][k]
              /\ handler' = [handler EXCEPT ![c][k] = ClaimName(handler[c][k], x)]
              /\ held' = [held EXCEPT ![c][k] = @ \cup {x}]
           \/ UNCHANGED <<handler, held>>
    BY DEF Use
  <1>3. [op |-> op, kind |-> k, names |-> <<x>>] \in Command
    BY DEF Command
  <1>4. /\ queue' \in [Clients -> Seq(Command)]
        /\ \A d \in Clients : d # c => queue'[d] = queue[d]
        /\ queue'[c] = Append(queue[c], [op |-> op, kind |-> k, names |-> <<x>>])
    BY <1>2, <1>3, IssueIs
  <1>5. ClaimName(handler[c][k], x) \in Handlers
    <2> DEFINE h == handler[c][k]
               rest == RemoveFirst(h.reusable, x)
    <2>1. h \in Handlers /\ h.last + 1 \in Nat
      BY <1>1 DEF Handlers
    <2>2. rest \in Seq(Names)
      BY <2>1, RemoveFirstIs DEF Handlers
    <2>3. ClaimName(h, x) = IF x >= h.last THEN [h EXCEPT !.last = h.last + 1]
                                           ELSE [h EXCEPT !.reusable = rest]
      BY DEF ClaimName
    <2> HIDE DEF rest, h
    <2>4. ClaimName(h, x) \in Handlers
      BY <2>1, <2>2, <2>3 DEF Handlers
    <2> QED BY <2>4 DEF h
  <1> DEFINE claimed == ClaimName(handler[c][k], x)
  <1> HIDE DEF claimed
  <1>6. /\ handler' \in [Clients -> [Kinds -> Handlers]]
        /\ held' \in [Clients -> [Kinds -> SUBSET Names]]
        /\ x \in held[c][k] => UNCHANGED <<handler, held>>
    <2>1. CASE UNCHANGED <<handler, held>>
      BY <1>1, <2>1
    <2>2. CASE /\ x \notin held[c][k]
               /\ handler' = [handler EXCEPT ![c][k] = claimed]
               /\ held' = [held EXCEPT ![c][k] = @ \cup {x}]
      <3>1. claimed \in Handlers
        BY <1>5 DEF claimed
      <3>2. handler' \in [Clients -> [Kinds -> Handlers]]
        BY <1>1, <2>2, <3>1
      <3>3. held' \in [Clients -> [Kinds -> SUBSET Names]]
        BY <1>1, <2>2
      <3> QED BY <2>2, <3>2, <3>3
    <2> QED BY <1>2, <2>1, <2>2 DEF claimed
  <1> QED BY <1>2, <1>4, <1>6
(* The driver answered made for the names of the command.                   *)
GenHandled(c, made) ==
  LET cmd == Head(queue[c]) IN
    /\ cmd.op = "gen" /\ hand[c] = NoHand /\ Done(c) /\ UNCHANGED <<used, handler, held>>
    /\ made \in [DOMAIN cmd.names -> DriverNames \ objects[c][cmd.kind]] /\ IsInjective(made)
    /\ objects' \in [Clients -> [Kinds -> SUBSET Nat]]
    /\ objects'[c][cmd.kind] = objects[c][cmd.kind] \cup Range(made)
    /\ own' \in [Clients -> [Kinds -> [Names -> Nat]]]
    /\ \A x \in Names : x \notin Range(cmd.names) => own'[c][cmd.kind][x] = own[c][cmd.kind][x]
    /\ \A i \in DOMAIN cmd.names : IsInjective(cmd.names) /\ cmd.names[i] \in Names =>
         own'[c][cmd.kind][cmd.names[i]] = made[i] /\ mapping'[cmd.names[i]] = made[i]
    /\ mapping' \in [Names -> Nat]
    /\ \A x \in Names : x \notin Range(cmd.names) => mapping'[x] = mapping[x]
    /\ \A d \in Clients, j \in Kinds : ~(d = c /\ j = cmd.kind) =>
         objects'[d][j] = objects[d][j] /\ own'[d][j] = own[d][j]
    /\ hand' \in [Clients -> {NoHand} \cup Hands]
    /\ \A d \in Clients : hand[d] = NoHand => hand'[d] = NoHand

LEMMA HandleGenIs ==
  ASSUME TypeOK, NEW c \in Clients, HandleGen(c)
  PROVE  \E made : GenHandled(c, made)
  <1> DEFINE cmd == Head(queue[c])
             k == cmd.kind
             names == cmd.names
  <1>1. queue[c] # << >> /\ cmd.op = "gen" /\ hand[c] = NoHand
    BY DEF HandleGen, Handling
  <1>2. k \in Kinds /\ names \in Batches
    BY <1>1, HeadIs
  <1>3. names \in Seq(Nat)
    <2>1. names \in Seq(Names \cup {0}) /\ Names \cup {0} \subseteq Nat
      BY <1>2, BatchIs, NamesAre
    <2> QED BY <2>1, SeqMonotonic, Zenon
  <1> DEFINE filled(made) ==
               [x \in Names |-> IF \E i \in DOMAIN names : names[i] = x
                                THEN made[CHOOSE i \in DOMAIN names : names[i] = x]
                                ELSE own[c][k][x]]
  <1>4. PICK made \in [DOMAIN names -> DriverNames \ objects[c][k]] :
          /\ IsInjective(made)
          /\ objects' = [objects EXCEPT ![c][k] = @ \cup Range(made)]
          /\ mapping' = Inserted(mapping, names, made)
          /\ hand' = AfterFree(hand, names)
          /\ own' = [own EXCEPT ![c][k] = filled(made)]
          /\ Done(c)
          /\ UNCHANGED <<used, handler, held>>
    BY DEF HandleGen
  <1> HIDE DEF cmd, filled
  <1>5. /\ objects \in [Clients -> [Kinds -> SUBSET Nat]]
        /\ own \in [Clients -> [Kinds -> [Names -> Nat]]]
        /\ mapping \in [Names -> Nat] /\ hand \in [Clients -> {NoHand} \cup Hands]
    BY DEF TypeOK, Hands
  <1>6. made \in [DOMAIN names -> Nat] /\ Range(made) \subseteq Nat
    BY <1>4, NamesAre DEF Range
  <1>7. /\ objects' \in [Clients -> [Kinds -> SUBSET Nat]]
        /\ objects'[c][k] = objects[c][k] \cup Range(made)
        /\ \A d \in Clients, j \in Kinds : ~(d = c /\ j = k) => objects'[d][j] = objects[d][j]
    <2> DEFINE new == objects[c][k] \cup Range(made)
    <2>1. new \in SUBSET Nat /\ objects' = [objects EXCEPT ![c][k] = new]
      BY <1>2, <1>4, <1>5, <1>6
    <2> HIDE DEF new
    <2>2. /\ objects' \in [Clients -> [Kinds -> SUBSET Nat]] /\ objects'[c][k] = new
          /\ \A d \in Clients, j \in Kinds : ~(d = c /\ j = k) => objects'[d][j] = objects[d][j]
      BY <1>2, <1>5, <2>1
    <2> QED BY <2>2 DEF new
  <1>8. /\ filled(made) \in [Names -> Nat]
        /\ \A x \in Names : x \notin Range(names) => filled(made)[x] = own[c][k][x]
        /\ \A i \in DOMAIN names : IsInjective(names) /\ names[i] \in Names =>
             filled(made)[names[i]] = made[i]
    <2> DEFINE at(x) == CHOOSE i \in DOMAIN names : names[i] = x
    <2>1. \A x \in Names : x \in Range(names) =>
             at(x) \in DOMAIN names /\ names[at(x)] = x
      BY DEF Range
    <2>2. \A x \in Names : (\E i \in DOMAIN names : names[i] = x) <=> x \in Range(names)
      BY DEF Range
    <2>3. filled(made) = [x \in Names |-> IF \E i \in DOMAIN names : names[i] = x
                                          THEN made[at(x)] ELSE own[c][k][x]]
      BY Zenon DEF filled
    <2>4. \A x \in Names : own[c][k][x] \in Nat
      BY <1>2, <1>5
    <2> HIDE DEF at, names
    <2>5. \A x \in Names : x \in Range(names) => made[at(x)] \in Nat
      BY <1>6, <2>1
    <2>6. /\ filled(made) \in [Names -> Nat]
          /\ \A x \in Names : x \notin Range(names) => filled(made)[x] = own[c][k][x]
          /\ \A x \in Names : x \in Range(names) => filled(made)[x] = made[at(x)]
      BY <2>2, <2>3, <2>4, <2>5
    <2>7. ASSUME NEW i \in DOMAIN names, IsInjective(names), names[i] \in Names
          PROVE  filled(made)[names[i]] = made[i]
      <3>1. names[i] \in Range(names)
        BY DEF Range
      <3>2. at(names[i]) = i
        BY <2>1, <2>7, <3>1 DEF IsInjective
      <3> QED BY <2>6, <2>7, <3>1, <3>2
    <2> QED BY <2>6, <2>7
  <1>9. /\ own' \in [Clients -> [Kinds -> [Names -> Nat]]]
        /\ own'[c][k] = filled(made)
        /\ \A d \in Clients, j \in Kinds : ~(d = c /\ j = k) => own'[d][j] = own[d][j]
    BY <1>2, <1>4, <1>5, <1>8
  <1>10. /\ mapping' \in [Names -> Nat]
         /\ \A x \in Names :
              /\ x \notin Range(names) => mapping'[x] = mapping[x]
              /\ \A i \in DOMAIN names : IsInjective(names) /\ names[i] = x => mapping'[x] = made[i]
    <2> HIDE DEF names
    <2> DEFINE map == Inserted(mapping, names, made)
    <2>1. /\ map \in [Names -> Nat]
          /\ \A x \in Names :
               /\ x \notin Range(names) => map[x] = mapping[x]
               /\ \A i \in DOMAIN names : IsInjective(names) /\ names[i] = x => map[x] = made[i]
      BY <1>3, <1>5, <1>6, InsertedIs, Zenon
    <2> QED BY <1>4, <2>1
  <1>11. /\ hand' \in [Clients -> {NoHand} \cup Hands]
         /\ \A d \in Clients : hand[d] = NoHand => hand'[d] = NoHand
    BY <1>4, <1>5, AfterFreeIs, Zenon
  <1>12. GenHandled(c, made)
    <2> HIDE DEF k, names
    <2>1. \A i \in DOMAIN names : IsInjective(names) /\ names[i] \in Names =>
             own'[c][k][names[i]] = made[i] /\ mapping'[names[i]] = made[i]
      BY <1>8, <1>9, <1>10
    <2>2. \A x \in Names : x \notin Range(names) => own'[c][k][x] = own[c][k][x]
      BY <1>8, <1>9
    <2> QED BY <1>1, <1>4, <1>7, <1>9, <1>10, <1>11, <2>1, <2>2, Zenon DEF GenHandled, cmd, k, names
  <1> QED BY <1>12
DeleteHandled(c) ==
  LET cmd   == Head(queue[c])
      names == Range(cmd.names) \ {0}
  IN
    /\ cmd.op = "delete" /\ hand[c] = NoHand /\ Done(c) /\ UNCHANGED <<used, handler, held>>
    /\ objects' \in [Clients -> [Kinds -> SUBSET Nat]]
    /\ \A j \in Kinds : objects'[c][j] \subseteq objects[c][j]
    /\ DriverKind(cmd.kind) # cmd.kind => objects'[c][cmd.kind] = objects[c][cmd.kind]
    /\ DriverKind(cmd.kind) = cmd.kind /\ (\A x \in names : mapping[x] # 0) =>
         objects'[c][cmd.kind] = objects[c][cmd.kind] \ {mapping[x] : x \in names}
    /\ mapping' \in [Names -> Nat]
    /\ \A x \in Names : mapping'[x] = IF x \in names THEN 0 ELSE mapping[x]
    /\ own' \in [Clients -> [Kinds -> [Names -> Nat]]]
    /\ \A x \in Names : own'[c][cmd.kind][x] = IF x \in names THEN 0 ELSE own[c][cmd.kind][x]
    /\ \A d \in Clients, j \in Kinds : ~(d = c /\ j = cmd.kind) => own'[d][j] = own[d][j]
    /\ hand' \in [Clients -> {NoHand} \cup Hands]
    /\ \A d \in Clients : hand[d] = NoHand => hand'[d] = NoHand

LEMMA HandleDeleteIs ==
  ASSUME TypeOK, NEW c \in Clients, HandleDelete(c)
  PROVE  DeleteHandled(c)
  <1> DEFINE cmd == Head(queue[c])
             k == cmd.kind
             names == Range(cmd.names) \ {0}
             gone == {mapping[x] : x \in names} \ {0}
             raw == IF k = "shader" THEN {} ELSE {x \in names : mapping[x] = 0}
             left == [j \in Kinds |-> IF j = DriverKind(k)
                                     THEN objects[c][j] \ (gone \cup raw) ELSE objects[c][j]]
             cleared == [x \in Names |-> IF x \in names THEN 0 ELSE own[c][k][x]]
  <1>1. queue[c] # << >> /\ cmd.op = "delete" /\ hand[c] = NoHand
    BY DEF HandleDelete, Handling
  <1>2. k \in Kinds /\ names \subseteq Names /\ 0 \notin Names
    BY <1>1, HeadIs, BatchIs, NamesAre
  <1>3. /\ objects' = [objects EXCEPT ![c] = left]
        /\ mapping' = Taken(mapping, cmd.names)
        /\ hand' = AfterFree(hand, cmd.names)
        /\ own' = [own EXCEPT ![c][k] = cleared]
        /\ Done(c) /\ UNCHANGED <<used, handler, held>>
    BY DEF HandleDelete
  <1>4. /\ objects \in [Clients -> [Kinds -> SUBSET Nat]]
        /\ own \in [Clients -> [Kinds -> [Names -> Nat]]]
        /\ mapping \in [Names -> Nat] /\ hand \in [Clients -> {NoHand} \cup Hands]
    BY DEF TypeOK, Hands
  <1>5. /\ left \in [Kinds -> SUBSET Nat]
        /\ \A j \in Kinds : left[j] \subseteq objects[c][j]
        /\ \A j \in Kinds : j # DriverKind(k) => left[j] = objects[c][j]
        /\ (\A x \in names : mapping[x] # 0) /\ DriverKind(k) = k =>
             left[k] = objects[c][k] \ {mapping[x] : x \in names}
    <2> HIDE DEF names
    <2>1. \A j \in Kinds : objects[c][j] \in SUBSET Nat
      BY <1>4
    <2>2. ASSUME \A x \in names : mapping[x] # 0
          PROVE  gone \cup raw = {mapping[x] : x \in names}
      BY <2>2
    <2> HIDE DEF gone, raw, k
    <2>3. \A j \in Kinds : left[j] = IF j = DriverKind(k) THEN objects[c][j] \ (gone \cup raw)
                                     ELSE objects[c][j]
      OBVIOUS
    <2>4. left \in [Kinds -> SUBSET Nat]
      BY <2>1
    <2> QED BY <1>2, <2>2, <2>3, <2>4
  <1> HIDE DEF left, names
  <1>6. /\ objects' \in [Clients -> [Kinds -> SUBSET Nat]] /\ objects'[c] = left
    BY <1>3, <1>4, <1>5
  <1>7. /\ mapping' \in [Names -> Nat]
        /\ \A x \in Names : mapping'[x] = IF x \in names THEN 0 ELSE mapping[x]
    <2>1. \A x \in Names : x \in Range(cmd.names) <=> x \in names
      BY <1>2 DEF names
    <2>2. mapping' = [x \in Names |-> IF x \in Range(cmd.names) THEN 0 ELSE mapping[x]]
      BY <1>3 DEF Taken
    <2> HIDE DEF cmd
    <2> QED BY <1>4, <2>1, <2>2
  <1>8. /\ own' \in [Clients -> [Kinds -> [Names -> Nat]]]
        /\ \A x \in Names : own'[c][k][x] = IF x \in names THEN 0 ELSE own[c][k][x]
        /\ \A d \in Clients, j \in Kinds : ~(d = c /\ j = k) => own'[d][j] = own[d][j]
    <2> HIDE DEF k
    <2>1. cleared \in [Names -> Nat]
      BY <1>2, <1>4
    <2>2. \A x \in Names : cleared[x] = IF x \in names THEN 0 ELSE own[c][k][x]
      OBVIOUS
    <2> HIDE DEF cleared
    <2>3. /\ own' \in [Clients -> [Kinds -> [Names -> Nat]]] /\ own'[c][k] = cleared
          /\ \A d \in Clients, j \in Kinds : ~(d = c /\ j = k) => own'[d][j] = own[d][j]
      BY <1>2, <1>3, <1>4, <2>1
    <2> QED BY <2>2, <2>3
  <1>9. /\ hand' \in [Clients -> {NoHand} \cup Hands]
        /\ \A d \in Clients : hand[d] = NoHand => hand'[d] = NoHand
    BY <1>3, <1>4, AfterFreeIs, Zenon
  <1>10. /\ \A j \in Kinds : objects'[c][j] \subseteq objects[c][j]
         /\ DriverKind(k) # k => objects'[c][k] = objects[c][k]
         /\ DriverKind(k) = k /\ (\A x \in names : mapping[x] # 0) =>
              objects'[c][k] = objects[c][k] \ {mapping[x] : x \in names}
    <2> HIDE DEF k
    <2> QED BY <1>2, <1>5, <1>6
  <1> HIDE DEF gone, raw, cleared
  <1> QED BY <1>1, <1>3, <1>6, <1>7, <1>8, <1>9, <1>10, Zenon DEF DeleteHandled, names

(* The entry in hand after a lookup.                                        *)
LEMMA LookUpIs ==
  ASSUME TypeOK, NEW c \in Clients, LookUp(c)
  PROVE  LET cmd == Head(queue[c])
             x   == cmd.names[1]
         IN
           /\ queue[c] # << >> /\ cmd.op \in {"bind", "query"} /\ hand[c] = NoHand
           /\ UNCHANGED <<used, handler, held, mapping, objects, own>>
           /\ queue' \in [Clients -> Seq(Command)]
           /\ hand' \in [Clients -> {NoHand} \cup Hands]
           /\ \A d \in Clients : d # c => hand'[d] = hand[d] /\ queue'[d] = queue[d]
           /\ hand'[c] = NoHand \/ UNCHANGED queue
           /\ mapping[x] # 0 =>
                /\ UNCHANGED queue
                /\ hand'[c] = [kind |-> cmd.kind, name |-> x, found |-> TRUE, freed |-> FALSE]
  <1> DEFINE cmd == Head(queue[c])
             x == cmd.names[1]
             entry == [kind |-> cmd.kind, name |-> x, found |-> mapping[x] # 0, freed |-> FALSE]
  <1>1. queue[c] # << >> /\ cmd.op \in {"bind", "query"} /\ hand[c] = NoHand
    BY DEF LookUp, Handling
  <1>2. cmd.kind \in Kinds /\ x \in Names
    BY <1>1, HeadIs
  <1>3. /\ UNCHANGED <<used, handler, held, mapping, objects, own>>
        /\ \/ mapping[x] = 0 /\ Done(c) /\ UNCHANGED hand
           \/ UNCHANGED queue /\ hand' = [hand EXCEPT ![c] = entry]
    BY DEF LookUp
  <1>4. queue \in [Clients -> Seq(Command)] /\ hand \in [Clients -> {NoHand} \cup Hands]
    BY DEF TypeOK, Hands
  <1>5. entry \in Hands /\ (mapping[x] # 0) \in BOOLEAN
    BY <1>2 DEF Hands
  <1>6. mapping[x] # 0 => entry = [kind |-> cmd.kind, name |-> x, found |-> TRUE, freed |-> FALSE]
    OBVIOUS
  <1> HIDE DEF entry
  <1>7. CASE mapping[x] = 0 /\ Done(c) /\ UNCHANGED hand
    <2>1. /\ queue' \in [Clients -> Seq(Command)]
          /\ \A d \in Clients : d # c => queue'[d] = queue[d]
      BY <1>1, <1>7, DoneIs
    <2> QED BY <1>1, <1>3, <1>4, <1>7, <2>1, Zenon
  <1>8. CASE UNCHANGED queue /\ hand' = [hand EXCEPT ![c] = entry]
    <2>1. /\ hand' \in [Clients -> {NoHand} \cup Hands] /\ hand'[c] = entry
          /\ \A d \in Clients : d # c => hand'[d] = hand[d]
      BY <1>4, <1>5, <1>8
    <2>2. queue' \in [Clients -> Seq(Command)]
      BY <1>4, <1>8
    <2> QED BY <1>1, <1>3, <1>6, <1>8, <2>1, <2>2, Zenon
  <1> QED BY <1>3, <1>7, <1>8

LEMMA ApplyIs ==
  ASSUME TypeOK, NEW c \in Clients, Apply(c), queue[c] # << >>
  PROVE  LET cmd == Head(queue[c]) IN
           /\ hand[c] # NoHand /\ UNCHANGED <<used, handler, held, own>> /\ Done(c)
           /\ mapping' \in [Names -> Nat]
           /\ objects' \in [Clients -> [Kinds -> SUBSET Nat]]
           /\ \A j \in Kinds : j # cmd.kind => objects'[c][j] = objects[c][j]
           /\ hand' \in [Clients -> {NoHand} \cup Hands] /\ hand'[c] = NoHand
           /\ \A d \in Clients : hand[d] = NoHand => hand'[d] = NoHand
           /\ hand[c].found =>
                /\ UNCHANGED mapping
                /\ ~hand[c].freed => objects'[c][cmd.kind] \subseteq
                                       objects[c][cmd.kind] \cup {mapping[hand[c].name]}
                /\ objects[c][cmd.kind] \subseteq objects'[c][cmd.kind]
  <1> DEFINE cmd == Head(queue[c])
             x == hand[c].name
             made == IF hand[c].found THEN << >> ELSE <<x>>
  <1>1. hand[c] # NoHand /\ UNCHANGED <<used, handler, held, own>> /\ Done(c)
    BY DEF Apply
  <1>2. PICK d \in IF ~hand[c].found THEN {x}
                   ELSE IF hand[c].freed THEN DriverNames ELSE {mapping[x]} :
          /\ mapping' = Inserted(mapping, made, made)
          /\ hand' = [AfterFree(hand, made) EXCEPT ![c] = NoHand]
          /\ objects' = IF cmd.op = "bind"
                        THEN [objects EXCEPT ![c][cmd.kind] = @ \cup {d}] ELSE objects
    BY DEF Apply
  <1>3. /\ objects \in [Clients -> [Kinds -> SUBSET Nat]]
        /\ mapping \in [Names -> Nat] /\ hand \in [Clients -> {NoHand} \cup Hands]
    BY DEF TypeOK, Hands
  <1>4. x \in Names /\ x \in Nat /\ cmd.kind \in Kinds /\ mapping[x] \in Nat
    <2>1. hand[c] \in Hands
      BY <1>1, <1>3
    <2>2. x \in Names
      BY <2>1 DEF Hands
    <2> QED BY <1>3, <2>2, HeadIs, NamesAre
  <1>5. d \in Nat /\ (hand[c].found /\ ~hand[c].freed => d = mapping[x])
    BY <1>2, <1>4, NamesAre
  <1>6. made \in Seq(Nat) /\ made \in [DOMAIN made -> Nat] /\ (hand[c].found => Range(made) = {})
    BY <1>4 DEF Range
  <1> HIDE DEF made, cmd
  <1>7. /\ mapping' \in [Names -> Nat]
        /\ \A y \in Names : y \notin Range(made) => mapping'[y] = mapping[y]
    <2> DEFINE map == Inserted(mapping, made, made)
    <2>1. mapping \in [Names -> Nat] /\ made \in Seq(Nat) /\ made \in [DOMAIN made -> Nat]
      BY <1>3, <1>6
    <2>2. /\ map \in [Names -> Nat]
          /\ \A y \in Names :
               /\ y \notin Range(made) => map[y] = mapping[y]
               /\ \A i \in DOMAIN made : IsInjective(made) /\ made[i] = y => map[y] = made[i]
      BY <2>1, InsertedIs, Zenon
    <2> QED BY <1>2, <2>2
  <1>8. hand[c].found => mapping' = mapping
    BY <1>3, <1>6, <1>7
  <1>9. /\ objects' \in [Clients -> [Kinds -> SUBSET Nat]]
        /\ \A j \in Kinds : j # cmd.kind => objects'[c][j] = objects[c][j]
        /\ objects'[c][cmd.kind] \in {objects[c][cmd.kind], objects[c][cmd.kind] \cup {d}}
    <2> DEFINE new == objects[c][cmd.kind] \cup {d}
    <2>1. new \in SUBSET Nat
      BY <1>3, <1>4, <1>5
    <2>2. objects' = objects \/ objects' = [objects EXCEPT ![c][cmd.kind] = new]
      BY <1>2
    <2> HIDE DEF new
    <2>3. /\ objects' \in [Clients -> [Kinds -> SUBSET Nat]]
          /\ \A j \in Kinds : j # cmd.kind => objects'[c][j] = objects[c][j]
          /\ objects'[c][cmd.kind] \in {objects[c][cmd.kind], new}
      <3>1. CASE objects' = objects
        BY <1>3, <3>1
      <3>2. CASE objects' = [objects EXCEPT ![c][cmd.kind] = new]
        BY <1>3, <1>4, <2>1, <3>2
      <3> QED BY <2>2, <3>1, <3>2
    <2> QED BY <2>3 DEF new
  <1>10. /\ hand' \in [Clients -> {NoHand} \cup Hands] /\ hand'[c] = NoHand
         /\ \A o \in Clients : hand[o] = NoHand => hand'[o] = NoHand
    <2> DEFINE freed == AfterFree(hand, made)
    <2>1. /\ freed \in [Clients -> {NoHand} \cup Hands]
          /\ \A o \in Clients : hand[o] = NoHand => freed[o] = NoHand
      BY <1>3, AfterFreeIs, Zenon
    <2> HIDE DEF freed
    <2>2. hand' = [freed EXCEPT ![c] = NoHand]
      BY <1>2 DEF freed
    <2> QED BY <2>1, <2>2
  <1> QED BY <1>1, <1>5, <1>7, <1>8, <1>9, <1>10 DEF cmd
-----------------------------------------------------------------------------
(* A server that holds an entry still has the command it is for.           *)
Types == TypeOK /\ \A c \in Clients : hand[c] # NoHand => queue[c] # << >>

LEMMA TypesInit ==
  ASSUME Init
  PROVE  Types
  <1>1. /\ used \subseteq Kinds
        /\ held \in [Clients -> [Kinds -> SUBSET Names]]
        /\ queue \in [Clients -> Seq(Command)] /\ mapping \in [Names -> Nat]
        /\ objects \in [Clients -> [Kinds -> SUBSET Nat]]
        /\ own \in [Clients -> [Kinds -> [Names -> Nat]]]
    BY DEF Init
  <1>2. handler \in [Clients -> [Kinds -> [last : Nat, reusable : Seq(Names)]]]
    <2>1. [last |-> 0, reusable |-> << >>] \in [last : Nat, reusable : Seq(Names)]
      OBVIOUS
    <2> QED BY <2>1 DEF Init
  <1>3. hand \in [Clients -> {NoHand} \cup Hands] /\ \A c \in Clients : hand[c] = NoHand
    BY DEF Init
  <1> QED BY <1>1, <1>2, <1>3 DEF Types, TypeOK, Hands

LEMMA TypesNext ==
  ASSUME Types, [Next]_vars
  PROVE  Types'
  <1> USE DEF Types, Handlers, Hands
  <1>1. ASSUME NEW c \in Clients, Application(c) PROVE Types'
    <2>1. PICK k \in used : \/ \E n \in 1 .. MaxBatch : Gen(c, k, n)
                            \/ \E names \in Batches : Delete(c, k, names)
                            \/ \E op \in {"bind", "query"}, x \in Names : Use(c, op, k, x)
      BY <1>1 DEF Application
    <2>2. k \in Kinds
      BY DEF TypeOK
    <2>3. /\ UNCHANGED <<used, mapping, hand, objects, own>>
          /\ handler' \in [Clients -> [Kinds -> [last : Nat, reusable : Seq(Names)]]]
          /\ held' \in [Clients -> [Kinds -> SUBSET Names]]
          /\ queue' \in [Clients -> Seq(Command)]
          /\ \A d \in Clients : d # c => queue'[d] = queue[d]
          /\ \E cmd : queue'[c] = Append(queue[c], cmd)
      <3>1. CASE \E n \in 1 .. MaxBatch : Gen(c, k, n)
        <4>1. PICK n \in 1 .. MaxBatch : Gen(c, k, n)
          BY <3>1
        <4> DEFINE got == AllocNames(handler[c][k], n)
        <4> HIDE DEF got
        <4>2. got = AllocNames(handler[c][k], n)
          BY DEF got
        <4>3. GenIssued(c, k, n, got)
          BY <2>2, <4>1, <4>2, GenIs
        <4> QED BY <4>3 DEF GenIssued
      <3>2. CASE \E names \in Batches : Delete(c, k, names)
        <4>1. PICK names \in Batches : Delete(c, k, names)
          BY <3>2
        <4>2. /\ UNCHANGED <<used, mapping, hand, objects, own>>
              /\ handler' \in [Clients -> [Kinds -> Handlers]]
              /\ held' \in [Clients -> [Kinds -> SUBSET Names]]
              /\ queue' \in [Clients -> Seq(Command)]
              /\ \A d \in Clients : d # c => queue'[d] = queue[d]
              /\ queue'[c] = Append(queue[c], [op |-> "delete", kind |-> k, names |-> names])
          BY <2>2, <4>1, DeleteIs
        <4> QED BY <4>2
      <3>3. CASE \E op \in {"bind", "query"}, x \in Names : Use(c, op, k, x)
        <4>1. PICK op \in {"bind", "query"}, x \in Names : Use(c, op, k, x)
          BY <3>3
        <4>2. /\ UNCHANGED <<used, mapping, hand, objects, own>>
              /\ handler' \in [Clients -> [Kinds -> Handlers]]
              /\ held' \in [Clients -> [Kinds -> SUBSET Names]]
              /\ queue' \in [Clients -> Seq(Command)]
              /\ \A d \in Clients : d # c => queue'[d] = queue[d]
              /\ queue'[c] = Append(queue[c], [op |-> op, kind |-> k, names |-> <<x>>])
          BY <2>2, <4>1, UseIs
        <4> QED BY <4>2
      <3> QED BY <2>1, <3>1, <3>2, <3>3
    <2>4. queue'[c] # << >>
      <3>1. PICK cmd : queue'[c] = Append(queue[c], cmd)
        BY <2>3
      <3>2. queue[c] \in Seq(Command)
        BY DEF TypeOK
      <3>3. Len(Append(queue[c], cmd)) = Len(queue[c]) + 1 /\ Len(queue[c]) \in Nat
        BY <3>2
      <3>4. Len(queue'[c]) # 0
        BY <3>1, <3>3
      <3> QED BY <3>4
    <2>5. TypeOK'
      BY <2>3 DEF TypeOK
    <2>6. \A d \in Clients : hand'[d] # NoHand => queue'[d] # << >>
      BY <2>3, <2>4
    <2> QED BY <2>5, <2>6
  <1>2. ASSUME NEW c \in Clients, HandleGen(c) PROVE Types'
    <2>1. PICK made : GenHandled(c, made)
      BY <1>2, HandleGenIs
    <2>2. queue[c] # << >> /\ Done(c)
      BY <1>2, <2>1 DEF GenHandled, HandleGen, Handling
    <2>3. queue' \in [Clients -> Seq(Command)] /\ \A d \in Clients : d # c => queue'[d] = queue[d]
      BY <2>2, DoneIs
    <2>4. TypeOK'
      BY <2>1, <2>3 DEF TypeOK, GenHandled
    <2>5. \A d \in Clients : hand'[d] # NoHand => queue'[d] # << >>
      BY <2>1, <2>3 DEF GenHandled
    <2> QED BY <2>4, <2>5
  <1>3. ASSUME NEW c \in Clients, HandleDelete(c) PROVE Types'
    <2>1. DeleteHandled(c)
      BY <1>3, HandleDeleteIs
    <2>2. queue[c] # << >> /\ Done(c)
      BY <1>3, <2>1 DEF DeleteHandled, HandleDelete, Handling
    <2>3. queue' \in [Clients -> Seq(Command)] /\ \A d \in Clients : d # c => queue'[d] = queue[d]
      BY <2>2, DoneIs
    <2>4. TypeOK'
      BY <2>1, <2>3 DEF TypeOK, DeleteHandled
    <2>5. \A d \in Clients : hand'[d] # NoHand => queue'[d] # << >>
      BY <2>1, <2>3 DEF DeleteHandled
    <2> QED BY <2>4, <2>5
  <1>4. ASSUME NEW c \in Clients, LookUp(c) PROVE Types'
    <2>1. /\ queue[c] # << >> /\ UNCHANGED <<used, handler, held, mapping, objects, own>>
          /\ queue' \in [Clients -> Seq(Command)]
          /\ hand' \in [Clients -> {NoHand} \cup Hands]
          /\ \A d \in Clients : d # c => hand'[d] = hand[d] /\ queue'[d] = queue[d]
          /\ hand'[c] = NoHand \/ UNCHANGED queue
      BY <1>4, LookUpIs
    <2>2. TypeOK'
      BY <2>1 DEF TypeOK
    <2>3. \A d \in Clients : hand'[d] # NoHand => queue'[d] # << >>
      BY <2>1
    <2> QED BY <2>2, <2>3
  <1>5. ASSUME NEW c \in Clients, Apply(c) PROVE Types'
    <2>1. queue[c] # << >>
      BY <1>5 DEF Apply
    <2>2. /\ UNCHANGED <<used, handler, held, own>> /\ Done(c)
          /\ mapping' \in [Names -> Nat] /\ objects' \in [Clients -> [Kinds -> SUBSET Nat]]
          /\ hand' \in [Clients -> {NoHand} \cup Hands] /\ hand'[c] = NoHand
          /\ \A d \in Clients : hand[d] = NoHand => hand'[d] = NoHand
      BY <1>5, <2>1, ApplyIs
    <2>3. queue' \in [Clients -> Seq(Command)] /\ \A d \in Clients : d # c => queue'[d] = queue[d]
      BY <2>1, <2>2, DoneIs
    <2>4. TypeOK'
      BY <2>2, <2>3 DEF TypeOK
    <2>5. \A d \in Clients : hand'[d] # NoHand => queue'[d] # << >>
      BY <2>2, <2>3
    <2> QED BY <2>4, <2>5
  <1>6. CASE UNCHANGED vars
    BY <1>6 DEF vars, TypeOK
  <1> QED BY <1>1, <1>2, <1>3, <1>4, <1>5, <1>6 DEF Next, Server

(* The allocators, the queues, the table and the entries in the servers'   *)
(* hands stay of their types, for any clients, careful or not.             *)
THEOREM TypeCorrect == Spec => []TypeOK
  <1>1. Init => Types
    BY TypesInit
  <1>2. Types /\ [Next]_vars => Types'
    BY TypesNext
  <1>3. Types => TypeOK
    BY DEF Types
  <1> QED BY <1>1, <1>2, <1>3, PTL DEF Spec
-----------------------------------------------------------------------------
(* A name is handed out once at a time.                                    *)
FreeOf(h, S) ==
  /\ IsInjective(h.reusable)
  /\ Range(h.reusable) \cap S = {}
  /\ Range(h.reusable) \cup S \subseteq 1 .. h.last

LEMMA AllocatedFresh ==
  ASSUME NEW h \in [last : Nat, reusable : Seq(Names)], NEW n \in Nat, NEW S,
         NEW got, Allocated(h, n, got), FreeOf(h, S)
  PROVE  /\ IsInjective(got.names) /\ Range(got.names) \cap S = {}
         /\ FreeOf(got.rest, S \cup Range(got.names))
  <1>1. PICK r \in Nat :
          /\ r <= n /\ r <= Len(h.reusable) /\ (r < n => r = Len(h.reusable))
          /\ got.names \in Seq(Nat \ {0}) /\ Len(got.names) = n
          /\ \A i \in 1 .. n : got.names[i] = IF i <= r THEN h.reusable[i] ELSE h.last + (i - r)
          /\ got.rest \in [last : Nat, reusable : Seq(Names)]
          /\ got.rest.last = h.last + n - r
          /\ Len(got.rest.reusable) = Len(h.reusable) - r
          /\ \A i \in 1 .. Len(h.reusable) - r : got.rest.reusable[i] = h.reusable[r + i]
    BY DEF Allocated
  <1> DEFINE s == h.reusable
             L == Len(s)
             g == got.names
             t == got.rest.reusable
             last == h.last
  <1>2. /\ L \in Nat /\ DOMAIN s = 1 .. L /\ DOMAIN g = 1 .. n /\ DOMAIN t = 1 .. L - r
        /\ last \in Nat /\ got.rest.last = last + n - r
        /\ r \in Nat /\ r <= n /\ r <= L /\ (r < n => r = L)
    BY <1>1
  <1>3. /\ \A i, j \in 1 .. L : s[i] = s[j] => i = j
        /\ \A i \in 1 .. L : s[i] \in Nat /\ 1 <= s[i] /\ s[i] <= last /\ s[i] \notin S
        /\ \A y \in S : y \in Nat /\ 1 <= y /\ y <= last
    <2>1. \A i \in 1 .. L : s[i] \in Range(s)
      BY <1>2 DEF Range
    <2>2. \A i, j \in 1 .. L : s[i] = s[j] => i = j
      BY <1>2 DEF FreeOf, IsInjective
    <2>3. Range(s) \cap S = {} /\ Range(s) \subseteq 1 .. last /\ S \subseteq 1 .. last
      BY DEF FreeOf
    <2> HIDE DEF s, last, L
    <2> QED BY <1>2, <2>1, <2>2, <2>3
  <1>4. /\ \A i \in 1 .. n : i <= r => g[i] = s[i] /\ i \in 1 .. L
        /\ \A i \in 1 .. n : ~(i <= r) => g[i] = last + (i - r)
    BY <1>1, <1>2
  <1>5. \A i \in 1 .. L - r : t[i] = s[r + i] /\ r + i \in 1 .. L
    BY <1>1, <1>2
  <1> HIDE DEF s, L, g, t, last
  <1>6. \A i, j \in 1 .. n : g[i] = g[j] => i = j
    <2> SUFFICES ASSUME NEW i \in 1 .. n, NEW j \in 1 .. n, g[i] = g[j] PROVE i = j
      OBVIOUS
    <2>1. CASE i <= r /\ j <= r
      BY <1>3, <1>4, <2>1
    <2>2. CASE ~(i <= r) /\ ~(j <= r)
      BY <1>2, <1>4, <2>2
    <2>3. CASE i <= r /\ ~(j <= r)
      <3>1. g[i] \in Nat /\ g[i] <= last /\ g[j] = last + (j - r) /\ j - r >= 1
        BY <1>2, <1>3, <1>4, <2>3
      <3> QED BY <1>2, <3>1
    <2>4. CASE ~(i <= r) /\ j <= r
      <3>1. g[j] \in Nat /\ g[j] <= last /\ g[i] = last + (i - r) /\ i - r >= 1
        BY <1>2, <1>3, <1>4, <2>4
      <3> QED BY <1>2, <3>1
    <2> QED BY <2>1, <2>2, <2>3, <2>4
  <1>7. \A i \in 1 .. n : g[i] \notin S /\ g[i] \in 1 .. last + n - r
    <2> SUFFICES ASSUME NEW i \in 1 .. n PROVE g[i] \notin S /\ g[i] \in 1 .. last + n - r
      OBVIOUS
    <2>1. CASE i <= r
      BY <1>2, <1>3, <1>4, <2>1
    <2>2. CASE ~(i <= r)
      <3>1. g[i] = last + (i - r) /\ i - r >= 1 /\ i - r <= n - r
        BY <1>2, <1>4, <2>2
      <3> QED BY <1>2, <1>3, <3>1
    <2> QED BY <2>1, <2>2
  <1>8. \A i, j \in 1 .. L - r : t[i] = t[j] => i = j
    <2> SUFFICES ASSUME NEW i \in 1 .. L - r, NEW j \in 1 .. L - r, t[i] = t[j] PROVE i = j
      OBVIOUS
    <2>1. r + i = r + j
      BY <1>3, <1>5
    <2> QED BY <1>2, <2>1
  <1>9. \A i \in 1 .. L - r : /\ t[i] \notin S /\ t[i] \in 1 .. last + n - r
                             /\ \A j \in 1 .. n : t[i] # g[j]
    <2> SUFFICES ASSUME NEW i \in 1 .. L - r
                 PROVE  /\ t[i] \notin S /\ t[i] \in 1 .. last + n - r
                        /\ \A j \in 1 .. n : t[i] # g[j]
      OBVIOUS
    <2>1. /\ t[i] \in Nat /\ 1 <= t[i] /\ t[i] <= last /\ t[i] \notin S
          /\ t[i] = s[r + i] /\ r + i \in 1 .. L /\ i \in Nat \ {0}
      BY <1>2, <1>3, <1>5
    <2>2. ASSUME NEW j \in 1 .. n, t[i] = g[j] PROVE FALSE
      <3>1. CASE j <= r
        <4>1. r + i = j
          BY <1>3, <1>4, <2>1, <2>2, <3>1
        <4> QED BY <1>2, <2>1, <3>1, <4>1
      <3>2. CASE ~(j <= r)
        BY <1>2, <1>4, <2>1, <2>2, <3>2
      <3> QED BY <3>1, <3>2
    <2>3. t[i] \in 1 .. last + n - r
      BY <1>2, <2>1
    <2> QED BY <2>1, <2>2, <2>3
  <1>10. \A y \in S : y \in 1 .. last + n - r
    BY <1>2, <1>3
  <1>11. Range(g) = {g[i] : i \in 1 .. n} /\ Range(t) = {t[i] : i \in 1 .. L - r}
    BY <1>2 DEF Range, g, t
  <1>12. IsInjective(g) /\ IsInjective(t)
    BY <1>2, <1>6, <1>8 DEF IsInjective, g, t
  <1>13. Range(g) \cap S = {}
    BY <1>7, <1>11
  <1>14. Range(t) \cap (S \cup Range(g)) = {}
    BY <1>9, <1>11
  <1>15. Range(t) \cup (S \cup Range(g)) \subseteq 1 .. last + n - r
    BY <1>7, <1>9, <1>10, <1>11
  <1> QED BY <1>2, <1>12, <1>13, <1>14, <1>15 DEF FreeOf, g, t, last
LEMMA FreeInit ==
  ASSUME Init
  PROVE  WaitingNamesAreFree
  <1> SUFFICES ASSUME NEW c \in Clients, NEW k \in Kinds
               PROVE  FreeOf(handler[c][k], held[c][k])
    BY Zenon DEF WaitingNamesAreFree, FreeOf
  <1>1. handler[c][k].reusable = << >> /\ held[c][k] = {}
    BY DEF Init
  <1> QED BY <1>1 DEF FreeOf, IsInjective, Range

(* The kinds a step of a client leaves alone keep their names.             *)
LEMMA FreeOthers ==
  ASSUME WaitingNamesAreFree, NEW c \in Clients, NEW k \in Kinds,
         FreeOf(handler[c][k], held[c][k])',
         \A d \in Clients, j \in Kinds : ~(d = c /\ j = k) =>
           handler'[d][j] = handler[d][j] /\ held'[d][j] = held[d][j]
  PROVE  WaitingNamesAreFree'
  <1>1. ASSUME NEW d \in Clients, NEW j \in Kinds
        PROVE  FreeOf(handler[d][j], held[d][j])'
    <2>1. FreeOf(handler[d][j], held[d][j])
      BY Zenon DEF WaitingNamesAreFree, FreeOf
    <2>2. CASE ~(d = c /\ j = k)
      <3>1. handler'[d][j] = handler[d][j] /\ held'[d][j] = held[d][j]
        BY <2>2
      <3> QED BY <2>1, <3>1 DEF FreeOf
    <2> QED BY <2>2
  <1> QED BY <1>1, Zenon DEF WaitingNamesAreFree, FreeOf

LEMMA FreeNext ==
  ASSUME Careful, TypeOK, WaitingNamesAreFree, [Next]_vars
  PROVE  WaitingNamesAreFree'
  <1>1. ASSUME UNCHANGED <<handler, held>> PROVE WaitingNamesAreFree'
    BY <1>1 DEF WaitingNamesAreFree
  <1>2. \A c \in Clients, k \in Kinds : FreeOf(handler[c][k], held[c][k])
    BY Zenon DEF WaitingNamesAreFree, FreeOf
  <1>3. used \subseteq Kinds
    BY DEF TypeOK
  <1>4. ASSUME NEW c \in Clients, NEW k \in used, NEW n \in 1 .. MaxBatch, Gen(c, k, n)
        PROVE  WaitingNamesAreFree'
    <2> DEFINE h == handler[c][k]
               got == AllocNames(h, n)
    <2>1. k \in Kinds /\ n \in Nat /\ h \in [last : Nat, reusable : Seq(Names)]
      BY <1>3, NamesAre DEF TypeOK
    <2> HIDE DEF got
    <2>2. got = AllocNames(handler[c][k], n)
      BY DEF got
    <2>3. GenIssued(c, k, n, got)
      BY <1>4, <2>1, <2>2, GenIs
    <2> DEFINE S == held[c][k]
               all == S \cup Range(got.names)
    <2>4. Allocated(h, n, got) /\ FreeOf(h, S)
      BY <1>2, <2>1, <2>3 DEF GenIssued
    <2> HIDE DEF h, S
    <2>5. FreeOf(got.rest, S \cup Range(got.names))
      BY <2>1, <2>4, AllocatedFresh, Zenon
    <2>6. FreeOf(got.rest, all)
      BY <2>5
    <2>7. handler'[c][k] = got.rest /\ held'[c][k] = all
      BY <2>3 DEF S, GenIssued
    <2> HIDE DEF all
    <2>8. FreeOf(handler[c][k], held[c][k])'
      BY <2>6, <2>7 DEF FreeOf
    <2>9. \A d \in Clients, j \in Kinds : ~(d = c /\ j = k) =>
            handler'[d][j] = handler[d][j] /\ held'[d][j] = held[d][j]
      BY <2>3, Zenon DEF GenIssued
    <2> QED BY <2>1, <2>8, <2>9, FreeOthers, Zenon
  <1>5. ASSUME NEW c \in Clients, NEW k \in used, NEW names \in Batches, Delete(c, k, names)
        PROVE  WaitingNamesAreFree'
    <2>1. k \in Kinds
      BY <1>3
    <2> DEFINE h == handler[c][k]
               S == held[c][k]
               list == IF Recycles(k) THEN Returned(h.reusable, names) ELSE h.reusable
    <2>2. /\ Range(names) \subseteq Passed(c, k) \cup {0} /\ IsInjective(names)
          /\ handler'[c][k].last = h.last
          /\ handler'[c][k].reusable = list
          /\ held'[c][k] = S \ Range(names)
          /\ \A d \in Clients, j \in Kinds : ~(d = c /\ j = k) =>
               handler'[d][j] = handler[d][j] /\ held'[d][j] = held[d][j]
      BY <1>5, <2>1, DeleteIs
    <2>3. Range(names) \subseteq S \cup {0}
      BY <2>2 DEF Passed
    <2>4. /\ h.reusable \in Seq(Names) /\ names \in Seq(Names \cup {0})
          /\ Names \subseteq Nat \ {0} /\ S \subseteq Names /\ Range(h.reusable) \subseteq Names
      <3>1. h.reusable \in Seq(Names) /\ S \subseteq Names
        BY <2>1 DEF TypeOK
      <3> QED BY <3>1, BatchIs, NamesAre DEF Range
    <2>5. FreeOf(h, S)
      BY <1>2, <2>1
    <2>6. Range(h.reusable) \cap Range(names) = {}
      BY <2>3, <2>4, <2>5 DEF FreeOf
    <2> HIDE DEF h, S
    <2>7. /\ Range(Returned(h.reusable, names)) = Range(h.reusable) \cup (Range(names) \ {0})
          /\ IsInjective(Returned(h.reusable, names))
      <3> DEFINE back == Returned(h.reusable, names)
                 list0 == h.reusable
      <3>1. /\ IsInjective(list0) /\ IsInjective(names) /\ Range(list0) \cap Range(names) = {}
            /\ Names \subseteq Nat \ {0} /\ list0 \in Seq(Names) /\ names \in Seq(Names \cup {0})
        BY <2>2, <2>4, <2>5, <2>6 DEF FreeOf
      <3>2. back = Returned(list0, names)
        OBVIOUS
      <3> HIDE DEF back, list0
      <3>3. /\ Returned(list0, names) \in Seq(Names)
            /\ Range(Returned(list0, names)) = Range(list0) \cup (Range(names) \ {0})
            /\ IsInjective(list0) /\ IsInjective(names) /\ Range(list0) \cap Range(names) = {} =>
                 IsInjective(Returned(list0, names))
        BY <3>1, ReturnedIs, Zenon
      <3> QED BY <3>1, <3>2, <3>3 DEF back, list0
    <2>8. /\ Range(list) \subseteq Range(h.reusable) \cup (Range(names) \ {0})
          /\ IsInjective(list)
      BY <2>5, <2>7 DEF FreeOf
    <2> HIDE DEF list
    <2>9. /\ Range(list) \cap (S \ Range(names)) = {}
          /\ Range(list) \cup (S \ Range(names)) \subseteq 1 .. h.last
      BY <2>3, <2>5, <2>8 DEF FreeOf
    <2>10. FreeOf(handler[c][k], held[c][k])'
      BY <2>2, <2>8, <2>9 DEF FreeOf
    <2> QED BY <2>1, <2>2, <2>10, FreeOthers, Zenon
  <1>6. ASSUME NEW c \in Clients, NEW k \in used, NEW op \in {"bind", "query"}, NEW x \in Names,
               Use(c, op, k, x)
        PROVE  WaitingNamesAreFree'
    <2>1. k \in Kinds
      BY <1>3
    <2>2. x \in held[c][k]
      BY <1>6 DEF Use, Passed
    <2> QED BY <1>1, <1>6, <2>1, <2>2, UseIs
  <1>7. ASSUME NEW c \in Clients, Application(c) PROVE WaitingNamesAreFree'
    BY <1>4, <1>5, <1>6, <1>7, Zenon DEF Application
  <1>8. ASSUME NEW c \in Clients, Server(c) PROVE UNCHANGED <<handler, held>>
    BY <1>8, Zenon DEF Server, HandleGen, HandleDelete, LookUp, Apply
  <1>9. CASE UNCHANGED vars
    BY <1>1, <1>9 DEF vars
  <1> QED BY <1>1, <1>7, <1>8, <1>9 DEF Next

(* name_handler.c never hands out a name twice: what waits for reuse waits *)
(* once and nobody holds it, and the counter is ahead of every name that   *)
(* waits or is held, for any clients, kinds and batches of a careful       *)
(* application.                                                            *)
THEOREM NamesAreFree == ASSUME Careful PROVE Spec => []WaitingNamesAreFree
  <1> DEFINE Inv == Types /\ WaitingNamesAreFree
  <1>1. Init => Inv
    BY TypesInit, FreeInit
  <1>2. Inv /\ [Next]_vars => Inv'
    <2> SUFFICES ASSUME Inv, [Next]_vars PROVE Inv'
      OBVIOUS
    <2>1. Types'
      BY TypesNext
    <2>2. TypeOK
      BY DEF Types
    <2>3. WaitingNamesAreFree'
      BY <2>2, FreeNext
    <2> QED BY <2>1, <2>3
  <1>3. Inv => WaitingNamesAreFree
    OBVIOUS
  <1> HIDE DEF Inv
  <1> QED BY <1>1, <1>2, <1>3, PTL DEF Spec
-----------------------------------------------------------------------------
(* One client c and one kind k of object.  The names whose objects exist,  *)
(* Live, change command by command along the queue, and after the last     *)
(* command they are the names the application holds.                       *)
Live(c, k) == {x \in Names : own[c][k][x] # 0}

Fits(k, before, cmd, after) ==
  LET names == Range(cmd.names) \ {0} IN
    /\ cmd.kind = k
    /\ cmd.op = "gen" => /\ 0 \notin Range(cmd.names) /\ IsInjective(cmd.names)
                         /\ names \cap before = {} /\ after = before \cup names
    /\ cmd.op = "delete" => names \subseteq before /\ after = before \ names
    /\ cmd.op \in {"bind", "query"} => cmd.names[1] \in before /\ after = before

Chain(c, k, e) ==
  /\ e \in [1 .. Len(queue[c]) + 1 -> SUBSET Names]
  /\ e[1] = Live(c, k) /\ e[Len(queue[c]) + 1] = held[c][k]
  /\ \A i \in 1 .. Len(queue[c]) : Fits(k, e[i], queue[c][i], e[i + 1])
Followed(c, k) == \E e : Chain(c, k, e)

(* Nothing was ever made of the other kinds.                               *)
OthersUnused(c, k) ==
  \A j \in Kinds \ {k} :
    held[c][j] = {} /\ objects[c][j] = {} /\ \A x \in Names : own[c][j][x] = 0

(* The table is the history, and no two names share an object.             *)
Table(c, k) ==
  /\ \A x \in Names : mapping[x] = own[c][k][x]
  /\ \A x \in Live(c, k) : own[c][k][x] \in objects[c][k]
  /\ \A x, y \in Live(c, k) : own[c][k][x] = own[c][k][y] => x = y
  /\ 0 \notin objects[c][k]
  /\ k # "renderbuffer" =>
       \A v \in objects[c][k] : \E x \in Names : own[c][k][x] = v

(* The entry in hand was found, and nobody freed it since.                 *)
HandIs(c) ==
  hand[c] # NoHand =>
    /\ hand[c].found /\ ~hand[c].freed /\ queue[c] # << >>
    /\ Head(queue[c]).op \in {"bind", "query"}
    /\ hand[c].name = Head(queue[c]).names[1]

Lone(c, k) ==
  /\ used = {k} /\ Followed(c, k) /\ OthersUnused(c, k) /\ Table(c, k) /\ HandIs(c)

(* What the client thread issues fits what the application holds.          *)
LEMMA FollowedGrows ==
  ASSUME TypeOK, TypeOK', NEW c \in Clients, NEW k \in Kinds, Followed(c, k), UNCHANGED own,
         NEW cmd, queue'[c] = Append(queue[c], cmd), Fits(k, held[c][k], cmd, held'[c][k])
  PROVE  Followed(c, k)'
  <1> DEFINE q == queue[c]
             L == Len(q)
             now == held'[c][k]
  <1>1. PICK e : Chain(c, k, e)
    BY DEF Followed
  <1>2. q \in Seq(Command) /\ L \in Nat /\ now \in SUBSET Names
    BY DEF TypeOK
  <1>3. /\ Len(queue'[c]) = L + 1 /\ queue'[c][L + 1] = cmd
        /\ \A i \in 1 .. L : queue'[c][i] = q[i]
    BY <1>2
  <1>4. /\ e \in [1 .. L + 1 -> SUBSET Names] /\ e[1] = Live(c, k) /\ e[L + 1] = held[c][k]
        /\ \A i \in 1 .. L : Fits(k, e[i], q[i], e[i + 1])
    BY <1>1 DEF Chain
  <1>0. PICK f : f = [i \in 1 .. L + 2 |-> IF i = L + 2 THEN now ELSE e[i]]
    OBVIOUS
  <1> HIDE DEF q, L, now
  <1>5. /\ f \in [1 .. L + 2 -> SUBSET Names] /\ f[L + 2] = now
        /\ \A i \in 1 .. L + 1 : f[i] = e[i]
    BY <1>2, <1>4, <1>0
  <1>6. Live(c, k)' = Live(c, k)
    BY DEF Live
  <1>7. ASSUME NEW i \in 1 .. L + 1 PROVE Fits(k, f[i], queue'[c][i], f[i + 1])
    <2>1. CASE i = L + 1
      <3>1. f[i] = held[c][k] /\ queue'[c][i] = cmd /\ f[i + 1] = held'[c][k]
        BY <1>2, <1>3, <1>4, <1>5, <2>1 DEF now
      <3> QED BY <3>1
    <2>2. CASE i # L + 1
      <3>1. i \in 1 .. L /\ i \in 1 .. L + 1 /\ i + 1 \in 1 .. L + 1
        BY <1>2, <2>2
      <3>2. f[i] = e[i] /\ f[i + 1] = e[i + 1] /\ queue'[c][i] = q[i]
        BY <1>3, <1>5, <3>1
      <3> QED BY <1>4, <3>1, <3>2
    <2> QED BY <2>1, <2>2
  <1>8. f[1] = Live(c, k)' /\ f[L + 2] = held'[c][k]
    BY <1>2, <1>4, <1>5, <1>6 DEF now
  <1>9. Len(queue'[c]) + 1 = L + 2
    BY <1>2, <1>3
  <1>10. /\ f \in [1 .. Len(queue'[c]) + 1 -> SUBSET Names]
         /\ f[1] = Live(c, k)' /\ f[Len(queue'[c]) + 1] = held'[c][k]
         /\ \A i \in 1 .. Len(queue'[c]) : Fits(k, f[i], queue'[c][i], f[i + 1])
    BY <1>3, <1>5, <1>7, <1>8, <1>9
  <1>11. Chain(c, k, f)'
    BY <1>10 DEF Chain
  <1> QED BY <1>11, Zenon DEF Followed

(* What the server thread handles fits the objects that exist.             *)
LEMMA FollowedShrinks ==
  ASSUME TypeOK, NEW c \in Clients, NEW k \in Kinds, Followed(c, k), queue[c] # << >>
  PROVE  \E after \in SUBSET Names :
           /\ Fits(k, Live(c, k), Head(queue[c]), after)
           /\ Done(c) /\ UNCHANGED held /\ Live(c, k)' = after => Followed(c, k)'
  <1> DEFINE q == queue[c]
             L == Len(q)
  <1>1. PICK e : Chain(c, k, e)
    BY DEF Followed
  <1>2. /\ L \in Nat \ {0} /\ Head(q) = q[1] /\ Len(Tail(q)) = L - 1
        /\ \A i \in 1 .. Len(Tail(q)) : Tail(q)[i] = q[i + 1]
    BY HeadIs
  <1>3. /\ e \in [1 .. L + 1 -> SUBSET Names] /\ e[1] = Live(c, k) /\ e[L + 1] = held[c][k]
        /\ \A i \in 1 .. L : Fits(k, e[i], q[i], e[i + 1])
    BY <1>1 DEF Chain
  <1>0. PICK f : f = [i \in 1 .. L |-> e[i + 1]]
    OBVIOUS
  <1>4. e[2] \in SUBSET Names /\ Fits(k, Live(c, k), Head(q), e[2])
    <2>1. 1 \in 1 .. L /\ 2 \in 1 .. L + 1 /\ 1 + 1 = 2
      BY <1>2
    <2>2. Fits(k, e[1], q[1], e[1 + 1])
      BY <1>3, <2>1, Zenon
    <2> QED BY <1>2, <1>3, <2>1, <2>2
  <1>5. ASSUME Done(c), UNCHANGED held, Live(c, k)' = e[2] PROVE Followed(c, k)'
    <2>1. queue'[c] = Tail(q)
      BY <1>5, DoneIs
    <2> HIDE DEF q, L
    <2>2. f \in [1 .. L -> SUBSET Names] /\ \A i \in 1 .. L : f[i] = e[i + 1]
      BY <1>2, <1>3, <1>0
    <2>3. ASSUME NEW i \in 1 .. L - 1 PROVE Fits(k, f[i], queue'[c][i], f[i + 1])
      <3>1. i \in 1 .. L /\ i + 1 \in 1 .. L /\ i \in 1 .. Len(Tail(q))
        BY <1>2
      <3>2. f[i] = e[i + 1] /\ f[i + 1] = e[(i + 1) + 1] /\ queue'[c][i] = q[i + 1]
        BY <1>2, <2>1, <2>2, <3>1
      <3>3. Fits(k, e[i + 1], q[i + 1], e[(i + 1) + 1])
        BY <1>3, <3>1, Zenon
      <3> QED BY <3>2, <3>3
    <2>4. f[1] = Live(c, k)' /\ f[L] = held'[c][k]
      BY <1>2, <1>3, <1>5, <2>2
    <2>5. Len(queue'[c]) = L - 1 /\ (L - 1) + 1 = L
      BY <1>2, <2>1
    <2>6. /\ f \in [1 .. Len(queue'[c]) + 1 -> SUBSET Names]
          /\ f[1] = Live(c, k)' /\ f[Len(queue'[c]) + 1] = held'[c][k]
          /\ \A i \in 1 .. Len(queue'[c]) : Fits(k, f[i], queue'[c][i], f[i + 1])
      BY <2>2, <2>3, <2>4, <2>5
    <2>7. Chain(c, k, f)'
      BY <2>6 DEF Chain
    <2> QED BY <2>7, Zenon DEF Followed
  <1> QED BY <1>4, <1>5
LEMMA LoneInit ==
  ASSUME NEW c, Clients = {c}, KindsAtOnce = 1, Init
  PROVE  \E k \in Kinds : Lone(c, k)
  <1>1. IsFiniteSet(Kinds)
    <2>1. IsFiniteSet({"buffer"}) /\ IsFiniteSet({"texture"}) /\ IsFiniteSet({"framebuffer"})
          /\ IsFiniteSet({"renderbuffer"}) /\ IsFiniteSet({"shader"})
      BY FS_Singleton
    <2>2. ObjectKinds = ((({"buffer"} \cup {"texture"}) \cup {"framebuffer"})
                           \cup {"renderbuffer"}) \cup {"shader"}
      BY DEF ObjectKinds
    <2>3. IsFiniteSet(ObjectKinds)
      BY <2>1, <2>2, FS_Union
    <2> QED BY <2>3, NamesAre, FS_Subset
  <1>2. used \subseteq Kinds /\ Cardinality(used) = 1
    BY DEF Init
  <1>3. PICK k \in Kinds : used = {k}
    <2>1. IsFiniteSet(used)
      BY <1>1, <1>2, FS_Subset
    <2>2. PICK k : used = {k}
      BY <1>2, <2>1, FS_Singleton
    <2> QED BY <1>2, <2>2
  <1>4. /\ queue[c] = << >> /\ hand[c] = NoHand /\ \A x \in Names : mapping[x] = 0
        /\ \A j \in Kinds : /\ held[c][j] = {} /\ objects[c][j] = {}
                            /\ \A x \in Names : own[c][j][x] = 0
    BY DEF Init
  <1>5. Live(c, k) = {}
    BY <1>4 DEF Live
  <1>6. Followed(c, k)
    <2>1. PICK e : e = [i \in 1 .. 1 |-> {}]
      OBVIOUS
    <2>2. Len(queue[c]) = 0 /\ 1 .. 0 = {} /\ 0 + 1 = 1
      BY <1>4
    <2>3. e \in [1 .. 1 -> SUBSET Names] /\ e[1] = {}
      BY <2>1
    <2>4. Chain(c, k, e)
      BY <1>4, <1>5, <2>2, <2>3 DEF Chain
    <2> QED BY <2>4 DEF Followed
  <1>7. OthersUnused(c, k) /\ HandIs(c)
    BY <1>4 DEF OthersUnused, HandIs
  <1>8. Table(c, k)
    BY <1>4, <1>5 DEF Table
  <1> QED BY <1>3, <1>6, <1>7, <1>8 DEF Lone

(* The client thread: what it issues fits, the rest stays.                 *)
LEMMA LoneIssues ==
  ASSUME TypeOK, TypeOK', NEW c \in Clients, NEW k \in Kinds, Lone(c, k),
         UNCHANGED <<used, mapping, hand, objects, own>>,
         NEW cmd, queue'[c] = Append(queue[c], cmd), Fits(k, held[c][k], cmd, held'[c][k]),
         \A j \in Kinds \ {k} : held'[c][j] = held[c][j]
  PROVE  Lone(c, k)'
  <1>1. Followed(c, k)'
    BY FollowedGrows, Zenon DEF Lone
  <1>2. OthersUnused(c, k)'
    BY DEF Lone, OthersUnused
  <1>3. Live(c, k)' = Live(c, k)
    BY DEF Live
  <1>4. Table(c, k)'
    BY <1>3 DEF Lone, Table
  <1>5. HandIs(c)'
    <2>1. queue[c] \in Seq(Command) /\ queue'[c] \in Seq(Command)
      BY DEF TypeOK
    <2>2. queue[c] # << >> => queue'[c] # << >> /\ Head(queue'[c]) = Head(queue[c])
      <3> SUFFICES ASSUME queue[c] # << >>
                   PROVE  queue'[c] # << >> /\ Head(queue'[c]) = Head(queue[c])
        OBVIOUS
      <3>1. Len(queue[c]) \in Nat \ {0} /\ Head(queue[c]) = queue[c][1]
        BY HeadIs
      <3>2. Len(queue'[c]) = Len(queue[c]) + 1 /\ queue'[c][1] = queue[c][1]
        BY <2>1, <3>1
      <3>3. queue'[c] # << >>
        BY <3>1, <3>2
      <3>4. Head(queue'[c]) = queue'[c][1]
        BY <2>1, <3>3, HeadTailProperties
      <3> QED BY <3>1, <3>2, <3>3, <3>4
    <2> QED BY <2>2 DEF Lone, HandIs
  <1> QED BY <1>1, <1>2, <1>4, <1>5 DEF Lone

LEMMA LoneApplication ==
  ASSUME Careful, TypeOK, TypeOK', WaitingNamesAreFree,
         NEW c \in Clients, NEW k \in Kinds, Lone(c, k), Application(c)
  PROVE  Lone(c, k)'
  <1>1. used = {k} /\ Passed(c, k) = held[c][k] /\ held[c][k] \subseteq Names /\ 0 \notin Names
    BY NamesAre DEF Lone, Passed, TypeOK
  <1>2. \/ \E n \in 1 .. MaxBatch : Gen(c, k, n)
        \/ \E names \in Batches : Delete(c, k, names)
        \/ \E op \in {"bind", "query"}, x \in Names : Use(c, op, k, x)
    BY <1>1 DEF Application
  <1>3. CASE \E n \in 1 .. MaxBatch : Gen(c, k, n)
    <2>1. PICK n \in 1 .. MaxBatch : Gen(c, k, n)
      BY <1>3
    <2>2. PICK got : got = AllocNames(handler[c][k], n)
      OBVIOUS
    <2>3. GenIssued(c, k, n, got)
      BY <2>1, <2>2, GenIs
    <2>4. IsInjective(got.names) /\ Range(got.names) \cap held[c][k] = {}
      <3> DEFINE h == handler[c][k]
                 S == held[c][k]
      <3>1. h \in [last : Nat, reusable : Seq(Names)] /\ n \in Nat
        BY NamesAre DEF TypeOK
      <3>2. FreeOf(h, S)
        BY Zenon DEF WaitingNamesAreFree, FreeOf
      <3>3. Allocated(h, n, got)
        BY <2>3 DEF GenIssued
      <3> HIDE DEF h, S
      <3>4. IsInjective(got.names) /\ Range(got.names) \cap S = {}
        BY <3>1, <3>2, <3>3, AllocatedFresh
      <3> QED BY <3>4 DEF S
    <2> DEFINE cmd == [op |-> "gen", kind |-> k, names |-> got.names]
    <2>5. /\ UNCHANGED <<used, mapping, hand, objects, own>>
          /\ queue'[c] = Append(queue[c], cmd)
          /\ held'[c][k] = held[c][k] \cup Range(got.names)
          /\ \A j \in Kinds \ {k} : held'[c][j] = held[c][j]
          /\ 0 \notin Range(got.names)
      BY <1>1, <2>3 DEF GenIssued
    <2>6. Fits(k, held[c][k], cmd, held'[c][k])
      <3>1. cmd.kind = k /\ cmd.op = "gen" /\ cmd.names = got.names
        OBVIOUS
      <3> HIDE DEF cmd
      <3> QED BY <2>4, <2>5, <3>1 DEF Fits
    <2> HIDE DEF cmd
    <2> QED BY <2>5, <2>6, LoneIssues, Zenon
  <1>4. CASE \E names \in Batches : Delete(c, k, names)
    <2>1. PICK names \in Batches : Delete(c, k, names)
      BY <1>4
    <2> DEFINE cmd == [op |-> "delete", kind |-> k, names |-> names]
    <2>2. /\ UNCHANGED <<used, mapping, hand, objects, own>>
          /\ Range(names) \subseteq Passed(c, k) \cup {0}
          /\ held'[c][k] = held[c][k] \ Range(names)
          /\ \A d \in Clients, j \in Kinds : ~(d = c /\ j = k) =>
               handler'[d][j] = handler[d][j] /\ held'[d][j] = held[d][j]
          /\ queue'[c] = Append(queue[c], [op |-> "delete", kind |-> k, names |-> names])
      BY <2>1, DeleteIs
    <2>3. Fits(k, held[c][k], cmd, held'[c][k])
      <3>1. cmd.kind = k /\ cmd.op = "delete" /\ cmd.names = names
        OBVIOUS
      <3> HIDE DEF cmd
      <3> QED BY <1>1, <2>2, <3>1 DEF Fits
    <2>4. queue'[c] = Append(queue[c], cmd) /\ \A j \in Kinds \ {k} : held'[c][j] = held[c][j]
      BY <2>2
    <2> HIDE DEF cmd
    <2> QED BY <2>2, <2>3, <2>4, LoneIssues, Zenon
  <1>5. CASE \E op \in {"bind", "query"}, x \in Names : Use(c, op, k, x)
    <2>1. PICK op \in {"bind", "query"}, x \in Names : Use(c, op, k, x)
      BY <1>5
    <2> DEFINE cmd == [op |-> op, kind |-> k, names |-> <<x>>]
    <2>2. /\ UNCHANGED <<used, mapping, hand, objects, own>> /\ x \in Passed(c, k)
          /\ x \in held[c][k] => UNCHANGED <<handler, held>>
          /\ queue'[c] = Append(queue[c], [op |-> op, kind |-> k, names |-> <<x>>])
      BY <2>1, UseIs
    <2>3. Fits(k, held[c][k], cmd, held'[c][k])
      <3>1. cmd.kind = k /\ cmd.op \in {"bind", "query"} /\ cmd.names[1] = x
        OBVIOUS
      <3> HIDE DEF cmd
      <3> QED BY <1>1, <2>2, <3>1 DEF Fits
    <2>4. queue'[c] = Append(queue[c], cmd) /\ \A j \in Kinds \ {k} : held'[c][j] = held[c][j]
      BY <1>1, <2>2
    <2> HIDE DEF cmd
    <2> QED BY <2>2, <2>3, <2>4, LoneIssues, Zenon
  <1> QED BY <1>2, <1>3, <1>4, <1>5
(* The server thread makes the objects of fresh names.                     *)
LEMMA LoneHandlesGen ==
  ASSUME TypeOK, NEW c \in Clients, NEW k \in Kinds, Lone(c, k), HandleGen(c)
  PROVE  Lone(c, k)'
  <1> DEFINE cmd == Head(queue[c])
             names == cmd.names
  <1>1. PICK made : GenHandled(c, made)
    BY HandleGenIs
  <1>2. queue[c] # << >> /\ cmd.op = "gen"
    BY DEF HandleGen, Handling
  <1>3. PICK after \in SUBSET Names :
          /\ Fits(k, Live(c, k), Head(queue[c]), after)
          /\ Done(c) /\ UNCHANGED held /\ Live(c, k)' = after => Followed(c, k)'
    BY <1>2, FollowedShrinks DEF Lone
  <1> HIDE DEF cmd
  <1>4. /\ cmd.kind = k /\ IsInjective(names) /\ Range(names) \cap Live(c, k) = {}
        /\ 0 \notin Range(names) /\ after = Live(c, k) \cup Range(names)
    BY <1>2, <1>3 DEF Fits, cmd
  <1>5. names \in Batches /\ Range(names) \subseteq Names
    <2>1. names \in Batches
      BY <1>2, HeadIs DEF cmd
    <2> QED BY <1>4, <2>1, BatchIs
  <1>6. /\ hand[c] = NoHand /\ hand'[c] = NoHand /\ Done(c) /\ UNCHANGED <<used, handler, held>>
        /\ made \in [DOMAIN names -> DriverNames \ objects[c][k]] /\ IsInjective(made)
        /\ objects'[c][k] = objects[c][k] \cup Range(made)
        /\ \A x \in Names : x \notin Range(names) => own'[c][k][x] = own[c][k][x]
        /\ \A i \in DOMAIN names : names[i] \in Names =>
             own'[c][k][names[i]] = made[i] /\ mapping'[names[i]] = made[i]
        /\ \A x \in Names : x \notin Range(names) => mapping'[x] = mapping[x]
        /\ \A j \in Kinds \ {k} : objects'[c][j] = objects[c][j] /\ own'[c][j] = own[c][j]
    BY <1>1, <1>4 DEF GenHandled, cmd
  <1> HIDE DEF names
  <1>7. \A i \in DOMAIN names : /\ names[i] \in Range(names) /\ names[i] \in Names
                               /\ made[i] \in Range(made) /\ made[i] # 0
                               /\ made[i] \notin objects[c][k]
    <2>1. DOMAIN made = DOMAIN names
      BY <1>6
    <2> QED BY <1>5, <1>6, <2>1, NamesAre DEF Range
  <1>8. \A x \in Range(names) : \E i \in DOMAIN names : names[i] = x
    BY DEF Range
  <1>9. \A v \in Range(made) : \E i \in DOMAIN names : made[i] = v
    BY <1>6 DEF Range
  <1>10. \A x \in Range(names) : \E i \in DOMAIN names :
           names[i] = x /\ own'[c][k][x] = made[i] /\ mapping'[x] = made[i]
    BY <1>6, <1>7, <1>8
  <1>11. \A x \in Names : x \in Live(c, k) <=> own[c][k][x] # 0
    BY DEF Live
  <1>12. \A x \in Names : (x \in Live(c, k))' <=> own'[c][k][x] # 0
    BY DEF Live
  <1>13. \A x \in Names : (x \in Live(c, k))' <=> x \in Live(c, k) \/ x \in Range(names)
    <2> SUFFICES ASSUME NEW x \in Names
                 PROVE  (x \in Live(c, k))' <=> x \in Live(c, k) \/ x \in Range(names)
      OBVIOUS
    <2>1. CASE x \in Range(names)
      BY <1>7, <1>10, <1>12, <2>1
    <2>2. CASE x \notin Range(names)
      BY <1>6, <1>11, <1>12, <2>2
    <2> QED BY <2>1, <2>2
  <1>14. Live(c, k)' = after
    <2>1. Live(c, k)' \subseteq Names /\ after \subseteq Names
      BY DEF Live
    <2> QED BY <1>4, <1>13, <2>1
  <1>15. Followed(c, k)'
    BY <1>3, <1>6, <1>14
  <1>16. OthersUnused(c, k)'
    BY <1>6 DEF Lone, OthersUnused
  <1>17. Table(c, k)'
    <2> USE DEF Lone
    <2>1. \A x \in Names : mapping'[x] = own'[c][k][x]
      <3> SUFFICES ASSUME NEW x \in Names PROVE mapping'[x] = own'[c][k][x]
        OBVIOUS
      <3>1. mapping[x] = own[c][k][x]
        BY DEF Table
      <3> QED BY <1>6, <1>10, <3>1
    <2>2. /\ \A x \in Live(c, k) : own[c][k][x] \in objects[c][k]
          /\ \A x, y \in Live(c, k) : own[c][k][x] = own[c][k][y] => x = y
          /\ 0 \notin objects[c][k]
      BY DEF Table
    <2>3. \A x \in Names : (x \in Live(c, k))' =>
             \/ x \in Live(c, k) /\ own'[c][k][x] = own[c][k][x] /\ own'[c][k][x] \in objects[c][k]
             \/ \E i \in DOMAIN names : names[i] = x /\ own'[c][k][x] = made[i]
      BY <1>6, <1>10, <1>13, <2>2
    <2>4. \A x \in Live(c, k)' : x \in Names
      BY DEF Live
    <2>5. \A x \in Live(c, k)' : own'[c][k][x] \in objects'[c][k]
      BY <1>6, <1>7, <2>3, <2>4
    <2>6. \A x, y \in Live(c, k)' : own'[c][k][x] = own'[c][k][y] => x = y
      <3> SUFFICES ASSUME NEW x \in Live(c, k)', NEW y \in Live(c, k)',
                          own'[c][k][x] = own'[c][k][y]
                   PROVE  x = y
        OBVIOUS
      <3>1. x \in Names /\ y \in Names
        BY <2>4
      <3>2. \A i, j \in DOMAIN names : made[i] = made[j] => i = j
        BY <1>6 DEF IsInjective
      <3> QED BY <1>7, <2>2, <2>3, <3>1, <3>2
    <2>7. 0 \notin objects'[c][k]
      BY <1>6, <1>7, <1>9, <2>2
    <2>8. ASSUME k # "renderbuffer", NEW v \in objects'[c][k]
          PROVE  \E x \in Names : own'[c][k][x] = v
      <3>1. CASE v \in objects[c][k]
        <4>1. PICK x \in Names : own[c][k][x] = v
          BY <2>8, <3>1 DEF Table
        <4>2. x \in Live(c, k)
          BY <2>2, <3>1, <4>1 DEF Live
        <4>3. x \notin Range(names)
          BY <1>4, <4>2
        <4> QED BY <1>6, <4>1, <4>3
      <3>2. CASE v \in Range(made)
        <4>1. PICK i \in DOMAIN names : made[i] = v
          BY <1>9, <3>2
        <4> QED BY <1>6, <1>7, <4>1
      <3> QED BY <1>6, <2>8, <3>1, <3>2
    <2> QED BY <2>1, <2>5, <2>6, <2>7, <2>8, Zenon DEF Table
  <1>18. HandIs(c)' /\ used' = {k}
    BY <1>6 DEF HandIs, Lone
  <1> QED BY <1>15, <1>16, <1>17, <1>18 DEF Lone

(* The server thread deletes the objects of names that have one.           *)
LEMMA LoneHandlesDelete ==
  ASSUME TypeOK, NEW c \in Clients, NEW k \in Kinds, Lone(c, k), HandleDelete(c)
  PROVE  Lone(c, k)'
  <1> DEFINE cmd == Head(queue[c])
             names == Range(cmd.names) \ {0}
  <1>1. DeleteHandled(c)
    BY HandleDeleteIs
  <1>2. queue[c] # << >> /\ cmd.op = "delete"
    BY DEF HandleDelete, Handling
  <1>3. PICK after \in SUBSET Names :
          /\ Fits(k, Live(c, k), Head(queue[c]), after)
          /\ Done(c) /\ UNCHANGED held /\ Live(c, k)' = after => Followed(c, k)'
    BY <1>2, FollowedShrinks DEF Lone
  <1>4. cmd.kind = k /\ names \subseteq Live(c, k) /\ after = Live(c, k) \ names
    BY <1>2, <1>3 DEF Fits
  <1>5. /\ \A x \in Names : mapping[x] = own[c][k][x]
        /\ \A x \in Live(c, k) : own[c][k][x] \in objects[c][k]
        /\ \A x, y \in Live(c, k) : own[c][k][x] = own[c][k][y] => x = y
        /\ 0 \notin objects[c][k]
        /\ k # "renderbuffer" => \A v \in objects[c][k] : \E x \in Names : own[c][k][x] = v
    BY DEF Lone, Table
  <1>6. \A x \in Names : x \in Live(c, k) <=> own[c][k][x] # 0
    BY DEF Live
  <1>7. Live(c, k) \subseteq Names
    BY DEF Live
  <1> HIDE DEF cmd, names
  <1>8. \A x \in names : x \in Names /\ mapping[x] # 0 /\ mapping[x] = own[c][k][x]
    BY <1>4, <1>5, <1>6, <1>7
  <1>9. /\ hand[c] = NoHand /\ hand'[c] = NoHand /\ Done(c) /\ UNCHANGED <<used, handler, held>>
        /\ \A j \in Kinds : objects'[c][j] \subseteq objects[c][j]
        /\ DriverKind(k) # k => objects'[c][k] = objects[c][k]
        /\ DriverKind(k) = k /\ (\A x \in names : mapping[x] # 0) =>
             objects'[c][k] = objects[c][k] \ {mapping[x] : x \in names}
        /\ \A x \in Names : mapping'[x] = IF x \in names THEN 0 ELSE mapping[x]
        /\ \A x \in Names : own'[c][k][x] = IF x \in names THEN 0 ELSE own[c][k][x]
        /\ \A j \in Kinds \ {k} : own'[c][j] = own[c][j]
    BY <1>1, <1>4 DEF DeleteHandled, cmd, names
  <1>10. /\ k = "renderbuffer" => objects'[c][k] = objects[c][k]
         /\ k # "renderbuffer" =>
              objects'[c][k] = objects[c][k] \ {own[c][k][x] : x \in names}
    <2>1. {own[c][k][x] : x \in names} = {mapping[x] : x \in names}
      BY <1>8
    <2>2. CASE k = "renderbuffer"
      BY <1>9, <2>2 DEF DriverKind
    <2>3. CASE k # "renderbuffer"
      BY <1>8, <1>9, <2>1, <2>3 DEF DriverKind
    <2> QED BY <2>2, <2>3
  <1>11. \A x \in Names : (x \in Live(c, k))' <=> x \in Live(c, k) /\ x \notin names
    BY <1>6, <1>9 DEF Live
  <1>12. Live(c, k)' = after
    <2>1. Live(c, k)' \subseteq Names
      BY DEF Live
    <2> QED BY <1>4, <1>7, <1>11, <2>1
  <1>13. Followed(c, k)'
    BY <1>3, <1>9, <1>12
  <1>14. OthersUnused(c, k)'
    BY <1>9 DEF Lone, OthersUnused
  <1>15. Table(c, k)'
    <2>1. \A x \in Names : mapping'[x] = own'[c][k][x]
      BY <1>5, <1>9
    <2>2. \A x \in Live(c, k)' : /\ x \in Names /\ x \in Live(c, k) /\ x \notin names
                               /\ own'[c][k][x] = own[c][k][x]
      <3>1. Live(c, k)' \subseteq Names
        BY DEF Live
      <3> QED BY <1>9, <1>11, <3>1
    <2>3. \A x \in Live(c, k)' : own'[c][k][x] \in objects'[c][k]
      <3> SUFFICES ASSUME NEW x \in Live(c, k)' PROVE own'[c][k][x] \in objects'[c][k]
        OBVIOUS
      <3>1. own[c][k][x] \in objects[c][k]
        BY <1>5, <2>2
      <3>2. own[c][k][x] \notin {own[c][k][y] : y \in names}
        BY <1>4, <1>5, <2>2
      <3> QED BY <1>10, <2>2, <3>1, <3>2
    <2>4. \A x, y \in Live(c, k)' : own'[c][k][x] = own'[c][k][y] => x = y
      BY <1>5, <2>2
    <2>5. 0 \notin objects'[c][k]
      BY <1>5, <1>9
    <2>6. ASSUME k # "renderbuffer", NEW v \in objects'[c][k]
          PROVE  \E x \in Names : own'[c][k][x] = v
      <3>1. v \in objects[c][k] /\ v \notin {own[c][k][x] : x \in names}
        BY <1>10, <2>6
      <3>2. PICK x \in Names : own[c][k][x] = v
        BY <1>5, <2>6, <3>1
      <3>3. x \notin names
        BY <3>1, <3>2
      <3> QED BY <1>9, <3>2, <3>3
    <2> QED BY <2>1, <2>3, <2>4, <2>5, <2>6, Zenon DEF Table
  <1>16. HandIs(c)' /\ used' = {k}
    BY <1>9 DEF HandIs, Lone
  <1> QED BY <1>13, <1>14, <1>15, <1>16 DEF Lone
(* A lookup finds the entry, and the command after it uses that entry.     *)
LEMMA LoneLooksUp ==
  ASSUME TypeOK, NEW c \in Clients, NEW k \in Kinds, Lone(c, k), LookUp(c) \/ Apply(c)
  PROVE  Lone(c, k)'
  <1> DEFINE cmd == Head(queue[c])
  <1>1. queue[c] # << >> /\ cmd.op \in {"bind", "query"}
    BY DEF LookUp, Handling, Apply, Lone, HandIs
  <1>2. PICK after \in SUBSET Names :
          /\ Fits(k, Live(c, k), Head(queue[c]), after)
          /\ Done(c) /\ UNCHANGED held /\ Live(c, k)' = after => Followed(c, k)'
    BY <1>1, FollowedShrinks DEF Lone
  <1>3. cmd.kind = k /\ cmd.names[1] \in Live(c, k) /\ after = Live(c, k)
    BY <1>1, <1>2 DEF Fits
  <1>4. cmd.names[1] \in Names /\ mapping[cmd.names[1]] = own[c][k][cmd.names[1]]
        /\ mapping[cmd.names[1]] # 0 /\ mapping[cmd.names[1]] \in objects[c][k]
    BY <1>3 DEF Lone, Table, Live
  <1>5. CASE LookUp(c)
    <2>1. /\ UNCHANGED <<used, handler, held, mapping, objects, own, queue>>
          /\ hand'[c] = [kind |-> cmd.kind, name |-> cmd.names[1], found |-> TRUE, freed |-> FALSE]
      BY <1>4, <1>5, LookUpIs
    <2>2. HandIs(c)'
      BY <1>1, <2>1 DEF HandIs
    <2>3. Followed(c, k)'
      BY <2>1, Zenon DEF Lone, Followed, Chain, Live
    <2>4. OthersUnused(c, k)' /\ Table(c, k)' /\ used' = {k}
      BY <2>1 DEF Lone, OthersUnused, Table, Live
    <2> QED BY <2>2, <2>3, <2>4 DEF Lone
  <1>6. CASE Apply(c)
    <2>1. /\ hand[c] # NoHand /\ UNCHANGED <<used, handler, held, own>> /\ Done(c)
          /\ \A j \in Kinds : j # cmd.kind => objects'[c][j] = objects[c][j]
          /\ hand'[c] = NoHand
          /\ hand[c].found =>
               /\ UNCHANGED mapping
               /\ ~hand[c].freed => objects'[c][cmd.kind] \subseteq
                                      objects[c][cmd.kind] \cup {mapping[hand[c].name]}
               /\ objects[c][cmd.kind] \subseteq objects'[c][cmd.kind]
      BY <1>1, <1>6, ApplyIs
    <2>2. hand[c].found /\ ~hand[c].freed /\ hand[c].name = cmd.names[1]
      BY <2>1 DEF Lone, HandIs
    <2>3. UNCHANGED mapping /\ objects'[c][k] = objects[c][k]
      BY <1>3, <1>4, <2>1, <2>2
    <2>4. Live(c, k)' = Live(c, k)
      BY <2>1 DEF Live
    <2>5. Followed(c, k)'
      BY <1>2, <1>3, <2>1, <2>4
    <2>6. OthersUnused(c, k)'
      BY <1>3, <2>1 DEF Lone, OthersUnused
    <2>7. Table(c, k)'
      BY <2>1, <2>3, <2>4 DEF Lone, Table
    <2>8. HandIs(c)' /\ used' = {k}
      BY <2>1 DEF HandIs, Lone
    <2> QED BY <2>5, <2>6, <2>7, <2>8 DEF Lone
  <1> QED BY <1>5, <1>6

(* The invariant of one client that uses one kind of object.               *)
LoneInv(c) == Types /\ WaitingNamesAreFree /\ \E k \in Kinds : Lone(c, k)

LEMMA LoneNext ==
  ASSUME Careful, NEW c, Clients = {c}, LoneInv(c), [Next]_vars
  PROVE  LoneInv(c)'
  <1>1. PICK k \in Kinds : Lone(c, k)
    BY DEF LoneInv
  <1>2. Types /\ TypeOK /\ WaitingNamesAreFree /\ c \in Clients
    BY DEF LoneInv, Types
  <1>3. Types' /\ TypeOK'
    BY <1>2, TypesNext DEF Types
  <1>4. WaitingNamesAreFree'
    BY <1>2, FreeNext
  <1>5. Lone(c, k)'
    <2>1. CASE Application(c)
      BY <1>1, <1>2, <1>3, <2>1, LoneApplication
    <2>2. CASE Server(c)
      BY <1>1, <1>2, <2>2, LoneHandlesGen, LoneHandlesDelete, LoneLooksUp DEF Server
    <2>3. CASE UNCHANGED vars
      <3> USE <1>1, <2>3 DEF vars, Lone
      <3>1. Followed(c, k)'
        BY Zenon DEF Followed, Chain, Live
      <3>2. OthersUnused(c, k)' /\ HandIs(c)'
        BY DEF OthersUnused, HandIs
      <3>3. Table(c, k)'
        BY DEF Table, Live
      <3> QED BY <3>1, <3>2, <3>3
    <2> QED BY <2>1, <2>2, <2>3 DEF Next
  <1> QED BY <1>3, <1>4, <1>5 DEF LoneInv

LEMMA LoneMeans ==
  ASSUME NEW c, Clients = {c}, LoneInv(c)
  PROVE  EachNameItsObject /\ UseFindsObject /\ NoDeadEntry /\ DriverHoldsNoMore
  <1>1. PICK k \in Kinds : Lone(c, k)
    BY DEF LoneInv
  <1> USE <1>1
  <1>2. EachNameItsObject
    BY DEF EachNameItsObject, Lone, OthersUnused, Table, Live
  <1>3. UseFindsObject
    <2> SUFFICES ASSUME Handling(c, {"bind", "query"})
                 PROVE  mapping[Head(queue[c]).names[1]] # 0
      BY DEF UseFindsObject
    <2>1. queue[c] # << >> /\ Head(queue[c]).op \in {"bind", "query"} /\ TypeOK
      BY DEF Handling, LoneInv, Types
    <2>2. PICK after \in SUBSET Names : Fits(k, Live(c, k), Head(queue[c]), after)
      BY <2>1, FollowedShrinks DEF Lone
    <2>3. Head(queue[c]).names[1] \in Live(c, k)
      BY <2>1, <2>2 DEF Fits
    <2> QED BY <2>3 DEF Lone, Table, Live
  <1>4. NoDeadEntry
    BY DEF NoDeadEntry, Lone, Table
  <1>5. DriverHoldsNoMore
    <2> SUFFICES ASSUME NEW j \in Kinds \ {"renderbuffer"}
                 PROVE  objects[c][j] \subseteq Range(own[c][j])
      BY DEF DriverHoldsNoMore
    <2>1. CASE j # k
      BY <2>1 DEF Lone, OthersUnused
    <2>2. CASE j = k
      <3>1. \A v \in objects[c][k] : \E x \in Names : own[c][k][x] = v
        BY <2>2 DEF Lone, Table
      <3>2. DOMAIN own[c][k] = Names
        BY DEF LoneInv, Types, TypeOK
      <3> QED BY <2>2, <3>1, <3>2 DEF Range
    <2> QED BY <2>1, <2>2
  <1> QED BY <1>2, <1>3, <1>4, <1>5

LEMMA LoneAlways ==
  ASSUME Careful, NEW c, Clients = {c}, KindsAtOnce = 1
  PROVE  Spec => []LoneInv(c)
  <1>1. Init => LoneInv(c)
    BY TypesInit, FreeInit, LoneInit DEF LoneInv
  <1>2. LoneInv(c) /\ [Next]_vars => LoneInv(c)'
    BY LoneNext
  <1> QED BY <1>1, <1>2, PTL DEF Spec

(* With one client and one kind of object a name whose object exists leads *)
(* to that object, whatever names the driver answers and however far the   *)
(* client runs ahead of the server.                                        *)
THEOREM NamesLeadToObjects ==
  ASSUME Careful, NEW c, Clients = {c}, KindsAtOnce = 1
  PROVE  Spec => []EachNameItsObject
  <1>1. LoneInv(c) => EachNameItsObject
    BY LoneMeans
  <1> QED BY <1>1, LoneAlways, PTL

(* Then no use of a name the application holds is dropped by the server,   *)
(* and none makes an object under the client's own name.                   *)
THEOREM UsesFindObjects ==
  ASSUME Careful, NEW c, Clients = {c}, KindsAtOnce = 1
  PROVE  Spec => []UseFindsObject
  <1>1. LoneInv(c) => UseFindsObject
    BY LoneMeans
  <1> QED BY <1>1, LoneAlways, PTL

(* Then the table of server.c keeps no entry of an object that is gone.    *)
THEOREM EntriesAreAlive ==
  ASSUME Careful, NEW c, Clients = {c}, KindsAtOnce = 1
  PROVE  Spec => []NoDeadEntry
  <1>1. LoneInv(c) => NoDeadEntry
    BY LoneMeans
  <1> QED BY <1>1, LoneAlways, PTL

(* Then what the application deleted is gone from the driver, renderbuffers *)
(* (server.c:257) excepted.                                                *)
THEOREM DeletedIsGone ==
  ASSUME Careful, NEW c, Clients = {c}, KindsAtOnce = 1
  PROVE  Spec => []DriverHoldsNoMore
  <1>1. LoneInv(c) => DriverHoldsNoMore
    BY LoneMeans
  <1> QED BY <1>1, LoneAlways, PTL
=============================================================================
