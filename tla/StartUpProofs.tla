---------------------------- MODULE StartUpProofs ----------------------------
(***************************************************************************)
(* Proofs about the start of clients and servers, for any number of        *)
(* threads and entries of the table.                                       *)
(***************************************************************************)
EXTENDS StartUp, TLAPS

ClientPlaces == Inside \cup {"out", "lock", "unlock", "new", "wait", "ready"}
ServerPlaces == Inside \cup {"out", "lock mapping", "unlock mapping", "signals", "tell", "ready"}
Places       == ClientPlaces \cup ServerPlaces

(* Who is done with the table has filled it, and it is said to be done     *)
(* after that.                                                             *)
Table ==
  /\ done => filled = Entries
  /\ \A p \in Processes :
       /\ at[p] = "driver" => progress[p] = 0
       /\ at[p] = "fill" => progress[p] < Entries
       /\ at[p] \in {"unmark", "mark done"} => filled = Entries

(* A thread makes its client and its server once, in this order, and its   *)
(* server tells it when it has everything.                                 *)
Before  == {"out", "lock", "unlock", "new"}
Mapped  == {"unlock mapping", "signals", "tell", "ready"}
Handshake(t, c, s) ==
  /\ c \in {"out", "lock"} => ~initialized[t]
  /\ c \in Before => clients[t] = 0
  /\ c \notin Before => clients[t] = 1
  /\ c \in Inside \cup {"wait"} => starting[t]
  /\ s # "out" => c \in {"wait", "ready"}
  /\ c = "ready" => s = "ready"
  /\ c = "wait" => s # "out" /\ (started[t] => s = "ready")
Served(t, s) ==
  /\ s = "got base" => raced[t] \/ filled = Entries
  /\ s \in Mapped \cup {"lock mapping"} => raced[t] \/ copied[t] = Entries
  /\ s \in {"tell", "ready"} => signals[t]
  /\ s \in Mapped => mappings = 1

StartInv ==
  /\ TypeOK
  /\ at \in [Processes -> Places]
  /\ mappings \in {0, 1}
  /\ Table
  /\ \A t \in Threads : /\ Handshake(t, at[<<t, "client">>], at[<<t, "server">>])
                        /\ Served(t, at[<<t, "server">>])

-----------------------------------------------------------------------------
(* Processes and their moves.                                              *)

LEMMA ProcessOf ==
  ASSUME NEW p \in Processes
  PROVE  /\ p[1] \in Threads /\ p[2] \in {"client", "server"}
         /\ p = <<p[1], "client">> \/ p = <<p[1], "server">>
         /\ p[2] = "server" <=> p = <<p[1], "server">>
  BY DEF Processes

LEMMA IsProcess ==
  ASSUME NEW t \in Threads
  PROVE  /\ <<t, "client">> \in Processes /\ <<t, "server">> \in Processes
         /\ <<t, "client">> # <<t, "server">>
         /\ <<t, "client">>[1] = t /\ <<t, "client">>[2] = "client"
         /\ <<t, "server">>[1] = t /\ <<t, "server">>[2] = "server"
         /\ \A u \in Threads : /\ <<u, "client">> # <<t, "server">>
                               /\ u # t => /\ <<u, "client">> # <<t, "client">>
                                          /\ <<u, "server">> # <<t, "server">>
  BY DEF Processes

LEMMA Moves ==
  ASSUME at \in [Processes -> Places], NEW p \in Processes, NEW here, NEW there \in Places,
         Go(p, here, there)
  PROVE  /\ at' \in [Processes -> Places]
         /\ at[p] = here /\ at'[p] = there
         /\ \A q \in Processes : q # p => at'[q] = at[q]
  BY DEF Go

(* A process at the base table: the others stay where they are, and it     *)
(* stays at the table.                                                     *)
LEMMA InsideKeeps ==
  ASSUME StartInv, NEW p \in Processes, NEW here \in Inside, NEW there \in Inside,
         Go(p, here, there), UNCHANGED <<initialized, starting, clients, started>>
  PROVE  /\ at' \in [Processes -> Places] /\ at[p] = here /\ at'[p] = there
         /\ \A q \in Processes : q # p => at'[q] = at[q]
         /\ \A t \in Threads : /\ Handshake(t, at[<<t, "client">>], at[<<t, "server">>])'
                               /\ at'[<<t, "client">>] \in ClientPlaces
                               /\ at'[<<t, "server">>] \in ServerPlaces
  <1>1. /\ at' \in [Processes -> Places] /\ at[p] = here /\ at'[p] = there
        /\ \A q \in Processes : q # p => at'[q] = at[q]
    BY Moves DEF StartInv, Places, ClientPlaces
  <1>2. ASSUME NEW t \in Threads
        PROVE  /\ Handshake(t, at[<<t, "client">>], at[<<t, "server">>])'
               /\ at'[<<t, "client">>] \in ClientPlaces
               /\ at'[<<t, "server">>] \in ServerPlaces
    <2> DEFINE c == at[<<t, "client">>]
               s == at[<<t, "server">>]
    <2>1. Handshake(t, c, s)
      BY DEF StartInv
    <2>2. /\ c' = c \/ (c \in Inside /\ c' \in Inside)
          /\ s' = s \/ (s \in Inside /\ s' \in Inside)
      BY <1>1, IsProcess
    <2>3. Handshake(t, c, s)'
      BY <2>1, <2>2 DEF Handshake, Before, Inside
    <2>4. /\ c \in ClientPlaces
          /\ s \in ServerPlaces
      BY DEF StartInv, TypeOK, ClientPlaces, ServerPlaces
    <2> QED BY <2>2, <2>3, <2>4 DEF ClientPlaces, ServerPlaces
  <1> QED BY <1>1, <1>2

(* What the invariant says but of where processes are.                     *)
Values ==
  /\ filled \in 0..Entries /\ initializing \in BOOLEAN /\ done \in BOOLEAN
  /\ progress \in [Processes -> 0..Entries]
  /\ initialized \in [Threads -> BOOLEAN] /\ starting \in [Threads -> BOOLEAN]
  /\ clients \in [Threads -> Nat] /\ mappings \in {0, 1}
  /\ holder \in [thread : Threads \cup {Free}, mapping : Threads \cup {Free}]
  /\ started \in [Threads -> BOOLEAN] /\ signals \in [Threads -> BOOLEAN]
  /\ copied \in [Threads -> 0..Entries]
  /\ raced \in [Threads -> BOOLEAN]

LEMMA GetBaseStep ==
  ASSUME StartInv, NEW p \in Processes, GetBase(p)
  PROVE  StartInv'
  <1>0. Values
    BY DEF StartInv, TypeOK, Values
  <1>e. Entries \in Nat \ {0}
    BY StartUpAssumption
  <1>a. SUFFICES ASSUME NEW here \in Inside, NEW there \in Inside, Go(p, here, there),
                        UNCHANGED <<initialized, starting, clients, started>>,
                        UNCHANGED <<holder, serverVars>>
                 PROVE  /\ Values' /\ Table'
                        /\ \A t \in Threads : Served(t, at[<<t, "server">>])'
    <2>1. /\ \E here, there \in Inside : Go(p, here, there)
          /\ UNCHANGED <<initialized, starting, holder, started>>
          /\ UNCHANGED serverVars
      <3> USE DEF Inside, clientVars
      <3>1. CASE LookDone(p) BY <3>1 DEF LookDone
      <3>2. CASE LookBusy(p) BY <3>2 DEF LookBusy
      <3>3. CASE LookAgain(p) BY <3>3 DEF LookAgain
      <3>4. CASE MarkBusy(p) BY <3>4 DEF MarkBusy
      <3>5. CASE Reenter(p) BY <3>5 DEF Reenter
      <3>6. CASE InitDriver(p) BY <3>6 DEF InitDriver
      <3>7. CASE Fill(p) BY <3>7 DEF Fill
      <3>8. CASE Unmark(p) BY <3>8 DEF Unmark
      <3>9. CASE MarkDone(p) BY <3>9 DEF MarkDone
      <3> QED BY <3>1, <3>2, <3>3, <3>4, <3>5, <3>6, <3>7, <3>8, <3>9 DEF GetBase
    <2>2. clients' = clients
      <3>1. CASE Reenter(p)
        <4>1. p \in Processes /\ at[p] \in Inside
          BY <3>1 DEF Reenter, Go, Inside
        <4>2. UseBase(p)
          BY <4>1, ProcessOf DEF UseBase, StartInv, Handshake
        <4> QED BY <3>1, <4>2 DEF Reenter
      <3>2. CASE ~Reenter(p)
        BY <3>2 DEF GetBase, LookDone, LookBusy, LookAgain, MarkBusy, InitDriver, Fill,
                    Unmark, MarkDone, clientVars
      <3> QED BY <3>1, <3>2
    <2>3. PICK here \in Inside, there \in Inside : Go(p, here, there)
      BY <2>1
    <2>4. Values' /\ Table' /\ \A t \in Threads : Served(t, at[<<t, "server">>])'
      BY <1>a, <2>1, <2>2, <2>3
    <2>5. /\ at' \in [Processes -> Places]
          /\ \A t \in Threads : /\ Handshake(t, at[<<t, "client">>], at[<<t, "server">>])'
                                /\ at'[<<t, "client">>] \in ClientPlaces
                                /\ at'[<<t, "server">>] \in ServerPlaces
      BY <2>1, <2>2, <2>3, InsideKeeps
    <2>6. TypeOK'
      <3>1. mappings' \in Nat
        BY <2>4 DEF Values
      <3> QED BY <2>4, <2>5, <3>1, Zenon DEF TypeOK, Values, ClientPlaces, ServerPlaces
    <2> QED BY <2>4, <2>5, <2>6 DEF StartInv, Values

  <1>b. /\ at' \in [Processes -> Places] /\ at[p] = here /\ at'[p] = there
        /\ \A q \in Processes : q # p => at'[q] = at[q]
    BY <1>a, InsideKeeps
  (* Who leaves the table has all of it, or found somebody at it.          *)
  <1>c. ASSUME filled' = filled \/ filled' = Entries,
               \A t \in Threads : raced'[t] = raced[t] \/ at[<<t, "server">>] \in Inside \cup {"out"},
               \A t \in Threads : p = <<t, "server">> /\ there = "got base" => raced'[t] \/ filled' = Entries,
               \A t \in Threads : p # <<t, "server">> /\ at[<<t, "server">>] = "got base" => raced'[t] = raced[t]
        PROVE  \A t \in Threads : Served(t, at[<<t, "server">>])'
    <2> SUFFICES ASSUME NEW t \in Threads
                 PROVE  Served(t, at[<<t, "server">>])'
      OBVIOUS
    <2> DEFINE s == at[<<t, "server">>]
    <2>1. Served(t, s) /\ UNCHANGED serverVars
      BY <1>a DEF StartInv
    <2>2. CASE p = <<t, "server">>
      <3>1. s' = there
        BY <1>b, <2>2
      <3> QED BY <1>a, <1>c, <2>2, <3>1 DEF Served, Inside, Mapped
    <2>3. CASE p # <<t, "server">>
      <3>1. s' = s
        BY <1>b, <2>3, IsProcess
      <3> QED BY <1>c, <2>1, <2>3, <3>1 DEF Served, Inside, Mapped, serverVars
    <2> QED BY <2>2, <2>3
  (* A step that fills nothing and marks nothing.                          *)
  <1>d. ASSUME UNCHANGED <<filled, progress, done>>, there \notin {"driver", "fill", "unmark", "mark done"}
        PROVE  Table'
    BY <1>b, <1>d DEF StartInv, Table
  <1>1. CASE LookDone(p)
    <2>1. there = "got base" => filled = Entries
      BY <1>1, <1>b DEF LookDone, Go, StartInv, Table
    <2>2. there \in {"got base", "look busy"}
      BY <1>1, <1>b DEF LookDone, Go
    <2>3. UNCHANGED tableVars
      BY <1>1 DEF LookDone
    <2> QED BY <1>0, <1>a, <1>c, <1>d, <2>1, <2>2, <2>3 DEF Values, tableVars, serverVars
  <1>2. CASE LookBusy(p)
    <2>1. there = "got base" => initializing
      BY <1>2, <1>b DEF LookBusy, Go
    <2>2. there \in {"got base", "look again"} /\ here = "look busy"
      BY <1>2, <1>b DEF LookBusy, Go
    <2>3. /\ raced' = [raced EXCEPT ![p[1]] = p[2] = "server" /\ initializing]
          /\ UNCHANGED <<filled, initializing, done, progress>>
      BY <1>2 DEF LookBusy
    <2>4. /\ \A t \in Threads : t # p[1] => raced'[t] = raced[t]
          /\ p[2] = "server" => raced'[p[1]] = initializing
      BY <1>0, <2>3, ProcessOf DEF Values
    <2>5. \A t \in Threads : t = p[1] => at[<<t, "server">>] \in {"out", "look busy"}
      <3>1. CASE p = <<p[1], "server">>
        BY <1>b, <2>2, <3>1
      <3>2. CASE p = <<p[1], "client">>
        <4>1. at[<<p[1], "client">>] = "look busy"
          BY <1>b, <2>2, <3>2
        <4> QED BY <4>1, ProcessOf DEF StartInv, Handshake
      <3> QED BY <3>1, <3>2, ProcessOf
    <2>6. \A t \in Threads : Served(t, at[<<t, "server">>])'
      <3>1. \A t \in Threads : raced'[t] = raced[t] \/ at[<<t, "server">>] \in Inside \cup {"out"}
        <4> SUFFICES ASSUME NEW t \in Threads, t = p[1]
                     PROVE  at[<<t, "server">>] \in Inside \cup {"out"}
          BY <2>4
        <4> QED BY <2>5 DEF Inside
      <3>2. \A t \in Threads : p = <<t, "server">> /\ there = "got base" => raced'[t]
        <4> SUFFICES ASSUME NEW t \in Threads, p = <<t, "server">>, there = "got base"
                     PROVE  raced'[t]
          OBVIOUS
        <4>1. t = p[1] /\ p[2] = "server"
          OBVIOUS
        <4>2. raced'[t] = initializing
          BY <2>4, <4>1
        <4> QED BY <2>1, <4>2
      <3>3. \A t \in Threads : at[<<t, "server">>] = "got base" => raced'[t] = raced[t]
        <4> SUFFICES ASSUME NEW t \in Threads, at[<<t, "server">>] = "got base"
                     PROVE  t # p[1]
          BY <2>4
        <4> QED BY <2>5
      <3> QED BY <1>c, <2>3, <3>1, <3>2, <3>3
    <2>7. raced' \in [Threads -> BOOLEAN]
      BY <1>0, <2>3 DEF Values
    <2> QED BY <1>0, <1>a, <1>d, <2>2, <2>3, <2>6, <2>7 DEF Values, serverVars
  <1>3. CASE LookAgain(p)
    <2>1. there = "got base" => filled = Entries
      BY <1>3, <1>b DEF LookAgain, Go, StartInv, Table
    <2>2. there \in {"got base", "mark"}
      BY <1>3, <1>b DEF LookAgain, Go
    <2>3. UNCHANGED tableVars
      BY <1>3 DEF LookAgain
    <2> QED BY <1>0, <1>a, <1>c, <1>d, <2>1, <2>2, <2>3 DEF Values, tableVars, serverVars
  <1>4. CASE MarkBusy(p)
    <2>1. there = "driver" /\ UNCHANGED <<filled, done, raced>>
      BY <1>4, <1>b DEF MarkBusy, Go
    <2>2. initializing' = TRUE /\ progress' = [progress EXCEPT ![p] = 0]
      BY <1>4 DEF MarkBusy
    <2>3. /\ progress' \in [Processes -> 0..Entries] /\ progress'[p] = 0
          /\ \A q \in Processes : q # p => progress'[q] = progress[q]
      BY <1>0, <1>e, <2>2 DEF Values
    <2>4. Table'
      BY <1>b, <2>1, <2>3 DEF StartInv, Table
    <2> QED BY <1>0, <1>a, <1>c, <2>1, <2>2, <2>3, <2>4 DEF Values, serverVars
  <1>5. CASE Reenter(p) \/ InitDriver(p)
    <2>1. here = "driver" /\ there = "fill" /\ UNCHANGED tableVars
      BY <1>5, <1>b DEF Reenter, InitDriver, Go
    <2>2. progress[p] = 0
      BY <1>b, <2>1 DEF StartInv, Table
    <2>3. Table'
      <3>1. progress[p] < Entries
        BY <1>e, <2>2
      <3> QED BY <1>b, <2>1, <3>1 DEF StartInv, Table, tableVars
    <2> QED BY <1>0, <1>a, <1>c, <2>1, <2>3 DEF Values, tableVars, serverVars
  <1>6. CASE Fill(p)
    <2>1. /\ here = "fill" /\ UNCHANGED <<initializing, done, raced>>
          /\ progress' = [progress EXCEPT ![p] = @ + 1]
          /\ filled' = IF filled < progress'[p] THEN progress'[p] ELSE filled
          /\ there = IF progress'[p] = Entries THEN "unmark" ELSE "fill"
      BY <1>6, <1>b DEF Fill, Go, FilledAt
    <2>2. progress[p] < Entries
      BY <1>b, <2>1 DEF StartInv, Table
    <2>3. /\ progress' \in [Processes -> 0..Entries] /\ progress'[p] = progress[p] + 1
          /\ \A q \in Processes : q # p => progress'[q] = progress[q]
      BY <1>0, <1>e, <2>1, <2>2 DEF Values
    <2>4. /\ filled' \in 0..Entries
          /\ filled = Entries => filled' = Entries
          /\ progress'[p] = Entries => filled' = Entries
      BY <1>0, <1>e, <2>1, <2>3 DEF Values
    <2>5. Table'
      <3>1. done' => filled' = Entries
        BY <2>1, <2>4 DEF StartInv, Table
      <3>2. ASSUME NEW q \in Processes, q # p
            PROVE  /\ at'[q] = "driver" => progress'[q] = 0
                   /\ at'[q] = "fill" => progress'[q] < Entries
                   /\ at'[q] \in {"unmark", "mark done"} => filled' = Entries
        BY <1>b, <2>3, <2>4, <3>2 DEF StartInv, Table
      <3>3. /\ at'[p] # "driver"
            /\ at'[p] = "fill" => progress'[p] < Entries
            /\ at'[p] \in {"unmark", "mark done"} => filled' = Entries
        <4>1. progress'[p] \in 0..Entries
          BY <2>3
        <4> QED BY <1>b, <1>e, <2>1, <2>4, <4>1
      <3> QED BY <3>1, <3>2, <3>3 DEF Table
    <2>6. \A t \in Threads : Served(t, at[<<t, "server">>])'
      <3> SUFFICES ASSUME NEW t \in Threads
                   PROVE  Served(t, at[<<t, "server">>])'
        OBVIOUS
      <3>1. Served(t, at[<<t, "server">>]) /\ UNCHANGED serverVars
        BY <1>a DEF StartInv
      <3>2. /\ at'[<<t, "server">>] = at[<<t, "server">>] \/ at'[<<t, "server">>] \in {"unmark", "fill"}
            /\ raced' = raced
        BY <1>b, <2>1, IsProcess
      <3> QED BY <2>4, <3>1, <3>2 DEF Served, Mapped, serverVars
    <2> QED BY <1>0, <1>a, <2>1, <2>3, <2>4, <2>5, <2>6 DEF Values, serverVars
  <1>7. CASE Unmark(p)
    <2>1. /\ here = "unmark" /\ there = "mark done" /\ initializing' = FALSE
          /\ UNCHANGED <<filled, done, progress, raced>>
      BY <1>7, <1>b DEF Unmark, Go
    <2>2. Table'
      BY <1>b, <2>1 DEF StartInv, Table
    <2> QED BY <1>0, <1>a, <1>c, <2>1, <2>2 DEF Values, serverVars
  <1>8. CASE MarkDone(p)
    <2>1. /\ here = "mark done" /\ there = "got base" /\ done' = TRUE
          /\ UNCHANGED <<filled, initializing, progress, raced>>
      BY <1>8, <1>b DEF MarkDone, Go
    <2>2. filled = Entries
      BY <1>b, <2>1 DEF StartInv, Table
    <2>3. Table'
      BY <1>b, <2>1, <2>2 DEF StartInv, Table
    <2> QED BY <1>0, <1>a, <1>c, <2>1, <2>2, <2>3 DEF Values, serverVars
  <1> QED BY <1>1, <1>2, <1>3, <1>4, <1>5, <1>6, <1>7, <1>8 DEF GetBase

-----------------------------------------------------------------------------
(* The threads' own steps: none of them fills the table.                   *)

LEMMA TableKeeps ==
  ASSUME StartInv, UNCHANGED tableVars, at' \in [Processes -> Places],
         \A q \in Processes : at'[q] = at[q]
                               \/ at'[q] \notin {"driver", "fill", "unmark", "mark done"}
  PROVE  Table'
  BY DEF StartInv, Table, tableVars

(* What a thread and its server have is not touched by another's step.     *)
LEMMA OthersKeep ==
  ASSUME StartInv, NEW u \in Threads, UNCHANGED tableVars,
         at'[<<u, "client">>] = at[<<u, "client">>], at'[<<u, "server">>] = at[<<u, "server">>],
         UNCHANGED <<initialized[u], starting[u], clients[u], started[u], signals[u], copied[u]>>,
         mappings = 1 => mappings' = 1
  PROVE  /\ Handshake(u, at[<<u, "client">>], at[<<u, "server">>])'
         /\ Served(u, at[<<u, "server">>])'
         /\ at'[<<u, "client">>] \in ClientPlaces
         /\ at'[<<u, "server">>] \in ServerPlaces
  <1>1. /\ Handshake(u, at[<<u, "client">>], at[<<u, "server">>])
        /\ Served(u, at[<<u, "server">>])
    BY DEF StartInv
  <1>2. Handshake(u, at[<<u, "client">>], at[<<u, "server">>])'
    BY <1>1 DEF Handshake
  <1>3. Served(u, at[<<u, "server">>])'
    BY <1>1 DEF Served, tableVars
  <1>4. /\ at[<<u, "client">>] \in ClientPlaces
        /\ at[<<u, "server">>] \in ServerPlaces
    BY DEF StartInv, TypeOK, ClientPlaces, ServerPlaces
  <1> QED BY <1>2, <1>3, <1>4

LEMMA Assemble ==
  ASSUME Values', Table', at' \in [Processes -> Places],
         \A t \in Threads : /\ Handshake(t, at[<<t, "client">>], at[<<t, "server">>])'
                           /\ Served(t, at[<<t, "server">>])'
                           /\ at'[<<t, "client">>] \in ClientPlaces
                           /\ at'[<<t, "server">>] \in ServerPlaces
  PROVE  StartInv'
  <1>1. mappings' \in Nat
    BY DEF Values
  <1>2. TypeOK'
    BY <1>1, Zenon DEF TypeOK, Values, ClientPlaces, ServerPlaces
  <1> QED BY <1>2 DEF StartInv, Values

LEMMA ClientStep ==
  ASSUME StartInv, NEW t \in Threads, Enter(t) \/ Client(t)
  PROVE  StartInv'
  <1> DEFINE c == at[<<t, "client">>]
             s == at[<<t, "server">>]
             Fresh == {"lock", "unlock", "new", "get base", "wait", "ready"}
  <1>0. Values /\ at \in [Processes -> Places]
    BY DEF StartInv, TypeOK, Values
  <1>h. Handshake(t, c, s) /\ Served(t, s)
    BY DEF StartInv
  <1>p. Fresh \subseteq ClientPlaces /\ "get base" \in ServerPlaces
    BY DEF ClientPlaces, ServerPlaces, Inside
  <1>q. \A u \in Threads : at[<<u, "client">>] \in ClientPlaces /\ at[<<u, "server">>] \in ServerPlaces
    BY DEF StartInv, TypeOK, ClientPlaces, ServerPlaces
  (* Only this thread's client and, when it is started, its server move.   *)
  <1>a. SUFFICES /\ Values' /\ UNCHANGED tableVars /\ UNCHANGED serverVars
                 /\ at' \in [Processes -> Places] /\ c' \in Fresh /\ s' \in {s, "get base"}
                 /\ \A q \in Processes : q \notin {<<t, "client">>, <<t, "server">>} => at'[q] = at[q]
                 /\ \A u \in Threads : u # t =>
                      UNCHANGED <<initialized[u], starting[u], clients[u], started[u]>>
                 /\ Handshake(t, c, s)' /\ (s' = s \/ s' = "get base")
    <2>1. Table'
      <3>1. \A q \in Processes : at'[q] = at[q]
                               \/ at'[q] \notin {"driver", "fill", "unmark", "mark done"}
        BY <1>a
      <3> QED BY <1>a, <3>1, TableKeeps
    <2>2. Served(t, s)'
      BY <1>a, <1>h DEF Served, Mapped, tableVars, serverVars
    <2>3. ASSUME NEW u \in Threads
          PROVE  /\ Handshake(u, at[<<u, "client">>], at[<<u, "server">>])'
                 /\ Served(u, at[<<u, "server">>])'
                 /\ at'[<<u, "client">>] \in ClientPlaces
                 /\ at'[<<u, "server">>] \in ServerPlaces
      <3>1. CASE u = t
        BY <1>a, <1>p, <1>q, <2>2, <3>1
      <3>2. CASE u # t
        <4>1. /\ at'[<<u, "client">>] = at[<<u, "client">>]
              /\ at'[<<u, "server">>] = at[<<u, "server">>]
          BY <1>a, <3>2, IsProcess
        <4> QED BY <1>a, <3>2, <4>1, OthersKeep DEF serverVars
      <3> QED BY <3>1, <3>2
    <2> QED BY <1>a, <2>1, <2>3, Assemble
  <1>m. ASSUME NEW here, NEW there \in Fresh, Go(<<t, "client">>, here, there)
        PROVE  /\ at' \in [Processes -> Places] /\ c = here /\ c' = there /\ s' = s
               /\ \A q \in Processes : q \notin {<<t, "client">>, <<t, "server">>} => at'[q] = at[q]
    <2>1. there \in Places
      BY <1>p DEF Places
    <2>2. /\ <<t, "client">> \in Processes /\ <<t, "server">> \in Processes
          /\ <<t, "client">> # <<t, "server">>
      BY IsProcess
    <2>3. /\ at' \in [Processes -> Places] /\ c = here /\ c' = there
          /\ \A q \in Processes : q # <<t, "client">> => at'[q] = at[q]
      BY <1>0, <1>m, <2>1, <2>2, Moves
    <2> QED BY <2>2, <2>3
  <1>1. CASE Enter(t)
    <2>1. c = "out" /\ ~initialized[t] /\ Go(<<t, "client">>, "out", "lock")
      BY <1>1, <1>h DEF Enter, Go, Handshake, Initialized
    <2>2. /\ at' \in [Processes -> Places] /\ c' = "lock" /\ s' = s
          /\ \A q \in Processes : q \notin {<<t, "client">>, <<t, "server">>} => at'[q] = at[q]
      BY <1>m, <2>1
    <2>3. UNCHANGED <<tableVars, clientVars, serverVars>>
      BY <1>1 DEF Enter
    <2>4. Handshake(t, c, s)'
      BY <1>h, <2>1, <2>2, <2>3 DEF Handshake, Before, Inside, clientVars
    <2> QED BY <1>0, <2>2, <2>3, <2>4 DEF Values, tableVars, clientVars, serverVars
  <1>2. CASE Lock(t)
    <2>1. c = "lock" /\ ~initialized[t] /\ Go(<<t, "client">>, "lock", "unlock")
      BY <1>2, <1>h DEF Lock, Go, Handshake, Initialized, AfterLock
    <2>2. /\ at' \in [Processes -> Places] /\ c' = "unlock" /\ s' = s
          /\ \A q \in Processes : q \notin {<<t, "client">>, <<t, "server">>} => at'[q] = at[q]
      BY <1>m, <2>1
    <2>3. /\ holder' = [holder EXCEPT !.thread = t] /\ initialized' = [initialized EXCEPT ![t] = TRUE]
          /\ UNCHANGED <<tableVars, starting, clients, started, serverVars>>
      BY <1>2 DEF Lock
    <2>4. Handshake(t, c, s)'
      BY <1>h, <2>1, <2>2, <2>3 DEF Handshake, Before, Inside
    <2> QED BY <1>0, <2>2, <2>3, <2>4 DEF Values, tableVars, serverVars
  <1>3. CASE Unlock(t)
    <2>2. /\ at' \in [Processes -> Places] /\ c = "unlock" /\ c' = "new" /\ s' = s
          /\ \A q \in Processes : q \notin {<<t, "client">>, <<t, "server">>} => at'[q] = at[q]
      BY <1>m, <1>3 DEF Unlock
    <2>3. /\ holder' = [holder EXCEPT !.thread = Free]
          /\ UNCHANGED <<tableVars, initialized, starting, clients, started, serverVars>>
      BY <1>3 DEF Unlock
    <2>4. Handshake(t, c, s)'
      BY <1>h, <2>2, <2>3 DEF Handshake, Before, Inside
    <2> QED BY <1>0, <2>2, <2>3, <2>4 DEF Values, tableVars, serverVars
  <1>4. CASE NewClient(t)
    <2>2. /\ at' \in [Processes -> Places] /\ c = "new" /\ c' = "get base" /\ s' = s
          /\ \A q \in Processes : q \notin {<<t, "client">>, <<t, "server">>} => at'[q] = at[q]
      BY <1>m, <1>4 DEF NewClient
    <2>3. /\ clients' = [clients EXCEPT ![t] = @ + 1] /\ starting' = [starting EXCEPT ![t] = TRUE]
          /\ UNCHANGED <<tableVars, initialized, holder, started, serverVars>>
      BY <1>4 DEF NewClient
    <2>4. clients' \in [Threads -> Nat] /\ clients'[t] = 1 /\ starting' \in [Threads -> BOOLEAN]
          /\ starting'[t]
      <3>1. clients[t] = 0
        BY <1>h, <2>2 DEF Handshake, Before
      <3> QED BY <1>0, <2>3, <3>1 DEF Values
    <2>5. Handshake(t, c, s)'
      BY <1>h, <2>2, <2>3, <2>4 DEF Handshake, Before, Inside
    <2> QED BY <1>0, <2>2, <2>3, <2>4, <2>5 DEF Values, tableVars, serverVars
  <1>5. CASE StartServer(t)
    <2>1. /\ c = "got base" /\ s = "out" /\ started' = [started EXCEPT ![t] = FALSE]
          /\ at' = [at EXCEPT ![<<t, "client">>] = "wait", ![<<t, "server">>] = "get base"]
          /\ UNCHANGED <<tableVars, initialized, starting, clients, holder, serverVars>>
      BY <1>5 DEF StartServer
    <2>2. /\ at' \in [Processes -> Places] /\ c' = "wait" /\ s' = "get base"
          /\ \A q \in Processes : q \notin {<<t, "client">>, <<t, "server">>} => at'[q] = at[q]
      BY <1>0, <1>p, <2>1, IsProcess DEF Places
    <2>3. Handshake(t, c, s)'
      BY <1>0, <1>h, <2>1, <2>2 DEF Handshake, Before, Inside, Values
    <2> QED BY <1>0, <2>1, <2>2, <2>3 DEF Values, tableVars, serverVars
  <1>6. CASE AwaitServer(t)
    <2>1. started[t] /\ Go(<<t, "client">>, "wait", "ready")
      BY <1>6 DEF AwaitServer
    <2>2. /\ at' \in [Processes -> Places] /\ c = "wait" /\ c' = "ready" /\ s' = s
          /\ \A q \in Processes : q \notin {<<t, "client">>, <<t, "server">>} => at'[q] = at[q]
      BY <1>m, <2>1
    <2>3. /\ started' = [started EXCEPT ![t] = FALSE] /\ starting' = [starting EXCEPT ![t] = FALSE]
          /\ UNCHANGED <<tableVars, initialized, clients, holder, serverVars>>
      BY <1>6 DEF AwaitServer
    <2>4. Handshake(t, c, s)'
      BY <1>h, <2>1, <2>2, <2>3 DEF Handshake, Before, Inside
    <2> QED BY <1>0, <2>2, <2>3, <2>4 DEF Values, tableVars, serverVars
  <1> QED BY <1>1, <1>2, <1>3, <1>4, <1>5, <1>6 DEF Client

LEMMA ServerStep ==
  ASSUME StartInv, NEW t \in Threads, Server(t)
  PROVE  StartInv'
  <1> DEFINE c == at[<<t, "client">>]
             s == at[<<t, "server">>]
             Later == {"lock mapping", "unlock mapping", "signals", "tell", "ready"}
  <1>0. Values /\ at \in [Processes -> Places]
    BY DEF StartInv, TypeOK, Values
  <1>h. Handshake(t, c, s) /\ Served(t, s)
    BY DEF StartInv
  <1>q. \A u \in Threads : at[<<u, "client">>] \in ClientPlaces /\ at[<<u, "server">>] \in ServerPlaces
    BY DEF StartInv, TypeOK, ClientPlaces, ServerPlaces
  (* Only this server moves, past the table.                               *)
  <1>a. SUFFICES ASSUME UNCHANGED <<tableVars, initialized, starting, clients>>, c' = c,
                        \A q \in Processes : q # <<t, "server">> => at'[q] = at[q]
                 PROVE  /\ Values' /\ Handshake(t, c, s)' /\ Served(t, s)'
                        /\ mappings = 1 => mappings' = 1
                        /\ \A u \in Threads : u # t =>
                             UNCHANGED <<started[u], signals[u], copied[u]>>
    <2>0. /\ \E here, there \in Later \cup {"got base"} : there # "got base" /\ Go(<<t, "server">>, here, there)
          /\ UNCHANGED <<tableVars, initialized, starting, clients>>
      BY DEF Server, CopyTable, MakeMapping, UnlockMapping, SetSignals, TellClient, clientVars, serverVars
    <2>1. PICK here \in Later \cup {"got base"}, there \in Later : Go(<<t, "server">>, here, there)
      BY <2>0
    <2>2. there \in Places /\ there \in ServerPlaces
      BY DEF Places, ServerPlaces
    <2>3. /\ <<t, "client">> \in Processes /\ <<t, "server">> \in Processes
          /\ <<t, "client">> # <<t, "server">>
      BY IsProcess
    <2>4. /\ at' \in [Processes -> Places] /\ s = here /\ s' = there
          /\ \A q \in Processes : q # <<t, "server">> => at'[q] = at[q]
      BY <1>0, <2>1, <2>2, <2>3, Moves
    <2>5. c' = c
      BY <2>3, <2>4
    <2>6. /\ Values' /\ Handshake(t, c, s)' /\ Served(t, s)'
          /\ mappings = 1 => mappings' = 1
          /\ \A u \in Threads : u # t => UNCHANGED <<started[u], signals[u], copied[u]>>
      BY <1>a, <2>0, <2>1, <2>4, <2>5
    <2>7. Table'
      <3>1. \A q \in Processes : at'[q] = at[q]
                               \/ at'[q] \notin {"driver", "fill", "unmark", "mark done"}
        BY <2>4
      <3> QED BY <2>0, <2>4, <3>1, TableKeeps
    <2>8. ASSUME NEW u \in Threads
          PROVE  /\ Handshake(u, at[<<u, "client">>], at[<<u, "server">>])'
                 /\ Served(u, at[<<u, "server">>])'
                 /\ at'[<<u, "client">>] \in ClientPlaces
                 /\ at'[<<u, "server">>] \in ServerPlaces
      <3>1. CASE u = t
        BY <1>q, <2>2, <2>4, <2>5, <2>6, <3>1
      <3>2. CASE u # t
        <4>1. /\ at'[<<u, "client">>] = at[<<u, "client">>]
              /\ at'[<<u, "server">>] = at[<<u, "server">>]
          BY <2>4, <3>2, IsProcess
        <4> QED BY <2>0, <2>6, <3>2, <4>1, OthersKeep
      <3> QED BY <3>1, <3>2
    <2> QED BY <2>4, <2>6, <2>7, <2>8, Assemble
  <1>g. ASSUME NEW this, NEW that, Go(<<t, "server">>, this, that)
        PROVE  s = this /\ s' = that
    BY <1>0, <1>g, IsProcess DEF Go
  <1>1. CASE CopyTable(t)
    <2>1. /\ s = "got base" /\ s' = "lock mapping" /\ copied' = [copied EXCEPT ![t] = filled]
          /\ UNCHANGED <<tableVars, clientVars, signals, mappings>>
      BY <1>1, <1>g DEF CopyTable
    <2>2. copied' \in [Threads -> 0..Entries] /\ copied'[t] = filled
      BY <1>0, <2>1 DEF Values
    <2>3. Handshake(t, c, s)' /\ Served(t, s)'
      BY <1>a, <1>h, <2>1, <2>2 DEF Handshake, Served, Mapped, Inside, clientVars, tableVars
    <2> QED BY <1>0, <2>1, <2>2, <2>3 DEF Values, tableVars, clientVars
  <1>2. CASE MakeMapping(t)
    <2>1. /\ s = "lock mapping" /\ s' = "unlock mapping" /\ holder' = [holder EXCEPT !.mapping = t]
          /\ mappings' = IF mappings > 0 THEN mappings ELSE 1
          /\ UNCHANGED <<tableVars, initialized, starting, clients, started, signals, copied>>
      BY <1>2, <1>g DEF MakeMapping
    <2>2. mappings' = 1
      <3>1. mappings \in {0, 1}
        BY <1>0 DEF Values
      <3>2. mappings' = IF mappings > 0 THEN mappings ELSE 1
        BY <2>1
      <3>3. 0 \in Nat /\ 1 \in Nat /\ 1 > 0 /\ ~(0 > 0)
        OBVIOUS
      <3> QED BY <3>1, <3>2, <3>3
    <2>3. Handshake(t, c, s)' /\ Served(t, s)'
      BY <1>a, <1>h, <2>1, <2>2 DEF Handshake, Served, Mapped, Inside, tableVars
    <2> QED BY <1>0, <2>1, <2>2, <2>3 DEF Values, tableVars
  <1>3. CASE UnlockMapping(t)
    <2>1. /\ s = "unlock mapping" /\ s' = "signals" /\ holder' = [holder EXCEPT !.mapping = Free]
          /\ UNCHANGED <<tableVars, initialized, starting, clients, started, serverVars>>
      BY <1>3, <1>g DEF UnlockMapping
    <2>2. Handshake(t, c, s)' /\ Served(t, s)'
      BY <1>a, <1>h, <2>1 DEF Handshake, Served, Mapped, Inside, tableVars, serverVars
    <2> QED BY <1>0, <2>1, <2>2 DEF Values, tableVars, serverVars
  <1>4. CASE SetSignals(t)
    <2>1. /\ s = "signals" /\ s' = "tell" /\ signals' = [signals EXCEPT ![t] = TRUE]
          /\ UNCHANGED <<tableVars, clientVars, copied, mappings>>
      BY <1>4, <1>g DEF SetSignals
    <2>2. signals' \in [Threads -> BOOLEAN] /\ signals'[t]
      BY <1>0, <2>1 DEF Values
    <2>3. Handshake(t, c, s)' /\ Served(t, s)'
      BY <1>a, <1>h, <2>1, <2>2 DEF Handshake, Served, Mapped, Inside, tableVars, clientVars
    <2> QED BY <1>0, <2>1, <2>2, <2>3 DEF Values, tableVars, clientVars
  <1>5. CASE TellClient(t)
    <2>1. /\ s = "tell" /\ s' = "ready" /\ started' = [started EXCEPT ![t] = TRUE]
          /\ UNCHANGED <<tableVars, initialized, starting, clients, holder, serverVars>>
      BY <1>5, <1>g DEF TellClient
    <2>2. Handshake(t, c, s)' /\ Served(t, s)'
      BY <1>a, <1>h, <2>1 DEF Handshake, Served, Mapped, Inside, tableVars, serverVars
    <2> QED BY <1>0, <2>1, <2>2 DEF Values, tableVars, serverVars
  <1> QED BY <1>1, <1>2, <1>3, <1>4, <1>5 DEF Server

LEMMA StartInit ==
  ASSUME Init
  PROVE  StartInv
  <1>e. 0 \in 0..Entries
    BY StartUpAssumption
  <1>1. \A t \in Threads : at[<<t, "client">>] = "out" /\ at[<<t, "server">>] = "out"
    BY IsProcess DEF Init
  <1>2. at \in [Processes -> Places] /\ \A p \in Processes : at[p] = "out"
    BY DEF Init, Places, ClientPlaces
  <1>3. Table
    BY <1>2 DEF Init, Table
  <1>4. \A t \in Threads : /\ Handshake(t, at[<<t, "client">>], at[<<t, "server">>])
                          /\ Served(t, at[<<t, "server">>])
    BY <1>1 DEF Init, Handshake, Served, Before, Mapped, Inside
  <1>5. TypeOK
    BY <1>e, <1>1 DEF Init, TypeOK
  <1> QED BY <1>2, <1>3, <1>4, <1>5 DEF StartInv, Init

LEMMA StartStep ==
  ASSUME StartInv, [Next]_vars
  PROVE  StartInv'
  <1>1. CASE \E t \in Threads : Enter(t)
    BY <1>1, ClientStep
  <1>2. CASE \E p \in Processes : Step(p)
    <2>1. PICK p \in Processes : Step(p)
      BY <1>2
    <2>2. p[1] \in Threads
      BY ProcessOf
    <2> QED BY <2>1, <2>2, GetBaseStep, ClientStep, ServerStep DEF Step
  <1>3. CASE UNCHANGED vars
    BY <1>3 DEF vars, StartInv, TypeOK, Table, Handshake, Served
  <1> QED BY <1>1, <1>2, <1>3 DEF Next

LEMMA StartAlways == Spec => []StartInv
  BY StartInit, StartStep, PTL DEF Spec

(* Where processes can be, and that nothing is filled past its end.        *)
THEOREM TypeCorrect == Spec => []TypeOK
  <1>1. StartInv => TypeOK
    BY DEF StartInv
  <1> QED BY <1>1, StartAlways, PTL

(* However many threads start at once, and whenever the driver calls back: *)
(* a first call goes on with one client, a server that is up, one table of *)
(* names and, unless it raced another process, the whole of the driver's.  *)
THEOREM FirstCallsStartWhole == Spec => []StartsWhole
  <1>1. StartInv => StartsWhole
    BY DEF StartInv, Handshake, Served, StartsWhole, Before, Inside, Mapped
  <1> QED BY <1>1, StartAlways, PTL

=============================================================================
