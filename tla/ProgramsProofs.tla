---------------------------- MODULE ProgramsProofs ----------------------------
(***************************************************************************)
(* Proofs about programs, for any number of contexts, programs, names and  *)
(* locations.                                                              *)
(***************************************************************************)
EXTENDS Programs, TLAPS

(* A program that a context uses is there.                                 *)
Held(d) == \A c \in Contexts : d.current[c] # None => d.prog[d.current[c]] # Absent
TypesHeld == TypeOK /\ Held(driver) /\ Held(gl)

(* An entry is there as long as the program is, and has the locations the  *)
(* application asked for; a program that was deleted is in use by one      *)
(* context, which takes the entry with it when it leaves the program.      *)
EntryKept(p) ==
  /\ p > made => gl.prog[p] = Absent /\ asked[p] = Nowhere
  /\ state.objects[p] = Absent <=> gl.prog[p] = Absent
  /\ p \in mapped <=> gl.prog[p] # Absent /\ ~gl.prog[p].deleted
  /\ gl.prog[p] # Absent =>
       /\ state.objects[p].marked = gl.prog[p].deleted
       /\ state.objects[p].found = asked[p]
       /\ \A x \in Vars : asked[p][x] # Unknown => gl.prog[p].loc[x] = asked[p][x]
       /\ gl.prog[p].deleted =>
            \E c \in Contexts : gl.current[c] = p /\ \A o \in Contexts : gl.current[o] = p => o = c

Inv ==
  /\ TypesHeld
  /\ driver = gl /\ state.current = gl.current
  /\ \A p \in Programs : EntryKept(p)

-----------------------------------------------------------------------------
(* A driver: what its calls do to its programs and contexts.               *)

LEMMA NewProgramTyped ==
  /\ NewProgram \in Program /\ NewEntry \in Entry /\ Nowhere \in Places
  /\ NewProgram # Absent /\ NewEntry # Absent
  <1>1. Nowhere \in Places
    BY DEF Nowhere, Places
  <1>2. NewProgram \in Program
    BY <1>1 DEF NewProgram, Program
  <1>3. NewEntry \in Entry
    BY <1>1 DEF NewEntry, Entry
  <1> QED BY <1>1, <1>2, <1>3, ProgramsAssumption

LEMMA DriverParts ==
  ASSUME NEW d \in Objects
  PROVE  /\ d.prog \in [Programs -> {Absent} \cup Program]
         /\ d.current \in [Contexts -> Programs \cup {None}]
         /\ d = [prog |-> d.prog, current |-> d.current]
  BY DEF Objects

LEMMA ProgramParts ==
  ASSUME NEW r \in Program
  PROVE  /\ r.linked \in BOOLEAN /\ r.deleted \in BOOLEAN /\ r.loc \in Places
         /\ r.value \in [Uniforms -> {0, 1}] /\ r # Absent
         /\ [r EXCEPT !.deleted = TRUE] \in Program
         /\ [r EXCEPT !.deleted = TRUE].deleted = TRUE
         /\ [r EXCEPT !.deleted = TRUE].loc = r.loc
         /\ [r EXCEPT !.linked = FALSE] \in Program
         /\ [r EXCEPT !.linked = FALSE].deleted = r.deleted
         /\ [r EXCEPT !.linked = FALSE].loc = r.loc
  <1>1. r # Absent
    BY ProgramsAssumption
  <1> QED BY <1>1 DEF Program

(* d with program p replaced.                                              *)
LEMMA WithProgram ==
  ASSUME NEW d \in Objects, NEW p \in Programs, NEW r \in {Absent} \cup Program
  PROVE  /\ [d EXCEPT !.prog[p] = r] \in Objects
         /\ [d EXCEPT !.prog[p] = r].current = d.current
         /\ [d EXCEPT !.prog[p] = r].prog[p] = r
         /\ \A q \in Programs : q # p => [d EXCEPT !.prog[p] = r].prog[q] = d.prog[q]
  <1>1. [d EXCEPT !.prog[p] = r] = [prog |-> [d.prog EXCEPT ![p] = r], current |-> d.current]
    BY DEF Objects
  <1>2. [d.prog EXCEPT ![p] = r] \in [Programs -> {Absent} \cup Program]
    BY DriverParts
  <1> QED BY <1>1, <1>2, DriverParts DEF Objects

(* glUseProgram.                                                           *)
Leaves(d, c, p, q) ==
  q = d.current[c] /\ q # None /\ q # p /\ d.prog[q].deleted /\ ~InUse(d, q, c)

LEMMA UsedIs ==
  ASSUME NEW d \in Objects, NEW c \in Contexts, NEW p \in Programs \cup {None}, Held(d)
  PROVE  /\ Used(d, c, p) \in Objects /\ Held(Used(d, c, p))
         /\ p # None /\ (d.prog[p] = Absent \/ ~d.prog[p].linked) => Used(d, c, p) = d
         /\ ~(p # None /\ (d.prog[p] = Absent \/ ~d.prog[p].linked)) =>
              /\ Used(d, c, p).current = [d.current EXCEPT ![c] = p]
              /\ \A q \in Programs :
                   Used(d, c, p).prog[q] = IF Leaves(d, c, p, q) THEN Absent ELSE d.prog[q]
  <1>1. CASE p # None /\ (d.prog[p] = Absent \/ ~d.prog[p].linked)
    BY <1>1 DEF Used
  <1>2. CASE ~(p # None /\ (d.prog[p] = Absent \/ ~d.prog[p].linked))
    <2> DEFINE old == d.current[c]
               prog == IF old # None /\ old # p /\ d.prog[old].deleted /\ ~InUse(d, old, c)
                       THEN [d.prog EXCEPT ![old] = Absent] ELSE d.prog
               current == [d.current EXCEPT ![c] = p]
    <2>1. Used(d, c, p) = [d EXCEPT !.current[c] = p, !.prog = prog]
      BY <1>2 DEF Used
    <2>2. Used(d, c, p) = [prog |-> prog, current |-> current]
      BY <2>1, DriverParts DEF Objects
    <2>3. prog \in [Programs -> {Absent} \cup Program]
      BY DriverParts
    <2>4. current \in [Contexts -> Programs \cup {None}]
      BY DriverParts
    <2>5. \A q \in Programs : prog[q] = IF Leaves(d, c, p, q) THEN Absent ELSE d.prog[q]
      BY DriverParts DEF Leaves
    <2>6. Held([prog |-> prog, current |-> current])
      <3> SUFFICES ASSUME NEW o \in Contexts, current[o] # None
                   PROVE  prog[current[o]] # Absent
        BY DEF Held
      <3>1. current[o] \in Programs
        BY <2>4
      <3>2. CASE o = c
        BY <1>2, <2>5, <3>1, <3>2, DriverParts DEF Leaves
      <3>3. CASE o # c
        <4>1. current[o] = d.current[o] /\ d.prog[d.current[o]] # Absent
          BY <3>3, DriverParts DEF Held
        <4>2. ~Leaves(d, c, p, current[o])
          BY <3>3, <4>1 DEF Leaves, InUse
        <4> QED BY <2>5, <3>1, <4>1, <4>2
      <3> QED BY <3>2, <3>3
    <2> HIDE DEF prog, current
    <2>7. [prog |-> prog, current |-> current] \in Objects
      BY <2>3, <2>4 DEF Objects
    <2> QED BY <1>2, <2>2, <2>5, <2>6, <2>7 DEF current
  <1> QED BY <1>1, <1>2

(* glDeleteProgram.                                                        *)
LEMMA DeletedIs ==
  ASSUME NEW d \in Objects, NEW p \in Programs, Held(d)
  PROVE  /\ Deleted(d, p) \in Objects /\ Held(Deleted(d, p))
         /\ Deleted(d, p).current = d.current
         /\ \A q \in Programs : q # p => Deleted(d, p).prog[q] = d.prog[q]
         /\ d.prog[p] = Absent => Deleted(d, p) = d
         /\ d.prog[p] # Absent =>
              Deleted(d, p).prog[p] = IF \E c \in Contexts : d.current[c] = p
                                      THEN [d.prog[p] EXCEPT !.deleted = TRUE] ELSE Absent
  <1>1. CASE d.prog[p] = Absent
    BY <1>1 DEF Deleted
  <1>2. CASE d.prog[p] # Absent
    <2>0. d.prog[p] \in Program
      BY <1>2, DriverParts
    <2> DEFINE r == IF \E c \in Contexts : d.current[c] = p
                    THEN [d.prog[p] EXCEPT !.deleted = TRUE] ELSE Absent
    <2>1. r \in {Absent} \cup Program
      BY <2>0, ProgramParts
    <2>2. Deleted(d, p) = [d EXCEPT !.prog[p] = r]
      <3>1. CASE \E c \in Contexts : d.current[c] = p
        BY <1>2, <3>1 DEF Deleted, Objects
      <3>2. CASE ~\E c \in Contexts : d.current[c] = p
        BY <1>2, <3>2 DEF Deleted
      <3> QED BY <3>1, <3>2
    <2>3. (\E c \in Contexts : d.current[c] = p) => r # Absent
      BY <2>0, ProgramParts
    <2>r. r = IF \E c \in Contexts : d.current[c] = p
              THEN [d.prog[p] EXCEPT !.deleted = TRUE] ELSE Absent
      OBVIOUS
    <2> HIDE DEF r
    <2>4. /\ Deleted(d, p) \in Objects /\ Deleted(d, p).current = d.current
          /\ Deleted(d, p).prog[p] = r
          /\ \A q \in Programs : q # p => Deleted(d, p).prog[q] = d.prog[q]
      BY <2>1, <2>2, WithProgram
    <2>5. Held(Deleted(d, p))
      <3> SUFFICES ASSUME NEW o \in Contexts, d.current[o] # None
                   PROVE  Deleted(d, p).prog[d.current[o]] # Absent
        BY <2>4 DEF Held
      <3>1. d.current[o] \in Programs /\ d.prog[d.current[o]] # Absent
        BY DriverParts DEF Held
      <3> QED BY <2>3, <2>4, <3>1
    <2> QED BY <1>2, <2>4, <2>5, <2>r
  <1> QED BY <1>1, <1>2

(* glLinkProgram.                                                          *)
LEMMA LinkedIs ==
  ASSUME NEW d \in Objects, NEW p \in Programs, Held(d), NEW ok \in BOOLEAN, NEW layout \in Layouts
  PROVE  /\ Linked(d, p, ok, layout) \in Objects /\ Held(Linked(d, p, ok, layout))
         /\ Linked(d, p, ok, layout).current = d.current
         /\ \A q \in Programs : q # p => Linked(d, p, ok, layout).prog[q] = d.prog[q]
         /\ d.prog[p] = Absent => Linked(d, p, ok, layout) = d
         /\ d.prog[p] # Absent =>
              /\ Linked(d, p, ok, layout).prog[p] \in Program
              /\ Linked(d, p, ok, layout).prog[p].deleted = d.prog[p].deleted
  <1>1. CASE d.prog[p] = Absent
    BY <1>1 DEF Linked
  <1>2. CASE d.prog[p] # Absent
    <2>0. d.prog[p] \in Program
      BY <1>2, DriverParts
    <2> DEFINE new == [NewProgram EXCEPT !.linked = TRUE, !.loc = layout, !.deleted = d.prog[p].deleted]
               r == IF ok THEN new ELSE [d.prog[p] EXCEPT !.linked = FALSE]
    <2>1. new \in Program /\ new.deleted = d.prog[p].deleted
      <3>1. layout \in Places
        BY DEF Layouts, Places
      <3>2. d.prog[p].deleted \in BOOLEAN
        BY <2>0, ProgramParts
      <3> QED BY <3>1, <3>2, NewProgramTyped DEF Program
    <2>2. r \in Program /\ r.deleted = d.prog[p].deleted
      BY <2>0, <2>1, ProgramParts
    <2>3. Linked(d, p, ok, layout) = [d EXCEPT !.prog[p] = r]
      <3>1. CASE ok
        BY <1>2, <3>1 DEF Linked
      <3>2. CASE ~ok
        BY <1>2, <3>2 DEF Linked, Objects
      <3> QED BY <3>1, <3>2
    <2> HIDE DEF r
    <2>4. /\ Linked(d, p, ok, layout) \in Objects
          /\ Linked(d, p, ok, layout).current = d.current
          /\ Linked(d, p, ok, layout).prog[p] = r
          /\ \A q \in Programs : q # p => Linked(d, p, ok, layout).prog[q] = d.prog[q]
      BY <2>2, <2>3, WithProgram
    <2>5. Held(Linked(d, p, ok, layout))
      <3> SUFFICES ASSUME NEW o \in Contexts, d.current[o] # None
                   PROVE  Linked(d, p, ok, layout).prog[d.current[o]] # Absent
        BY <2>4 DEF Held
      <3>1. d.current[o] \in Programs /\ d.prog[d.current[o]] # Absent
        BY DriverParts DEF Held
      <3>2. r # Absent
        BY <2>2, ProgramParts
      <3> QED BY <2>4, <3>1, <3>2
    <2> QED BY <1>2, <2>2, <2>4, <2>5
  <1> QED BY <1>1, <1>2

(* glUniform*.                                                             *)
LEMMA WithUniformIs ==
  ASSUME NEW d \in Objects, NEW c \in Contexts, NEW location, NEW v \in {0, 1}, Held(d)
  PROVE  /\ WithUniform(d, c, location, v) \in Objects /\ Held(WithUniform(d, c, location, v))
         /\ WithUniform(d, c, location, v).current = d.current
         /\ \A q \in Programs :
              /\ WithUniform(d, c, location, v).prog[q] = Absent <=> d.prog[q] = Absent
              /\ d.prog[q] # Absent =>
                   /\ WithUniform(d, c, location, v).prog[q].deleted = d.prog[q].deleted
                   /\ WithUniform(d, c, location, v).prog[q].loc = d.prog[q].loc
  <1> DEFINE p == d.current[c]
  <1>1. CASE p = None
    BY <1>1 DEF WithUniform
  <1>2. CASE p # None
    <2>0. p \in Programs /\ d.prog[p] \in Program
      BY <1>2, DriverParts DEF Held
    <2> DEFINE value == [u \in Uniforms |-> IF d.prog[p].loc[u] = location THEN v ELSE d.prog[p].value[u]]
               r == [d.prog[p] EXCEPT !.value = value]
    <2>1. value \in [Uniforms -> {0, 1}]
      <3>1. d.prog[p].value \in [Uniforms -> {0, 1}]
        BY <2>0, ProgramParts
      <3>2. \A u \in Uniforms : d.prog[p].value[u] \in {0, 1}
        BY <3>1
      <3> QED BY <3>2
    <2>2. r \in Program /\ r.deleted = d.prog[p].deleted /\ r.loc = d.prog[p].loc
      BY <2>0, <2>1 DEF Program
    <2>3. WithUniform(d, c, location, v) = [d EXCEPT !.prog[p] = r]
      BY <1>2, <2>0 DEF WithUniform, Objects, Program
    <2> HIDE DEF r
    <2>4. /\ WithUniform(d, c, location, v) \in Objects
          /\ WithUniform(d, c, location, v).current = d.current
          /\ WithUniform(d, c, location, v).prog[p] = r
          /\ \A q \in Programs : q # p => WithUniform(d, c, location, v).prog[q] = d.prog[q]
      BY <2>0, <2>2, <2>3, WithProgram
    <2>5. r # Absent /\ d.prog[p] # Absent
      BY <2>0, <2>2, ProgramParts
    <2>6. Held(WithUniform(d, c, location, v))
      <3> SUFFICES ASSUME NEW o \in Contexts, d.current[o] # None
                   PROVE  WithUniform(d, c, location, v).prog[d.current[o]] # Absent
        BY <2>4 DEF Held
      <3>1. d.current[o] \in Programs /\ d.prog[d.current[o]] # Absent
        BY DriverParts DEF Held
      <3> QED BY <2>4, <2>5, <3>1
    <2> QED BY <2>2, <2>4, <2>5, <2>6
  <1> QED BY <1>1, <1>2

-----------------------------------------------------------------------------
(* Types, whatever the application does.                                   *)

States == [objects : [Programs -> {Absent} \cup Entry], current : [Contexts -> Programs \cup {None}]]

LEMMA StateParts ==
  ASSUME NEW s \in States
  PROVE  /\ s.objects \in [Programs -> {Absent} \cup Entry]
         /\ s.current \in [Contexts -> Programs \cup {None}]
         /\ s = [objects |-> s.objects, current |-> s.current]
  BY DEF States

LEMMA EntryParts ==
  ASSUME NEW r \in Entry
  PROVE  /\ r.marked \in BOOLEAN /\ r.found \in Places /\ r # Absent
         /\ [r EXCEPT !.marked = TRUE] \in Entry
         /\ [r EXCEPT !.marked = TRUE].marked = TRUE
         /\ [r EXCEPT !.marked = TRUE].found = r.found
         /\ \A f \in Places : /\ [r EXCEPT !.found = f] \in Entry
                              /\ [r EXCEPT !.found = f].marked = r.marked
                              /\ [r EXCEPT !.found = f].found = f
  <1>1. r # Absent
    BY ProgramsAssumption
  <1> QED BY <1>1 DEF Entry

LEMMA WithEntry ==
  ASSUME NEW s \in States, NEW p \in Programs, NEW r \in {Absent} \cup Entry
  PROVE  /\ [s EXCEPT !.objects[p] = r] \in States
         /\ [s EXCEPT !.objects[p] = r].current = s.current
         /\ [s EXCEPT !.objects[p] = r].objects[p] = r
         /\ \A q \in Programs : q # p => [s EXCEPT !.objects[p] = r].objects[q] = s.objects[q]
  <1>1. [s EXCEPT !.objects[p] = r] = [objects |-> [s.objects EXCEPT ![p] = r], current |-> s.current]
    BY DEF States
  <1>2. [s.objects EXCEPT ![p] = r] \in [Programs -> {Absent} \cup Entry]
    BY StateParts
  <1> QED BY <1>1, <1>2, StateParts DEF States

(* What an entry becomes when a location is found, and one that is marked. *)
LEMMA EntryUpdates ==
  ASSUME NEW s \in States, NEW p \in Programs, s.objects[p] # Absent
  PROVE  /\ [s EXCEPT !.objects[p].marked = TRUE]
              = [s EXCEPT !.objects[p] = [s.objects[p] EXCEPT !.marked = TRUE]]
         /\ \A x \in Vars : \A location :
              [s EXCEPT !.objects[p].found = [y \in Vars |-> IF SameKey(x, y) THEN location ELSE @[y]]]
              = [s EXCEPT !.objects[p] = [s.objects[p] EXCEPT !.found =
                   [y \in Vars |-> IF SameKey(x, y) THEN location ELSE s.objects[p].found[y]]]]
  <1>1. s.objects[p] \in Entry
    BY StateParts
  <1> QED BY <1>1 DEF States, Entry

(* The client's part of glUseProgram.                                      *)
LEMMA UseInState ==
  ASSUME NEW c \in Contexts, NEW p \in Programs \cup {None}, state \in States,
         UseProgram(c, p), ~(p = state.current[c] \/ (p # None /\ state.objects[p] = Absent))
  PROVE  /\ state' \in States
         /\ state'.current = [state.current EXCEPT ![c] = p]
         /\ \A q \in Programs : state'.objects[q] = IF q = state.current[c] /\ Finished(q) THEN Absent
                                                    ELSE state.objects[q]
  <1> DEFINE objects == [q \in Programs |-> IF q = state.current[c] /\ Finished(q) THEN Absent
                                            ELSE state.objects[q]]
             current == [state.current EXCEPT ![c] = p]
  <1>1. state' = [state EXCEPT !.current[c] = p, !.objects = objects]
    BY DEF UseProgram
  <1>2. objects \in [Programs -> {Absent} \cup Entry]
    BY StateParts
  <1>3. current \in [Contexts -> Programs \cup {None}]
    BY StateParts
  <1>4. \A q \in Programs : objects[q] = IF q = state.current[c] /\ Finished(q) THEN Absent
                                        ELSE state.objects[q]
    OBVIOUS
  <1> HIDE DEF objects
  <1>5. state' = [objects |-> objects, current |-> current]
    BY <1>1 DEF States
  <1> HIDE DEF current
  <1>6. state'.objects = objects /\ state'.current = current
    BY <1>5
  <1>7. state' \in States
    BY <1>2, <1>3, <1>5 DEF States
  <1> QED BY <1>4, <1>6, <1>7 DEF current

LEMMA MadeAreProgramsIn ==
  ASSUME TypeOK
  PROVE  /\ 1..made \subseteq Programs
         /\ made < cast.programs => made + 1 \in Programs /\ made + 1 \in 1..cast.programs
  <1>1. cast \in Casts /\ made \in 0..cast.programs
    BY DEF TypeOK
  <1>2. cast.programs \in Nat
    BY <1>1, ProgramsAssumption
  <1>3. 1..cast.programs \subseteq Programs
    BY <1>1 DEF Programs
  <1> QED BY <1>1, <1>2, <1>3

LEMMA TypesStep ==
  ASSUME TypesHeld, [Next]_vars
  PROVE  TypesHeld'
  <1>0. /\ state \in States /\ mapped \subseteq 1..made /\ driver \in Objects /\ gl \in Objects
        /\ asked \in [Programs -> Places] /\ made \in 0..cast.programs /\ cast \in Casts
        /\ Held(driver) /\ Held(gl)
    BY DEF TypesHeld, TypeOK, States
  <1>p. /\ 1..made \subseteq Programs
        /\ made < cast.programs => made + 1 \in Programs /\ made + 1 \in 1..cast.programs
    BY MadeAreProgramsIn DEF TypesHeld
  <1>s. ASSUME state' \in States, mapped' \subseteq 1..made', driver' \in Objects, gl' \in Objects,
               asked' \in [Programs -> Places], made' \in 0..cast'.programs, cast' \in Casts,
               Held(driver'), Held(gl')
        PROVE  TypesHeld'
    BY <1>s DEF TypesHeld, TypeOK, States, Held
  <1>1. CASE CreateProgram
    <2>1. /\ made < cast.programs /\ made' = made + 1
          /\ state' = [state EXCEPT !.objects[made'] = NewEntry]
          /\ mapped' = mapped \cup {made'}
          /\ driver' = [driver EXCEPT !.prog[made'] = NewProgram]
          /\ gl' = [gl EXCEPT !.prog[made'] = NewProgram]
          /\ UNCHANGED <<asked, cast>>
      BY <1>1 DEF CreateProgram
    <2>2. made' \in Programs
      BY <1>p, <2>1
    <2>3. state' \in States
      BY <1>0, <2>1, <2>2, NewProgramTyped, WithEntry
    <2>4. ASSUME NEW d \in Objects, Held(d)
          PROVE  [d EXCEPT !.prog[made'] = NewProgram] \in Objects
                 /\ Held([d EXCEPT !.prog[made'] = NewProgram])
      <3> DEFINE e == [d EXCEPT !.prog[made'] = NewProgram]
      <3>1. /\ e \in Objects /\ e.current = d.current /\ e.prog[made'] = NewProgram
            /\ \A q \in Programs : q # made' => e.prog[q] = d.prog[q]
        BY <2>2, NewProgramTyped, WithProgram
      <3> HIDE DEF e
      <3>2. ASSUME NEW o \in Contexts, d.current[o] # None
            PROVE  e.prog[d.current[o]] # Absent
        <4>1. d.current[o] \in Programs /\ d.prog[d.current[o]] # Absent
          BY <2>4, <3>2, DriverParts DEF Held
        <4> QED BY <3>1, <4>1, NewProgramTyped
      <3>3. Held(e)
        BY <3>1, <3>2 DEF Held
      <3> QED BY <3>1, <3>3 DEF e
    <2>5. driver' \in Objects /\ Held(driver') /\ gl' \in Objects /\ Held(gl')
      BY <1>0, <2>1, <2>4
    <2>6. made' \in 0..cast'.programs /\ mapped' \subseteq 1..made'
      <3>1. made' \in 0..cast'.programs
        BY <1>0, <1>p, <2>1
      <3>2. 1..made \subseteq 1..made' /\ made' \in 1..made'
        BY <1>0, <1>p, <2>1
      <3> QED BY <1>0, <2>1, <3>1, <3>2
    <2> QED BY <1>0, <1>s, <2>1, <2>3, <2>5, <2>6
  <1>2. ASSUME NEW c \in Contexts, NEW p \in Programs, DeleteProgram(c, p)
        PROVE  TypesHeld'
    <2>1. state' \in States
      <3>1. CASE state.objects[p] # Absent /\ KeptInUse(c, p)
        <4>1. [state.objects[p] EXCEPT !.marked = TRUE] \in Entry
          BY <1>0, <3>1, StateParts, EntryParts
        <4>2. state' = [state EXCEPT !.objects[p].marked = TRUE]
          BY <1>2, <3>1 DEF DeleteProgram
        <4>3. state' = [state EXCEPT !.objects[p] = [state.objects[p] EXCEPT !.marked = TRUE]]
          BY <1>0, <3>1, <4>2, EntryUpdates
        <4> QED BY <1>0, <4>1, <4>3, WithEntry
      <3>2. CASE state.objects[p] = Absent \/ ~KeptInUse(c, p)
        BY <1>0, <1>2, <3>2, WithEntry DEF DeleteProgram
      <3> QED BY <3>1, <3>2
    <2>2. gl' \in Objects /\ Held(gl') /\ driver' \in Objects /\ Held(driver')
      <3>1. gl' = Deleted(gl, p) /\ driver' \in {driver, Deleted(driver, p)}
        BY <1>2 DEF DeleteProgram
      <3>2. \A d \in Objects : Held(d) => Deleted(d, p) \in Objects /\ Held(Deleted(d, p))
        BY DeletedIs
      <3> QED BY <1>0, <3>1, <3>2
    <2>3. mapped' \subseteq mapped /\ UNCHANGED <<asked, made, cast>>
      BY <1>2 DEF DeleteProgram
    <2> QED BY <1>0, <1>s, <2>1, <2>2, <2>3
  <1>3. ASSUME NEW c \in Contexts, NEW p \in Programs \cup {None}, UseProgram(c, p)
        PROVE  TypesHeld'
    <2>1. state' \in States
      <3>1. CASE p = state.current[c] \/ (p # None /\ state.objects[p] = Absent)
        BY <1>0, <1>3, <3>1 DEF UseProgram
      <3>2. CASE ~(p = state.current[c] \/ (p # None /\ state.objects[p] = Absent))
        BY <1>0, <1>3, <3>2, UseInState
      <3> QED BY <3>1, <3>2
    <2>2. gl' \in Objects /\ Held(gl') /\ driver' \in Objects /\ Held(driver')
      <3>1. gl' = Used(gl, c, p) /\ driver' \in {driver, Used(driver, c, p)}
        BY <1>3 DEF UseProgram
      <3>2. \A d \in Objects : Held(d) => Used(d, c, p) \in Objects /\ Held(Used(d, c, p))
        BY UsedIs
      <3> QED BY <1>0, <3>1, <3>2
    <2>3. UNCHANGED <<mapped, asked, made, cast>>
      BY <1>3 DEF UseProgram
    <2> QED BY <1>0, <1>s, <2>1, <2>2, <2>3
  <1>4. ASSUME NEW p \in Programs, NEW ok \in BOOLEAN, NEW layout \in Layouts, LinkProgram(p, ok, layout)
        PROVE  TypesHeld'
    <2>1. gl' \in Objects /\ Held(gl') /\ driver' \in Objects /\ Held(driver')
      <3>1. gl' = Linked(gl, p, ok, layout) /\ driver' \in {driver, Linked(driver, p, ok, layout)}
        BY <1>4 DEF LinkProgram
      <3> QED BY <1>0, <3>1, LinkedIs
    <2>2. asked' = [asked EXCEPT ![p] = Nowhere] /\ UNCHANGED <<state, mapped, made, cast>>
      BY <1>4 DEF LinkProgram
    <2> QED BY <1>0, <1>s, <2>1, <2>2, NewProgramTyped
  <1>5. ASSUME NEW p \in Programs, NEW x \in Vars, GetLocation(p, x)
        PROVE  TypesHeld'
    <2>0. UNCHANGED <<mapped, driver, gl, made, cast>>
      BY <1>5 DEF GetLocation
    <2>1. \E location \in Locations \cup {Unknown} :
            /\ asked' = [asked EXCEPT ![p][x] = location]
            /\ \/ state' = state
               \/ /\ state.objects[p] # Absent
                  /\ state' = [state EXCEPT !.objects[p].found =
                                  [y \in Vars |-> IF SameKey(x, y) THEN location ELSE @[y]]]
      <3>1. CASE state.objects[p] = Absent
        BY <1>5, <3>1 DEF GetLocation
      <3>2. CASE state.objects[p] # Absent /\ state.objects[p].found[x] # Unknown
        <4>1. state.objects[p].found[x] \in Locations \cup {Unknown}
          <5>1. state.objects[p] \in Entry
            BY <1>0, <3>2, StateParts
          <5>2. state.objects[p].found \in Places
            BY <5>1, EntryParts
          <5> QED BY <5>2 DEF Places
        <4> QED BY <1>5, <3>2, <4>1 DEF GetLocation
      <3>3. CASE state.objects[p] # Absent /\ ~(state.objects[p].found[x] # Unknown)
        <4>1. LocationIn(driver, p, x) \in Locations \cup {Unknown}
          <5>1. driver.prog[p] # Absent => driver.prog[p].loc \in Places
            <6>1. driver.prog[p] # Absent => driver.prog[p] \in Program
              BY <1>0, DriverParts
            <6> QED BY <6>1, ProgramParts
          <5> QED BY <5>1 DEF LocationIn, Places
        <4> QED BY <1>5, <3>3, <4>1 DEF GetLocation
      <3> QED BY <3>1, <3>2, <3>3
    <2>2. PICK location \in Locations \cup {Unknown} :
            /\ asked' = [asked EXCEPT ![p][x] = location]
            /\ \/ state' = state
               \/ /\ state.objects[p] # Absent
                  /\ state' = [state EXCEPT !.objects[p].found =
                                  [y \in Vars |-> IF SameKey(x, y) THEN location ELSE @[y]]]
      BY <2>1
    <2>3. asked' \in [Programs -> Places]
      BY <1>0, <2>2 DEF Places
    <2>4. state' \in States
      <3>1. CASE state' # state
        <4> DEFINE found == [y \in Vars |-> IF SameKey(x, y) THEN location ELSE state.objects[p].found[y]]
        <4>1. state.objects[p] \in Entry
          BY <1>0, <2>2, <3>1, StateParts
        <4>2. found \in Places
          <5>1. state.objects[p].found \in Places
            BY <4>1, EntryParts
          <5> QED BY <5>1 DEF Places
        <4>3. state' = [state EXCEPT !.objects[p] = [state.objects[p] EXCEPT !.found = found]]
          BY <1>0, <2>2, <3>1, EntryUpdates
        <4> HIDE DEF found
        <4> QED BY <1>0, <4>1, <4>2, <4>3, EntryParts, WithEntry
      <3> QED BY <1>0, <3>1
    <2> QED BY <1>0, <1>s, <2>0, <2>3, <2>4
  <1>6. ASSUME NEW c \in Contexts, NEW u \in Uniforms, NEW v \in {0, 1}, Uniform(c, u, v)
        PROVE  TypesHeld'
    <2>1. /\ \E l : gl' = WithUniform(gl, c, l, v)
          /\ driver' = driver \/ \E l : driver' = WithUniform(driver, c, l, v)
          /\ UNCHANGED <<state, mapped, asked, made, cast>>
      BY <1>6 DEF Uniform
    <2>2. gl' \in Objects /\ Held(gl') /\ driver' \in Objects /\ Held(driver')
      BY <1>0, <2>1, WithUniformIs
    <2> QED BY <1>0, <1>s, <2>1, <2>2
  <1>7. CASE UNCHANGED vars
    BY <1>0, <1>7, <1>s DEF vars
  <1>8. CASE Next
    <2>1. CASE \E c \in Contexts : UseProgram(c, None)
      BY <1>3, <2>1
    <2>2. CASE \E p \in 1..made :
       \/ \E c \in Contexts : DeleteProgram(c, p) \/ UseProgram(c, p)
       \/ \E ok \in BOOLEAN, layout \in Layouts : LinkProgram(p, ok, layout)
       \/ \E a \in Attribs \cap cast.names : GetAttribLocation(p, a)
       \/ \E u \in Uniforms \cap cast.names : GetUniformLocation(p, u)
      <3>1. PICK p \in Programs :
         \/ \E c \in Contexts : DeleteProgram(c, p) \/ UseProgram(c, p)
         \/ \E ok \in BOOLEAN, layout \in Layouts : LinkProgram(p, ok, layout)
         \/ \E x \in Vars : GetLocation(p, x)
        BY <1>p, <2>2 DEF GetAttribLocation, GetUniformLocation, Vars
      <3> QED BY <1>2, <1>3, <1>4, <1>5, <3>1
    <2> QED BY <1>1, <1>6, <1>8, <2>1, <2>2 DEF Next
  <1> QED BY <1>7, <1>8

-----------------------------------------------------------------------------
(* What an application that keeps to all manners gets.                     *)

(* Under the manners a program that may be used by name has an entry, is   *)
(* known to the server, and is not marked.                                 *)
LEMMA LiveHasEntry ==
  ASSUME Inv, AllManners \subseteq Manners, NEW p \in Programs, Live(p)
  PROVE  /\ gl.prog[p] # Absent /\ ~gl.prog[p].deleted
         /\ state.objects[p] # Absent /\ p \in mapped /\ ~state.objects[p].marked
         /\ state.objects[p].found = asked[p]
         /\ p <= made
  <1>1. "alive" \in Manners
    BY DEF AllManners
  <1>2. p \in Nat /\ made \in Nat
    <2>1. made \in 0..cast.programs
      BY DEF Inv, TypesHeld, TypeOK
    <2>2. PICK k \in Casts : p \in 1..k.programs
      BY DEF Programs
    <2>3. cast.programs \in Nat /\ k.programs \in Nat
      BY ProgramsAssumption DEF Inv, TypesHeld, TypeOK
    <2> QED BY <2>1, <2>2, <2>3
  <1> QED BY <1>1, <1>2 DEF Inv, EntryKept, Live

LEMMA SameObjects ==
  ASSUME NEW d \in Objects, NEW e \in Objects, d.current = e.current,
         \A q \in Programs : d.prog[q] = e.prog[q]
  PROVE  d = e
  <1>1. d.prog = e.prog
    BY DriverParts
  <1> QED BY <1>1, DriverParts

LEMMA InvStep ==
  ASSUME Inv, AllManners \subseteq Manners, [Next]_vars
  PROVE  Inv'
  <1>m. /\ "linked" \in Manners /\ "once" \in Manners /\ "asked" \in Manners
        /\ "alive" \in Manners /\ "yours" \in Manners /\ "hashes" \in Manners
    BY DEF AllManners
  <1>0. /\ state \in States /\ gl \in Objects /\ Held(gl) /\ asked \in [Programs -> Places]
        /\ driver = gl /\ state.current = gl.current
    BY DEF Inv, TypesHeld, TypeOK, States
  <1>k. \A q \in Programs : EntryKept(q)
    BY DEF Inv
  <1>t. TypesHeld'
    BY TypesStep DEF Inv
  <1>p. /\ 1..made \subseteq Programs
        /\ made < cast.programs => made + 1 \in Programs /\ made + 1 \in 1..cast.programs
        /\ made \in Nat /\ Programs \subseteq Nat
    <2>1. made \in 0..cast.programs /\ cast.programs \in Nat
      BY ProgramsAssumption DEF Inv, TypesHeld, TypeOK
    <2>2. Programs \subseteq Nat
      BY ProgramsAssumption DEF Programs
    <2> QED BY <2>1, <2>2, MadeAreProgramsIn DEF Inv, TypesHeld
  (* What one program has is not touched by a step that is about others.   *)
  <1>o. ASSUME NEW q \in Programs, made' >= made, made' \in Nat, asked'[q] = asked[q],
               state'.objects[q] = state.objects[q], gl'.prog[q] = gl.prog[q],
               q \in mapped' <=> q \in mapped,
               \A c \in Contexts : gl'.current[c] = q <=> gl.current[c] = q
        PROVE  EntryKept(q)'
    <2>1. EntryKept(q) /\ q \in Nat
      BY <1>k, <1>p
    <2>2. q > made' => q > made
      BY <1>o, <1>p, <2>1
    <2> QED BY <1>o, <2>1, <2>2 DEF EntryKept
  <1>1. CASE CreateProgram
    <2>1. /\ made < cast.programs /\ made' = made + 1
          /\ state' = [state EXCEPT !.objects[made'] = NewEntry]
          /\ mapped' = mapped \cup {made'}
          /\ driver' = [driver EXCEPT !.prog[made'] = NewProgram]
          /\ gl' = [gl EXCEPT !.prog[made'] = NewProgram]
          /\ UNCHANGED <<asked, cast>>
      BY <1>1 DEF CreateProgram
    <2>2. made' \in Programs /\ made' > made /\ made' \in Nat
      BY <1>p, <2>1
    <2>3. /\ state'.current = state.current /\ state'.objects[made'] = NewEntry
          /\ \A q \in Programs : q # made' => state'.objects[q] = state.objects[q]
      BY <1>0, <2>1, <2>2, NewProgramTyped, WithEntry
    <2>4. /\ gl'.current = gl.current /\ gl'.prog[made'] = NewProgram
          /\ \A q \in Programs : q # made' => gl'.prog[q] = gl.prog[q]
      BY <1>0, <2>1, <2>2, NewProgramTyped, WithProgram
    <2>5. driver' = gl'
      BY <1>0, <2>1
    <2>6. ASSUME NEW q \in Programs, q = made'
          PROVE  EntryKept(q)'
      <3>1. asked[q] = Nowhere
        BY <1>k, <2>2, <2>6 DEF EntryKept
      <3>2. NewEntry.marked = FALSE /\ NewEntry.found = Nowhere /\ NewProgram.deleted = FALSE
        BY DEF NewEntry, NewProgram
      <3>3. \A x \in Vars : Nowhere[x] = Unknown
        BY DEF Nowhere
      <3>4. ~(q > made')
        BY <2>2, <2>6
      <3>5. /\ asked'[q] = Nowhere /\ q \in mapped'
            /\ state'.objects[q] = NewEntry /\ gl'.prog[q] = NewProgram
        BY <2>1, <2>3, <2>4, <2>6, <3>1
      <3> QED BY <3>2, <3>3, <3>4, <3>5, NewProgramTyped DEF EntryKept
    <2>7. ASSUME NEW q \in Programs, q # made'
          PROVE  EntryKept(q)'
      BY <1>o, <2>1, <2>2, <2>3, <2>4, <2>7, <1>p
    <2> QED BY <1>0, <1>t, <2>3, <2>4, <2>5, <2>6, <2>7 DEF Inv
  <1>2. ASSUME NEW c \in Contexts, NEW p \in Programs, DeleteProgram(c, p)
        PROVE  Inv'
    <2>1. /\ gl.prog[p] # Absent /\ ~gl.prog[p].deleted
          /\ state.objects[p] # Absent /\ p \in mapped /\ ~state.objects[p].marked
          /\ state.objects[p].found = asked[p] /\ p <= made
      BY <1>2, LiveHasEntry DEF DeleteProgram
    <2>2. /\ \A o \in Contexts : gl.current[o] = p => o = c
          /\ gl' = Deleted(gl, p) /\ driver' = gl'
          /\ mapped' = mapped \ {p} /\ UNCHANGED <<asked, made, cast>>
      BY <1>0, <1>2, <1>m, <2>1 DEF DeleteProgram, InUse
    <2>3. /\ gl'.current = gl.current
          /\ \A q \in Programs : q # p => gl'.prog[q] = gl.prog[q]
          /\ gl'.prog[p] = IF \E o \in Contexts : gl.current[o] = p
                           THEN [gl.prog[p] EXCEPT !.deleted = TRUE] ELSE Absent
      BY <1>0, <2>1, <2>2, DeletedIs
    <2>4. gl.prog[p] \in Program /\ state.objects[p] \in Entry
      BY <1>0, <2>1, DriverParts, StateParts
    <2>5. CASE p = state.current[c]
      <3>1. state' = [state EXCEPT !.objects[p].marked = TRUE]
        BY <1>2, <2>1, <2>5 DEF DeleteProgram, KeptInUse
      <3>2. state' = [state EXCEPT !.objects[p] = [state.objects[p] EXCEPT !.marked = TRUE]]
        BY <1>0, <2>1, <3>1, EntryUpdates
      <3>e. /\ [state.objects[p] EXCEPT !.marked = TRUE] \in Entry
            /\ [state.objects[p] EXCEPT !.marked = TRUE].marked = TRUE
            /\ [state.objects[p] EXCEPT !.marked = TRUE].found = state.objects[p].found
            /\ [state.objects[p] EXCEPT !.marked = TRUE] # Absent
        BY <2>4, EntryParts
      <3>3. /\ state'.current = state.current
            /\ state'.objects[p] = [state.objects[p] EXCEPT !.marked = TRUE]
            /\ \A q \in Programs : q # p => state'.objects[q] = state.objects[q]
        BY <1>0, <3>2, <3>e, WithEntry
      <3>4. /\ gl'.prog[p] = [gl.prog[p] EXCEPT !.deleted = TRUE] /\ gl'.prog[p] # Absent
            /\ gl'.prog[p].deleted = TRUE /\ gl'.prog[p].loc = gl.prog[p].loc
        <4>1. gl'.prog[p] = [gl.prog[p] EXCEPT !.deleted = TRUE]
          BY <1>0, <2>3, <2>5
        <4>2. /\ [gl.prog[p] EXCEPT !.deleted = TRUE] \in Program
              /\ [gl.prog[p] EXCEPT !.deleted = TRUE].deleted = TRUE
              /\ [gl.prog[p] EXCEPT !.deleted = TRUE].loc = gl.prog[p].loc
          BY <2>4, ProgramParts
        <4>3. [gl.prog[p] EXCEPT !.deleted = TRUE] # Absent
          BY <4>2, ProgramParts
        <4> QED BY <4>1, <4>2, <4>3
      <3>5. EntryKept(p)'
        <4>1. /\ gl'.current[c] = p /\ \A o \in Contexts : gl'.current[o] = p => o = c
          BY <1>0, <2>2, <2>3, <2>5
        <4>2. p \notin mapped' /\ ~(p > made')
          BY <1>p, <2>1, <2>2
        <4> QED BY <1>k, <2>1, <2>2, <3>e, <3>3, <3>4, <4>1, <4>2 DEF EntryKept
      <3>6. ASSUME NEW q \in Programs, q # p
            PROVE  EntryKept(q)'
        BY <1>o, <1>p, <2>2, <2>3, <3>3, <3>6
      <3> QED BY <1>0, <1>t, <2>2, <2>3, <3>3, <3>5, <3>6 DEF Inv
    <2>6. CASE p # state.current[c]
      <3>1. state' = [state EXCEPT !.objects[p] = Absent]
        BY <1>2, <2>1, <2>6 DEF DeleteProgram, KeptInUse
      <3>2. /\ state'.current = state.current /\ state'.objects[p] = Absent
            /\ \A q \in Programs : q # p => state'.objects[q] = state.objects[q]
        BY <1>0, <3>1, WithEntry
      <3>3. gl'.prog[p] = Absent
        BY <1>0, <2>2, <2>3, <2>6
      <3>4. EntryKept(p)'
        <4>1. p \notin mapped' /\ ~(p > made')
          BY <1>p, <2>1, <2>2
        <4> QED BY <3>2, <3>3, <4>1 DEF EntryKept
      <3>5. ASSUME NEW q \in Programs, q # p
            PROVE  EntryKept(q)'
        BY <1>o, <1>p, <2>2, <2>3, <3>2, <3>5
      <3> QED BY <1>0, <1>t, <2>2, <2>3, <3>2, <3>4, <3>5 DEF Inv
    <2> QED BY <2>5, <2>6
  <1>3. ASSUME NEW c \in Contexts, NEW p \in Programs \cup {None}, UseProgram(c, p)
        PROVE  Inv'
    <2>1. gl' = Used(gl, c, p) /\ UNCHANGED <<mapped, asked, made, cast>>
      BY <1>3 DEF UseProgram
    <2>2. CASE p = gl.current[c]
      <3>1. UNCHANGED <<state, driver>>
        BY <1>0, <1>3, <2>2 DEF UseProgram
      <3>2. gl' = gl
        <4>1. gl' \in Objects
          BY <1>0, <2>1, UsedIs
        <4>2. CASE p # None /\ (gl.prog[p] = Absent \/ ~gl.prog[p].linked)
          BY <2>1, <4>2 DEF Used
        <4>3. CASE ~(p # None /\ (gl.prog[p] = Absent \/ ~gl.prog[p].linked))
          <5>1. /\ gl'.current = [gl.current EXCEPT ![c] = p]
                /\ \A q \in Programs : gl'.prog[q] = IF Leaves(gl, c, p, q) THEN Absent ELSE gl.prog[q]
            BY <1>0, <2>1, <4>3, UsedIs
          <5>2. gl'.current = gl.current
            BY <1>0, <2>2, <5>1, DriverParts
          <5>3. \A q \in Programs : ~Leaves(gl, c, p, q)
            BY <2>2 DEF Leaves
          <5> QED BY <1>0, <4>1, <5>1, <5>2, <5>3, SameObjects
        <4> QED BY <4>2, <4>3
      <3>3. ASSUME NEW q \in Programs
            PROVE  EntryKept(q)'
        BY <1>o, <1>p, <2>1, <3>1, <3>2
      <3> QED BY <1>0, <1>t, <3>1, <3>2, <3>3 DEF Inv
    <2>3. CASE p # gl.current[c]
      <3>1. p # None => /\ gl.prog[p] # Absent /\ gl.prog[p].linked /\ ~gl.prog[p].deleted
                        /\ state.objects[p] # Absent /\ p \in mapped
        BY <1>3, <1>m, <2>3, LiveHasEntry DEF UseProgram
      <3>2. ~(p = state.current[c] \/ (p # None /\ state.objects[p] = Absent))
        BY <1>0, <2>3, <3>1
      <3>3. /\ state'.current = [state.current EXCEPT ![c] = p]
            /\ \A q \in Programs : state'.objects[q] = IF q = state.current[c] /\ Finished(q) THEN Absent
                                                       ELSE state.objects[q]
        BY <1>0, <1>3, <3>2, UseInState
      <3>4. driver' = gl'
        BY <1>0, <1>3, <2>1, <3>1, <3>2 DEF UseProgram
      <3>5. /\ gl'.current = [gl.current EXCEPT ![c] = p]
            /\ \A q \in Programs : gl'.prog[q] = IF Leaves(gl, c, p, q) THEN Absent ELSE gl.prog[q]
        <4>1. gl \in Objects /\ c \in Contexts /\ p \in Programs \cup {None} /\ Held(gl)
          BY <1>0
        <4>2. ~(p # None /\ (gl.prog[p] = Absent \/ ~gl.prog[p].linked))
          BY <3>1
        <4>3. /\ Used(gl, c, p).current = [gl.current EXCEPT ![c] = p]
              /\ \A q \in Programs :
                   Used(gl, c, p).prog[q] = IF Leaves(gl, c, p, q) THEN Absent ELSE gl.prog[q]
          BY <4>1, <4>2, UsedIs
        <4> QED BY <2>1, <4>3
      <3>6. \A o \in Contexts : gl'.current[o] = IF o = c THEN p ELSE gl.current[o]
        BY <1>0, <3>5, DriverParts
      <3>7. ASSUME NEW q \in Programs
            PROVE  EntryKept(q)'
        <4>n. q # None
          BY ProgramsAssumption
        <4>k. EntryKept(q)
          BY <1>k
        <4>1. CASE q = gl.current[c] /\ gl.prog[q] # Absent /\ gl.prog[q].deleted
          <5>1. Leaves(gl, c, p, q)
            BY <2>3, <4>1, <4>k, <4>n DEF Leaves, InUse, EntryKept
          <5>2. q = state.current[c] /\ Finished(q)
            BY <1>0, <4>1, <4>k, <4>n DEF Finished, EntryKept
          <5>3. gl'.prog[q] = Absent /\ state'.objects[q] = Absent
            BY <3>3, <3>5, <5>1, <5>2
          <5>4. q \notin mapped'
            BY <2>1, <4>1, <4>k DEF EntryKept
          <5> QED BY <2>1, <4>k, <5>3, <5>4 DEF EntryKept
        <4>2. CASE ~(q = gl.current[c] /\ gl.prog[q] # Absent /\ gl.prog[q].deleted)
          <5>1. ~Leaves(gl, c, p, q)
            BY <1>0, <4>2 DEF Leaves, Held
          <5>2. ~(q = state.current[c] /\ Finished(q))
            BY <1>0, <4>2, <4>k DEF Finished, EntryKept
          <5>3. gl'.prog[q] = gl.prog[q] /\ state'.objects[q] = state.objects[q]
            BY <3>3, <3>5, <5>1, <5>2
          <5>4. gl.prog[q] # Absent /\ gl.prog[q].deleted =>
                  \A o \in Contexts : gl'.current[o] = q <=> gl.current[o] = q
            BY <3>1, <3>6, <4>2, <4>n
          <5> QED BY <2>1, <4>k, <5>3, <5>4 DEF EntryKept
        <4> QED BY <4>1, <4>2
      <3> QED BY <1>0, <1>t, <3>3, <3>4, <3>5, <3>7 DEF Inv
    <2> QED BY <2>2, <2>3
  <1>4. ASSUME NEW p \in Programs, NEW ok \in BOOLEAN, NEW layout \in Layouts, LinkProgram(p, ok, layout)
        PROVE  Inv'
    <2>1. /\ gl.prog[p] # Absent /\ ~gl.prog[p].deleted
          /\ state.objects[p] # Absent /\ p \in mapped
          /\ state.objects[p].found = asked[p] /\ p <= made
      BY <1>4, LiveHasEntry DEF LinkProgram
    <2>2. /\ asked[p] = Nowhere /\ gl' = Linked(gl, p, ok, layout) /\ driver' = gl'
          /\ UNCHANGED <<state, mapped, made, cast>> /\ asked' = [asked EXCEPT ![p] = Nowhere]
      BY <1>0, <1>4, <1>m, <2>1 DEF LinkProgram
    <2>3. asked' = asked
      BY <1>0, <2>2
    <2>4. /\ gl'.current = gl.current
          /\ \A q \in Programs : q # p => gl'.prog[q] = gl.prog[q]
          /\ gl'.prog[p] \in Program /\ gl'.prog[p].deleted = gl.prog[p].deleted
      BY <1>0, <2>1, <2>2, LinkedIs
    <2>5. EntryKept(p)'
      <3>1. gl'.prog[p] # Absent
        BY <2>4, ProgramParts
      <3>2. \A x \in Vars : asked'[p][x] = Unknown
        BY <2>2, <2>3 DEF Nowhere
      <3>3. ~(p > made')
        BY <1>p, <2>1, <2>2
      <3> QED BY <1>k, <2>1, <2>2, <2>3, <2>4, <3>1, <3>2, <3>3 DEF EntryKept
    <2>6. ASSUME NEW q \in Programs, q # p
          PROVE  EntryKept(q)'
      BY <1>o, <1>p, <2>2, <2>3, <2>4, <2>6
    <2> QED BY <1>0, <1>t, <2>2, <2>4, <2>5, <2>6 DEF Inv
  <1>5. ASSUME NEW p \in Programs, NEW x \in Vars, GetLocation(p, x)
        PROVE  Inv'
    <2>0. UNCHANGED <<mapped, driver, gl, made, cast>>
      BY <1>5 DEF GetLocation
    <2>1. /\ gl.prog[p] # Absent /\ ~gl.prog[p].deleted
          /\ state.objects[p] # Absent /\ p \in mapped
          /\ state.objects[p].found = asked[p] /\ p <= made
      BY <1>5, LiveHasEntry DEF GetLocation
    <2>2. state.objects[p] \in Entry /\ asked[p] \in Places
      BY <1>0, <2>1, StateParts
    <2>3. CASE UNCHANGED <<state, asked>>
      BY <1>0, <1>k, <1>o, <1>p, <1>t, <2>0, <2>3 DEF Inv
    <2>4. CASE state.objects[p].found[x] # Unknown
      <3>1. asked' = [asked EXCEPT ![p][x] = asked[p][x]] /\ UNCHANGED state
        BY <1>5, <2>1, <2>4 DEF GetLocation
      <3>2. asked' = asked
        BY <1>0, <2>2, <3>1 DEF Places
      <3> QED BY <2>3, <3>1, <3>2
    <2>5. CASE state.objects[p].found[x] = Unknown
      <3> DEFINE location == LocationIn(gl, p, x)
      <3>1. /\ asked' = [asked EXCEPT ![p][x] = location]
            /\ state' = IF ~Kept(location) THEN state
                        ELSE [state EXCEPT !.objects[p].found =
                                [y \in Vars |-> IF SameKey(x, y) THEN location ELSE @[y]]]
        BY <1>0, <1>5, <2>1, <2>5 DEF GetLocation
      <3>2. CASE location = Unknown
        <4>1. asked' = [asked EXCEPT ![p][x] = asked[p][x]] /\ UNCHANGED state
          BY <2>1, <2>5, <3>1, <3>2 DEF Kept
        <4>2. asked' = asked
          BY <1>0, <2>2, <4>1 DEF Places
        <4> QED BY <2>3, <4>1, <4>2
      <3>3. CASE location # Unknown
        <4> DEFINE found == [y \in Vars |-> IF SameKey(x, y) THEN location ELSE state.objects[p].found[y]]
                   answer == [asked[p] EXCEPT ![x] = location]
        <4>1. state' = [state EXCEPT !.objects[p] = [state.objects[p] EXCEPT !.found = found]]
          BY <1>0, <2>1, <3>1, <3>3, EntryUpdates DEF Kept
        <4>2. found = answer
          <5>1. \A y \in Vars : SameKey(x, y) <=> x = y
            BY <1>m DEF SameKey
          <5>2. found = [y \in Vars |-> IF x = y THEN location ELSE asked[p][y]]
            BY <2>1, <5>1
          <5> QED BY <2>2, <5>2 DEF Places
        <4>3. asked' = [asked EXCEPT ![p] = answer]
          BY <1>0, <3>1
        <4>4. answer[x] = location /\ \A y \in Vars : y # x => answer[y] = asked[p][y]
          BY <2>2 DEF Places
        <4>5. gl.prog[p].loc[x] = location
          BY <3>3 DEF LocationIn
        <4>6. answer \in Places
          <5>1. location \in Locations \cup {Unknown}
            <6>1. gl.prog[p].loc \in Places
              <7>1. gl.prog[p] \in Program
                BY <1>0, <2>1, DriverParts
              <7> QED BY <7>1, ProgramParts
            <6> QED BY <4>5, <6>1 DEF Places
          <5> QED BY <2>2, <5>1 DEF Places
        <4> HIDE DEF answer, found, location
        <4>e. /\ [state.objects[p] EXCEPT !.found = answer] \in Entry
              /\ [state.objects[p] EXCEPT !.found = answer].marked = state.objects[p].marked
              /\ [state.objects[p] EXCEPT !.found = answer].found = answer
              /\ [state.objects[p] EXCEPT !.found = answer] # Absent
          <5> DEFINE r == state.objects[p]
          <5>1. r \in Entry
            BY <2>2
          <5> HIDE DEF r
          <5>2. /\ [r EXCEPT !.found = answer] \in Entry
                /\ [r EXCEPT !.found = answer].marked = r.marked
                /\ [r EXCEPT !.found = answer].found = answer
            BY <4>6, <5>1 DEF Entry
          <5>3. [r EXCEPT !.found = answer] # Absent
            BY <5>2, EntryParts
          <5> QED BY <5>2, <5>3 DEF r
        <4>7. /\ state'.current = state.current
              /\ state'.objects[p] = [state.objects[p] EXCEPT !.found = answer]
              /\ \A q \in Programs : q # p => state'.objects[q] = state.objects[q]
          BY <1>0, <4>1, <4>2, <4>e, WithEntry
        <4>8. asked'[p] = answer /\ \A q \in Programs : q # p => asked'[q] = asked[q]
          BY <1>0, <4>3
        <4>9. EntryKept(p)'
          <5>1. \A y \in Vars : answer[y] # Unknown => gl.prog[p].loc[y] = answer[y]
            BY <1>k, <2>1, <4>4, <4>5 DEF EntryKept
          <5>2. ~(p > made')
            BY <1>p, <2>0, <2>1
          <5> QED BY <1>k, <2>0, <2>1, <4>e, <4>7, <4>8, <5>1, <5>2 DEF EntryKept
        <4>10. ASSUME NEW q \in Programs, q # p
               PROVE  EntryKept(q)'
          BY <1>o, <1>p, <2>0, <4>7, <4>8, <4>10
        <4> QED BY <1>0, <1>t, <2>0, <4>7, <4>9, <4>10 DEF Inv
      <3> QED BY <3>2, <3>3
    <2> QED BY <2>4, <2>5
  <1>6. ASSUME NEW c \in Contexts, NEW u \in Uniforms, NEW v \in {0, 1}, Uniform(c, u, v)
        PROVE  Inv'
    <2> DEFINE p == gl.current[c]
    <2>1. /\ p # None /\ asked[p][u] # Unknown
          /\ gl' = WithUniform(gl, c, gl.prog[p].loc[u], v)
          /\ driver' = IF Checked(c, asked[p][u]) THEN WithUniform(driver, c, asked[p][u], v) ELSE driver
          /\ UNCHANGED <<state, mapped, asked, made, cast>>
      BY <1>6, <1>m DEF Uniform
    <2>2. p \in Programs /\ gl.prog[p] # Absent /\ u \in Vars
      BY <1>0, <2>1, DriverParts DEF Held, Vars
    <2>3. /\ state.objects[p] # Absent /\ state.objects[p].found = asked[p]
          /\ gl.prog[p].loc[u] = asked[p][u]
      BY <1>k, <2>1, <2>2 DEF EntryKept
    <2>4. Checked(c, asked[p][u])
      BY <1>0, <2>1, <2>3 DEF Checked
    <2>5. driver' = gl'
      BY <1>0, <2>1, <2>3, <2>4
    <2>6. /\ gl'.current = gl.current
          /\ \A q \in Programs :
               /\ gl'.prog[q] = Absent <=> gl.prog[q] = Absent
               /\ gl.prog[q] # Absent => /\ gl'.prog[q].deleted = gl.prog[q].deleted
                                         /\ gl'.prog[q].loc = gl.prog[q].loc
      <3> DEFINE location == gl.prog[p].loc[u]
      <3>1. gl' = WithUniform(gl, c, location, v)
        BY <2>1
      <3> HIDE DEF location
      <3> QED BY <1>0, <3>1, WithUniformIs
    <2>7. ASSUME NEW q \in Programs
          PROVE  EntryKept(q)'
      <3>1. EntryKept(q)
        BY <1>k
      <3>2. UNCHANGED <<state, mapped, asked, made>>
        BY <2>1
      <3> QED BY <2>6, <3>1, <3>2 DEF EntryKept
    <2> QED BY <1>0, <1>t, <2>1, <2>5, <2>6, <2>7 DEF Inv
  <1>7. CASE UNCHANGED vars
    <2>1. UNCHANGED <<state, mapped, driver, gl, asked, made, cast>>
      BY <1>7 DEF vars
    <2>2. ASSUME NEW q \in Programs
          PROVE  EntryKept(q)'
      BY <1>o, <1>p, <2>1
    <2> QED BY <1>0, <1>t, <2>1, <2>2 DEF Inv
  <1>8. CASE Next
    <2>1. CASE \E c \in Contexts : UseProgram(c, None)
      BY <1>3, <2>1
    <2>2. CASE \E p \in 1..made :
       \/ \E c \in Contexts : DeleteProgram(c, p) \/ UseProgram(c, p)
       \/ \E ok \in BOOLEAN, layout \in Layouts : LinkProgram(p, ok, layout)
       \/ \E a \in Attribs \cap cast.names : GetAttribLocation(p, a)
       \/ \E u \in Uniforms \cap cast.names : GetUniformLocation(p, u)
      <3>1. PICK p \in Programs :
         \/ \E c \in Contexts : DeleteProgram(c, p) \/ UseProgram(c, p)
         \/ \E ok \in BOOLEAN, layout \in Layouts : LinkProgram(p, ok, layout)
         \/ \E x \in Vars : GetLocation(p, x)
        BY <1>p, <2>2 DEF GetAttribLocation, GetUniformLocation, Vars
      <3> QED BY <1>2, <1>3, <1>4, <1>5, <3>1
    <2> QED BY <1>1, <1>6, <1>8, <2>1, <2>2 DEF Next
  <1> QED BY <1>7, <1>8

LEMMA TypesInit ==
  ASSUME Init
  PROVE  TypesHeld
  <1>1. \A k \in Casts : k.programs \in Nat
    BY ProgramsAssumption
  <1>2. NoPrograms \in Objects /\ Held(NoPrograms)
    BY DEF NoPrograms, Objects, Held
  <1>3. 0 \in 0..cast.programs
    BY <1>1 DEF Init
  <1>4. state \in States
    BY DEF Init, States
  <1> QED BY <1>2, <1>3, <1>4, NewProgramTyped DEF Init, TypesHeld, TypeOK, States

(* The entries, the driver's objects and the other's stay in their types,  *)
(* whatever the application does.                                          *)
THEOREM TypeCorrect == Spec => []TypeOK
  <1>1. Init => TypesHeld
    BY TypesInit
  <1>2. TypesHeld /\ [Next]_vars => TypesHeld'
    BY TypesStep
  <1>3. TypesHeld => TypeOK
    BY DEF TypesHeld
  <1> QED BY <1>1, <1>2, <1>3, PTL DEF Spec

LEMMA InvAlways ==
  ASSUME AllManners \subseteq Manners
  PROVE  Spec => []Inv
  <1>1. Init => Inv
    <2> SUFFICES ASSUME Init
                 PROVE  Inv
      OBVIOUS
    <2>1. ASSUME NEW p \in Programs
          PROVE  EntryKept(p)
      BY <2>1 DEF Init, EntryKept, NoPrograms
    <2> QED BY <2>1, TypesInit DEF Init, Inv, NoPrograms
  <1>2. Inv /\ [Next]_vars => Inv'
    BY InvStep
  <1> QED BY <1>1, <1>2, PTL DEF Spec

(* An application that keeps to the manners is told, from an entry, only   *)
(* locations that the program has.                                         *)
THEOREM LocationsAreRight ==
  ASSUME AllManners \subseteq Manners
  PROVE  Spec => []LocationsAgree
  <1>1. Inv => LocationsAgree
    BY DEF Inv, EntryKept, LocationsAgree
  <1> QED BY <1>1, InvAlways, PTL

(* ... and each of its contexts uses the program it should, and each       *)
(* program has the uniforms it has with a driver called directly.          *)
THEOREM EffectsAreRight ==
  ASSUME AllManners \subseteq Manners
  PROVE  Spec => []EffectsAgree
  <1>1. Inv => EffectsAgree
    BY DEF Inv, EffectsAgree
  <1> QED BY <1>1, InvAlways, PTL

=============================================================================
