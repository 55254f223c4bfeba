------------------------------- MODULE Programs -------------------------------
(***************************************************************************)
(* Programs, their locations and their uniforms, for contexts that share   *)
(* objects.  The client keeps an entry for each program, with the          *)
(* locations it was asked for, and for each context the program in use.    *)
(* It skips glUseProgram for that, and refuses glUniform* for a location   *)
(* that the program in use has not got in its entry.                       *)
(*                                                                         *)
(* Commands reach the driver in order and nothing else changes its         *)
(* contexts, so `driver' is what it has once it has run what was sent;     *)
(* `gl' is what a driver called directly would have.  One context creates  *)
(* the programs (ObjectNames has the names), the threads take turns, and   *)
(* names of programs are given where GL wants one.  A uniform or attribute *)
(* is known by its name; one of either kind has the locations of its kind. *)
(***************************************************************************)
EXTENDS Naturals

CONSTANTS
  Contexts,    \* contexts, which share the objects of one of them
  Uniforms, Attribs,
  Locations,
  None,        \* the program 0
  Absent,      \* no entry, no object
  Unknown,     \* no location
  Casts,       \* bound: [programs, names], how many programs are made and
               \* which uniforms and attributes the application uses
  Manners      \* what the application keeps to, see AllManners

(* What an application may keep to, beyond what GL asks of it:             *)
(*   "linked"  use a program after it was linked (the client takes it for  *)
(*             the one in use in any case);                                *)
(*   "once"    not link a program again whose locations it asked for       *)
(*             (entries keep them);                                        *)
(*   "asked"   set uniforms at locations it asked for (not at those of     *)
(*             further elements of an array, nor through another name);    *)
(*   "alive"   leave a program alone that it deleted, but for uniforms     *)
(*             (the server forgets the name at once);                      *)
(*   "yours"   delete no program another context uses (the entry goes);    *)
(*   "hashes"  have no two names with one hash_str.                        *)
AllManners == {"linked", "once", "asked", "alive", "yours", "hashes"}

Vars     == Uniforms \cup Attribs
Programs == UNION {1..c.programs : c \in Casts}

(* What locations and a driver's objects are; see TypeOK.                  *)
Places  == [Vars -> Locations \cup {Unknown}]
Entry   == [marked : BOOLEAN, found : Places]
Program == [linked : BOOLEAN, deleted : BOOLEAN, loc : Places, value : [Uniforms -> {0, 1}]]

ASSUME ProgramsAssumption ==
  /\ Absent \notin Entry \cup Program
  /\ Uniforms \cap Attribs = {}
  /\ None \notin Programs /\ Unknown \notin Locations
  /\ \A c \in Casts : c.programs \in Nat \ {0} /\ c.names \subseteq Vars
  /\ Casts # {} /\ Manners \subseteq AllManners

VARIABLES
  state,   \* egl_state_t: the list of entries, and current_program
  mapped,  \* names the server has in name_mapping
  driver,  \* the driver's objects and contexts (external)
  gl,      \* history: those of a driver that got every call
  asked,   \* the locations the application has of each program
  made,    \* the number of programs made
  cast     \* what the application uses

vars == <<state, mapped, driver, gl, asked, made, cast>>

Nowhere == [x \in Vars |-> Unknown]

(* Mutated form of program_new: the mark is what malloc left there.        *)
NewEntry_Unset == [marked |-> Unknown, found |-> Nowhere]

NewEntry == [marked |-> FALSE, found |-> Nowhere]

(* The locations a link may give: no two of a kind have the same.          *)
Layouts == {l \in [Vars -> Locations] :
  \A x, y \in Vars : l[x] = l[y] /\ (x \in Uniforms <=> y \in Uniforms) => x = y}

NewProgram == [linked |-> FALSE, deleted |-> FALSE, loc |-> Nowhere,
               value |-> [u \in Uniforms |-> 0]]
NoPrograms == [prog |-> [p \in Programs |-> Absent], current |-> [c \in Contexts |-> None]]

Init ==
  /\ state = [objects |-> [p \in Programs |-> Absent], current |-> [c \in Contexts |-> None]]
  /\ mapped = {}
  /\ driver = NoPrograms /\ gl = NoPrograms
  /\ asked = [p \in Programs |-> Nowhere]
  /\ made = 0 /\ cast \in Casts

-----------------------------------------------------------------------------
(* A driver.                                                               *)

InUse(d, p, c) == \E o \in Contexts \ {c} : d.current[o] = p

(* A program that is deleted goes when no context uses it any more.        *)
Used(d, c, p) ==
  LET old == d.current[c] IN
    IF p # None /\ (d.prog[p] = Absent \/ ~d.prog[p].linked) THEN d
    ELSE [d EXCEPT !.current[c] = p,
                   !.prog = IF old # None /\ old # p /\ @[old].deleted /\ ~InUse(d, old, c)
                            THEN [@ EXCEPT ![old] = Absent] ELSE @]

Deleted(d, p) ==
  IF d.prog[p] = Absent THEN d
  ELSE IF \E c \in Contexts : d.current[c] = p THEN [d EXCEPT !.prog[p].deleted = TRUE]
  ELSE [d EXCEPT !.prog[p] = Absent]

(* A link that fails leaves what is in use as it was.                      *)
Linked(d, p, ok, layout) ==
  IF d.prog[p] = Absent THEN d
  ELSE IF ~ok THEN [d EXCEPT !.prog[p].linked = FALSE]
  ELSE [d EXCEPT !.prog[p] = [NewProgram EXCEPT !.linked = TRUE, !.loc = layout,
                                                !.deleted = d.prog[p].deleted]]

WithUniform(d, c, location, v) ==
  LET p == d.current[c] IN
    IF p = None THEN d
    ELSE [d EXCEPT !.prog[p].value =
            [u \in Uniforms |-> IF d.prog[p].loc[u] = location THEN v ELSE @[u]]]

LocationIn(d, p, x) ==
  IF d.prog[p] # Absent /\ d.prog[p].linked THEN d.prog[p].loc[x] ELSE Unknown

-----------------------------------------------------------------------------
(* Programs.                                                               *)

Live(p) == "alive" \in Manners => gl.prog[p] # Absent /\ ~gl.prog[p].deleted

CreateProgram ==
  /\ made < cast.programs /\ made' = made + 1
  /\ state' = [state EXCEPT !.objects[made'] = NewEntry]
  /\ mapped' = mapped \cup {made'}
  /\ driver' = [driver EXCEPT !.prog[made'] = NewProgram]
  /\ gl' = [gl EXCEPT !.prog[made'] = NewProgram]
  /\ UNCHANGED <<asked, cast>>

(* Mutated form: the program in use is deleted like any other.             *)
KeptInUse_Never(c, p) == FALSE

KeptInUse(c, p) == p = state.current[c]
Finished(p)     == p # None /\ state.objects[p] # Absent /\ state.objects[p].marked

(* glDeleteProgram: an entry in use is marked only.                        *)
DeleteProgram(c, p) ==
  /\ Live(p)
  /\ "yours" \in Manners => ~InUse(gl, p, c)
  /\ gl' = Deleted(gl, p)
  /\ IF state.objects[p] = Absent THEN UNCHANGED <<state, mapped, driver>>
     ELSE /\ state' = IF KeptInUse(c, p) THEN [state EXCEPT !.objects[p].marked = TRUE]
                      ELSE [state EXCEPT !.objects[p] = Absent]
          /\ mapped' = mapped \ {p}
          /\ driver' = IF p \in mapped THEN Deleted(driver, p) ELSE driver
  /\ UNCHANGED <<asked, made, cast>>

(* glUseProgram: skipped for the one in use; the entry of the one that is  *)
(* left goes if it was marked.                                             *)
UseProgram(c, p) ==
  /\ p # None /\ p # gl.current[c] =>
       Live(p) /\ ("linked" \in Manners /\ gl.prog[p] # Absent => gl.prog[p].linked)
  /\ gl' = Used(gl, c, p)
  /\ IF p = state.current[c] \/ (p # None /\ state.objects[p] = Absent)
     THEN UNCHANGED <<state, driver>>
     ELSE /\ state' = [state EXCEPT
               !.current[c] = p,
               !.objects = [q \in Programs |->
                              IF q = state.current[c] /\ Finished(q) THEN Absent ELSE @[q]]]
          /\ driver' = IF p = None \/ p \in mapped THEN Used(driver, c, p) ELSE driver
  /\ UNCHANGED <<mapped, asked, made, cast>>

(* glLinkProgram, which may fail.                                          *)
LinkProgram(p, ok, layout) ==
  /\ Live(p)
  /\ "once" \in Manners => asked[p] = Nowhere
  /\ gl' = Linked(gl, p, ok, layout)
  /\ driver' = IF state.objects[p] # Absent /\ p \in mapped THEN Linked(driver, p, ok, layout)
               ELSE driver
  /\ asked' = [asked EXCEPT ![p] = Nowhere]
  /\ UNCHANGED <<state, mapped, made, cast>>

-----------------------------------------------------------------------------
(* Locations.                                                              *)

(* Mutated form: all locations have one place.                             *)
SameKey_OneTable(x, y) == TRUE

(* A location of -1 is not kept.                                           *)
Kept(location) == location # Unknown

(* Names with one hash_str have one place.                                 *)
SameKey(x, y) ==
  \/ x = y
  \/ "hashes" \notin Manners /\ (x \in Uniforms <=> y \in Uniforms)

(* Asked once, a location is answered from the entry.  Without the name    *)
(* the server does not answer, and the result is what was in the command.  *)
GetLocation(p, x) ==
  /\ Live(p)
  /\ UNCHANGED <<mapped, driver, gl, made, cast>>
  /\ IF state.objects[p] = Absent
     THEN asked' = [asked EXCEPT ![p][x] = Unknown] /\ UNCHANGED state
     ELSE IF state.objects[p].found[x] # Unknown
     THEN asked' = [asked EXCEPT ![p][x] = state.objects[p].found[x]] /\ UNCHANGED state
     ELSE \E location \in IF p \in mapped THEN {LocationIn(driver, p, x)} ELSE Locations :
            /\ asked' = [asked EXCEPT ![p][x] = location]
            /\ state' = IF ~Kept(location) THEN state
                        ELSE [state EXCEPT !.objects[p].found =
                                [y \in Vars |-> IF SameKey(x, y) THEN location ELSE @[y]]]

GetAttribLocation(p, a)  == GetLocation(p, a)
GetUniformLocation(p, u) == GetLocation(p, u)

(* glUniform*, to the program in use.                                      *)
Checked(c, location) ==
  LET p == state.current[c] IN
    /\ p # None /\ state.objects[p] # Absent
    /\ \E u \in Uniforms : state.objects[p].found[u] = location
Uniform(c, u, v) ==
  LET p        == gl.current[c]
      location == IF asked[p][u] # Unknown THEN asked[p][u] ELSE gl.prog[p].loc[u]
  IN /\ p # None
     /\ "asked" \in Manners => asked[p][u] # Unknown
     /\ gl' = WithUniform(gl, c, gl.prog[p].loc[u], v)
     /\ driver' = IF Checked(c, location) THEN WithUniform(driver, c, location, v) ELSE driver
     /\ UNCHANGED <<state, mapped, asked, made, cast>>

-----------------------------------------------------------------------------
Next ==
  \/ CreateProgram
  \/ \E c \in Contexts : UseProgram(c, None)
  \/ \E p \in 1..made :
       \/ \E c \in Contexts : DeleteProgram(c, p) \/ UseProgram(c, p)
       \/ \E ok \in BOOLEAN, layout \in Layouts : LinkProgram(p, ok, layout)
       \/ \E a \in Attribs \cap cast.names : GetAttribLocation(p, a)
       \/ \E u \in Uniforms \cap cast.names : GetUniformLocation(p, u)
  \/ \E c \in Contexts, u \in Uniforms \cap cast.names, v \in {0, 1} : Uniform(c, u, v)

Spec == Init /\ [][Next]_vars

-----------------------------------------------------------------------------
(* Properties.                                                             *)

Objects == [prog : [Programs -> {Absent} \cup Program],
            current : [Contexts -> Programs \cup {None}]]
TypeOK ==
  /\ state \in [objects : [Programs -> {Absent} \cup Entry],
                current : [Contexts -> Programs \cup {None}]]
  /\ mapped \subseteq 1..made
  /\ driver \in Objects /\ gl \in Objects
  /\ asked \in [Programs -> Places]
  /\ made \in 0..cast.programs /\ cast \in Casts

(* A location answered from the entry is the one the program has.          *)
LocationsAgree ==
  \A p \in Programs, x \in Vars :
    state.objects[p] # Absent /\ state.objects[p].found[x] # Unknown =>
      gl.prog[p] # Absent /\ gl.prog[p].loc[x] = state.objects[p].found[x]

(* README: 'a "virtual" OpenGL ES 2.0 driver'.  Whichever glUseProgram     *)
(* and glUniform* calls are skipped, refused or sent, in contexts that     *)
(* share the programs and delete them while they are in use, each context  *)
(* uses the program it should, and every program has the uniforms it has   *)
(* with a driver called directly: no value was lost or went to another.    *)
EffectsAgree ==
  /\ driver.current = gl.current
  /\ \A p \in Programs : gl.prog[p] # Absent =>
       driver.prog[p] # Absent /\ driver.prog[p].value = gl.prog[p].value
=============================================================================
