------------------------ MODULE FramebufferCacheProofs ------------------------
(***************************************************************************)
(* Proofs about textures, renderbuffers, framebuffers and errors, for any  *)
(* number of names and texture units.                                      *)
(***************************************************************************)
EXTENDS FramebufferCache, TLAPS

(* A name the application has got has an entry, and what is bound in the   *)
(* driver is an object.                                                    *)
EntriesHeld ==
  /\ \A t \in Textures \cap held : state.tex[t] # Absent
  /\ \A r \in Renderbuffers \cap held : state.rb[r] # Absent
ObjectsBound ==
  /\ \A u \in Units : driver.boundTex[u] # None => driver.tex[driver.boundTex[u]] # Absent
  /\ driver.boundFb # None => driver.fb[driver.boundFb] # Absent
TypesHeld == TypeOK /\ EntriesHeld /\ ObjectsBound

-----------------------------------------------------------------------------
(* The tables, and what the parts of the calls make of them.               *)

LEMMA NewOnes ==
  /\ \A v \in LeftBy : NewTexture(v) \in TextureEntry /\ NewTexture(v) # Absent
  /\ NewFramebuffer \in FramebufferEntry
  /\ DriverTexture \in TextureObject /\ Unattached \in Attachments
  /\ NewFramebuffer # Absent
  /\ DriverTexture # Absent /\ Unattached # Absent
  <1>1. \A v \in LeftBy : NewTexture(v) \in TextureEntry
    BY NamesAssumption DEF NewTexture, TextureEntry, LeftBy, Params, Sizes
  <1>2. NewFramebuffer \in FramebufferEntry
    BY DEF NewFramebuffer, FramebufferEntry, Statuses
  <1>3. DriverTexture \in TextureObject
    BY NamesAssumption DEF DriverTexture, TextureObject, Params, Sizes
  <1>4. Unattached \in Attachments
    BY DEF Unattached, Attachments
  <1> QED BY <1>1, <1>2, <1>3, <1>4, NamesAssumption

(* The names of one kind are none of another, and no name of the model's.  *)
LEMMA NamesApart ==
  /\ None # Absent /\ None # Nameless
  /\ \A x \in Textures \cup Renderbuffers \cup Framebuffers :
       x # None /\ x # Absent /\ x # Nameless /\ x \notin Orphans
  /\ \A t \in Textures : t \notin Renderbuffers /\ t \notin Framebuffers
  /\ \A r \in Renderbuffers : r \notin Framebuffers
  /\ None \notin Orphans
  BY NamesAssumption

LEMMA StateParts ==
  ASSUME NEW s \in States
  PROVE  /\ s.unit \in Units /\ s.boundTex \in Textures \cup {None}
         /\ s.boundRb \in Renderbuffers \cup {None}
         /\ s.boundFb \in Framebuffers \cup {None}
         /\ s.tex \in [Textures -> {Absent} \cup TextureEntry]
         /\ s.rb \in [Renderbuffers -> Framebuffers \cup {None, Absent}]
         /\ s.fb \in [Framebuffers -> {Absent} \cup FramebufferEntry]
         /\ s.param \in Params /\ s.error \in BOOLEAN /\ s.needGet \in BOOLEAN
         /\ s = [unit |-> s.unit, boundTex |-> s.boundTex, boundRb |-> s.boundRb,
                 boundFb |-> s.boundFb, tex |-> s.tex, rb |-> s.rb, fb |-> s.fb,
                 param |-> s.param, error |-> s.error, needGet |-> s.needGet]
  BY DEF States

LEMMA DriverParts ==
  ASSUME NEW d \in DriverContexts
  PROVE  /\ d.unit \in Units /\ d.boundTex \in [Units -> Textures \cup {None}]
         /\ d.boundRb \in Renderbuffers \cup {None, Nameless}
         /\ d.boundFb \in Framebuffers \cup {None}
         /\ d.tex \in [Textures -> {Absent} \cup TextureObject]
         /\ d.rb \in [Renderbuffers -> {Absent, "image", "no image"}]
         /\ d.fb \in [Framebuffers -> {Absent} \cup Attachments]
         /\ d.param \in Params /\ d.error \in BOOLEAN
         /\ d = [unit |-> d.unit, boundTex |-> d.boundTex, boundRb |-> d.boundRb,
                 boundFb |-> d.boundFb, tex |-> d.tex, rb |-> d.rb, fb |-> d.fb,
                 param |-> d.param, error |-> d.error]
         /\ d.boundTex[d.unit] \in Textures \cup {None}
  BY DEF DriverContexts

(* The state and the driver's context have their types.                    *)
LEMMA Parts ==
  ASSUME TypeOK
  PROVE  state \in States /\ driver \in DriverContexts /\ Texture \in Textures \cup {None}
  BY DriverParts DEF TypeOK, Texture

LEMMA WithEntryIs ==
  ASSUME NEW S, NEW E, NEW table \in [S -> {Absent} \cup E], NEW new \in E, new # Absent,
         NEW x \in S \cup {None}
  PROVE  /\ WithEntry(table, x, new) \in [S -> {Absent} \cup E]
         /\ x # None => WithEntry(table, x, new)[x] # Absent
         /\ x # None /\ table[x] = Absent => WithEntry(table, x, new)[x] = new
         /\ \A y \in S : y # x \/ table[y] # Absent => WithEntry(table, x, new)[y] = table[y]
  BY DEF WithEntry

LEMMA WithDriverEntry ==
  ASSUME TypeOK, NEW t \in Textures \cup {None}
  PROVE  \A x \in Textures :
           WithEntry(driver.tex, t, DriverTexture)[x] =
             IF x = t /\ driver.tex[x] = Absent THEN DriverTexture ELSE driver.tex[x]
  <1>1. driver.tex \in [Textures -> {Absent} \cup TextureObject]
    BY Parts, DriverParts
  <1> QED BY <1>1, NamesApart DEF WithEntry

LEMMA WithStateEntry ==
  ASSUME TypeOK, NEW t \in Textures \cup {None}, NEW v
  PROVE  \A x \in Textures :
           WithEntry(state.tex, t, NewTexture(v))[x] =
             IF x = t /\ state.tex[x] = Absent THEN NewTexture(v) ELSE state.tex[x]
  <1>1. state.tex \in [Textures -> {Absent} \cup TextureEntry]
    BY Parts, StateParts
  <1> QED BY <1>1, NamesApart DEF WithEntry

LEMMA MarkedIs ==
  ASSUME TypeOK, NEW f \in Framebuffers \cup {None}
  PROVE  /\ Marked(f) \in [Framebuffers -> {Absent} \cup FramebufferEntry]
         /\ \A g \in Framebuffers :
              /\ Marked(f)[g] = Absent <=> state.fb[g] = Absent
              /\ g # f => Marked(f)[g] = state.fb[g]
              /\ Marked(f)[g] # Absent /\ g = f => Marked(f)[g].complete = "unknown"
  <1>1. CASE f = None \/ state.fb[f] = Absent
    BY <1>1, Parts, StateParts, NamesApart DEF Marked
  <1>2. CASE ~(f = None \/ state.fb[f] = Absent)
    <2> DEFINE e == [state.fb[f] EXCEPT !.complete = "unknown"]
    <2>1. state.fb[f] \in FramebufferEntry
      BY <1>2, Parts, StateParts
    <2>2. e \in FramebufferEntry /\ e.complete = "unknown"
      BY <2>1 DEF FramebufferEntry, Statuses
    <2>3. e # Absent
      BY <2>2, NamesAssumption
    <2>4. Marked(f) = [state.fb EXCEPT ![f] = e]
      BY <1>2 DEF Marked
    <2> HIDE DEF e
    <2> QED BY <1>2, <2>2, <2>3, <2>4, Parts, StateParts
  <1> QED BY <1>1, <1>2

(* What is attached in place of x, at a point of framebuffer f.            *)
InsteadOf(x, f, from) ==
  IF f = from THEN None
  ELSE IF HasImage(x) THEN "deleted, with image" ELSE "deleted, without"

LEMMA WithoutNameIs ==
  ASSUME TypeOK, NEW x \in Textures \cup Renderbuffers, NEW from
  PROVE  /\ WithoutName(x, from) \in [Framebuffers -> {Absent} \cup Attachments]
         /\ \A f \in Framebuffers :
              /\ WithoutName(x, from)[f] = Absent <=> driver.fb[f] = Absent
              /\ f \notin AttachedTo(x) => WithoutName(x, from)[f] = driver.fb[f]
              /\ driver.fb[f] # Absent => \A p \in Points :
                   WithoutName(x, from)[f][p] = IF driver.fb[f][p] = x
                                                THEN InsteadOf(x, f, from) ELSE driver.fb[f][p]
  <1> DEFINE left(f) == [p \in Points |-> IF driver.fb[f][p] # x THEN driver.fb[f][p]
                                          ELSE InsteadOf(x, f, from)]
  <1>1. WithoutName(x, from) = [f \in Framebuffers |-> IF f \notin AttachedTo(x)
                                                       THEN driver.fb[f] ELSE left(f)]
    BY DEF WithoutName, InsteadOf
  <1>2. ASSUME NEW f \in Framebuffers, f \in AttachedTo(x)
        PROVE  left(f) \in Attachments /\ left(f) # Absent /\ driver.fb[f] # Absent
    <2>1. driver.fb[f] \in Attachments /\ driver.fb[f] # Absent
      BY <1>2, Parts, DriverParts DEF AttachedTo
    <2>2. left(f) \in Attachments
      BY <2>1 DEF Attachments, InsteadOf, Orphans
    <2> QED BY <2>1, <2>2, NamesAssumption
  <1>3. ASSUME NEW f \in Framebuffers, f \notin AttachedTo(x), driver.fb[f] # Absent,
               NEW p \in Points
        PROVE  driver.fb[f][p] # x
    BY <1>3 DEF AttachedTo
  <1>4. ASSUME NEW f \in Framebuffers, NEW p \in Points
        PROVE  left(f)[p] = IF driver.fb[f][p] = x THEN InsteadOf(x, f, from) ELSE driver.fb[f][p]
    OBVIOUS
  <1> HIDE DEF left
  <1>5. driver.fb \in [Framebuffers -> {Absent} \cup Attachments]
    BY Parts, DriverParts
  <1> QED BY <1>1, <1>2, <1>3, <1>4, <1>5

-----------------------------------------------------------------------------
(* Steps.                                                                  *)

(* Calls that do the same are one kind of step.                            *)
LEMMA KindOfStep ==
  ASSUME Next
  PROVE  \/ \E u \in Units : ActiveTexture(u)
         \/ \E v \in Params : TexParameter(v)
         \/ \E t \in Textures \cap cast : GenTextures(t)
         \/ \E t \in Textures \cap cast : DeleteTextures(t)
         \/ \E r \in Renderbuffers \cap cast : GenRenderbuffers(r)
         \/ \E r \in Renderbuffers \cap cast : DeleteRenderbuffers(r)
         \/ \E f \in Framebuffers \cap cast : GenFramebuffers(f)
         \/ \E f \in Framebuffers \cap cast : DeleteFramebuffers(f)
         \/ \E t \in (Textures \cap cast) \cup {None} : BindTexture(t)
         \/ \E t \in (Textures \cap cast) \cup {None} : FramebufferTexture2D(t)
         \/ \E r \in (Renderbuffers \cap cast) \cup {None}, right \in BOOLEAN :
              BindRenderbuffer(right, r)
         \/ \E r \in (Renderbuffers \cap cast) \cup {None}, p \in Points :
              FramebufferRenderbuffer(p, r)
         \/ \E f \in (Framebuffers \cap cast) \cup {None}, right \in BOOLEAN :
              BindFramebuffer(right, f)
         \/ \E level \in Levels, size \in Sizes : TexImage(level, size)
         \/ \E level \in Levels, size \in Sizes, flag \in BOOLEAN :
              CopyTexImage(level, size, flag)
         \/ \E level \in Levels, size \in Sizes, flag \in BOOLEAN :
              TexSubImage(level, size, flag)
         \/ \E flag \in BOOLEAN : RenderbufferStorage(flag)
         \/ CheckFramebufferStatus \/ Draw \/ GetError
  <1>1. \A v \in Params \cup {"initial and a fraction"} : Truncated(v) \in Params
    BY DEF Truncated, Params
  <1>2. ASSUME NEW v \in Params \cup {"initial and a fraction"}, TexParameterf(v)
        PROVE  \E w \in Params : TexParameter(w)
    BY <1>1, <1>2 DEF TexParameterf
  <1>3. ASSUME NEW t, FramebufferTexture3DOES(t) \/ FramebufferTexture2DMultisample(t)
        PROVE  FramebufferTexture2D(t)
    BY <1>3 DEF FramebufferTexture3DOES, FramebufferTexture2DMultisample
  <1>4. ASSUME NEW flag, RenderbufferStorageMultisample(flag)
        PROVE  RenderbufferStorage(flag)
    BY <1>4 DEF RenderbufferStorageMultisample
  <1> QED BY <1>2, <1>3, <1>4, Zenon DEF Next

-----------------------------------------------------------------------------
(* What the calls change.                                                  *)

LEMMA TexParameterIs ==
  ASSUME TypesHeld, NEW v \in Params, TexParameter(v)
  PROVE  /\ state' \in States /\ driver' \in DriverContexts /\ UNCHANGED <<held, cast, owed>>
         /\ UNCHANGED <<state.unit, state.boundTex, state.boundRb, state.boundFb, state.rb,
                        state.fb, state.error, state.needGet>>
         /\ UNCHANGED <<driver.unit, driver.boundTex, driver.boundRb, driver.boundFb,
                        driver.rb, driver.fb, driver.error>>
         /\ state'.param = IF Cached(state.tex, state.boundTex) THEN state.param ELSE v
         /\ driver'.param = IF Texture = None THEN v ELSE driver.param
         /\ \A t \in Textures :
              /\ state'.tex[t] = Absent <=> state.tex[t] = Absent
              /\ state.tex[t] # Absent =>
                   /\ state'.tex[t].fb = state.tex[t].fb
                   /\ state'.tex[t].size = state.tex[t].size
                   /\ state'.tex[t].param = IF t = state.boundTex THEN v ELSE state.tex[t].param
              /\ driver'.tex[t] = Absent <=> driver.tex[t] = Absent
              /\ driver.tex[t] # Absent =>
                   /\ driver'.tex[t].image = driver.tex[t].image
                   /\ driver'.tex[t].param = IF t = Texture THEN v ELSE driver.tex[t].param
  <1> DEFINE t == state.boundTex
             e == [state.tex[t] EXCEPT !.param = v]
             o == [driver.tex[Texture] EXCEPT !.param = v]
             tex == IF Cached(state.tex, t) THEN [state.tex EXCEPT ![t] = e] ELSE state.tex
             objects == IF Texture = None THEN driver.tex ELSE [driver.tex EXCEPT ![Texture] = o]
             param == IF Cached(state.tex, t) THEN state.param ELSE v
             default == IF Texture = None THEN v ELSE driver.param
  <1>1. Cached(state.tex, t) => /\ e \in TextureEntry /\ e # Absent /\ e.fb = state.tex[t].fb
                                /\ e.size = state.tex[t].size /\ e.param = v
    <2>1. Cached(state.tex, t) => state.tex[t] \in TextureEntry
      BY Parts, StateParts DEF TypesHeld, Cached
    <2> QED BY <2>1, NamesAssumption DEF TextureEntry
  <1>2. Texture # None => /\ o \in TextureObject /\ o # Absent
                          /\ o.image = driver.tex[Texture].image /\ o.param = v
                          /\ driver.tex[Texture] # Absent
    <2>1. Texture # None => driver.tex[Texture] \in TextureObject /\ driver.tex[Texture] # Absent
      BY Parts, DriverParts DEF TypesHeld, ObjectsBound, Texture
    <2> QED BY <2>1, NamesAssumption DEF TextureObject
  <1>3. state' = [state EXCEPT !.tex = tex, !.param = param]
    BY Parts, StateParts DEF TexParameter, TypesHeld
  <1>4. driver' = [driver EXCEPT !.tex = objects, !.param = default]
    BY Parts, DriverParts DEF TexParameter, TypesHeld
  <1>5. tex \in [Textures -> {Absent} \cup TextureEntry] /\ param \in Params
    BY <1>1, Parts, StateParts DEF TypesHeld
  <1>6. objects \in [Textures -> {Absent} \cup TextureObject] /\ default \in Params
    BY <1>2, Parts, DriverParts DEF TypesHeld
  <1>7. \A x \in Textures :
          /\ tex[x] = Absent <=> state.tex[x] = Absent
          /\ state.tex[x] # Absent =>
               /\ tex[x].fb = state.tex[x].fb /\ tex[x].size = state.tex[x].size
               /\ tex[x].param = IF x = t THEN v ELSE state.tex[x].param
    BY <1>1, Parts, StateParts, NamesApart DEF TypesHeld, Cached
  <1>8. \A x \in Textures :
          /\ objects[x] = Absent <=> driver.tex[x] = Absent
          /\ driver.tex[x] # Absent =>
               /\ objects[x].image = driver.tex[x].image
               /\ objects[x].param = IF x = Texture THEN v ELSE driver.tex[x].param
    BY <1>2, Parts, DriverParts, NamesApart DEF TypesHeld
  <1>9. UNCHANGED <<held, cast, owed>>
    BY DEF TexParameter
  <1> HIDE DEF tex, objects, param, default
  <1>10. /\ state' \in States
         /\ UNCHANGED <<state.unit, state.boundTex, state.boundRb, state.boundFb, state.rb,
                        state.fb, state.error, state.needGet>>
         /\ state'.tex = tex /\ state'.param = param
    BY <1>3, <1>5, Parts DEF TypesHeld, States
  <1>11. /\ driver' \in DriverContexts
         /\ UNCHANGED <<driver.unit, driver.boundTex, driver.boundRb, driver.boundFb,
                        driver.rb, driver.fb, driver.error>>
         /\ driver'.tex = objects /\ driver'.param = default
    BY <1>4, <1>6, Parts DEF TypesHeld, DriverContexts
  <1> QED BY <1>7, <1>8, <1>9, <1>10, <1>11 DEF param, default

(* Objects of the driver whose images change, and nothing else of them.    *)
ImagesOnly ==
  \A t \in Textures :
    /\ driver'.tex[t] = Absent <=> driver.tex[t] = Absent
    /\ driver.tex[t] # Absent => driver'.tex[t].param = driver.tex[t].param
    /\ t # Texture => driver'.tex[t] = driver.tex[t]

(* One level of what is bound has an image of that size.                   *)
Imaging(level, size) ==
  /\ driver.tex[Texture] # Absent
  /\ \A l \in Levels : driver'.tex[Texture].image[l] =
                         IF l = level THEN size ELSE driver.tex[Texture].image[l]

LEMMA ImageSet ==
  ASSUME TypesHeld, NEW level \in Levels, NEW size \in Sizes,
         driver' = IF Texture = None THEN driver
                   ELSE [driver EXCEPT !.tex[Texture].image[level] = size]
  PROVE  /\ driver' \in DriverContexts
         /\ UNCHANGED <<driver.unit, driver.boundTex, driver.boundRb, driver.boundFb,
                        driver.rb, driver.fb, driver.param, driver.error>>
         /\ ImagesOnly
         /\ Texture # None => Imaging(level, size)
  <1> DEFINE image == [driver.tex[Texture].image EXCEPT ![level] = size]
             o == [driver.tex[Texture] EXCEPT !.image = image]
             objects == IF Texture = None THEN driver.tex ELSE [driver.tex EXCEPT ![Texture] = o]
  <1>1. Texture # None => /\ o \in TextureObject /\ o # Absent
                          /\ o.image = image /\ o.param = driver.tex[Texture].param
                          /\ driver.tex[Texture] # Absent
    <2>1. Texture # None => driver.tex[Texture] \in TextureObject /\ driver.tex[Texture] # Absent
      BY Parts, DriverParts DEF TypesHeld, ObjectsBound, Texture
    <2>2. Texture # None => driver.tex[Texture].image \in [Levels -> Sizes]
      BY <2>1 DEF TextureObject
    <2>3. Texture # None => image \in [Levels -> Sizes]
      BY <2>2
    <2> HIDE DEF image
    <2> QED BY <2>1, <2>3, NamesAssumption DEF TextureObject
  <1>6. Texture # None => \A l \in Levels :
          image[l] = IF l = level THEN size ELSE driver.tex[Texture].image[l]
    <2>1. Texture # None => driver.tex[Texture] \in TextureObject
      BY <1>1, Parts, DriverParts DEF TypesHeld
    <2>2. Texture # None => driver.tex[Texture].image \in [Levels -> Sizes]
      BY <2>1 DEF TextureObject
    <2> QED BY <2>2
  <1>2. driver' = [driver EXCEPT !.tex = objects]
    <2>1. CASE Texture = None
      BY <2>1, Parts DEF TypesHeld, DriverContexts
    <2>2. CASE Texture # None
      BY <2>2
    <2> QED BY <2>1, <2>2
  <1>3. objects \in [Textures -> {Absent} \cup TextureObject]
    BY <1>1, Parts, DriverParts DEF TypesHeld
  <1>4. /\ \A t \in Textures :
             /\ objects[t] = Absent <=> driver.tex[t] = Absent
             /\ driver.tex[t] # Absent => objects[t].param = driver.tex[t].param
             /\ t # Texture => objects[t] = driver.tex[t]
        /\ Texture # None => objects[Texture].image = image
    BY <1>1, Parts, DriverParts, NamesApart DEF TypesHeld
  <1> HIDE DEF objects, image
  <1>5. /\ driver' \in DriverContexts
        /\ UNCHANGED <<driver.unit, driver.boundTex, driver.boundRb, driver.boundFb,
                       driver.rb, driver.fb, driver.param, driver.error>>
        /\ driver'.tex = objects
    BY <1>2, <1>3, Parts DEF TypesHeld, DriverContexts
  <1> QED BY <1>1, <1>4, <1>5, <1>6 DEF ImagesOnly, Imaging

(* The framebuffer a cached texture was last attached to is marked.        *)
MarkedOf(t) == IF Cached(state.tex, t) THEN Marked(state.tex[t].fb) ELSE state.fb

LEMMA MarkedOfIs ==
  ASSUME TypesHeld, NEW t \in Textures \cup {None}
  PROVE  /\ MarkedOf(t) \in [Framebuffers -> {Absent} \cup FramebufferEntry]
         /\ Cached(state.tex, t) => state.tex[t] \in TextureEntry
                                    /\ state.tex[t].fb \in Framebuffers \cup {None}
         /\ \A g \in Framebuffers :
              /\ MarkedOf(t)[g] = Absent <=> state.fb[g] = Absent
              /\ MarkedOf(t)[g] # Absent =>
                   /\ MarkedOf(t)[g].complete \in {state.fb[g].complete, "unknown"}
                   /\ Cached(state.tex, t) /\ g = state.tex[t].fb =>
                        MarkedOf(t)[g].complete = "unknown"
  <1>1. Cached(state.tex, t) => state.tex[t] \in TextureEntry
                                /\ state.tex[t].fb \in Framebuffers \cup {None}
    BY Parts, StateParts DEF TypesHeld, Cached, TextureEntry
  <1> QED BY <1>1, Parts, StateParts, MarkedIs DEF TypesHeld, MarkedOf

LEMMA TexImageIs ==
  ASSUME TypesHeld, NEW level \in Levels, NEW size \in Sizes, TexImage(level, size)
  PROVE  /\ state' \in States /\ driver' \in DriverContexts /\ UNCHANGED <<held, cast, owed>>
         /\ UNCHANGED <<state.unit, state.boundTex, state.boundRb, state.boundFb, state.rb,
                        state.param, state.error>>
         /\ UNCHANGED <<driver.unit, driver.boundTex, driver.boundRb, driver.boundFb,
                        driver.rb, driver.fb, driver.param, driver.error>>
         /\ state.needGet => state'.needGet
         /\ state'.fb = MarkedOf(state.boundTex)
         /\ \A t \in Textures :
              /\ state'.tex[t] = Absent <=> state.tex[t] = Absent
              /\ state.tex[t] # Absent =>
                   /\ state'.tex[t].fb = state.tex[t].fb
                   /\ state'.tex[t].param = state.tex[t].param
                   /\ state'.tex[t].size = IF t = state.boundTex THEN size
                                            ELSE state.tex[t].size
         /\ ImagesOnly
         /\ Texture # None => Imaging(level, size)
         /\ KnownTexture /\ KnownLevel(level)
  <1> DEFINE t == state.boundTex
             e == [state.tex[t] EXCEPT !.size = size]
             tex == IF Cached(state.tex, t) THEN [state.tex EXCEPT ![t] = e] ELSE state.tex
             needGet == IF Cached(state.tex, t) THEN state.needGet ELSE TRUE
  <1>1. Cached(state.tex, t) => /\ e \in TextureEntry /\ e # Absent /\ e.fb = state.tex[t].fb
                                /\ e.size = size /\ e.param = state.tex[t].param
    <2>1. Cached(state.tex, t) => state.tex[t] \in TextureEntry
      BY Parts, StateParts, MarkedOfIs DEF TypesHeld
    <2> QED BY <2>1, NamesAssumption DEF TextureEntry
  <1>2. state' = [state EXCEPT !.tex = tex, !.fb = MarkedOf(t), !.needGet = needGet]
    <2>1. CASE Cached(state.tex, t)
      BY <2>1, Parts, StateParts DEF TexImage, TypesHeld, SizeRecorded, MarkedOf
    <2>2. CASE ~Cached(state.tex, t)
      BY <2>2, Parts, StateParts DEF TexImage, TypesHeld, MarkedOf
    <2> QED BY <2>1, <2>2
  <1>3. tex \in [Textures -> {Absent} \cup TextureEntry]
    BY <1>1, Parts, StateParts DEF TypesHeld
  <1>4. needGet \in BOOLEAN /\ (state.needGet => needGet)
    BY Parts, StateParts DEF TypesHeld
  <1>5. MarkedOf(t) \in [Framebuffers -> {Absent} \cup FramebufferEntry]
    BY Parts, StateParts, MarkedOfIs DEF TypesHeld
  <1>6. \A x \in Textures :
          /\ tex[x] = Absent <=> state.tex[x] = Absent
          /\ state.tex[x] # Absent =>
               /\ tex[x].fb = state.tex[x].fb /\ tex[x].param = state.tex[x].param
               /\ tex[x].size = IF x = t THEN size ELSE state.tex[x].size
    BY <1>1, Parts, StateParts, NamesApart DEF TypesHeld, Cached
  <1>7. UNCHANGED <<held, cast, owed>> /\ KnownTexture /\ KnownLevel(level)
    BY DEF TexImage
  <1>8. driver' = IF Texture = None THEN driver
                  ELSE [driver EXCEPT !.tex[Texture].image[level] = size]
    BY DEF TexImage
  <1> HIDE DEF tex, needGet
  <1>9. /\ state' \in States /\ state'.tex = tex /\ state'.needGet = needGet
        /\ state'.fb = MarkedOf(t)
        /\ UNCHANGED <<state.unit, state.boundTex, state.boundRb, state.boundFb, state.rb,
                       state.param, state.error>>
    BY <1>2, <1>3, <1>4, <1>5, Parts DEF TypesHeld, States
  <1> QED BY <1>4, <1>6, <1>7, <1>8, <1>9, ImageSet

(* The calls that only a driver can refuse, and those refused here.        *)
OnlyDriverErrs ==
  /\ UNCHANGED <<driver.unit, driver.boundTex, driver.boundRb, driver.boundFb, driver.tex,
                 driver.rb, driver.fb, driver.param>>
  /\ driver'.error
OnlyClientErrs ==
  /\ UNCHANGED <<state.unit, state.boundTex, state.boundRb, state.boundFb, state.tex,
                 state.rb, state.fb, state.param, state.needGet>>
  /\ state'.error

LEMMA RejectedIs ==
  ASSUME TypesHeld, NEW s \in States, Rejected(s)
  PROVE  /\ state' = s /\ driver' \in DriverContexts /\ UNCHANGED <<held, cast>> /\ owed'
         /\ OnlyDriverErrs /\ owed' \in BOOLEAN
  BY Parts DEF Rejected, TypesHeld, DriverContexts, OnlyDriverErrs

LEMMA RefuseIs ==
  ASSUME TypesHeld, NEW rightly \in BOOLEAN, Refuse(rightly)
  PROVE  /\ state' \in States /\ UNCHANGED <<driver, held, cast>> /\ owed' \in BOOLEAN
         /\ OnlyClientErrs
         /\ owed \/ rightly => owed'
  <1>1. /\ state' = [state EXCEPT !.error = TRUE] /\ UNCHANGED <<driver, held, cast>>
        /\ owed' = (owed \/ rightly)
    BY DEF Refuse
  <1>2. state' \in States /\ OnlyClientErrs
    BY <1>1, Parts DEF TypesHeld, States, OnlyClientErrs
  <1>3. owed' \in BOOLEAN /\ (owed \/ rightly => owed')
    BY <1>1
  <1> QED BY <1>1, <1>2, <1>3

LEMMA CopyTexImageIs ==
  ASSUME TypesHeld, NEW level \in Levels, NEW size \in Sizes, NEW accepted \in BOOLEAN,
         CopyTexImage(level, size, accepted)
  PROVE  /\ state' \in States /\ driver' \in DriverContexts /\ UNCHANGED <<held, cast>>
         /\ UNCHANGED <<state.unit, state.boundTex, state.boundRb, state.boundFb, state.tex,
                        state.rb, state.param, state.error>>
         /\ state'.needGet = TRUE
         /\ state'.fb = MarkedOf(state.boundTex)
         /\ UNCHANGED <<driver.unit, driver.boundTex, driver.boundRb, driver.boundFb,
                        driver.rb, driver.fb, driver.param>>
         /\ ImagesOnly
         /\ \/ /\ UNCHANGED owed /\ driver'.error = driver.error
               /\ Texture # None => Imaging(level, size)
            \/ driver'.tex = driver.tex /\ driver'.error /\ owed' /\ owed' = TRUE
         /\ KnownTexture /\ KnownLevel(level)
         /\ "sizes" \in Manners /\ Cached(state.tex, state.boundTex) =>
              state.tex[state.boundTex].size = size
  <1> DEFINE s == [state EXCEPT !.needGet = TRUE, !.fb = MarkedOf(state.boundTex)]
  <1>1. s = [state EXCEPT !.needGet = TRUE,
                          !.fb = IF Cached(state.tex, state.boundTex)
                                 THEN Marked(state.tex[state.boundTex].fb) ELSE @]
    BY Parts, StateParts DEF TypesHeld, MarkedOf
  <1>2. MarkedOf(state.boundTex) \in [Framebuffers -> {Absent} \cup FramebufferEntry]
    BY Parts, StateParts, MarkedOfIs DEF TypesHeld
  <1>3. /\ s \in States /\ s.unit = state.unit /\ s.boundTex = state.boundTex
        /\ s.boundRb = state.boundRb /\ s.boundFb = state.boundFb /\ s.tex = state.tex
        /\ s.rb = state.rb /\ s.param = state.param /\ s.error = state.error
        /\ s.needGet = TRUE /\ s.fb = MarkedOf(state.boundTex)
    BY <1>2, Parts DEF TypesHeld, States
  <1>4. /\ KnownTexture /\ KnownLevel(level)
        /\ "sizes" \in Manners /\ Cached(state.tex, state.boundTex) =>
             state.tex[state.boundTex].size = size
        /\ IF accepted
           THEN /\ state' = s
                /\ driver' = IF Texture = None THEN driver
                             ELSE [driver EXCEPT !.tex[Texture].image[level] = size]
                /\ UNCHANGED <<held, cast, owed>>
           ELSE Rejected(s)
    BY <1>1 DEF CopyTexImage
  <1> HIDE DEF s
  <1>5. CASE accepted
    <2>1. /\ driver' \in DriverContexts
          /\ UNCHANGED <<driver.unit, driver.boundTex, driver.boundRb, driver.boundFb,
                         driver.rb, driver.fb, driver.param, driver.error>>
          /\ ImagesOnly
          /\ Texture # None => Imaging(level, size)
      BY <1>4, <1>5, ImageSet
    <2>2. UNCHANGED <<driver.unit, driver.boundTex, driver.boundRb, driver.boundFb,
                      driver.rb, driver.fb, driver.param>>
          /\ driver'.error = driver.error
      BY <2>1, Parts DEF TypesHeld, DriverContexts
    <2> QED BY <1>3, <1>4, <1>5, <2>1, <2>2
  <1>6. CASE ~accepted
    <2>1. Rejected(s)
      BY <1>4, <1>6
    <2>2. /\ state' = s /\ driver' \in DriverContexts /\ UNCHANGED <<held, cast>> /\ owed'
          /\ OnlyDriverErrs /\ owed' = TRUE
      BY <1>3, <2>1, RejectedIs DEF Rejected
    <2>3. /\ UNCHANGED <<driver.unit, driver.boundTex, driver.boundRb, driver.boundFb,
                         driver.rb, driver.fb, driver.param>>
          /\ driver'.tex = driver.tex /\ driver'.error
      BY <2>2, Parts DEF OnlyDriverErrs, TypesHeld, DriverContexts
    <2> QED BY <1>3, <1>4, <2>2, <2>3 DEF ImagesOnly
  <1> QED BY <1>5, <1>6

LEMMA GenTexturesIs ==
  ASSUME TypesHeld, NEW t \in Textures, GenTextures(t)
  PROVE  /\ state' \in States /\ UNCHANGED <<driver, cast, owed>>
         /\ t \notin held /\ held' = held \cup {t}
         /\ UNCHANGED <<state.unit, state.boundTex, state.boundRb, state.boundFb, state.rb,
                        state.fb, state.param, state.error, state.needGet>>
         /\ \E v \in LeftBy : state'.tex = [state.tex EXCEPT ![t] = NewTexture(v)]
  <1>1. PICK v \in LeftBy : state' = [state EXCEPT !.tex[t] = NewTexture(v)]
    BY DEF GenTextures
  <1>2. [state.tex EXCEPT ![t] = NewTexture(v)] \in [Textures -> {Absent} \cup TextureEntry]
    BY Parts, StateParts, NewOnes DEF TypesHeld
  <1>3. /\ state' \in States
        /\ UNCHANGED <<state.unit, state.boundTex, state.boundRb, state.boundFb, state.rb,
                       state.fb, state.param, state.error, state.needGet>>
        /\ state'.tex = [state.tex EXCEPT ![t] = NewTexture(v)]
    BY <1>1, <1>2, Parts DEF TypesHeld, States
  <1> QED BY <1>3 DEF GenTextures

LEMMA BindTextureIs ==
  ASSUME TypesHeld, NEW t \in Textures \cup {None}, BindTexture(t)
  PROVE  /\ state' \in States /\ driver' \in DriverContexts /\ UNCHANGED <<cast, owed>>
         /\ held' = held \cup ({t} \ {None})
         /\ "names" \in Manners => t = None \/ t \in held
         /\ UNCHANGED <<state.unit, state.boundRb, state.boundFb, state.rb, state.fb,
                        state.param, state.error, state.needGet>>
         /\ state'.boundTex = t
         /\ \E v \in LeftBy : state'.tex = WithEntry(state.tex, t, NewTexture(v))
         /\ UNCHANGED <<driver.unit, driver.boundRb, driver.boundFb, driver.rb, driver.fb,
                        driver.param, driver.error>>
         /\ driver'.boundTex = [driver.boundTex EXCEPT ![driver.unit] = t]
         /\ driver'.tex = WithEntry(driver.tex, t, DriverTexture)
  <1>0. PICK v \in LeftBy : state' = [state EXCEPT !.boundTex = t,
                                                    !.tex = WithEntry(@, t, NewTexture(v))]
    BY DEF BindTexture
  <1>1. WithEntry(state.tex, t, NewTexture(v)) \in [Textures -> {Absent} \cup TextureEntry]
    BY Parts, StateParts, NewOnes, WithEntryIs DEF TypesHeld
  <1>2. WithEntry(driver.tex, t, DriverTexture) \in [Textures -> {Absent} \cup TextureObject]
    BY Parts, DriverParts, NewOnes, WithEntryIs DEF TypesHeld
  <1>3. [driver.boundTex EXCEPT ![driver.unit] = t] \in [Units -> Textures \cup {None}]
    BY Parts, DriverParts DEF TypesHeld
  <1>4. /\ state' = [state EXCEPT !.boundTex = t, !.tex = WithEntry(state.tex, t, NewTexture(v))]
        /\ driver' = [driver EXCEPT !.boundTex = [driver.boundTex EXCEPT ![driver.unit] = t],
                                    !.tex = WithEntry(driver.tex, t, DriverTexture)]
        /\ UNCHANGED <<cast, owed>> /\ held' = held \cup ({t} \ {None})
        /\ "names" \in Manners => t = None \/ t \in held
    BY <1>0, Parts DEF BindTexture, TypesHeld, States, DriverContexts
  <1>5. /\ state' \in States /\ state'.tex = WithEntry(state.tex, t, NewTexture(v))
        /\ UNCHANGED <<state.unit, state.boundRb, state.boundFb, state.rb, state.fb,
                       state.param, state.error, state.needGet>>
        /\ state'.boundTex = t
    BY <1>1, <1>4, Parts DEF TypesHeld, States
  <1>6. /\ driver' \in DriverContexts
        /\ driver'.boundTex = [driver.boundTex EXCEPT ![driver.unit] = t]
        /\ driver'.tex = WithEntry(driver.tex, t, DriverTexture)
        /\ UNCHANGED <<driver.unit, driver.boundRb, driver.boundFb, driver.rb, driver.fb,
                       driver.param, driver.error>>
    BY <1>2, <1>3, <1>4, Parts DEF TypesHeld, DriverContexts
  <1> QED BY <1>4, <1>5, <1>6

LEMMA DeleteTexturesIs ==
  ASSUME TypesHeld, NEW t \in Textures, DeleteTextures(t)
  PROVE  /\ state' \in States /\ driver' \in DriverContexts /\ UNCHANGED <<cast, owed>>
         /\ t \in held /\ held' = held \ {t}
         /\ UNCHANGED <<state.unit, state.boundRb, state.boundFb, state.rb, state.param,
                        state.error, state.needGet>>
         /\ state'.boundTex = Unless(state.boundTex, t)
         /\ state'.tex = [state.tex EXCEPT ![t] = Absent]
         /\ state'.fb = Marked(state.tex[t].fb) /\ Cached(state.tex, t)
         /\ UNCHANGED <<driver.unit, driver.boundRb, driver.boundFb, driver.rb,
                        driver.param, driver.error>>
         /\ driver'.boundTex = [u \in Units |-> Released(driver.boundTex[u], t)]
         /\ driver'.tex = [driver.tex EXCEPT ![t] = Absent]
         /\ driver'.fb = WithoutName(t, driver.boundFb)
  <1> DEFINE tex == [state.tex EXCEPT ![t] = Absent]
             fb == Marked(state.tex[t].fb)
             bound == [u \in Units |-> Released(driver.boundTex[u], t)]
             objects == [driver.tex EXCEPT ![t] = Absent]
             left == WithoutName(t, driver.boundFb)
  <1>1. t \in held /\ Cached(state.tex, t)
    BY NamesApart DEF DeleteTextures, TypesHeld, EntriesHeld, Cached
  <1>2. fb \in [Framebuffers -> {Absent} \cup FramebufferEntry]
    BY <1>1, MarkedOfIs DEF MarkedOf
  <1>3. tex \in [Textures -> {Absent} \cup TextureEntry]
    BY Parts, StateParts DEF TypesHeld
  <1>4. bound \in [Units -> Textures \cup {None}]
    BY Parts, DriverParts DEF TypesHeld, Released
  <1>5. objects \in [Textures -> {Absent} \cup TextureObject]
    BY Parts, DriverParts DEF TypesHeld
  <1>6. left \in [Framebuffers -> {Absent} \cup Attachments]
    BY WithoutNameIs DEF TypesHeld
  <1>7. /\ state' = [state EXCEPT !.fb = fb, !.tex = tex, !.boundTex = Unless(state.boundTex, t)]
        /\ driver' = [driver EXCEPT !.fb = left, !.tex = objects, !.boundTex = bound]
        /\ UNCHANGED <<cast, owed>> /\ held' = held \ {t}
    BY Parts DEF DeleteTextures, TypesHeld, States, DriverContexts
  <1>8. Unless(state.boundTex, t) \in Textures \cup {None}
    BY Parts, StateParts DEF TypesHeld, Unless
  <1> HIDE DEF tex, fb, bound, objects, left
  <1>9. /\ state' \in States /\ state'.tex = tex /\ state'.fb = fb
        /\ UNCHANGED <<state.unit, state.boundRb, state.boundFb, state.rb, state.param,
                       state.error, state.needGet>>
        /\ state'.boundTex = Unless(state.boundTex, t)
    BY <1>2, <1>3, <1>7, <1>8, Parts DEF TypesHeld, States
  <1>10. /\ driver' \in DriverContexts
         /\ driver'.boundTex = bound /\ driver'.tex = objects /\ driver'.fb = left
         /\ UNCHANGED <<driver.unit, driver.boundRb, driver.boundFb, driver.rb,
                        driver.param, driver.error>>
    BY <1>4, <1>5, <1>6, <1>7, Parts DEF TypesHeld, DriverContexts
  <1> QED BY <1>1, <1>7, <1>9, <1>10 DEF tex, fb, bound, objects, left

(* An attachment that the driver makes, or refuses.                        *)
Attached(p, x) ==
  /\ driver.boundFb # None /\ driver.fb[driver.boundFb] # Absent
  /\ UNCHANGED <<driver.unit, driver.boundTex, driver.boundRb, driver.boundFb, driver.tex,
                 driver.rb, driver.param, driver.error>>
  /\ \A f \in Framebuffers :
       /\ driver'.fb[f] = Absent <=> driver.fb[f] = Absent
       /\ driver.fb[f] # Absent => \A q \in Points :
            driver'.fb[f][q] = IF f = driver.boundFb /\ q = p THEN x ELSE driver.fb[f][q]
  /\ UNCHANGED owed

LEMMA AttachIs ==
  ASSUME TypesHeld, NEW s \in States, NEW p \in Points,
         NEW x \in Textures \cup Renderbuffers \cup {None}, NEW exists \in BOOLEAN,
         Attach(s, p, x, exists)
  PROVE  /\ state' = s /\ driver' \in DriverContexts /\ UNCHANGED <<held, cast>>
         /\ owed' \in BOOLEAN /\ (owed => owed')
         /\ \/ Attached(p, x)
            \/ /\ ~(driver.boundFb # None /\ (x = None \/ exists))
               /\ OnlyDriverErrs
  <1>1. CASE driver.boundFb # None /\ (x = None \/ exists)
    <2> DEFINE f == driver.boundFb
               g == [driver.fb[f] EXCEPT ![p] = x]
               fb == [driver.fb EXCEPT ![f] = g]
    <2>1. driver.fb[f] \in Attachments /\ f \in Framebuffers /\ driver.fb[f] # Absent
      BY <1>1, Parts, DriverParts DEF TypesHeld, ObjectsBound
    <2>2. g \in Attachments /\ \A q \in Points : g[q] = IF q = p THEN x ELSE driver.fb[f][q]
      BY <2>1 DEF Attachments
    <2>3. g # Absent
      BY <2>2, NamesAssumption
    <2>4. driver' = [driver EXCEPT !.fb = fb] /\ state' = s /\ UNCHANGED <<held, cast, owed>>
      BY <1>1 DEF Attach
    <2> HIDE DEF g
    <2>5. fb \in [Framebuffers -> {Absent} \cup Attachments]
      BY <2>2, Parts, DriverParts DEF TypesHeld
    <2>6. /\ \A h \in Framebuffers : h # f => fb[h] = driver.fb[h]
          /\ fb[f] = g
      BY <2>1, Parts, DriverParts DEF TypesHeld
    <2> HIDE DEF fb, f
    <2>7. /\ driver' \in DriverContexts /\ driver'.fb = fb
          /\ UNCHANGED <<driver.unit, driver.boundTex, driver.boundRb, driver.boundFb,
                         driver.tex, driver.rb, driver.param, driver.error>>
      BY <2>4, <2>5, Parts DEF TypesHeld, DriverContexts
    <2>8. owed \in BOOLEAN
      BY DEF TypesHeld, TypeOK
    <2> QED BY <1>1, <2>1, <2>2, <2>3, <2>4, <2>6, <2>7, <2>8 DEF Attached, f
  <1>2. CASE ~(driver.boundFb # None /\ (x = None \/ exists))
    <2>1. Rejected(s)
      BY <1>2 DEF Attach
    <2> QED BY <1>2, <2>1, RejectedIs
  <1> QED BY <1>1, <1>2

LEMMA FramebufferTexture2DIs ==
  ASSUME TypesHeld, NEW t \in Textures \cup {None}, FramebufferTexture2D(t)
  PROVE  /\ state' \in States /\ driver' \in DriverContexts /\ UNCHANGED <<held, cast>>
         /\ owed' \in BOOLEAN /\ (owed => owed')
         /\ UNCHANGED <<state.unit, state.boundTex, state.boundRb, state.boundFb, state.rb,
                        state.param, state.error, state.needGet>>
         /\ state'.fb = IF Cached(state.tex, t) THEN Marked(state.boundFb) ELSE state.fb
         /\ \A x \in Textures :
              /\ state'.tex[x] = Absent <=> state.tex[x] = Absent
              /\ state.tex[x] # Absent =>
                   /\ state'.tex[x].size = state.tex[x].size
                   /\ state'.tex[x].param = state.tex[x].param
                   /\ state'.tex[x].fb = IF x = t THEN state.boundFb ELSE state.tex[x].fb
         /\ \/ Attached("color", t)
            \/ /\ ~(driver.boundFb # None /\ (t = None \/ Cached(driver.tex, t)))
               /\ OnlyDriverErrs
         /\ MayAttach(driver.tex, t)
  <1> DEFINE e == [state.tex[t] EXCEPT !.fb = state.boundFb]
             tex == IF Cached(state.tex, t) THEN [state.tex EXCEPT ![t] = e] ELSE state.tex
             fb == IF Cached(state.tex, t) THEN Marked(state.boundFb) ELSE state.fb
             s == [state EXCEPT !.tex = tex, !.fb = fb]
  <1>1. Cached(state.tex, t) => /\ e \in TextureEntry /\ e # Absent /\ e.fb = state.boundFb
                                /\ e.size = state.tex[t].size /\ e.param = state.tex[t].param
    <2>1. Cached(state.tex, t) => state.tex[t] \in TextureEntry
      BY MarkedOfIs
    <2>2. state.boundFb \in Framebuffers \cup {None}
      BY Parts, StateParts DEF TypesHeld
    <2> QED BY <2>1, <2>2, NamesAssumption DEF TextureEntry
  <1>2. tex \in [Textures -> {Absent} \cup TextureEntry]
    BY <1>1, Parts, StateParts DEF TypesHeld
  <1>3. fb \in [Framebuffers -> {Absent} \cup FramebufferEntry]
    BY Parts, StateParts, MarkedIs DEF TypesHeld
  <1>4. \A x \in Textures :
          /\ tex[x] = Absent <=> state.tex[x] = Absent
          /\ state.tex[x] # Absent =>
               /\ tex[x].size = state.tex[x].size /\ tex[x].param = state.tex[x].param
               /\ tex[x].fb = IF x = t THEN state.boundFb ELSE state.tex[x].fb
    BY <1>1, Parts, StateParts, NamesApart DEF TypesHeld, Cached
  <1>5. s = IF Cached(state.tex, t)
            THEN [state EXCEPT !.tex[t].fb = state.boundFb, !.fb = Marked(state.boundFb)]
            ELSE state
    <2>1. CASE Cached(state.tex, t)
      BY <2>1
    <2>2. CASE ~Cached(state.tex, t)
      BY <2>2, Parts DEF TypesHeld, States
    <2> QED BY <2>1, <2>2
  <1>6. MayAttach(driver.tex, t) /\ Attach(s, "color", t, Cached(driver.tex, t))
    BY <1>5 DEF FramebufferTexture2D
  <1> HIDE DEF tex, fb
  <1>7. s \in States /\ s.tex = tex /\ s.fb = fb /\ s.unit = state.unit
                                                    /\ s.boundTex = state.boundTex
                                                    /\ s.boundRb = state.boundRb
                                                    /\ s.boundFb = state.boundFb
                                                    /\ s.rb = state.rb
                                                    /\ s.param = state.param
                                                    /\ s.error = state.error
                                                    /\ s.needGet = state.needGet
    BY <1>2, <1>3, Parts DEF TypesHeld, States
  <1> HIDE DEF s
  <1>8. Cached(driver.tex, t) \in BOOLEAN /\ "color" \in Points
    BY DEF Cached, Points
  <1>9. /\ state' = s /\ driver' \in DriverContexts /\ UNCHANGED <<held, cast>>
        /\ owed' \in BOOLEAN /\ (owed => owed')
        /\ \/ Attached("color", t)
           \/ /\ ~(driver.boundFb # None /\ (t = None \/ Cached(driver.tex, t)))
              /\ OnlyDriverErrs
    BY <1>6, <1>7, <1>8, AttachIs
  <1> QED BY <1>4, <1>6, <1>7, <1>9 DEF fb

LEMMA FramebufferRenderbufferIs ==
  ASSUME TypesHeld, NEW p \in Points, NEW r \in Renderbuffers \cup {None},
         FramebufferRenderbuffer(p, r)
  PROVE  /\ state' \in States /\ driver' \in DriverContexts /\ UNCHANGED <<held, cast>>
         /\ owed' \in BOOLEAN /\ (owed => owed')
         /\ UNCHANGED <<state.unit, state.boundTex, state.boundRb, state.boundFb, state.tex,
                        state.param, state.error, state.needGet>>
         /\ \A f \in Framebuffers :
              /\ state'.fb[f] = Absent <=> state.fb[f] = Absent
              /\ f # state.boundFb => state'.fb[f] = state.fb[f]
              /\ f = state.boundFb /\ state.fb[f] # Absent => state'.fb[f].complete = "unknown"
         /\ \A x \in Renderbuffers : state'.rb[x] = Absent <=> state.rb[x] = Absent
         /\ \/ Attached(p, r)
            \/ /\ ~(driver.boundFb # None /\ (r = None \/ Cached(driver.rb, r)))
               /\ OnlyDriverErrs
         /\ MayAttach(driver.rb, r)
  <1> DEFINE f == state.boundFb
             known == Cached(state.fb, f)
             g == [[state.fb[f] EXCEPT ![p] = r] EXCEPT !.complete = "unknown"]
             fb == IF known THEN [state.fb EXCEPT ![f] = g] ELSE state.fb
             rb == IF Cached(state.rb, r) THEN [state.rb EXCEPT ![r] = f] ELSE state.rb
             marked == IF known
                       THEN [state EXCEPT !.fb[f] = [[@ EXCEPT ![p] = r]
                                                        EXCEPT !.complete = "unknown"]]
                       ELSE state
             s == [state EXCEPT !.fb = fb, !.rb = rb]
  <1>1. f \in Framebuffers \cup {None}
    BY Parts, StateParts DEF TypesHeld
  <1>2. known => g \in FramebufferEntry /\ g # Absent /\ g.complete = "unknown"
    <2>1. known => state.fb[f] \in FramebufferEntry
      BY <1>1, Parts, StateParts DEF TypesHeld, Cached
    <2>2. known => g \in FramebufferEntry /\ g.complete = "unknown"
      BY <2>1 DEF FramebufferEntry, Points, Statuses
    <2> QED BY <2>2, NamesAssumption
  <1> HIDE DEF g
  <1>3. fb \in [Framebuffers -> {Absent} \cup FramebufferEntry]
    BY <1>2, Parts, StateParts DEF TypesHeld
  <1>4. rb \in [Renderbuffers -> Framebuffers \cup {None, Absent}]
    BY <1>1, Parts, StateParts DEF TypesHeld
  <1>5. /\ \A x \in Framebuffers :
             /\ fb[x] = Absent <=> state.fb[x] = Absent
             /\ x # f => fb[x] = state.fb[x]
             /\ x = f /\ state.fb[x] # Absent => fb[x].complete = "unknown"
    BY <1>1, <1>2, Parts, StateParts, NamesApart DEF TypesHeld, Cached
  <1>6. \A x \in Renderbuffers : rb[x] = Absent <=> state.rb[x] = Absent
    BY <1>1, Parts, StateParts, NamesApart DEF TypesHeld, Cached
  <1>7. marked = [state EXCEPT !.fb = fb]
    <2>1. CASE known
      BY <2>1 DEF g
    <2>2. CASE ~known
      BY <2>2, Parts DEF TypesHeld, States
    <2> QED BY <2>1, <2>2
  <1>8. s = IF Cached(state.rb, r) THEN [marked EXCEPT !.rb[r] = f] ELSE marked
    <2> HIDE DEF marked, fb
    <2>1. marked.rb = state.rb
      BY <1>7, Parts DEF TypesHeld, States
    <2>2. CASE Cached(state.rb, r)
      BY <1>7, <2>1, <2>2, Parts DEF TypesHeld, States
    <2>3. CASE ~Cached(state.rb, r)
      BY <1>7, <2>3, Parts DEF TypesHeld, States
    <2> QED BY <2>2, <2>3
  <1>9. MayAttach(driver.rb, r) /\ Attach(s, p, r, Cached(driver.rb, r))
    BY <1>8 DEF FramebufferRenderbuffer, g
  <1> HIDE DEF fb, rb
  <1>10. s \in States /\ s.fb = fb /\ s.rb = rb /\ s.unit = state.unit
                                                   /\ s.boundTex = state.boundTex
                                                   /\ s.boundRb = state.boundRb
                                                   /\ s.boundFb = state.boundFb
                                                   /\ s.tex = state.tex
                                                   /\ s.param = state.param
                                                   /\ s.error = state.error
                                                   /\ s.needGet = state.needGet
    BY <1>3, <1>4, Parts DEF TypesHeld, States
  <1> HIDE DEF s
  <1>11. Cached(driver.rb, r) \in BOOLEAN
    BY DEF Cached
  <1>12. /\ state' = s /\ driver' \in DriverContexts /\ UNCHANGED <<held, cast>>
         /\ owed' \in BOOLEAN /\ (owed => owed')
         /\ \/ Attached(p, r)
            \/ /\ ~(driver.boundFb # None /\ (r = None \/ Cached(driver.rb, r)))
               /\ OnlyDriverErrs
    BY <1>9, <1>10, <1>11, AttachIs
  <1> QED BY <1>5, <1>6, <1>9, <1>10, <1>12

LEMMA ActiveTextureIs ==
  ASSUME TypesHeld, NEW u \in Units, ActiveTexture(u)
  PROVE  /\ state' \in States /\ driver' \in DriverContexts /\ UNCHANGED <<held, cast, owed>>
         /\ UNCHANGED <<state.boundRb, state.boundFb, state.tex, state.rb, state.fb,
                        state.param, state.error, state.needGet>>
         /\ state'.unit = u /\ state'.boundTex = None
         /\ UNCHANGED <<driver.boundTex, driver.boundRb, driver.boundFb, driver.tex,
                        driver.rb, driver.fb, driver.param, driver.error>>
         /\ driver'.unit = u
  BY Parts DEF TypesHeld, ActiveTexture, BindingLeft, States, DriverContexts

LEMMA TexSubImageIs ==
  ASSUME TypesHeld, NEW level \in Levels, NEW end \in Sizes, NEW flag \in BOOLEAN,
         TexSubImage(level, end, flag)
  PROVE  /\ KnownTexture /\ KnownLevel(level) /\ UNCHANGED <<held, cast>> /\ state' \in States
         /\ driver' \in DriverContexts /\ owed' \in BOOLEAN /\ (owed => owed')
         /\ UNCHANGED <<state.unit, state.boundTex, state.boundRb, state.boundFb, state.tex,
                        state.rb, state.fb, state.param>>
         /\ (state.needGet => state'.needGet)
         /\ UNCHANGED <<driver.unit, driver.boundTex, driver.boundRb, driver.boundFb,
                        driver.tex, driver.rb, driver.fb, driver.param>>
         /\ \/ /\ ~Cached(state.tex, state.boundTex) \/ end > state.tex[state.boundTex].size
               /\ ~(Texture # None /\ end <= driver.tex[Texture].image[level]) => owed'
               /\ state'.error /\ driver'.error = driver.error
            \/ UNCHANGED owed /\ state'.error = state.error /\ driver'.error = driver.error
            \/ /\ ~(~Cached(state.tex, state.boundTex) \/ end > state.tex[state.boundTex].size)
               /\ (Texture # None /\ end <= driver.tex[Texture].image[level]) => state'.needGet
               /\ driver'.error /\ state'.error = state.error /\ owed'
  <1> DEFINE t == state.boundTex
             n == state.needGet \/ ~flag
             s == [state EXCEPT !.needGet = n]
             bad == ~Cached(state.tex, t) \/ end > state.tex[t].size
             fits == Texture # None /\ end <= driver.tex[Texture].image[level]
             right == flag /\ fits
             rightly == ~right
  <1>1. /\ n \in BOOLEAN /\ rightly \in BOOLEAN /\ (state.needGet => n)
        /\ ~fits => rightly
        /\ ~right /\ fits => n
    OBVIOUS
  <1>2. KnownTexture /\ KnownLevel(level)
    BY DEF TexSubImage
  <1>3. IF bad THEN Refuse(rightly)
        ELSE IF right THEN state' = s /\ UNCHANGED <<driver, held, cast, owed>>
        ELSE Rejected(s)
    BY DEF TexSubImage
  <1>4. owed \in BOOLEAN
    BY DEF TypesHeld, TypeOK
  <1> HIDE DEF n, rightly, right, fits, bad
  <1>5. s \in States /\ s.error = state.error /\ s.needGet = n
        /\ s.unit = state.unit /\ s.boundTex = state.boundTex
           /\ s.boundRb = state.boundRb /\ s.boundFb = state.boundFb
           /\ s.tex = state.tex /\ s.rb = state.rb /\ s.fb = state.fb
           /\ s.param = state.param
    BY <1>1, Parts DEF TypesHeld, States
  <1>6. driver = [driver EXCEPT !.error = driver.error] /\ driver \in DriverContexts
    BY Parts DEF TypesHeld, DriverContexts
  <1> HIDE DEF s
  <1>7. CASE bad
    <2>1. /\ state' \in States /\ UNCHANGED <<driver, held, cast>> /\ owed' \in BOOLEAN
          /\ OnlyClientErrs /\ (owed \/ rightly => owed')
      BY <1>1, <1>3, <1>7, RefuseIs
    <2>2. /\ state'.error = TRUE /\ state'.needGet = state.needGet
          /\ UNCHANGED <<state.unit, state.boundTex, state.boundRb, state.boundFb,
                         state.tex, state.rb, state.fb, state.param>>
      BY <2>1, Parts DEF OnlyClientErrs, TypesHeld, States
    <2> QED BY <1>1, <1>2, <1>6, <1>7, <2>1, <2>2 DEF bad, fits
  <1>8. CASE ~bad /\ right
    BY <1>1, <1>2, <1>3, <1>4, <1>5, <1>6, <1>8
  <1>9. CASE ~bad /\ ~right
    <2>1. Rejected(s)
      BY <1>3, <1>9
    <2>2. /\ state' = s /\ driver' \in DriverContexts /\ UNCHANGED <<held, cast>> /\ owed'
          /\ OnlyDriverErrs /\ owed' \in BOOLEAN
      BY <1>5, <2>1, RejectedIs
    <2>3. driver'.error = TRUE /\ UNCHANGED <<driver.unit, driver.boundTex,
                                              driver.boundRb, driver.boundFb, driver.tex,
                                              driver.rb, driver.fb, driver.param>>
      BY <2>2, Parts DEF OnlyDriverErrs, TypesHeld, DriverContexts
    <2> QED BY <1>1, <1>2, <1>5, <1>9, <2>2, <2>3 DEF bad, fits
  <1> QED BY <1>7, <1>8, <1>9

LEMMA GenRenderbuffersIs ==
  ASSUME TypesHeld, NEW r \in Renderbuffers, GenRenderbuffers(r)
  PROVE  /\ state' \in States /\ UNCHANGED <<driver, cast, owed>>
         /\ held' = held \cup {r}
         /\ UNCHANGED <<state.unit, state.boundTex, state.boundRb, state.boundFb, state.tex,
                        state.fb, state.param, state.error, state.needGet>>
         /\ state'.rb = [state.rb EXCEPT ![r] = None]
  <1>1. [state.rb EXCEPT ![r] = None] \in [Renderbuffers -> Framebuffers \cup {None, Absent}]
    BY Parts, StateParts DEF TypesHeld
  <1> QED BY <1>1, Parts DEF GenRenderbuffers, TypesHeld, States

LEMMA BindRenderbufferIs ==
  ASSUME TypesHeld, NEW right \in BOOLEAN, NEW r \in Renderbuffers \cup {None},
         BindRenderbuffer(right, r)
  PROVE  /\ state' \in States /\ driver' \in DriverContexts /\ UNCHANGED <<held, cast>>
         /\ owed' \in BOOLEAN /\ (owed => owed')
         /\ UNCHANGED <<state.unit, state.boundTex, state.boundFb, state.tex, state.rb,
                        state.fb, state.param, state.needGet>>
         /\ state'.boundRb = r
         /\ \/ /\ state'.error = state.error /\ UNCHANGED owed
               /\ UNCHANGED <<driver.unit, driver.boundTex, driver.boundFb, driver.tex,
                              driver.fb, driver.param, driver.error>>
               /\ driver'.boundRb = r /\ driver'.rb = WithEntry(driver.rb, r, "no image")
            \/ /\ "names" \notin Manners
               /\ OnlyDriverErrs
  <1> DEFINE b == state.error \/ ~right
             s == [state EXCEPT !.boundRb = r, !.error = b]
             rb == WithEntry(driver.rb, r, "no image")
  <1>1. b \in BOOLEAN /\ (right => (b <=> state.error))
    OBVIOUS
  <1>2. rb \in [Renderbuffers -> {Absent, "image", "no image"}]
    BY Parts, DriverParts DEF TypesHeld, WithEntry
  <1>3. IF right
        THEN state' = s /\ driver' = [driver EXCEPT !.boundRb = r, !.rb = rb]
             /\ UNCHANGED <<held, cast, owed>>
        ELSE "names" \notin Manners /\ Rejected(s)
    <2>1. driver.rb = driver.rb /\ [driver EXCEPT !.boundRb = r, !.rb = rb]
            = [driver EXCEPT !.boundRb = r, !.rb = WithEntry(@, r, "no image")]
      BY Parts DEF TypesHeld, DriverContexts
    <2> QED BY <2>1 DEF BindRenderbuffer
  <1>4. owed \in BOOLEAN /\ state.error \in BOOLEAN
    BY Parts, StateParts DEF TypesHeld, TypeOK
  <1> HIDE DEF b, rb
  <1>5. s \in States /\ s.error = b /\ s.unit = state.unit
                                       /\ s.boundTex = state.boundTex
                                       /\ s.boundFb = state.boundFb /\ s.tex = state.tex
                                       /\ s.rb = state.rb /\ s.fb = state.fb
                                       /\ s.param = state.param
                                       /\ s.needGet = state.needGet /\ s.boundRb = r
    BY <1>1, Parts DEF TypesHeld, States
  <1> HIDE DEF s
  <1>6. CASE right
    <2>1. driver' = [driver EXCEPT !.boundRb = r, !.rb = rb] /\ UNCHANGED <<held, cast, owed>>
          /\ state' = s
      BY <1>3, <1>6
    <2>2. driver' \in DriverContexts
      BY <1>2, <2>1, Parts DEF TypesHeld, DriverContexts
    <2>3. s.error = state.error
      BY <1>1, <1>4, <1>5, <1>6
    <2> QED BY <1>4, <1>5, <2>1, <2>2, <2>3 DEF rb
  <1>7. CASE ~right
    <2>1. Rejected(s) /\ "names" \notin Manners
      BY <1>3, <1>7
    <2> QED BY <1>5, <2>1, RejectedIs
  <1> QED BY <1>6, <1>7

LEMMA RenderbufferStorageIs ==
  ASSUME TypesHeld, NEW accepted \in BOOLEAN, RenderbufferStorage(accepted)
  PROVE  /\ state' \in States /\ driver' \in DriverContexts /\ UNCHANGED <<held, cast>>
         /\ owed' \in BOOLEAN /\ (owed => owed')
         /\ UNCHANGED <<state.unit, state.boundTex, state.boundRb, state.boundFb, state.tex,
                        state.rb, state.param, state.error>>
         /\ state'.fb = Marked(state.boundFb) /\ state'.needGet = TRUE
         /\ UNCHANGED <<driver.unit, driver.boundTex, driver.boundRb, driver.boundFb,
                        driver.tex, driver.fb, driver.param>>
         /\ "storage" \in Manners => AttachedTo(driver.boundRb) \subseteq {driver.boundFb}
         /\ \A r \in Renderbuffers : r # driver.boundRb => driver'.rb[r] = driver.rb[r]
         /\ \/ UNCHANGED owed /\ driver'.error = driver.error
            \/ UNCHANGED driver.rb /\ driver'.error /\ owed'
  <1> DEFINE s == [state EXCEPT !.needGet = TRUE, !.fb = Marked(state.boundFb)]
             r == driver.boundRb
             rb == [driver.rb EXCEPT ![r] = "image"]
  <1>1. Marked(state.boundFb) \in [Framebuffers -> {Absent} \cup FramebufferEntry]
    BY Parts, StateParts, MarkedIs DEF TypesHeld
  <1>2. /\ s \in States /\ s.fb = Marked(state.boundFb) /\ s.needGet = TRUE
        /\ s.unit = state.unit /\ s.boundTex = state.boundTex /\ s.boundRb = state.boundRb
        /\ s.boundFb = state.boundFb /\ s.tex = state.tex /\ s.rb = state.rb
        /\ s.param = state.param /\ s.error = state.error
    BY <1>1, Parts DEF TypesHeld, States
  <1>3. /\ "storage" \in Manners => AttachedTo(r) \subseteq {driver.boundFb}
        /\ IF accepted /\ r # None
           THEN /\ state' = s /\ driver' = [driver EXCEPT !.rb = rb]
                /\ UNCHANGED <<held, cast, owed>>
           ELSE Rejected(s)
    BY DEF RenderbufferStorage, StorageMarks
  <1>4. rb \in [Renderbuffers -> {Absent, "image", "no image"}]
        /\ \A x \in Renderbuffers : x # r => rb[x] = driver.rb[x]
    BY Parts, DriverParts DEF TypesHeld
  <1>5. owed \in BOOLEAN
    BY DEF TypesHeld, TypeOK
  <1> HIDE DEF s, rb
  <1>6. CASE accepted /\ r # None
    <2>1. state' = s /\ driver' = [driver EXCEPT !.rb = rb] /\ UNCHANGED <<held, cast, owed>>
      BY <1>3, <1>6
    <2>2. driver' \in DriverContexts /\ driver'.rb = rb /\ driver'.error = driver.error
          /\ UNCHANGED <<driver.unit, driver.boundTex, driver.boundRb, driver.boundFb,
                         driver.tex, driver.fb, driver.param>>
      BY <1>4, <2>1, Parts DEF TypesHeld, DriverContexts
    <2> QED BY <1>2, <1>3, <1>4, <1>5, <2>1, <2>2
  <1>7. CASE ~(accepted /\ r # None)
    <2>1. Rejected(s)
      BY <1>3, <1>7
    <2>2. /\ state' = s /\ driver' \in DriverContexts /\ UNCHANGED <<held, cast>> /\ owed'
          /\ OnlyDriverErrs /\ owed' \in BOOLEAN
      BY <1>2, <2>1, RejectedIs
    <2>3. /\ driver'.rb = driver.rb /\ driver'.error
          /\ UNCHANGED <<driver.unit, driver.boundTex, driver.boundRb, driver.boundFb,
                         driver.tex, driver.fb, driver.param>>
      BY <2>2, Parts DEF OnlyDriverErrs, TypesHeld, DriverContexts
    <2> QED BY <1>2, <1>3, <2>2, <2>3
  <1> QED BY <1>6, <1>7

LEMMA DeleteRenderbuffersIs ==
  ASSUME TypesHeld, NEW r \in Renderbuffers, DeleteRenderbuffers(r)
  PROVE  /\ state' \in States /\ driver' \in DriverContexts /\ UNCHANGED <<cast, owed>>
         /\ r \in held /\ held' = held \ {r}
         /\ UNCHANGED <<state.unit, state.boundTex, state.boundFb, state.tex, state.rb,
                        state.param, state.error, state.needGet>>
         /\ state'.boundRb = Unless(state.boundRb, r)
         /\ \A f \in Framebuffers :
              /\ state'.fb[f] = Absent <=> state.fb[f] = Absent
              /\ state.fb[f] # Absent =>
                   state'.fb[f].complete \in {state.fb[f].complete, "unknown"}
         /\ UNCHANGED <<driver.unit, driver.boundTex, driver.boundFb, driver.tex,
                        driver.param, driver.error>>
         /\ driver'.fb = WithoutName(r, None)
         /\ driver'.rb = [driver.rb EXCEPT ![r] = Absent]
         /\ driver'.boundRb = IF driver.boundRb = r THEN Nameless ELSE driver.boundRb
  <1> DEFINE f == state.rb[r]
             g == state.fb[f]
             e == [color |-> Unless(g.color, r), stencil |-> Unless(g.stencil, r),
                   complete |-> "unknown"]
             fb == IF f = None \/ g = Absent THEN state.fb ELSE [state.fb EXCEPT ![f] = e]
             bound == IF driver.boundRb = r THEN Nameless ELSE driver.boundRb
             rb == [driver.rb EXCEPT ![r] = Absent]
             left == WithoutName(r, None)
  <1>1. f \in Framebuffers \cup {None}
    <2>1. state.rb[r] # Absent
      BY DEF DeleteRenderbuffers, TypesHeld, EntriesHeld
    <2> QED BY <2>1, Parts, StateParts DEF TypesHeld
  <1>2. ~(f = None \/ g = Absent) => e \in FramebufferEntry /\ e # Absent
    <2>1. ~(f = None \/ g = Absent) => g \in FramebufferEntry
      BY <1>1, Parts, StateParts DEF TypesHeld
    <2>2. ~(f = None \/ g = Absent) => e \in FramebufferEntry
      BY <2>1 DEF FramebufferEntry, Unless, Statuses
    <2> QED BY <2>2, NamesAssumption
  <1>3. e.complete = "unknown"
    OBVIOUS
  <1> HIDE DEF e
  <1>4. fb \in [Framebuffers -> {Absent} \cup FramebufferEntry]
    BY <1>2, Parts, StateParts DEF TypesHeld
  <1>5. \A x \in Framebuffers :
          /\ fb[x] = Absent <=> state.fb[x] = Absent
          /\ state.fb[x] # Absent => fb[x].complete \in {state.fb[x].complete, "unknown"}
    BY <1>1, <1>2, <1>3, Parts, StateParts DEF TypesHeld
  <1>6. left \in [Framebuffers -> {Absent} \cup Attachments]
    BY WithoutNameIs DEF TypesHeld
  <1>7. /\ rb \in [Renderbuffers -> {Absent, "image", "no image"}]
        /\ bound \in Renderbuffers \cup {None, Nameless}
    BY Parts, DriverParts DEF TypesHeld
  <1>8. Unless(state.boundRb, r) \in Renderbuffers \cup {None}
    BY Parts, StateParts DEF TypesHeld, Unless
  <1>9. /\ state' = [state EXCEPT !.fb = fb, !.boundRb = Unless(state.boundRb, r)]
        /\ driver' = [driver EXCEPT !.fb = left, !.rb = rb, !.boundRb = bound]
        /\ UNCHANGED <<cast, owed>> /\ r \in held /\ held' = held \ {r}
    BY Parts DEF DeleteRenderbuffers, TypesHeld, States, DriverContexts, e
  <1> HIDE DEF fb, bound, rb, left
  <1>10. /\ state' \in States /\ state'.fb = fb
         /\ UNCHANGED <<state.unit, state.boundTex, state.boundFb, state.tex, state.rb,
                        state.param, state.error, state.needGet>>
         /\ state'.boundRb = Unless(state.boundRb, r)
    BY <1>4, <1>8, <1>9, Parts DEF TypesHeld, States
  <1>11. driver' \in DriverContexts
    BY <1>6, <1>7, <1>9, Parts DEF TypesHeld, DriverContexts
  <1> QED BY <1>5, <1>9, <1>10, <1>11 DEF bound, rb, left

LEMMA GenFramebuffersIs ==
  ASSUME TypesHeld, NEW f \in Framebuffers, GenFramebuffers(f)
  PROVE  /\ state' \in States /\ UNCHANGED <<driver, cast, owed>>
         /\ f \notin held /\ held' = held \cup {f}
         /\ UNCHANGED <<state.unit, state.boundTex, state.boundRb, state.boundFb, state.tex,
                        state.rb, state.param, state.error, state.needGet>>
         /\ state'.fb = [state.fb EXCEPT ![f] = NewFramebuffer]
  <1>1. [state.fb EXCEPT ![f] = NewFramebuffer] \in [Framebuffers -> {Absent} \cup FramebufferEntry]
    BY Parts, StateParts, NewOnes DEF TypesHeld
  <1> QED BY <1>1, Parts DEF GenFramebuffers, TypesHeld, States

LEMMA BindFramebufferIs ==
  ASSUME TypesHeld, NEW right \in BOOLEAN, NEW f \in Framebuffers \cup {None},
         BindFramebuffer(right, f)
  PROVE  /\ state' \in States /\ driver' \in DriverContexts /\ UNCHANGED <<held, cast>>
         /\ owed' \in BOOLEAN /\ (owed => owed')
         /\ UNCHANGED <<state.unit, state.boundTex, state.boundRb, state.tex, state.rb,
                        state.fb, state.param, state.needGet>>
         /\ state'.boundFb = f
         /\ "names" \in Manners => f = None \/ f \in held
         /\ \/ /\ state'.error = state.error /\ UNCHANGED owed
               /\ UNCHANGED <<driver.unit, driver.boundTex, driver.boundRb, driver.tex,
                              driver.rb, driver.param, driver.error>>
               /\ driver'.boundFb = f /\ driver'.fb = WithEntry(driver.fb, f, Unattached)
            \/ /\ "names" \notin Manners
               /\ OnlyDriverErrs
  <1> DEFINE b == state.error \/ ~right
             s == [state EXCEPT !.boundFb = f, !.error = b]
             fb == WithEntry(driver.fb, f, Unattached)
  <1>1. b \in BOOLEAN /\ (right => (b <=> state.error))
    OBVIOUS
  <1>2. fb \in [Framebuffers -> {Absent} \cup Attachments]
    BY Parts, DriverParts, NewOnes, WithEntryIs DEF TypesHeld
  <1>3. /\ "names" \in Manners => right /\ (f = None \/ f \in held)
        /\ IF right
           THEN state' = s /\ driver' = [driver EXCEPT !.boundFb = f, !.fb = fb]
                /\ UNCHANGED <<held, cast, owed>>
           ELSE Rejected(s)
    <2>1. [driver EXCEPT !.boundFb = f, !.fb = fb]
            = [driver EXCEPT !.boundFb = f, !.fb = WithEntry(@, f, Unattached)]
      BY Parts DEF TypesHeld, DriverContexts
    <2> QED BY <2>1 DEF BindFramebuffer
  <1>4. owed \in BOOLEAN /\ state.error \in BOOLEAN
    BY Parts, StateParts DEF TypesHeld, TypeOK
  <1> HIDE DEF b, fb
  <1>5. s \in States /\ s.error = b /\ s.unit = state.unit
                                       /\ s.boundTex = state.boundTex
                                       /\ s.boundRb = state.boundRb /\ s.tex = state.tex
                                       /\ s.rb = state.rb /\ s.fb = state.fb
                                       /\ s.param = state.param
                                       /\ s.needGet = state.needGet /\ s.boundFb = f
    BY <1>1, Parts DEF TypesHeld, States
  <1> HIDE DEF s
  <1>6. CASE right
    <2>1. driver' = [driver EXCEPT !.boundFb = f, !.fb = fb] /\ UNCHANGED <<held, cast, owed>>
          /\ state' = s
      BY <1>3, <1>6
    <2>2. driver' \in DriverContexts
      BY <1>2, <2>1, Parts DEF TypesHeld, DriverContexts
    <2>3. s.error = state.error
      BY <1>1, <1>4, <1>5, <1>6
    <2> QED BY <1>3, <1>4, <1>5, <2>1, <2>2, <2>3 DEF fb
  <1>7. CASE ~right
    <2>1. Rejected(s) /\ "names" \notin Manners
      BY <1>3, <1>7
    <2> QED BY <1>5, <2>1, RejectedIs
  <1> QED BY <1>6, <1>7

LEMMA DeleteFramebuffersIs ==
  ASSUME TypesHeld, NEW f \in Framebuffers, DeleteFramebuffers(f)
  PROVE  /\ state' \in States /\ driver' \in DriverContexts /\ UNCHANGED <<cast, owed>>
         /\ held' = held \ {f}
         /\ UNCHANGED <<state.unit, state.boundTex, state.boundRb, state.tex, state.fb,
                        state.param, state.error, state.needGet>>
         /\ state'.boundFb = Unless(state.boundFb, f)
         /\ \A r \in Renderbuffers : state'.rb[r] = Absent <=> state.rb[r] = Absent
         /\ UNCHANGED <<driver.unit, driver.boundTex, driver.boundRb, driver.tex, driver.rb,
                        driver.param, driver.error>>
         /\ driver'.fb = [driver.fb EXCEPT ![f] = Absent]
         /\ driver'.boundFb = Released(driver.boundFb, f)
  <1> DEFINE g == state.fb[f]
             rb == [r \in Renderbuffers |->
                      IF r = g.stencil /\ r # g.color /\ state.rb[r] # Absent THEN None
                      ELSE state.rb[r]]
             fb == [driver.fb EXCEPT ![f] = Absent]
  <1>1. /\ rb \in [Renderbuffers -> Framebuffers \cup {None, Absent}]
        /\ \A r \in Renderbuffers : rb[r] = Absent <=> state.rb[r] = Absent
    BY Parts, StateParts, NamesApart DEF TypesHeld
  <1>2. fb \in [Framebuffers -> {Absent} \cup Attachments]
    BY Parts, DriverParts DEF TypesHeld
  <1>3. Unless(state.boundFb, f) \in Framebuffers \cup {None}
    BY Parts, StateParts DEF TypesHeld, Unless
  <1>4. Released(driver.boundFb, f) \in Framebuffers \cup {None}
    BY Parts, DriverParts DEF TypesHeld, Released
  <1>5. /\ state' = [state EXCEPT !.rb = rb, !.boundFb = Unless(state.boundFb, f)]
        /\ driver' = [driver EXCEPT !.fb = fb, !.boundFb = Released(driver.boundFb, f)]
        /\ UNCHANGED <<cast, owed>> /\ held' = held \ {f}
    BY Parts DEF DeleteFramebuffers, TypesHeld, States, DriverContexts
  <1> HIDE DEF rb, fb
  <1>6. /\ state' \in States /\ state'.rb = rb
        /\ UNCHANGED <<state.unit, state.boundTex, state.boundRb, state.tex, state.fb,
                       state.param, state.error, state.needGet>>
        /\ state'.boundFb = Unless(state.boundFb, f)
    BY <1>1, <1>3, <1>5, Parts DEF TypesHeld, States
  <1>7. driver' \in DriverContexts
    BY <1>2, <1>4, <1>5, Parts DEF TypesHeld, DriverContexts
  <1> QED BY <1>1, <1>5, <1>6, <1>7 DEF fb

LEMMA CheckFramebufferStatusIs ==
  ASSUME TypesHeld, CheckFramebufferStatus
  PROVE  /\ state' \in States /\ UNCHANGED <<driver, held, cast, owed>>
         /\ UNCHANGED <<state.unit, state.boundTex, state.boundRb, state.boundFb, state.tex,
                        state.rb, state.param, state.error, state.needGet>>
         /\ \A f \in Framebuffers :
              /\ state'.fb[f] = Absent <=> state.fb[f] = Absent
              /\ f # state.boundFb => state'.fb[f] = state.fb[f]
              /\ f = state.boundFb => state'.fb[f].complete =
                   IF driver.boundFb = None \/ DriverComplete(driver.boundFb)
                   THEN "complete" ELSE "incomplete"
  <1> DEFINE f == state.boundFb
             v == IF driver.boundFb = None \/ DriverComplete(driver.boundFb)
                  THEN "complete" ELSE "incomplete"
             e == [state.fb[f] EXCEPT !.complete = v]
             fb == [state.fb EXCEPT ![f] = e]
  <1>1. f \in Framebuffers /\ state.fb[f] \in FramebufferEntry /\ state.fb[f] # Absent
    BY Parts, StateParts DEF CheckFramebufferStatus, Cached, TypesHeld
  <1>2. v \in Statuses
    BY DEF Statuses
  <1>3. state' = [state EXCEPT !.fb = fb] /\ UNCHANGED <<driver, held, cast, owed>>
    BY DEF CheckFramebufferStatus
  <1> HIDE DEF v
  <1>4. e \in FramebufferEntry /\ e.complete = v /\ e # Absent
    <2>1. e \in FramebufferEntry /\ e.complete = v
      BY <1>1, <1>2 DEF FramebufferEntry
    <2> QED BY <2>1, NamesAssumption
  <1> HIDE DEF e
  <1>5. fb \in [Framebuffers -> {Absent} \cup FramebufferEntry]
        /\ fb[f] = e /\ \A x \in Framebuffers : x # f => fb[x] = state.fb[x]
    BY <1>1, <1>4, Parts, StateParts DEF TypesHeld
  <1> HIDE DEF fb
  <1>6. /\ state' \in States /\ state'.fb = fb
        /\ UNCHANGED <<state.unit, state.boundTex, state.boundRb, state.boundFb, state.tex,
                       state.rb, state.param, state.error, state.needGet>>
    BY <1>3, <1>5, Parts DEF TypesHeld, States
  <1> QED BY <1>1, <1>3, <1>4, <1>5, <1>6 DEF v

LEMMA DrawIs ==
  ASSUME TypesHeld, Draw
  PROVE  /\ state' \in States /\ driver' \in DriverContexts /\ UNCHANGED <<held, cast>>
         /\ owed' \in BOOLEAN /\ (owed => owed')
         /\ UNCHANGED <<state.unit, state.boundTex, state.boundRb, state.boundFb, state.tex,
                        state.rb, state.fb, state.param, state.needGet>>
         /\ UNCHANGED <<driver.unit, driver.boundTex, driver.boundRb, driver.boundFb,
                        driver.tex, driver.rb, driver.fb, driver.param>>
         /\ "asks" \in Manners => Asked
         /\ \/ /\ Refused /\ driver'.error = driver.error /\ state'.error
               /\ ~(driver.boundFb = None \/ DriverComplete(driver.boundFb)) => owed'
            \/ UNCHANGED <<state, driver, owed>>
            \/ /\ ~Refused /\ ~(driver.boundFb = None \/ DriverComplete(driver.boundFb))
               /\ state'.error = state.error
  <1> DEFINE drawn == driver.boundFb = None \/ DriverComplete(driver.boundFb)
  <1>1. /\ "asks" \in Manners => Asked
        /\ IF Refused THEN Refuse(~drawn)
           ELSE IF drawn THEN UNCHANGED vars
           ELSE Rejected(state)
    BY DEF Draw
  <1>2. owed \in BOOLEAN /\ (~drawn) \in BOOLEAN
    BY DEF TypesHeld, TypeOK
  <1>3. /\ driver = [driver EXCEPT !.error = driver.error] /\ driver \in DriverContexts
        /\ state = [state EXCEPT !.error = state.error] /\ state \in States
    BY Parts DEF TypesHeld, States, DriverContexts
  <1> HIDE DEF drawn
  <1>4. CASE Refused
    <2>1. /\ state' \in States /\ UNCHANGED <<driver, held, cast>> /\ owed' \in BOOLEAN
          /\ OnlyClientErrs
          /\ owed \/ ~drawn => owed'
      BY <1>1, <1>2, <1>4, RefuseIs
    <2>2. UNCHANGED <<state.unit, state.boundTex, state.boundRb, state.boundFb,
                      /\ state.tex, state.rb, state.fb, state.param, state.needGet>>
                      /\ state'.error
      BY <2>1, <1>3 DEF OnlyClientErrs, States
    <2> QED BY <1>1, <1>3, <1>4, <2>1, <2>2 DEF drawn
  <1>5. CASE ~Refused /\ drawn
    BY <1>1, <1>2, <1>3, <1>5 DEF vars
  <1>6. CASE ~Refused /\ ~drawn
    <2>1. /\ state' = state /\ driver' \in DriverContexts /\ UNCHANGED <<held, cast>> /\ owed'
          /\ OnlyDriverErrs /\ owed' \in BOOLEAN
      BY <1>1, <1>3, <1>6, RejectedIs
    <2>2. UNCHANGED <<driver.unit, driver.boundTex, driver.boundRb, driver.boundFb,
                      driver.tex, driver.rb, driver.fb, driver.param>>
      BY <1>3, <2>1 DEF DriverContexts, OnlyDriverErrs
    <2> QED BY <1>1, <1>3, <1>6, <2>1, <2>2 DEF drawn
  <1> QED BY <1>4, <1>5, <1>6

LEMMA GetErrorIs ==
  ASSUME TypesHeld, GetError
  PROVE  /\ state' \in States /\ driver' \in DriverContexts /\ UNCHANGED <<held, cast>>
         /\ owed' = FALSE
         /\ UNCHANGED <<state.unit, state.boundTex, state.boundRb, state.boundFb, state.tex,
                        state.rb, state.fb, state.param>>
         /\ state'.error = FALSE /\ state'.needGet = FALSE
         /\ UNCHANGED <<driver.unit, driver.boundTex, driver.boundRb, driver.boundFb,
                        driver.tex, driver.rb, driver.fb, driver.param>>
         /\ state.needGet => ~driver'.error
         /\ driver'.error => driver.error
  <1> DEFINE b == driver.error /\ ~state.needGet
  <1>1. b \in BOOLEAN /\ (state.needGet => ~b) /\ (b => driver.error)
    OBVIOUS
  <1>2. /\ state' = [state EXCEPT !.error = FALSE, !.needGet = FALSE]
        /\ UNCHANGED <<held, cast>> /\ owed' = FALSE
        /\ driver' = [driver EXCEPT !.error = b]
    <2>1. driver' = [driver EXCEPT !.error = driver.error /\ ~state.needGet]
      BY DEF GetError
    <2> QED BY <2>1 DEF GetError
  <1> HIDE DEF b
  <1>3. state' \in States
    BY <1>2, Parts DEF TypesHeld, States
  <1>4. driver' \in DriverContexts /\ driver'.error = b
        /\ UNCHANGED <<driver.unit, driver.boundTex, driver.boundRb, driver.boundFb,
                       driver.tex, driver.rb, driver.fb, driver.param>>
    BY <1>1, <1>2, Parts DEF TypesHeld, DriverContexts
  <1> QED BY <1>1, <1>2, <1>3, <1>4

-----------------------------------------------------------------------------
(* Types.                                                                  *)

LEMMA TypesInit == Init => TypesHeld
  <1> SUFFICES ASSUME Init PROVE TypesHeld
    OBVIOUS
  <1>1. state \in States
    BY NamesAssumption DEF Init, States, Params, DefaultParam
  <1>2. driver \in DriverContexts
    BY NamesAssumption DEF Init, DriverContexts, Params
  <1>3. held = {} /\ owed = FALSE
    BY DEF Init
  <1>4. ObjectsBound
    BY DEF Init, ObjectsBound
  <1> QED BY <1>1, <1>2, <1>3, <1>4 DEF TypesHeld, TypeOK, EntriesHeld

LEMMA TypesStep ==
  ASSUME TypesHeld, [Next]_vars
  PROVE  TypesHeld'
  <1> USE DEF TypesHeld
  <1>0. /\ state \in States /\ driver \in DriverContexts /\ Texture \in Textures \cup {None}
        /\ held \subseteq cast /\ owed \in BOOLEAN /\ EntriesHeld /\ ObjectsBound
        /\ state.boundFb \in Framebuffers \cup {None}
        /\ driver.boundFb \in Framebuffers \cup {None}
        /\ state.boundTex \in Textures \cup {None}
        /\ \A u \in Units : driver.boundTex[u] \in Textures \cup {None}
    <2>1. state \in States /\ driver \in DriverContexts
      BY Parts
    <2>2. \A u \in Units : driver.boundTex[u] \in Textures \cup {None}
      BY <2>1, DriverParts
    <2>3. /\ state.boundFb \in Framebuffers \cup {None}
          /\ driver.boundFb \in Framebuffers \cup {None}
          /\ state.boundTex \in Textures \cup {None}
      BY <2>1, StateParts, DriverParts
    <2> QED BY <2>1, <2>2, <2>3, Parts DEF TypeOK
  <1>1. ASSUME NEW u \in Units, ActiveTexture(u) PROVE TypesHeld'
    <2>1. EntriesHeld' /\ ObjectsBound'
      BY <1>0, <1>1, ActiveTextureIs DEF EntriesHeld, ObjectsBound
    <2> QED BY <1>0, <1>1, <2>1, ActiveTextureIs DEF TypeOK
  <1>2. ASSUME NEW v \in Params, TexParameter(v) PROVE TypesHeld'
    <2>1. state'.rb = state.rb /\ driver'.boundTex = driver.boundTex
          /\ driver'.boundFb = driver.boundFb /\ driver'.fb = driver.fb
      BY <1>0, <1>2, TexParameterIs
    <2>2. EntriesHeld' /\ ObjectsBound'
      BY <1>0, <1>2, <2>1, TexParameterIs DEF EntriesHeld, ObjectsBound
    <2> QED BY <1>0, <1>2, <2>2, TexParameterIs DEF TypeOK
  <1>3. ASSUME NEW t \in Textures \cap cast, GenTextures(t) PROVE TypesHeld'
    <2>0. PICK v \in LeftBy : state'.tex = [state.tex EXCEPT ![t] = NewTexture(v)]
      BY <1>3, GenTexturesIs
    <2>1. /\ state'.rb = state.rb
          /\ held' = held \cup {t} /\ UNCHANGED <<driver, cast, owed>> /\ state' \in States
      BY <1>3, GenTexturesIs
    <2>2. EntriesHeld'
      BY <1>0, <2>0, <2>1, StateParts, NewOnes, NamesApart DEF EntriesHeld
    <2>3. ObjectsBound'
      BY <1>0, <2>1 DEF ObjectsBound
    <2> QED BY <1>0, <2>1, <2>2, <2>3 DEF TypeOK
  <1>4. ASSUME NEW t \in Textures \cap cast, DeleteTextures(t) PROVE TypesHeld'
    <2>1. /\ state'.rb = state.rb /\ driver'.boundFb = driver.boundFb
          /\ driver'.boundTex = [u \in Units |-> Released(driver.boundTex[u], t)]
          /\ driver'.tex = [driver.tex EXCEPT ![t] = Absent]
          /\ driver'.fb = WithoutName(t, driver.boundFb)
          /\ state'.tex = [state.tex EXCEPT ![t] = Absent]
          /\ held' = held \ {t}
      BY <1>0, <1>4, DeleteTexturesIs
    <2>2. EntriesHeld'
      BY <1>0, <2>1, StateParts DEF EntriesHeld
    <2>3. ObjectsBound'
      <3>1. driver.boundFb # None => WithoutName(t, driver.boundFb)[driver.boundFb] # Absent
        BY <1>0, WithoutNameIs DEF ObjectsBound
      <3>2. \A x \in Textures : x # t => driver'.tex[x] = driver.tex[x]
        BY <1>0, <2>1, DriverParts
      <3>3. \A u \in Units : driver'.boundTex[u] = IF driver.boundTex[u] = t THEN None
                                                   ELSE driver.boundTex[u]
        BY <2>1 DEF Released
      <3> QED BY <1>0, <2>1, <3>1, <3>2, <3>3 DEF ObjectsBound
    <2> QED BY <1>0, <1>4, <2>2, <2>3, DeleteTexturesIs DEF TypeOK
  <1>5. ASSUME NEW r \in Renderbuffers \cap cast, GenRenderbuffers(r) PROVE TypesHeld'
    <2>1. /\ state'.rb = [state.rb EXCEPT ![r] = None] /\ state'.tex = state.tex
          /\ held' = held \cup {r} /\ UNCHANGED <<driver, cast, owed>> /\ state' \in States
      BY <1>5, GenRenderbuffersIs
    <2>2. EntriesHeld'
      BY <1>0, <2>1, StateParts, NewOnes, NamesApart DEF EntriesHeld
    <2>3. ObjectsBound'
      BY <1>0, <2>1 DEF ObjectsBound
    <2> QED BY <1>0, <2>1, <2>2, <2>3 DEF TypeOK
  <1>6. ASSUME NEW r \in Renderbuffers \cap cast, DeleteRenderbuffers(r) PROVE TypesHeld'
    <2>1. /\ state'.rb = state.rb /\ state'.tex = state.tex
          /\ driver'.boundFb = driver.boundFb
          /\ driver'.boundTex = driver.boundTex /\ driver'.tex = driver.tex
          /\ driver'.fb = WithoutName(r, None) /\ held' = held \ {r}
      BY <1>0, <1>6, DeleteRenderbuffersIs
    <2>2. EntriesHeld'
      BY <1>0, <2>1 DEF EntriesHeld
    <2>3. ObjectsBound'
      <3>1. driver.boundFb # None => WithoutName(r, None)[driver.boundFb] # Absent
        BY <1>0, WithoutNameIs DEF ObjectsBound
      <3> QED BY <1>0, <2>1, <3>1 DEF ObjectsBound
    <2> QED BY <1>0, <1>6, <2>2, <2>3, DeleteRenderbuffersIs DEF TypeOK
  <1>7. ASSUME NEW f \in Framebuffers \cap cast, GenFramebuffers(f) PROVE TypesHeld'
    <2>1. /\ state'.fb = [state.fb EXCEPT ![f] = NewFramebuffer]
          /\ state'.tex = state.tex
          /\ state'.rb = state.rb
          /\ held' = held \cup {f} /\ UNCHANGED <<driver, cast, owed>> /\ state' \in States
      BY <1>7, GenFramebuffersIs
    <2>2. EntriesHeld'
      BY <1>0, <2>1, StateParts, NewOnes, NamesApart DEF EntriesHeld
    <2>3. ObjectsBound'
      BY <1>0, <2>1 DEF ObjectsBound
    <2> QED BY <1>0, <2>1, <2>2, <2>3 DEF TypeOK
  <1>8. ASSUME NEW f \in Framebuffers \cap cast, DeleteFramebuffers(f) PROVE TypesHeld'
    <2>1. /\ state'.tex = state.tex /\ held' = held \ {f}
          /\ driver'.boundTex = driver.boundTex /\ driver'.tex = driver.tex
          /\ driver'.fb = [driver.fb EXCEPT ![f] = Absent]
          /\ driver'.boundFb = Released(driver.boundFb, f)
      BY <1>0, <1>8, DeleteFramebuffersIs
    <2>2. EntriesHeld'
      BY <1>0, <1>8, <2>1, DeleteFramebuffersIs DEF EntriesHeld
    <2>3. ObjectsBound'
      BY <1>0, <2>1, DriverParts DEF ObjectsBound, Released
    <2> QED BY <1>0, <1>8, <2>2, <2>3, DeleteFramebuffersIs DEF TypeOK
  <1>9. ASSUME NEW t \in (Textures \cap cast) \cup {None}, BindTexture(t) PROVE TypesHeld'
    <2>0. PICK v \in LeftBy : state'.tex = WithEntry(state.tex, t, NewTexture(v))
      BY <1>9, BindTextureIs
    <2>1. /\ state'.rb = state.rb /\ held' = held \cup ({t} \ {None})
          /\ driver'.boundTex = [driver.boundTex EXCEPT ![driver.unit] = t]
          /\ driver'.tex = WithEntry(driver.tex, t, DriverTexture)
          /\ driver'.boundFb = driver.boundFb /\ driver'.fb = driver.fb
          /\ state' \in States /\ driver' \in DriverContexts /\ UNCHANGED <<cast, owed>>
      BY <1>9, BindTextureIs
    <2>2. EntriesHeld'
      <3>1. \A x \in Textures : state.tex[x] # Absent \/ x = t => state'.tex[x] # Absent
        BY <1>0, <2>0, NewOnes, WithStateEntry
      <3> QED BY <1>0, <2>1, <3>1, NamesApart DEF EntriesHeld
    <2>3. ObjectsBound'
      <3>1. \A x \in Textures : driver.tex[x] # Absent \/ x = t => driver'.tex[x] # Absent
        BY <1>0, <2>1, NewOnes, WithDriverEntry
      <3>2. \A u \in Units : driver'.boundTex[u] \in {t, driver.boundTex[u]}
        BY <1>0, <2>1, DriverParts
      <3> QED BY <1>0, <2>1, <3>1, <3>2 DEF ObjectsBound
    <2> QED BY <1>0, <2>1, <2>2, <2>3 DEF TypeOK
  <1>10. ASSUME NEW t \in (Textures \cap cast) \cup {None}, FramebufferTexture2D(t)
         PROVE  TypesHeld'
    <2>1. /\ state'.rb = state.rb /\ driver'.boundTex = driver.boundTex
          /\ driver'.tex = driver.tex /\ driver'.boundFb = driver.boundFb
          /\ driver'.fb = driver.fb \/ Attached("color", t)
      BY <1>0, <1>10, FramebufferTexture2DIs DEF Attached, OnlyDriverErrs
    <2>2. EntriesHeld'
      BY <1>0, <1>10, <2>1, FramebufferTexture2DIs DEF EntriesHeld
    <2>3. ObjectsBound'
      BY <1>0, <2>1, DriverParts DEF ObjectsBound, Attached
    <2> QED BY <1>0, <1>10, <2>2, <2>3, FramebufferTexture2DIs DEF TypeOK
  <1>11. ASSUME NEW r \in (Renderbuffers \cap cast) \cup {None}, NEW right \in BOOLEAN,
                BindRenderbuffer(right, r)
         PROVE  TypesHeld'
    <2>1. /\ state'.rb = state.rb
          /\ state'.tex = state.tex
          /\ driver'.boundTex = driver.boundTex
          /\ driver'.tex = driver.tex /\ driver'.boundFb = driver.boundFb
          /\ driver'.fb = driver.fb
      BY <1>11, BindRenderbufferIs DEF OnlyDriverErrs
    <2>2. /\ state' \in States /\ driver' \in DriverContexts /\ UNCHANGED <<held, cast>>
          /\ owed' \in BOOLEAN
      BY <1>11, BindRenderbufferIs
    <2> QED BY <1>0, <2>1, <2>2 DEF TypeOK, EntriesHeld, ObjectsBound
  <1>12. ASSUME NEW r \in (Renderbuffers \cap cast) \cup {None}, NEW p \in Points,
                FramebufferRenderbuffer(p, r)
         PROVE  TypesHeld'
    <2>1. /\ state'.tex = state.tex /\ driver'.boundTex = driver.boundTex
          /\ driver'.tex = driver.tex /\ driver'.boundFb = driver.boundFb
          /\ driver'.fb = driver.fb \/ Attached(p, r)
      BY <1>0, <1>12, FramebufferRenderbufferIs DEF Attached, OnlyDriverErrs
    <2>2. EntriesHeld'
      BY <1>0, <1>12, <2>1, FramebufferRenderbufferIs DEF EntriesHeld
    <2>3. ObjectsBound'
      BY <1>0, <2>1, DriverParts DEF ObjectsBound, Attached
    <2> QED BY <1>0, <1>12, <2>2, <2>3, FramebufferRenderbufferIs DEF TypeOK
  <1>13. ASSUME NEW f \in (Framebuffers \cap cast) \cup {None}, NEW right \in BOOLEAN,
                BindFramebuffer(right, f)
         PROVE  TypesHeld'
    <2>1. /\ state'.rb = state.rb
          /\ state'.tex = state.tex
          /\ driver'.boundTex = driver.boundTex
          /\ driver'.tex = driver.tex
          /\ \/ driver'.boundFb = driver.boundFb /\ driver'.fb = driver.fb
             \/ driver'.boundFb = f /\ driver'.fb = WithEntry(driver.fb, f, Unattached)
      BY <1>0, <1>13, BindFramebufferIs DEF OnlyDriverErrs
    <2>2. ObjectsBound'
      <3>1. f # None => WithEntry(driver.fb, f, Unattached)[f] # Absent
        <4>1. driver.fb \in [Framebuffers -> {Absent} \cup Attachments]
          BY <1>0, DriverParts
        <4> QED BY <1>13, <4>1, NewOnes DEF WithEntry
      <3> QED BY <1>0, <2>1, <3>1 DEF ObjectsBound
    <2> QED BY <1>0, <1>13, <2>1, <2>2, BindFramebufferIs DEF OnlyDriverErrs, TypeOK, EntriesHeld
  <1>14. ASSUME NEW level \in Levels, NEW size \in Sizes, TexImage(level, size) PROVE TypesHeld'
    <2>1. /\ state'.rb = state.rb /\ driver'.boundTex = driver.boundTex
          /\ driver'.boundFb = driver.boundFb /\ driver'.fb = driver.fb
      BY <1>0, <1>14, TexImageIs
    <2>2. EntriesHeld'
      BY <1>0, <1>14, <2>1, TexImageIs DEF EntriesHeld
    <2>3. ObjectsBound'
      BY <1>0, <1>14, <2>1, TexImageIs DEF ObjectsBound, ImagesOnly
    <2> QED BY <1>0, <1>14, <2>2, <2>3, TexImageIs DEF TypeOK
  <1>15. ASSUME NEW level \in Levels, NEW size \in Sizes, NEW flag \in BOOLEAN,
                CopyTexImage(level, size, flag)
         PROVE  TypesHeld'
    <2>1. /\ state'.rb = state.rb /\ state'.tex = state.tex
          /\ driver'.boundTex = driver.boundTex
          /\ driver'.boundFb = driver.boundFb /\ driver'.fb = driver.fb
          /\ ImagesOnly /\ state' \in States /\ driver' \in DriverContexts
          /\ UNCHANGED <<held, cast>> /\ owed' \in {owed, TRUE}
      BY <1>0, <1>15, CopyTexImageIs
    <2>2. EntriesHeld'
      BY <1>0, <2>1 DEF EntriesHeld
    <2>3. ObjectsBound'
      BY <1>0, <2>1 DEF ObjectsBound, ImagesOnly
    <2> QED BY <1>0, <2>1, <2>2, <2>3 DEF TypeOK
  <1>16. ASSUME NEW level \in Levels, NEW size \in Sizes, NEW flag \in BOOLEAN,
                TexSubImage(level, size, flag)
         PROVE  TypesHeld'
    <2>1. /\ state'.rb = state.rb /\ state'.tex = state.tex
          /\ driver'.boundTex = driver.boundTex /\ driver'.tex = driver.tex
          /\ driver'.boundFb = driver.boundFb /\ driver'.fb = driver.fb
      BY <1>0, <1>16, TexSubImageIs
    <2> QED BY <1>0, <1>16, <2>1, TexSubImageIs DEF TypeOK, EntriesHeld, ObjectsBound
  <1>17. ASSUME NEW flag \in BOOLEAN, RenderbufferStorage(flag) PROVE TypesHeld'
    <2>1. /\ state'.rb = state.rb /\ state'.tex = state.tex
          /\ driver'.boundTex = driver.boundTex /\ driver'.tex = driver.tex
          /\ driver'.boundFb = driver.boundFb /\ driver'.fb = driver.fb
      BY <1>0, <1>17, RenderbufferStorageIs
    <2>2. /\ state' \in States /\ driver' \in DriverContexts /\ UNCHANGED <<held, cast>>
          /\ owed' \in BOOLEAN
      BY <1>17, RenderbufferStorageIs
    <2> QED BY <1>0, <2>1, <2>2 DEF TypeOK, EntriesHeld, ObjectsBound
  <1>18. CASE CheckFramebufferStatus
    BY <1>0, <1>18, CheckFramebufferStatusIs DEF TypeOK, EntriesHeld, ObjectsBound
  <1>19. CASE Draw
    <2>1. /\ state'.rb = state.rb /\ state'.tex = state.tex
          /\ driver'.boundTex = driver.boundTex /\ driver'.tex = driver.tex
          /\ driver'.boundFb = driver.boundFb /\ driver'.fb = driver.fb
      BY <1>0, <1>19, DrawIs
    <2> QED BY <1>0, <1>19, <2>1, DrawIs DEF TypeOK, EntriesHeld, ObjectsBound
  <1>20. CASE GetError
    <2>1. /\ state'.rb = state.rb /\ state'.tex = state.tex
          /\ driver'.boundTex = driver.boundTex /\ driver'.tex = driver.tex
          /\ driver'.boundFb = driver.boundFb /\ driver'.fb = driver.fb
      BY <1>0, <1>20, GetErrorIs
    <2> QED BY <1>0, <1>20, <2>1, GetErrorIs DEF TypeOK, EntriesHeld, ObjectsBound
  <1>21. CASE UNCHANGED vars
    BY <1>21 DEF TypeOK, EntriesHeld, ObjectsBound, vars
  <1> QED BY KindOfStep, <1>1, <1>2, <1>3, <1>4, <1>5, <1>6, <1>7, <1>8, <1>9, <1>10, <1>11,
             <1>12, <1>13, <1>14, <1>15, <1>16, <1>17, <1>18, <1>19, <1>20, <1>21

(* Type correctness: no call, whatever the application does, leaves what   *)
(* the records have no room for.                                           *)
THEOREM TypeCorrect == Spec => []TypeOK
  <1>1. TypesHeld /\ [Next]_vars => TypesHeld'
    BY TypesStep
  <1>2. TypesHeld => TypeOK
    BY DEF TypesHeld
  <1> QED BY TypesInit, <1>1, <1>2, PTL DEF Spec

-----------------------------------------------------------------------------
(* Which calls leave the bindings, and which the textures, as they are.    *)

SameBindings ==
  /\ state'.boundTex = state.boundTex /\ state'.boundRb = state.boundRb
  /\ state'.boundFb = state.boundFb
  /\ driver'.unit = driver.unit /\ driver'.boundTex = driver.boundTex
  /\ driver'.boundRb = driver.boundRb /\ driver'.boundFb = driver.boundFb

SameTextures ==
  /\ state'.param = state.param /\ driver'.param = driver.param /\ driver'.tex = driver.tex
  /\ \A t \in Textures :
       /\ t \in held' <=> t \in held
       /\ state'.tex[t] = Absent <=> state.tex[t] = Absent
       /\ state.tex[t] # Absent => /\ state'.tex[t].size = state.tex[t].size
                                   /\ state'.tex[t].param = state.tex[t].param

LEMMA Frames ==
  ASSUME TypesHeld, [Next]_vars
  PROVE  /\ \/ SameBindings
            \/ \E u \in Units : ActiveTexture(u)
            \/ \E t \in Textures : DeleteTextures(t)
            \/ \E t \in Textures \cup {None} : BindTexture(t)
            \/ \E r \in Renderbuffers : DeleteRenderbuffers(r)
            \/ \E r \in Renderbuffers \cup {None}, right \in BOOLEAN : BindRenderbuffer(right, r)
            \/ \E f \in Framebuffers : DeleteFramebuffers(f)
            \/ \E f \in Framebuffers \cup {None}, right \in BOOLEAN : BindFramebuffer(right, f)
         /\ \/ SameTextures
            \/ \E v \in Params : TexParameter(v)
            \/ \E t \in Textures : GenTextures(t) \/ DeleteTextures(t)
            \/ \E t \in Textures \cup {None} : BindTexture(t)
            \/ \E level \in Levels, size \in Sizes : TexImage(level, size)
            \/ \E level \in Levels, size \in Sizes, flag \in BOOLEAN :
                 CopyTexImage(level, size, flag)
  <1>0. state \in States /\ driver \in DriverContexts
    BY Parts DEF TypesHeld
  <1>1. ASSUME NEW u \in Units, ActiveTexture(u) PROVE SameTextures
    BY <1>0, <1>1, ActiveTextureIs DEF SameTextures
  <1>2. ASSUME NEW v \in Params, TexParameter(v) PROVE SameBindings
    BY <1>0, <1>2, TexParameterIs DEF SameBindings
  <1>3. ASSUME NEW t \in Textures, GenTextures(t) PROVE SameBindings
    BY <1>0, <1>3, GenTexturesIs DEF SameBindings
  <1>4. ASSUME NEW r \in Renderbuffers, GenRenderbuffers(r)
        PROVE  SameBindings /\ SameTextures
    BY <1>0, <1>4, GenRenderbuffersIs, NamesApart DEF SameBindings, SameTextures
  <1>5. ASSUME NEW r \in Renderbuffers, DeleteRenderbuffers(r) PROVE SameTextures
    <2>1. r \in held /\ held' = held \ {r}
      BY <1>5, DeleteRenderbuffersIs
    <2>2. UNCHANGED <<state.tex, state.param, driver.tex, driver.param>>
      BY <1>5, DeleteRenderbuffersIs
    <2>3. \A t \in Textures : t \in held' <=> t \in held
      BY <2>1, NamesApart
    <2> QED BY <2>2, <2>3 DEF SameTextures
  <1>6. ASSUME NEW f \in Framebuffers, GenFramebuffers(f) PROVE SameBindings /\ SameTextures
    BY <1>0, <1>6, GenFramebuffersIs, NamesApart DEF SameBindings, SameTextures
  <1>7. ASSUME NEW f \in Framebuffers, DeleteFramebuffers(f) PROVE SameTextures
    BY <1>0, <1>7, DeleteFramebuffersIs, NamesApart DEF SameTextures
  <1>8. ASSUME NEW t \in Textures \cup {None}, FramebufferTexture2D(t)
        PROVE  SameBindings /\ SameTextures
    <2>1. SameBindings
      BY <1>0, <1>8, FramebufferTexture2DIs DEF SameBindings, OnlyDriverErrs, Attached
    <2>2. state'.param = state.param /\ driver'.param = driver.param /\ driver'.tex = driver.tex
      BY <1>0, <1>8, FramebufferTexture2DIs DEF Attached, OnlyDriverErrs
    <2> QED BY <1>8, <2>1, <2>2, FramebufferTexture2DIs DEF SameTextures
  <1>9. ASSUME NEW r \in Renderbuffers \cup {None}, NEW right \in BOOLEAN,
               BindRenderbuffer(right, r)
        PROVE  SameTextures
    BY <1>0, <1>9, BindRenderbufferIs DEF OnlyDriverErrs, SameTextures
  <1>10. ASSUME NEW r \in Renderbuffers \cup {None}, NEW p \in Points,
                FramebufferRenderbuffer(p, r)
         PROVE  SameBindings /\ SameTextures
    BY <1>0, <1>10, FramebufferRenderbufferIs
       DEF OnlyDriverErrs, SameBindings, SameTextures, Attached
  <1>11. ASSUME NEW f \in Framebuffers \cup {None}, NEW right \in BOOLEAN,
                BindFramebuffer(right, f)
         PROVE  SameTextures
    BY <1>0, <1>11, BindFramebufferIs DEF OnlyDriverErrs, SameTextures
  <1>12. ASSUME NEW level \in Levels, NEW size \in Sizes, TexImage(level, size) PROVE SameBindings
    BY <1>0, <1>12, TexImageIs DEF SameBindings
  <1>13. ASSUME NEW level \in Levels, NEW size \in Sizes, NEW flag \in BOOLEAN,
                CopyTexImage(level, size, flag)
         PROVE  SameBindings
    BY <1>0, <1>13, CopyTexImageIs DEF SameBindings
  <1>14. ASSUME NEW level \in Levels, NEW size \in Sizes, NEW flag \in BOOLEAN,
                TexSubImage(level, size, flag)
         PROVE  SameBindings /\ SameTextures
    BY <1>0, <1>14, TexSubImageIs DEF SameBindings, SameTextures
  <1>15. ASSUME NEW flag \in BOOLEAN, RenderbufferStorage(flag)
         PROVE  SameBindings /\ SameTextures
    BY <1>0, <1>15, RenderbufferStorageIs DEF SameBindings, SameTextures
  <1>16. ASSUME CheckFramebufferStatus PROVE SameBindings /\ SameTextures
    BY <1>0, <1>16, CheckFramebufferStatusIs DEF SameBindings, SameTextures
  <1>17. ASSUME Draw PROVE SameBindings /\ SameTextures
    BY <1>0, <1>17, DrawIs DEF SameBindings, SameTextures
  <1>18. ASSUME GetError PROVE SameBindings /\ SameTextures
    BY <1>0, <1>18, GetErrorIs DEF SameBindings, SameTextures
  <1>19. ASSUME UNCHANGED vars PROVE SameBindings /\ SameTextures
    BY <1>19 DEF SameBindings, SameTextures, vars
  <1> QED BY KindOfStep, <1>1, <1>2, <1>3, <1>4, <1>5, <1>6, <1>7, <1>8, <1>9, <1>10, <1>11,
             <1>12, <1>13, <1>14, <1>15, <1>16, <1>17, <1>18, <1>19

-----------------------------------------------------------------------------
(* Bindings.                                                               *)

(* The texture binding agrees whatever the application does.               *)
Bound ==
  /\ state.boundTex \in {None, Texture}
  /\ "names" \in Manners => /\ state.boundRb \in {None, driver.boundRb}
                            /\ state.boundFb = driver.boundFb

LEMMA BoundStep ==
  ASSUME TypesHeld, Bound, [Next]_vars
  PROVE  Bound'
  <1>0. state \in States /\ driver \in DriverContexts
    BY Parts DEF TypesHeld
  <1>1. ASSUME SameBindings PROVE Bound'
    BY <1>1 DEF SameBindings, Bound, Texture
  <1>2. ASSUME NEW u \in Units, ActiveTexture(u) PROVE Bound'
    BY <1>0, <1>2, ActiveTextureIs DEF Bound
  <1>3. ASSUME NEW t \in Textures, DeleteTextures(t) PROVE Bound'
    <2>1. /\ state'.boundTex = Unless(state.boundTex, t)
          /\ driver'.boundTex = [u \in Units |-> Released(driver.boundTex[u], t)]
          /\ driver'.unit = driver.unit
          /\ state'.boundRb = state.boundRb /\ driver'.boundRb = driver.boundRb
          /\ state'.boundFb = state.boundFb /\ driver'.boundFb = driver.boundFb
      BY <1>3, DeleteTexturesIs
    <2>2. driver.unit \in Units
      BY <1>0, DriverParts
    <2> QED BY <2>1, <2>2 DEF Bound, Texture, Unless, Released
  <1>4. ASSUME NEW t \in Textures \cup {None}, BindTexture(t) PROVE Bound'
    <2>1. /\ state'.boundTex = t
          /\ driver'.boundTex = [driver.boundTex EXCEPT ![driver.unit] = t]
          /\ driver'.unit = driver.unit
          /\ state'.boundRb = state.boundRb /\ driver'.boundRb = driver.boundRb
          /\ state'.boundFb = state.boundFb /\ driver'.boundFb = driver.boundFb
      BY <1>4, BindTextureIs
    <2> QED BY <1>0, <2>1, DriverParts DEF Bound, Texture
  <1>5. ASSUME NEW r \in Renderbuffers, DeleteRenderbuffers(r) PROVE Bound'
    BY <1>0, <1>5, DeleteRenderbuffersIs, NamesApart
       DEF Bound, Texture, Unless
  <1>6. ASSUME NEW r \in Renderbuffers \cup {None}, NEW right \in BOOLEAN,
               BindRenderbuffer(right, r)
        PROVE  Bound'
    BY <1>0, <1>6, BindRenderbufferIs DEF OnlyDriverErrs, Bound, Texture
  <1>7. ASSUME NEW f \in Framebuffers, DeleteFramebuffers(f) PROVE Bound'
    BY <1>0, <1>7, DeleteFramebuffersIs DEF Bound, Texture, Unless, Released
  <1>8. ASSUME NEW f \in Framebuffers \cup {None}, NEW right \in BOOLEAN,
               BindFramebuffer(right, f)
        PROVE  Bound'
    BY <1>0, <1>8, BindFramebufferIs DEF OnlyDriverErrs, Bound, Texture
  <1> QED BY Frames, <1>1, <1>2, <1>3, <1>4, <1>5, <1>6, <1>7, <1>8

LEMMA BoundInit == Init => Bound
  BY DEF Init, Bound, Texture

(* What the client takes for bound is bound in the driver, for an          *)
(* application that uses names it got and right targets: a call that is    *)
(* skipped because its name is bound already would have changed nothing.   *)
THEOREM BindingsAreRight ==
  ASSUME "names" \in Manners
  PROVE  Spec => []BindingsAgree
  <1>1. Init => TypesHeld /\ Bound
    BY TypesInit, BoundInit
  <1>2. TypesHeld /\ Bound /\ [Next]_vars => (TypesHeld /\ Bound)'
    BY TypesStep, BoundStep
  <1>3. TypesHeld /\ Bound => BindingsAgree
    BY DEF Bound, BindingsAgree
  <1> QED BY <1>1, <1>2, <1>3, PTL DEF Spec

-----------------------------------------------------------------------------
(* Textures.                                                               *)

(* The driver has an object only for a name that the application holds;    *)
(* before it has one the record of the parameter is the initial one, and   *)
(* there is no image.  The size recorded is that of the one level there    *)
(* is, if the application has the manners for it.                          *)
ParameterKept(t) ==
  state.tex[t] # Absent =>
    state.tex[t].param = IF driver.tex[t] = Absent THEN "initial" ELSE driver.tex[t].param
SizeKept(t) ==
  state.tex[t] # Absent =>
    IF driver.tex[t] = Absent THEN state.tex[t].size = 0
    ELSE \A l \in Levels :
           driver.tex[t].image[l] = IF l = Level0 THEN state.tex[t].size ELSE 0
TextureKept(t) ==
  /\ driver.tex[t] # Absent => t \in held /\ state.tex[t] # Absent
  /\ "parameters" \in Manners => ParameterKept(t)
  /\ {"levels", "sizes"} \subseteq Manners => SizeKept(t)
TexturesKept ==
  /\ "parameters" \in Manners => state.param = driver.param
  /\ \A t \in Textures : TextureKept(t)

(* What a new texture is recorded as.                                      *)
LEMMA NewTextureIs ==
  ASSUME NEW v \in LeftBy
  PROVE  NewTexture(v).size = 0 /\ ("parameters" \in Manners => NewTexture(v).param = "initial")
  BY NamesAssumption DEF NewTexture, LeftBy

LEMMA DriverTextureIs ==
  DriverTexture.param = "initial" /\ \A l \in Levels : DriverTexture.image[l] = 0
  BY DEF DriverTexture

LEMMA TexturesStep ==
  ASSUME TypesHeld, Bound, TexturesKept, "rebinds" \in Manners, [Next]_vars
  PROVE  TexturesKept'
  <1>0. state \in States /\ driver \in DriverContexts
    BY Parts DEF TypesHeld
  <1>1. ASSUME SameTextures PROVE TexturesKept'
    BY <1>1 DEF SameTextures, TexturesKept, TextureKept, ParameterKept, SizeKept
  <1>2. ASSUME KnownTexture
        PROVE  /\ Texture = state.boundTex /\ Texture \in Textures
               /\ Cached(state.tex, Texture) /\ driver.tex[Texture] # Absent
    <2>1. Texture = state.boundTex /\ Texture \in Textures
      BY <1>2, Parts DEF KnownTexture, Bound, TypesHeld
    <2>2. driver.tex[Texture] # Absent
      BY <1>0, <2>1, DriverParts, NamesApart DEF TypesHeld, ObjectsBound, Texture
    <2> QED BY <2>1, <2>2, NamesApart DEF TexturesKept, TextureKept, Cached
  <1>3. ASSUME NEW v \in Params, TexParameter(v) PROVE TexturesKept'
    <2>1. KnownTexture
      BY <1>3 DEF TexParameter
    <2>2. state'.param = state.param /\ driver'.param = driver.param /\ held' = held
      BY <1>2, <1>3, <2>1, TexParameterIs, NamesApart
    <2>3. ASSUME NEW t \in Textures PROVE TextureKept(t)'
      <3>1. ParameterKept(t) => ParameterKept(t)'
        BY <1>2, <1>3, <2>1, TexParameterIs DEF ParameterKept
      <3>2. SizeKept(t) => SizeKept(t)'
        BY <1>3, TexParameterIs DEF SizeKept
      <3> QED BY <1>3, <2>2, <3>1, <3>2, TexParameterIs DEF TexturesKept, TextureKept
    <2> QED BY <2>2, <2>3 DEF TexturesKept
  <1>4. ASSUME NEW t \in Textures, GenTextures(t) PROVE TexturesKept'
    <2>0. PICK v \in LeftBy : state'.tex = [state.tex EXCEPT ![t] = NewTexture(v)]
      BY <1>0, <1>4, GenTexturesIs
    <2>1. /\ state'.param = state.param
          /\ driver' = driver /\ t \notin held /\ held' = held \cup {t}
      BY <1>0, <1>4, GenTexturesIs
    <2>2. driver.tex[t] = Absent
      BY <2>1 DEF TexturesKept, TextureKept
    <2>3. ASSUME NEW x \in Textures PROVE TextureKept(x)'
      <3>1. state'.tex[x] = IF x = t THEN NewTexture(v) ELSE state.tex[x]
        BY <1>0, <2>0, StateParts
      <3> QED BY <2>1, <2>2, <3>1, NewTextureIs, NewOnes
              DEF TexturesKept, TextureKept, ParameterKept, SizeKept
    <2> QED BY <2>1, <2>3 DEF TexturesKept
  <1>5. ASSUME NEW t \in Textures, DeleteTextures(t) PROVE TexturesKept'
    <2>1. /\ state'.tex = [state.tex EXCEPT ![t] = Absent] /\ state'.param = state.param
          /\ driver'.tex = [driver.tex EXCEPT ![t] = Absent] /\ driver'.param = driver.param
          /\ held' = held \ {t}
      BY <1>0, <1>5, DeleteTexturesIs
    <2>2. \A x \in Textures : /\ state'.tex[x] = IF x = t THEN Absent ELSE state.tex[x]
                              /\ driver'.tex[x] = IF x = t THEN Absent ELSE driver.tex[x]
      BY <1>0, <2>1, StateParts, DriverParts
    <2>3. ASSUME NEW x \in Textures PROVE TextureKept(x)'
      BY <2>1, <2>2 DEF TexturesKept, TextureKept, ParameterKept, SizeKept
    <2> QED BY <2>1, <2>3 DEF TexturesKept
  <1>6. ASSUME NEW t \in Textures \cup {None}, BindTexture(t) PROVE TexturesKept'
    <2>0. PICK v \in LeftBy : state'.tex = WithEntry(state.tex, t, NewTexture(v))
      BY <1>0, <1>6, BindTextureIs
    <2>1. /\ state'.param = state.param
          /\ driver'.tex = WithEntry(driver.tex, t, DriverTexture)
          /\ driver'.param = driver.param
          /\ held' = held \cup ({t} \ {None})
      BY <1>0, <1>6, BindTextureIs
    <2>2. \A x \in Textures :
            /\ state'.tex[x] = IF x = t /\ state.tex[x] = Absent THEN NewTexture(v)
                               ELSE state.tex[x]
            /\ driver'.tex[x] = IF x = t /\ driver.tex[x] = Absent THEN DriverTexture
                                ELSE driver.tex[x]
      BY <2>0, <2>1, WithStateEntry, WithDriverEntry DEF TypesHeld
    <2>3. ASSUME NEW x \in Textures PROVE TextureKept(x)'
      <3>1. x = t => x \in held'
        BY <2>1, NamesApart
      <3>2. x # t => (x \in held' <=> x \in held)
        BY <2>1
      <3>3. /\ driver.tex[x] # Absent => state.tex[x] # Absent
            /\ ParameterKept(x) /\ "parameters" \in Manners
            => ParameterKept(x)'
        BY <2>2, NewOnes, NewTextureIs, DriverTextureIs DEF ParameterKept
      <3>4. /\ driver.tex[x] # Absent => state.tex[x] # Absent
            /\ SizeKept(x)
            => SizeKept(x)'
        BY <2>2, NewOnes, NewTextureIs, DriverTextureIs DEF SizeKept
      <3> QED BY <2>2, <3>1, <3>2, <3>3, <3>4, NewOnes DEF TexturesKept, TextureKept
    <2> QED BY <2>1, <2>3 DEF TexturesKept
  <1>7. ASSUME NEW level \in Levels, NEW size \in Sizes, TexImage(level, size) PROVE TexturesKept'
    <2>1. /\ state'.param = state.param /\ driver'.param = driver.param /\ held' = held
          /\ KnownTexture /\ KnownLevel(level) /\ ImagesOnly
      BY <1>7, TexImageIs
    <2>2. Imaging(level, size)
      BY <1>2, <1>7, <2>1, TexImageIs, NamesApart
    <2>3. ASSUME NEW t \in Textures PROVE TextureKept(t)'
      <3>1. /\ state'.tex[t] = Absent <=> state.tex[t] = Absent
            /\ state.tex[t] # Absent =>
                 /\ state'.tex[t].param = state.tex[t].param
                 /\ state'.tex[t].size = IF t = state.boundTex THEN size ELSE state.tex[t].size
        BY <1>7, TexImageIs
      <3>2. ParameterKept(t) => ParameterKept(t)'
        BY <2>1, <3>1 DEF ParameterKept, ImagesOnly
      <3>3. SizeKept(t) /\ "levels" \in Manners => SizeKept(t)'
        BY <1>2, <2>1, <2>2, <3>1 DEF SizeKept, ImagesOnly, Imaging, KnownLevel
      <3> QED BY <2>1, <3>1, <3>2, <3>3 DEF TexturesKept, TextureKept, ImagesOnly
    <2> QED BY <2>1, <2>3 DEF TexturesKept
  <1>8. ASSUME NEW level \in Levels, NEW size \in Sizes, NEW flag \in BOOLEAN,
               CopyTexImage(level, size, flag)
        PROVE  TexturesKept'
    <2>1. /\ state'.param = state.param /\ driver'.param = driver.param /\ held' = held
          /\ state'.tex = state.tex /\ KnownTexture /\ KnownLevel(level) /\ ImagesOnly
          /\ "sizes" \in Manners /\ Cached(state.tex, state.boundTex) =>
               state.tex[state.boundTex].size = size
      BY <1>8, CopyTexImageIs
    <2>2. Imaging(level, size) \/ driver'.tex = driver.tex
      BY <1>2, <1>8, <2>1, CopyTexImageIs, NamesApart
    <2>3. ASSUME NEW t \in Textures PROVE TextureKept(t)'
      <3>1. ParameterKept(t) => ParameterKept(t)'
        BY <2>1 DEF ParameterKept, ImagesOnly
      <3>2. SizeKept(t) /\ {"levels", "sizes"} \subseteq Manners => SizeKept(t)'
        BY <1>2, <2>1, <2>2 DEF SizeKept, ImagesOnly, Imaging, KnownLevel
      <3> QED BY <2>1, <3>1, <3>2 DEF TexturesKept, TextureKept, ImagesOnly
    <2> QED BY <2>1, <2>3 DEF TexturesKept
  <1> QED BY Frames, <1>1, <1>3, <1>4, <1>5, <1>6, <1>7, <1>8

LEMMA TexturesInit == Init => TexturesKept
  BY NamesAssumption DEF Init, TexturesKept, TextureKept, ParameterKept, SizeKept, DefaultParam

(* glGetTexParameter* answers what the driver would, for an application    *)
(* that calls for textures only where it has bound one since it came to    *)
(* the unit, and leaves alone the anisotropy, whose record is what malloc  *)
(* left.                                                                   *)
THEOREM ParametersAreRight ==
  ASSUME {"rebinds", "parameters"} \subseteq Manners
  PROVE  Spec => []ParametersAgree
  <1>1. Init => TypesHeld /\ Bound /\ TexturesKept
    BY TypesInit, BoundInit, TexturesInit
  <1>2. TypesHeld /\ Bound /\ TexturesKept /\ [Next]_vars =>
          (TypesHeld /\ Bound /\ TexturesKept)'
    BY TypesStep, BoundStep, TexturesStep
  <1>3. TypesHeld /\ Bound /\ TexturesKept => ParametersAgree
    <2> SUFFICES ASSUME TypesHeld, Bound, TexturesKept PROVE ParametersAgree
      OBVIOUS
    <2>1. /\ state.param = driver.param
          /\ \A t \in Textures : driver.tex[t] # Absent =>
               state.tex[t] # Absent /\ state.tex[t].param = driver.tex[t].param
      BY DEF TexturesKept, TextureKept, ParameterKept
    <2>2. ASSUME KnownTexture
          PROVE  Texture = state.boundTex /\ Texture \in Textures /\ driver.tex[Texture] # Absent
      <3>1. Texture = state.boundTex /\ Texture \in Textures
        BY <2>2, Parts DEF KnownTexture, Bound, TypesHeld
      <3> QED BY <3>1, Parts, DriverParts, NamesApart DEF TypesHeld, ObjectsBound, Texture
    <2> QED BY <2>1, <2>2, NamesApart DEF ParametersAgree, ParameterAnswered, Cached
  <1> QED BY <1>1, <1>2, <1>3, PTL DEF Spec

(* A part of an image is refused only where it does not fit the image that *)
(* the driver has, of an application that gives and updates images of      *)
(* level 0 only, and copies or decompresses none over one of another size. *)
THEOREM RefusedPartsAreWrong ==
  ASSUME {"rebinds", "levels", "sizes"} \subseteq Manners
  PROVE  Spec => []RefusedPartIsWrong
  <1>1. Init => TypesHeld /\ Bound /\ TexturesKept
    BY TypesInit, BoundInit, TexturesInit
  <1>2. TypesHeld /\ Bound /\ TexturesKept /\ [Next]_vars =>
          (TypesHeld /\ Bound /\ TexturesKept)'
    BY TypesStep, BoundStep, TexturesStep
  <1>3. TypesHeld /\ TexturesKept => RefusedPartIsWrong
    <2> SUFFICES ASSUME TypesHeld, TexturesKept, NEW t \in Textures,
                        Cached(state.tex, t), driver.tex[t] # Absent,
                        NEW level \in Levels, NEW end \in Sizes, end > state.tex[t].size
                 PROVE  end > driver.tex[t].image[level]
      BY DEF RefusedPartIsWrong
    <2>1. state.tex[t].size \in Nat /\ end \in Nat
      BY Parts, StateParts DEF TypesHeld, Cached, TextureEntry, Sizes
    <2>2. driver.tex[t].image[level] \in {state.tex[t].size, 0}
      BY DEF TexturesKept, TextureKept, SizeKept, Cached
    <2> QED BY <2>1, <2>2
  <1> QED BY <1>1, <1>2, <1>3, PTL DEF Spec

-----------------------------------------------------------------------------
(* Framebuffers.                                                           *)

(* Of driver d: attachment a has an image, framebuffer f can be drawn to.  *)
Imaged(d, a) ==
  \/ a = "deleted, with image"
  \/ a \in Textures /\ d.tex[a] # Absent /\ d.tex[a].image[Level0] # 0
  \/ a \in Renderbuffers /\ d.rb[a] = "image"
Complete(d, f) ==
  /\ d.fb[f] # Absent
  /\ \E p \in Points : d.fb[f][p] # None
  /\ \A p \in Points : d.fb[f][p] = None \/ Imaged(d, d.fb[f][p])

LEMMA CompleteIs ==
  ASSUME TypeOK, NEW f \in Framebuffers
  PROVE  DriverComplete(f) <=> Complete(driver, f)
  <1>1. driver.fb[f] # Absent => driver.fb[f] \in Attachments
    BY Parts, DriverParts
  <1>2. driver.fb[f] \in Attachments =>
          (driver.fb[f] = Unattached <=> \A p \in Points : driver.fb[f][p] = None)
    BY DEF Attachments, Unattached
  <1> QED BY <1>1, <1>2 DEF DriverComplete, Complete, HasImage, Imaged

(* A texture that is attached is attached to one framebuffer, which its    *)
(* record names, and the application holds the texture.                    *)
LastAttached ==
  \A t \in Textures, f \in Framebuffers : \A p \in Points :
    driver.fb[f] # Absent /\ driver.fb[f][p] = t => t \in held /\ state.tex[t].fb = f

(* A framebuffer recorded as incomplete is.                                *)
Known(f) == state.fb[f] # Absent /\ state.fb[f].complete = "incomplete" => ~Complete(driver, f)

AttachmentsKept == LastAttached /\ \A f \in Framebuffers : Known(f)

(* Framebuffer f stays as it is known, or more is not known of it: the     *)
(* images of what is attached to it do not come into being.                *)
LEMMA StaysKnown ==
  ASSUME NEW f \in Framebuffers, Known(f),
         state'.fb[f] # Absent =>
           /\ state.fb[f] # Absent
           /\ state'.fb[f].complete = "incomplete" => state.fb[f].complete = "incomplete",
         state'.fb[f] # Absent /\ state'.fb[f].complete = "incomplete" =>
           (Complete(driver', f) => Complete(driver, f))
  PROVE  Known(f)'
  BY DEF Known

LEMMA NotCompleted ==
  ASSUME NEW d, NEW e, NEW f \in Framebuffers,
         e.fb[f] # Absent => d.fb[f] # Absent,
         e.fb[f] # Absent => \A p \in Points :
           /\ e.fb[f][p] = None <=> d.fb[f][p] = None
           /\ Imaged(e, e.fb[f][p]) => Imaged(d, d.fb[f][p])
  PROVE  Complete(e, f) => Complete(d, f)
  BY DEF Complete

LEMMA AttachmentsStep ==
  ASSUME {"names", "rebinds", "storage", "attaches"} \subseteq Manners,
         TypesHeld, Bound, TexturesKept, AttachmentsKept, [Next]_vars
  PROVE  AttachmentsKept'
  <1>0. /\ state \in States /\ driver \in DriverContexts /\ Texture \in Textures \cup {None}
        /\ state.boundFb = driver.boundFb /\ state.boundFb \in Framebuffers \cup {None}
        /\ \A f \in Framebuffers : Known(f)
    BY Parts, StateParts DEF TypesHeld, Bound, AttachmentsKept
  (* What changes no attachment, image or status.                          *)
  <1>1. ASSUME driver'.fb = driver.fb, driver'.rb = driver.rb, state'.fb = state.fb,
               \A t \in Textures :
                 /\ t \in held => t \in held'
                 /\ state.tex[t] # Absent => state'.tex[t].fb = state.tex[t].fb
                 /\ driver'.tex[t] = Absent <=> driver.tex[t] = Absent
                 /\ driver.tex[t] # Absent => driver'.tex[t].image = driver.tex[t].image
        PROVE  AttachmentsKept'
    <2>1. LastAttached'
      BY <1>1 DEF AttachmentsKept, LastAttached, TypesHeld, EntriesHeld
    <2>2. ASSUME NEW a PROVE Imaged(driver', a) <=> Imaged(driver, a)
      BY <1>1 DEF Imaged
    <2>3. ASSUME NEW f \in Framebuffers PROVE Known(f)'
      BY <1>0, <1>1, <2>2 DEF Known, Complete
    <2> QED BY <2>1, <2>3 DEF AttachmentsKept
  <1>2. ASSUME NEW u \in Units, ActiveTexture(u) PROVE AttachmentsKept'
    BY <1>1, <1>2, ActiveTextureIs
  <1>3. ASSUME NEW v \in Params, TexParameter(v) PROVE AttachmentsKept'
    BY <1>1, <1>3, TexParameterIs
  <1>4. ASSUME NEW r \in Renderbuffers, GenRenderbuffers(r) PROVE AttachmentsKept'
    BY <1>1, <1>4, GenRenderbuffersIs
  <1>5. ASSUME NEW level \in Levels, NEW size \in Sizes, NEW flag \in BOOLEAN,
                TexSubImage(level, size, flag)
         PROVE  AttachmentsKept'
    BY <1>1, <1>5, TexSubImageIs
  <1>6. ASSUME Draw PROVE AttachmentsKept'
    BY <1>1, <1>6, DrawIs
  <1>7. ASSUME GetError PROVE AttachmentsKept'
    BY <1>1, <1>7, GetErrorIs
  <1>8. ASSUME UNCHANGED vars PROVE AttachmentsKept'
    BY <1>1, <1>8 DEF vars
  (* The images of attachments.                                            *)
  <1>9. ASSUME KnownTexture
        PROVE  Texture = state.boundTex /\ Texture \in Textures /\ Cached(state.tex, Texture)
    <2>1. Texture = state.boundTex /\ Texture \in Textures
      BY <1>0, <1>9 DEF KnownTexture, Bound
    <2>2. driver.tex[Texture] # Absent
      BY <1>0, <2>1, DriverParts, NamesApart DEF TypesHeld, ObjectsBound, Texture
    <2> QED BY <2>1, <2>2, NamesApart DEF TexturesKept, TextureKept, Cached
  <1>10. ASSUME KnownTexture, ImagesOnly, state'.fb = MarkedOf(state.boundTex),
                driver'.fb = driver.fb, driver'.rb = driver.rb, held' = held,
                \A t \in Textures : state.tex[t] # Absent => state'.tex[t].fb = state.tex[t].fb
         PROVE  AttachmentsKept'
    <2>1. LastAttached'
      BY <1>10 DEF AttachmentsKept, LastAttached, TypesHeld, EntriesHeld
    <2>2. ASSUME NEW f \in Framebuffers PROVE Known(f)'
      <3>1. MarkedOf(Texture)[f] = Absent <=> state.fb[f] = Absent
        BY <1>0, MarkedOfIs
      <3>2. MarkedOf(Texture)[f] # Absent =>
              MarkedOf(Texture)[f].complete \in {state.fb[f].complete, "unknown"}
        BY <1>0, MarkedOfIs
      <3>3. MarkedOf(Texture)[f] # Absent /\ f = state.tex[Texture].fb =>
              MarkedOf(Texture)[f].complete = "unknown"
        BY <1>9, <1>10, MarkedOfIs
      <3>4. ASSUME state'.fb[f] # Absent, state'.fb[f].complete = "incomplete"
            PROVE  Complete(driver', f) => Complete(driver, f)
        <4>1. f # state.tex[Texture].fb
          BY <1>9, <1>10, <3>3, <3>4
        <4>2. driver.fb[f] # Absent => \A p \in Points : driver.fb[f][p] # Texture
          BY <1>9, <1>10, <4>1 DEF AttachmentsKept, LastAttached
        <4>3. ASSUME NEW a, a # Texture PROVE Imaged(driver', a) => Imaged(driver, a)
          BY <1>10, <4>3 DEF Imaged, ImagesOnly
        <4> QED BY <1>10, <4>2, <4>3 DEF Complete
      <3> QED BY <1>0, <1>9, <1>10, <3>1, <3>2, <3>4, StaysKnown
    <2> QED BY <2>1, <2>2 DEF AttachmentsKept
  <1>11. ASSUME NEW level \in Levels, NEW size \in Sizes, TexImage(level, size) PROVE AttachmentsKept'
    BY <1>10, <1>11, TexImageIs
  <1>12. ASSUME NEW level \in Levels, NEW size \in Sizes, NEW flag \in BOOLEAN,
                CopyTexImage(level, size, flag)
         PROVE  AttachmentsKept'
    BY <1>10, <1>12, CopyTexImageIs
  (* The names of attachments and images.                                  *)
  <1>13. ASSUME NEW t \in Textures, GenTextures(t) PROVE AttachmentsKept'
    <2>1. /\ state'.fb = state.fb
          /\ driver' = driver /\ t \notin held /\ held' = held \cup {t}
      BY <1>13, GenTexturesIs
    <2>2. \A x \in Textures : x # t => state'.tex[x] = state.tex[x]
      BY <1>0, <1>13, GenTexturesIs, StateParts
    <2>3. LastAttached'
      BY <2>1, <2>2 DEF AttachmentsKept, LastAttached
    <2>4. ASSUME NEW f \in Framebuffers PROVE Known(f)'
      BY <1>0, <2>1 DEF Known, Complete, Imaged
    <2> QED BY <2>3, <2>4 DEF AttachmentsKept
  <1>14. ASSUME NEW t \in Textures \cup {None}, BindTexture(t) PROVE AttachmentsKept'
    <2>0. PICK v \in LeftBy : state'.tex = WithEntry(state.tex, t, NewTexture(v))
      BY <1>14, BindTextureIs
    <2>1. /\ state'.fb = state.fb
          /\ driver'.tex = WithEntry(driver.tex, t, DriverTexture)
          /\ driver'.fb = driver.fb
          /\ driver'.rb = driver.rb
          /\ held' = held \cup ({t} \ {None})
      BY <1>14, BindTextureIs
    <2>2. \A x \in Textures :
            /\ state.tex[x] # Absent => state'.tex[x] = state.tex[x]
            /\ driver'.tex[x] = IF x = t /\ driver.tex[x] = Absent THEN DriverTexture
                                ELSE driver.tex[x]
      BY <2>0, <2>1, WithStateEntry, WithDriverEntry DEF TypesHeld
    <2>3. LastAttached'
      BY <2>1, <2>2 DEF AttachmentsKept, LastAttached, TypesHeld, EntriesHeld
    <2>4. ASSUME NEW a PROVE Imaged(driver', a) => Imaged(driver, a)
      <3>1. DriverTexture.image[Level0] = 0
        BY DriverTextureIs, NamesAssumption
      <3>2. a \in Textures /\ driver'.tex[a] # Absent /\ driver'.tex[a].image[Level0] # 0 =>
              driver.tex[a] # Absent /\ driver.tex[a].image[Level0] # 0
        BY <2>2, <3>1
      <3> QED BY <2>1, <3>2 DEF Imaged
    <2>5. ASSUME NEW f \in Framebuffers PROVE Known(f)'
      BY <1>0, <2>1, <2>4 DEF Known, Complete
    <2> QED BY <2>3, <2>5 DEF AttachmentsKept
  <1>15. ASSUME NEW t \in Textures, DeleteTextures(t) PROVE AttachmentsKept'
    <2>1. /\ state'.tex = [state.tex EXCEPT ![t] = Absent]
          /\ state'.fb = Marked(state.tex[t].fb)
          /\ driver'.tex = [driver.tex EXCEPT ![t] = Absent] /\ driver'.rb = driver.rb
          /\ driver'.fb = WithoutName(t, driver.boundFb) /\ held' = held \ {t}
          /\ Cached(state.tex, t)
      BY <1>15, DeleteTexturesIs
    <2>2. \A x \in Textures : /\ x # t => state'.tex[x] = state.tex[x]
                              /\ driver'.tex[x] = IF x = t THEN Absent ELSE driver.tex[x]
      BY <1>0, <2>1, StateParts, DriverParts
    <2>3. \A f \in Framebuffers :
            /\ driver'.fb[f] = Absent <=> driver.fb[f] = Absent
            /\ driver.fb[f] # Absent => \A p \in Points :
                 driver'.fb[f][p] = IF driver.fb[f][p] = t THEN InsteadOf(t, f, driver.boundFb)
                                    ELSE driver.fb[f][p]
      BY <2>1, WithoutNameIs DEF TypesHeld
    <2>4. \A f : InsteadOf(t, f, driver.boundFb) \notin Textures
      BY NamesApart DEF InsteadOf, Orphans
    <2>5. LastAttached'
      <3> SUFFICES ASSUME NEW x \in Textures, NEW f \in Framebuffers, NEW p \in Points,
                          driver'.fb[f] # Absent, driver'.fb[f][p] = x
                   PROVE  x \in held' /\ state'.tex[x].fb = f
        BY DEF LastAttached
      <3>1. x # t /\ driver.fb[f] # Absent /\ driver.fb[f][p] = x
        BY <2>3, <2>4
      <3> QED BY <2>1, <2>2, <3>1 DEF AttachmentsKept, LastAttached
    <2>6. ASSUME NEW f \in Framebuffers PROVE Known(f)'
      <3>1. MarkedOf(t) = state'.fb
        BY <2>1 DEF MarkedOf
      <3>2. state'.fb[f] = Absent <=> state.fb[f] = Absent
        BY <3>1, MarkedOfIs
      <3>3. state'.fb[f] # Absent =>
              /\ state'.fb[f].complete \in {state.fb[f].complete, "unknown"}
              /\ f = state.tex[t].fb => state'.fb[f].complete = "unknown"
        BY <2>1, <3>1, MarkedOfIs
      <3>4. ASSUME state'.fb[f] # Absent, state'.fb[f].complete = "incomplete"
            PROVE  Complete(driver', f) => Complete(driver, f)
        <4>1. driver.fb[f] # Absent => \A p \in Points : driver.fb[f][p] # t
          BY <3>3, <3>4 DEF AttachmentsKept, LastAttached
        <4>2. ASSUME NEW a, a # t PROVE Imaged(driver', a) => Imaged(driver, a)
          BY <2>1, <2>2, <4>2 DEF Imaged
        <4> QED BY <2>3, <4>1, <4>2 DEF Complete
      <3> QED BY <1>0, <3>2, <3>3, <3>4, StaysKnown
    <2> QED BY <2>5, <2>6 DEF AttachmentsKept
  <1>16. ASSUME NEW r \in Renderbuffers \cup {None}, NEW right \in BOOLEAN,
                BindRenderbuffer(right, r)
         PROVE  AttachmentsKept'
    <2>1. /\ driver'.fb = driver.fb /\ driver'.tex = driver.tex /\ state'.tex = state.tex
          /\ state'.fb = state.fb /\ driver'.rb = WithEntry(driver.rb, r, "no image")
          /\ held' = held
      BY <1>16, BindRenderbufferIs DEF OnlyDriverErrs
    <2>2. \A x \in Renderbuffers : driver'.rb[x] \in {driver.rb[x], "no image"}
      BY <1>0, <2>1, DriverParts DEF WithEntry
    <2>3. ASSUME NEW a PROVE Imaged(driver', a) => Imaged(driver, a)
      BY <2>1, <2>2 DEF Imaged
    <2>4. ASSUME NEW f \in Framebuffers PROVE Known(f)'
      BY <1>0, <2>1, <2>3 DEF Known, Complete
    <2>5. driver'.fb = driver.fb /\ state'.tex = state.tex /\ held' = held
      BY <2>1
    <2>6. LastAttached'
      BY <2>5 DEF AttachmentsKept, LastAttached
    <2> QED BY <2>4, <2>6 DEF AttachmentsKept
  <1>17. ASSUME NEW flag \in BOOLEAN, RenderbufferStorage(flag) PROVE AttachmentsKept'
    <2>1. /\ driver'.fb = driver.fb /\ driver'.tex = driver.tex /\ state'.tex = state.tex
          /\ state'.fb = Marked(state.boundFb) /\ held' = held
          /\ AttachedTo(driver.boundRb) \subseteq {driver.boundFb}
          /\ \A r \in Renderbuffers : r # driver.boundRb => driver'.rb[r] = driver.rb[r]
      BY <1>17, RenderbufferStorageIs
    <2>2. ASSUME NEW f \in Framebuffers PROVE Known(f)'
      <3>1. /\ state'.fb[f] = Absent <=> state.fb[f] = Absent
            /\ f # state.boundFb => state'.fb[f] = state.fb[f]
            /\ state'.fb[f] # Absent /\ f = state.boundFb => state'.fb[f].complete = "unknown"
        BY <1>0, <2>1, MarkedIs DEF TypesHeld
      <3>2. ASSUME state'.fb[f] # Absent, state'.fb[f].complete = "incomplete"
            PROVE  Complete(driver', f) => Complete(driver, f)
        <4>1. driver.fb[f] # Absent => \A p \in Points : driver.fb[f][p] # driver.boundRb
          BY <1>0, <2>1, <3>1, <3>2 DEF AttachedTo
        <4>2. ASSUME NEW a, a # driver.boundRb PROVE Imaged(driver', a) => Imaged(driver, a)
          BY <2>1, <4>2 DEF Imaged
        <4> QED BY <2>1, <4>1, <4>2 DEF Complete
      <3> QED BY <1>0, <3>1, <3>2, StaysKnown
    <2> QED BY <2>1, <2>2 DEF AttachmentsKept, LastAttached
  <1>18. ASSUME NEW r \in Renderbuffers, DeleteRenderbuffers(r) PROVE AttachmentsKept'
    <2>1. /\ state'.tex = state.tex /\ driver'.tex = driver.tex /\ held' = held \ {r}
          /\ driver'.fb = WithoutName(r, None) /\ driver'.rb = [driver.rb EXCEPT ![r] = Absent]
          /\ \A f \in Framebuffers :
               /\ state'.fb[f] = Absent <=> state.fb[f] = Absent
               /\ state.fb[f] # Absent =>
                    state'.fb[f].complete \in {state.fb[f].complete, "unknown"}
      BY <1>18, DeleteRenderbuffersIs
    <2>2. \A f \in Framebuffers :
            /\ driver'.fb[f] = Absent <=> driver.fb[f] = Absent
            /\ driver.fb[f] # Absent => \A p \in Points :
                 driver'.fb[f][p] = IF driver.fb[f][p] = r THEN InsteadOf(r, f, None)
                                    ELSE driver.fb[f][p]
      BY <2>1, WithoutNameIs DEF TypesHeld
    <2>3. /\ \A f \in Framebuffers :
               InsteadOf(r, f, None) = IF Imaged(driver, r) THEN "deleted, with image"
                                       ELSE "deleted, without"
          /\ "deleted, with image" # None /\ "deleted, without" # None
          /\ "deleted, without" \notin Textures \cup Renderbuffers
          /\ "deleted, with image" \notin Textures
      <3>1. \A f \in Framebuffers : f # None
        BY NamesApart
      <3>2. "deleted, with image" \in Orphans /\ "deleted, without" \in Orphans
        BY DEF Orphans
      <3> QED BY <3>1, <3>2, NamesApart DEF InsteadOf, Imaged, HasImage
    <2>4. \A x \in Renderbuffers : x # r => driver'.rb[x] = driver.rb[x]
      BY <1>0, <2>1, DriverParts
    <2>5. LastAttached'
      <3> SUFFICES ASSUME NEW x \in Textures, NEW f \in Framebuffers, NEW p \in Points,
                          driver'.fb[f] # Absent, driver'.fb[f][p] = x
                   PROVE  x \in held' /\ state'.tex[x].fb = f
        BY DEF LastAttached
      <3>1. driver.fb[f] # Absent /\ driver.fb[f][p] = x
        BY <2>2, <2>3
      <3> QED BY <2>1, <3>1, NamesApart DEF AttachmentsKept, LastAttached
    <2>6. ASSUME NEW f \in Framebuffers PROVE Known(f)'
      <3>1. ASSUME NEW a, a # r PROVE Imaged(driver', a) => Imaged(driver, a)
        BY <2>1, <2>4, <3>1 DEF Imaged
      <3>2. ~Imaged(driver', "deleted, without")
        BY <2>3 DEF Imaged
      <3>3. ASSUME driver.fb[f] # Absent, NEW p \in Points
            PROVE  /\ driver'.fb[f][p] = None <=> driver.fb[f][p] = None
                   /\ Imaged(driver', driver'.fb[f][p]) => Imaged(driver, driver.fb[f][p])
        BY <2>2, <2>3, <3>1, <3>2, <3>3, NamesApart
      <3>4. Complete(driver', f) => Complete(driver, f)
        BY <2>2, <3>3 DEF Complete
      <3> QED BY <1>0, <2>1, <3>4, StaysKnown
    <2> QED BY <2>5, <2>6 DEF AttachmentsKept
  (* The names and attachments of framebuffers, and their status.          *)
  <1>19. ASSUME NEW g \in Framebuffers, GenFramebuffers(g) PROVE AttachmentsKept'
    <2>1. /\ driver' = driver /\ state'.tex = state.tex /\ held' = held \cup {g}
          /\ state'.fb = [state.fb EXCEPT ![g] = NewFramebuffer]
      BY <1>19, GenFramebuffersIs
    <2>2. LastAttached'
      BY <2>1 DEF AttachmentsKept, LastAttached
    <2>3. NewFramebuffer.complete # "incomplete"
      BY DEF NewFramebuffer
    <2>4. \A f \in Framebuffers : state'.fb[f] = IF f = g THEN NewFramebuffer ELSE state.fb[f]
      BY <1>0, <2>1, StateParts
    <2>5. ASSUME NEW f \in Framebuffers PROVE Known(f)'
      BY <1>0, <2>1, <2>3, <2>4 DEF Known, Complete, Imaged
    <2> QED BY <2>2, <2>5 DEF AttachmentsKept
  <1>20. ASSUME NEW g \in Framebuffers \cup {None}, NEW right \in BOOLEAN,
                BindFramebuffer(right, g)
         PROVE  AttachmentsKept'
    <2>1. /\ driver'.rb = driver.rb /\ driver'.tex = driver.tex /\ state'.tex = state.tex
          /\ state'.fb = state.fb /\ driver'.fb = WithEntry(driver.fb, g, Unattached)
          /\ held' = held
      BY <1>20, BindFramebufferIs
    <2>2. \A f \in Framebuffers : driver'.fb[f] \in {driver.fb[f], Unattached}
      BY <1>0, <2>1, DriverParts DEF WithEntry
    <2>3. \A p \in Points : Unattached[p] = None
      BY DEF Unattached
    <2>4. LastAttached'
      <3> SUFFICES ASSUME NEW x \in Textures, NEW f \in Framebuffers, NEW p \in Points,
                          driver'.fb[f] # Absent, driver'.fb[f][p] = x
                   PROVE  x \in held' /\ state'.tex[x].fb = f
        BY DEF LastAttached
      <3>1. driver'.fb[f] = driver.fb[f]
        BY <2>2, <2>3, NamesApart
      <3> QED BY <2>1, <3>1 DEF AttachmentsKept, LastAttached
    <2>5. ASSUME NEW f \in Framebuffers PROVE Known(f)'
      <3>1. ASSUME NEW a PROVE Imaged(driver', a) <=> Imaged(driver, a)
        BY <2>1 DEF Imaged
      <3>2. Complete(driver', f) => Complete(driver, f)
        BY <2>2, <2>3, <3>1 DEF Complete
      <3> QED BY <1>0, <2>1, <3>2 DEF Known
    <2> QED BY <2>4, <2>5 DEF AttachmentsKept
  <1>21. ASSUME NEW g \in Framebuffers, DeleteFramebuffers(g) PROVE AttachmentsKept'
    <2>1. /\ driver'.rb = driver.rb /\ driver'.tex = driver.tex /\ state'.tex = state.tex
          /\ state'.fb = state.fb /\ driver'.fb = [driver.fb EXCEPT ![g] = Absent]
          /\ held' = held \ {g}
      BY <1>21, DeleteFramebuffersIs
    <2>2. \A f \in Framebuffers : driver'.fb[f] \in {driver.fb[f], Absent}
      BY <1>0, <2>1, DriverParts
    <2>3. LastAttached'
      <3> SUFFICES ASSUME NEW x \in Textures, NEW f \in Framebuffers, NEW p \in Points,
                          driver'.fb[f] # Absent, driver'.fb[f][p] = x
                   PROVE  x \in held' /\ state'.tex[x].fb = f
        BY DEF LastAttached
      <3> QED BY <2>1, <2>2, NamesApart DEF AttachmentsKept, LastAttached
    <2>4. ASSUME NEW f \in Framebuffers PROVE Known(f)'
      <3>1. ASSUME NEW a PROVE Imaged(driver', a) <=> Imaged(driver, a)
        BY <2>1 DEF Imaged
      <3> QED BY <1>0, <2>1, <2>2, <3>1 DEF Known, Complete
    <2> QED BY <2>3, <2>4 DEF AttachmentsKept
  (* x is attached at point q.                                             *)
  <1>22. ASSUME NEW x \in Textures \cup Renderbuffers, NEW q \in Points, Attached(q, x),
                driver'.tex = driver.tex, driver'.rb = driver.rb, held' = held,
                AttachedTo(x) \subseteq {driver.boundFb},
                x \in Textures => x \in held /\ state'.tex[x].fb = driver.boundFb,
                \A t \in Textures : t # x /\ state.tex[t] # Absent =>
                  state'.tex[t].fb = state.tex[t].fb,
                \A f \in Framebuffers :
                  /\ state'.fb[f] = Absent <=> state.fb[f] = Absent
                  /\ f # driver.boundFb => state'.fb[f] = state.fb[f]
                  /\ f = driver.boundFb /\ state'.fb[f] # Absent =>
                       state'.fb[f].complete = "unknown"
         PROVE  AttachmentsKept'
    <2>1. \A f \in Framebuffers :
            /\ driver'.fb[f] = Absent <=> driver.fb[f] = Absent
            /\ driver.fb[f] # Absent => \A p \in Points :
                 driver'.fb[f][p] = IF f = driver.boundFb /\ p = q THEN x ELSE driver.fb[f][p]
      BY <1>22 DEF Attached
    <2>2. LastAttached'
      <3> SUFFICES ASSUME NEW t \in Textures, NEW f \in Framebuffers, NEW p \in Points,
                          driver'.fb[f] # Absent, driver'.fb[f][p] = t
                   PROVE  t \in held' /\ state'.tex[t].fb = f
        BY DEF LastAttached
      <3>1. CASE t = x
        <4>1. f = driver.boundFb
          BY <1>22, <2>1, <3>1 DEF AttachedTo
        <4> QED BY <1>22, <3>1, <4>1
      <3>2. CASE t # x
        <4>1. driver.fb[f] # Absent /\ driver.fb[f][p] = t
          BY <2>1, <3>2
        <4>2. t \in held /\ state.tex[t].fb = f /\ state.tex[t] # Absent
          BY <4>1 DEF AttachmentsKept, LastAttached, TypesHeld, EntriesHeld
        <4> QED BY <1>22, <3>2, <4>2
      <3> QED BY <3>1, <3>2
    <2>3. ASSUME NEW a PROVE Imaged(driver', a) <=> Imaged(driver, a)
      BY <1>22 DEF Imaged
    <2>4. ASSUME NEW f \in Framebuffers PROVE Known(f)'
      <3>1. f # driver.boundFb => (Complete(driver', f) => Complete(driver, f))
        BY <2>1, <2>3 DEF Complete
      <3> QED BY <1>0, <1>22, <3>1 DEF Known
    <2> QED BY <2>2, <2>4 DEF AttachmentsKept
  <1>23. ASSUME NEW t \in Textures \cup {None}, FramebufferTexture2D(t) PROVE AttachmentsKept'
    <2>1. /\ driver.boundFb # None /\ Cached(driver.tex, t) /\ t \in held
          /\ AttachedTo(t) \subseteq {driver.boundFb}
      BY <1>23, FramebufferTexture2DIs DEF MayAttach
    <2>2. t \in Textures /\ state.tex[t] # Absent /\ Cached(state.tex, t)
      BY <2>1 DEF Cached, TexturesKept, TextureKept
    <2>3. /\ Attached("color", t) /\ held' = held /\ state'.fb = Marked(state.boundFb)
          /\ \A x \in Textures : state.tex[x] # Absent =>
               state'.tex[x].fb = IF x = t THEN state.boundFb ELSE state.tex[x].fb
      BY <1>23, <2>1, <2>2, FramebufferTexture2DIs
    <2>4. driver'.tex = driver.tex /\ driver'.rb = driver.rb /\ "color" \in Points
      BY <2>3 DEF Attached, Points
    <2>5. \A f \in Framebuffers :
            /\ state'.fb[f] = Absent <=> state.fb[f] = Absent
            /\ f # driver.boundFb => state'.fb[f] = state.fb[f]
            /\ f = driver.boundFb /\ state'.fb[f] # Absent => state'.fb[f].complete = "unknown"
      BY <1>0, <2>3, MarkedIs DEF TypesHeld
    <2> QED BY <1>0, <1>22, <2>1, <2>2, <2>3, <2>4, <2>5
  <1>24. ASSUME NEW r \in Renderbuffers \cup {None}, NEW p \in Points,
                FramebufferRenderbuffer(p, r)
         PROVE  AttachmentsKept'
    <2>1. /\ driver.boundFb # None /\ Cached(driver.rb, r)
          /\ AttachedTo(r) \subseteq {driver.boundFb}
      BY <1>24, FramebufferRenderbufferIs DEF MayAttach
    <2>2. r \in Renderbuffers
      BY <2>1 DEF Cached
    <2>3. /\ Attached(p, r) /\ held' = held /\ state'.tex = state.tex
          /\ \A f \in Framebuffers :
               /\ state'.fb[f] = Absent <=> state.fb[f] = Absent
               /\ f # driver.boundFb => state'.fb[f] = state.fb[f]
               /\ f = driver.boundFb /\ state'.fb[f] # Absent =>
                    state'.fb[f].complete = "unknown"
      BY <1>0, <1>24, <2>1, <2>2, FramebufferRenderbufferIs
    <2>4. driver'.tex = driver.tex /\ driver'.rb = driver.rb
      BY <2>3 DEF Attached
    <2> QED BY <1>22, <2>1, <2>2, <2>3, <2>4, NamesApart
  <1>25. ASSUME CheckFramebufferStatus PROVE AttachmentsKept'
    <2>1. /\ driver' = driver /\ state'.tex = state.tex /\ held' = held
          /\ \A f \in Framebuffers :
               /\ state'.fb[f] = Absent <=> state.fb[f] = Absent
               /\ f # state.boundFb => state'.fb[f] = state.fb[f]
               /\ f = state.boundFb => state'.fb[f].complete =
                    IF driver.boundFb = None \/ DriverComplete(driver.boundFb)
                    THEN "complete" ELSE "incomplete"
      BY <1>25, CheckFramebufferStatusIs
    <2>2. LastAttached'
      BY <2>1 DEF AttachmentsKept, LastAttached
    <2>3. ASSUME NEW f \in Framebuffers PROVE Known(f)'
      <3>1. DriverComplete(f) <=> Complete(driver, f)
        BY CompleteIs DEF TypesHeld
      <3>2. Complete(driver', f) <=> Complete(driver, f)
        BY <2>1
      <3> QED BY <1>0, <2>1, <3>1, <3>2 DEF Known
    <2> QED BY <2>2, <2>3 DEF AttachmentsKept
  <1> QED BY KindOfStep, <1>2, <1>3, <1>4, <1>5, <1>6, <1>7, <1>8, <1>11, <1>12, <1>13, <1>14,
             <1>15, <1>16, <1>17, <1>18, <1>19, <1>20, <1>21, <1>23, <1>24, <1>25

LEMMA AttachmentsInit == Init => AttachmentsKept
  BY DEF Init, AttachmentsKept, LastAttached, Known

(* A draw that the client refuses on its own the driver would refuse, too, *)
(* after any changes to images and attachments: of an application that     *)
(* attaches what exists, to one framebuffer at a time, gives storage to    *)
(* what is attached to no framebuffer but the one bound, and binds its     *)
(* textures anew on each unit.                                             *)
THEOREM RefusedDrawsAreWrong ==
  ASSUME {"names", "rebinds", "storage", "attaches"} \subseteq Manners
  PROVE  Spec => []RefusedDrawIsWrong
  <1> DEFINE Inv == TypesHeld /\ Bound /\ TexturesKept /\ AttachmentsKept
  <1>1. Init => Inv
    BY TypesInit, BoundInit, TexturesInit, AttachmentsInit
  <1>2. Inv /\ [Next]_vars => Inv'
    BY TypesStep, BoundStep, TexturesStep, AttachmentsStep
  <1>3. Inv => RefusedDrawIsWrong
    BY CompleteIs DEF TypesHeld, AttachmentsKept, Known, RefusedDrawIsWrong, Cached
  <1> QED BY <1>1, <1>2, <1>3, PTL DEF Spec

-----------------------------------------------------------------------------
(* Errors.                                                                 *)

(* A framebuffer the application holds has an entry, and so has the one    *)
(* that is bound: the entry stays when the name is deleted.                *)
Recorded ==
  /\ \A f \in Framebuffers \cap held : state.fb[f] # Absent
  /\ state.boundFb # None => state.fb[state.boundFb] # Absent

LEMMA RecordedStep ==
  ASSUME "names" \in Manners, TypesHeld, Recorded, [Next]_vars
  PROVE  Recorded'
  <1>0. /\ state \in States /\ driver \in DriverContexts
        /\ state.boundFb \in Framebuffers \cup {None}
        /\ state.boundTex \in Textures \cup {None}
        /\ state.fb \in [Framebuffers -> {Absent} \cup FramebufferEntry]
    BY Parts, StateParts DEF TypesHeld
  (* What only adds entries, and binds and generates no framebuffer.       *)
  <1>1. ASSUME \A f \in Framebuffers : state.fb[f] # Absent => state'.fb[f] # Absent,
               \A f \in Framebuffers : f \in held' => f \in held,
               state'.boundFb \in {state.boundFb, None}
        PROVE  Recorded'
    BY <1>0, <1>1 DEF Recorded
  <1>2. ASSUME UNCHANGED vars PROVE Recorded'
    BY <1>2 DEF vars, Recorded
  <1>3. ASSUME NEW u \in Units, ActiveTexture(u) PROVE Recorded'
    BY <1>1, <1>3, ActiveTextureIs
  <1>4. ASSUME NEW v \in Params, TexParameter(v) PROVE Recorded'
    BY <1>1, <1>4, TexParameterIs
  <1>5. ASSUME NEW t \in Textures, GenTextures(t) PROVE Recorded'
    BY <1>1, <1>5, GenTexturesIs, NamesApart
  <1>6. ASSUME NEW t \in Textures, DeleteTextures(t) PROVE Recorded'
    <2>1. /\ state'.fb = Marked(state.tex[t].fb) /\ Cached(state.tex, t)
          /\ held' = held \ {t} /\ state'.boundFb = state.boundFb
      BY <1>6, DeleteTexturesIs
    <2>2. MarkedOf(t) = state'.fb
      BY <2>1 DEF MarkedOf
    <2> QED BY <1>1, <2>1, <2>2, MarkedOfIs
  <1>7. ASSUME NEW t \in Textures \cup {None}, BindTexture(t) PROVE Recorded'
    <2>1. held' = held \cup ({t} \ {None}) /\ state'.fb = state.fb
          /\ state'.boundFb = state.boundFb
      BY <1>7, BindTextureIs
    <2>2. \A f \in Framebuffers : f \in held' => f \in held
      BY <2>1, NamesApart
    <2> QED BY <1>1, <2>1, <2>2
  <1>8. ASSUME NEW t \in Textures \cup {None}, FramebufferTexture2D(t) PROVE Recorded'
    <2>1. /\ state'.fb = IF Cached(state.tex, t) THEN Marked(state.boundFb) ELSE state.fb
          /\ held' = held /\ state'.boundFb = state.boundFb
      BY <1>8, FramebufferTexture2DIs
    <2> QED BY <1>0, <1>1, <2>1, MarkedIs DEF TypesHeld
  <1>9. ASSUME NEW r \in Renderbuffers, GenRenderbuffers(r) PROVE Recorded'
    <2>1. held' = held \cup {r} /\ state'.fb = state.fb /\ state'.boundFb = state.boundFb
      BY <1>9, GenRenderbuffersIs
    <2>2. \A f \in Framebuffers : f \in held' => f \in held
      BY <2>1, NamesApart
    <2> QED BY <1>1, <2>1, <2>2
  <1>10. ASSUME NEW r \in Renderbuffers, DeleteRenderbuffers(r) PROVE Recorded'
    BY <1>1, <1>10, DeleteRenderbuffersIs
  <1>11. ASSUME NEW r \in Renderbuffers \cup {None}, NEW right \in BOOLEAN,
                BindRenderbuffer(right, r)
         PROVE  Recorded'
    BY <1>1, <1>11, BindRenderbufferIs
  <1>12. ASSUME NEW r \in Renderbuffers \cup {None}, NEW p \in Points,
                FramebufferRenderbuffer(p, r)
         PROVE  Recorded'
    BY <1>1, <1>12, FramebufferRenderbufferIs
  <1>13. ASSUME NEW f \in Framebuffers, GenFramebuffers(f) PROVE Recorded'
    <2>1. /\ held' = held \cup {f} /\ state'.boundFb = state.boundFb
          /\ state'.fb = [state.fb EXCEPT ![f] = NewFramebuffer]
      BY <1>13, GenFramebuffersIs
    <2> QED BY <1>0, <2>1, NewOnes DEF Recorded
  <1>14. ASSUME NEW f \in Framebuffers \cup {None}, NEW right \in BOOLEAN,
                BindFramebuffer(right, f)
         PROVE  Recorded'
    <2>1. /\ state'.fb = state.fb /\ held' = held /\ state'.boundFb = f
          /\ f = None \/ f \in held
      BY <1>14, BindFramebufferIs
    <2> QED BY <2>1 DEF Recorded
  <1>15. ASSUME NEW f \in Framebuffers, DeleteFramebuffers(f) PROVE Recorded'
    BY <1>1, <1>15, DeleteFramebuffersIs DEF Unless
  <1>16. ASSUME NEW level \in Levels, NEW size \in Sizes, NEW flag \in BOOLEAN,
                TexImage(level, size) \/ CopyTexImage(level, size, flag)
         PROVE  Recorded'
    <2>1. /\ state'.fb = MarkedOf(state.boundTex) /\ held' = held
          /\ state'.boundFb = state.boundFb
      BY <1>16, TexImageIs, CopyTexImageIs
    <2> QED BY <1>0, <1>1, <2>1, MarkedOfIs
  <1>17. ASSUME NEW level \in Levels, NEW end \in Sizes, NEW flag \in BOOLEAN,
                TexSubImage(level, end, flag)
         PROVE  Recorded'
    BY <1>1, <1>17, TexSubImageIs
  <1>18. ASSUME NEW flag \in BOOLEAN, RenderbufferStorage(flag) PROVE Recorded'
    <2>1. state'.fb = Marked(state.boundFb) /\ held' = held /\ state'.boundFb = state.boundFb
      BY <1>18, RenderbufferStorageIs
    <2> QED BY <1>0, <1>1, <2>1, MarkedIs DEF TypesHeld
  <1>19. ASSUME CheckFramebufferStatus PROVE Recorded'
    BY <1>1, <1>19, CheckFramebufferStatusIs
  <1>20. ASSUME Draw PROVE Recorded'
    BY <1>1, <1>20, DrawIs
  <1>21. ASSUME GetError PROVE Recorded'
    BY <1>1, <1>21, GetErrorIs
  <1> QED BY KindOfStep, <1>2, <1>3, <1>4, <1>5, <1>6, <1>7, <1>8, <1>9, <1>10, <1>11, <1>12,
             <1>13, <1>14, <1>15, <1>16, <1>17, <1>18, <1>19, <1>20, <1>21

(* An error of the driver's is one of a flagged call; there is an error if *)
(* and only if there was a call that a driver refuses.                     *)
ErrorsKept ==
  /\ driver.error => state.needGet
  /\ driver.error \/ state.error <=> owed

LEMMA ErrorsStep ==
  ASSUME AllManners \subseteq Manners, TypesHeld, Bound, TexturesKept, AttachmentsKept,
         Recorded, ErrorsKept, [Next]_vars
  PROVE  ErrorsKept'
  <1>0. /\ state \in States /\ driver \in DriverContexts /\ Texture \in Textures \cup {None}
        /\ state.boundFb = driver.boundFb /\ state.boundFb \in Framebuffers \cup {None}
        /\ {"names", "rebinds", "levels", "sizes", "storage", "attaches", "asks"} \subseteq Manners
    BY Parts, StateParts DEF TypesHeld, Bound, AllManners
  (* What makes no error, or one of the driver's alone.                    *)
  <1>1. ASSUME state'.error = state.error, driver'.error = driver.error, owed' = owed,
               state.needGet => state'.needGet
        PROVE  ErrorsKept'
    BY <1>1 DEF ErrorsKept
  <1>2. ASSUME driver'.error, owed', state'.needGet PROVE ErrorsKept'
    BY <1>2 DEF ErrorsKept
  <1>3. ASSUME state'.error, driver'.error = driver.error, owed', state'.needGet = state.needGet
        PROVE  ErrorsKept'
    BY <1>3 DEF ErrorsKept
  <1>4. ASSUME UNCHANGED vars PROVE ErrorsKept'
    BY <1>4 DEF vars, ErrorsKept
  <1>5. ASSUME NEW u \in Units, ActiveTexture(u) PROVE ErrorsKept'
    BY <1>1, <1>5, ActiveTextureIs
  <1>6. ASSUME NEW v \in Params, TexParameter(v) PROVE ErrorsKept'
    BY <1>1, <1>6, TexParameterIs
  <1>7. ASSUME NEW t \in Textures, GenTextures(t) \/ DeleteTextures(t) PROVE ErrorsKept'
    BY <1>1, <1>7, GenTexturesIs, DeleteTexturesIs
  <1>8. ASSUME NEW t \in Textures \cup {None}, BindTexture(t) PROVE ErrorsKept'
    BY <1>1, <1>8, BindTextureIs
  <1>9. ASSUME NEW t \in Textures \cup {None}, FramebufferTexture2D(t) PROVE ErrorsKept'
    <2>1. driver.boundFb # None /\ Cached(driver.tex, t)
      BY <1>0, <1>9, FramebufferTexture2DIs DEF MayAttach
    <2>2. Attached("color", t) /\ state'.error = state.error /\ state'.needGet = state.needGet
      BY <1>9, <2>1, FramebufferTexture2DIs
    <2> QED BY <1>1, <2>2 DEF Attached
  <1>10. ASSUME NEW r \in Renderbuffers, GenRenderbuffers(r) \/ DeleteRenderbuffers(r)
         PROVE  ErrorsKept'
    BY <1>1, <1>10, GenRenderbuffersIs, DeleteRenderbuffersIs
  <1>11. ASSUME NEW r \in Renderbuffers \cup {None}, NEW right \in BOOLEAN,
                BindRenderbuffer(right, r)
         PROVE  ErrorsKept'
    BY <1>0, <1>1, <1>11, BindRenderbufferIs
  <1>12. ASSUME NEW r \in Renderbuffers \cup {None}, NEW p \in Points,
                FramebufferRenderbuffer(p, r)
         PROVE  ErrorsKept'
    <2>1. driver.boundFb # None /\ Cached(driver.rb, r)
      BY <1>0, <1>12, FramebufferRenderbufferIs DEF MayAttach
    <2>2. Attached(p, r) /\ state'.error = state.error /\ state'.needGet = state.needGet
      BY <1>12, <2>1, FramebufferRenderbufferIs
    <2> QED BY <1>1, <2>2 DEF Attached
  <1>13. ASSUME NEW f \in Framebuffers, GenFramebuffers(f) \/ DeleteFramebuffers(f)
         PROVE  ErrorsKept'
    BY <1>1, <1>13, GenFramebuffersIs, DeleteFramebuffersIs
  <1>14. ASSUME NEW f \in Framebuffers \cup {None}, NEW right \in BOOLEAN,
                BindFramebuffer(right, f)
         PROVE  ErrorsKept'
    BY <1>0, <1>1, <1>14, BindFramebufferIs
  <1>15. ASSUME NEW level \in Levels, NEW size \in Sizes, TexImage(level, size) PROVE ErrorsKept'
    BY <1>1, <1>15, TexImageIs
  <1>16. ASSUME NEW level \in Levels, NEW size \in Sizes, NEW flag \in BOOLEAN,
                CopyTexImage(level, size, flag)
         PROVE  ErrorsKept'
    BY <1>1, <1>2, <1>16, CopyTexImageIs
  <1>17. ASSUME NEW level \in Levels, NEW size \in Sizes, NEW flag \in BOOLEAN,
                TexSubImage(level, size, flag)
         PROVE  ErrorsKept'
    <2> DEFINE bad == ~Cached(state.tex, state.boundTex) \/ size > state.tex[state.boundTex].size
               fits == Texture # None /\ size <= driver.tex[Texture].image[level]
    <2>1. /\ level = Level0 /\ Texture \in Textures /\ Texture = state.boundTex
      BY <1>0, <1>17, TexSubImageIs DEF KnownTexture, KnownLevel, Bound
    <2>2. driver.tex[Texture] # Absent
      BY <1>0, <2>1, DriverParts, NamesApart DEF TypesHeld, ObjectsBound, Texture
    <2>3. /\ Cached(state.tex, Texture)
          /\ driver.tex[Texture].image[level] = state.tex[Texture].size
      BY <1>0, <2>1, <2>2, NamesApart DEF TexturesKept, TextureKept, SizeKept, Cached
    <2>4. state.tex[Texture].size \in Nat /\ size \in Nat
      BY <1>0, <2>3, <2>1, StateParts DEF Cached, TextureEntry, Sizes
    <2>5. bad <=> ~fits
      BY <2>1, <2>3, <2>4, NamesApart
    <2>6. \/ bad /\ (~fits => owed') /\ state'.error /\ driver'.error = driver.error
          \/ UNCHANGED owed /\ state'.error = state.error /\ driver'.error = driver.error
          \/ ~bad /\ (fits => state'.needGet) /\ driver'.error /\ owed'
      BY <1>17, TexSubImageIs
    <2>7. state.needGet => state'.needGet
      BY <1>17, TexSubImageIs
    <2> HIDE DEF bad, fits
    <2> QED BY <1>1, <1>2, <2>5, <2>6, <2>7 DEF ErrorsKept
  <1>18. ASSUME NEW flag \in BOOLEAN, RenderbufferStorage(flag) PROVE ErrorsKept'
    BY <1>1, <1>2, <1>18, RenderbufferStorageIs
  <1>19. ASSUME CheckFramebufferStatus PROVE ErrorsKept'
    BY <1>1, <1>19, CheckFramebufferStatusIs
  <1>20. ASSUME Draw PROVE ErrorsKept'
    <2>1. state'.needGet = state.needGet /\ Asked
      BY <1>0, <1>20, DrawIs
    <2>2. CASE UNCHANGED <<state, driver, owed>>
      BY <1>1, <2>2
    <2>3. CASE /\ Refused /\ driver'.error = driver.error /\ state'.error
               /\ ~(driver.boundFb = None \/ DriverComplete(driver.boundFb)) => owed'
      <3>1. state.boundFb \in Framebuffers /\ ~Complete(driver, state.boundFb)
        BY <1>0, <2>3 DEF Refused, Cached, AttachmentsKept, Known
      <3>2. ~(driver.boundFb = None \/ DriverComplete(driver.boundFb))
        BY <1>0, <2>3, <3>1, CompleteIs DEF TypesHeld, Refused, Cached
      <3> QED BY <1>3, <2>1, <2>3, <3>2
    <2>4. CASE ~Refused /\ ~(driver.boundFb = None \/ DriverComplete(driver.boundFb))
      <3>1. state.fb[state.boundFb].complete = "incomplete" /\ state.boundFb # None
        BY <1>0, <2>1, <2>4 DEF Asked
      <3> QED BY <2>4, <3>1 DEF Recorded, Refused, Cached
    <2> QED BY <1>20, <2>2, <2>3, <2>4, DrawIs
  <1>21. ASSUME GetError PROVE ErrorsKept'
    BY <1>21, GetErrorIs DEF ErrorsKept
  <1> QED BY KindOfStep, <1>4, <1>5, <1>6, <1>7, <1>8, <1>9, <1>10, <1>11, <1>12, <1>13, <1>14,
             <1>15, <1>16, <1>17, <1>18, <1>19, <1>20, <1>21

LEMMA ErrorsInit == Init => Recorded /\ ErrorsKept
  BY DEF Init, Recorded, ErrorsKept

(* glGetError reports an error if and only if the driver alone would have, *)
(* except one the client found before a flagged call: of an application    *)
(* with all the manners, which also asks for the status of a framebuffer   *)
(* before it draws to it.                                                  *)
THEOREM ErrorsAreReported ==
  ASSUME AllManners \subseteq Manners
  PROVE  Spec => []ErrorIsReported
  <1> DEFINE Inv == /\ TypesHeld /\ Bound /\ TexturesKept /\ AttachmentsKept
                    /\ Recorded /\ ErrorsKept
  <1>1. Init => Inv
    BY TypesInit, BoundInit, TexturesInit, AttachmentsInit, ErrorsInit
  <1>2. Inv /\ [Next]_vars => Inv'
    BY TypesStep, BoundStep, TexturesStep, AttachmentsStep, RecordedStep, ErrorsStep
       DEF AllManners
  <1>3. Inv => ErrorIsReported
    BY Parts, StateParts, DriverParts DEF TypesHeld, ErrorsKept, ErrorIsReported, Reported
  <1> QED BY <1>1, <1>2, <1>3, PTL DEF Spec

===============================================================================
