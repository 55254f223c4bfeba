--------------------------- MODULE FramebufferCache ---------------------------
(***************************************************************************)
(* What the caching client of one context remembers of textures,           *)
(* renderbuffers, framebuffers and errors, and what it decides from it:    *)
(* which call to skip, which to refuse, which error to report.             *)
(*                                                                         *)
(* Commands reach the driver in order (CommandStream), it answers a query  *)
(* when all of them have run, and nothing else changes its context.  So    *)
(* `driver' is what it has once it has run what was sent, and a call       *)
(* changes it and the client's `state' in one step.                        *)
(*                                                                         *)
(* There is a current context, and what is not a name or a target among    *)
(* the arguments is valid.  Textures are GL_TEXTURE_2D ones.  Width and    *)
(* height of an image are one size, 0 if there is none; there is one       *)
(* parameter, with one of two values; all errors are one.                  *)
(* The attachment point for depth is treated like the one for colour.      *)
(* glGen* and glDelete* take one name.                                     *)
(***************************************************************************)
EXTENDS Naturals

CONSTANTS
  Textures, Renderbuffers, Framebuffers,  \* names
  Units,     \* texture units
  Unit0,     \* GL_TEXTURE0
  Levels,    \* mipmap levels
  Level0,    \* the level that is drawn to
  MaxSize,   \* bound: sizes of images
  Pname,     \* the texture parameter followed: "filter" or "anisotropy"
  None,      \* the name 0
  Absent,    \* no entry in a cache, no object in the driver
  Casts,     \* bound: sets of names, one of which the application uses
  Manners    \* what the application keeps to, see AllManners

(* What an application may keep to, beyond what GL asks of it, for the     *)
(* records to be able to follow:                                           *)
(*   "names"    use names it has got, and right targets;                   *)
(*   "rebinds"  call for textures only where it has bound one since it     *)
(*              came to the unit (glActiveTexture forgets the binding);    *)
(*   "parameters"  leave alone GL_TEXTURE_MAX_ANISOTROPY_EXT (its record   *)
(*              is not initialised);                                       *)
(*   "levels"   give and update images of level 0 only (the record does    *)
(*              not say whose size it has);                                *)
(*   "sizes"    copy or decompress an image only over one of its size that *)
(*              glTexImage2D made (only that records the size);            *)
(*   "storage"  give storage to renderbuffers attached to no other         *)
(*              framebuffer than the one bound (only that one is marked);  *)
(*   "attaches" attach what exists, to one framebuffer at a time (only the *)
(*              last is remembered), and not take it off (is not marked);  *)
(*   "asks"     ask for the status of a framebuffer before drawing to it   *)
(*              (the error of the draw is not flagged).                    *)
AllManners ==
  {"names", "rebinds", "parameters", "levels", "sizes", "storage", "attaches", "asks"}

Params   == {"initial", "other"}
Sizes    == 0 .. MaxSize
Points   == {"color", "stencil"}
Statuses == {"complete", "incomplete", "unknown"}
Nameless == "deleted, but not in the driver"
Orphans  == {"deleted, with image", "deleted, without"}

(* texture_t and framebuffer_t, and what the driver has for them.          *)
TextureEntry     == [fb : Framebuffers \cup {None}, size : Sizes, param : Params]
FramebufferEntry == [color : Renderbuffers \cup {None}, stencil : Renderbuffers \cup {None},
                     complete : Statuses]
TextureObject    == [image : [Levels -> Sizes], param : Params]
Attachments      == [Points -> Textures \cup Renderbuffers \cup Orphans \cup {None}]

(* egl_state_t, as far as it is about these, and the driver's context.     *)
States ==
  [unit : Units, boundTex : Textures \cup {None},
   boundRb : Renderbuffers \cup {None}, boundFb : Framebuffers \cup {None},
   tex : [Textures -> {Absent} \cup TextureEntry],
   rb : [Renderbuffers -> Framebuffers \cup {None, Absent}],
   fb : [Framebuffers -> {Absent} \cup FramebufferEntry],
   param : Params, error : BOOLEAN, needGet : BOOLEAN]
DriverContexts ==
  [unit : Units, boundTex : [Units -> Textures \cup {None}],
   boundRb : Renderbuffers \cup {None, Nameless}, boundFb : Framebuffers \cup {None},
   tex : [Textures -> {Absent} \cup TextureObject],
   rb : [Renderbuffers -> {Absent, "image", "no image"}],
   fb : [Framebuffers -> {Absent} \cup Attachments],
   param : Params, error : BOOLEAN]

(* The three kinds of names have nothing in common here, so that `held'    *)
(* can be one set.                                                         *)
ASSUME NamesAssumption ==
  /\ Unit0 \in Units /\ Level0 \in Levels /\ MaxSize \in Nat
  /\ ({None, Absent, Nameless} \cup Orphans)
       \cap (Textures \cup Renderbuffers \cup Framebuffers) = {}
  /\ Textures \cap Renderbuffers = {}
  /\ Framebuffers \cap (Textures \cup Renderbuffers) = {}
  /\ None \notin {Absent, Nameless} \cup Orphans
  /\ Absent \notin TextureEntry \cup FramebufferEntry \cup TextureObject \cup Attachments
  /\ Casts \subseteq SUBSET (Textures \cup Renderbuffers \cup Framebuffers)
  /\ Manners \subseteq AllManners
  /\ Pname \in {"filter", "anisotropy"}
  /\ "parameters" \in Manners => Pname # "anisotropy"

VARIABLES
  state,   \* egl_state_t
  driver,  \* the driver's context (external)
  held,    \* names the application got and has not deleted
  cast,    \* the names it uses
  owed     \* history: since the last glGetError a call was made that a
           \* GLES 2.0 driver refuses

vars == <<state, driver, held, cast, owed>>

(* Mutated form: a field that malloc left as it was.                       *)
NewTexture_NoFramebuffer(v) == [size |-> 0, param |-> v]

(* _create_texture, _create_framebuffer, and what the driver starts from.  *)
(* The anisotropy of a texture is what malloc left (LeftBy), and that of   *)
(* the default texture, which is static, is zero.                          *)
LeftBy         == IF Pname = "anisotropy" THEN Params ELSE {"initial"}
NewTexture(v)  == [fb |-> None, size |-> 0, param |-> v]
DefaultParam   == IF Pname = "anisotropy" THEN "other" ELSE "initial"
NewFramebuffer == [color |-> None, stencil |-> None, complete |-> "complete"]
DriverTexture  == [image |-> [l \in Levels |-> 0], param |-> "initial"]
Unattached     == [p \in Points |-> None]

Init ==
  /\ state = [unit |-> Unit0, boundTex |-> None, boundRb |-> None, boundFb |-> None,
              tex |-> [t \in Textures |-> Absent],
              rb  |-> [r \in Renderbuffers |-> Absent],
              fb  |-> [f \in Framebuffers |-> Absent],
              param |-> DefaultParam, error |-> FALSE, needGet |-> FALSE]
  /\ driver = [unit |-> Unit0, boundTex |-> [u \in Units |-> None],
               boundRb |-> None, boundFb |-> None,
               tex |-> [t \in Textures |-> Absent],
               rb  |-> [r \in Renderbuffers |-> Absent],
               fb  |-> [f \in Framebuffers |-> Absent],
               param |-> "initial", error |-> FALSE]
  /\ held = {} /\ cast \in Casts /\ owed = FALSE

-----------------------------------------------------------------------------
(* The driver.                                                             *)

HasImage(a) ==
  \/ a = "deleted, with image"
  \/ a \in Textures /\ driver.tex[a] # Absent /\ driver.tex[a].image[Level0] # 0
  \/ a \in Renderbuffers /\ driver.rb[a] = "image"

(* Something is attached, and all of it has an image.                      *)
DriverComplete(f) ==
  /\ driver.fb[f] # Absent
  /\ driver.fb[f] # Unattached
  /\ \A p \in Points : driver.fb[f][p] = None \/ HasImage(driver.fb[f][p])

AttachedTo(x) ==
  {f \in Framebuffers : driver.fb[f] # Absent /\ \E p \in Points : driver.fb[f][p] = x}

(* A deleted image leaves framebuffer `from'; others keep it, nameless.    *)
WithoutName(x, from) ==
  [f \in Framebuffers |->
     IF f \notin AttachedTo(x) THEN driver.fb[f]
     ELSE [p \in Points |->
             IF driver.fb[f][p] # x THEN driver.fb[f][p]
             ELSE IF f = from THEN None
             ELSE IF HasImage(x) THEN "deleted, with image" ELSE "deleted, without"]]

(* Binding a name that has no entry makes one.                             *)
WithEntry(table, x, new) ==
  IF x = None \/ table[x] # Absent THEN table ELSE [table EXCEPT ![x] = new]

Released(x, gone) == IF x = gone THEN None ELSE x

Texture == driver.boundTex[driver.unit]

-----------------------------------------------------------------------------
(* Parts of the calls.                                                     *)

(* Mutated forms: a status recorded as incomplete stays; the binding of a  *)
(* unit that is left stays; the size of an image is only recorded if it is *)
(* attached; what is deleted stays bound; a draw is never refused.         *)
Marked_OnlyComplete(f) ==
  IF f = None \/ state.fb[f] = Absent \/ state.fb[f].complete = "incomplete" THEN state.fb
  ELSE [state.fb EXCEPT ![f].complete = "unknown"]
BindingLeft_Kept        == state.boundTex
SizeRecorded_Attached(t, size) == IF state.tex[t].fb = None THEN state.tex[t].size ELSE size
Unless_Never(x, r)      == x
Refused_Never           == FALSE

(* caching_client_glSetError for a call that a driver refuses, or not.     *)
Refuse(rightly) ==
  /\ state' = [state EXCEPT !.error = TRUE]
  /\ owed' = (owed \/ rightly)
  /\ UNCHANGED <<driver, held, cast>>

(* The driver refuses a call that was sent.                                *)
Rejected(s) ==
  /\ state' = s
  /\ driver' = [driver EXCEPT !.error = TRUE]
  /\ owed' = TRUE
  /\ UNCHANGED <<held, cast>>

(* The status of framebuffer f is not known any more.                      *)
Marked(f) ==
  IF f = None \/ state.fb[f] = Absent THEN state.fb
  ELSE [state.fb EXCEPT ![f].complete = "unknown"]

(* The binding or attachment x, unless it was of r, which is deleted.      *)
Unless(x, r) == IF x = r THEN None ELSE x

Cached(table, x) == x # None /\ table[x] # Absent

KnownTexture      == "rebinds" \in Manners => state.boundTex # None
KnownLevel(level) == "levels" \in Manners => level = Level0

-----------------------------------------------------------------------------
(* Textures.                                                               *)

(* glActiveTexture: what is bound on the unit is not remembered.           *)
BindingLeft == None
ActiveTexture(u) ==
  /\ u # state.unit
  /\ state' = [state EXCEPT !.unit = u, !.boundTex = BindingLeft]
  /\ driver' = [driver EXCEPT !.unit = u]
  /\ UNCHANGED <<held, cast, owed>>

GenTextures(t) ==
  /\ t \notin held /\ held' = held \cup {t}
  /\ \E v \in LeftBy : state' = [state EXCEPT !.tex[t] = NewTexture(v)]
  /\ UNCHANGED <<driver, cast, owed>>

(* glBindTexture: skipped if the record has the name bound.                *)
BindTexture(t) ==
  /\ t # state.boundTex
  /\ "names" \in Manners => t = None \/ t \in held
  /\ \E v \in LeftBy :
       state' = [state EXCEPT !.boundTex = t, !.tex = WithEntry(@, t, NewTexture(v))]
  /\ driver' = [driver EXCEPT !.boundTex[driver.unit] = t,
                              !.tex = WithEntry(@, t, DriverTexture)]
  /\ held' = held \cup ({t} \ {None})
  /\ UNCHANGED <<cast, owed>>

(* glTexParameteri: sent if it changes the record of the texture bound, or *)
(* of the default texture.                                                 *)
TexParameter(v) ==
  /\ KnownTexture
  /\ LET t == state.boundTex IN
       IF Cached(state.tex, t)
       THEN /\ v # state.tex[t].param
            /\ state' = [state EXCEPT !.tex[t].param = v]
       ELSE /\ v # state.param
            /\ state' = [state EXCEPT !.param = v]
  /\ driver' = IF Texture = None THEN [driver EXCEPT !.param = v]
               ELSE [driver EXCEPT !.tex[Texture].param = v]
  /\ UNCHANGED <<held, cast, owed>>

(* glTexParameterf goes on to glTexParameteri with what is left of a value *)
(* without its fraction, so that this is what is recorded and sent last.   *)
Truncated(v) == IF v = "initial and a fraction" THEN "initial" ELSE v
TexParameterf(v) == TexParameter(Truncated(v))

(* glGetTexParameter*.                                                     *)
ParameterAnswered ==
  IF Cached(state.tex, state.boundTex) THEN state.tex[state.boundTex].param ELSE state.param

(* glTexImage2D: the size is recorded whatever level it is of.             *)
SizeRecorded(t, size) == size
TexImage(level, size) ==
  /\ KnownTexture /\ KnownLevel(level)
  /\ LET t == state.boundTex IN
       state' = IF Cached(state.tex, t)
                THEN [state EXCEPT !.tex[t].size = SizeRecorded(t, size),
                                   !.fb = Marked(state.tex[t].fb)]
                ELSE [state EXCEPT !.needGet = TRUE]
  /\ driver' = IF Texture = None THEN driver
               ELSE [driver EXCEPT !.tex[Texture].image[level] = size]
  /\ UNCHANGED <<held, cast, owed>>

(* glCopyTexImage2D and glCompressedTexImage2D, which the driver may       *)
(* refuse; the record of the size stays as it is.                          *)
CopyTexImage(level, size, accepted) ==
  /\ KnownTexture /\ KnownLevel(level)
  /\ "sizes" \in Manners /\ Cached(state.tex, state.boundTex) =>
       state.tex[state.boundTex].size = size
  /\ LET t == state.boundTex
         s == [state EXCEPT !.needGet = TRUE,
                            !.fb = IF Cached(state.tex, t) THEN Marked(state.tex[t].fb) ELSE @]
     IN IF accepted
        THEN /\ state' = s
             /\ driver' = IF Texture = None THEN driver
                          ELSE [driver EXCEPT !.tex[Texture].image[level] = size]
             /\ UNCHANGED <<held, cast, owed>>
        ELSE Rejected(s)

(* glTexSubImage2D of a part that ends at `end', in the format of the image*)
(* or another one: compared with the size recorded, whatever the level.    *)
TexSubImage(level, end, sameFormat) ==
  /\ KnownTexture /\ KnownLevel(level)
  /\ LET t == state.boundTex
         s == [state EXCEPT !.needGet = @ \/ ~sameFormat]
         right == sameFormat /\ Texture # None /\ end <= driver.tex[Texture].image[level]
     IN IF ~Cached(state.tex, t) \/ end > state.tex[t].size THEN Refuse(~right)
        ELSE IF right THEN state' = s /\ UNCHANGED <<driver, held, cast, owed>>
        ELSE Rejected(s)

DeleteTextures(t) ==
  /\ t \in held /\ held' = held \ {t}
  /\ state' = [state EXCEPT !.fb = Marked(state.tex[t].fb),
                            !.tex[t] = Absent,
                            !.boundTex = Unless(@, t)]
  /\ driver' = [driver EXCEPT !.fb = WithoutName(t, driver.boundFb),
                              !.tex[t] = Absent,
                              !.boundTex = [u \in Units |-> Released(@[u], t)]]
  /\ UNCHANGED <<cast, owed>>

-----------------------------------------------------------------------------
(* Renderbuffers.  Their entries stay in the cache, and the driver never   *)
(* deletes them: server.c:257 asks it to delete buffers of that name.      *)

GenRenderbuffers(r) ==
  /\ r \notin held /\ held' = held \cup {r}
  /\ state' = [state EXCEPT !.rb[r] = None]
  /\ UNCHANGED <<driver, cast, owed>>

(* A wrong target is an error and nevertheless recorded and sent.          *)
BindRenderbuffer(right, r) ==
  LET s == [state EXCEPT !.boundRb = r, !.error = @ \/ ~right] IN
    /\ "names" \in Manners => right /\ (r = None \/ r \in held)
    /\ IF right
       THEN /\ state' = s
            /\ driver' = [driver EXCEPT !.boundRb = r, !.rb = WithEntry(@, r, "no image")]
            /\ UNCHANGED <<held, cast, owed>>
       ELSE Rejected(s)

(* glRenderbufferStorage marks the framebuffer that is bound.  What a      *)
(* nameless renderbuffer gets is not followed.                             *)
StorageMarks == state.boundFb
RenderbufferStorage(accepted) ==
  LET s == [state EXCEPT !.needGet = TRUE, !.fb = Marked(StorageMarks)]
      r == driver.boundRb
  IN /\ r # Nameless
     /\ "names" \in Manners => r # None
     /\ "storage" \in Manners => AttachedTo(r) \subseteq {driver.boundFb}
     /\ IF accepted /\ r # None
        THEN /\ state' = s
             /\ driver' = [driver EXCEPT !.rb[r] = "image"]
             /\ UNCHANGED <<held, cast, owed>>
        ELSE Rejected(s)

(* Those of four extensions for multisampled renderbuffers do the same.    *)
RenderbufferStorageMultisample(accepted) == RenderbufferStorage(accepted)

DeleteRenderbuffers(r) ==
  /\ r \in held /\ held' = held \ {r}
  /\ LET f == state.rb[r]
         g == state.fb[f]
     IN state' = [state EXCEPT
          !.fb = IF f = None \/ g = Absent THEN @
                 ELSE [@ EXCEPT ![f] = [color |-> Unless(g.color, r),
                                        stencil |-> Unless(g.stencil, r),
                                        complete |-> "unknown"]],
          !.boundRb = Unless(@, r)]
  /\ driver' = [driver EXCEPT !.fb = WithoutName(r, None),
                              !.rb[r] = Absent,
                              !.boundRb = IF @ = r THEN Nameless ELSE @]
  /\ UNCHANGED <<cast, owed>>

-----------------------------------------------------------------------------
(* Framebuffers.  Their entries stay in the cache, too.                    *)

GenFramebuffers(f) ==
  /\ f \notin held /\ held' = held \cup {f}
  /\ state' = [state EXCEPT !.fb[f] = NewFramebuffer]
  /\ UNCHANGED <<driver, cast, owed>>

(* glBindFramebuffer: skipped if the record has the name bound.  A wrong   *)
(* target is an error and nevertheless recorded and sent.                  *)
BindFramebuffer(right, f) ==
  LET s == [state EXCEPT !.boundFb = f, !.error = @ \/ ~right] IN
    /\ ~(right /\ f = state.boundFb)
    /\ "names" \in Manners => right /\ (f = None \/ f \in held)
    /\ IF right
       THEN /\ state' = s
            /\ driver' = [driver EXCEPT !.boundFb = f, !.fb = WithEntry(@, f, Unattached)]
            /\ UNCHANGED <<held, cast, owed>>
       ELSE Rejected(s)

MayAttach(objects, x) ==
  "attaches" \in Manners => /\ driver.boundFb # None
                            /\ Cached(objects, x) /\ x \in held
                            /\ AttachedTo(x) \subseteq {driver.boundFb}

(* What the driver makes of it.                                            *)
Attach(s, p, x, exists) ==
  IF driver.boundFb # None /\ (x = None \/ exists)
  THEN /\ state' = s
       /\ driver' = [driver EXCEPT !.fb[driver.boundFb][p] = x]
       /\ UNCHANGED <<held, cast, owed>>
  ELSE Rejected(s)

(* glFramebufferTexture2D: without an entry for the texture, or with the   *)
(* name 0, nothing is recorded.                                            *)
FramebufferTexture2D(t) ==
  /\ MayAttach(driver.tex, t)
  /\ Attach(IF Cached(state.tex, t)
            THEN [state EXCEPT !.tex[t].fb = state.boundFb, !.fb = Marked(state.boundFb)]
            ELSE state,
            "color", t, Cached(driver.tex, t))

(* As do those of the extensions, for a layer and for more samples.        *)
FramebufferTexture3DOES(t)         == FramebufferTexture2D(t)
FramebufferTexture2DMultisample(t) == FramebufferTexture2D(t)

(* glFramebufferRenderbuffer.                                              *)
FramebufferRenderbuffer(p, r) ==
  /\ MayAttach(driver.rb, r)
  /\ LET f == state.boundFb
         known == Cached(state.fb, f)
         marked == IF known THEN [state EXCEPT !.fb[f] = [[@ EXCEPT ![p] = r] EXCEPT !.complete = "unknown"]]
                   ELSE state
     IN Attach(IF Cached(state.rb, r) THEN [marked EXCEPT !.rb[r] = f] ELSE marked,
               p, r, Cached(driver.rb, r))

(* glCheckFramebufferStatus.                                               *)
CheckFramebufferStatus ==
  /\ Cached(state.fb, state.boundFb)
  /\ state' = [state EXCEPT !.fb[state.boundFb].complete =
                 IF driver.boundFb = None \/ DriverComplete(driver.boundFb)
                 THEN "complete" ELSE "incomplete"]
  /\ UNCHANGED <<driver, held, cast, owed>>

(* glDeleteFramebuffers: of what was attached, only a stencil buffer is    *)
(* told, and only if it is not the colour buffer as well.                  *)
DeleteFramebuffers(f) ==
  /\ f \in held /\ held' = held \ {f}
  /\ LET g == state.fb[f] IN
       state' = [state EXCEPT
         !.rb = [r \in Renderbuffers |->
                   IF r = g.stencil /\ r # g.color /\ @[r] # Absent THEN None ELSE @[r]],
         !.boundFb = Unless(@, f)]
  /\ driver' = [driver EXCEPT !.fb[f] = Absent, !.boundFb = Released(@, f)]
  /\ UNCHANGED <<cast, owed>>

(* glClear, glDrawArrays and glDrawElements: refused for a framebuffer     *)
(* that is recorded as incomplete.                                         *)
Refused == Cached(state.fb, state.boundFb) /\ state.fb[state.boundFb].complete = "incomplete"
Asked ==
  LET f == state.boundFb IN
    f # None => state.fb[f].complete = IF DriverComplete(f) THEN "complete" ELSE "incomplete"
Draw ==
  LET drawn == driver.boundFb = None \/ DriverComplete(driver.boundFb) IN
    /\ "asks" \in Manners => Asked
    /\ IF Refused THEN Refuse(~drawn)
       ELSE IF drawn THEN UNCHANGED vars
       ELSE Rejected(state)

-----------------------------------------------------------------------------
(* Errors.                                                                 *)

(* glGetError: the driver is asked only if a flagged call was made, and    *)
(* the client's own error is then dropped.                                 *)
Reported == IF state.needGet THEN driver.error ELSE state.error
GetError ==
  /\ state' = [state EXCEPT !.error = FALSE, !.needGet = FALSE]
  /\ driver' = [driver EXCEPT !.error = @ /\ ~state.needGet]
  /\ owed' = FALSE
  /\ UNCHANGED <<held, cast>>

-----------------------------------------------------------------------------
Next ==
  \/ \E u \in Units : ActiveTexture(u)
  \/ \E v \in Params : TexParameter(v)
  \/ \E v \in Params \cup {"initial and a fraction"} : TexParameterf(v)
  \/ \E t \in Textures \cap cast : GenTextures(t) \/ DeleteTextures(t)
  \/ \E r \in Renderbuffers \cap cast : GenRenderbuffers(r) \/ DeleteRenderbuffers(r)
  \/ \E f \in Framebuffers \cap cast : GenFramebuffers(f) \/ DeleteFramebuffers(f)
  \/ \E t \in (Textures \cap cast) \cup {None} : 
       \/ BindTexture(t) \/ FramebufferTexture2D(t)
       \/ FramebufferTexture3DOES(t) \/ FramebufferTexture2DMultisample(t)
  \/ \E r \in (Renderbuffers \cap cast) \cup {None} :
       \/ \E right \in BOOLEAN : BindRenderbuffer(right, r)
       \/ \E p \in Points : FramebufferRenderbuffer(p, r)
  \/ \E f \in (Framebuffers \cap cast) \cup {None}, right \in BOOLEAN : BindFramebuffer(right, f)
  \/ \E flag \in BOOLEAN :
       \/ RenderbufferStorage(flag) \/ RenderbufferStorageMultisample(flag)
       \/ \E level \in Levels, size \in Sizes :
            CopyTexImage(level, size, flag) \/ (size # 0 /\ TexSubImage(level, size, flag))
  \/ \E level \in Levels, size \in Sizes : TexImage(level, size)
  \/ CheckFramebufferStatus \/ Draw \/ GetError

Spec == Init /\ [][Next]_vars

-----------------------------------------------------------------------------
(* Properties.                                                             *)

TypeOK ==
  /\ state \in States
  /\ driver \in DriverContexts
  /\ held \subseteq cast
  /\ owed \in BOOLEAN

(* What the client takes for bound is bound in the driver, so that a call  *)
(* it skips or records elsewhere has the effect it counts on.  A texture   *)
(* binding of 0 may mean that it does not know (glActiveTexture), and a    *)
(* renderbuffer is not unbound when it is deleted (server.c:257).          *)
BindingsAgree ==
  /\ state.boundRb \in {None, driver.boundRb}
  /\ state.boundFb = driver.boundFb
  /\ state.boundTex \in {None, Texture}

(* glGetTexParameter* answers from the cache what the driver would, of the *)
(* texture bound, and would of any other once it is bound.                 *)
ParametersAgree ==
  /\ KnownTexture => ParameterAnswered =
       IF Texture = None THEN driver.param ELSE driver.tex[Texture].param
  /\ state.param = driver.param
  /\ \A t \in Textures : driver.tex[t] # Absent =>
       state.tex[t] # Absent /\ state.tex[t].param = driver.tex[t].param

(* README: 'a "virtual" OpenGL ES 2.0 driver'.  A draw that the client     *)
(* refuses on its own the driver would refuse, too, after any sequence of  *)
(* changes to the images and attachments; and so for a part of an image,   *)
(* of any level and up to any place in it.                                 *)
RefusedDrawIsWrong ==
  \A f \in Framebuffers :
    Cached(state.fb, f) /\ state.fb[f].complete = "incomplete" => ~DriverComplete(f)
RefusedPartIsWrong ==
  \A t \in Textures :
    Cached(state.tex, t) /\ driver.tex[t] # Absent =>
      \A level \in Levels, end \in Sizes :
        end > state.tex[t].size => end > driver.tex[t].image[level]

(* glGetError reports no error but one of a call since the last time, and  *)
(* it does report one, whether the client or the driver found it, unless   *)
(* the client found it and some call since had to be flagged: it then asks *)
(* the driver, and drops the client's error.                               *)
ErrorIsReported ==
  /\ Reported => owed
  /\ owed => Reported \/ (state.error /\ state.needGet)
=============================================================================
