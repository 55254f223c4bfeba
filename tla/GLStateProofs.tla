---------------------------- MODULE GLStateProofs ----------------------------
(***************************************************************************)
(* Proofs about the fixed-function state, for any sequence of calls of any *)
(* groups: what the record, the driver and a driver that got every call    *)
(* have in common, and that glGetError tells the first error.              *)
(***************************************************************************)
EXTENDS GLState, TLAPS

(***************************************************************************)
(* A step is one of a few kinds, whichever of the calls makes it.          *)
(***************************************************************************)

(* The values of a call, by field.  A pair of destination factors is       *)
(* alike: only glBlendFuncSeparate can give two.                           *)
Assigns(v) ==
  /\ DOMAIN v \subseteq Fields
  /\ \A f \in DOMAIN v : v[f] \in Given \cup {"zero"}
  /\ "dst_rgb" \in DOMAIN v <=> "dst_alpha" \in DOMAIN v
  /\ "dst_rgb" \in DOMAIN v => v["dst_rgb"] = v["dst_alpha"]

Setting    == \E v : Assigns(v) /\ \E code \in Errors : Set(v, code)
Separate   == \E s, t, d, e \in Given : BlendFuncSeparate(s, d, t, e)
Clearing   == \E v : Assigns(v) /\ Valid(v) /\ ClearTo(v)
Refusing   == \E code \in Errors : Refuse(code, code)
Misjudging == "stores" \notin Manners /\ Refuse("invalid value", "invalid enum")
Unknown    ==
  /\ "caps" \notin Manners
  /\ \/ Rejected(With(state, [line_width |-> "zero"]), "invalid value")
     \/ Rejected(state, "invalid enum")
Flagging   == \E m \in Given, accepted \in BOOLEAN : HintElse(m, accepted)
Local      ==
  \/ \E x \in Values : state' = [state EXCEPT !.skips = x] /\ UNCHANGED <<driver, gl, uses>>
  \/ \E complete \in BOOLEAN : CheckFramebufferStatus(complete)

Kinds == Setting \/ Separate \/ Clearing \/ Refusing \/ Misjudging \/ Unknown
           \/ Flagging \/ Local \/ GetError

LEMMA OneField ==
  ASSUME NEW f \in Fields, f \notin {"dst_rgb", "dst_alpha"}, NEW x \in Given \cup {"zero"}
  PROVE  Assigns([g \in {f} |-> x])
  BY DEF Assigns

LEMMA AssignsEach ==
  ASSUME NEW x \in Given \cup {"zero"}
  PROVE  /\ Assigns([blend_color |-> x])
         /\ Assigns([color_clear_value |-> x])
         /\ Assigns([depth_clear_value |-> x])
         /\ Assigns([stencil_clear_value |-> x])
         /\ Assigns([color_writemask |-> x])
         /\ Assigns([depth_writemask |-> x])
         /\ Assigns([depth_func |-> x])
         /\ Assigns([depth_range |-> x])
         /\ Assigns([cull_face_mode |-> x])
         /\ Assigns([front_face |-> x])
         /\ Assigns([polygon_offset |-> x])
         /\ Assigns([sample_coverage_value |-> x])
         /\ Assigns([scissor_box |-> x])
         /\ Assigns([viewport |-> x])
         /\ Assigns([line_width |-> x])
         /\ Assigns([generate_mipmap_hint |-> x])
  BY DEF Assigns, Fields, Caps, Stencil, Ops, Clears, Blends, Others

LEMMA AssignsPair ==
  ASSUME NEW x \in Given, NEW y \in Given
  PROVE  Assigns([equation_rgb |-> x, equation_alpha |-> y])
  BY DEF Assigns, Fields, Blends

LEMMA AssignsFactors ==
  ASSUME NEW s \in Given, NEW d \in Given
  PROVE  Assigns([src_rgb |-> s, src_alpha |-> s, dst_rgb |-> d, dst_alpha |-> d])
  BY DEF Assigns, Fields, Blends

LEMMA AssignsSides ==
  ASSUME NEW face, NEW x \in Given, NEW front \in Stencil \cup Ops, NEW back \in Stencil \cup Ops
  PROVE  Assigns([f \in Sides(face, front, back) |-> x])
  <1>1. Sides(face, front, back) \subseteq {front, back}
    BY DEF Sides
  <1>2. front \in Fields /\ back \in Fields
    BY DEF Fields
  <1>3. front \notin {"dst_rgb", "dst_alpha"} /\ back \notin {"dst_rgb", "dst_alpha"}
    BY DEF Stencil, Ops
  <1> QED BY <1>1, <1>2, <1>3 DEF Assigns

LEMMA KindOfStep ==
  ASSUME Next
  PROVE  Kinds
  <1> USE DEF Kinds
  <1>0. "none" \in Errors /\ "invalid enum" \in Errors /\ "invalid value" \in Errors
        /\ Values \subseteq Given
    BY DEF Errors, Given
  <1>1. ASSUME NEW v, NEW code \in Errors, Assigns(v), Set(v, code)
        PROVE  Kinds
    BY <1>1 DEF Setting
  <1>2. ASSUME NEW s \in Given, NEW d \in Given, BlendFunc(s, d)
        PROVE  Kinds
    BY <1>0, <1>1, <1>2, AssignsFactors DEF BlendFunc
  <1>3. ASSUME NEW s \in Given, NEW t \in Given, NEW d \in Given, NEW e \in Given,
               BlendFuncSeparate(s, d, t, e)
        PROVE  Kinds
    BY <1>3 DEF Separate
  <1>4. ASSUME NEW x \in Values, BlendColor(x)
        PROVE  Kinds
    BY <1>0, <1>1, <1>4, AssignsEach DEF BlendColor
  <1>5. ASSUME NEW m \in Given, NEW n \in Given,
               BlendEquation(m) \/ BlendEquationSeparate(m, n)
        PROVE  Kinds
    BY <1>0, <1>1, <1>5, AssignsPair DEF BlendEquation, BlendEquationSeparate
  <1>6. ASSUME NEW x \in Values, ClearColor(x) \/ ClearDepthf(x) \/ ClearStencil(x)
        PROVE  Kinds
    <2>1. Valid([color_clear_value |-> x]) /\ Valid([depth_clear_value |-> x])
            /\ Valid([stencil_clear_value |-> x])
      BY DEF Valid, Values
    <2> QED BY <1>0, <1>6, <2>1, AssignsEach DEF ClearColor, ClearDepthf, ClearStencil, Clearing
  <1>7. ASSUME NEW x \in Values,
               DepthMask(x) \/ DepthRangef(x) \/ ColorMask(x) \/ PolygonOffset(x) \/ SampleCoverage(x)
        PROVE  Kinds
    BY <1>0, <1>1, <1>7, AssignsEach
       DEF DepthMask, DepthRangef, ColorMask, PolygonOffset, SampleCoverage
  <1>8. ASSUME NEW x \in Given,
               DepthFunc(x) \/ CullFace(x) \/ FrontFace(x) \/ Scissor(x) \/ Viewport(x) \/ Hint(x)
        PROVE  Kinds
    BY <1>0, <1>1, <1>8, AssignsEach DEF DepthFunc, CullFace, FrontFace, Scissor, Viewport, Hint
  <1>9. ASSUME NEW w \in Given \cup {"zero"}, LineWidth(w)
        PROVE  Kinds
    <2>1. CASE w # "zero" \/ Recorded([line_width |-> w])
      BY <1>0, <1>1, <1>9, <2>1, AssignsEach DEF LineWidth
    <2>2. CASE ~(w # "zero" \/ Recorded([line_width |-> w]))
      BY <1>9, <2>2 DEF LineWidth, Unknown
    <2> QED BY <2>1, <2>2
  <1>10. ASSUME NEW pname \in {"pack_alignment", "unpack_alignment", "skips", "unknown"},
                NEW x \in Given, PixelStorei(pname, x)
         PROVE  Kinds
    <2>1. CASE pname \in Fields
      <3>1. pname \notin {"dst_rgb", "dst_alpha"}
        OBVIOUS
      <3>2. Assigns([f \in {pname} |-> x])
        BY <2>1, <3>1, OneField
      <3> QED BY <1>0, <1>1, <1>10, <2>1, <3>2 DEF PixelStorei
    <2>2. CASE pname \notin Fields /\ x = "invalid"
      BY <1>0, <1>10, <2>2 DEF PixelStorei, Refusing
    <2>3. CASE pname \notin Fields /\ x # "invalid" /\ pname = "skips"
      <3>1. x \in Values
        BY <2>3 DEF Given
      <3> QED BY <1>10, <2>3, <3>1 DEF PixelStorei, Local
    <2>4. CASE pname \notin Fields /\ x # "invalid" /\ pname # "skips"
      BY <1>10, <2>4 DEF PixelStorei, Misjudging
    <2> QED BY <2>1, <2>2, <2>3, <2>4
  <1>11. ASSUME NEW c \in Caps \cup {"unknown"}, IsEnabled(c)
         PROVE  Kinds
    BY <1>0, <1>11 DEF IsEnabled, Refusing
  <1>12. ASSUME NEW c \in Caps \cup {"unknown"}, NEW on \in {"initial", "other"}, SetCap(c, on)
         PROVE  Kinds
    <2>1. CASE c \notin Caps
      BY <1>12, <2>1 DEF SetCap, Unknown
    <2>2. CASE c \in Caps
      <3> DEFINE v == [f \in {c} |-> on]
      <3>1. c \in Fields /\ c \notin {"dst_rgb", "dst_alpha"} /\ c \notin Misrecorded
        BY <2>2 DEF Fields, Caps, Misrecorded, Stencil
      <3>2. on \in Given
        BY DEF Given, Values
      <3>3. Assigns(v)
        BY <3>1, <3>2, OneField
      <3>4. Allowed(v) /\ Valid(v)
        BY <3>1 DEF Allowed, Valid
      <3>5. Set(v, "none")
        BY <1>12, <2>2, <3>4 DEF SetCap, Set
      <3> QED BY <1>0, <1>1, <3>3, <3>5
    <2> QED BY <2>1, <2>2
  <1>13. ASSUME NEW face, NEW x \in Given,
                \/ StencilFuncSeparate(face, x) \/ StencilFunc(x)
                \/ StencilMaskSeparate(face, x) \/ StencilMask(x)
                \/ StencilOpSeparate(face, x) \/ StencilOp(x)
         PROVE  Kinds
    <2>1. ASSUME NEW side, NEW front \in Stencil \cup Ops, NEW back \in Stencil \cup Ops,
                 PerFace(side, front, back, x)
          PROVE  Kinds
      <3>1. CASE side = "invalid"
        BY <1>0, <2>1, <3>1 DEF PerFace, Refusing
      <3>2. CASE side # "invalid"
        BY <1>0, <1>1, <2>1, <3>2, AssignsSides DEF PerFace
      <3> QED BY <3>1, <3>2
    <2>2. {"stencil_func", "stencil_back_func", "stencil_writemask", "stencil_back_writemask",
           "stencil_op", "stencil_back_op"} \subseteq Stencil \cup Ops
      BY DEF Stencil, Ops
    <2> QED BY <1>13, <2>1, <2>2
            DEF StencilFuncSeparate, StencilFunc, StencilMaskSeparate, StencilMask,
                StencilOpSeparate, StencilOp
  <1>14. ASSUME NEW m \in Given, NEW accepted \in BOOLEAN, HintElse(m, accepted)
         PROVE  Kinds
    BY <1>14 DEF Flagging
  <1>15. ASSUME NEW complete \in BOOLEAN, CheckFramebufferStatus(complete)
         PROVE  Kinds
    BY <1>15 DEF Local
  <1>16. CASE "factors" \in uses /\
                \/ \E s, d \in Given : BlendFunc(s, d)
                \/ \E s, t, d, e \in Given : BlendFuncSeparate(s, d, t, e)
    BY <1>2, <1>3, <1>16
  <1>17. CASE "equations" \in uses /\
                \/ \E c \in Values : BlendColor(c)
                \/ \E m \in Given : BlendEquation(m)
                \/ \E m, n \in Given : BlendEquationSeparate(m, n)
    BY <1>4, <1>5, <1>17
  <1>18. CASE "caps" \in uses /\ \E c \in Caps \cup {"unknown"} :
                IsEnabled(c) \/ \E on \in {"initial", "other"} : SetCap(c, on)
    BY <1>11, <1>12, <1>18
  <1>19. CASE \/ "stencil funcs" \in uses /\ \E x \in Given :
                   StencilFunc(x) \/ \E face \in Faces : StencilFuncSeparate(face, x)
              \/ "stencil masks" \in uses /\ \E x \in Values :
                   StencilMask(x) \/ \E face \in Faces : StencilMaskSeparate(face, x)
              \/ "stencil ops" \in uses /\ \E x \in Given :
                   StencilOp(x) \/ \E face \in Faces : StencilOpSeparate(face, x)
    BY <1>0, <1>13, <1>19
  <1>20. CASE \/ "depth" \in uses /\
                   \/ \E x \in Values : DepthMask(x) \/ DepthRangef(x) \/ ColorMask(x)
                   \/ \E f \in Given : DepthFunc(f)
              \/ "faces" \in uses /\
                   \/ \E m \in Given : CullFace(m) \/ FrontFace(m)
                   \/ \E o \in Values : PolygonOffset(o)
                   \/ \E w \in Given \cup {"zero"} : LineWidth(w)
    BY <1>7, <1>8, <1>9, <1>20
  <1> QED BY <1>6, <1>7, <1>8, <1>10, <1>14, <1>15, <1>16, <1>17, <1>18, <1>19, <1>20
          DEF Next

-----------------------------------------------------------------------------
(* Types.                                                                  *)

Ranges == Values \cup {"zero"}
States == [is : [Fields -> Ranges], skips : Values, error : Errors,
           needGet : BOOLEAN, incomplete : BOOLEAN]

LEMMA WithContext ==
  ASSUME NEW c \in Context, NEW v, \A f \in DOMAIN v : v[f] \in Ranges
  PROVE  With(c, v) \in Context /\ With(c, v).error = c.error
         /\ \A f \in Fields : With(c, v).is[f] = IF f \in DOMAIN v THEN v[f] ELSE c.is[f]
  <1> DEFINE is == [f \in Fields |-> IF f \in DOMAIN v THEN v[f] ELSE c.is[f]]
  <1>1. is \in [Fields -> Ranges]
    BY DEF Context, Ranges
  <1>2. With(c, v) = [c EXCEPT !.is = is]
    BY DEF With
  <1> QED BY <1>1, <1>2 DEF Context, Ranges

LEMMA WithState ==
  ASSUME NEW c \in States, NEW v, \A f \in DOMAIN v : v[f] \in Ranges
  PROVE  /\ With(c, v) \in States
         /\ With(c, v).error = c.error /\ With(c, v).needGet = c.needGet
         /\ With(c, v).incomplete = c.incomplete
         /\ \A f \in Fields : With(c, v).is[f] = IF f \in DOMAIN v THEN v[f] ELSE c.is[f]
  <1> DEFINE is == [f \in Fields |-> IF f \in DOMAIN v THEN v[f] ELSE c.is[f]]
  <1>1. is \in [Fields -> Ranges]
    BY DEF States
  <1>2. With(c, v) = [c EXCEPT !.is = is]
    BY DEF With
  <1> QED BY <1>1, <1>2 DEF States

LEMMA RaiseContext ==
  ASSUME NEW c \in Context, NEW code \in Errors
  PROVE  /\ Raise(c, code) \in Context /\ Raise(c, code).is = c.is
         /\ Raise(c, code).error = IF c.error = "none" THEN code ELSE c.error
  BY DEF Raise, Context

LEMMA RaiseState ==
  ASSUME NEW c \in States, NEW code \in Errors
  PROVE  /\ Raise(c, code) \in States /\ Raise(c, code).is = c.is
         /\ Raise(c, code).needGet = c.needGet
         /\ Raise(c, code).error = IF c.error = "none" THEN code ELSE c.error
  BY DEF Raise, States

(* A setter whose values are recorded gives no new ones, one that is sent  *)
(* gives none that GL does not allow.                                      *)
LEMMA RecordedInRange ==
  ASSUME NEW v, Assigns(v), Recorded(v), state \in States
  PROVE  \A f \in DOMAIN v : v[f] \in Ranges /\ v[f] = state.is[f]
  BY DEF Assigns, Recorded, States

LEMMA ValidInRange ==
  ASSUME NEW v, Assigns(v), Valid(v)
  PROVE  \A f \in DOMAIN v : v[f] \in Ranges
  BY DEF Assigns, Valid, Ranges, Given

(* What a call of several arguments gives to the driver, and what of it is *)
(* recorded.                                                               *)
LEMMA SeparateAssigns ==
  ASSUME NEW s \in Given, NEW t \in Given, NEW d \in Given, NEW e \in Given,
         NEW v, v = [src_rgb |-> s, src_alpha |-> t, dst_rgb |-> d, dst_alpha |-> e]
  PROVE  /\ DOMAIN v = {"src_rgb", "src_alpha", "dst_rgb", "dst_alpha"}
         /\ DOMAIN v \subseteq Fields
         /\ \A f \in DOMAIN v : v[f] \in Given
         /\ v["src_rgb"] = s /\ v["src_alpha"] = t /\ v["dst_rgb"] = d /\ v["dst_alpha"] = e
  BY DEF Fields, Blends

LEMMA TypeStep ==
  ASSUME TypeOK, [Next]_vars
  PROVE  TypeOK'
  <1> USE DEF Refuse, Noted, Send, Skip, Rejected
  <1>0. state \in States /\ driver \in Context /\ gl \in Context /\ uses \in Uses
    BY DEF TypeOK, States, Ranges
  <1>a. SUFFICES state' \in States /\ driver' \in Context /\ gl' \in Context /\ uses' \in Uses
    BY DEF TypeOK, States, Ranges
  <1>c. {"none", "invalid enum", "invalid value", "invalid framebuffer operation"} = Errors
    BY DEF Errors
  <1>1. CASE Setting
    <2>0. PICK v : Assigns(v) /\ \E code \in Errors : Set(v, code)
      BY <1>1 DEF Setting
    <2>1. PICK code \in Errors : Assigns(v) /\ Set(v, code)
      BY <2>0
    <2>2. CASE Recorded(v)
      BY <1>0, <2>1, <2>2, RecordedInRange, WithContext DEF Set
    <2>3. CASE ~Recorded(v) /\ ~Valid(v)
      BY <1>0, <2>1, <2>3, RaiseContext, RaiseState DEF Set
    <2>4. CASE ~Recorded(v) /\ Valid(v)
      BY <1>0, <2>1, <2>4, ValidInRange, WithContext, WithState DEF Set
    <2> QED BY <2>2, <2>3, <2>4
  <1>2. CASE Separate
    <2>1. PICK s, t, d, e \in Given : BlendFuncSeparate(s, d, t, e)
      BY <1>2 DEF Separate
    <2> DEFINE v == [src_rgb |-> s, src_alpha |-> t, dst_rgb |-> d, dst_alpha |-> e]
               w == [src_rgb |-> s, src_alpha |-> t, dst_rgb |-> e]
    <2>2. CASE Recorded(v)
      <3>1. \A f \in DOMAIN v : v[f] \in Ranges
        BY <1>0, <2>2, SeparateAssigns DEF Recorded, States
      <3> QED BY <1>0, <2>1, <2>2, <3>1, WithContext DEF BlendFuncSeparate
    <2>3. CASE ~Recorded(v) /\ ~Valid(v)
      BY <1>0, <1>c, <2>1, <2>3, RaiseContext, RaiseState DEF BlendFuncSeparate
    <2>4. CASE ~Recorded(v) /\ Valid(v)
      <3>1. \A f \in DOMAIN v : v[f] \in Ranges
        BY <2>4, SeparateAssigns DEF Valid, Ranges, Given
      <3>2. \A f \in DOMAIN w : w[f] \in Ranges
        BY <3>1, SeparateAssigns
      <3> QED BY <1>0, <2>1, <2>4, <3>1, <3>2, WithContext, WithState DEF BlendFuncSeparate
    <2> QED BY <2>2, <2>3, <2>4
  <1>3. CASE Clearing
    <2>1. PICK v : Assigns(v) /\ Valid(v) /\ ClearTo(v)
      BY <1>3 DEF Clearing
    <2>2. CASE Recorded(v)
      BY <1>0, <2>1, <2>2, RecordedInRange, WithContext DEF ClearTo
    <2>3. CASE ~Recorded(v) /\ state.incomplete
      <3>1. With(gl, v) \in Context
        BY <1>0, <2>1, ValidInRange, WithContext
      <3> QED BY <1>0, <1>c, <2>1, <2>3, <3>1, RaiseState DEF ClearTo
    <2>4. CASE ~Recorded(v) /\ ~state.incomplete
      BY <1>0, <2>1, <2>4, ValidInRange, WithContext, WithState DEF ClearTo
    <2> QED BY <2>2, <2>3, <2>4
  <1>4. CASE Refusing \/ Misjudging
    BY <1>0, <1>c, <1>4, RaiseContext, RaiseState DEF Refusing, Misjudging
  <1>5. CASE Unknown
    <2> DEFINE v == [line_width |-> "zero"]
    <2>1. \A f \in DOMAIN v : v[f] \in Ranges
      BY DEF Ranges
    <2>2. With(state, v) \in States
      BY <1>0, <2>1, WithState
    <2> QED BY <1>0, <1>c, <1>5, <2>2, RaiseContext DEF Unknown
  <1>6. CASE Flagging
    <2>1. [state EXCEPT !.needGet = TRUE] \in States
      BY <1>0 DEF States
    <2> QED BY <1>0, <1>c, <1>6, <2>1, RaiseContext, RaiseState DEF Flagging, HintElse
  <1>7. CASE Local
    BY <1>0, <1>7 DEF Local, CheckFramebufferStatus, States
  <1>8. CASE GetError
    <2>1. \A e \in Errors : [driver EXCEPT !.error = e] \in Context /\ [gl EXCEPT !.error = e] \in Context
      BY <1>0 DEF Context
    <2>2. state' \in States
      BY <1>0, <1>c, <1>8 DEF GetError, States
    <2>3. driver.error \in Errors
      BY <1>0 DEF Context
    <2> QED BY <1>0, <1>c, <1>8, <2>1, <2>2, <2>3 DEF GetError
  <1>9. CASE UNCHANGED vars
    BY <1>0, <1>9 DEF vars
  <1> QED BY <1>1, <1>2, <1>3, <1>4, <1>5, <1>6, <1>7, <1>8, <1>9, KindOfStep DEF Kinds

LEMMA TypeInit ==
  ASSUME Init
  PROVE  TypeOK
  BY DEF Init, TypeOK, Context, Fresh, Values, Errors

(* The record, the driver's context and the other's stay in their types,   *)
(* which no value that GL does not allow is among.                         *)
THEOREM TypeCorrect == Spec => []TypeOK
  BY TypeInit, TypeStep, PTL DEF Spec

-----------------------------------------------------------------------------
(* Nothing is lost.                                                        *)

(* What is recorded is what the driver has, or an initial value that is    *)
(* recorded wrongly and was not set since; the factor for alpha is         *)
(* recorded with the one for colours, which the driver has for both.       *)
Follows ==
  /\ \A f \in Fields \ {"dst_alpha"} :
       state.is[f] = driver.is[f] \/ (f \in Misrecorded /\ state.is[f] = "recorded")
  /\ driver.is["dst_alpha"] = driver.is["dst_rgb"]

Same == \A f \in Fields : driver.is[f] = gl.is[f]

Faithful == TypeOK /\ Follows /\ Same

(* A setter that is skipped gives the driver what it has.                  *)
LEMMA SkippedIsThere ==
  ASSUME Faithful, NEW v, DOMAIN v \subseteq Fields, Recorded(v), Allowed(v),
         "starts" \in Manners,
         "dst_alpha" \in DOMAIN v => "dst_rgb" \in DOMAIN v /\ v["dst_rgb"] = v["dst_alpha"]
  PROVE  \A f \in DOMAIN v : v[f] = driver.is[f]
  <1> SUFFICES ASSUME NEW f \in DOMAIN v
               PROVE  v[f] = driver.is[f]
    OBVIOUS
  <1>1. CASE f # "dst_alpha"
    BY <1>1 DEF Faithful, Follows, Recorded, Allowed
  <1>2. CASE f = "dst_alpha"
    <2>1. "dst_rgb" \in Fields \ {"dst_alpha"} /\ "dst_rgb" \notin Misrecorded
      BY DEF Fields, Blends, Misrecorded, Stencil
    <2>2. v["dst_rgb"] = driver.is["dst_rgb"]
      BY <1>2, <2>1 DEF Faithful, Follows, Recorded
    <2> QED BY <1>2, <2>2 DEF Faithful, Follows
  <1> QED BY <1>1, <1>2

LEMMA SkipFaithful ==
  ASSUME Faithful, TypeOK', NEW v, DOMAIN v \subseteq Fields,
         \A f \in DOMAIN v : v[f] = driver.is[f] /\ v[f] \in Ranges, Skip(v)
  PROVE  Faithful'
  <1>1. gl \in Context
    BY DEF Faithful, TypeOK
  <1>2. \A f \in Fields : gl'.is[f] = IF f \in DOMAIN v THEN v[f] ELSE gl.is[f]
    BY <1>1, WithContext DEF Skip
  <1> QED BY <1>2 DEF Faithful, Follows, Same, Skip

(* What is sent is recorded as it is sent, but for the factor for alpha.   *)
LEMMA SendFaithful ==
  ASSUME Faithful, TypeOK', NEW v, NEW w, DOMAIN v \subseteq Fields,
         \A f \in DOMAIN v : v[f] \in Ranges,
         DOMAIN w \subseteq DOMAIN v, DOMAIN v \subseteq DOMAIN w \cup {"dst_alpha"},
         \A f \in DOMAIN w : w[f] = v[f],
         "dst_rgb" \in DOMAIN v <=> "dst_alpha" \in DOMAIN v,
         "dst_rgb" \in DOMAIN v => v["dst_rgb"] = v["dst_alpha"],
         Send(w, v)
  PROVE  Faithful'
  <1>0. state \in States /\ driver \in Context /\ gl \in Context
    BY DEF Faithful, TypeOK, States, Ranges
  <1>1. \A f \in Fields : state'.is[f] = IF f \in DOMAIN w THEN w[f] ELSE state.is[f]
    BY <1>0, WithState DEF Send
  <1>2. \A f \in Fields : /\ driver'.is[f] = IF f \in DOMAIN v THEN v[f] ELSE driver.is[f]
                          /\ gl'.is[f] = IF f \in DOMAIN v THEN v[f] ELSE gl.is[f]
    BY <1>0, WithContext DEF Send
  <1>3. Same'
    BY <1>2 DEF Faithful, Same
  <1>4. "dst_rgb" \in Fields /\ "dst_alpha" \in Fields
    BY DEF Fields, Blends
  <1>5. Follows'
    <2>1. ASSUME NEW f \in Fields \ {"dst_alpha"}
          PROVE  state'.is[f] = driver'.is[f] \/ (f \in Misrecorded /\ state'.is[f] = "recorded")
      BY <1>1, <1>2 DEF Faithful, Follows
    <2>2. driver'.is["dst_alpha"] = driver'.is["dst_rgb"]
      BY <1>2, <1>4 DEF Faithful, Follows
    <2> QED BY <2>1, <2>2 DEF Follows
  <1> QED BY <1>3, <1>5 DEF Faithful

(* A step that changes no value but by an error keeps all of it.           *)
LEMMA OtherFaithful ==
  ASSUME Faithful, TypeOK', state'.is = state.is, driver'.is = driver.is, gl'.is = gl.is
  PROVE  Faithful'
  BY DEF Faithful, Follows, Same

LEMMA FaithfulStep ==
  ASSUME {"alike", "starts", "drawable", "caps"} \subseteq Manners, Faithful, [Next]_vars
  PROVE  Faithful'
  <1> USE DEF Refuse, Noted, Rejected
  <1>0. state \in States /\ driver \in Context /\ gl \in Context
    BY DEF Faithful, TypeOK, States, Ranges
  <1>a. TypeOK'
    BY TypeStep DEF Faithful
  <1>c. {"none", "invalid enum", "invalid value", "invalid framebuffer operation"} = Errors
    BY DEF Errors
  <1>1. CASE Setting
    <2>0. PICK v : Assigns(v) /\ \E code \in Errors : Set(v, code)
      BY <1>1 DEF Setting
    <2>1. PICK code \in Errors : Assigns(v) /\ Set(v, code)
      BY <2>0
    <2>2. CASE Recorded(v)
      <3>1. \A f \in DOMAIN v : v[f] \in Ranges
        BY <1>0, <2>1, <2>2, RecordedInRange
      <3>2. \A f \in DOMAIN v : v[f] = driver.is[f]
        BY <2>1, <2>2, SkippedIsThere DEF Set, Assigns
      <3> QED BY <1>a, <2>1, <2>2, <3>1, <3>2, SkipFaithful DEF Set, Assigns
    <2>3. CASE ~Recorded(v) /\ ~Valid(v)
      BY <1>0, <1>a, <2>1, <2>3, RaiseContext, RaiseState, OtherFaithful DEF Set
    <2>4. CASE ~Recorded(v) /\ Valid(v)
      <3>1. \A f \in DOMAIN v : v[f] \in Ranges
        BY <2>1, <2>4, ValidInRange
      <3> QED BY <1>a, <2>1, <2>4, <3>1, SendFaithful DEF Set, Assigns
    <2> QED BY <2>2, <2>3, <2>4
  <1>2. CASE Separate
    <2>1. PICK s, t, d, e \in Given : BlendFuncSeparate(s, d, t, e)
      BY <1>2 DEF Separate
    <2> DEFINE v == [src_rgb |-> s, src_alpha |-> t, dst_rgb |-> d, dst_alpha |-> e]
               w == [src_rgb |-> s, src_alpha |-> t, dst_rgb |-> e]
    <2>d. d = e
      BY <2>1 DEF BlendFuncSeparate
    <2>e. Allowed(v)
      BY <2>1 DEF BlendFuncSeparate
    <2>f. /\ DOMAIN v \subseteq Fields /\ "dst_rgb" \in DOMAIN v /\ "dst_alpha" \in DOMAIN v
          /\ v["dst_rgb"] = v["dst_alpha"]
      BY <2>d, SeparateAssigns
    <2>2. CASE Recorded(v)
      <3>1. \A f \in DOMAIN v : v[f] \in Ranges
        BY <1>0, <2>2, SeparateAssigns DEF Recorded, States
      <3>2. Skip(v)
        BY <2>1, <2>2 DEF BlendFuncSeparate
      <3>3. \A f \in DOMAIN v : v[f] = driver.is[f]
        <4> HIDE DEF v
        <4> QED BY <2>2, <2>e, <2>f, SkippedIsThere
      <3> HIDE DEF v
      <3> QED BY <1>a, <2>f, <3>1, <3>2, <3>3, SkipFaithful
    <2>3. CASE ~Recorded(v) /\ ~Valid(v)
      <3>1. Refuse("invalid enum", "invalid enum")
        BY <2>1, <2>3 DEF BlendFuncSeparate
      <3>2. state'.is = state.is /\ driver'.is = driver.is /\ gl'.is = gl.is
        BY <1>0, <1>c, <3>1, RaiseContext, RaiseState
      <3> QED BY <1>a, <3>2, OtherFaithful
    <2>4. CASE ~Recorded(v) /\ Valid(v)
      <3>1. \A f \in DOMAIN v : v[f] \in Ranges
        BY <2>4, SeparateAssigns DEF Valid, Ranges, Given
      <3>2. DOMAIN w = {"src_rgb", "src_alpha", "dst_rgb"} /\ \A f \in DOMAIN w : w[f] = v[f]
        BY <2>d
      <3>3. Send(w, v)
        BY <2>1, <2>4 DEF BlendFuncSeparate
      <3>4. DOMAIN v = {"src_rgb", "src_alpha", "dst_rgb", "dst_alpha"}
        BY SeparateAssigns
      <3> HIDE DEF v, w
      <3> QED BY <1>a, <2>f, <3>1, <3>2, <3>3, <3>4, SendFaithful
    <2> QED BY <2>2, <2>3, <2>4
  <1>3. CASE Clearing
    <2>1. PICK v : Assigns(v) /\ Valid(v) /\ ClearTo(v)
      BY <1>3 DEF Clearing
    <2>2. CASE Recorded(v)
      <3>1. \A f \in DOMAIN v : v[f] \in Ranges
        BY <1>0, <2>1, <2>2, RecordedInRange
      <3>2. \A f \in DOMAIN v : v[f] = driver.is[f]
        BY <2>1, <2>2, SkippedIsThere DEF ClearTo, Assigns
      <3> QED BY <1>a, <2>1, <2>2, <3>1, <3>2, SkipFaithful DEF ClearTo, Assigns
    <2>3. CASE ~Recorded(v)
      <3>1. \A f \in DOMAIN v : v[f] \in Ranges
        BY <2>1, ValidInRange
      <3>2. Send(v, v)
        BY <2>1, <2>3 DEF ClearTo
      <3> QED BY <1>a, <2>1, <3>1, <3>2, SendFaithful DEF Assigns
    <2> QED BY <2>2, <2>3
  <1>4. CASE Refusing \/ Misjudging
    <2>1. PICK code \in Errors, rightCode \in Errors : Refuse(code, rightCode)
      BY <1>c, <1>4 DEF Refusing, Misjudging
    <2>2. state'.is = state.is /\ driver'.is = driver.is /\ gl'.is = gl.is
      BY <1>0, <2>1, RaiseContext, RaiseState
    <2> QED BY <1>a, <2>2, OtherFaithful
  <1>5. CASE Unknown
    BY <1>5 DEF Unknown
  <1>6. CASE Flagging
    <2>1. [state EXCEPT !.needGet = TRUE] \in States /\ [state EXCEPT !.needGet = TRUE].is = state.is
      BY <1>0 DEF States
    <2> DEFINE flagged == [state EXCEPT !.needGet = TRUE]
    <2>2. \/ Refuse("invalid enum", "invalid enum")
          \/ Rejected(flagged, "invalid enum")
          \/ state' = flagged /\ UNCHANGED <<driver, gl, uses>>
      BY <1>6, Zenon DEF Flagging, HintElse
    <2> HIDE DEF flagged
    <2>3. flagged \in States /\ flagged.is = state.is
      BY <2>1 DEF flagged
    <2>e. "invalid enum" \in Errors
      BY <1>c
    <2>r. /\ Raise(state, "invalid enum").is = state.is
          /\ Raise(driver, "invalid enum").is = driver.is
          /\ Raise(gl, "invalid enum").is = gl.is
      BY <1>0, <2>e, RaiseContext, RaiseState
    <2>4. state'.is = state.is /\ driver'.is = driver.is /\ gl'.is = gl.is
      <3>1. CASE Refuse("invalid enum", "invalid enum")
        BY <2>r, <3>1
      <3>2. CASE Rejected(flagged, "invalid enum")
        BY <2>r, <2>3, <3>2
      <3>3. CASE state' = flagged /\ UNCHANGED <<driver, gl, uses>>
        BY <2>3, <3>3
      <3> QED BY <2>2, <3>1, <3>2, <3>3
    <2> QED BY <1>a, <2>4, OtherFaithful
  <1>7. CASE Local
    <2>1. state'.is = state.is /\ driver' = driver /\ gl' = gl
      BY <1>0, <1>7 DEF Local, CheckFramebufferStatus, States
    <2> QED BY <1>a, <2>1, OtherFaithful
  <1>8. CASE GetError
    <2>1. state'.is = state.is /\ driver'.is = driver.is /\ gl'.is = gl.is
      BY <1>0, <1>8 DEF GetError, States, Context
    <2> QED BY <1>a, <2>1, OtherFaithful
  <1>9. CASE UNCHANGED vars
    BY <1>a, <1>9, OtherFaithful DEF vars
  <1> QED BY <1>1, <1>2, <1>3, <1>4, <1>5, <1>6, <1>7, <1>8, <1>9, KindOfStep DEF Kinds

(* What is asked for as what it is is assigned the way GL converts it.     *)
LEMMA AskedInType ==
  ASSUME "types" \in Manners, NEW getter \in Getters, NEW f \in Fields, Asked(getter, f)
  PROVE  Assigned(getter, f) = Converted(getter, f)
  <1>1. Fractions \cap Stencil = {}
    BY DEF Fractions, Stencil
  <1>2. CASE f \in Flags
    BY <1>2 DEF Assigned, Converted
  <1>3. CASE f \notin Flags
    BY <1>1, <1>3 DEF Asked, Assigned, Converted
  <1> QED BY <1>2, <1>3

(* An application that gives both destination factors alike, does not set  *)
(* what is recorded wrongly, clears to values only while the framebuffer   *)
(* is complete, enables what the client knows, and asks for each state as  *)
(* what it is: the driver has what one would have that got every call, and *)
(* what the record answers is what that one would, converted as GL does.   *)
THEOREM NothingIsLost ==
  ASSUME {"alike", "starts", "drawable", "caps", "types"} \subseteq Manners
  PROVE  Spec => []NothingLost
  <1>1. Init => Faithful
    <2> SUFFICES ASSUME Init
                 PROVE  Faithful
      OBVIOUS
    <2>1. "dst_rgb" \in Fields /\ "dst_alpha" \in Fields /\ "sample_coverage_value" \in Misrecorded
      BY DEF Fields, Blends, Misrecorded
    <2>2. /\ \A f \in Fields : driver.is[f] = "initial" /\ gl.is[f] = "initial"
          /\ \A f \in Fields : state.is[f] = IF f \in Misrecorded THEN "recorded" ELSE "initial"
      BY <2>1 DEF Init, Fresh
    <2>3. Follows /\ Same
      BY <2>1, <2>2 DEF Follows, Same
    <2> QED BY <2>3, TypeInit DEF Faithful
  <1>2. Faithful /\ [Next]_vars => Faithful'
    BY FaithfulStep
  <1>3. Faithful => NothingLost
    <2>1. "dst_alpha" \notin Answered
      BY DEF Answered, Misrecorded, Flags, Fractions, Caps, Stencil, Ops, Clears, Blends
    <2>2. ASSUME NEW getter \in Getters, NEW f \in Fields, Asked(getter, f)
          PROVE  Assigned(getter, f) = Converted(getter, f)
      BY <2>2, AskedInType
    <2> QED BY <2>1, <2>2 DEF Faithful, Follows, Same, NothingLost, Asked, Answer, RightAnswer
  <1> QED BY <1>1, <1>2, <1>3, PTL DEF Spec

-----------------------------------------------------------------------------
(* The first error is told.                                                *)

(* The driver has an error only when a call was flagged, and what the      *)
(* client noted is all there is when none was.                             *)
ErrorsKept ==
  /\ ~state.needGet => driver.error = "none" /\ state.error = gl.error
  /\ state.needGet /\ state.error = "none" => driver.error = gl.error

ErrorsInv == TypeOK /\ ErrorsKept

LEMMA ErrorsStep ==
  ASSUME {"drawable", "caps", "stores"} \subseteq Manners, ErrorsInv, [Next]_vars
  PROVE  ErrorsInv'
  <1>0. state \in States /\ driver \in Context /\ gl \in Context
    BY DEF ErrorsInv, TypeOK, States, Ranges
  <1>a. TypeOK'
    BY TypeStep DEF ErrorsInv
  <1>c. {"none", "invalid enum", "invalid value", "invalid framebuffer operation"} = Errors
    BY DEF Errors
  <1>s. SUFFICES ErrorsKept'
    BY <1>a DEF ErrorsInv
  <1>u. ASSUME state'.error = state.error, state'.needGet = state.needGet,
               driver'.error = driver.error, gl'.error = gl.error
        PROVE  ErrorsKept'
    BY <1>u DEF ErrorsInv, ErrorsKept
  <1>r. ASSUME NEW code \in Errors, Refuse(code, code)
        PROVE  ErrorsKept'
    <2>1. /\ state'.error = IF state.error = "none" THEN code ELSE state.error
          /\ gl'.error = IF gl.error = "none" THEN code ELSE gl.error
          /\ state'.needGet = state.needGet /\ driver' = driver
      BY <1>0, <1>r, RaiseContext, RaiseState DEF Refuse, Noted
    <2> QED BY <2>1 DEF ErrorsInv, ErrorsKept
  <1>k. ASSUME NEW v, Skip(v), \A f \in DOMAIN v : v[f] \in Ranges
        PROVE  ErrorsKept'
    <2>1. gl'.error = gl.error /\ state' = state /\ driver' = driver
      BY <1>0, <1>k, WithContext DEF Skip
    <2> QED BY <2>1, <1>u
  <1>n. ASSUME NEW v, NEW w, Send(w, v),
               \A f \in DOMAIN v : v[f] \in Ranges, \A f \in DOMAIN w : w[f] \in Ranges
        PROVE  ErrorsKept'
    <2>1. /\ gl'.error = gl.error /\ driver'.error = driver.error
          /\ state'.error = state.error /\ state'.needGet = state.needGet
      BY <1>0, <1>n, WithContext, WithState DEF Send
    <2> QED BY <2>1, <1>u
  <1>1. CASE Setting
    <2>0. PICK v : Assigns(v) /\ \E code \in Errors : Set(v, code)
      BY <1>1 DEF Setting
    <2>1. PICK code \in Errors : Assigns(v) /\ Set(v, code)
      BY <2>0
    <2>2. CASE Recorded(v)
      BY <1>0, <1>k, <2>1, <2>2, RecordedInRange DEF Set
    <2>3. CASE ~Recorded(v) /\ ~Valid(v)
      BY <1>r, <2>1, <2>3 DEF Set
    <2>4. CASE ~Recorded(v) /\ Valid(v)
      BY <1>n, <2>1, <2>4, ValidInRange DEF Set
    <2> QED BY <2>2, <2>3, <2>4
  <1>2. CASE Separate
    <2>1. PICK s, t, d, e \in Given : BlendFuncSeparate(s, d, t, e)
      BY <1>2 DEF Separate
    <2> DEFINE v == [src_rgb |-> s, src_alpha |-> t, dst_rgb |-> d, dst_alpha |-> e]
               w == [src_rgb |-> s, src_alpha |-> t, dst_rgb |-> e]
    <2>2. CASE Recorded(v)
      <3>1. \A f \in DOMAIN v : v[f] \in Ranges
        BY <1>0, <2>2, SeparateAssigns DEF Recorded, States
      <3> QED BY <1>k, <2>1, <2>2, <3>1 DEF BlendFuncSeparate
    <2>3. CASE ~Recorded(v) /\ ~Valid(v)
      BY <1>c, <1>r, <2>1, <2>3 DEF BlendFuncSeparate
    <2>4. CASE ~Recorded(v) /\ Valid(v)
      <3>1. \A f \in DOMAIN v : v[f] \in Ranges
        BY <2>4, SeparateAssigns DEF Valid, Ranges, Given
      <3>2. \A f \in DOMAIN w : w[f] \in Ranges
        BY <3>1, SeparateAssigns
      <3>3. Send(w, v)
        BY <2>1, <2>4 DEF BlendFuncSeparate
      <3> QED BY <1>n, <3>1, <3>2, <3>3
    <2> QED BY <2>2, <2>3, <2>4
  <1>3. CASE Clearing
    <2>1. PICK v : Assigns(v) /\ Valid(v) /\ ClearTo(v)
      BY <1>3 DEF Clearing
    <2>2. Skip(v) \/ Send(v, v)
      BY <2>1 DEF ClearTo
    <2> QED BY <1>k, <1>n, <2>1, <2>2, ValidInRange
  <1>4. CASE Refusing \/ Misjudging \/ Unknown
    BY <1>r, <1>4 DEF Refusing, Misjudging, Unknown
  <1>5. CASE Flagging
    <2>1. PICK m \in Given, accepted \in BOOLEAN : HintElse(m, accepted)
      BY <1>5 DEF Flagging
    <2> DEFINE flagged == [state EXCEPT !.needGet = TRUE]
    <2>2. flagged.error = state.error /\ flagged.needGet = TRUE
      BY <1>0 DEF States
    <2>3. CASE m = "invalid"
      BY <1>c, <1>r, <2>1, <2>3 DEF HintElse
    <2>4. CASE m # "invalid" /\ ~accepted
      <3>1. /\ state' = flagged
            /\ driver'.error = IF driver.error = "none" THEN "invalid enum" ELSE driver.error
            /\ gl'.error = IF gl.error = "none" THEN "invalid enum" ELSE gl.error
        BY <1>0, <1>c, <2>1, <2>4, RaiseContext DEF HintElse, Rejected
      <3> QED BY <2>2, <3>1 DEF ErrorsInv, ErrorsKept
    <2>5. CASE m # "invalid" /\ accepted
      <3>1. state' = flagged /\ driver' = driver /\ gl' = gl
        BY <2>1, <2>5 DEF HintElse
      <3> QED BY <2>2, <3>1 DEF ErrorsInv, ErrorsKept
    <2> QED BY <2>3, <2>4, <2>5
  <1>6. CASE Local
    <2>1. state'.error = state.error /\ state'.needGet = state.needGet /\ driver' = driver /\ gl' = gl
      BY <1>0, <1>6 DEF Local, CheckFramebufferStatus, States
    <2> QED BY <1>u, <2>1
  <1>7. CASE GetError
    <2>1. /\ state'.error = "none" /\ ~state'.needGet /\ gl'.error = "none"
          /\ driver'.error = IF state.needGet THEN "none" ELSE driver.error
      BY <1>0, <1>7 DEF GetError, States, Context
    <2> QED BY <2>1 DEF ErrorsInv, ErrorsKept
  <1>8. CASE UNCHANGED vars
    <2>1. state' = state /\ driver' = driver /\ gl' = gl
      BY <1>8 DEF vars
    <2> QED BY <1>u, <2>1
  <1> QED BY <1>1, <1>2, <1>3, <1>4, <1>5, <1>6, <1>7, <1>8, KindOfStep DEF Kinds

(* An application that clears to values only while the framebuffer is      *)
(* complete, and names only capabilities, widths and pixel store           *)
(* parameters the client knows: glGetError tells the first error since it  *)
(* was last called, unless the client found one and had to flag a call.    *)
THEOREM FirstErrorIsReported ==
  ASSUME {"drawable", "caps", "stores"} \subseteq Manners
  PROVE  Spec => []FirstErrorReported
  <1>1. Init => ErrorsInv
    <2> SUFFICES ASSUME Init
                 PROVE  ErrorsInv
      OBVIOUS
    <2>1. state.error = "none" /\ ~state.needGet /\ driver.error = "none" /\ gl.error = "none"
      BY DEF Init, Fresh
    <2> QED BY <2>1, TypeInit DEF ErrorsInv, ErrorsKept
  <1>2. ErrorsInv /\ [Next]_vars => ErrorsInv'
    BY ErrorsStep
  <1>3. ErrorsInv => FirstErrorReported
    BY DEF ErrorsInv, ErrorsKept, FirstErrorReported, Reported
  <1> QED BY <1>1, <1>2, <1>3, PTL DEF Spec

=============================================================================
