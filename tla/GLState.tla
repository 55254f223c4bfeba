------------------------------- MODULE GLState -------------------------------
(***************************************************************************)
(* The fixed-function state of one context: what the caching client        *)
(* records of it, what the driver behind the proxy has, and what a driver  *)
(* called directly would have.  A setter whose values are recorded already *)
(* is skipped, a wrong one is refused by the client, any other is recorded *)
(* and sent without an answer.                                             *)
(*                                                                         *)
(* Commands reach the driver in order and nothing else changes its         *)
(* context, so `driver' is what it has once it has run what was sent.      *)
(* There is a current context, and it is active.  A value is the one the   *)
(* driver starts with, the one egl_state_init records where that is        *)
(* another, some other value, or one that GL does not allow.  A colour, a  *)
(* rectangle and the function, reference and mask of a stencil test are    *)
(* one value each.                                                         *)
(***************************************************************************)
EXTENDS Naturals

CONSTANTS
  Uses,      \* bound: sets of groups of calls, one of which the program uses
  Manners    \* what the application keeps to, see AllManners

(* What an application may keep to, beyond what GL asks of it:             *)
(*   "alike"   give glBlendFuncSeparate one destination factor, not two    *)
(*             (the second is recorded over the first);                    *)
(*   "starts"  not set what egl_state_init records as the initial value    *)
(*             where the driver starts from another;                       *)
(*   "drawable" set clear values only while the framebuffer bound is not   *)
(*             recorded as incomplete (the client refuses them then);      *)
(*   "caps"    enable only what the client knows, and give a line some     *)
(*             width (else the driver refuses, and is not asked);          *)
(*   "stores"  name only the five pixel store parameters the client knows  *)
(*             (the error for others is not the one GL has);               *)
(*   "types"   ask for each state as what it is: a flag as anything, what  *)
(*             may be a fraction with glGetFloatv, a mask with             *)
(*             glGetIntegerv, the rest with either of them (the answer is  *)
(*             assigned, and not converted the way GL does).               *)
AllManners == {"alike", "starts", "drawable", "caps", "stores", "types"}

Values  == {"initial", "recorded", "other"}
Caps    == {"blend", "cull_face", "depth_test"}  \* nine in the code
Stencil == {"stencil_func", "stencil_back_func", "stencil_writemask", "stencil_back_writemask"}
Ops     == {"stencil_op", "stencil_back_op"}
Clears  == {"color_clear_value", "depth_clear_value", "stencil_clear_value"}
Blends  == {"blend_color", "equation_rgb", "equation_alpha",
            "src_rgb", "src_alpha", "dst_rgb", "dst_alpha"}
Others  == {"color_writemask", "depth_writemask", "depth_func", "depth_range",
            "cull_face_mode", "front_face", "line_width", "polygon_offset",
            "generate_mipmap_hint", "pack_alignment", "unpack_alignment",
            "scissor_box", "viewport", "sample_coverage_value"}
Fields  == Caps \cup Stencil \cup Ops \cup Clears \cup Blends \cup Others
Flags   == Caps \cup {"color_writemask", "depth_writemask"}
Fractions == {"blend_color", "color_clear_value", "depth_clear_value", "depth_range",
              "line_width", "polygon_offset"}
Getters == {"glIsEnabled", "glGetBooleanv", "glGetIntegerv", "glGetFloatv"}
Groups  == {"factors", "equations", "clears", "depth", "faces", "pixels", "boxes",
            "caps", "stencil funcs", "stencil masks", "stencil ops", "samples"}

(* egl_state_init: the masks are 0x01010101 and not all ones, the          *)
(* rectangles empty and not the surface's, the coverage what malloc left.  *)
Misrecorded == Stencil \cup {"scissor_box", "viewport", "sample_coverage_value"}

Errors == {"none", "invalid enum", "invalid value", "invalid framebuffer operation"}

ASSUME GLStateAssumption ==
  /\ Uses \subseteq SUBSET Groups
  /\ Manners \subseteq AllManners

VARIABLES
  state,    \* egl_state_t
  driver,   \* the driver's context (external)
  gl,       \* history: the context of a driver that got every call
  uses      \* the calls the application makes

vars == <<state, driver, gl, uses>>

Fresh == [is |-> [f \in Fields |-> "initial"], error |-> "none"]

Init ==
  /\ \E left \in Values :
       /\ "starts" \in Manners => left = "recorded"
       /\ state = [is |-> [f \in Fields |-> IF f = "sample_coverage_value" THEN left
                                            ELSE IF f \in Misrecorded THEN "recorded"
                                            ELSE "initial"],
                   skips |-> "initial", error |-> "none", needGet |-> FALSE, incomplete |-> FALSE]
  /\ driver = Fresh
  /\ gl = Fresh
  /\ uses \in Uses

-----------------------------------------------------------------------------
(* What setters have in common; v gives values to some of the fields.      *)

With(c, v) == [c EXCEPT !.is = [f \in Fields |-> IF f \in DOMAIN v THEN v[f] ELSE @[f]]]
Raise(c, code) == [c EXCEPT !.error = IF @ = "none" THEN code ELSE @]

(* Mutated forms: one of several values decides; nothing is checked; a     *)
(* later error replaces the first.                                         *)
Recorded_Any(v) == \E f \in DOMAIN v : state.is[f] = v[f]
Valid_Always(v) == TRUE
Noted_Last(code) == [state EXCEPT !.error = code]

Recorded(v) == \A f \in DOMAIN v : state.is[f] = v[f]
Valid(v)    == \A f \in DOMAIN v : v[f] # "invalid"

(* caching_client_glSetError.                                              *)
Noted(code) == Raise(state, code)

Skip(v) == gl' = With(gl, v) /\ UNCHANGED <<state, driver, uses>>

Send(recorded, v) ==
  /\ state' = With(state, recorded)
  /\ driver' = With(driver, v)
  /\ gl' = With(gl, v)
  /\ UNCHANGED uses

(* The client refuses, and so would a driver, with an error of its own.    *)
Refuse(code, rightCode) ==
  /\ state' = Noted(code)
  /\ gl' = Raise(gl, rightCode)
  /\ UNCHANGED <<driver, uses>>

(* The driver refuses what was sent.                                       *)
Rejected(s, code) ==
  /\ state' = s
  /\ driver' = Raise(driver, code)
  /\ gl' = Raise(gl, code)
  /\ UNCHANGED uses

(* "starts": the initial value that is recorded wrongly is not set.        *)
Allowed(v) ==
  "starts" \in Manners =>
    \A f \in DOMAIN v \cap Misrecorded : v[f] # "recorded"

Set(v, code) ==
  /\ Allowed(v)
  /\ IF Recorded(v) THEN Skip(v)
     ELSE IF ~Valid(v) THEN Refuse(code, code)
     ELSE Send(v, v)

-----------------------------------------------------------------------------
(* Blending.                                                               *)

BlendColor(c)    == Set([blend_color |-> c], "none")
BlendEquation(m) == Set([equation_rgb |-> m, equation_alpha |-> m], "invalid enum")
BlendEquationSeparate(rgb, alpha) ==
  Set([equation_rgb |-> rgb, equation_alpha |-> alpha], "invalid enum")
BlendFunc(s, d) ==
  Set([src_rgb |-> s, src_alpha |-> s, dst_rgb |-> d, dst_alpha |-> d], "invalid enum")

(* blend_dst[0] is assigned twice, blend_dst[1] is not.                    *)
BlendFuncSeparate(sRGB, dRGB, sAlpha, dAlpha) ==
  LET v == [src_rgb |-> sRGB, src_alpha |-> sAlpha, dst_rgb |-> dRGB, dst_alpha |-> dAlpha]
  IN /\ "alike" \in Manners => dRGB = dAlpha
     /\ Allowed(v)
     /\ IF Recorded(v) THEN Skip(v)
        ELSE IF ~Valid(v) THEN Refuse("invalid enum", "invalid enum")
        ELSE Send([src_rgb |-> sRGB, src_alpha |-> sAlpha, dst_rgb |-> dAlpha], v)

-----------------------------------------------------------------------------
(* What a glClear clears to: refused for a framebuffer that is recorded as *)
(* incomplete, where a driver would take it.                               *)
ClearTo(v) ==
  /\ "drawable" \in Manners => ~state.incomplete
  /\ Allowed(v)
  /\ IF Recorded(v) THEN Skip(v)
     ELSE IF state.incomplete
     THEN /\ state' = Noted("invalid framebuffer operation")
          /\ gl' = With(gl, v)
          /\ UNCHANGED <<driver, uses>>
     ELSE Send(v, v)
ClearColor(c)   == ClearTo([color_clear_value |-> c])
ClearDepthf(d)  == ClearTo([depth_clear_value |-> d])
ClearStencil(s) == ClearTo([stencil_clear_value |-> s])

(* FramebufferCache follows what glCheckFramebufferStatus records.         *)
CheckFramebufferStatus(complete) ==
  /\ state' = [state EXCEPT !.incomplete = ~complete]
  /\ UNCHANGED <<driver, gl, uses>>

-----------------------------------------------------------------------------
(* Rasterisation, depth and pixels.                                        *)

ColorMask(m)         == Set([color_writemask |-> m], "none")
DepthMask(m)         == Set([depth_writemask |-> m], "none")
DepthFunc(f)         == Set([depth_func |-> f], "invalid enum")
DepthRangef(r)       == Set([depth_range |-> r], "none")
CullFace(m)          == Set([cull_face_mode |-> m], "invalid enum")
FrontFace(m)         == Set([front_face |-> m], "invalid enum")
PolygonOffset(o)     == Set([polygon_offset |-> o], "none")
SampleCoverage(c)    == Set([sample_coverage_value |-> c], "none")
Scissor(box)         == Set([scissor_box |-> box], "invalid value")
Viewport(box)        == Set([viewport |-> box], "invalid value")

(* Less than no width is refused by the client, none by the driver.        *)
LineWidth(w) ==
  LET v == [line_width |-> w] IN
    IF w # "zero" \/ Recorded(v) THEN Set(v, "invalid value")
    ELSE "caps" \notin Manners /\ Rejected(With(state, v), "invalid value")

(* Another hint than the one for mipmaps is sent, and flagged.             *)
Hint(mode) == Set([generate_mipmap_hint |-> mode], "invalid enum")
HintElse(mode, accepted) ==
  LET flagged == [state EXCEPT !.needGet = TRUE] IN
    IF mode = "invalid" THEN Refuse("invalid enum", "invalid enum")
    ELSE IF ~accepted THEN Rejected(flagged, "invalid enum")
    ELSE state' = flagged /\ UNCHANGED <<driver, gl, uses>>

(* The row length and the skips stay with the client, which applies them   *)
(* to the images it copies; what it does not know is a wrong value to it.  *)
PixelStorei(pname, param) ==
  IF pname \in Fields THEN Set([f \in {pname} |-> param], "invalid value")
  ELSE IF param = "invalid" THEN Refuse("invalid value", "invalid value")
  ELSE IF pname = "skips"
  THEN state' = [state EXCEPT !.skips = param] /\ UNCHANGED <<driver, gl, uses>>
  ELSE "stores" \notin Manners /\ Refuse("invalid value", "invalid enum")

-----------------------------------------------------------------------------
(* Capabilities.                                                           *)

(* glEnable and glDisable; what the client does not know is sent as it is. *)
SetCap(c, on) ==
  LET v == [f \in {c} |-> on] IN
    IF c \notin Caps THEN "caps" \notin Manners /\ Rejected(state, "invalid enum")
    ELSE IF Recorded(v) THEN Skip(v)
    ELSE Send(v, v)

(* What glGet* and glIsEnabled answer from the record: but for the stencil *)
(* test of back faces, of which glGet* tells the front's.                  *)
Answered == (Misrecorded \ {"stencil_back_func", "sample_coverage_value"})
              \cup Flags \cup Fractions \cup Ops \cup Clears \cup (Blends \ {"dst_alpha"})
              \cup {"depth_func", "generate_mipmap_hint"}

(* They assign the record to the type that is asked for.  That cuts off a  *)
(* fraction and all but eight bits, and a mask of all ones is -1.          *)
Assigned(getter, f) ==
  IF \/ f \in Flags
     \/ getter = "glGetIntegerv" /\ f \notin Fractions
     \/ getter = "glGetFloatv" /\ f \notin Stencil
  THEN "as it is"
  ELSE IF getter = "glGetIntegerv" THEN "cut off"
  ELSE IF getter = "glGetFloatv" THEN "signed" ELSE "eight bits"

(* GL rounds, scales colours and depths to the range of an integer, and    *)
(* tells a Boolean whether something is zero.                              *)
Converted(getter, f) ==
  IF f \in Flags \/ getter = "glGetFloatv" \/ (getter = "glGetIntegerv" /\ f \notin Fractions)
  THEN "as it is"
  ELSE IF getter # "glGetIntegerv" THEN "whether zero"
  ELSE IF f \in {"line_width", "polygon_offset"} THEN "rounded" ELSE "scaled"

(* A question, its answer, and that of a driver that got every call: what  *)
(* is told, and in what way.                                               *)
Asked(getter, f) ==
  /\ f \in Answered
  /\ getter = "glIsEnabled" => f \in Caps
  /\ "types" \in Manners /\ f \notin Flags =>
       getter \in IF f \in Fractions THEN {"glGetFloatv"}
                  ELSE IF f \in Stencil THEN {"glGetIntegerv"}
                  ELSE {"glGetIntegerv", "glGetFloatv"}
Answer(getter, f)      == <<state.is[f], Assigned(getter, f)>>
RightAnswer(getter, f) == <<gl.is[f], Converted(getter, f)>>

(* What glIsEnabled does not know it refuses.                              *)
IsEnabled(c) == c \notin Caps /\ Refuse("invalid enum", "invalid enum")

-----------------------------------------------------------------------------
(* Stencil state is kept per face; both change at once, or one of them.    *)

Sides(face, front, back) ==
  CASE face = "front" -> {front} [] face = "back" -> {back} [] OTHER -> {front, back}
PerFace(face, front, back, x) ==
  IF face = "invalid" THEN Refuse("invalid enum", "invalid enum")
  ELSE Set([f \in Sides(face, front, back) |-> x], "invalid enum")

StencilFuncSeparate(face, x) == PerFace(face, "stencil_func", "stencil_back_func", x)
StencilFunc(x)               == StencilFuncSeparate("both", x)
StencilMaskSeparate(face, x) == PerFace(face, "stencil_writemask", "stencil_back_writemask", x)
StencilMask(x)               == StencilMaskSeparate("both", x)
StencilOpSeparate(face, x)   == PerFace(face, "stencil_op", "stencil_back_op", x)
StencilOp(x)                 == StencilOpSeparate("both", x)

-----------------------------------------------------------------------------
(* Errors.                                                                 *)

(* glGetError: the driver is asked only if a flagged call was made, and    *)
(* the client's own error is then dropped.                                 *)
Reported == IF state.needGet THEN driver.error ELSE state.error
GetError ==
  /\ state' = [state EXCEPT !.error = "none", !.needGet = FALSE]
  /\ driver' = [driver EXCEPT !.error = IF state.needGet THEN "none" ELSE @]
  /\ gl' = [gl EXCEPT !.error = "none"]
  /\ UNCHANGED uses

-----------------------------------------------------------------------------
Given == Values \cup {"invalid"}
Faces == {"front", "back", "both", "invalid"}

Next ==
  \/ "factors" \in uses /\
       \/ \E s, d \in Given : BlendFunc(s, d)
       \/ \E s, t, d, e \in Given : BlendFuncSeparate(s, d, t, e)
  \/ "equations" \in uses /\
       \/ \E c \in Values : BlendColor(c)
       \/ \E m \in Given : BlendEquation(m)
       \/ \E m, n \in Given : BlendEquationSeparate(m, n)
  \/ "clears" \in uses /\ \E x \in Values : ClearColor(x) \/ ClearDepthf(x) \/ ClearStencil(x)
  \/ "depth" \in uses /\
       \/ \E x \in Values : DepthMask(x) \/ DepthRangef(x) \/ ColorMask(x)
       \/ \E f \in Given : DepthFunc(f)
  \/ "faces" \in uses /\
       \/ \E m \in Given : CullFace(m) \/ FrontFace(m)
       \/ \E o \in Values : PolygonOffset(o)
       \/ \E w \in Given \cup {"zero"} : LineWidth(w)
  \/ "pixels" \in uses /\ \E x \in Given :
       PixelStorei("pack_alignment", x) \/ PixelStorei("unpack_alignment", x)
         \/ PixelStorei("skips", x) \/ PixelStorei("unknown", x)
  \/ "boxes" \in uses /\ \E x \in Given : Scissor(x) \/ Viewport(x)
  \/ "samples" \in uses /\ \E x \in Values : SampleCoverage(x)
  \/ "caps" \in uses /\ \E c \in Caps \cup {"unknown"} :
       IsEnabled(c) \/ \E on \in {"initial", "other"} : SetCap(c, on)
  \/ "stencil funcs" \in uses /\ \E x \in Given :
       StencilFunc(x) \/ \E face \in Faces : StencilFuncSeparate(face, x)
  \/ "stencil masks" \in uses /\ \E x \in Values :
       StencilMask(x) \/ \E face \in Faces : StencilMaskSeparate(face, x)
  \/ "stencil ops" \in uses /\ \E x \in Given :
       StencilOp(x) \/ \E face \in Faces : StencilOpSeparate(face, x)
  \/ \E m \in Given : Hint(m) \/ \E accepted \in BOOLEAN : HintElse(m, accepted)
  \/ \E complete \in BOOLEAN : CheckFramebufferStatus(complete)
  \/ GetError

Spec == Init /\ [][Next]_vars

-----------------------------------------------------------------------------
(* Properties.                                                             *)

Context == [is : [Fields -> Values \cup {"zero"}], error : Errors]
TypeOK ==
  /\ state \in [is : [Fields -> Values \cup {"zero"}], skips : Values, error : Errors,
                needGet : BOOLEAN, incomplete : BOOLEAN]
  /\ driver \in Context
  /\ gl \in Context
  /\ uses \in Uses

(* README: 'a "virtual" OpenGL ES 2.0 driver'.  Whatever setters are       *)
(* called in whatever order, those skipped and refused included, the       *)
(* driver has what one would have that got every call; and glIsEnabled and *)
(* glGet*, answered without the driver, tell what that one would and the   *)
(* way it would, once what egl_state_init records wrongly has been set.    *)
(* (The destination factor for alpha, which glBlendFuncSeparate records as *)
(* the one for colours, is left out of that.)                              *)
NothingLost ==
  /\ \A f \in Fields : driver.is[f] = gl.is[f]
  /\ \A getter \in Getters, f \in Fields :
       Asked(getter, f) /\ ~(f \in Misrecorded /\ state.is[f] = "recorded") =>
         Answer(getter, f) = RightAnswer(getter, f)

(* glGetError reports the first error since it was last called, the one a  *)
(* driver would, whether the client found it or the driver did - unless    *)
(* the client found one and another call had to be flagged, when its own   *)
(* is dropped.                                                             *)
FirstErrorReported ==
  ~(state.needGet /\ state.error # "none") => Reported = gl.error
=============================================================================
