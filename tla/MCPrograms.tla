------------------------------ MODULE MCPrograms ------------------------------
(* Two programs with two uniforms, or with a uniform and an attribute.     *)
EXTENDS Programs

CONSTANTS u0, u1, a0

MCCasts == {[programs |-> 2, names |-> {u0, u1}], [programs |-> 2, names |-> {u0, a0}]}
=============================================================================
