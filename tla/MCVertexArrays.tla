---------------------------- MODULE MCVertexArrays ----------------------------
(* Three interleaved arrays, one that begins where the first vertex of     *)
(* them ends, one further on, and one whose elements overlap each other;   *)
(* some of them in a buffer; one in a vertex array object as well; and     *)
(* values for all vertices.                                                *)
EXTENDS VertexArrays

CONSTANTS b1, b2, v1, i0, i1, i2

A0 == [ptr |-> 1, stride |-> 3, size |-> 1]
A1 == [ptr |-> 2, stride |-> 3, size |-> 1]
A2 == [ptr |-> 3, stride |-> 3, size |-> 1]
A3 == [ptr |-> 4, stride |-> 0, size |-> 1]
A4 == [ptr |-> 9, stride |-> 0, size |-> 2]
A5 == [ptr |-> 9, stride |-> 1, size |-> 2]

MCArrays == {A0, A1, A2, A3, A4, A5}
MCCasts ==
  {[indices |-> {i0, i1, i2}, arrays |-> MCArrays \ {A5}, buffers |-> {}, calls |-> {}],
   [indices |-> {i0, i1}, arrays |-> {A0}, buffers |-> {}, calls |-> {"values"}],
   [indices |-> {i0, i1}, arrays |-> {A0, A1, A4, A5}, buffers |-> {b1}, calls |-> {}],
   [indices |-> {i0, i1}, arrays |-> {A0}, buffers |-> {b1}, calls |-> {"objects"}]}
=============================================================================
