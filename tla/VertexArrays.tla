----------------------------- MODULE VertexArrays -----------------------------
(***************************************************************************)
(* Vertex arrays and draw calls of one context.  An array in application   *)
(* memory has to be copied into the command buffer before the draw that    *)
(* reads it: the client keeps the enabled ones in a list, with those whose *)
(* memory overlaps next to each other in one chunk, and copies a chunk at  *)
(* a time.  Arrays in a buffer object, and all calls while a vertex array  *)
(* object is bound, go to the driver as they are.                          *)
(*                                                                         *)
(* Commands reach the driver in order and nothing else changes its         *)
(* context, so `driver' is what it has once it has run what was sent; `gl' *)
(* is what a driver called directly would have.  There is a current        *)
(* context; modes, types and indices are valid; framebuffers are in        *)
(* FramebufferCache.  Addresses and sizes are in units of the smallest     *)
(* component.  To the driver a buffer has the name that it gave it itself, *)
(* which the server puts in place of the client's; none is turned back.    *)
(***************************************************************************)
EXTENDS Naturals, Sequences

CONSTANTS
  Indices,   \* of vertex attributes
  Arrays,    \* [ptr, stride, size]: size is that of an element
  Buffers,   \* names of buffer objects, the client's and the driver's
  Vaos,      \* names of vertex array objects
  None,      \* the name 0
  Absent,    \* no entry for an index
  MaxVertex, \* bound: the last vertex a draw names
  MaxChunk,  \* bound: chunk numbers, which grow with every array enabled
  Casts,     \* bound: what an application uses, [indices, arrays, buffers,
             \* calls], calls being groups of them
  Manners    \* what the application keeps to, see AllManners

(* What an application may keep to, beyond what GL asks of it:             *)
(*   "pointers"  specify an array before it is enabled and while disabled; *)
(*   "binding"   enable and disable an array with a buffer bound if and    *)
(*               only if its memory is a buffer's;                         *)
(*   "rising"    enable no array that overlaps the first in the list and   *)
(*               lies no higher;                                           *)
(*   "strides"   enable in its memory no array whose stride is less than   *)
(*               an element, and arrays that overlap with the same stride; *)
(*   "unbound"   draw from application memory with no buffer bound;        *)
(*   "arrays"    draw with programs that read enabled arrays only;         *)
(*   "values"    give a value only to attributes that had an array;        *)
(*   "detached"  delete buffers no array lies in, bound to one target;     *)
(*   "elements"  change vertex array objects with no element buffer bound, *)
(*               draw from application memory with byte or short indices   *)
(*               that are there too;                                       *)
(*   "fits"      draw what fits into the command buffer;                   *)
(*   "queries"   ask which buffer is bound only while none is, for arrays  *)
(*               only while no array specified lies in one;                *)
(*   "objects"   with an object bound draw from buffers only, indices too. *)
AllManners == {"pointers", "binding", "rising", "strides", "unbound", "arrays",
               "values", "detached", "elements", "fits", "queries", "objects"}
Groups == {"objects", "values"}

NoArray == [ptr |-> 0, stride |-> 0, size |-> 0]
Entry   == [enabled : BOOLEAN, array : Arrays \cup {NoArray}, buffer : Buffers \cup {None}]

ASSUME VertexArraysAssumption ==
  /\ Arrays \subseteq [ptr : Nat \ {0}, stride : Nat, size : Nat \ {0}]
  /\ {None, Absent} \cap (Buffers \cup Vaos) = {} /\ Absent \notin Entry
  /\ MaxVertex \in Nat /\ MaxChunk \in Nat \ {0}
  /\ \A c \in Casts : c.indices \subseteq Indices /\ c.arrays \subseteq Arrays
                      /\ c.buffers \subseteq Buffers /\ c.calls \subseteq Groups
  /\ Manners \subseteq AllManners

VARIABLES
  state,   \* egl_state_t
  driver,  \* the driver's context (external)
  gl,      \* history: the context of a driver that got every call
  wrong,   \* history: attributes some draw read other values for
  cast     \* what the application uses

vars == <<state, driver, gl, wrong, cast>>

Names   == Vaos \cup {None}
Gone    == [array |-> NoArray, buffer |-> Absent]   \* memory given back since
Unset   == [array |-> NoArray, buffer |-> None]
Context == [enabled |-> [v \in Names |-> {}], src |-> [v \in Names |-> [i \in Indices |-> Unset]],
            bound |-> None, elem |-> [v \in Names |-> None], values |-> {}]

(* state.first is the index of attribs[0].                                 *)
Init ==
  /\ state = [table |-> [i \in Indices |-> Absent], first |-> None, list |-> <<>>, count |-> 0,
              bound |-> None, elem |-> None, vao |-> None]
  /\ driver = Context /\ gl = Context
  /\ wrong = {} /\ cast \in Casts

-----------------------------------------------------------------------------
(* Memory.                                                                 *)

Step(a) == IF a.stride # 0 THEN a.stride ELSE a.size

(* What the vertices with the given numbers take of an array.              *)
Reads(a, vertices) == UNION {(a.ptr + v * Step(a)) .. (a.ptr + v * Step(a) + a.size - 1) : v \in vertices}

ArrayOf(i) == state.table[i].array

(* _attribs_memory_overlap, of the array of index i and another.           *)
Overlap(a, b) == IF a.ptr < b.ptr THEN b.ptr <= a.ptr + a.stride ELSE a.ptr <= b.ptr + b.stride

InOneChunk(l, p, q) == \A k \in p..q : l[k].chunk = l[p].chunk

(* caching_client_vertex_chunk_size, from the first pointer on.            *)
Copied(first, last, n) == first.ptr .. (first.ptr + Step(last) * n + (last.ptr - first.ptr) - 1)

(* What setup_vertex_attrib_pointer copies for the attribute at p.         *)
CopiedFor(p, n) ==
  LET l == state.list
      q == CHOOSE q \in 1..p : InOneChunk(l, q, p) /\ (q = 1 \/ ~InOneChunk(l, q - 1, p))
      r == CHOOSE r \in p..Len(l) : InOneChunk(l, p, r) /\ (r = Len(l) \/ ~InOneChunk(l, p, r + 1))
  IN Copied(ArrayOf(l[q].index), ArrayOf(l[r].index), n)

-----------------------------------------------------------------------------
(* The list of enabled arrays, and the number kept next to it.             *)

(* Mutated forms: the first of the list is not looked at; an array goes    *)
(* behind its chunk whatever its address; the chunk of an array that comes *)
(* first is what its entry was made with; only a new entry is filled in.   *)
Without_KeepsFirst(l, i) ==
  LET at == {p \in DOMAIN l : l[p].index = i /\ p > 1}
      p  == CHOOSE p \in at : TRUE
  IN IF at = {} THEN l ELSE SubSeq(l, 1, p - 1) \o SubSeq(l, p + 1, Len(l))
FirstAbove_Any(s, i, p)  == {q \in p..Len(s.list) : s.list[q].chunk # s.list[p].chunk}
FirstChunk_Unset == 0
Entered_OnlyNew(i, e) ==
  [state EXCEPT !.table[i] = IF @ = Absent THEN e ELSE @, !.first = IF @ = None THEN i ELSE @]

Without(l, i) ==
  LET at == {p \in DOMAIN l : l[p].index = i}
      p  == CHOOSE p \in at : TRUE
  IN IF at = {} THEN l ELSE SubSeq(l, 1, p - 1) \o SubSeq(l, p + 1, Len(l))

(* _remove_from_enabled_attrib_list: the count goes down if the list has   *)
(* anything at all.                                                        *)
Removed(s, i) ==
  IF s.list = <<>> THEN s
  ELSE [s EXCEPT !.count = @ - 1, !.list = Without(@, i)]

Lowest(S, otherwise) == IF S = {} THEN otherwise ELSE CHOOSE x \in S : \A y \in S : x <= y

(* Positions from p on that are not in its chunk, or no lower than i's.    *)
FirstAbove(s, i, p) ==
  {q \in p..Len(s.list) : \/ s.list[q].chunk # s.list[p].chunk
                          \/ s.table[s.list[q].index].array.ptr >= s.table[i].array.ptr}

FirstChunk == 1

(* _add_to_enabled_attrib_list: the chunk numbers of those passed grow,    *)
(* and the new array goes into the first chunk it overlaps, by address, or *)
(* to the end.  Before the first, it takes the place of the whole list.    *)
Added(s, i) ==
  LET l    == s.list
      end  == Len(l) + 1
      hit  == Lowest({p \in DOMAIN l : Overlap(s.table[i].array, s.table[l[p].index].array)}, end)
      at   == IF hit = end THEN end ELSE Lowest(FirstAbove(s, i, hit), end)
      own  == IF l = <<>> THEN FirstChunk ELSE l[IF hit = end THEN Len(l) ELSE hit].chunk
      grown == [p \in DOMAIN l |-> IF p < hit THEN [l[p] EXCEPT !.chunk = @ + 1] ELSE l[p]]
      new  == <<[index |-> i, chunk |-> own]>>
  IN [s EXCEPT !.count = @ + 1,
               !.list = IF at = 1 THEN new
                        ELSE SubSeq(grown, 1, at - 1) \o new \o SubSeq(grown, at, Len(l))]

-----------------------------------------------------------------------------
(* Arrays.                                                                 *)

InMemory(i) == state.table[i] # Absent /\ state.table[i].buffer = None

(* A new entry goes behind the others.                                     *)
Entered(i, e) ==
  [state EXCEPT !.table[i] = e, !.first = IF @ = None THEN i ELSE @]

(* The driver gets an array of the object that is bound.                   *)
Pointed(c, i, src) == [c EXCEPT !.src[state.vao][i] = src]

(* glVertexAttribPointer: an array in application memory is not sent, but  *)
(* when it is drawn from.                                                  *)
VertexAttribPointer(i, a) ==
  LET src   == [array |-> a, buffer |-> state.bound]
      known == state.table[i] # Absent
      e     == [enabled |-> known /\ state.table[i].enabled, array |-> a, buffer |-> state.bound]
      s     == Entered(i, e)
  IN /\ "pointers" \in Manners => i \notin gl.enabled[state.vao]
     /\ gl' = Pointed(gl, i, [src EXCEPT !.buffer = gl.bound])
     /\ IF state.vao # None THEN UNCHANGED state
        ELSE state' = IF e.enabled /\ e # state.table[i] THEN Added(Removed(s, i), i) ELSE s
     /\ driver' = IF state.vao # None \/ (state.bound # None /\ state.table[i] # e)
                  THEN Pointed(driver, i, [src EXCEPT !.buffer = driver.bound]) ELSE driver
     /\ UNCHANGED <<wrong, cast>>

Switched(c, i, on) ==
  [c EXCEPT !.enabled[state.vao] = IF on THEN @ \cup {i} ELSE @ \ {i}]

(* caching_client_glSetVertexAttribArray.                                  *)
SetVertexAttribArray(i, on) ==
  LET e     == state.table[i]
      known == e # Absent
      s     == Entered(i, IF known THEN [e EXCEPT !.enabled = on]
                          ELSE [enabled |-> on, array |-> NoArray, buffer |-> state.bound])
  IN /\ "pointers" \in Manners /\ state.vao = None => known
     /\ "binding" \in Manners /\ known => (e.buffer = None <=> state.bound = None)
     /\ on /\ InMemory(i) /\ "rising" \in Manners /\ state.list # <<>> =>
          LET head == ArrayOf(Head(state.list).index) IN
            ~(Overlap(e.array, head) /\ e.array.ptr <= head.ptr)
     /\ on /\ InMemory(i) /\ "strides" \in Manners =>
          /\ e.array.size <= Step(e.array)
          /\ \A j \in gl.enabled[None] : InMemory(j) /\ Overlap(e.array, ArrayOf(j)) =>
                Step(ArrayOf(j)) = Step(e.array)
     /\ \A p \in DOMAIN state.list : state.list[p].chunk < MaxChunk
     /\ gl' = Switched(gl, i, on)
     /\ IF state.vao # None THEN UNCHANGED state /\ driver' = Switched(driver, i, on)
        ELSE IF known /\ e.enabled = on THEN UNCHANGED <<state, driver>>
        ELSE /\ driver' = Switched(driver, i, on)
             /\ state' = IF ~known \/ state.bound # None THEN s
                         ELSE IF on THEN Added(s, i) ELSE Removed(s, i)
     /\ UNCHANGED <<wrong, cast>>

(* What the driver calls a buffer, when it is asked.                       *)
Told(b) == IF b = None THEN {None} ELSE Buffers

(* glGetVertexAttrib*: asks the driver if an object is bound.              *)
Answers(i) ==
  IF state.vao # None
  THEN LET src == driver.src[state.vao][i] IN
         {[enabled |-> i \in driver.enabled[state.vao], array |-> src.array, buffer |-> b] :
            b \in Told(src.buffer)}
  ELSE IF state.table[i] # Absent THEN {state.table[i]}
  ELSE {[enabled |-> FALSE, array |-> NoArray, buffer |-> state.bound]}

(* glVertexAttrib1f to 4fv: a value for all vertices, which is recorded    *)
(* and never sent.  For an index without an entry the next entry is        *)
(* counted as one, with whatever index and array malloc left in it.        *)
VertexAttrib(i) ==
  /\ "values" \in Manners => state.table[i] # Absent
  /\ gl' = [gl EXCEPT !.values = @ \cup {i}]
  /\ \/ UNCHANGED state
     \/ /\ state.table[i] = Absent
        /\ \E j \in Indices, on \in BOOLEAN :
             /\ state.table[j] = Absent
             /\ state' = Entered(j, [enabled |-> on, array |-> NoArray, buffer |-> None])
  /\ UNCHANGED <<driver, wrong, cast>>

-----------------------------------------------------------------------------
(* Buffers.                                                                *)

(* glBindBuffer, skipped if the record has the name bound.                 *)
BindArrayBuffer(b) ==
  /\ state' = [state EXCEPT !.bound = b]
  /\ driver' = IF b = state.bound THEN driver ELSE [driver EXCEPT !.bound = b]
  /\ gl' = [gl EXCEPT !.bound = b]
  /\ UNCHANGED <<wrong, cast>>
BindElementBuffer(b) ==
  /\ state' = [state EXCEPT !.elem = b]
  /\ driver' = IF b = state.elem THEN driver ELSE [driver EXCEPT !.elem[state.vao] = b]
  /\ gl' = [gl EXCEPT !.elem[state.vao] = b]
  /\ UNCHANGED <<wrong, cast>>

(* All entries, recorded in buffer b.                                      *)
AllIn(table, b) ==
  [i \in Indices |-> IF table[i] = Absent THEN Absent ELSE [table[i] EXCEPT !.buffer = b]]

(* glGet* of a buffer binding: the name the driver has for it is recorded  *)
(* as the client's, the one for elements as if it were for arrays, the     *)
(* other in every entry too.                                               *)
GetArrayBufferBinding ==
  /\ "queries" \in Manners =>
       /\ gl.bound = None
       /\ \A i \in Indices : state.table[i] # Absent => state.table[i].buffer = None
  /\ \E b \in Told(driver.bound) : state' = [state EXCEPT !.bound = b, !.table = AllIn(@, b)]
  /\ UNCHANGED <<driver, gl, wrong, cast>>
GetElementBufferBinding ==
  /\ "queries" \in Manners => gl.elem[state.vao] = None /\ gl.bound = None
  /\ \E b \in Told(driver.elem[state.vao]) : state' = [state EXCEPT !.bound = b]
  /\ UNCHANGED <<driver, gl, wrong, cast>>

Unless(x, b) == IF x = b THEN None ELSE x
Outside(src, b) == [src EXCEPT !.buffer = Unless(@, b)]

(* A driver takes a deleted buffer from what is bound now.                 *)
WithoutBuffer(c, b) ==
  [c EXCEPT !.bound = Unless(@, b), !.elem[state.vao] = Unless(@, b),
            !.src[state.vao] = [i \in Indices |-> Outside(@[i], b)]]

(* glDeleteBuffers: bound to both targets, it stays bound to one; and what *)
(* the first entry has decides for all of them.                            *)
DeleteBuffers(b) ==
  /\ "detached" \in Manners =>
       /\ \A v \in Names, i \in Indices : gl.src[v][i].buffer # b
       /\ ~(gl.bound = b /\ gl.elem[state.vao] = b)
  /\ state' = [state EXCEPT
       !.bound = Unless(@, b),
       !.elem = IF state.bound = b THEN @ ELSE Unless(@, b),
       !.table = IF state.first = None \/ @[state.first].buffer # b THEN @ ELSE AllIn(@, None)]
  /\ driver' = WithoutBuffer(driver, b)
  /\ gl' = WithoutBuffer(gl, b)
  /\ UNCHANGED <<wrong, cast>>

-----------------------------------------------------------------------------
(* Vertex array objects.                                                   *)

ElementsUnbound == "elements" \in Manners => gl.elem[state.vao] = None

(* glBindVertexArrayOES: the element buffer is the object's in a driver,   *)
(* and the context's to the client.                                        *)
BindVertexArray(v) ==
  /\ v # state.vao /\ ElementsUnbound
  /\ state' = [state EXCEPT !.vao = v]
  /\ UNCHANGED <<driver, gl, wrong, cast>>

Dropped(c, v) ==
  [c EXCEPT !.enabled[v] = {}, !.src[v] = [i \in Indices |-> Unset], !.elem[v] = None]
DeleteVertexArrays(v) ==
  /\ v = state.vao => ElementsUnbound
  /\ state' = [state EXCEPT !.vao = Unless(@, v)]
  /\ driver' = Dropped(driver, v)
  /\ gl' = Dropped(gl, v)
  /\ UNCHANGED <<wrong, cast>>

-----------------------------------------------------------------------------
(* Draw calls.                                                             *)

(* _get_elements_count: one more than the largest index.                   *)
ElementsCount(vertices) == 1 + CHOOSE n \in vertices : \A v \in vertices : v <= n

(* client_has_vertex_attrib_array_set.                                     *)
HasArrays == \E i \in Indices :
  state.table[i] # Absent /\ (state.table[i].enabled \/ state.table[i].buffer # None)

InList(i) == \E p \in DOMAIN state.list : state.list[p].index = i

(* The driver reads attribute i as it should: from the array it should,    *)
(* all of it, or the value it should.  A copy is an offset to the driver   *)
(* if a buffer is bound.  What is neither copied nor in a buffer is read   *)
(* when the server gets to it: the call has returned, and the application  *)
(* may have changed or freed its memory.                                   *)
ReadsRight(i, vertices, copies) ==
  LET meant == gl.src[state.vao][i] IN
    IF i \notin gl.enabled[state.vao] THEN i \notin gl.values
    ELSE IF copies /\ InList(i)
    THEN /\ meant = [array |-> ArrayOf(i), buffer |-> driver.bound]
         /\ \A p \in DOMAIN state.list : state.list[p].index = i =>
              Reads(ArrayOf(i), vertices) \subseteq CopiedFor(p, ElementsCount(vertices))
    ELSE meant = driver.src[state.vao][i] /\ meant.buffer # None

(* The commands for the arrays have room before the one that draws, and    *)
(* all that is copied behind it.                                           *)
Laid(room) == state.count = Len(state.list) /\ (room \/ state.list = <<>>)

(* A draw that is sent, with the right indices, or not; with the arrays in *)
(* the list, or without.                                                   *)
Draw(vertices, sent, copies, room) ==
  LET reads == IF "arrays" \in Manners THEN gl.enabled[state.vao] ELSE Indices
      right == sent /\ (copies => Laid(room))
  IN /\ "fits" \in Manners => room
     /\ "objects" \in Manners /\ state.vao # None =>
          \A i \in gl.enabled[state.vao] : gl.src[state.vao][i].buffer # None
     /\ "unbound" \in Manners /\ copies /\ state.list # <<>> => gl.bound = None
     /\ wrong' = wrong \cup {i \in reads : ~(right /\ ReadsRight(i, vertices, copies))}
     /\ driver' = IF ~sent \/ ~copies THEN driver
                  ELSE [driver EXCEPT !.src[None] =
                          [i \in Indices |-> IF InList(i) THEN Gone ELSE @[i]]]
     /\ UNCHANGED <<state, gl, cast>>

DrawArrays(first, n, room) ==
  Draw(first..(first + n - 1), state.vao # None \/ HasArrays, state.vao = None, room)

(* With indices in the element buffer, arrays are not copied; indices in   *)
(* application memory are, if they are bytes or shorts and no object is    *)
(* bound.                                                                  *)
CopyIndices == state.vao = None /\ state.elem = None
DrawElements(vertices, short, room) ==
  LET inBuffer == gl.elem[state.vao] # None IN
    /\ "elements" \in Manners =>
         IF inBuffer THEN \A i \in gl.enabled[None] : ~InMemory(i) \/ state.vao # None ELSE short
    /\ "objects" \in Manners /\ state.vao # None => inBuffer
    /\ Draw(vertices,
            /\ state.vao # None \/ HasArrays
            /\ inBuffer => state.elem # None
            /\ ~inBuffer => CopyIndices /\ short
            /\ driver.elem[state.vao] = gl.elem[state.vao],
            CopyIndices, room)

-----------------------------------------------------------------------------
Next ==
  \/ \E i \in cast.indices :
       \/ \E a \in cast.arrays : VertexAttribPointer(i, a)
       \/ \E on \in BOOLEAN : SetVertexAttribArray(i, on)
       \/ "values" \in cast.calls /\ VertexAttrib(i)
  \/ cast.buffers # {} /\
       \/ \E b \in cast.buffers \cup {None} : BindArrayBuffer(b) \/ BindElementBuffer(b)
       \/ \E b \in cast.buffers : DeleteBuffers(b)
       \/ GetArrayBufferBinding \/ GetElementBufferBinding
  \/ "objects" \in cast.calls /\
       \/ \E v \in Names : BindVertexArray(v)
       \/ \E v \in Vaos : DeleteVertexArrays(v)
  \/ \E f, n \in 0..MaxVertex, room \in BOOLEAN : n > 0 /\ f + n <= MaxVertex + 1 /\ DrawArrays(f, n, room)
  \/ \E vertices \in (SUBSET (0..MaxVertex)) \ {{}}, short, room \in BOOLEAN :
       DrawElements(vertices, short, room)

Spec == Init /\ [][Next]_vars

-----------------------------------------------------------------------------
(* Properties.                                                             *)

Source == [array : Arrays \cup {NoArray}, buffer : Buffers \cup {None, Absent}]
Driver == [enabled : [Names -> SUBSET Indices], src : [Names -> [Indices -> Source]],
           bound : Buffers \cup {None}, elem : [Names -> Buffers \cup {None}],
           values : SUBSET Indices]
TypeOK ==
  /\ state \in [table : [Indices -> {Absent} \cup Entry],
                first : Indices \cup {None}, list : Seq([index : Indices, chunk : 1..MaxChunk]),
                count : Nat, bound : Buffers \cup {None},
                elem : Buffers \cup {None}, vao : Names]
  /\ driver \in Driver /\ gl \in Driver
  /\ wrong \subseteq Indices /\ cast \in Casts

(* The room that a draw asks for its commands (enabled_count of them) is   *)
(* what it fills (one for each in enabled_attribs), and it copies each     *)
(* enabled array in application memory, once, and nothing else.            *)
ListCounted ==
  /\ state.count = Len(state.list)
  /\ \A p, q \in DOMAIN state.list : state.list[p].index = state.list[q].index => p = q
  /\ \A i \in Indices : InList(i) <=> InMemory(i) /\ state.table[i].enabled

(* glGetVertexAttrib* tells of an array, in the object that is bound or    *)
(* out of all, what a driver would; in an object, not which buffer it lies *)
(* in, but whether it lies in one.  For an index without an entry it tells *)
(* of no array, but in the buffer bound: not asked then.  The buffers      *)
(* bound last are bound in the driver, and in the record, by which a call  *)
(* that binds one is skipped.                                              *)
AnswersAgree ==
  /\ driver.bound = gl.bound /\ driver.elem[state.vao] = gl.elem[state.vao]
  /\ state.bound = gl.bound /\ state.elem = gl.elem[state.vao]
  /\ \A i \in Indices : \A told \in Answers(i) :
       LET meant == gl.src[state.vao][i] IN
         state.vao # None \/ state.table[i] # Absent \/ state.bound = None =>
           /\ told.enabled = (i \in gl.enabled[state.vao]) /\ told.array = meant.array
           /\ told.buffer = None <=> meant.buffer = None
           /\ state.vao = None => told.buffer = meant.buffer

(* README: 'a "virtual" OpenGL ES 2.0 driver'.  No draw, after whatever    *)
(* sequence of calls, has read an attribute from another place than the    *)
(* application named, from memory that is not its own any more, or beyond  *)
(* what was copied for the vertices it draws.                              *)
DrawsReadRight == wrong = {}
=============================================================================
