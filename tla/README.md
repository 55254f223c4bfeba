# gpu-proxy in TLA+

gpu-proxy is an OpenGL ES 2.0 / EGL library that puts itself between an
application and the driver.  Every application thread gets a *client*, which
turns GL and EGL calls into commands in a ring buffer and answers from a cache
what it can, and a *server thread*, which runs the commands against the driver.
This directory holds TLA+ models of it, the TLC configurations that check them,
and proofs for TLAPS.

## The system

| Component | State | Operations | Talks to |
|---|---|---|---|
| Command channel (`ring_buffer.c`, `client/client.c`, `server/server.c`, `command.h`) | ring buffer (`head`, `tail`, `fill_count`, memory, `last_token`), two semaphores, the client's token counter | reserve and write a command, publish it, wake the server, wait for a token; read, run, release, reply | client and server thread of one pair, by shared memory |
| Object names (`client/name_handler.c`, handlers in `server/server.c`, the handlers the generator writes, `util/hash.c`) | per context and kind: last name and list of reusable names; one process-wide table from client to driver names | `glGen*`, `glCreate*`, `glDelete*`, commands that carry a name | clients by the command stream; all server threads by the table |
| EGL contexts and surfaces (`client/caching_client.c`, `egl_state.c`) | process-wide list of `egl_state_t`, list of displays with their surfaces, the current state of each thread | `eglGetDisplay`, `eglCreate*`, `eglDestroy*`, `eglMakeCurrent`, `eglReleaseThread`, `eglTerminate` | all application threads by two mutexes; the driver, synchronously and (one path of `eglMakeCurrent`) not |
| GL state cache (`client/caching_client.c`, `egl_state.h`) | the cached value of every piece of GL state, the error flag, `need_get_error` | setters that skip commands, getters that answer from the cache | server by the command stream |
| Vertex attributes and draws (`client/caching_client.c`) | the attribute list, the sub-list of enabled ones, client-memory arrays | `glVertexAttribPointer`, enable/disable, `glDraw*` | application memory, command stream |
| Programs, shaders, uniforms (`program.c`, `client/caching_client.c`) | a list of programs with location caches, shared by contexts; the program in use of each | create, link, use, delete, ask for locations, set uniforms | object names, command stream |
| Framebuffers, textures, renderbuffers (`client/caching_client.c`) | caches of each, bindings, completeness | bind, attach, delete, image upload | object names, command stream |
| Start-up (`dispatch_table.c`, `client/egl_api_custom.c`, `client/client.c`, `server/server.c`) | the base dispatch table and its two flags, thread-local flags, three mutexes | a thread's first call: make a client, fill the base table, start a server thread | all threads; the driver, which may call back |
| Containers, sizes, generator, tests | | | |

Behaviours that are hard here: client and server of a pair share memory with no
lock but an atomic add; the reply protocol; a client runs ahead of its server,
so everything it caches or reuses is a claim about commands that have not run;
several application threads share the state list, the display list and the name
table; the driver defers the destruction of what is current.

What makes each component correct:

* Channel: commands run once, whole, in order; nothing is overwritten while it
  may be read; a sleeper is always woken; a synchronous call returns after its
  command ran.
* Names: a name is handed out once until it is deleted; a command that carries a
  name reaches that name's object in the driver; nothing outlives its deletion.
* EGL: what a thread is told it has current is what the driver has current;
  a state in use is not deleted; a shared parent outlives its children.
* GL cache, framebuffers and textures: an answer from the cache is what the driver
  would have answered; a skipped command would have had no effect; a call the
  client refuses itself the driver would refuse, and the error is reported.
* Draws: the arrays the driver reads are those of the time of the call, all of what
  is drawn was copied, and the room reserved is what is filled.
* Programs: every context uses the program it should, a location answered from an
  entry is the program's, and no uniform is lost or goes to another program.
* Start-up: when a thread's first call goes on, all it works with is there; and it
  does go on.

## Modules

| Module | What it is |
|---|---|
| `CommandStream` | abstract specification: what an application thread is promised by the channel |
| `CommandChannel` | the channel itself, and the refinement to `CommandStream` (`Stream`) |
| `CommandChannelProofs` | lemmas about `%`; theorems about `CommandChannel` |
| `ObjectNames` | allocators, name table and handlers |
| `EglContexts`, `MCEglContexts` | the state and display lists under several threads; symmetry for TLC |
| `FramebufferCache`, `MCFramebufferCache` | the client's records of textures, renderbuffers, framebuffers and errors, next to the driver |
| `GLState`, `MCGLState` | fixed-function state: setters that skip and refuse, getters, errors |
| `VertexArrays`, `MCVertexArrays` | vertex arrays, buffers, vertex array objects and draw calls |
| `Programs`, `MCPrograms` | programs, locations and uniforms of contexts that share them |
| `StartUp` | a thread's first call, with every other thread's |
| `ObjectNamesProofs`, `EglContextsProofs`, `FramebufferCacheProofs`, `GLStateProofs`, `ProgramsProofs`, `StartUpProofs`, `VertexArraysProofs` | the theorems about each of these |

### CommandChannel and CommandStream

A step is one access to state the other thread can see.  The client is
`Reserve` (`client_get_space_for_command` and the writing of the arguments),
`SetToken`, `Publish` (the atomic add of `buffer_write_advance`), `CheckPost`
(the test of `fill_count` and the post), `TestReply` and `WakeClient` (the loop
of `client_run_command`).  The server is `ReadBuffer`, `WakeServer`, `Exit`,
`Handle`, `Release`, `TestToken`, `PublishToken`, `PostReply`: the work loop line
by line.  Memory is cut into units of the size of a header.  `Reserve` writes all
of a command at once: the units are private to the client until `Publish` —
except that the server still reads the token of the slot it released last, which
is why header and payload each have a `token`: for a payload unit it is whatever
the argument bytes are when read at the offset of that field.  `PublishToken` may
use the value `TestToken` read or read it again; C allows both, since nothing
orders the two threads there.

`CommandStream` knows neither buffer nor semaphore nor token: `Post`, `Call`,
`Execute`, `Return`.  It has one concession, `sound`: the channel tells replies
apart by the size of token numbers, and while `sound` is true a call returns only
after its command ran.  `CommandChannel` keeps two history variables, `wrapped`
and `misread`, for the two ways it stops being true; the run
`ChannelRecycled` shows the second on the code (below).  Everything else is promised
without it.

### ObjectNames

`AllocNames`, `ClaimName` and `ReturnNames` are the three functions of
`name_handler.c`.  A client's `Gen`, `Delete` and `Use` change the allocator at
once and queue a command; the queue is the promise of `CommandStream` (in order,
later).  The server's `HandleGen` and `HandleDelete` are the hand-written
handlers; `LookUp` and `Apply` are the two halves of a generated one, before and
after it unlocks the mutex.  The driver answers any names it does not use.
`own` is a history variable: which driver name was made for which client name.
`Careful = TRUE` limits the application to deleting and using names it holds,
which is all the code supports: nothing in `name_handler_delete_names` guards
against a second delete.  Both runs use it.

### EglContexts

An `egl_state_t` is a record at an address of `heap`; `states` is
`cached_gl_states`, `current[t]` is the `active_state` of thread t's client.  An
entry point is one action for its driver call and one for the section under
`cached_gl_states_mutex`, with `op[t]` in between; `eglMakeCurrent` is
`MakeCurrent` (decide), `AskDriver` or a queued command that `HandleMakeCurrent`
runs, and `Commit` (`_caching_client_make_current`).  The driver is external:
`Accepts`, `Bind`, `Destroyed`, `AfterRelease` say what the code relies on —
a handle that is destroyed while current stays until it is released, a context is
current in one thread only, a handle may be reused.  There is one display, and
the draw and read surfaces are the same one.  `DestroyStep` is
`_caching_client_destroy_state`, whose recursion up the chain of share contexts is
the recursive function in `DestroyState`; `DestroyAll` is a loop of these, and
`Without` the entries that remain.  `Swept` returns to the unused what is neither in the list nor
pointed to; freed memory that a thread still has as its current state may be overwritten
or reused at any time (`Overwrite`), and `eglGetCurrentContext` reads what is then in it
(`caching_client.c:4806`).

Three properties, `CurrentAgrees`, `ActiveIffCurrent` and `CurrentIsLive`, are
conditional, on history variables that say when the code
leaves them: `raced` (a thread deactivated a state another thread had already
made current) and `chained` (a deletion was passed on to a share context).  Each of the
three fails without the first within the bounds of `EglThreads`, and `CurrentAgrees` and
`CurrentIsLive` without the second; `ActiveIffCurrent` does with a fifth creating call,
when freed memory becomes another state.  The surface that an asynchronous `eglMakeCurrent` reports
is not promised: with one that was destroyed it is wrong (`caching_client.c:5009`).

### FramebufferCache

`state` is the part of `egl_state_t` that records bindings, textures (the
framebuffer a texture was last attached to, the size recorded of an image, one
parameter), renderbuffers, framebuffers (`complete`, the attached renderbuffers)
and errors (`error`, `need_get_error`).  `driver` is the context in the driver,
external, as it is when everything sent has run: commands arrive in order
(`CommandStream`), a query is answered after them, and one client writes to one
context, so the cache and the drained driver can be compared at every step.  An
action is one entry point of `caching_client.c` with its early returns; a call
that the client skips is an action that is not enabled.  `owed` is a history
variable: a call was made, since the last `glGetError`, that a GLES 2.0 driver
refuses.  The calls for multisampled storage and
attachments and for 3D images have actions of their own, which do what their
plain forms do; `Truncated` is the conversion `glTexParameterf` makes of its
value, and `ParameterAnswered` what `glGetTexParameter*` tells.  An image has a size
for each level in the driver and one in the record, which `glTexImage2D` of any level
sets; `glTexSubImage2D` of any level is compared with it.  `Pname` is the parameter
followed: a filter, which `_create_texture` initialises, or the anisotropy, which is what
`malloc` left (`LeftBy`), and zero for the default texture (`DefaultParam`).

The driver's side is what GLES 2.0 says of it: a framebuffer is
complete if something is attached and all of it has an image; a deleted image
leaves the framebuffer that is bound and stays, nameless, in the others.  It never
deletes a renderbuffer, because `server.c:257` asks it to delete buffers instead.

The records cannot follow everything GL allows.  `Manners` is what the application
keeps to beyond what GL asks, and every one is needed: without it, TLC finds one of
the properties violated (without `parameters`, when `Pname` is the anisotropy).

| Manner | Without it | Because |
|---|---|---|
| `names` | bindings differ | a wrong target or name is recorded though the driver refuses it (`caching_client.c:408`, `:430`) |
| `rebinds` | parameters differ, legal calls are refused | `glActiveTexture` forgets the binding (`:354`) |
| `parameters` | the answer is what `malloc` left | `texture_max_anisotropy` is never initialised (`egl_state.c:511`, against `egl_state.h:59`) |
| `levels` | a legal `glTexSubImage2D` is refused | the size of any level is recorded as the texture's, and compared with (`:3329`, `:3408`) |
| `sizes` | a legal `glTexSubImage2D` is refused | copies and compressed images do not record the size (`:759`, `:810`) |
| `storage` | a legal draw is refused | storage marks the bound framebuffer only (`:4081`) |
| `attaches` | a legal draw is refused, an error is not reported | attaching is not flagged; an image remembers one framebuffer, and detaching marks none (`:2020`) |
| `asks` | a driver's error is not reported | a draw to a framebuffer of unknown status is never flagged (`:1697` hides the variable that `:1728` tests) |

`ErrorIsReported` has the exception the code has: `glGetError` drops the client's
own error when a flagged call makes it ask the driver (`:2312`).

### What the next three models share

`GLState`, `VertexArrays` and `Programs` compare the driver behind the proxy with
one that is called directly.  `driver` is the first, as it is when everything sent
has run; `gl` is a history variable, the second: it gets every call, skipped,
refused or sent.  A property then says that what the client skipped or refused made
no difference, and that what it answers without the driver is what the second one
would answer.  As in `FramebufferCache`, `Manners` is what an application keeps to
beyond what GL asks of it, each line with the code that makes it necessary; without
any one of them TLC finds a property violated.  The tables are what these models need
and found, within what they follow, and not all that this proxy does not support.
A property promises nothing of what a manner, or a condition of its own, leaves out:
a hazard that only such behaviour meets has no property in `PROJECT.json`, and a note
that says so.

### GLState

One action for each setter, with its early return, its checks and its record; `Set`
is what most have in common.  Fields are those of `egl_state_t`; a value is the
driver's initial one, the one `egl_state_init` records where that differs, another
one, or an invalid one.  `Answered` are the fields of which `glIsEnabled` and the
generated `glGet*` tell from the record.  These assign a float or an integer of the record to
the type that is asked for, as C does (`Assigned`): a fraction is cut off, a
`GLboolean` keeps eight bits.  GL rounds, scales colours and depths to the range of an
integer, and tells as a Boolean whether something is zero (`Converted`).  `Answer` and
`RightAnswer` are a value and how it is turned into the type asked for.

| Manner | Because |
|---|---|
| `alike` | `glBlendFuncSeparate` records the alpha factor over the colour factor (`caching_client.c:600`) |
| `starts` | masks, rectangles and sample coverage are recorded with other initial values than GL's (`egl_state.c:116`) |
| `drawable` | clear values are refused while the framebuffer is recorded as incomplete (`caching_client.c:674`) |
| `caps` | unknown capabilities and zero line width are sent, unflagged: the driver's error is never fetched (`:1362`, `:2805`) |
| `types` | the getters assign where GL converts (generator `:3158` to `:3182`): only flags with any getter, fractions as floats, masks as integers, other numbers as either |
| `stores` | an unknown pixel store parameter is an invalid value to the client, an invalid enum to GL (`:2835`) |

Left out of the answers is what the getters get wrong: the alpha factor after
`glBlendFuncSeparate`, and the reference and mask of back faces, for which they tell
the front's; and the driver's limits, which are kept as the first getter converted them.

### VertexArrays

`state.table` is the list of attributes, `state.list` the sub-list of enabled arrays
in application memory, each with its chunk, and `state.count` the `enabled_count`
kept next to it.  `Added` and `Removed` are the two list functions with their
quirks.  A draw (`Draw`) copies chunk after chunk (`CopiedFor`) and `ReadsRight`
asks of each attribute whether the driver reads the array meant and only bytes that
were copied.  Memory is addresses; a copy that is an offset to the driver, because a
buffer is bound there, is no array.  A draw is asynchronous: what goes to the server as a
pointer into the application's memory, neither copied nor in a buffer, is read when the
call has returned, which is wrong.  `Told` is what the driver calls a buffer: the server
translates the client's names to the driver's (`server.c:68`), and nothing translates
an answer back.  Names of vertex array objects are the driver's own: asking for the one bound
changes no record.

| Manner | Because |
|---|---|
| `pointers` | only arrays specified before they are enabled, and while disabled, are moved to their place (`caching_client.c:1440`) |
| `binding` | whether an array joins the list depends on the buffer bound when it is enabled (`:1440`) |
| `rising` | an array that goes before the first of the list replaces the whole list (`:321`) |
| `strides` | a chunk is as long as its last array's stride says: too short if others have a longer one, or if an element is longer than the stride (`:1561`) |
| `unbound` | with a buffer bound, the copies' addresses are offsets into it (`:1639`) |
| `arrays` | a draw with no enabled array and no buffer is not sent (`:1535`) |
| `values` | `glVertexAttrib*` without an entry counts one that is not filled in (`:3845`), and no value is ever sent |
| `detached` | a deleted buffer is taken from all arrays or none, as the first one has it, and from one target (`:1085`) |
| `elements` | the element buffer is the context's to the client and the object's to GL (`:4390`); indices of other sizes are not copied (`:1843`) |
| `fits` | a draw larger than the command buffer is dropped half-way (`:1650`) |
| `queries` | the answer for a buffer binding, the driver's name for it, is recorded as the client's, for all arrays, and for elements as the array buffer's (`server.c:68`, generator `:3198`, `:840`): asked only while none is bound |
| `objects` | with an object bound, arrays in application memory and indices are sent as pointers with an asynchronous draw (`caching_client.c:1716`, `:1908`) |

`AnswersAgree` has one exception: which buffer an array of an object lies in is answered
with the driver's name, so that only whether it lies in one is promised.

### Programs

`state.objects` is the list of entries that contexts share, `mapped` the names the
server still has; `found` are the locations of an entry.  A thread's calls are taken
one at a time: the list has no mutex, and what two threads do to it at once is not
modelled.  `SameKey` is the table's key, the 32-bit hash of a name.

| Manner | Because |
|---|---|
| `linked` | `glUseProgram` records a program the driver refuses (`caching_client.c:3805`) |
| `once` | `glLinkProgram` keeps the locations of the link before (`:2249`) |
| `asked` | `glUniform*` is refused at a location never asked for, as of the second element of an array (`:3450`) |
| `alive` | the server forgets a deleted program's name at once, though it is in use (`server.c:287`) |
| `yours` | the entry of a program in use elsewhere is deleted (`caching_client.c:926`) |
| `hashes` | locations are kept by hash (`hash.c:500`) |

### StartUp

A step is one access to what threads share: the two flags of
`dispatch_table_get_base` and the table itself, which have no mutex, the three
mutexes, and the handshake by which a client waits for its server
(`server_started_mutex`, locked twice by the one and unlocked by the other).
`LookAgain` may go either way when the table is done: nothing keeps a compiler from
using the first look's value.  The driver's `eglInitialize` may call back into the
library (`Reenter`), and such a call goes on in the model as if it were answered; in
the code it jumps through an entry of the base table that is still empty, unless the
driver looks its own functions up.  That crash is not modelled, so that `FirstCallEnds`
holds for drivers that do not meet it.  `raced` marks the servers that came while another thread filled the table:
they copy what is there, against the comment at `dispatch_table.c:63`, and
`StartsWhole` promises the whole table to the others only.

## Runs

| Run | Bounds | Shows |
|---|---|---|
| `ChannelSafe` | 3 units, commands of 1 and 2 units, 4 commands, token numbers modulo 3, shutdown allowed | `TypeOK`, `HeadersIntact`, `InOrder`, `NoLostWakeup`, `NoLostReply`, `SyncRanIfSound`; implements `CommandStream` (`StreamSafety`) |
| `ChannelLive` | the same buffer, 3 commands, tokens modulo 2, no shutdown | no deadlock, `NeverBothAsleep`, the liveness of `CommandStream`, `CallsReturn` |
| `ChannelRecycled` | 2 units | violated: `SyncRanUntilWrap` |
| `NamesOneKind` | 1 client, each of five kinds alone, 3 names, 3 driver names, batches of 2, 3 commands in flight | `WaitingNamesAreFree`, `EachNameItsObject`, `UseFindsObject`, `NoDeadEntry`, `DriverHoldsNoMore` |
| `NamesMixed` | buffers and textures together | violated: `EachNameItsObject` |
| `EglThreads` | 2 threads, 2 contexts, 1 surface, 4 states, 3 creating calls and a fourth by one thread alone | `OneStatePerContext`, `CurrentAgrees`, `ActiveIffCurrent`, `CurrentIsLive` |
| `EglParents` | 1 thread, 2 contexts | violated: `ChildrenKeepParent` |
| `FramebufferCareful` | 2 texture units, 2 levels, sizes up to 2; a texture and two framebuffers, a renderbuffer and two framebuffers, or one of each; a filter; all `Manners` | `BindingsAgree`, `ParametersAgree`, `RefusedDrawIsWrong`, `RefusedPartIsWrong`, `ErrorIsReported` |
| `GLState` | twelve groups of setters, one at a time, three values and an invalid one, hints, statuses; all `Manners` | `NothingLost`, `FirstErrorReported` |
| `VertexArrays` | up to 3 attributes, 6 arrays, 2 buffers, 1 vertex array object, vertices 0 to 2, chunks to 5; all `Manners` | `ListCounted`, `AnswersAgree`, `DrawsReadRight` |
| `Programs` | 2 contexts, 2 programs, 2 names, 2 locations; all `Manners` | `LocationsAgree`, `EffectsAgree` |
| `StartUp` | 3 threads and their servers, a table of 2 entries | `StartsWhole`, `FirstCallEnds` |

Why these are enough.  Three units with commands of one and two give a command
that wraps in the middle, a full buffer and one with room for the smaller command
only; four commands fill it and go round; three token numbers wrap at the third
synchronous call.  The proofs cover every other size.  Three names and two in a
batch give lists of reusable names in any order and batches that mix old and new
names; three commands in flight let a name be deleted, reused and used before the
server sees any of it.  Two threads and two contexts are what a hand-over and a
destroy next to it take; for a deletion to be passed on to a parent that is in use, a
handle has to be given away again, which takes a fourth creating call, but one thread only
(`Alone`: 3.7 million states).  In
`FramebufferCache` two framebuffers are what it takes for an image to be in the
wrong one's record, one of each kind for a framebuffer with two kinds of image,
two units for a binding that is forgotten; `Casts` lists these combinations, so that
one run covers all three (1.7 million states).  Sizes up to two give one that fits, one that
does not and none, two levels one whose size is another's (`Levels`, `MaxSize`).  Setters of
`GLState` touch the fields of their group alone, next to the error flags and the
status of the framebuffer, so that one group at a time loses nothing; the three
values are those the code tells apart.  Three arrays give a list with a first, a
middle and a last one and two chunks, and an array that joins two; three vertices
tell a stride from its multiple and the last vertex from the one before.  Two
programs in two contexts are what it takes to delete one that another context uses.
Three threads are one that fills the table, one that finds it so, and one that comes
when it is done; two entries are half a table and a whole one.

`MaxCommands`, `MaxName`, `DriverNames`, `MaxBatch`, `MaxQueue`, `MaxStates`,
`MaxCalls`, `MaxPending`, `MaxSize`, `MaxVertex`, `MaxChunk`, `Entries`, `Uses` and `Casts` are bounds of the model; `CountMod` and `TokenMod`
stand for 2^64 and 2^32.  Deadlock is checked in `ChannelLive`, `ChannelRecycled` and all runs of the
GL models; elsewhere the behaviour ends by design: after a shutdown (the
code never answers it), when the names run out, at the bounds on calls, or when
all threads have started.

Fairness.  `FairSpec` of `CommandChannel` is weak fairness of the client thread
and of the server thread: the kernel schedules both, and a `sem_wait` whose
semaphore is positive returns.  Issuing a command is not fair: an application may
stop.  `Handle` is one of the server's steps, so the driver is assumed to return.
`Spec` of `StartUp` is weak fairness of each client and each server thread, for the
same reason; that a thread makes its first call is not fair.  A mutex is waited for
under weak fairness, which is enough: each of the three is free for good, or given
to one that waits, after finitely many others had it.

### Where code and documents disagree

* `ChannelRecycled`: `server.c:43` reads the token after `buffer_read_advance`
  released the command (line 41).  A later command, or argument bytes, can be
  taken for the token, and a synchronous call returns early (`command.h:27`).
* `NamesMixed`: one `name_mapping` for all kinds and contexts, with names counted
  from 1 in each.  The README's "works for all GLES 2.0 drivers" holds only for a
  driver that answers the client's own numbers.
* `EglParents`: `contexts_sharing` starts at 0 (`egl_state.c:25`), against
  `egl_state.h:94` and the comment at `caching_client.c:87`.

These have runs.  Others are conditions of the properties, or manners (the tables
above), and TLC finds the property violated without them:

* `wrapped` in `CommandChannel`: the overflow case of `client.c:260` mends the number
  and not the comparison of line 267, and calls after it return at once.
* `raced` in `StartUp`: the comment at `dispatch_table.c:63` means to keep two threads
  apart, which line 59 does not.
* In `EglContexts`, `eglMakeCurrent` with a cached surface is not waited for, and
  destroyed surfaces are never taken out of the cache (`egl_state.c:320`), against
  the comment at `caching_client.c:131` and `tests/server/test_egl2.c:286`.
* `_create_texture` (`egl_state.c:511`) leaves `texture_max_anisotropy` unset, against
  "initial 1.0" at `egl_state.h:59`: with `Pname = "anisotropy"`, TLC finds
  `ParametersAgree` violated.
* Everything the tables of manners list, against the README's "virtual" OpenGL ES
  2.0 driver.

## Proofs

Each theorem holds for every value of the constants that the module's assumption
allows (a condition on their types, except where said); what else one needs is
named with it.  Of each module the first theorem is `TypeCorrect`,
`Spec => []TypeOK`.

Two things recur.  A property of what the client has recorded is never inductive:
why an answer is right depends on all that the record, the driver and the calls
before have in common, and the invariants below say what that is.  And a loop or a
recursion of the code is a recursive function here, of which the prover knows one
step: that all of them keep what one keeps is shown from `LeastNatural` (a set of
numbers has a least one, from the well-foundedness of `<`), by looking at the first
step that does not.

### CommandChannel

`CommandChannelProofs` proves, from `ChannelAssumption` alone (a buffer of at
least one unit, commands no larger than the buffer, at least two token numbers),
for every length, set of sizes, width of the token and number of commands:

| Theorem | States |
|---|---|
| `TypeCorrect` | `Spec => []TypeOK` |
| `NoOverwrite` | `Spec => []HeadersIntact` |
| `RunInOrder` | `Spec => []InOrder` |
| `WakeupKept` | `Spec => []NoLostWakeup` |
| `ReplyKept` | `Spec => []NoLostReply` |
| `NoDeadlock` | `Spec => []NeverBothAsleep` |
| `SyncCallsRun` | `Spec => []SyncRanIfSound` |
| `ImplementsStream` | `Spec => StreamSafety` |

None of the properties is inductive: that a header is intact depends on where the
other commands lie, how much is filled and what the server is doing.  The
inductive invariant is `Core`:

* `Layout`: commands lie one after the other in the stream of units, and `head`
  and `tail` are the positions `wr` and `rd` of that stream, modulo the length;
* `Front`: `fill = wr - rd`, at most the length, and the oldest unreleased command
  is the one at `rd`;
* `Writing` and `Serving`: what each thread holds in its local variables at each
  place of its program;
* and `TypeOK`, `InOrder`, `HeadersIntact` themselves.

From `Layout` and `Front`, two positions less than a length apart are different
units (`UnitsDiffer`, from the lemmas on remainders), so a reservation, which fits what is
free, touches no unreleased unit; that is the step of `Reserve`.  `CoreNext` has
a lemma for each action.  `NoDeadlock` adds `ReplyOfLast`: while the last command
is a call and the caller blocked, its slot is not reused, so the *last* reply is
always right, whatever was misread before.  `SyncCallsRun` adds `TokenOrder`:
while the numbers are sound, tokens grow along the stream and `last_token` is that
of a command that ran.  `ImplementsStream` maps every step of the channel to one
step or none of `CommandStream`, from all of these.

### ObjectNames

| Theorem | States | Given |
|---|---|---|
| `NamesAreFree` | `Spec => []WaitingNamesAreFree` | a careful application |
| `NamesLeadToObjects` | `Spec => []EachNameItsObject` | ... and one client, one kind of object |
| `UsesFindObjects` | `Spec => []UseFindsObject` | the same |
| `EntriesAreAlive` | `Spec => []NoDeadEntry` | the same |
| `DeletedIsGone` | `Spec => []DriverHoldsNoMore` | the same |

`TypeCorrect` needs no careful application; `WaitingNamesAreFree` is inductive once
lists of names are seen to hold each name once.  The other four are about commands
that have not run.  `LoneInv` follows the queue: `Fits` says what one command asks
of the names that are alive when it runs, and which are alive after it;
`Followed`, that there is a chain of such sets from the names alive now to those the
application holds.  With it `Table`: the entries of the names alive are the driver's
names made for them, all different, and nothing else is in the table or the driver.
One client and one kind are necessary: `NamesMixed` shows what happens with two.

### EglContexts

| Theorem | States |
|---|---|
| `OneStateEach` | `Spec => []OneStatePerContext` |
| `CurrentIsRight` | `Spec => []CurrentAgrees` |
| `ActiveIsCurrent` | `Spec => []ActiveIffCurrent` |
| `CurrentIsKept` | `Spec => []CurrentIsLive` |

For any number of threads and any chain of share contexts, with freed memory
overwritten at any time; the last three until a hand-over is raced or a deletion chained.  `Inv` is, next to
`TypeOK`: `World`, that each state in the list is one of a context, each of another; and,
under the same condition, `Answers`, that a call on its way to the driver, or accepted and
not recorded, is for the context that is bound, `Marked`, that the active ones of the list
are the current ones, and `Listed`, that all that is current is in the list.  `Entered`,
`Removed` and `Carried` are what looking up, deleting and sweeping each make of heap
and list, whatever they are called for.

### FramebufferCache

| Theorem | States | Given the manners |
|---|---|---|
| `BindingsAreRight` | `Spec => []BindingsAgree` | `names` |
| `ParametersAreRight` | `Spec => []ParametersAgree` | `rebinds`, `parameters` |
| `RefusedPartsAreWrong` | `Spec => []RefusedPartIsWrong` | `rebinds`, `levels`, `sizes` |
| `RefusedDrawsAreWrong` | `Spec => []RefusedDrawIsWrong` | `names`, `rebinds`, `storage`, `attaches` |
| `ErrorsAreReported` | `Spec => []ErrorIsReported` | all |

`KindOfStep` sorts the steps into twenty kinds, each with a lemma that says what one
does to record and driver.  On these stand `Bound`
(what is recorded as bound is so in the driver or is not recorded), `TexturesKept`
(each entry's parameter and image are the driver's), `AttachmentsKept` (each framebuffer
recorded as incomplete is so; an image remembers the only framebuffer it is in) and
`ErrorsKept` (an error is owed if and only if client or driver has one).  The theorems
show more than the run does of the manners: which ones each property needs.

### GLState

| Theorem | States | Given the manners |
|---|---|---|
| `NothingIsLost` | `Spec => []NothingLost` | `alike`, `starts`, `drawable`, `caps`, `types` |
| `FirstErrorIsReported` | `Spec => []FirstErrorReported` | `drawable`, `caps`, `stores` |

For any groups of setters together, which the run takes one at a time.  `Faithful`:
each field of the record is the driver's (`Follows`), but for those recorded with
another initial value, and the driver's are the other's (`Same`).  `ErrorsInv` is that
for the error flags.

### Programs

| Theorem | States | Given the manners |
|---|---|---|
| `LocationsAreRight` | `Spec => []LocationsAgree` | all |
| `EffectsAreRight` | `Spec => []EffectsAgree` | all |

`EntryKept`: an entry is there as long as its program is, holds the locations asked
for, and one that is deleted is in use by exactly one context, which takes it along
when it leaves.  With it the two drivers are equal.

### StartUp

| Theorem | States |
|---|---|
| `FirstCallsStartWhole` | `Spec => []StartsWhole` |

For any number of threads and entries.  `StartInv` goes along the places a process can
be at: `Table` (who marks the table as done has filled it), `Handshake` (a thread makes
one client and its server once, in this order), `Served` (what the server has by then).

### VertexArrays

| Theorem | States | Given the manners |
|---|---|---|
| `AnswersAreRight` | `Spec => []AnswersAgree` | `pointers`, `values`, `detached`, `elements`, `queries` |
| `ListIsCounted` | `Spec => []ListCounted` | these, `binding` and `rising` |
| `DrawsRead` | `Spec => []DrawsReadRight` | all |

`TypeCorrect` takes what `ListIsCounted` does, since a count may otherwise go below
zero.  For any number of arrays, buffers, objects and vertices, in layers: `Linked`
(record, driver and the other driver agree on what is bound, enabled and specified),
`Counted` (the list is that of the enabled arrays in memory), `Ordered` (it goes
through its chunks in order and through each by address, with one stride) and `Sent`
(the driver has the arrays in buffers).  `TableSteps` shows that few steps touch table
or list, `InsertedOrder` that `Added` keeps the order although it renumbers the chunks
before the array it meets, and `CopiesSuffice` that from an ordered list, all a draw
reads of an array lies between the start of the chunk's first array and what is copied
of the last.  Looking for this order showed that arrays whose element is longer than
their stride are drawn wrongly, too, even alone in their chunk; `strides` excludes them
since, and the run has one.

### Model-checked only

Liveness (`StreamSpec`, `CallsReturn`, `FirstCallEnds`): under fairness it is beyond the
prover.

## Not modelled yet, and the plan

1. What the GL models promise as an abstract specification, a driver called directly,
   with the history variables as its refinement mapping, and the proof of it.
2. Framebuffers further: contexts that share their caches, batches of names (with
   the stale `framebuffer` of `caching_client.c:1222`).
3. How many bytes of application memory an image command copies
   (`util/gles2_utils.c`), as an operator against the reference in GL's text.

Left out for good: the containers in `util/hash.c` and `types_private.c`
(sequential, used as functions and sequences), the generator (text processing; the
code it writes is modelled), the headers of constants (`gl_states.h`, `gl2ext.h`),
calls that keep no record and are sent as they are (shader sources, buffer data,
queries of programs), buffer creation and destruction (no caller reaches
`client_destroy`), and the list of contexts of a display, which nothing reads.
