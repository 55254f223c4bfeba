---------------------------- MODULE EglContexts ----------------------------
(***************************************************************************)
(* The client's record of the EGL contexts: egl_state_t, the process-wide  *)
(* list of them, and the EGL entry points of caching_client.c that create, *)
(* bind and destroy contexts and surfaces from several threads.  Under it  *)
(* lies the driver's EGL, which is external and modelled by what the code  *)
(* relies on: handles, deferred destruction, one thread per context.       *)
(*                                                                         *)
(* There is one EGLDisplay, and the draw and the read surface are always   *)
(* the same one.  A section under cached_gl_states_mutex is one step (the  *)
(* display list's mutex is only taken inside it or alone), so is a         *)
(* synchronous call of the driver; between them the other threads run.     *)
(* Freed memory keeps its contents until it is overwritten, at any time,   *)
(* and may then be given out again while a thread or a child still points  *)
(* to it.                                                                  *)
(***************************************************************************)
EXTENDS Integers, Sequences, SequencesExt, FiniteSets

CONSTANTS
  Threads,    \* application threads
  Contexts,   \* EGLContext handles
  Surfaces,   \* EGLSurface handles
  MaxStates,  \* bound: egl_state_t objects created
  MaxCalls,   \* bound: eglCreate* and eglTerminate calls that succeed
  CountMod,   \* contexts_sharing is a size_t: it wraps here
  Surfaceless, \* the driver has EGL_KHR_surfaceless_context
  MaxPending  \* bound: asynchronous eglMakeCurrent in flight per thread

NoCtx  == "no context"
NoSurf == "no surface"
None   == [ctx |-> NoCtx, surf |-> NoSurf]

ASSUME ContextsAssumption ==
  /\ NoCtx \notin Contexts /\ NoSurf \notin Surfaces
  /\ {MaxStates, MaxCalls, MaxPending} \subseteq Nat
  /\ CountMod \in Nat \ {0, 1}
  /\ Surfaceless \in BOOLEAN

VARIABLES
  \* The driver (external).
  ctxs,     \* handle -> "free", "valid", or "doomed": destroyed but current
  surfs,    \* the same for surfaces
  bound,    \* what each thread has current
  up,       \* the display is initialised
  calls,    \* how often it made a handle or was terminated
  \* caching_client.c.
  heap,     \* egl_state_t by address; address 0 is NULL
  states,   \* cached_gl_states: addresses of the list, in its order
  current,  \* client_t.active_state, by thread
  entries,  \* cached_gl_displays: the surfaces cached in each entry
  op,       \* what each thread's EGL call has still to do
  pending,  \* asynchronous eglMakeCurrent commands, by thread
  raced,    \* history: a thread deactivated a state another one has current
  chained   \* history: a state was deleted for one that shares with it

driverVars == <<ctxs, surfs, bound, up, calls>>
vars == <<ctxs, surfs, bound, up, calls, heap, states, current, entries, op,
          pending, raced, chained>>

Addresses == 1 .. MaxStates
Live      == Range(states)
Binding   == [ctx : Contexts \cup {NoCtx}, surf : Surfaces \cup {NoSurf}]
Idle      == [at |-> "idle"]

(* What a thread's call has still to do.                                   *)
Steps == {Idle, [at |-> "add_display"], [at |-> "terminated"]}
           \cup [at : {"add_surface"}, surf : Surfaces]
           \cup [at : {"share"}, ctx : Contexts, with : Contexts]
           \cup [at : {"destroyed"}, ctx : Contexts]
           \cup [at : {"ask", "commit"}, to : Binding]

(* egl_state_init: in particular, nobody shares with a new state.          *)
NewState(c) == [ctx |-> c, surf |-> NoSurf, active |-> FALSE, destroyDpy |-> FALSE,
                destroyCtx |-> FALSE, share |-> 0, sharing |-> 0]
StateSet == [ctx : Contexts \cup {NoCtx}, surf : Surfaces \cup {NoSurf},
             active : BOOLEAN, destroyDpy : BOOLEAN, destroyCtx : BOOLEAN,
             share : Addresses \cup {0}, sharing : 0 .. CountMod - 1]

Init ==
  /\ ctxs = [c \in Contexts |-> "free"]
  /\ surfs = [s \in Surfaces |-> "free"]
  /\ bound = [t \in Threads |-> None]
  /\ up = TRUE /\ calls = 0
  /\ heap = [a \in Addresses |-> NewState(NoCtx)]
  /\ states = << >>
  /\ current = [t \in Threads |-> 0]
  /\ entries = << >>
  /\ op = [t \in Threads |-> Idle]
  /\ pending = [t \in Threads |-> << >>]
  /\ raced = FALSE /\ chained = FALSE

-----------------------------------------------------------------------------
(* The driver.                                                             *)

(* A destroyed handle stays while a thread has it current.                 *)
AfterRelease(table, field, now) ==
  [h \in DOMAIN table |->
     IF table[h] = "doomed" /\ \A t \in Threads : now[t][field] # h
     THEN "free" ELSE table[h]]
Destroyed(table, field, handles) ==
  [h \in DOMAIN table |->
     IF h \notin handles \/ table[h] = "free" THEN table[h]
     ELSE IF \E t \in Threads : bound[t][field] = h THEN "doomed" ELSE "free"]

(* eglMakeCurrent succeeds: release, or a valid context that no other      *)
(* thread has current, with a valid surface, or none if it can do that.    *)
Accepts(t, b) ==
  \/ b = None
  \/ /\ up
     /\ b.ctx # NoCtx /\ ctxs[b.ctx] = "valid"
     /\ IF b.surf = NoSurf THEN Surfaceless ELSE surfs[b.surf] = "valid"
     /\ \A u \in Threads \ {t} : bound[u].ctx # b.ctx

Bind(t, b) ==
  /\ bound' = [bound EXCEPT ![t] = b]
  /\ ctxs' = AfterRelease(ctxs, "ctx", bound')
  /\ surfs' = AfterRelease(surfs, "surf", bound')
  /\ UNCHANGED <<up, calls>>

-----------------------------------------------------------------------------
(* The list of states.                                                     *)

(* Mutated forms: a second state is made for a context; an active state is *)
(* deleted; the state left stays active; the asynchronous call is made for *)
(* any context; the count is a signed number.                              *)
Find_NotFound(h, list, c)     == 0
MayDelete_Always(s)         == TRUE
Deactivated_Kept(h, a)      == h
SameContext_Any(t, b)       == current[t] # 0 /\ b.ctx # NoCtx
Decremented_NoWrap(n)       == n - 1

(* find_state_with_display_and_context: a place in the list, or 0.         *)
Find(h, list, c) == SelectInSeq(list, LAMBDA a : h[a].ctx = c)

(* _caching_client_get_or_create_state in heap w.heap and list w.list; the *)
(* state it returns is w.at.                                               *)
Unused(h) == {a \in Addresses : h[a].ctx = NoCtx}
GetOrCreate(w, c) ==
  LET i == Find(w.heap, w.list, c)
      a == CHOOSE x \in Unused(w.heap) : \A y \in Unused(w.heap) : x <= y
  IN IF i # 0 THEN [w EXCEPT !.at = w.list[i]]
     ELSE [heap |-> [w.heap EXCEPT ![a] = NewState(c)], list |-> Append(w.list, a), at |-> a]

(* `--' on a size_t.                                                       *)
Decremented(n) == (n + CountMod - 1) % CountMod

(* One call of _caching_client_destroy_state, on w.next: it is deleted     *)
(* unless its count, once decremented, is positive; then its share context *)
(* is decremented and goes through the same, losing two in all.            *)
DestroyStep(w) ==
  IF w.next = 0 THEN w
  ELSE LET a == w.next
           n == Decremented(w.heap[a].sharing)
           p == w.heap[a].share
           h == [w.heap EXCEPT ![a].sharing = n]
       IN IF n > 0 THEN [w EXCEPT !.heap = h, !.next = 0]
          ELSE [heap  |-> IF p = 0 THEN h ELSE [h EXCEPT ![p].sharing = Decremented(@)],
                gone  |-> w.gone \cup {a},
                next  |-> p,
                depth |-> w.depth + 1]

(* The calls it makes in turn, up the chain of share contexts from a.      *)
DestroyState(w, a) ==
  LET after[i \in 0 .. MaxStates] ==
        IF i = 0 THEN [heap |-> w.heap, gone |-> w.gone, next |-> a, depth |-> 0]
        ELSE DestroyStep(after[i - 1])
      end == after[MaxStates]
  IN [heap |-> end.heap, gone |-> end.gone, chain |-> w.chain \/ end.depth > 1]

(* What is neither in the list nor pointed to is as good as unused.  What  *)
(* is pointed to and freed is still what it was, until Overwrite.          *)
Swept(h, list, now) ==
  [a \in Addresses |->
     IF a \in Range(list) \cup Range(now) \/ \E x \in Range(list) : h[x].share = a
     THEN h[a] ELSE NewState(NoCtx)]

(* A list without the entries that are gone.                               *)
Without(list, gone) ==
  LET kept[i \in 0 .. Len(list)] ==
        IF i = 0 THEN << >>
        ELSE IF list[i] \in gone THEN kept[i - 1]
        ELSE Append(kept[i - 1], list[i])
  IN kept[Len(list)]

(* The states in sequence `leaving' are destroyed one after the other, the *)
(* heap and list being w.heap and w.list by then.                          *)
DestroyAll(w, leaving) ==
  LET after[i \in 0 .. Len(leaving)] ==
        IF i = 0 THEN [heap |-> w.heap, gone |-> {}, chain |-> FALSE]
        ELSE DestroyState(after[i - 1], leaving[i])
      end == after[Len(leaving)]
  IN [heap |-> end.heap, list |-> Without(w.list, end.gone), chain |-> end.chain]

(* eglDestroyContext and eglTerminate only mark a state that is active.    *)
MayDelete(s) == ~s.active

(* _caching_client_make_current, on the state that is left.                *)
Deactivated(h, a) == [h EXCEPT ![a].active = FALSE]

(* caching_client_eglMakeCurrent: `display_and_context_match'.             *)
SameContext(t, b) == current[t] # 0 /\ heap[current[t]].ctx = b.ctx

(* cached_gl_surface_match, on the first entry of the display.             *)
CachedSurface(s) == s = NoSurf \/ (entries # << >> /\ s \in Head(entries))

-----------------------------------------------------------------------------
(* The entry points.  The driver is asked synchronously only when the      *)
(* thread's asynchronous calls have been handled.                          *)

Starts(t, synchronous) ==
  /\ op[t] = Idle
  /\ synchronous => pending[t] = << >>

Continue(t, next) == op' = [op EXCEPT ![t] = next]

recordVars == <<heap, states, current, entries, raced, chained>>

(* eglGetDisplay: looks for an entry without the mutex ...                 *)
GetDisplay(t) ==
  /\ Starts(t, TRUE)
  /\ entries = << >>
  /\ Continue(t, [at |-> "add_display"])
  /\ UNCHANGED <<driverVars, recordVars, pending>>

(* ... and adds one under it.                                              *)
AddDisplay(t) ==
  /\ op[t].at = "add_display"
  /\ entries' = Append(entries, {})
  /\ Continue(t, Idle)
  /\ UNCHANGED <<driverVars, heap, states, current, pending, raced, chained>>

(* eglInitialize is not overridden by the caching client.                  *)
Initialize(t) ==
  /\ Starts(t, TRUE)
  /\ ~up /\ up' = TRUE
  /\ UNCHANGED <<ctxs, surfs, bound, calls, recordVars, op, pending>>

(* eglCreate*Surface: the driver's call, then cached_gl_surface_add.       *)
CreateSurface(t, s) ==
  /\ Starts(t, TRUE)
  /\ up /\ surfs[s] = "free"
  /\ calls < MaxCalls /\ calls' = calls + 1
  /\ surfs' = [surfs EXCEPT ![s] = "valid"]
  /\ Continue(t, [at |-> "add_surface", surf |-> s])
  /\ UNCHANGED <<ctxs, bound, up, recordVars, pending>>

AddSurface(t) ==
  /\ op[t].at = "add_surface"
  /\ entries' = IF entries = << >> THEN entries
                ELSE [entries EXCEPT ![1] = @ \cup {op[t].surf}]
  /\ Continue(t, Idle)
  /\ UNCHANGED <<driverVars, heap, states, current, pending, raced, chained>>

(* eglDestroySurface, refused with no current state.  What it does next is *)
(* to mark and clear surfaces of states and to look for the handle among   *)
(* the addresses of the cached surfaces, where it is not: no effect here.  *)
DestroySurface(t, s) ==
  /\ Starts(t, TRUE)
  /\ current[t] # 0
  /\ up /\ surfs[s] = "valid"
  /\ surfs' = Destroyed(surfs, "surf", {s})
  /\ UNCHANGED <<ctxs, bound, up, calls, recordVars, op, pending>>

(* eglCreateContext: the driver's call, then the link to the share context.*)
CreateContext(t, c, share) ==
  /\ Starts(t, TRUE)
  /\ up /\ ctxs[c] = "free"
  /\ share = NoCtx \/ (share \in Contexts /\ ctxs[share] = "valid")
  /\ calls < MaxCalls /\ calls' = calls + 1
  /\ ctxs' = [ctxs EXCEPT ![c] = "valid"]
  /\ IF share = NoCtx THEN UNCHANGED op
     ELSE Continue(t, [at |-> "share", ctx |-> c, with |-> share])
  /\ UNCHANGED <<surfs, bound, up, recordVars, pending>>

LinkShare(t) ==
  /\ op[t].at = "share"
  /\ Cardinality(Unused(heap)) >= 2
  /\ LET new    == GetOrCreate([heap |-> heap, list |-> states, at |-> 0], op[t].ctx)
         parent == GetOrCreate(new, op[t].with)
         linked == [parent.heap EXCEPT ![new.at].share = parent.at,
                                       ![parent.at].sharing = (@ + 1) % CountMod]
     IN heap' = Swept(linked, parent.list, current) /\ states' = parent.list
  /\ Continue(t, Idle)
  /\ UNCHANGED <<driverVars, current, entries, pending, raced, chained>>

(* eglDestroyContext: the driver's call, then the record.                  *)
DestroyContext(t, c) ==
  /\ Starts(t, TRUE)
  /\ up /\ ctxs[c] = "valid"
  /\ ctxs' = Destroyed(ctxs, "ctx", {c})
  /\ Continue(t, [at |-> "destroyed", ctx |-> c])
  /\ UNCHANGED <<surfs, bound, up, calls, recordVars, pending>>

ForgetContext(t) ==
  /\ op[t].at = "destroyed"
  /\ LET i    == Find(heap, states, op[t].ctx)
         a    == states[i]
         left == DestroyAll([heap |-> heap, list |-> states], <<a>>)
     IN IF i = 0 THEN UNCHANGED <<heap, states, chained>>
        ELSE IF MayDelete(heap[a])
             THEN /\ heap' = Swept(left.heap, left.list, current)
                  /\ states' = left.list
                  /\ chained' = (chained \/ left.chain)
             ELSE /\ heap' = [heap EXCEPT ![a].destroyCtx = TRUE]
                  /\ UNCHANGED <<states, chained>>
  /\ Continue(t, Idle)
  /\ UNCHANGED <<driverVars, current, entries, pending, raced>>

(* eglTerminate: the driver's call, then the record of the whole display.  *)
Terminate(t) ==
  /\ Starts(t, TRUE)
  /\ up /\ up' = FALSE
  /\ calls < MaxCalls /\ calls' = calls + 1
  /\ ctxs' = Destroyed(ctxs, "ctx", Contexts)
  /\ surfs' = Destroyed(surfs, "surf", Surfaces)
  /\ Continue(t, [at |-> "terminated"])
  /\ UNCHANGED <<bound, recordVars, pending>>

ForgetDisplay(t) ==
  /\ op[t].at = "terminated"
  /\ LET left == DestroyAll([heap |-> heap, list |-> states],
                            Without(states, {a \in Live : ~MayDelete(heap[a])}))
     IN IF states = << >> THEN UNCHANGED <<heap, states, chained, entries>>
        ELSE /\ heap' = Swept(IF current[t] = 0 THEN left.heap
                              ELSE [left.heap EXCEPT ![current[t]].destroyDpy = TRUE],
                              left.list, current)
             /\ states' = left.list
             /\ chained' = (chained \/ left.chain)
             /\ entries' = IF current[t] = 0 /\ entries # << >> THEN Tail(entries) ELSE entries
  /\ Continue(t, Idle)
  /\ UNCHANGED <<driverVars, current, pending, raced>>

(* eglMakeCurrent up to the driver: nothing to do; the same context with a *)
(* cached surface, not waited for; anything else.                          *)
MakeCurrent(t, b) ==
  /\ Starts(t, FALSE)
  /\ ~(b.ctx = NoCtx /\ current[t] = 0)
  /\ ~(SameContext(t, b) /\ heap[current[t]].surf = b.surf)
  /\ IF SameContext(t, b) /\ CachedSurface(b.surf)
     THEN /\ Len(pending[t]) < MaxPending
          /\ pending' = [pending EXCEPT ![t] = Append(@, b)]
          /\ Continue(t, [at |-> "commit", to |-> b])
     ELSE /\ Continue(t, [at |-> "ask", to |-> b])
          /\ UNCHANGED pending
  /\ UNCHANGED <<driverVars, recordVars>>

(* The synchronous call, and an error that is returned.                    *)
AskDriver(t) ==
  /\ op[t].at = "ask"
  /\ pending[t] = << >>
  /\ IF Accepts(t, op[t].to)
     THEN Bind(t, op[t].to) /\ Continue(t, [at |-> "commit", to |-> op[t].to])
     ELSE Continue(t, Idle) /\ UNCHANGED driverVars
  /\ UNCHANGED <<recordVars, pending>>

(* The server handles an asynchronous one; nobody sees an error.           *)
HandleMakeCurrent(t) ==
  /\ pending[t] # << >>
  /\ IF Accepts(t, Head(pending[t])) THEN Bind(t, Head(pending[t])) ELSE UNCHANGED driverVars
  /\ pending' = [pending EXCEPT ![t] = Tail(@)]
  /\ UNCHANGED <<recordVars, op>>

(* eglReleaseThread: the driver lets go, then the record does.             *)
ReleaseThread(t) ==
  /\ Starts(t, TRUE)
  /\ Bind(t, None)
  /\ Continue(t, [at |-> "commit", to |-> None])
  /\ UNCHANGED <<recordVars, pending>>

(* eglGetCurrentContext, answered from the record.                         *)
GetCurrentContext(t) == IF current[t] = 0 THEN NoCtx ELSE heap[current[t]].ctx

(* _caching_client_make_current.                                           *)
Commit(t) ==
  /\ op[t].at = "commit"
  /\ Unused(heap) # {}
  /\ LET b    == op[t].to
         w    == [heap |-> heap, list |-> states, at |-> 0]
         got  == IF b.ctx = NoCtx THEN w ELSE GetOrCreate(w, b.ctx)
         set  == IF b.ctx = NoCtx THEN got
                 ELSE [got EXCEPT !.heap[got.at].surf = b.surf, !.heap[got.at].active = TRUE]
         old  == current[t]
         rest == [set EXCEPT !.heap = Deactivated(set.heap, old)]
         left == DestroyAll(rest, IF heap[old].destroyDpy \/ heap[old].destroyCtx
                                  THEN <<old>> ELSE << >>)
     IN /\ current' = [current EXCEPT ![t] = set.at]
        /\ IF old \in {0, set.at}
           THEN heap' = Swept(set.heap, set.list, current') /\ states' = set.list /\ UNCHANGED <<raced, chained>>
           ELSE /\ heap' = Swept(left.heap, left.list, current')
                /\ states' = left.list
                /\ chained' = (chained \/ left.chain)
                /\ raced' = (raced \/ \E u \in Threads \ {t} : current[u] = old)
  /\ Continue(t, Idle)
  /\ UNCHANGED <<driverVars, entries, pending>>

(* Freed memory is somebody else's (external): it no longer is the state   *)
(* that was in it, and may become another one.                             *)
Overwrite(a) ==
  /\ a \notin Live /\ heap[a].ctx # NoCtx
  /\ heap' = [heap EXCEPT ![a] = NewState(NoCtx)]
  /\ UNCHANGED <<driverVars, states, current, entries, op, pending, raced, chained>>

-----------------------------------------------------------------------------
Bindings == {None} \cup [ctx : Contexts, surf : Surfaces \cup {NoSurf}]

Call(t) ==
  \/ GetDisplay(t) \/ Initialize(t) \/ Terminate(t) \/ ReleaseThread(t)
  \/ \E s \in Surfaces : CreateSurface(t, s) \/ DestroySurface(t, s)
  \/ \E c \in Contexts : DestroyContext(t, c)
  \/ \E c \in Contexts, share \in Contexts \cup {NoCtx} : CreateContext(t, c, share)
  \/ \E b \in Bindings : MakeCurrent(t, b)

Go(t) ==
  \/ AddDisplay(t) \/ AddSurface(t) \/ LinkShare(t) \/ ForgetContext(t)
  \/ ForgetDisplay(t) \/ AskDriver(t) \/ Commit(t)

Next ==
  \/ \E t \in Threads : Call(t) \/ Go(t) \/ HandleMakeCurrent(t)
  \/ \E a \in Addresses : Overwrite(a)

Spec == Init /\ [][Next]_vars

-----------------------------------------------------------------------------
(* Properties.                                                             *)

(* The record, the driver's handles and what the threads have still to do  *)
(* keep their types; a count that went below zero would not.               *)
TypeOK ==
  /\ ctxs \in [Contexts -> {"free", "valid", "doomed"}]
  /\ surfs \in [Surfaces -> {"free", "valid", "doomed"}]
  /\ bound \in [Threads -> Binding] /\ up \in BOOLEAN /\ calls \in Nat
  /\ heap \in [Addresses -> StateSet]
  /\ states \in Seq(Addresses)
  /\ current \in [Threads -> Addresses \cup {0}]
  /\ entries \in Seq(SUBSET Surfaces)
  /\ op \in [Threads -> Steps]
  /\ pending \in [Threads -> Seq(Binding)]
  /\ raced \in BOOLEAN /\ chained \in BOOLEAN

(* No context has two states in the list, whichever threads create it,     *)
(* share with it and bind it at the same time.                             *)
OneStatePerContext ==
  \A i, j \in DOMAIN states : heap[states[i]].ctx = heap[states[j]].ctx => i = j

(* Between calls, the context a thread is told it has current              *)
(* (eglGetCurrentContext) is the one the driver has current for it, even   *)
(* while asynchronous calls are on their way or fail, and while other      *)
(* threads destroy it or terminate the display.  Conditional: after a      *)
(* raced hand-over, or a deletion passed up the chain of share contexts,   *)
(* the answer may be read from freed memory.                               *)
CurrentAgrees ==
  ~raced /\ ~chained => \A t \in Threads :
    op[t].at \notin {"ask", "commit"} =>
      bound[t].ctx = GetCurrentContext(t)

(* A state is marked active exactly while a thread has it current: the     *)
(* mark is what keeps eglDestroyContext and eglTerminate from deleting it. *)
(* Conditional: a context handed from thread to thread loses the mark when *)
(* the first thread's record is updated after the second's, and a deletion *)
(* passed up the chain of share contexts lets another state into the       *)
(* memory that a thread has as its current state.                          *)
ActiveIffCurrent ==
  ~raced /\ ~chained => \A a \in Live : heap[a].active <=> \E t \in Threads : current[t] = a

(* No thread is left with a deleted state as its current one, whatever the *)
(* others destroy or terminate.  Conditional: a raced hand-over, or a      *)
(* deletion passed up the chain of share contexts, can do it.              *)
CurrentIsLive ==
  ~raced /\ ~chained => \A t \in Threads : current[t] \in Live \cup {0}

(* caching_client.c:87: "Wait until we've deleted the children sharing us  *)
(* to delete ourself."  Violated: contexts_sharing starts at 0, so the     *)
(* count of one child is no more than that of the context itself.          *)
ChildrenKeepParent ==
  \A a \in Live : heap[a].share \in Live \cup {0}
=============================================================================
