---------------------------- MODULE ObjectNames ----------------------------
(***************************************************************************)
(* The names of GL objects.  A client hands out names at once, from an     *)
(* allocator per context and kind of object (name_handler.c); the driver's *)
(* own names come later, when the server thread runs the command, and one  *)
(* process-wide table (name_mapping in server.c) leads from the first to   *)
(* the second.  Commands reach a server in the order its client issued     *)
(* them (CommandStream).                                                   *)
(*                                                                         *)
(* One client is one application thread with one context; contexts do not  *)
(* share objects here.  The driver may answer any names it does not use.   *)
(***************************************************************************)
EXTENDS Integers, Sequences, SequencesExt, FiniteSets

CONSTANTS
  Clients,      \* application threads, each with its server thread
  Kinds,        \* the kinds of object in use: a subset of ObjectKinds
  KindsAtOnce,  \* how many kinds the application uses in one behaviour
  MaxName,      \* bound: client names are 1 .. MaxName
  DriverNames,  \* bound: the names the driver may answer
  MaxBatch,     \* bound: names in one glGen* or glDelete*
  MaxQueue,     \* bound: commands in flight per client
  Careful       \* the application deletes and uses only names it holds

ObjectKinds == {"buffer", "texture", "framebuffer", "renderbuffer", "shader"}

ASSUME NamesAssumption ==
  /\ Kinds \subseteq ObjectKinds
  /\ DriverNames \subseteq Nat \ {0}
  /\ {MaxName, MaxBatch, MaxQueue} \subseteq Nat
  /\ Careful \in BOOLEAN

VARIABLES
  used,      \* the kinds this application uses
  handler,   \* handler[c][k]: name_handler_t of context c for kind k
  held,      \* held[c][k]: the names the application holds; for textures
             \* this is also the key set of texture_cache
  queue,     \* queue[c]: commands issued and not yet handled
  mapping,   \* name_mapping: client name -> driver name, 0 for no entry
  hand,      \* hand[c]: the entry a server looked up and has yet to use
  objects,   \* objects[c][k]: external, the driver's objects of context c
  own        \* history: own[c][k][x], the driver name made for name x

vars == <<used, handler, held, queue, mapping, hand, objects, own>>

Names   == 1 .. MaxName
Batches == UNION {[1 .. n -> Names \cup {0}] : n \in 1 .. MaxBatch}
NoHand  == [kind |-> "none", name |-> 0, found |-> FALSE, freed |-> FALSE]

Command ==
  [op : {"gen", "delete"}, kind : Kinds, names : Batches]
    \cup [op : {"bind", "query"}, kind : Kinds, names : [1 .. 1 -> Names]]

-----------------------------------------------------------------------------
(* The allocator.                                                          *)

Less(a, b) == IF a < b THEN a ELSE b

(* Mutated forms: the popped element stays on the list; name 0 is reused;  *)
(* every name of a batch leads to its first object; the batch loses all    *)
(* but its first name; an entry outlives its object; the delete goes to    *)
(* another kind.                                                           *)
AllocNames_KeepsList(h, n) ==
  LET r == Less(n, Len(h.reusable)) IN
    [names |-> SubSeq(h.reusable, 1, r) \o [i \in 1 .. n - r |-> h.last + i],
     rest  |-> [h EXCEPT !.last = @ + n - r]]
ReturnNames_Zero(h, names) == [h EXCEPT !.reusable = @ \o names]
Inserted_OneObject(map, names, made) ==
  [x \in Names |-> IF x \in Range(names) THEN made[1] ELSE map[x]]
Inserted_FirstOnly(map, names, made) ==
  [x \in Names |-> IF names # << >> /\ names[1] = x THEN made[1] ELSE map[x]]
Taken_LooksOnly(map, names) == map
DriverKind_AlwaysBuffer(k)  == "buffer"

(* name_handler_alloc_names: waiting names first, oldest first, then new   *)
(* ones.                                                                   *)
AllocNames(h, n) ==
  LET r == Less(n, Len(h.reusable)) IN
    [names |-> SubSeq(h.reusable, 1, r) \o [i \in 1 .. n - r |-> h.last + i],
     rest  |-> [last     |-> h.last + n - r,
                reusable |-> SubSeq(h.reusable, r + 1, Len(h.reusable))]]

(* name_handler_alloc_name: the application picked the name itself.        *)
ClaimName(h, x) ==
  IF x >= h.last THEN [h EXCEPT !.last = @ + 1]
                 ELSE [h EXCEPT !.reusable = RemoveFirst(@, x)]

(* name_handler_delete_names: one after the other, 0 left out.             *)
Returned(list, names) ==
  LET after[i \in 0 .. Len(names)] ==
        IF i = 0 THEN list
        ELSE IF names[i] = 0 THEN after[i - 1]
        ELSE Append(after[i - 1], names[i])
  IN after[Len(names)]
ReturnNames(h, names) == [h EXCEPT !.reusable = Returned(@, names)]

(* glDeleteTextures, glDeleteProgram and glDeleteShader keep their names.  *)
Recycles(k) == k \in {"buffer", "framebuffer", "renderbuffer"}

(* 'create_attrib_if_needed' of the generator's function table.            *)
CreatesOnBind(k) == k \in {"buffer", "texture", "renderbuffer"}

(* The kind of object the driver is asked to delete: server.c:257 calls    *)
(* glDeleteBuffers for renderbuffers.                                      *)
DriverKind(k) == IF k = "renderbuffer" THEN "buffer" ELSE k

(* hash_insert and hash_take over a batch, under name_mapping_mutex.       *)
Inserted(map, names, made) ==
  [x \in Names |->
     IF x \in Range(names)
     THEN made[CHOOSE i \in DOMAIN names :
                 names[i] = x /\ \A j \in DOMAIN names : names[j] = x => j <= i]
     ELSE map[x]]
Taken(map, names) == [x \in Names |-> IF x \in Range(names) THEN 0 ELSE map[x]]

(* Replacing or taking an entry frees it, whoever holds a pointer to it.   *)
AfterFree(hands, names) ==
  [c \in Clients |-> IF hands[c].name \in Range(names) /\ hands[c].found
                     THEN [hands[c] EXCEPT !.freed = TRUE] ELSE hands[c]]

(* The names an application passes to glDelete* and glBind*.               *)
Passed(c, k) == IF Careful THEN held[c][k] ELSE Names

Init ==
  /\ used \in {S \in SUBSET Kinds : Cardinality(S) = KindsAtOnce}
  /\ handler = [c \in Clients |-> [k \in Kinds |-> [last |-> 0, reusable |-> << >>]]]
  /\ held = [c \in Clients |-> [k \in Kinds |-> {}]]
  /\ queue = [c \in Clients |-> << >>]
  /\ mapping = [x \in Names |-> 0]
  /\ hand = [c \in Clients |-> NoHand]
  /\ objects = [c \in Clients |-> [k \in Kinds |-> {}]]
  /\ own = [c \in Clients |-> [k \in Kinds |-> [x \in Names |-> 0]]]

-----------------------------------------------------------------------------
(* The client threads.                                                     *)

Issue(c, op, k, names) ==
  /\ Len(queue[c]) < MaxQueue
  /\ queue' = [queue EXCEPT ![c] = Append(@, [op |-> op, kind |-> k, names |-> names])]

(* glGen*, glCreateProgram and glCreateShader: the last two make one name. *)
Gen(c, k, n) ==
  LET got == AllocNames(handler[c][k], n) IN
    /\ k = "shader" => n = 1
    /\ Range(got.names) \subseteq Names
    /\ handler' = [handler EXCEPT ![c][k] = got.rest]
    /\ held' = [held EXCEPT ![c][k] = @ \cup Range(got.names)]
    /\ Issue(c, "gen", k, got.names)
    /\ UNCHANGED <<used, mapping, hand, objects, own>>

(* glDelete*.  Shader objects are deleted one by one, and only if cached.  *)
Delete(c, k, names) ==
  /\ Range(names) \subseteq Passed(c, k) \cup {0}
  /\ Careful => IsInjective(names)
  /\ k = "shader" => Len(names) = 1 /\ Range(names) \subseteq held[c][k]
  /\ handler' = [handler EXCEPT ![c][k] = IF Recycles(k) THEN ReturnNames(@, names) ELSE @]
  /\ held' = [held EXCEPT ![c][k] = @ \ Range(names)]
  /\ Issue(c, "delete", k, names)
  /\ UNCHANGED <<used, mapping, hand, objects, own>>

(* A command that carries a name: glBind* and glFramebufferTexture2D       *)
(* ("bind"), or any other, the glIs* among them ("query").  glBindTexture  *)
(* alone tells the allocator of a name it does not know.  Name 0 goes      *)
(* straight through both threads and is left out.                          *)
Use(c, op, k, x) ==
  /\ x \in Passed(c, k)
  /\ IF op = "bind" /\ k = "texture" /\ x \notin held[c][k]
     THEN /\ handler' = [handler EXCEPT ![c][k] = ClaimName(@, x)]
          /\ held' = [held EXCEPT ![c][k] = @ \cup {x}]
     ELSE UNCHANGED <<handler, held>>
  /\ Issue(c, op, k, <<x>>)
  /\ UNCHANGED <<used, mapping, hand, objects, own>>

-----------------------------------------------------------------------------
(* The server threads.                                                     *)

Handling(c, ops) ==
  /\ hand[c] = NoHand
  /\ queue[c] # << >>
  /\ Head(queue[c]).op \in ops

Done(c) == queue' = [queue EXCEPT ![c] = Tail(@)]

(* server_handle_glgen* and server_handle_glcreate*: the driver answers    *)
(* names, then the table gets them, replacing what it held.                *)
HandleGen(c) ==
  /\ Handling(c, {"gen"})
  /\ LET cmd == Head(queue[c]) IN
     \E made \in [DOMAIN cmd.names -> DriverNames \ objects[c][cmd.kind]] :
       /\ IsInjective(made)
       /\ objects' = [objects EXCEPT ![c][cmd.kind] = @ \cup Range(made)]
       /\ mapping' = Inserted(mapping, cmd.names, made)
       /\ hand' = AfterFree(hand, cmd.names)
       /\ own' = [own EXCEPT ![c][cmd.kind] =
                    [x \in Names |-> IF \E i \in DOMAIN cmd.names : cmd.names[i] = x
                                     THEN made[CHOOSE i \in DOMAIN cmd.names : cmd.names[i] = x]
                                     ELSE @[x]]]
       /\ Done(c)
       /\ UNCHANGED <<used, handler, held>>

(* server_handle_gldelete*: names with an entry are translated and lose    *)
(* it; the others go to the driver as they are, or not at all for shader   *)
(* objects.                                                                *)
HandleDelete(c) ==
  /\ Handling(c, {"delete"})
  /\ LET cmd   == Head(queue[c])
         names == Range(cmd.names) \ {0}
         gone  == {mapping[x] : x \in names} \ {0}
         raw   == IF cmd.kind = "shader" THEN {} ELSE {x \in names : mapping[x] = 0}
     IN
       /\ objects' = [objects EXCEPT ![c] =
                        [k \in Kinds |-> IF k = DriverKind(cmd.kind)
                                         THEN @[k] \ (gone \cup raw) ELSE @[k]]]
       /\ mapping' = Taken(mapping, cmd.names)
       /\ hand' = AfterFree(hand, cmd.names)
       /\ own' = [own EXCEPT ![c][cmd.kind] =
                    [x \in Names |-> IF x \in names THEN 0 ELSE @[x]]]
       /\ Done(c)
       /\ UNCHANGED <<used, handler, held>>

(* A generated handler with a mapped name: hash_lookup under the mutex.    *)
(* With no entry, and none to be made, the command is dropped.             *)
LookUp(c) ==
  /\ Handling(c, {"bind", "query"})
  /\ LET cmd == Head(queue[c])
         x   == cmd.names[1]
     IN IF mapping[x] = 0 /\ ~(cmd.op = "bind" /\ CreatesOnBind(cmd.kind))
        THEN Done(c) /\ UNCHANGED hand
        ELSE /\ hand' = [hand EXCEPT ![c] = [kind |-> cmd.kind, name |-> x,
                                             found |-> mapping[x] # 0, freed |-> FALSE]]
             /\ UNCHANGED queue
  /\ UNCHANGED <<used, handler, held, mapping, objects, own>>

(* The rest of it, outside the mutex: make an entry that maps the name to  *)
(* itself if there was none, follow the pointer and call the driver, for   *)
(* whom binding a name makes an object.  A pointer to a freed entry may    *)
(* give anything.                                                          *)
Apply(c) ==
  /\ hand[c] # NoHand
  /\ LET cmd  == Head(queue[c])
         x    == hand[c].name
         made == IF hand[c].found THEN << >> ELSE <<x>>
     IN \E d \in IF ~hand[c].found THEN {x}
                 ELSE IF hand[c].freed THEN DriverNames ELSE {mapping[x]} :
          /\ mapping' = Inserted(mapping, made, made)
          /\ hand' = [AfterFree(hand, made) EXCEPT ![c] = NoHand]
          /\ objects' = IF cmd.op = "bind"
                        THEN [objects EXCEPT ![c][cmd.kind] = @ \cup {d}] ELSE objects
  /\ Done(c)
  /\ UNCHANGED <<used, handler, held, own>>

-----------------------------------------------------------------------------
Application(c) ==
  \E k \in used :
    \/ \E n \in 1 .. MaxBatch : Gen(c, k, n)
    \/ \E names \in Batches : Delete(c, k, names)
    \/ \E op \in {"bind", "query"}, x \in Names : Use(c, op, k, x)

Server(c) == HandleGen(c) \/ HandleDelete(c) \/ LookUp(c) \/ Apply(c)

Next == \E c \in Clients : Application(c) \/ Server(c)

Spec == Init /\ [][Next]_vars

-----------------------------------------------------------------------------
(* Properties.                                                             *)

TypeOK ==
  /\ used \subseteq Kinds
  /\ handler \in [Clients -> [Kinds -> [last : Nat, reusable : Seq(Names)]]]
  /\ held \in [Clients -> [Kinds -> SUBSET Names]]
  /\ queue \in [Clients -> Seq(Command)]
  /\ mapping \in [Names -> Nat]
  /\ hand \in [Clients -> {NoHand} \cup
                [kind : Kinds, name : Names, found : BOOLEAN, freed : BOOLEAN]]
  /\ objects \in [Clients -> [Kinds -> SUBSET Nat]]
  /\ own \in [Clients -> [Kinds -> [Names -> Nat]]]

(* A name is never handed out twice: one that waits for reuse waits once,  *)
(* nobody holds it, and neither list nor application has a name the        *)
(* counter has yet to reach: the batches of glGen* against glDelete* ones. *)
WaitingNamesAreFree ==
  \A c \in Clients, k \in Kinds :
    LET h == handler[c][k] IN
      /\ IsInjective(h.reusable)
      /\ Range(h.reusable) \cap held[c][k] = {}
      /\ Range(h.reusable) \cup held[c][k] \subseteq 1 .. h.last

(* README: "portable and works for all GLES 2.0 drivers".  Whatever names  *)
(* the driver answers, a name whose object exists leads to that object and *)
(* no other, also while names are deleted and handed out again ahead of    *)
(* the server.                                                             *)
EachNameItsObject ==
  \A c \in Clients, k \in Kinds, x \in Names :
    own[c][k][x] # 0 => mapping[x] = own[c][k][x] /\ own[c][k][x] \in objects[c][k]

(* A command that carries a name the application holds is not dropped, and *)
(* makes no object under the client's own name: by the time the server     *)
(* looks the name up, the glGen* that made it has filled the table, and no *)
(* earlier glDelete* empties it again.                                     *)
UseFindsObject ==
  \A c \in Clients :
    Handling(c, {"bind", "query"}) => mapping[Head(queue[c]).names[1]] # 0

(* No entry of the table outlives its object, or the next object with the  *)
(* same client name would be reached through it.                           *)
NoDeadEntry ==
  \A x \in Names :
    mapping[x] # 0 => \E c \in Clients, k \in Kinds : own[c][k][x] = mapping[x]

(* What the application deleted is gone from the driver once the server    *)
(* has handled the command.  Not so for renderbuffers (server.c:257).      *)
DriverHoldsNoMore ==
  \A c \in Clients, k \in Kinds \ {"renderbuffer"} :
    objects[c][k] \subseteq Range(own[c][k])
=============================================================================
