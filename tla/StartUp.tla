-------------------------------- MODULE StartUp --------------------------------
(***************************************************************************)
(* What a thread's first EGL or GL call does: client.c makes the thread's  *)
(* client, whose server thread it starts and waits for, dispatch_table.c   *)
(* fills the one base table of the driver's functions, without a mutex,    *)
(* and server.c copies it and makes the one table of names.                *)
(*                                                                         *)
(* A read or a write of what threads share is a step, in the program's     *)
(* order; what only one thread sees is part of the step before it.         *)
(* server_started_mutex is locked by the client and unlocked by its server *)
(* thread, which the mutexes of Linux allow.                               *)
(***************************************************************************)
EXTENDS Naturals

CONSTANTS
  Threads,  \* the application's threads; each has a server thread in time
  Entries   \* functions in the base table

ASSUME StartUpAssumption == Entries \in Nat \ {0}

Processes == Threads \X {"client", "server"}
Free      == "free"

VARIABLES
  at,           \* where each process is
  \* dispatch_table.c.
  filled,       \* how far `dispatch' is filled
  initializing, \* initializing_table
  done,         \* table_initialized
  progress,     \* how far each process that fills it has come
  \* client.c and server.c.
  initialized,  \* thread-local: on_client_thread was here
  starting,     \* thread-local: initializing_client
  clients,      \* clients made for each thread
  holder,       \* who holds client_thread_mutex and name_mapping_mutex
  started,      \* server_started_mutex of each client is free
  signals,      \* each server has its semaphores
  copied,       \* how much of `dispatch' each server has
  mappings,     \* tables of names made
  raced         \* history: each server got the table while another process
                \* was filling it

vars == <<at, filled, initializing, done, progress, initialized, starting,
          clients, holder, started, signals, copied, mappings, raced>>
tableVars  == <<filled, initializing, done, progress, raced>>
clientVars == <<initialized, starting, clients, holder, started>>
serverVars == <<signals, copied, mappings>>

Init ==
  /\ at = [p \in Processes |-> "out"]
  /\ filled = 0 /\ initializing = FALSE /\ done = FALSE
  /\ progress = [p \in Processes |-> 0]
  /\ initialized = [t \in Threads |-> FALSE]
  /\ starting = [t \in Threads |-> FALSE]
  /\ clients = [t \in Threads |-> 0]
  /\ holder = [thread |-> Free, mapping |-> Free]
  /\ started = [t \in Threads |-> TRUE]
  /\ signals = [t \in Threads |-> FALSE]
  /\ copied = [t \in Threads |-> 0]
  /\ mappings = 0 /\ raced = [t \in Threads |-> FALSE]

Go(p, here, there) == at[p] = here /\ at' = [at EXCEPT ![p] = there]

-----------------------------------------------------------------------------
(* dispatch_table_get_base.  No process is kept out while another is in.   *)

(* The table is returned when it is done, or when somebody is at it, which *)
(* is also what a call does that the driver makes from its eglInitialize.  *)
LookDone(p) ==
  /\ IF done THEN Go(p, "get base", "got base") ELSE Go(p, "get base", "look busy")
  /\ UNCHANGED <<tableVars, clientVars, serverVars>>
LookBusy(p) ==
  /\ IF initializing THEN Go(p, "look busy", "got base") ELSE Go(p, "look busy", "look again")
  /\ raced' = [raced EXCEPT ![p[1]] = p[2] = "server" /\ initializing]
  /\ UNCHANGED <<filled, initializing, done, progress, clientVars, serverVars>>

(* The second look, which a compiler may leave out.                        *)
LookAgain(p) ==
  /\ \/ done /\ Go(p, "look again", "got base")
     \/ Go(p, "look again", "mark")
  /\ UNCHANGED <<tableVars, clientVars, serverVars>>

MarkBusy(p) ==
  /\ Go(p, "mark", "driver")
  /\ initializing' = TRUE /\ progress' = [progress EXCEPT ![p] = 0]
  /\ UNCHANGED <<filled, done, raced, clientVars, serverVars>>

(* Mutated forms: the table is said to be done when it is begun; an entry  *)
(* past its end is filled.                                                 *)
FilledAt_Begun(n)     == n = 1
FilledAt_OffByOne(n)  == n > Entries

UseBase(p)  == p[2] = "server" \/ starting[p[1]]
FilledAt(n) == n = Entries

(* The driver's eglInitialize, which may call this library: a call on a    *)
(* thread that is no client's, or not yet, uses the base table; any other  *)
(* makes a client.                                                         *)
Reenter(p) ==
  /\ Go(p, "driver", "fill")
  /\ clients' = IF UseBase(p) THEN clients ELSE [clients EXCEPT ![p[1]] = @ + 1]
  /\ UNCHANGED <<tableVars, initialized, starting, holder, started, serverVars>>
InitDriver(p) ==
  /\ Go(p, "driver", "fill")
  /\ UNCHANGED <<tableVars, clientVars, serverVars>>

(* dispatch_table_fill_base, an entry a step.                              *)
Fill(p) ==
  /\ progress' = [progress EXCEPT ![p] = @ + 1]
  /\ filled' = IF filled < progress'[p] THEN progress'[p] ELSE filled
  /\ Go(p, "fill", IF FilledAt(progress'[p]) THEN "unmark" ELSE "fill")
  /\ UNCHANGED <<initializing, done, raced, clientVars, serverVars>>

Unmark(p) ==
  /\ Go(p, "unmark", "mark done")
  /\ initializing' = FALSE
  /\ UNCHANGED <<filled, done, progress, raced, clientVars, serverVars>>
MarkDone(p) ==
  /\ Go(p, "mark done", "got base")
  /\ done' = TRUE
  /\ UNCHANGED <<filled, initializing, progress, raced, clientVars, serverVars>>

GetBase(p) ==
  \/ LookDone(p) \/ LookBusy(p) \/ LookAgain(p) \/ MarkBusy(p) \/ Reenter(p)
  \/ InitDriver(p) \/ Fill(p) \/ Unmark(p) \/ MarkDone(p)

-----------------------------------------------------------------------------
(* The client.                                                             *)

(* Mutated form: the mutex is not given back to anybody.                   *)
AfterLock_Held(t) == "new"

Initialized(t) == initialized[t]

(* The second look returns without giving the mutex back.                  *)
AfterLock(t) == IF Initialized(t) THEN "new" ELSE "unlock"

(* The first call: on_client_thread, in should_use_base_dispatch.          *)
Enter(t) ==
  /\ Go(<<t, "client">>, "out", IF Initialized(t) THEN "new" ELSE "lock")
  /\ UNCHANGED <<tableVars, clientVars, serverVars>>

Lock(t) ==
  /\ Go(<<t, "client">>, "lock", AfterLock(t))
  /\ holder.thread = Free /\ holder' = [holder EXCEPT !.thread = t]
  /\ initialized' = [initialized EXCEPT ![t] = TRUE]
  /\ UNCHANGED <<tableVars, starting, clients, started, serverVars>>
Unlock(t) ==
  /\ Go(<<t, "client">>, "unlock", "new")
  /\ holder' = [holder EXCEPT !.thread = Free]
  /\ UNCHANGED <<tableVars, initialized, starting, clients, started, serverVars>>

(* client_init up to the base table ...                                    *)
NewClient(t) ==
  /\ Go(<<t, "client">>, "new", "get base")
  /\ clients' = [clients EXCEPT ![t] = @ + 1]
  /\ starting' = [starting EXCEPT ![t] = TRUE]
  /\ UNCHANGED <<tableVars, initialized, holder, started, serverVars>>

(* ... and client_start_server, which locks the mutex twice.               *)
StartServer(t) ==
  /\ at[<<t, "client">>] = "got base" /\ at[<<t, "server">>] = "out"
  /\ started[t] /\ started' = [started EXCEPT ![t] = FALSE]
  /\ at' = [at EXCEPT ![<<t, "client">>] = "wait", ![<<t, "server">>] = "get base"]
  /\ UNCHANGED <<tableVars, initialized, starting, clients, holder, serverVars>>

AwaitServer(t) ==
  /\ Go(<<t, "client">>, "wait", "ready")
  /\ started[t] /\ started' = [started EXCEPT ![t] = FALSE]
  /\ starting' = [starting EXCEPT ![t] = FALSE]
  /\ UNCHANGED <<tableVars, initialized, clients, holder, serverVars>>

Client(t) == Lock(t) \/ Unlock(t) \/ NewClient(t) \/ StartServer(t) \/ AwaitServer(t)

-----------------------------------------------------------------------------
(* The server thread.                                                      *)

(* server_init: the table is copied as it is.                              *)
CopyTable(t) ==
  /\ Go(<<t, "server">>, "got base", "lock mapping")
  /\ copied' = [copied EXCEPT ![t] = filled]
  /\ UNCHANGED <<tableVars, clientVars, signals, mappings>>

(* ... and the first server makes name_mapping.                            *)
MakeMapping(t) ==
  /\ Go(<<t, "server">>, "lock mapping", "unlock mapping")
  /\ holder.mapping = Free /\ holder' = [holder EXCEPT !.mapping = t]
  /\ mappings' = IF mappings > 0 THEN mappings ELSE 1
  /\ UNCHANGED <<tableVars, initialized, starting, clients, started, signals, copied>>
UnlockMapping(t) ==
  /\ Go(<<t, "server">>, "unlock mapping", "signals")
  /\ holder' = [holder EXCEPT !.mapping = Free]
  /\ UNCHANGED <<tableVars, initialized, starting, clients, started, serverVars>>

(* start_server_thread_func: the semaphores, then the client's mutex.      *)
SetSignals(t) ==
  /\ Go(<<t, "server">>, "signals", "tell")
  /\ signals' = [signals EXCEPT ![t] = TRUE]
  /\ UNCHANGED <<tableVars, clientVars, copied, mappings>>
TellClient(t) ==
  /\ Go(<<t, "server">>, "tell", "ready")
  /\ started' = [started EXCEPT ![t] = TRUE]
  /\ UNCHANGED <<tableVars, initialized, starting, clients, holder, serverVars>>

Server(t) ==
  CopyTable(t) \/ MakeMapping(t) \/ UnlockMapping(t) \/ SetSignals(t) \/ TellClient(t)

-----------------------------------------------------------------------------
Step(p) == GetBase(p) \/ (IF p[2] = "client" THEN Client(p[1]) ELSE Server(p[1]))

Next == (\E t \in Threads : Enter(t)) \/ (\E p \in Processes : Step(p))

(* A thread that has made its call, or was started, runs on.               *)
Spec == Init /\ [][Next]_vars /\ \A p \in Processes : WF_vars(Step(p))

-----------------------------------------------------------------------------
(* Properties.                                                             *)

Inside == {"get base", "look busy", "look again", "mark", "driver", "fill", "unmark",
           "mark done", "got base"}
TypeOK ==
  /\ \A t \in Threads :
       /\ at[<<t, "client">>] \in Inside \cup {"out", "lock", "unlock", "new", "wait", "ready"}
       /\ at[<<t, "server">>] \in Inside \cup {"out", "lock mapping", "unlock mapping",
                                               "signals", "tell", "ready"}
  /\ filled \in 0..Entries /\ initializing \in BOOLEAN /\ done \in BOOLEAN
  /\ progress \in [Processes -> 0..Entries]
  /\ initialized \in [Threads -> BOOLEAN] /\ starting \in [Threads -> BOOLEAN]
  /\ clients \in [Threads -> Nat] /\ mappings \in Nat
  /\ holder \in [thread : Threads \cup {Free}, mapping : Threads \cup {Free}]
  /\ started \in [Threads -> BOOLEAN] /\ signals \in [Threads -> BOOLEAN]
  /\ copied \in [Threads -> 0..Entries]
  /\ raced \in [Threads -> BOOLEAN]

(* When a thread's first call goes on, its server is up with everything it *)
(* works with: the semaphores, the table of names and the whole table of   *)
(* the driver's functions, whichever threads fill that at the same time;   *)
(* and the driver's calls into the library have made no second client.     *)
(* Conditional: a server that finds another process at the table goes on   *)
(* with what is there, against dispatch_table.c:62.                        *)
StartsWhole ==
  \A t \in Threads : at[<<t, "client">>] = "ready" =>
    /\ at[<<t, "server">>] = "ready" /\ signals[t]
    /\ clients[t] = 1 /\ mappings = 1
    /\ raced[t] \/ copied[t] = Entries

(* Every thread's first call comes to its end: neither on_client_thread's  *)
(* mutex, nor the table, nor the wait for the server keeps it.             *)
FirstCallEnds ==
  \A t \in Threads : at[<<t, "client">>] # "out" ~> at[<<t, "client">>] = "ready"
=============================================================================
