--------------------------- MODULE CommandChannel ---------------------------
(***************************************************************************)
(* The channel between an application thread and its server thread: the    *)
(* ring buffer of ring_buffer.c, the client half of client.c and the work  *)
(* loop of server.c.  Both threads run freely; a step is one access to     *)
(* state the other thread can see, together with the thread-private work   *)
(* around it (head is private to the client, tail to the server).          *)
(*                                                                         *)
(* Data.  Memory is cut into units the size of a command header; a command *)
(* is a header unit followed by payload units.  A header holds the         *)
(* command's type, size and token.  What a payload unit holds is arbitrary *)
(* command data, of which only one thing matters: the number found when it *)
(* is read as if it were the token field of a header.                      *)
(***************************************************************************)
EXTENDS Integers, Sequences

CONSTANTS
  Length,        \* buffer_t.length, in units
  Sizes,         \* the command sizes in use, in units
  TokenMod,      \* 2^32 in the code: `unsigned int token' wraps at it
  MaxCommands,   \* bound: commands issued in a behaviour
  AllowShutdown  \* whether the client may issue COMMAND_SHUTDOWN

ASSUME ChannelAssumption ==
  /\ Length \in Nat \ {0}
  /\ Sizes \subseteq 1 .. Length
  /\ TokenMod \in Nat \ {0, 1}
  /\ MaxCommands \in Nat
  /\ AllowShutdown \in BOOLEAN

VARIABLES
  head, tail, fill,  \* buffer_t: head, tail and fill_count
  mem,               \* the mapped memory, unit by unit
  lastToken,         \* buffer_t.last_token
  serverSem,         \* client_t.server_signal
  clientSem,         \* client_t.client_signal
  token,             \* client_t.token
  cpc, cmd, want,    \* client thread: where it is, the command it is
                     \* writing and its local variable `token'
  spc, slot, reply,  \* server thread: where it is, read_command, and the
                     \* token it found there
  sent, ran,         \* history: commands published, and ids of commands run
  wr, rd,            \* history: units ever published, and ever released
  wrapped, misread   \* history: the token counter has wrapped; the server
                     \* has taken another command's bytes for a token

bufferVars == <<head, tail, fill, mem, lastToken>>
clientVars == <<token, cpc, cmd, want>>
serverVars == <<spc, slot, reply>>
vars == <<head, tail, fill, mem, lastToken, serverSem, clientSem,
          token, cpc, cmd, want, spc, slot, reply, sent, ran, wr, rd, wrapped, misread>>

Units  == 0 .. Length - 1
Tokens == 0 .. TokenMod - 1
Kinds  == {"async", "sync", "shutdown"} \ (IF AllowShutdown THEN {} ELSE {"shutdown"})

Command == [id : Nat, kind : {"async", "sync", "shutdown"}, size : Sizes,
            at : Nat, token : Tokens]
Unit    == [id : Nat, kind : {"async", "sync", "shutdown", "payload"},
            size : Sizes \cup {0}, token : Tokens]

(* The unit that holds position p of the stream of all units ever written. *)
UnitOf(p) == p % Length

(* The units the double mapping of buffer_create makes contiguous: n of    *)
(* them from unit u on, going round at the end of the buffer.              *)
Region(u, n) == {UnitOf(u + k) : k \in 0 .. n - 1}

(* Mutated forms of the definitions below: bugs one could have written.    *)
FreeUnits_OffByOne      == Length - fill + 1
HoldsOnly_Empty(c)      == fill = 0
Outstanding_OffByOne(t) == lastToken + 1 < t
NextTail_HeaderOnly     == (tail + 1) % Length
ReplyPath_PostFirst     == [token |-> "post", post |-> "reply", reply |-> "read"]

(* buffer_write_address: what may still be written.                        *)
FreeUnits == Length - fill

(* client.c:279, whether the buffer holds nothing but command c.           *)
HoldsOnly(c) == fill = c.size

(* client.c:267, whether the caller with token t must go on waiting.       *)
Outstanding(t) == lastToken < t

(* ring_buffer.c:144, where the command after the one just run starts.     *)
NextTail == (tail + mem[slot].size) % Length

(* server.c:43-46, what follows on finding a token, on publishing it, and  *)
(* on posting.                                                             *)
ReplyPath == [token |-> "reply", reply |-> "post", post |-> "read"]

Header(c)     == [id |-> c.id, kind |-> c.kind, size |-> c.size, token |-> c.token]
Payload(c, g) == [id |-> c.id, kind |-> "payload", size |-> 0, token |-> g]
Untouched     == [id |-> 0, kind |-> "payload", size |-> 0, token |-> 0]
NoCommand     == [id |-> 0, kind |-> "async", size |-> 0, at |-> 0, token |-> 0]

Init ==
  /\ head = 0 /\ tail = 0 /\ fill = 0
  /\ mem = [u \in Units |-> Untouched]
  /\ lastToken = 0 /\ serverSem = 0 /\ clientSem = 0
  /\ token = 0
  /\ cpc = "idle" /\ cmd = NoCommand /\ want = 0
  /\ spc = "read" /\ slot = 0 /\ reply = 0
  /\ sent = << >> /\ ran = << >>
  /\ wr = 0 /\ rd = 0 /\ wrapped = FALSE /\ misread = FALSE

-----------------------------------------------------------------------------
(* The client thread.                                                      *)

(* client_get_space_for_command, then the generated or hand-written init   *)
(* that copies the arguments: spin until the command fits, write its       *)
(* header with token 0 and its payload.  The client thread is gone once it *)
(* has shut its server down.                                               *)
Reserve(kind, n, g) ==
  /\ cpc = "idle"
  /\ Len(sent) < MaxCommands
  /\ FreeUnits >= n
  /\ cmd' = [id |-> Len(sent) + 1, kind |-> kind, size |-> n, at |-> wr, token |-> 0]
  /\ mem' = [u \in Units |-> IF u = head THEN Header(cmd')
                             ELSE IF u \in Region(head, n) THEN Payload(cmd', g)
                             ELSE mem[u]]
  /\ cpc' = IF kind = "async" THEN "publish" ELSE "token"
  /\ UNCHANGED <<head, tail, fill, lastToken, serverSem, clientSem, token, want,
                 serverVars, sent, ran, wr, rd, wrapped, misread>>

(* client_run_command up to the call of client_run_command_async: number   *)
(* the command.  An overflowing counter stays 0 and only the local variable *)
(* becomes 1.                                                              *)
SetToken ==
  /\ cpc = "token"
  /\ token' = (token + 1) % TokenMod
  /\ want' = IF token' = 0 THEN 1 ELSE token'
  /\ mem' = [mem EXCEPT ![head].token = want']
  /\ cmd' = [cmd EXCEPT !.token = want']
  /\ cpc' = "publish"
  /\ wrapped' = (wrapped \/ token' = 0)
  /\ UNCHANGED <<head, tail, fill, lastToken, serverSem, clientSem, serverVars,
                 sent, ran, wr, rd, misread>>

(* buffer_write_advance: the atomic add makes the command visible.         *)
Publish ==
  /\ cpc = "publish"
  /\ head' = (head + cmd.size) % Length
  /\ fill' = fill + cmd.size
  /\ sent' = Append(sent, cmd)
  /\ wr' = wr + cmd.size
  /\ cpc' = "check"
  /\ UNCHANGED <<tail, mem, lastToken, serverSem, clientSem, token, cmd, want,
                 serverVars, ran, rd, wrapped, misread>>

(* The rest of client_run_command_async: wake the server if the buffer now *)
(* holds this command alone.                                               *)
CheckPost ==
  /\ cpc = "check"
  /\ serverSem' = IF HoldsOnly(cmd) THEN serverSem + 1 ELSE serverSem
  /\ cpc' = IF cmd.kind = "async" THEN "idle" ELSE "wait"
  /\ UNCHANGED <<bufferVars, clientSem, token, cmd, want, serverVars,
                 sent, ran, wr, rd, wrapped, misread>>

(* The loop of client_run_command: test last_token, sleep, test again.     *)
TestReply ==
  /\ cpc = "wait"
  /\ cpc' = IF Outstanding(want) THEN "semwait"
            ELSE IF cmd.kind = "shutdown" THEN "gone" ELSE "idle"
  /\ UNCHANGED <<bufferVars, serverSem, clientSem, token, cmd, want, serverVars,
                 sent, ran, wr, rd, wrapped, misread>>

WakeClient ==
  /\ cpc = "semwait"
  /\ clientSem > 0
  /\ clientSem' = clientSem - 1
  /\ cpc' = "wait"
  /\ UNCHANGED <<bufferVars, serverSem, token, cmd, want, serverVars,
                 sent, ran, wr, rd, wrapped, misread>>

-----------------------------------------------------------------------------
(* The server thread: server_start_work_loop.                              *)

(* buffer_read_address.                                                    *)
ReadBuffer ==
  /\ spc = "read"
  /\ IF fill = 0 THEN spc' = "sleep" /\ UNCHANGED slot
                 ELSE spc' = "dispatch" /\ slot' = tail
  /\ UNCHANGED <<bufferVars, serverSem, clientSem, clientVars, reply,
                 sent, ran, wr, rd, wrapped, misread>>

WakeServer ==
  /\ spc = "sleep"
  /\ serverSem > 0
  /\ serverSem' = serverSem - 1
  /\ spc' = "read"
  /\ UNCHANGED <<bufferVars, clientSem, clientVars, slot, reply,
                 sent, ran, wr, rd, wrapped, misread>>

(* COMMAND_SHUTDOWN leaves the loop: no release, no reply.                 *)
Exit ==
  /\ spc = "dispatch"
  /\ mem[slot].kind = "shutdown"
  /\ spc' = "exited"
  /\ UNCHANGED <<bufferVars, serverSem, clientSem, clientVars, slot, reply,
                 sent, ran, wr, rd, wrapped, misread>>

(* Any other command is run by its handler.                                *)
Handle ==
  /\ spc = "dispatch"
  /\ mem[slot].kind # "shutdown"
  /\ ran' = Append(ran, mem[slot].id)
  /\ spc' = "release"
  /\ UNCHANGED <<bufferVars, serverSem, clientSem, clientVars, slot, reply,
                 sent, wr, rd, wrapped, misread>>

(* buffer_read_advance: from here on the client may reuse the units.       *)
Release ==
  /\ spc = "release"
  /\ tail' = NextTail
  /\ fill' = fill - mem[slot].size
  /\ rd' = rd + mem[slot].size
  /\ spc' = "token"
  /\ UNCHANGED <<head, mem, lastToken, serverSem, clientSem, clientVars, slot, reply,
                 sent, ran, wr, wrapped, misread>>

(* `if (read_command->token)', read from the units just released.          *)
TestToken ==
  /\ spc = "token"
  /\ reply' = mem[slot].token
  /\ spc' = IF reply' # 0 THEN ReplyPath.token ELSE "read"
  /\ misread' = (misread \/ reply' # sent[Len(ran)].token)
  /\ UNCHANGED <<bufferVars, serverSem, clientSem, clientVars, slot,
                 sent, ran, wr, rd, wrapped>>

(* `last_token = read_command->token': the compiler may keep the value it  *)
(* tested or read the field again.                                         *)
PublishToken ==
  /\ spc = "reply"
  /\ lastToken' \in {reply, mem[slot].token}
  /\ spc' = ReplyPath.reply
  /\ misread' = (misread \/ lastToken' # sent[Len(ran)].token)
  /\ UNCHANGED <<head, tail, fill, mem, serverSem, clientSem, clientVars, slot, reply,
                 sent, ran, wr, rd, wrapped>>

PostReply ==
  /\ spc = "post"
  /\ clientSem' = clientSem + 1
  /\ spc' = ReplyPath.post
  /\ UNCHANGED <<bufferVars, serverSem, clientVars, slot, reply,
                 sent, ran, wr, rd, wrapped, misread>>

-----------------------------------------------------------------------------
ReserveSome == \E kind \in Kinds, n \in Sizes, g \in Tokens : Reserve(kind, n, g)

Client == SetToken \/ Publish \/ CheckPost \/ TestReply \/ WakeClient
Server == \/ ReadBuffer \/ WakeServer \/ Exit \/ Handle \/ Release
          \/ TestToken \/ PublishToken \/ PostReply

(* With every command issued and run, both threads rest.                   *)
Finished ==
  /\ cpc = "idle" /\ Len(sent) = MaxCommands
  /\ spc = "sleep" /\ serverSem = 0
  /\ UNCHANGED vars

Next == ReserveSome \/ Client \/ Server \/ Finished

Spec == Init /\ [][Next]_vars

(* Both threads are scheduled by the kernel: neither is stopped for ever   *)
(* while it can take a step.  The application need not issue commands.     *)
FairSpec == Spec /\ WF_vars(Client) /\ WF_vars(Server)

-----------------------------------------------------------------------------
(* Properties.                                                             *)

TypeOK ==
  /\ head \in Units /\ tail \in Units /\ fill \in 0 .. Length
  /\ mem \in [Units -> Unit]
  /\ lastToken \in Tokens /\ token \in Tokens /\ want \in Tokens /\ reply \in Tokens
  /\ serverSem \in Nat /\ clientSem \in Nat
  /\ cpc \in {"idle", "token", "publish", "check", "wait", "semwait", "gone"}
  /\ cmd \in Command \cup {NoCommand}
  /\ spc \in {"read", "sleep", "dispatch", "release", "token", "reply", "post", "exited"}
  /\ slot \in Units
  /\ sent \in Seq(Command) /\ ran \in Seq(Nat)
  /\ wr \in Nat /\ rd \in Nat /\ wrapped \in BOOLEAN /\ misread \in BOOLEAN

(* How many commands the server has released: the one it is working on is  *)
(* still in the buffer until Release.                                      *)
Released == IF spc = "release" THEN Len(ran) - 1 ELSE Len(ran)

(* The client is inside client_run_command, past the publication of its    *)
(* command.                                                                *)
Blocked == cpc \in {"check", "wait", "semwait"} /\ cmd.kind # "async"

(* No command is overwritten while the server may still read it: every     *)
(* published and unreleased header is in memory as the client wrote it,    *)
(* wherever the buffer wraps (the space test of client_get_space_for_size  *)
(* against the reads of the work loop).                                    *)
HeadersIntact ==
  \A i \in Released + 1 .. Len(sent) :
    mem[UnitOf(sent[i].at)] = Header(sent[i])

(* The server runs each command once, in the order issued, and only after  *)
(* it was published in full.                                               *)
InOrder ==
  /\ Len(ran) <= Len(sent)
  /\ \A i \in 1 .. Len(ran) : ran[i] = i

(* The wake-up test reads fill_count after adding to it, while the server  *)
(* takes from it: still, a server that sleeps over a non-empty buffer has  *)
(* a post waiting for it or about to come.                                 *)
NoLostWakeup ==
  spc = "sleep" /\ fill > 0 => serverSem > 0 \/ (cpc = "check" /\ fill = cmd.size)

(* A client that decided to sleep on a reply that has meanwhile come has a *)
(* post waiting for it or about to come.                                   *)
NoLostReply ==
  cpc = "semwait" /\ lastToken >= want => clientSem > 0 \/ spc = "post"

(* Client and server never both wait for the other, however the posts and  *)
(* the tests of the two loops interleave, and whatever the server finds in *)
(* the token fields of recycled slots.                                     *)
NeverBothAsleep ==
  ~ /\ cpc = "semwait" /\ clientSem = 0
    /\ spc = "sleep" /\ serverSem = 0

(* A synchronous call that has come back has run, and so has everything    *)
(* issued before it -- as long as no token wrapped and none was read from  *)
(* a recycled slot.                                                        *)
SyncRan ==
  \A i \in 1 .. Len(sent) :
    sent[i].kind # "async" => i <= Len(ran) \/ (Blocked /\ i = Len(sent))

(* Once it has wrapped, lastToken is larger than every new token and no    *)
(* call waits: client.c:260 mends the number but not the comparison.       *)
Sound == ~wrapped /\ ~misread

SyncRanIfSound == Sound => SyncRan

(* command.h:27: "The token is used for making synchronous calls."  As     *)
(* long as the counter has not wrapped, a call that is back has run:       *)
(* violated, the server reads the token after giving the slot away.        *)
SyncRanUntilWrap == ~wrapped => SyncRan

(* The stream of commands an application thread is promised.               *)
Stream == INSTANCE CommandStream WITH
  issued   <- [i \in 1 .. Len(sent) |-> sent[i].kind],
  executed <- ran,
  call     <- IF Blocked THEN cmd.id ELSE 0,
  sound    <- Sound

StreamSafety == Stream!Safety
StreamSpec   == Stream!Spec

(* Every synchronous call comes back, whatever happens to the tokens.      *)
CallsReturn == Blocked ~> ~Blocked
=============================================================================
