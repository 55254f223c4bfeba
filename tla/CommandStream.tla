--------------------------- MODULE CommandStream ---------------------------
(***************************************************************************)
(* What a GL or EGL client thread is promised by the command channel: its  *)
(* commands run on the server thread one by one, in the order they were    *)
(* issued, and a synchronous call comes back only once its own command has *)
(* run.  Nothing of the ring buffer, the semaphores or the tokens is       *)
(* visible here; CommandChannel implements this specification.             *)
(*                                                                         *)
(* `sound' is the one concession.  The channel recognises a reply by       *)
(* comparing token numbers (client.c:267), so the promise about            *)
(* synchronous calls is only as good as those numbers; once they have been *)
(* mixed up a call may come back early.  Order and progress are promised   *)
(* whatever happens to the tokens.                                         *)
(***************************************************************************)
EXTENDS Naturals, Sequences

VARIABLES
  issued,    \* the kinds of the commands handed to the channel, in order
  executed,  \* the numbers of the commands that ran, in the order they ran
  call,      \* the number of the command a blocked caller waits for, or 0
  sound      \* the token numbers still tell the replies apart

vars == <<issued, executed, call, sound>>

Init ==
  /\ issued = << >>
  /\ executed = << >>
  /\ call = 0
  /\ sound = TRUE

(* client_run_command_async: hand over and go on.                          *)
Post ==
  /\ call = 0
  /\ issued' = Append(issued, "async")
  /\ UNCHANGED <<executed, call, sound>>

(* client_run_command: hand over and block.                                *)
Call(kind) ==
  /\ call = 0
  /\ issued' = Append(issued, kind)
  /\ call' = Len(issued) + 1
  /\ UNCHANGED <<executed, sound>>

(* The server thread runs the oldest command that has not run yet, unless  *)
(* it is the command that stops it.                                        *)
Execute ==
  /\ Len(executed) < Len(issued)
  /\ issued[Len(executed) + 1] # "shutdown"
  /\ executed' = Append(executed, Len(executed) + 1)
  /\ UNCHANGED <<issued, call, sound>>

Return ==
  /\ call # 0
  /\ sound => call <= Len(executed)
  /\ call' = 0
  /\ UNCHANGED <<issued, executed, sound>>

MixUpTokens ==
  /\ sound' = FALSE
  /\ UNCHANGED <<issued, executed, call>>

Next ==
  \/ Post
  \/ \E kind \in {"sync", "shutdown"} : Call(kind)
  \/ Execute
  \/ Return
  \/ MixUpTokens

Safety == Init /\ [][Next]_vars

(* Progress: a command handed over runs, and a call whose command has run  *)
(* comes back.                                                             *)
ReturnExecuted == call <= Len(executed) /\ Return

Spec == Safety /\ WF_vars(Execute) /\ WF_vars(ReturnExecuted)
============================================================================
