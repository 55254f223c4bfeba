------------------------ MODULE CommandChannelProofs ------------------------
(***************************************************************************)
(* Proofs about the command channel, for every buffer length, every set of *)
(* command sizes, every width of the token and any number of commands.     *)
(***************************************************************************)
EXTENDS CommandChannel, Integers, SequenceTheorems, TLAPS

(***************************************************************************)
(* Remainders, for any length L of a ring.                                 *)
(***************************************************************************)
(* The remainder of p, and the quotient that goes with it.                 *)
LEMMA ModDef == ASSUME NEW L \in Nat \ {0}, NEW p \in Nat
                 PROVE (p % L) \in 0 .. L-1 /\ \E q \in Nat : p = (L*q) + (p % L)
  <1>1. (p % L) \in 0 .. L-1 /\ p = (L*(p \div L)) + (p % L) /\ (p \div L) \in Int
    BY SMT
  <1>2. p \div L \in Nat
    BY SMT
  <1> QED BY <1>1, <1>2

(* Quotient and remainder are unique.                                      *)
LEMMA ModUnique == ASSUME NEW L \in Nat \ {0}, NEW a \in Nat, NEW b \in Nat,
                         NEW x \in 0..L-1, NEW y \in 0..L-1,
                         (L*a) + x = (L*b) + y
                  PROVE a = b /\ x = y
  <1>1. CASE a < b
    <2>1. L*b >= L*(a+1) BY <1>1, SMT
    <2> QED BY <2>1, SMT
  <1>2. CASE b < a
    <2>1. L*a >= L*(b+1) BY <1>2, SMT
    <2> QED BY <2>1, SMT
  <1>3. CASE a = b BY <1>3, SMT
  <1> QED BY <1>1, <1>2, <1>3

(* The remainder of L*q + x is x.                                          *)
LEMMA ModIs == ASSUME NEW L \in Nat \ {0}, NEW q \in Nat, NEW x \in 0..L-1
                 PROVE ((L*q) + x) % L = x
  <1> DEFINE p == (L*q) + x
             y == p % L
  <1>1. p \in Nat BY SMT
  <1>2. y \in 0..L-1 /\ \E r \in Nat : p = (L*r) + y BY <1>1, ModDef
  <1>3. PICK r \in Nat : (L*q) + x = (L*r) + y BY <1>2
  <1>4. y \in 0..L-1 BY <1>2
  <1>5. QED
    <2> HIDE DEF y
    <2>1. y = x BY <1>3, <1>4, ModUnique
    <2> QED BY <2>1 DEF y

(* Moving on by at most L wraps at most once.                              *)
LEMMA ModAddSmall == ASSUME NEW L \in Nat \ {0}, NEW p \in Nat, NEW n \in 0 .. L
                 PROVE (p + n) % L = IF (p % L) + n < L THEN (p % L) + n ELSE (p % L) + n - L
  <1> DEFINE x == p % L
  <1>1. x \in 0..L-1 /\ \E q \in Nat : p = (L*q) + x BY ModDef
  <1>2. PICK q \in Nat : p = (L*q) + x BY <1>1
  <1>3. x \in 0..L-1 BY <1>1
  <1> HIDE DEF x
  <1>4. CASE x + n < L
    <2>1. p + n = (L*q) + (x + n) BY <1>2, <1>3, SMT
    <2>2. x + n \in 0..L-1 BY <1>3, <1>4, SMT
    <2> QED BY <2>1, <2>2, <1>4, ModIs DEF x
  <1>5. CASE ~(x + n < L)
    <2>1. L*(q+1) = (L*q) + L BY SMT
    <2>2. p + n = (L*(q+1)) + (x + n - L) BY <1>2, <1>3, <2>1, SMT
    <2>3. x + n - L \in 0..L-1 BY <1>3, <1>5, SMT
    <2>4. q + 1 \in Nat OBVIOUS
    <2>5. ((L*(q+1)) + (x + n - L)) % L = x + n - L BY <2>3, <2>4, ModIs
    <2> QED BY <2>2, <2>5, <1>5 DEF x
  <1> QED BY <1>4, <1>5

(* A remainder is its own remainder.                                       *)
LEMMA ModSmall == ASSUME NEW L \in Nat \ {0}, NEW x \in 0..L-1
                 PROVE x % L = x
  <1>1. ((L*0) + x) % L = x
    <2>1. 0 \in Nat OBVIOUS
    <2> QED BY <2>1, ModIs
  <1>2. (L*0) + x = x BY SMT
  <1> QED BY <1>1, <1>2

-----------------------------------------------------------------------------

(***************************************************************************)
(* The inductive invariant.  Positions in the stream of units (wr, rd and  *)
(* the field `at' of a command) never wrap, so what the buffer holds is    *)
(* the interval rd .. wr-1 of them, cut into the commands not released.    *)
(***************************************************************************)

(* The commands tile the stream, and the buffer is the part of it that is  *)
(* published and not released.                                             *)
Layout ==
  /\ wr = rd + fill
  /\ head = UnitOf(wr) /\ tail = UnitOf(rd)
  /\ \A i \in 1 .. Len(sent) :
       /\ sent[i].id = i
       /\ sent[i].at + sent[i].size <= wr
       /\ i < Len(sent) => sent[i + 1].at = sent[i].at + sent[i].size
       /\ i = Len(sent) => sent[i].at + sent[i].size = wr
  /\ \A i, j \in 1 .. Len(sent) :
       i < j => sent[i].at + sent[i].size <= sent[j].at

(* The oldest command in the buffer starts where the server reads.         *)
Front ==
  /\ Released \in 0 .. Len(sent)
  /\ Released < Len(sent) => sent[Released + 1].at = rd
  /\ Released = Len(sent) => wr = rd

(* The command the client is writing or waiting for.                       *)
Writing ==
  /\ cpc \notin {"idle", "gone"} => cmd \in Command
  /\ cpc \in {"token", "publish"} =>
       /\ cmd.id = Len(sent) + 1 /\ cmd.at = wr
       /\ fill + cmd.size <= Length
       /\ mem[head] = Header(cmd)
  /\ cpc = "token" => cmd.kind # "async"
  /\ cpc \in {"check", "wait", "semwait"} =>
       /\ Len(sent) > 0 /\ sent[Len(sent)] = cmd
       /\ mem[UnitOf(cmd.at)] = Header(cmd)
  /\ cpc \in {"wait", "semwait"} => cmd.kind # "async"
  /\ cpc \in {"publish", "check", "wait", "semwait"} /\ cmd.kind # "async" =>
       cmd.token = want /\ want > 0
  /\ cpc = "publish" /\ cmd.kind = "async" => cmd.token = 0

(* Where the server stands in the buffer.                                  *)
Serving ==
  /\ spc = "release" => Len(ran) > 0
  /\ spc \in {"dispatch", "release"} => Released < Len(sent) /\ slot = tail
  /\ spc \in {"token", "reply", "post"} =>
       Len(ran) > 0 /\ slot = UnitOf(sent[Len(ran)].at)
  /\ spc = "exited" =>
       Released < Len(sent) /\ sent[Released + 1].kind = "shutdown"

Core == TypeOK /\ Layout /\ Front /\ Writing /\ Serving /\ InOrder /\ HeadersIntact

(* What the server does with the token of a command somebody waits for.    *)
ReplyOfLast ==
  Blocked /\ Len(ran) = Len(sent) =>
    /\ spc \in {"read", "sleep", "post"} => lastToken = want
    /\ spc = "reply" => reply = want

(* Tokens grow along the stream, and last_token is below the token of      *)
(* every command that has not run.                                         *)
TokenOrder ==
  /\ \A i \in 1 .. Len(sent) : sent[i].kind # "async" => sent[i].token > 0
  /\ Sound =>
       /\ \A i \in 1 .. Len(sent) : sent[i].token <= token
       /\ \A i, j \in 1 .. Len(sent) :
            i < j /\ sent[j].token > 0 => sent[i].token < sent[j].token
       /\ \A i \in Len(ran) + 1 .. Len(sent) :
            sent[i].token > 0 => lastToken < sent[i].token
       /\ lastToken <= token
       /\ cpc = "publish" /\ cmd.kind # "async" =>
            /\ lastToken < want /\ want <= token
            /\ \A i \in 1 .. Len(sent) : sent[i].token < want


-----------------------------------------------------------------------------
(* Arithmetic of the ring.                                                 *)

(* Units are units, the buffer is walked unit by unit, and two positions   *)
(* less than Length apart are in different units.                          *)
LEMMA UnitType == ASSUME NEW p \in Nat PROVE UnitOf(p) \in Units
  BY ChannelAssumption, ModDef DEF UnitOf, Units

LEMMA UnitStep == ASSUME NEW p \in Nat, NEW n \in 0 .. Length
                  PROVE UnitOf(p + n) = (UnitOf(p) + n) % Length
  <1> DEFINE x == p % Length
  <1>1. x \in 0 .. Length - 1
    BY ChannelAssumption, ModDef
  <1>2. (p + n) % Length = IF x + n < Length THEN x + n ELSE x + n - Length
    BY ChannelAssumption, ModAddSmall
  <1>3. (x + n) % Length = IF (x % Length) + n < Length THEN (x % Length) + n
                                                         ELSE (x % Length) + n - Length
    <2>1. x \in Nat
      BY <1>1
    <2> HIDE DEF x
    <2> QED BY <2>1, ChannelAssumption, ModAddSmall
  <1>4. x % Length = x
    <2> HIDE DEF x
    <2> QED BY <1>1, ChannelAssumption, ModSmall
  <1> QED BY <1>2, <1>3, <1>4 DEF UnitOf

LEMMA UnitsDiffer == ASSUME NEW p \in Nat, NEW q \in Nat, p < q, q < p + Length
                     PROVE UnitOf(p) # UnitOf(q)
  <1> DEFINE x == p % Length
             n == q - p
  <1>1. x \in 0 .. Length - 1 /\ n \in 1 .. Length - 1
    BY ChannelAssumption, ModDef
  <1>2. (p + n) % Length = IF x + n < Length THEN x + n ELSE x + n - Length
    <2> HIDE DEF n
    <2>1. n \in 0 .. Length
      BY <1>1, ChannelAssumption
    <2> QED BY <2>1, ChannelAssumption, ModAddSmall
  <1>3. p + n = q
    BY SMT
  <1>4. q % Length # x
    <2> HIDE DEF x, n
    <2> QED BY <1>1, <1>2, <1>3, ChannelAssumption
  <1> QED BY <1>4 DEF UnitOf

-----------------------------------------------------------------------------
(* The core of the invariant is inductive: one lemma per action.           *)

LEMMA CoreInit == Init => Core
  <1> SUFFICES ASSUME Init PROVE Core
    OBVIOUS
  <1> USE ChannelAssumption DEF Init
  <1>1. TypeOK
    BY DEF TypeOK, Units, Tokens, Unit, Untouched
  <1>2. Layout
    <2>1. UnitOf(0) = 0
      <3>1. 0 \in 0 .. Length - 1
        BY SMT
      <3> QED BY <3>1, ModSmall DEF UnitOf
    <2> QED BY <2>1 DEF Layout
  <1>3. Front /\ Writing /\ Serving /\ InOrder /\ HeadersIntact
    BY DEF Front, Writing, Serving, InOrder, HeadersIntact, Released
  <1> QED BY <1>1, <1>2, <1>3 DEF Core

(* Commands in the stream are commands.                                    *)
LEMMA SentType == ASSUME TypeOK, NEW i \in 1 .. Len(sent)
                  PROVE /\ sent[i] \in Command
                        /\ sent[i].at \in Nat /\ sent[i].size \in 1 .. Length
                        /\ sent[i].token \in Tokens
  <1>1. sent[i] \in Command
    BY ElementOfSeq DEF TypeOK
  <1> QED BY <1>1, ChannelAssumption DEF Command

(* The numbers of the state, without the rest of the type invariant.       *)
Numeric == /\ Length \in Nat /\ Length > 0
           /\ head \in Nat /\ tail \in Nat
           /\ fill \in Nat /\ fill <= Length
           /\ wr \in Nat /\ rd \in Nat /\ wr = rd + fill
           /\ Len(sent) \in Nat /\ Len(ran) \in Nat

LEMMA Numbers == ASSUME Core PROVE Numeric
  <1>1. sent \in Seq(Command) /\ ran \in Seq(Nat)
    BY DEF Core, TypeOK
  <1>2. Len(sent) \in Nat /\ Len(ran) \in Nat
    BY <1>1, LenProperties
  <1> QED BY <1>2, ChannelAssumption DEF Numeric, Core, TypeOK, Layout, Units

(* The commands not released lie between what the server has released and  *)
(* what the client has published.                                          *)
LEMMA InBuffer == ASSUME Core, NEW i \in Released + 1 .. Len(sent)
                  PROVE /\ i \in 1 .. Len(sent)
                        /\ rd <= sent[i].at /\ sent[i].at + sent[i].size <= wr
  <1>1. Released \in Nat /\ Len(sent) \in Nat /\ Released <= Len(sent)
    BY DEF Core, Front, TypeOK
  <1>2. i \in 1 .. Len(sent) /\ Released + 1 \in 1 .. Len(sent)
    BY <1>1
  <1>3. sent[Released + 1].at = rd
    BY <1>1, <1>2 DEF Core, Front
  <1>4. sent[i].at + sent[i].size <= wr
    BY <1>2 DEF Core, Layout
  <1>5. CASE i = Released + 1
    BY <1>2, <1>3, <1>4, <1>5, SentType DEF Core, TypeOK
  <1>6. CASE i > Released + 1
    <2>1. sent[Released + 1].at + sent[Released + 1].size <= sent[i].at
      BY <1>1, <1>2, <1>6 DEF Core, Layout
    <2>2. sent[Released + 1].size \in Nat /\ sent[i].at \in Nat /\ rd \in Nat
      BY <1>2, SentType, ChannelAssumption DEF Core, TypeOK
    <2> QED BY <1>2, <1>3, <1>4, <2>1, <2>2
  <1> QED BY <1>1, <1>5, <1>6

LEMMA ReserveCore == ASSUME Core, NEW kind \in Kinds, NEW n \in Sizes, NEW g \in Tokens,
                            Reserve(kind, n, g)
                     PROVE Core'
  <1> USE DEF Reserve, serverVars
  <1> DEFINE c == [id |-> Len(sent) + 1, kind |-> kind, size |-> n, at |-> wr, token |-> 0]
  <1>1. c \in Command /\ cmd' = c
    BY ChannelAssumption DEF Core, TypeOK, Command, Kinds, Tokens
  <1>2. mem' \in [Units -> Unit]
    <2>1. Header(c) \in Unit /\ Payload(c, g) \in Unit
      BY <1>1 DEF Header, Payload, Unit, Command
    <2>2. mem \in [Units -> Unit]
      BY DEF Core, TypeOK
    <2> QED BY <1>1, <2>1, <2>2
  <1>3. TypeOK'
    <2>1. cpc' \in {"token", "publish"}
      OBVIOUS
    <2> QED BY <1>1, <1>2, <2>1 DEF Core, TypeOK
  <1>4. Layout' /\ Front' /\ Serving' /\ InOrder'
    BY DEF Core, Layout, Front, Serving, InOrder, Released
  <1>5. Writing'
    <2>1. mem'[head] = Header(c)
      BY <1>1 DEF Core, TypeOK
    <2>2. fill + c.size <= Length
      BY ChannelAssumption DEF FreeUnits, Core, TypeOK
    <2> QED BY <1>1, <2>1, <2>2, ChannelAssumption DEF Core, Writing, Layout, TypeOK
  <1>6. HeadersIntact'
    <2> SUFFICES ASSUME NEW i \in Released + 1 .. Len(sent)
                 PROVE mem'[UnitOf(sent[i].at)] = mem[UnitOf(sent[i].at)]
      BY DEF Core, HeadersIntact, Released, Header
    <2>1. i \in 1 .. Len(sent) /\ sent[i].at \in Nat /\ sent[i].size \in 1 .. Length
      BY SentType, InBuffer DEF Core
    <2>2. rd <= sent[i].at /\ sent[i].at < wr
      BY <2>1, InBuffer DEF Core, TypeOK
    <2>3. ASSUME NEW k \in 0 .. n - 1
          PROVE UnitOf(head + k) # UnitOf(sent[i].at)
      <3>1. wr + k < sent[i].at + Length /\ wr + k \in Nat /\ k \in 0 .. Length
        <4>1. n \in 1 .. Length /\ Numeric
          BY ChannelAssumption, Numbers
        <4>2. fill + n <= Length
          BY <4>1 DEF FreeUnits, Numeric
        <4> QED BY SMTT(20), <2>1, <2>2, <4>1, <4>2 DEF Numeric
      <3>2. UnitOf(sent[i].at) # UnitOf(wr + k)
        BY <2>1, <2>2, <3>1, UnitsDiffer DEF Core, TypeOK
      <3>3. UnitOf(wr + k) = UnitOf(head + k)
        BY <3>1, UnitStep DEF Core, Layout, TypeOK, UnitOf
      <3> QED BY <3>2, <3>3
    <2>4. UnitOf(sent[i].at) # head /\ UnitOf(sent[i].at) \notin Region(head, n)
      <3>1. 0 \in 0 .. n - 1 /\ UnitOf(head + 0) = head
        <4>1. head + 0 = head /\ UnitOf(wr) = head /\ wr \in Nat
          BY DEF Core, Layout, TypeOK, Units
        <4>2. head % Length = head
          BY ChannelAssumption, ModSmall DEF Core, TypeOK, Units
        <4> QED BY <4>1, <4>2, ChannelAssumption DEF UnitOf
      <3> QED BY <2>3, <3>1 DEF Region
    <2>5. UnitOf(sent[i].at) \in Units
      BY <2>1, UnitType
    <2> QED BY <2>4, <2>5
  <1> QED BY <1>3, <1>4, <1>5, <1>6 DEF Core

LEMMA SetTokenCore == ASSUME Core, SetToken PROVE Core'
  <1> USE DEF SetToken, serverVars
  <1>1. token' \in Tokens /\ want' \in Tokens /\ want' > 0
    <2>0. token + 1 \in Nat /\ TokenMod \in Nat \ {0}
      <3>1. token \in Tokens
        BY DEF Core, TypeOK
      <3>2. token \in Nat /\ TokenMod \in Nat \ {0}
        BY <3>1, ChannelAssumption DEF Tokens
      <3> QED BY <3>2
    <2>1. (token + 1) % TokenMod \in 0 .. TokenMod - 1
      BY <2>0, ModDef
    <2> QED BY <2>1, ChannelAssumption DEF Tokens
  <1>2. cmd \in Command /\ cmd.kind # "async"
    BY DEF Core, Writing
  <1>3. cmd' \in Command /\ cmd'.token = want' /\ cmd'.kind = cmd.kind /\ cmd'.id = cmd.id
        /\ cmd'.at = cmd.at /\ cmd'.size = cmd.size
    BY <1>1, <1>2 DEF Command
  <1>4. head \in Units /\ mem \in [Units -> Unit] /\ mem[head] = Header(cmd)
    BY DEF Core, TypeOK, Writing
  <1>5. mem' \in [Units -> Unit] /\ mem'[head] = Header(cmd')
        /\ \A u \in Units \ {head} : mem'[u] = mem[u]
    BY <1>1, <1>2, <1>3, <1>4 DEF Unit, Header
  <1>6. TypeOK'
    BY <1>1, <1>3, <1>5 DEF Core, TypeOK
  <1>7. Layout' /\ Front' /\ Serving' /\ InOrder'
    BY DEF Core, Layout, Front, Serving, InOrder, Released
  <1>8. Writing'
    BY <1>1, <1>2, <1>3, <1>5 DEF Core, Writing
  <1>9. HeadersIntact'
    <2> SUFFICES ASSUME NEW i \in Released + 1 .. Len(sent)
                 PROVE mem'[UnitOf(sent[i].at)] = mem[UnitOf(sent[i].at)]
      BY DEF Core, HeadersIntact, Released, Header
    <2>1. /\ i \in 1 .. Len(sent) /\ sent[i].at \in Nat /\ sent[i].size \in 1 .. Length
          /\ rd <= sent[i].at /\ sent[i].at < wr
      BY SentType, InBuffer DEF Core, TypeOK
    <2>2. wr < sent[i].at + Length
      <3>1. cmd.size \in 1 .. Length /\ fill + cmd.size <= Length /\ wr = rd + fill
        BY <1>2, ChannelAssumption DEF Core, Writing, Layout, Command
      <3> QED BY SMTT(20), <2>1, <3>1, Numbers DEF Numeric
    <2>3. UnitOf(sent[i].at) # UnitOf(wr)
      BY <2>1, <2>2, UnitsDiffer DEF Core, TypeOK
    <2> QED BY <2>1, <2>3, <1>5, UnitType DEF Core, Layout
  <1> QED BY <1>6, <1>7, <1>8, <1>9 DEF Core

LEMMA PublishCore == ASSUME Core, Publish PROVE Core'
  <1> USE DEF Publish, serverVars
  <1>0. Numeric
    BY Numbers
  <1>1. /\ cmd \in Command /\ cmd.size \in 1 .. Length /\ cmd.id = Len(sent) + 1
        /\ cmd.at = wr /\ fill + cmd.size <= Length /\ mem[head] = Header(cmd)
    BY ChannelAssumption DEF Core, Writing, Command
  <1>2. sent' \in Seq(Command) /\ Len(sent') = Len(sent) + 1 /\ sent'[Len(sent) + 1] = cmd
        /\ \A i \in 1 .. Len(sent) : sent'[i] = sent[i]
    BY <1>1, AppendProperties DEF Core, TypeOK
  <1>3. Len(sent) \in Nat /\ Len(ran) \in Nat
    BY DEF Core, TypeOK
  <1>4. head' = UnitOf(wr') /\ head' \in Units
    <2>1. UnitOf(wr + cmd.size) = (head + cmd.size) % Length
      <3>1. cmd.size \in 0 .. Length
        BY <1>1
      <3> QED BY <3>1, <1>0, UnitStep DEF Numeric, Core, Layout
    <2>2. wr + cmd.size \in Nat
      BY <1>1 DEF Core, TypeOK
    <2> QED BY <2>1, <2>2, UnitType
  <1>5. TypeOK'
    <2>1. fill' \in 0 .. Length /\ wr' \in Nat
      BY SMTT(20), <1>0, <1>1 DEF Numeric
    <2>2. cpc' = "check" /\ cmd' = cmd /\ cmd \in Command \cup {NoCommand}
      BY DEF Core, TypeOK
    <2> QED BY <1>2, <1>4, <2>1, <2>2 DEF Core, TypeOK
  <1>6. Layout'
    <2>1. wr' = rd' + fill' /\ head' = UnitOf(wr') /\ tail' = UnitOf(rd')
      <3>1. tail = UnitOf(rd) /\ tail' = tail /\ rd' = rd
        BY DEF Core, Layout
      <3>2. wr' = rd' + fill'
        BY <1>0, <1>1 DEF Numeric
      <3> QED BY <1>4, <3>1, <3>2 DEF UnitOf
    <2>2. ASSUME NEW i \in 1 .. Len(sent')
          PROVE /\ sent'[i].id = i
                /\ sent'[i].at + sent'[i].size <= wr'
                /\ i < Len(sent') => sent'[i + 1].at = sent'[i].at + sent'[i].size
                /\ i = Len(sent') => sent'[i].at + sent'[i].size = wr'
      <3>1. CASE i = Len(sent) + 1
        BY <3>1, <1>1, <1>2, <1>3 DEF Core, TypeOK
      <3>2. CASE i \in 1 .. Len(sent)
        <4>1. sent[i].at \in Nat /\ sent[i].size \in Nat /\ wr \in Nat
          BY <3>2, SentType, ChannelAssumption DEF Core, TypeOK
        <4>2. /\ sent[i].id = i /\ sent[i].at + sent[i].size <= wr
              /\ i < Len(sent) => sent[i + 1].at = sent[i].at + sent[i].size
              /\ i = Len(sent) => sent[i].at + sent[i].size = wr
          BY <3>2 DEF Core, Layout
        <4>3. CASE i = Len(sent)
          BY <4>1, <4>2, <4>3, <1>1, <1>2, <1>3
        <4>4. CASE i < Len(sent)
          <5>1. i \in 1 .. Len(sent) /\ i + 1 \in 1 .. Len(sent) /\ i # Len(sent')
            BY <3>2, <4>4, <1>2, <1>3
          <5>2. sent'[i] = sent[i] /\ sent'[i + 1] = sent[i + 1]
            BY <5>1, <1>2
          <5>3. wr <= wr'
            BY <4>1, <1>1
          <5>4. sent[i].at + sent[i].size <= wr'
            BY SMTT(20), <4>1, <4>2, <5>3, <1>1
          <5> QED BY <4>2, <4>4, <5>1, <5>2, <5>4
        <4> QED BY <3>2, <4>3, <4>4, <1>3
      <3> QED BY <1>2, <1>3, <3>1, <3>2
    <2>3. ASSUME NEW i \in 1 .. Len(sent'), NEW j \in 1 .. Len(sent'), i < j
          PROVE sent'[i].at + sent'[i].size <= sent'[j].at
      <3>1. i \in 1 .. Len(sent)
        BY <2>3, <1>2, <1>3
      <3>2. CASE j = Len(sent) + 1
        BY <3>1, <3>2, <1>1, <1>2 DEF Core, Layout
      <3>3. CASE j \in 1 .. Len(sent)
        BY <2>3, <3>1, <3>3, <1>2 DEF Core, Layout
      <3> QED BY <1>2, <1>3, <3>2, <3>3
    <2> QED BY <2>1, <2>2, <2>3 DEF Layout
  <1>7. Front'
    <2>1. Released' = Released /\ Released \in 0 .. Len(sent)
      BY DEF Core, Front, Released
    <2>2. CASE Released < Len(sent)
      BY <2>1, <2>2, <1>2, <1>3 DEF Core, Front
    <2>3. CASE Released = Len(sent)
      BY <2>1, <2>3, <1>1, <1>2, <1>3 DEF Core, Front
    <2> QED BY <2>1, <2>2, <2>3, <1>3
  <1>8. Writing'
    BY <1>1, <1>2, <1>3 DEF Core, Writing, Layout
  <1>9. Serving'
    <2>1. Released' = Released /\ Released \in 0 .. Len(sent)
      BY DEF Core, Front, Released
    <2> QED BY <2>1, <1>2, <1>3 DEF Core, Serving, InOrder
  <1>10. InOrder'
    BY <1>2, <1>3 DEF Core, InOrder
  <1>11. HeadersIntact'
    <2> SUFFICES ASSUME NEW i \in Released + 1 .. Len(sent) + 1
                 PROVE mem[UnitOf(sent'[i].at)] = Header(sent'[i])
      BY <1>2 DEF HeadersIntact, Released, Header
    <2>1. CASE i = Len(sent) + 1
      BY <2>1, <1>1, <1>2 DEF Core, Layout
    <2>2. CASE i \in Released + 1 .. Len(sent)
      BY <2>2, <1>2, InBuffer DEF Core, HeadersIntact
    <2> QED BY <2>1, <2>2, <1>3 DEF Core, Front
  <1> QED BY <1>5, <1>6, <1>7, <1>8, <1>9, <1>10, <1>11 DEF Core

(* The rest of the client: only its own place and the semaphores change.   *)
LEMMA CheckPostCore == ASSUME Core, CheckPost PROVE Core'
  <1> USE DEF CheckPost, bufferVars, serverVars
  <1>1. TypeOK'
    BY DEF Core, TypeOK
  <1>2. Layout' /\ Front' /\ Serving' /\ InOrder' /\ HeadersIntact'
    BY DEF Core, Layout, Front, Serving, InOrder, HeadersIntact, Released, Header
  <1>3. Writing'
    BY DEF Core, Writing, Header
  <1> QED BY <1>1, <1>2, <1>3 DEF Core

LEMMA TestReplyCore == ASSUME Core, TestReply PROVE Core'
  <1> USE DEF TestReply, bufferVars, serverVars
  <1>1. TypeOK'
    BY DEF Core, TypeOK
  <1>2. Layout' /\ Front' /\ Serving' /\ InOrder' /\ HeadersIntact'
    BY DEF Core, Layout, Front, Serving, InOrder, HeadersIntact, Released, Header
  <1>3. Writing'
    BY DEF Core, Writing, Header
  <1> QED BY <1>1, <1>2, <1>3 DEF Core

LEMMA WakeClientCore == ASSUME Core, WakeClient PROVE Core'
  <1> USE DEF WakeClient, bufferVars, serverVars
  <1>1. TypeOK'
    BY DEF Core, TypeOK
  <1>2. Layout' /\ Front' /\ Serving' /\ InOrder' /\ HeadersIntact'
    BY DEF Core, Layout, Front, Serving, InOrder, HeadersIntact, Released, Header
  <1>3. Writing'
    BY DEF Core, Writing, Header
  <1> QED BY <1>1, <1>2, <1>3 DEF Core

(* The server finds the oldest command exactly when there is one.          *)
LEMMA FilledIsNonempty == ASSUME Core
                          PROVE fill > 0 => Released < Len(sent)
  <1>0. Numeric
    BY Numbers
  <1> QED BY <1>0 DEF Numeric, Core, Front

LEMMA ReadBufferCore == ASSUME Core, ReadBuffer PROVE Core'
  <1> USE DEF ReadBuffer, bufferVars, clientVars
  <1>0. Numeric /\ (fill > 0 => Released < Len(sent))
    BY Numbers, FilledIsNonempty
  <1>1. TypeOK'
    BY DEF Core, TypeOK
  <1>2. Layout' /\ Front' /\ InOrder' /\ HeadersIntact' /\ Writing'
    BY DEF Core, Layout, Front, Writing, InOrder, HeadersIntact, Released, Header
  <1>3. Serving'
    BY <1>0 DEF Core, Serving, Released, Numeric
  <1> QED BY <1>1, <1>2, <1>3 DEF Core

LEMMA WakeServerCore == ASSUME Core, WakeServer PROVE Core'
  <1> USE DEF WakeServer, bufferVars, clientVars
  <1>1. TypeOK'
    BY DEF Core, TypeOK
  <1>2. Layout' /\ Front' /\ InOrder' /\ HeadersIntact' /\ Writing' /\ Serving'
    BY DEF Core, Layout, Front, Writing, InOrder, HeadersIntact, Released, Header, Serving
  <1> QED BY <1>1, <1>2 DEF Core

(* The header the server reads is that of the oldest command.              *)
LEMMA Oldest == ASSUME Core, spc \in {"dispatch", "release"}
                PROVE /\ Released + 1 \in 1 .. Len(sent)
                      /\ slot = tail
                      /\ mem[slot] = Header(sent[Released + 1])
                      /\ sent[Released + 1].at = rd /\ sent[Released + 1].id = Released + 1
                      /\ sent[Released + 1].size \in 1 .. Length
                      /\ sent[Released + 1].at + sent[Released + 1].size <= wr
  <1>1. Released \in 0 .. Len(sent) /\ Released < Len(sent) /\ slot = tail
    BY DEF Core, Serving, Front
  <1>2. Released + 1 \in Released + 1 .. Len(sent) /\ Released + 1 \in 1 .. Len(sent)
    BY <1>1
  <1>3. sent[Released + 1].at = rd /\ tail = UnitOf(rd)
    BY <1>1 DEF Core, Front, Layout
  <1>4. mem[UnitOf(sent[Released + 1].at)] = Header(sent[Released + 1])
    BY <1>2 DEF Core, HeadersIntact
  <1>5. sent[Released + 1].size \in 1 .. Length
    BY <1>2, SentType DEF Core
  <1>6. sent[Released + 1].id = Released + 1
        /\ sent[Released + 1].at + sent[Released + 1].size <= wr
    BY <1>2 DEF Core, Layout
  <1> QED BY <1>1, <1>2, <1>3, <1>4, <1>5, <1>6

LEMMA ExitCore == ASSUME Core, Exit PROVE Core'
  <1> USE DEF Exit, bufferVars, clientVars
  <1>1. TypeOK'
    BY DEF Core, TypeOK
  <1>2. Layout' /\ Front' /\ InOrder' /\ HeadersIntact' /\ Writing'
    BY DEF Core, Layout, Front, Writing, InOrder, HeadersIntact, Released, Header
  <1>3. Released < Len(sent) /\ sent[Released + 1].kind = "shutdown"
    BY Oldest DEF Core, Serving, Header
  <1>4. Serving'
    BY <1>3 DEF Serving, Released
  <1> QED BY <1>1, <1>2, <1>4 DEF Core

LEMMA HandleCore == ASSUME Core, Handle PROVE Core'
  <1> USE DEF Handle, bufferVars, clientVars
  <1>0. Numeric /\ Released = Len(ran)
    BY Numbers DEF Released
  <1>1. /\ Len(ran) + 1 \in 1 .. Len(sent) /\ slot = tail
        /\ mem[slot].id = Len(ran) + 1
    BY <1>0, Oldest DEF Header
  <1>2. ran' \in Seq(Nat) /\ Len(ran') = Len(ran) + 1 /\ ran'[Len(ran) + 1] = Len(ran) + 1
        /\ \A i \in 1 .. Len(ran) : ran'[i] = ran[i]
    <2>1. Len(ran) + 1 \in Nat /\ ran \in Seq(Nat)
      BY <1>0 DEF Core, TypeOK, Numeric
    <2> QED BY <1>1, <2>1, AppendProperties
  <1>3. Released' = Released
    BY <1>0, <1>2 DEF Released, Numeric
  <1>4. TypeOK'
    BY <1>2 DEF Core, TypeOK
  <1>5. Layout' /\ Front' /\ HeadersIntact' /\ Writing'
    BY <1>3 DEF Core, Layout, Front, Writing, HeadersIntact, Header
  <1>6. Serving'
    BY <1>0, <1>1, <1>2, <1>3 DEF Core, Serving, Numeric
  <1>7. InOrder'
    BY <1>0, <1>1, <1>2 DEF Core, InOrder, Numeric
  <1> QED BY <1>4, <1>5, <1>6, <1>7 DEF Core

LEMMA ReleaseCore == ASSUME Core, Release PROVE Core'
  <1> USE DEF Release, NextTail, clientVars
  <1>0. Numeric /\ Len(ran) > 0 /\ Released = Len(ran) - 1 /\ Released' = Len(ran)
    BY Numbers DEF Released, Core, Serving
  <1> DEFINE c == sent[Len(ran)]
  <1>1. /\ Len(ran) \in 1 .. Len(sent) /\ slot = tail /\ mem[slot] = Header(c)
        /\ c.at = rd /\ c.size \in 1 .. Length /\ c.at + c.size <= wr
    <2>1. Released + 1 = Len(ran)
      BY <1>0 DEF Numeric
    <2> QED BY <2>1, Oldest
  <1>2. mem[slot].size = c.size
    BY <1>1 DEF Header
  <1>n. PICK n \in 1 .. Length : n = c.size
    BY <1>1
  <1>3. tail' = UnitOf(rd') /\ tail' \in Units
    <2>1. c.size \in 0 .. Length /\ rd + c.size \in Nat
      BY <1>0, <1>1 DEF Numeric
    <2>2. UnitOf(rd + c.size) = (tail + c.size) % Length
      BY <1>0, <2>1, UnitStep DEF Numeric, Core, Layout
    <2> QED BY <1>2, <2>1, <2>2, UnitType
  <1>4. fill' \in 0 .. Length /\ rd' \in Nat /\ wr' = rd' + fill'
    <2>1. n <= fill
      BY <1>0, <1>1, <1>n DEF Numeric
    <2>2. fill' = fill - n /\ rd' = rd + n /\ wr' = wr
      BY <1>2, <1>n
    <2> HIDE DEF Release
    <2> QED BY <1>0, <2>1, <2>2 DEF Numeric
  <1>5. TypeOK'
    BY <1>3, <1>4 DEF Core, TypeOK
  <1>6. Layout'
    BY <1>3, <1>4 DEF Core, Layout
  <1>7. Front'
    <2>1. Len(ran) < Len(sent) => sent[Len(ran) + 1].at = c.at + c.size
      BY <1>1 DEF Core, Layout
    <2>2. Len(ran) = Len(sent) => c.at + c.size = wr
      BY <1>1 DEF Core, Layout
    <2> QED BY <1>0, <1>1, <1>2, <2>1, <2>2 DEF Front, Numeric
  <1>8. Writing'
    <2>1. fill' <= fill
      <3>1. fill' = fill - n
        BY <1>2, <1>n
      <3> HIDE DEF Release
      <3> QED BY <3>1, <1>0 DEF Numeric
    <2>2. cmd \in Command /\ fill + cmd.size <= Length => fill' + cmd.size <= Length
      <3>1. cmd \in Command => cmd.size \in Nat
        <4>1. cmd \in Command => cmd.size \in 1 .. Length
          BY ChannelAssumption DEF Command
        <4> QED BY <4>1
      <3>2. fill' \in Nat /\ fill \in Nat /\ Length \in Nat
        BY <1>0, <1>4 DEF Numeric
      <3> HIDE DEF Release
      <3> QED BY <2>1, <3>1, <3>2
    <2> QED BY <2>2 DEF Core, Writing, Header
  <1>9. Serving'
    BY <1>0, <1>1 DEF Core, Serving, Layout
  <1>10. InOrder'
    BY DEF Core, InOrder
  <1>11. HeadersIntact'
    BY <1>0 DEF Core, HeadersIntact, Header, Numeric
  <1> QED BY <1>5, <1>6, <1>7, <1>8, <1>9, <1>10, <1>11 DEF Core

LEMMA TestTokenCore == ASSUME Core, TestToken PROVE Core'
  <1> USE DEF TestToken, ReplyPath, bufferVars, clientVars
  <1>1. TypeOK'
    BY DEF Core, TypeOK, Unit
  <1>2. Layout' /\ Front' /\ InOrder' /\ HeadersIntact' /\ Writing' /\ Serving'
    BY DEF Core, Layout, Front, Writing, InOrder, HeadersIntact, Released, Header, Serving
  <1> QED BY <1>1, <1>2 DEF Core

LEMMA PublishTokenCore == ASSUME Core, PublishToken PROVE Core'
  <1> USE DEF PublishToken, clientVars, ReplyPath
  <1>1. TypeOK'
    BY DEF Core, TypeOK, Unit
  <1>2. Layout' /\ Front' /\ InOrder' /\ HeadersIntact' /\ Writing' /\ Serving'
    BY DEF Core, Layout, Front, Writing, InOrder, HeadersIntact, Released, Header, Serving
  <1> QED BY <1>1, <1>2 DEF Core

LEMMA PostReplyCore == ASSUME Core, PostReply PROVE Core'
  <1> USE DEF PostReply, ReplyPath, bufferVars, clientVars
  <1>1. TypeOK'
    BY DEF Core, TypeOK
  <1>2. Layout' /\ Front' /\ InOrder' /\ HeadersIntact' /\ Writing' /\ Serving'
    BY DEF Core, Layout, Front, Writing, InOrder, HeadersIntact, Released, Header, Serving
  <1> QED BY <1>1, <1>2 DEF Core

LEMMA StutterCore == ASSUME Core, UNCHANGED vars PROVE Core'
  <1> USE DEF vars
  <1>1. TypeOK'
    BY DEF Core, TypeOK
  <1>2. Layout' /\ Front' /\ InOrder' /\ HeadersIntact' /\ Writing' /\ Serving'
    BY DEF Core, Layout, Front, Writing, InOrder, HeadersIntact, Released, Header, Serving
  <1> QED BY <1>1, <1>2 DEF Core

LEMMA CoreNext == ASSUME Core, [Next]_vars PROVE Core'
  BY ReserveCore, SetTokenCore, PublishCore, CheckPostCore, TestReplyCore, WakeClientCore,
     ReadBufferCore, WakeServerCore, ExitCore, HandleCore, ReleaseCore, TestTokenCore,
     PublishTokenCore, PostReplyCore, StutterCore
  DEF Next, ReserveSome, Client, Server, Finished

LEMMA CoreAlways == Spec => []Core
  BY CoreInit, CoreNext, PTL DEF Spec

(* The state always has its types: the buffer never holds more than it has *)
(* room for, and both threads stay within it.                              *)
THEOREM TypeCorrect == Spec => []TypeOK
  <1>1. Core => TypeOK
    BY DEF Core
  <1> QED BY <1>1, CoreAlways, PTL

(* No command is overwritten before the server is done with it, for every  *)
(* buffer length and every mix of command sizes.                           *)
THEOREM NoOverwrite == Spec => []HeadersIntact
  <1>1. Core => HeadersIntact
    BY DEF Core
  <1> QED BY <1>1, CoreAlways, PTL

(* The server runs the commands once each and in order.                    *)
THEOREM RunInOrder == Spec => []InOrder
  <1>1. Core => InOrder
    BY DEF Core
  <1> QED BY <1>1, CoreAlways, PTL

-----------------------------------------------------------------------------
(* Wake-ups.                                                               *)

LEMMA WakeupStep == ASSUME Core, NoLostWakeup, [Next]_vars PROVE NoLostWakeup'
  <1> USE DEF NoLostWakeup
  <1>0. Numeric
    BY Numbers
  <1>1. CASE ReserveSome
    BY <1>1 DEF ReserveSome, Reserve, serverVars
  <1>2. CASE Publish
    <2>1. cmd.size \in 1 .. Length
      BY <1>2, ChannelAssumption DEF Publish, Core, Writing, Command
    <2>2. CASE fill = 0
      BY <1>0, <1>2, <2>1, <2>2 DEF Publish, Numeric, serverVars
    <2>3. CASE fill > 0
      BY <1>0, <1>2, <2>1, <2>3 DEF Publish, Numeric, serverVars
    <2> QED BY <1>0, <2>2, <2>3 DEF Numeric
  <1>3. CASE CheckPost
    BY <1>3 DEF CheckPost, bufferVars, serverVars, HoldsOnly, Core, TypeOK
  <1>4. CASE SetToken \/ TestReply \/ WakeClient
    BY <1>4 DEF SetToken, TestReply, WakeClient, bufferVars, serverVars
  <1>5. CASE Server
    BY <1>5, <1>0 DEF Server, ReadBuffer, WakeServer, Exit, Handle, Release, TestToken,
                PublishToken, PostReply, ReplyPath, bufferVars, clientVars, Numeric
  <1>6. CASE UNCHANGED vars
    BY <1>6 DEF vars
  <1> QED BY <1>1, <1>2, <1>3, <1>4, <1>5, <1>6 DEF Next, Client, Finished

(* The server never sleeps on over a command: client.c:279 posts often     *)
(* enough, although fill_count may move under its test.                    *)
THEOREM WakeupKept == Spec => []NoLostWakeup
  <1>1. Init => NoLostWakeup
    BY DEF Init, NoLostWakeup
  <1> QED BY <1>1, WakeupStep, CoreAlways, PTL DEF Spec

LEMMA ReplyStep == ASSUME Core, NoLostReply, [Next]_vars PROVE NoLostReply'
  <1> USE DEF NoLostReply
  <1>0. clientSem \in Nat
    BY DEF Core, TypeOK
  <1>1. CASE ReserveSome
    BY <1>1 DEF ReserveSome, Reserve
  <1>2. CASE SetToken \/ Publish \/ CheckPost
    BY <1>2 DEF SetToken, Publish, CheckPost
  <1>3. CASE TestReply
    <2>1. cpc' = "semwait" => lastToken < want
      BY <1>3 DEF TestReply, Outstanding
    <2>2. lastToken' = lastToken /\ want' = want /\ lastToken \in Int /\ want \in Int
      BY <1>3, ChannelAssumption DEF TestReply, bufferVars, Core, TypeOK, Tokens
    <2> QED BY <2>1, <2>2
  <1>4. CASE WakeClient
    BY <1>4 DEF WakeClient
  <1>5. CASE PublishToken
    BY <1>5 DEF PublishToken, ReplyPath
  <1>6. CASE PostReply
    BY <1>6, <1>0 DEF PostReply, ReplyPath
  <1>7. CASE ReadBuffer \/ WakeServer \/ Exit \/ Handle \/ Release \/ TestToken
    BY <1>7 DEF ReadBuffer, WakeServer, Exit, Handle, Release, TestToken, ReplyPath, bufferVars, clientVars
  <1>8. CASE UNCHANGED vars
    BY <1>8 DEF vars
  <1> QED BY <1>1, <1>2, <1>3, <1>4, <1>5, <1>6, <1>7, <1>8 DEF Next, Client, Server, Finished

(* A reply that has come is never slept over: last_token is set before the *)
(* post (server.c:44-45) and tested before the wait (client.c:267-268).    *)
THEOREM ReplyKept == Spec => []NoLostReply
  <1>1. Init => NoLostReply
    BY DEF Init, NoLostReply
  <1> QED BY <1>1, ReplyStep, CoreAlways, PTL DEF Spec

(* The slot of the command a caller waits for still holds that command     *)
(* when the server reads its token, released or not: the caller is the     *)
(* only one who could overwrite it.                                        *)
LEMMA LastSlot == ASSUME Core, Blocked, Len(ran) = Len(sent), spc \in {"token", "reply", "post"}
                  PROVE mem[slot].token = want /\ want > 0
  <1>1. slot = UnitOf(sent[Len(sent)].at) /\ sent[Len(sent)] = cmd
    BY DEF Core, Serving, Writing, Blocked
  <1>2. mem[slot] = Header(cmd) /\ cmd.token = want /\ want > 0
    BY <1>1 DEF Core, Writing, Blocked
  <1> QED BY <1>2 DEF Header

LEMMA ReplyOfLastStep == ASSUME Core, ReplyOfLast, [Next]_vars PROVE ReplyOfLast'
  <1> USE DEF ReplyOfLast, Blocked
  <1>0. Numeric /\ Len(ran) <= Len(sent)
    BY Numbers DEF Core, InOrder
  <1>1. CASE ReserveSome
    BY <1>1 DEF ReserveSome, Reserve
  <1>2. CASE SetToken
    BY <1>2 DEF SetToken
  <1>3. CASE Publish
    <2>1. Len(sent') = Len(sent) + 1 /\ ran' = ran
      BY <1>3, AppendProperties DEF Publish, Core, TypeOK, Writing
    <2> QED BY <1>0, <2>1 DEF Numeric
  <1>4. CASE CheckPost \/ TestReply \/ WakeClient
    BY <1>4 DEF CheckPost, TestReply, WakeClient, bufferVars, serverVars
  <1>5. CASE ReadBuffer \/ WakeServer \/ Exit
    BY <1>5 DEF ReadBuffer, WakeServer, Exit, bufferVars, clientVars
  <1>6. CASE Handle
    BY <1>6 DEF Handle
  <1>7. CASE Release
    BY <1>7 DEF Release
  <1>8. CASE TestToken
    BY <1>8, LastSlot DEF TestToken, ReplyPath, bufferVars, clientVars
  <1>9. CASE PublishToken
    BY <1>9, LastSlot DEF PublishToken, ReplyPath, clientVars
  <1>10. CASE PostReply
    BY <1>10 DEF PostReply, ReplyPath, bufferVars, clientVars
  <1>11. CASE UNCHANGED vars
    BY <1>11 DEF vars
  <1> QED BY <1>1, <1>2, <1>3, <1>4, <1>5, <1>6, <1>7, <1>8, <1>9, <1>10, <1>11
          DEF Next, Client, Server, Finished

(* Client and server are never both asleep without a post on its way.      *)
(* Nothing is assumed of the tokens: they may have wrapped, and the server *)
(* may have replied to commands that asked for none.                       *)
THEOREM NoDeadlock == Spec => []NeverBothAsleep
  <1>1. Init => ReplyOfLast
    BY DEF Init, ReplyOfLast, Blocked
  <1>2. Spec => []ReplyOfLast
    BY <1>1, ReplyOfLastStep, CoreAlways, PTL DEF Spec
  <1>3. Core /\ NoLostWakeup /\ NoLostReply /\ ReplyOfLast => NeverBothAsleep
    <2> SUFFICES ASSUME Core, NoLostWakeup, NoLostReply, ReplyOfLast,
                        cpc = "semwait", clientSem = 0, spc = "sleep", serverSem = 0
                 PROVE FALSE
      BY DEF NeverBothAsleep
    <2>0. Numeric
      BY Numbers
    <2>1. fill = 0
      BY <2>0 DEF NoLostWakeup, Numeric
    <2>2. Len(ran) = Len(sent)
      <3>1. Released = Len(ran) /\ Released \in 0 .. Len(sent)
        BY DEF Released, Core, Front
      <3>2. Released < Len(sent) => FALSE
        <4> SUFFICES ASSUME Released < Len(sent) PROVE FALSE
          OBVIOUS
        <4>1. Released + 1 \in 1 .. Len(sent) /\ Released + 1 \in Released + 1 .. Len(sent)
          BY <2>0, <3>1 DEF Numeric
        <4>2. sent[Released + 1].size \in 1 .. Length /\ sent[Released + 1].at \in Nat
          BY <4>1, SentType DEF Core
        <4>3. rd <= sent[Released + 1].at
              /\ sent[Released + 1].at + sent[Released + 1].size <= wr
          BY <4>1, InBuffer
        <4> QED BY <2>0, <2>1, <4>2, <4>3 DEF Numeric
      <3> QED BY <2>0, <3>1, <3>2 DEF Numeric
    <2>3. Blocked
      BY DEF Blocked, Core, Writing
    <2>4. lastToken = want /\ want \in Int
      BY <2>2, <2>3 DEF ReplyOfLast, Core, TypeOK, Tokens
    <2> QED BY <2>4 DEF NoLostReply
  <1> QED BY <1>2, <1>3, CoreAlways, WakeupKept, ReplyKept, PTL

-----------------------------------------------------------------------------
(* Synchronous calls.                                                      *)

LEMMA TokenNumbers ==
  ASSUME Core
  PROVE /\ token \in Nat /\ lastToken \in Nat /\ want \in Nat /\ reply \in Nat
        /\ \A i \in 1 .. Len(sent) : sent[i].token \in Nat
  <1>1. \A i \in 1 .. Len(sent) : sent[i].token \in Tokens
    BY SentType DEF Core
  <1>2. Tokens \subseteq Nat
    BY ChannelAssumption DEF Tokens
  <1> QED BY <1>1, <1>2 DEF Core, TypeOK

LEMMA TokenSetToken == ASSUME Core, TokenOrder, SetToken PROVE TokenOrder'
  <1> USE DEF SetToken, serverVars
  <1>1. /\ token \in Nat /\ lastToken \in Nat
        /\ \A i \in 1 .. Len(sent) : sent[i].token \in Nat
    BY TokenNumbers
  <1>2. UNCHANGED <<sent, ran, lastToken>> /\ cpc' = "publish"
    OBVIOUS
  <1>3. Sound' => Sound /\ token' # 0
    BY DEF Sound
  <1>4. token' # 0 => token' = token + 1 /\ want' = token'
    <2>1. token \in 0 .. TokenMod - 1
      BY DEF Core, TypeOK, Tokens
    <2>2. CASE token + 1 = TokenMod
      <3>1. ((TokenMod * 1) + 0) % TokenMod = 0
        <4>1. 1 \in Nat /\ 0 \in 0 .. TokenMod - 1 /\ TokenMod \in Nat \ {0}
          BY ChannelAssumption
        <4> QED BY <4>1, ModIs
      <3>2. (TokenMod * 1) + 0 = token + 1
        BY <2>2, ChannelAssumption
      <3> QED BY <3>1, <3>2
    <2>3. CASE token + 1 < TokenMod
      <3>1. token + 1 \in 0 .. TokenMod - 1 /\ TokenMod \in Nat \ {0}
        BY <1>1, <2>3, ChannelAssumption
      <3>2. (token + 1) % TokenMod = token + 1
        BY <3>1, ModSmall
      <3> QED BY <3>2
    <2> QED BY <2>1, <2>2, <2>3, ChannelAssumption
  <1> HIDE DEF SetToken
  <1>5. ASSUME Sound' PROVE token' = token + 1 /\ want' = token + 1 /\ Sound
    BY <1>3, <1>4, <1>5
  <1> QED BY <1>1, <1>2, <1>5 DEF TokenOrder

LEMMA TokenPublish == ASSUME Core, TokenOrder, Publish PROVE TokenOrder'
  <1> USE DEF Publish, serverVars
  <1>0. Numeric /\ Len(ran) <= Len(sent)
    BY Numbers DEF Core, InOrder
  <1>1. /\ Len(sent') = Len(sent) + 1 /\ sent'[Len(sent) + 1] = cmd
        /\ \A i \in 1 .. Len(sent) : sent'[i] = sent[i]
    BY AppendProperties DEF Core, TypeOK, Writing
  <1>2. /\ token \in Nat /\ lastToken \in Nat /\ want \in Nat
        /\ \A i \in 1 .. Len(sent) : sent[i].token \in Nat
    BY TokenNumbers
  <1>3. /\ cmd.kind # "async" => cmd.token = want /\ want > 0
        /\ cmd.kind = "async" => cmd.token = 0
    BY DEF Core, Writing
  <1>4. UNCHANGED <<ran, lastToken, token, want>> /\ Sound' = Sound /\ cpc' # "publish"
    BY DEF Sound
  <1>5. \A i \in 1 .. Len(sent') : i \in 1 .. Len(sent) \/ i = Len(sent) + 1
    BY <1>0, <1>1 DEF Numeric
  <1>6. \A i \in 1 .. Len(sent') : sent'[i].kind # "async" => sent'[i].token > 0
    BY <1>1, <1>3, <1>5 DEF TokenOrder
  <1>7. ASSUME Sound
        PROVE /\ \A i \in 1 .. Len(sent') : sent'[i].token <= token
              /\ \A i, j \in 1 .. Len(sent') :
                   i < j /\ sent'[j].token > 0 => sent'[i].token < sent'[j].token
              /\ \A i \in Len(ran) + 1 .. Len(sent') :
                   sent'[i].token > 0 => lastToken < sent'[i].token
              /\ lastToken <= token
    <2>1. /\ \A i \in 1 .. Len(sent) : sent[i].token <= token
          /\ \A i, j \in 1 .. Len(sent) :
               i < j /\ sent[j].token > 0 => sent[i].token < sent[j].token
          /\ \A i \in Len(ran) + 1 .. Len(sent) :
               sent[i].token > 0 => lastToken < sent[i].token
          /\ lastToken <= token
      BY <1>7 DEF TokenOrder
    <2>2. cmd.token > 0 => /\ cmd.token <= token /\ lastToken < cmd.token
                           /\ \A i \in 1 .. Len(sent) : sent[i].token < cmd.token
      BY <1>2, <1>3, <1>7 DEF TokenOrder
    <2>3. cmd.token \in Nat /\ cmd.token <= token
      BY <1>2, <1>3, <2>2
    <2>4. \A i \in 1 .. Len(sent') : sent'[i].token <= token
      BY <1>1, <1>5, <2>1, <2>3
    <2>5. ASSUME NEW i \in 1 .. Len(sent'), NEW j \in 1 .. Len(sent'), i < j,
                 sent'[j].token > 0
          PROVE sent'[i].token < sent'[j].token
      <3>1. i \in 1 .. Len(sent)
        BY <1>0, <1>1, <2>5 DEF Numeric
      <3>2. CASE j = Len(sent) + 1
        BY <3>1, <3>2, <1>1, <2>2, <2>5
      <3>3. CASE j \in 1 .. Len(sent)
        BY <3>1, <3>3, <1>1, <2>1, <2>5
      <3> QED BY <1>5, <3>2, <3>3
    <2>6. ASSUME NEW i \in Len(ran) + 1 .. Len(sent'), sent'[i].token > 0
          PROVE lastToken < sent'[i].token
      <3>1. i \in 1 .. Len(sent')
        BY <1>0 DEF Numeric
      <3>2. CASE i = Len(sent) + 1
        BY <3>2, <1>1, <2>2, <2>6
      <3>3. CASE i \in 1 .. Len(sent)
        BY <3>3, <1>0, <1>1, <2>1, <2>6 DEF Numeric
      <3> QED BY <1>5, <3>1, <3>2, <3>3
    <2> QED BY <2>1, <2>4, <2>5, <2>6
  <1> HIDE DEF Publish
  <1> QED BY <1>4, <1>6, <1>7 DEF TokenOrder

LEMMA TokenPublishToken == ASSUME Core, TokenOrder, PublishToken PROVE TokenOrder'
  <1> USE DEF PublishToken, ReplyPath, clientVars
  <1>0. Numeric /\ Len(ran) \in 1 .. Len(sent)
    BY Numbers DEF Core, InOrder, Serving, Numeric
  <1>1. /\ token \in Nat /\ lastToken \in Nat /\ want \in Nat
        /\ \A i \in 1 .. Len(sent) : sent[i].token \in Nat
    BY TokenNumbers
  <1>2. Sound' => Sound /\ lastToken' = sent[Len(ran)].token
    BY DEF Sound
  <1>3. UNCHANGED <<sent, ran, token, want, cpc, cmd>>
    OBVIOUS
  <1> HIDE DEF PublishToken
  <1>4. ASSUME Sound', NEW i \in Len(ran) + 1 .. Len(sent), sent[i].token > 0
        PROVE lastToken' < sent[i].token
    BY <1>0, <1>2, <1>4 DEF TokenOrder, Numeric
  <1>5. Sound' => lastToken' <= token
    BY <1>0, <1>2 DEF TokenOrder
  <1>6. Sound' /\ cpc = "publish" /\ cmd.kind # "async" => lastToken' < want
    BY <1>0, <1>2 DEF TokenOrder
  <1> QED BY <1>2, <1>3, <1>4, <1>5, <1>6 DEF TokenOrder

LEMMA TokenHandle == ASSUME Core, TokenOrder, Handle PROVE TokenOrder'
  <1> USE DEF Handle, bufferVars, clientVars
  <1>1. Len(ran') = Len(ran) + 1 /\ Len(ran) \in Nat
    <2>1. mem[slot].id \in Nat /\ ran \in Seq(Nat)
      BY DEF Core, TypeOK, Unit
    <2> QED BY <2>1, AppendProperties, LenProperties
  <1>2. UNCHANGED <<sent, token, want, cpc, cmd, lastToken>> /\ Sound' = Sound
    BY DEF Sound
  <1>3. \A i \in Len(ran') + 1 .. Len(sent) : i \in Len(ran) + 1 .. Len(sent)
    BY <1>1, Numbers DEF Numeric
  <1> HIDE DEF Handle
  <1> QED BY <1>2, <1>3 DEF TokenOrder

LEMMA TokenOrderStep == ASSUME Core, TokenOrder, [Next]_vars PROVE TokenOrder'
  <1>1. CASE ReserveSome
    BY <1>1 DEF ReserveSome, Reserve, serverVars, TokenOrder, Sound
  <1>2. CASE CheckPost \/ TestReply \/ WakeClient
    BY <1>2 DEF CheckPost, TestReply, WakeClient, bufferVars, serverVars, TokenOrder, Sound
  <1>3. CASE ReadBuffer \/ WakeServer \/ Exit \/ PostReply \/ Release \/ TestToken
    BY <1>3 DEF ReadBuffer, WakeServer, Exit, PostReply, Release, TestToken, ReplyPath,
                bufferVars, clientVars, TokenOrder, Sound
  <1>4. CASE UNCHANGED vars
    BY <1>4 DEF vars, TokenOrder, Sound
  <1> QED BY <1>1, <1>2, <1>3, <1>4, TokenSetToken, TokenPublish, TokenPublishToken,
             TokenHandle DEF Next, Client, Server, Finished

LEMMA TokenOrderAlways == Spec => []TokenOrder
  <1>1. Init => TokenOrder
    BY DEF Init, TokenOrder
  <1> QED BY <1>1, TokenOrderStep, CoreAlways, PTL DEF Spec

LEMMA SyncRanStep == ASSUME Core, TokenOrder, SyncRanIfSound, [Next]_vars
                     PROVE SyncRanIfSound'
  <1> USE DEF SyncRanIfSound, SyncRan, Blocked
  <1>0. Numeric /\ Len(ran) <= Len(sent)
    BY Numbers DEF Core, InOrder
  <1>1. CASE ReserveSome
    BY <1>1 DEF ReserveSome, Reserve, serverVars, Sound
  <1>2. CASE SetToken
    BY <1>2 DEF SetToken, serverVars, Sound
  <1>3. CASE Publish
    <2>1. /\ Len(sent') = Len(sent) + 1 /\ sent'[Len(sent) + 1] = cmd
          /\ \A i \in 1 .. Len(sent) : sent'[i] = sent[i]
      BY <1>3, AppendProperties DEF Publish, Core, TypeOK, Writing
    <2>2. ASSUME Sound, NEW i \in 1 .. Len(sent'), sent'[i].kind # "async"
          PROVE i <= Len(ran) \/ (cmd.kind # "async" /\ i = Len(sent'))
      <3>1. CASE i = Len(sent) + 1
        BY <2>1, <2>2, <3>1
      <3>2. CASE i \in 1 .. Len(sent)
        BY <1>3, <2>1, <2>2, <3>2 DEF Publish
      <3> QED BY <1>0, <2>1, <3>1, <3>2 DEF Numeric
    <2> QED BY <1>3, <2>2 DEF Publish, Sound, serverVars
  <1>4. CASE CheckPost
    <2>1. Len(sent) > 0 /\ sent[Len(sent)] = cmd
      BY <1>4 DEF CheckPost, Core, Writing
    <2>2. UNCHANGED <<sent, ran, cmd>> /\ Sound' = Sound
      BY <1>4 DEF CheckPost, bufferVars, serverVars, Sound
    <2>3. CASE cmd.kind # "async"
      BY <1>4, <2>2, <2>3 DEF CheckPost
    <2>4. CASE cmd.kind = "async"
      <3>1. ASSUME Sound, NEW i \in 1 .. Len(sent), sent[i].kind # "async"
            PROVE i <= Len(ran)
        BY <2>1, <2>4, <3>1
      <3> QED BY <2>2, <3>1
    <2> QED BY <2>3, <2>4
  <1>5. CASE TestReply
    <2>1. Len(sent) > 0 /\ sent[Len(sent)] = cmd /\ cmd.kind # "async" /\ cmd.token = want
          /\ want > 0
      BY <1>5 DEF TestReply, Core, Writing
    <2>2. UNCHANGED <<sent, ran, cmd>> /\ Sound' = Sound
      BY <1>5 DEF TestReply, bufferVars, serverVars, Sound
    <2>3. CASE lastToken < want
      BY <1>5, <2>2, <2>3 DEF TestReply, Outstanding
    <2>4. CASE ~(lastToken < want)
      <3>1. ASSUME Sound PROVE Len(sent) <= Len(ran)
        <4>1. Len(sent) \in Len(ran) + 1 .. Len(sent) => lastToken < sent[Len(sent)].token
          BY <3>1, <2>1 DEF TokenOrder
        <4> QED BY <1>0, <2>1, <2>4, <4>1 DEF Numeric
      <3> QED BY <1>0, <2>2, <3>1 DEF Numeric
    <2> QED BY <2>3, <2>4
  <1>6. CASE WakeClient
    BY <1>6 DEF WakeClient, bufferVars, serverVars, Sound
  <1>7. CASE Handle
    <2>1. Len(ran') = Len(ran) + 1
      <3>1. mem[slot].id \in Nat /\ ran \in Seq(Nat)
        BY DEF Core, TypeOK, Unit
      <3> QED BY <1>7, <3>1, AppendProperties DEF Handle
    <2>2. UNCHANGED <<sent, cpc, cmd>> /\ Sound' = Sound
      BY <1>7 DEF Handle, clientVars, Sound
    <2> QED BY <1>0, <2>1, <2>2 DEF Numeric
  <1>8. CASE ReadBuffer \/ WakeServer \/ Exit \/ Release \/ TestToken \/ PublishToken \/ PostReply
    BY <1>8 DEF ReadBuffer, WakeServer, Exit, Release, TestToken, PublishToken, PostReply, ReplyPath,
                bufferVars, clientVars, Sound
  <1>9. CASE UNCHANGED vars
    BY <1>9 DEF vars, Sound
  <1> QED BY <1>1, <1>2, <1>3, <1>4, <1>5, <1>6, <1>7, <1>8, <1>9
          DEF Next, Client, Server, Finished

(* While no token has wrapped or been misread, a synchronous call that is  *)
(* back has run, with everything issued before it.                         *)
THEOREM SyncCallsRun == Spec => []SyncRanIfSound
  <1>1. Init => SyncRanIfSound
    BY DEF Init, SyncRanIfSound, SyncRan
  <1> QED BY <1>1, SyncRanStep, CoreAlways, TokenOrderAlways, PTL DEF Spec

-----------------------------------------------------------------------------
(* The channel implements the stream of commands (safety; TLC checks the   *)
(* progress half).                                                         *)

Issued == [i \in 1 .. Len(sent) |-> sent[i].kind]

LEMMA PublishIssues == ASSUME Core, Publish
                       PROVE Issued' = Append(Issued, cmd.kind) /\ Len(Issued) = Len(sent)
  <1> DEFINE K == {"async", "sync", "shutdown"}
  <1>0. Len(sent) \in Nat /\ cmd.kind \in K
    BY Numbers DEF Numeric, Publish, Core, Writing, Command
  <1>1. /\ Len(sent') = Len(sent) + 1 /\ sent'[Len(sent) + 1] = cmd
        /\ \A i \in 1 .. Len(sent) : sent'[i] = sent[i]
    BY AppendProperties DEF Publish, Core, TypeOK, Writing
  <1>2. \A i \in 1 .. Len(sent) : sent[i].kind \in K
    BY SentType DEF Core, Command
  <1>3. Issued \in Seq(K) /\ Len(Issued) = Len(sent)
    BY <1>0, <1>2 DEF Issued
  <1>4. Issued' \in Seq(K) /\ Len(Issued') = Len(sent) + 1
        /\ \A i \in 1 .. Len(sent) + 1 : Issued'[i] = sent'[i].kind
    <2>1. \A i \in 1 .. Len(sent) + 1 : sent'[i].kind \in K
      BY <1>0, <1>1, <1>2
    <2> QED BY <1>0, <1>1, <2>1 DEF Issued
  <1>5. /\ Append(Issued, cmd.kind) \in Seq(K)
        /\ Len(Append(Issued, cmd.kind)) = Len(sent) + 1
        /\ \A i \in 1 .. Len(sent) : Append(Issued, cmd.kind)[i] = sent[i].kind
        /\ Append(Issued, cmd.kind)[Len(sent) + 1] = cmd.kind
    BY <1>0, <1>3, AppendProperties DEF Issued
  <1>6. \A i \in 1 .. Len(sent) + 1 : Issued'[i] = Append(Issued, cmd.kind)[i]
    BY <1>0, <1>1, <1>4, <1>5
  <1>7. Issued' = Append(Issued, cmd.kind)
    BY <1>4, <1>5, <1>6, SeqEqual
  <1> QED BY <1>3, <1>7

LEMMA StreamStep == ASSUME Core, TokenOrder, SyncRanIfSound, [Next]_vars
                    PROVE [Stream!Next]_(Stream!vars)
  <1> USE DEF Stream!vars, Blocked
  <1>0. Numeric /\ Len(ran) <= Len(sent)
    BY Numbers DEF Core, InOrder
  <1>1. CASE ReserveSome
    BY <1>1 DEF ReserveSome, Reserve, serverVars, Sound
  <1>2. CASE SetToken
    <2>1. UNCHANGED <<sent, ran>> /\ ~Blocked /\ ~Blocked'
      BY <1>2 DEF SetToken, serverVars
    <2>2. Sound' = Sound \/ Sound' = FALSE
      BY <1>2 DEF SetToken, Sound
    <2> QED BY <2>1, <2>2 DEF Stream!Next, Stream!MixUpTokens
  <1>3. CASE Publish
    <2>1. Issued' = Append(Issued, cmd.kind) /\ Len(Issued) = Len(sent)
      BY <1>3, PublishIssues
    <2>2. ~Blocked /\ UNCHANGED <<ran, cmd>> /\ Sound' = Sound /\ cpc' = "check"
      BY <1>3 DEF Publish, serverVars, Sound
    <2>3. cmd.id = Len(sent) + 1 /\ cmd.kind \in {"async", "sync", "shutdown"}
      BY <1>3 DEF Publish, Core, Writing, Command
    <2>4. CASE cmd.kind = "async"
      BY <2>1, <2>2, <2>4 DEF Stream!Next, Stream!Post, Issued
    <2>5. CASE cmd.kind \in {"sync", "shutdown"}
      BY <2>1, <2>2, <2>3, <2>5 DEF Stream!Next, Stream!Call, Issued
    <2> QED BY <2>3, <2>4, <2>5
  <1>4. CASE CheckPost \/ WakeClient
    BY <1>4 DEF CheckPost, WakeClient, bufferVars, serverVars, Sound
  <1>5. CASE TestReply
    <2>1. Blocked /\ cmd.id = Len(sent) /\ Len(sent) > 0 /\ cmd.kind # "async"
          /\ sent[Len(sent)] = cmd
      BY <1>5 DEF TestReply, Core, Writing, Layout
    <2>2. UNCHANGED <<sent, ran, cmd>> /\ Sound' = Sound
      BY <1>5 DEF TestReply, bufferVars, serverVars, Sound
    <2>3. CASE cpc' = "semwait"
      BY <2>1, <2>2, <2>3
    <2>4. CASE cpc' # "semwait"
      <3>1. ~Blocked'
        BY <1>5, <2>4 DEF TestReply
      <3>2. Sound => Len(sent) <= Len(ran)
        <4>1. SyncRanIfSound'
          BY <1>5, SyncRanStep DEF Next, Client
        <4>2. Sound => SyncRan'
          BY <4>1, <2>2 DEF SyncRanIfSound
        <4>3. Len(sent) \in 1 .. Len(sent)
          BY <1>0, <2>1 DEF Numeric
        <4>4. SyncRan' => Len(sent) <= Len(ran)
          BY <2>1, <2>2, <3>1, <4>3 DEF SyncRan
        <4> QED BY <4>2, <4>4
      <3>3. cmd.id # 0
        BY <1>0, <2>1 DEF Numeric
      <3> QED BY <2>1, <2>2, <3>1, <3>2, <3>3 DEF Stream!Next, Stream!Return
    <2> QED BY <2>3, <2>4
  <1>6. CASE Handle
    <2>1. /\ Len(ran) + 1 \in 1 .. Len(sent) /\ mem[slot] = Header(sent[Len(ran) + 1])
          /\ mem[slot].id = Len(ran) + 1
      <3>1. Released = Len(ran)
        BY <1>6 DEF Handle, Released
      <3> QED BY <1>6, <3>1, Oldest DEF Handle, Header
    <2>2. sent[Len(ran) + 1].kind # "shutdown"
      BY <1>6, <2>1 DEF Handle, Header
    <2>3. ran' = Append(ran, Len(ran) + 1) /\ UNCHANGED <<sent, cpc, cmd>> /\ Sound' = Sound
      BY <1>6, <2>1 DEF Handle, clientVars, Sound
    <2>4. Len(Issued) = Len(sent) /\ Issued[Len(ran) + 1] = sent[Len(ran) + 1].kind
      BY <1>0, <2>1 DEF Issued, Numeric
    <2>5. Len(ran) < Len(Issued)
      BY <1>0, <2>1, <2>4 DEF Numeric
    <2> QED BY <2>2, <2>3, <2>4, <2>5 DEF Stream!Next, Stream!Execute, Issued
  <1>7. CASE ReadBuffer \/ WakeServer \/ Exit \/ Release \/ PostReply
    BY <1>7 DEF ReadBuffer, WakeServer, Exit, Release, PostReply, ReplyPath, bufferVars, clientVars, Sound
  <1>8. CASE TestToken \/ PublishToken
    <2>1. UNCHANGED <<sent, ran, cpc, cmd>>
      BY <1>8 DEF TestToken, PublishToken, ReplyPath, clientVars
    <2>2. Sound' = Sound \/ Sound' = FALSE
      <3>1. wrapped' = wrapped /\ (misread => misread')
        BY <1>8 DEF TestToken, PublishToken, ReplyPath
      <3>2. CASE misread'
        BY <3>2 DEF Sound
      <3>3. CASE ~misread'
        BY <3>1, <3>3 DEF Sound
      <3> QED BY <3>2, <3>3
    <2> QED BY <2>1, <2>2 DEF Stream!Next, Stream!MixUpTokens
  <1>9. CASE UNCHANGED vars
    BY <1>9 DEF vars, Sound
  <1> QED BY <1>1, <1>2, <1>3, <1>4, <1>5, <1>6, <1>7, <1>8, <1>9
          DEF Next, Client, Server, Finished

(* Every behaviour of the two threads is one of the stream: commands run   *)
(* one by one in the order issued, a call that is back has run unless the  *)
(* tokens are mixed up.                                                    *)
THEOREM ImplementsStream == Spec => StreamSafety
  <1>1. Init => Stream!Init
    <2> SUFFICES ASSUME Init PROVE Stream!Init
      OBVIOUS
    <2>1. Issued = << >>
      BY DEF Init, Issued
    <2> QED BY <2>1 DEF Init, Stream!Init, Issued, Blocked, Sound
  <1>2. Core /\ TokenOrder /\ SyncRanIfSound /\ [Next]_vars => [Stream!Next]_(Stream!vars)
    BY StreamStep
  <1> QED BY <1>1, <1>2, CoreAlways, TokenOrderAlways, SyncCallsRun, PTL
          DEF Spec, StreamSafety, Stream!Safety

=============================================================================
