--------------------------- MODULE StartupProofs ---------------------------
(***************************************************************************)
(* Proofs about Startup, for every number of websockets and every server:  *)
(* the version exchange keeps the two sides aligned, and only compatible   *)
(* clients with the key are served.                                        *)
(***************************************************************************)
EXTENDS Startup, SequenceTheorems, TLAPS

-----------------------------------------------------------------------------
(* Messages under way.                                                     *)

Msg == {"version", "message"}

\* What the end of a queue of messages gains from a write.
LEMMA AppendMsg ==
  ASSUME NEW q \in Seq(Msg), NEW e \in Msg
  PROVE  /\ Append(q, e) \in Seq(Msg) /\ Append(q, e) # << >>
         /\ Len(q) \in Nat /\ Len(Append(q, e)) = Len(q) + 1
         /\ \A j \in 1 .. Len(q) : Append(q, e)[j] = q[j]
         /\ Append(q, e)[Len(q) + 1] = e
BY AppendProperties, LenProperties, EmptySeq

\* What a read takes from it.
LEMMA TailMsg ==
  ASSUME NEW q \in Seq(Msg), q # << >>
  PROVE  /\ Head(q) = q[1] /\ Head(q) \in Msg
         /\ Tail(q) \in Seq(Msg)
         /\ Len(q) \in Nat \ {0} /\ Len(Tail(q)) = Len(q) - 1
         /\ \A j \in 1 .. Len(q) - 1 : Tail(q)[j] = q[j + 1]
<1>1. /\ Head(q) \in Msg /\ Tail(q) \in Seq(Msg) /\ Len(Tail(q)) = Len(q) - 1
      /\ \A j \in 1 .. Len(Tail(q)) : Tail(q)[j] = q[j + 1]
  BY HeadTailProperties
<1>2. Len(q) \in Nat \ {0}
  BY EmptySeq
<1>3. Head(q) = q[1]
  BY <1>2
<1>. QED BY <1>1, <1>2, <1>3

\* One message.
LEMMA OneMsg ==
  ASSUME NEW e
  PROVE  /\ Append(<< >>, e) = <<e>> /\ <<e>> # << >>
         /\ Head(<<e>>) = e /\ Tail(<<e>>) = << >>
OBVIOUS

\* A queue without a version stays so, whatever is read, and a message written.
LEMMA FreeMsg ==
  ASSUME NEW q \in Seq(Msg), VersionFree(q)
  PROVE  /\ VersionFree(Append(q, "message"))
         /\ q # << >> => VersionFree(Tail(q)) /\ Head(q) = "message"
<1>1. VersionFree(Append(q, "message"))
  BY AppendMsg DEF VersionFree, Msg
<1>2. ASSUME q # << >> PROVE VersionFree(Tail(q)) /\ Head(q) = "message"
  BY <1>2, TailMsg DEF VersionFree, Msg
<1>. QED BY <1>1, <1>2

\* The empty queue has none.
LEMMA FreeEmpty == VersionFree(<< >>)
BY DEF VersionFree

\* A message written behind others leaves the first one where it is.
LEMMA HeadStays ==
  ASSUME NEW q \in Seq(Msg), q # << >>, VersionFree(Tail(q))
  PROVE  /\ Head(Append(q, "message")) = Head(q)
         /\ VersionFree(Tail(Append(q, "message")))
<1> DEFINE r == Append(q, "message")
<1>1. r \in Seq(Msg) /\ r # << >> /\ Len(r) = Len(q) + 1 /\ Len(q) \in Nat \ {0}
  BY AppendMsg, TailMsg DEF Msg
<1>2. /\ \A j \in 1 .. Len(q) : r[j] = q[j]
      /\ r[Len(q) + 1] = "message"
  BY AppendMsg DEF Msg
<1>3. Head(q) = q[1] /\ \A j \in 1 .. Len(q) - 1 : Tail(q)[j] = q[j + 1]
  BY TailMsg
<1>4. Head(r) = r[1] /\ Len(Tail(r)) = Len(r) - 1
      /\ \A j \in 1 .. Len(r) - 1 : Tail(r)[j] = r[j + 1]
  BY <1>1, TailMsg
<1>5. Len(Tail(q)) = Len(q) - 1
  BY TailMsg
<1> HIDE DEF r
<1>6. \A j \in 1 .. Len(q) - 1 : q[j + 1] # "version"
  BY <1>3, <1>5 DEF VersionFree
<1>7. VersionFree(Tail(r))
  BY <1>1, <1>2, <1>4, <1>6 DEF VersionFree
<1>. QED BY <1>1, <1>2, <1>3, <1>4, <1>7 DEF r

-----------------------------------------------------------------------------
(***************************************************************************)
(* Why the two sides stay aligned: where Run is says what is under way on  *)
(* a websocket that is open.                                               *)
(***************************************************************************)
TypeOK ==
  /\ server \in Servers
  /\ keyOK \in BOOLEAN
  /\ nums \in Int /\ nums <= N
  /\ main \in {"preRun", "dial", "write", "read", "check", "run", "exit"}
  /\ main = "preRun" => at = 1
  /\ main \notin {"preRun", "exit"} => at <= nums
  /\ at \in Chans
  /\ up \in [Chans -> {"none", "open", "closed"}]
  /\ stuck \subseteq Chans
  /\ c2s \in [Chans -> Seq({"version", "message"})]
  /\ s2c \in [Chans -> Seq({"version", "message"})]
  /\ handler \in [Chans -> {"none", "readVersion", "sendVersion", "newHub", "serve",
                            "closeHub", "removeHub", "end"}]
  /\ hubs \subseteq Chans
  /\ served \in BOOLEAN

\* Nothing has been written to websocket c.
Unused(c) == handler[c] = "none" /\ c2s[c] = << >> /\ s2c[c] = << >>
Silent(c) == handler[c] = "readVersion" /\ c2s[c] = << >> /\ s2c[c] = << >>

\* The client has written its version and waits for the server's.
Asked(c) ==
  \/ handler[c] = "readVersion" /\ c2s[c] = <<"version">> /\ s2c[c] = << >>
  \/ handler[c] = "sendVersion" /\ c2s[c] = << >> /\ s2c[c] = << >>
  \/ /\ handler[c] \in {"newHub", "serve"}
     /\ c2s[c] = << >>
     /\ s2c[c] # << >> /\ Head(s2c[c]) = "version" /\ VersionFree(Tail(s2c[c]))

\* Both versions have been read.
Spoken(c) ==
  /\ handler[c] \in {"newHub", "serve"}
  /\ VersionFree(c2s[c]) /\ VersionFree(s2c[c])

\* What is left on a websocket that is down.
Left(c) ==
  /\ handler[c] = "readVersion" /\ c2s[c] # << >> =>
       Head(c2s[c]) = "version" /\ VersionFree(Tail(c2s[c]))
  /\ handler[c] \in {"sendVersion", "newHub", "serve"} => VersionFree(c2s[c])

\* The websockets that the loop at hand has dealt with.
Dialled(c) ==
  \/ main \in {"write", "read", "check", "run"} /\ c <= nums
  \/ main = "dial" /\ c < at

Exchanged(c) ==
  \/ main \in {"check", "run"}
  \/ main \in {"write", "read"} /\ c < at

\* A websocket that is open: where Run is says what is under way on it.
Open(c) ==
  /\ Dialled(c)
  /\ Exchanged(c) => Spoken(c)
  /\ main = "read" /\ c = at => Asked(c)
  /\ ~Exchanged(c) /\ ~(main = "read" /\ c = at) => Silent(c)

Conversation ==
  \A c \in Chans :
    /\ main \in {"preRun", "dial"} /\ ~Dialled(c) => up[c] = "none"
    /\ up[c] = "none" => Unused(c)
    /\ up[c] = "open" => Open(c)
    /\ up[c] = "closed" => Left(c)

\* Who gets as far as the server's loop.
Admitted ==
  /\ \A c \in Chans : handler[c] # "none" => keyOK
  /\ hubs # {} => keyOK
  /\ main = "run" => Compatible
  /\ \A c \in Chans : \A j \in 1 .. Len(c2s[c]) : c2s[c][j] = "message" => Compatible
  /\ served => keyOK /\ Compatible

StartupInv == TypeOK /\ Conversation /\ Admitted

-----------------------------------------------------------------------------
(* Types.                                                                  *)

\* Every step keeps the types, and Run's loops stay within the websockets.
LEMMA TypeStep == TypeOK /\ [Next]_vars => TypeOK'
<1> SUFFICES ASSUME TypeOK, [Next]_vars PROVE TypeOK'
  OBVIOUS
<1>. USE StartupAssumption DEF TypeOK, Chans
<1>1. CASE PreRun
  BY <1>1 DEF PreRun, netVars
<1>2. CASE Dial
  BY <1>2, SMTT(30) DEF Dial
<1>3. CASE DialFails
  BY <1>3, Zenon DEF DialFails
<1>4. CASE WriteVersion
  BY <1>4, AppendMsg DEF WriteVersion, netVars, Msg
<1>5. CASE ReadVersion
  BY <1>5, TailMsg, SMTT(30) DEF ReadVersion, AfterExchange, netVars, Msg
<1>6. CASE ExchangeFails
  BY <1>6, SMTT(30) DEF ExchangeFails, AfterExchange, Leave
<1>7. CASE CheckVersion
  BY <1>7 DEF CheckVersion, Leave
<1>8. CASE ClientEnds \/ Crash
  BY <1>8, Zenon DEF ClientEnds, Crash, Leave
<1>9. ASSUME NEW c \in Chans, ClientSend(c) \/ ServerSend(c) \/ SendVersion(c)
      PROVE TypeOK'
  <2>1. \A e \in Msg : Append(c2s[c], e) \in Seq(Msg) /\ Append(s2c[c], e) \in Seq(Msg)
    BY AppendMsg DEF Msg
  <2>2. CASE ClientSend(c)
    BY <2>1, <2>2 DEF ClientSend, clientVars, netVars, Msg
  <2>3. CASE ServerSend(c)
    BY <2>1, <2>3 DEF ServerSend, clientVars, netVars, Msg
  <2>4. CASE SendVersion(c)
    BY <2>1, <2>4 DEF SendVersion, clientVars, netVars, Msg
  <2>. QED BY <1>9, <2>2, <2>3, <2>4, Zenon
<1>10. ASSUME NEW c \in Chans, ClientReceive(c) \/ ReadClientVersion(c) \/ Dispatch(c)
      PROVE TypeOK'
  <2>1. /\ c2s[c] # << >> => Tail(c2s[c]) \in Seq(Msg)
        /\ s2c[c] # << >> => Tail(s2c[c]) \in Seq(Msg)
    BY TailMsg DEF Msg
  <2>2. CASE ClientReceive(c)
    BY <2>1, <2>2, Zenon DEF ClientReceive, clientVars, netVars, Msg
  <2>3. CASE ReadClientVersion(c)
    BY <2>1, <2>3 DEF ReadClientVersion, clientVars, netVars, Msg
  <2>4. CASE Dispatch(c)
    BY <2>1, <2>4 DEF Dispatch, clientVars, netVars, Msg
  <2>. QED BY <1>10, <2>2, <2>3, <2>4, Zenon
<1>11. ASSUME NEW c \in Chans, NewHub(c) \/ Lose(c) \/ CloseHub(c) \/ RemoveHub(c)
      PROVE TypeOK'
  BY <1>11, Zenon DEF NewHub, Lose, AfterLoss, CloseHub, RemoveHub, clientVars, netVars
<1>12. ASSUME NEW c \in Chans, Break(c) \/ Stick(c)
      PROVE TypeOK'
  BY <1>12, Zenon DEF Break, Stick, clientVars
<1>13. CASE UNCHANGED vars
  BY <1>13 DEF vars, clientVars, netVars
<1>. QED
  BY <1>1, <1>2, <1>3, <1>4, <1>5, <1>6, <1>7, <1>8, <1>9, <1>10, <1>11, <1>12, <1>13, Zenon
     DEF Next, StartStep, HandlerStep

-----------------------------------------------------------------------------
(* What is under way.                                                      *)

\* A websocket that goes down leaves what Left allows.
LEMMA OpenIsLeft ==
  ASSUME NEW c \in Chans, TypeOK, Open(c)
  PROVE  Left(c)
<1>1. /\ <<"version">> # << >> /\ Head(<<"version">>) = "version"
      /\ Tail(<<"version">>) = << >> /\ VersionFree(<< >>)
  BY OneMsg, FreeEmpty
<1>. QED BY <1>1, Zenon DEF Open, Left, Spoken, Asked, Silent

\* Per websocket, what a step of Run on another websocket keeps.
Kept(c) == UNCHANGED <<up[c], handler[c], c2s[c], s2c[c]>>

\* Every step keeps the conversation on every websocket in order.
LEMMA ConversationStep ==
  ASSUME TypeOK, Conversation, [Next]_vars
  PROVE  Conversation'
<1>. USE StartupAssumption
<1> DEFINE Talk(c) ==
      /\ main \in {"preRun", "dial"} /\ ~Dialled(c) => up[c] = "none"
      /\ up[c] = "none" => Unused(c)
      /\ up[c] = "open" => Open(c)
      /\ up[c] = "closed" => Left(c)
<1>a. \A c \in Chans : Talk(c)
  BY DEF Conversation
<1>b. \A c \in Chans : up[c] = "open" => Left(c)
  BY <1>a, OpenIsLeft
<1>c. ASSUME NEW c \in Chans
      PROVE  /\ c2s[c] \in Seq(Msg) /\ s2c[c] \in Seq(Msg)
             /\ up[c] \in {"none", "open", "closed"}
  BY DEF TypeOK, Msg
<1>d. /\ at \in Nat /\ nums \in Int /\ \A c \in Chans : c \in Nat
      /\ main \notin {"preRun", "exit"} => at <= nums
  <2>1. /\ at \in Chans /\ nums \in Int
        /\ main \notin {"preRun", "exit"} => at <= nums
    BY DEF TypeOK
  <2>. QED BY <2>1 DEF Chans
<1>1. CASE PreRun
  BY <1>1, <1>a DEF Conversation, PreRun, netVars, Dialled, Exchanged, TypeOK, Open, Unused,
     Left, Chans
<1>2. CASE Dial
  <2> SUFFICES ASSUME NEW c \in Chans PROVE Talk(c)'
    BY DEF Conversation
  <2>1. CASE c = at
    <3>1. up[c] = "none" /\ Unused(c)
      BY <1>2, <1>a, <2>1 DEF Dial, Dialled, TypeOK, Chans
    <3>2. /\ up'[c] = "open" /\ handler'[c] = "readVersion"
          /\ c2s'[c] = << >> /\ s2c'[c] = << >>
      BY <1>2, <2>1, <3>1 DEF Dial, TypeOK, Unused
    <3>3. Dialled(c)' /\ ~Exchanged(c)' /\ main' # "read"
      <4>1. /\ main = "dial" /\ nums' = nums
            /\ IF at = nums THEN main' = "write" /\ at' = 1 ELSE at' = at + 1 /\ main' = main
        BY <1>2 DEF Dial
      <4>. QED BY <1>d, <2>1, <4>1 DEF Dialled, Exchanged, Chans
    <3>. QED BY <3>2, <3>3 DEF Open, Silent
  <2>2. CASE c # at
    <3>1. Kept(c)
      BY <1>2, <2>2 DEF Dial, TypeOK, Kept
    <3>2. /\ Dialled(c) => Dialled(c)'
          /\ main' \in {"preRun", "dial"} /\ ~Dialled(c)' => ~Dialled(c)
          /\ main = "dial" /\ ~Exchanged(c) /\ ~Exchanged(c)' /\ main' # "read"
      <4>1. /\ main = "dial" /\ nums' = nums
            /\ IF at = nums THEN main' = "write" /\ at' = 1 ELSE at' = at + 1 /\ main' = main
        BY <1>2 DEF Dial
      <4>. QED BY <1>d, <2>2, <4>1 DEF Dialled, Exchanged, Chans
    <3>. QED BY <1>a, <3>1, <3>2 DEF Kept, Open, Silent, Unused, Left
  <2>. QED BY <2>1, <2>2
<1>3. CASE DialFails
  <2> SUFFICES ASSUME NEW c \in Chans PROVE Talk(c)'
    BY DEF Conversation
  <2>1. CASE c = at
    <3>1. up[c] = "none" /\ Unused(c)
      BY <1>3, <1>a, <2>1 DEF DialFails, Dialled, TypeOK, Chans
    <3>2. /\ up'[c] = "closed" /\ c2s'[c] = << >> /\ main' = "exit"
      BY <1>3, <2>1, <3>1 DEF DialFails, TypeOK, Unused
    <3>. QED BY <3>2, FreeEmpty DEF Left
  <2>2. CASE c # at
    BY <1>3, <1>a, <1>b, <2>2, Zenon DEF DialFails, Dialled, TypeOK, Unused, Left, Chans
  <2>. QED BY <2>1, <2>2
<1>4. CASE WriteVersion
  <2> SUFFICES ASSUME NEW c \in Chans PROVE Talk(c)'
    BY DEF Conversation
  <2>1. Append(<< >>, "version") = <<"version">>
    BY OneMsg
  <2>2. CASE c = at
    <3>1. up[c] = "open" /\ Dialled(c) /\ Silent(c)
      BY <1>4, <1>a, <2>2 DEF WriteVersion, Open, Exchanged, TypeOK, Chans
    <3>2. /\ up'[c] = "open" /\ handler'[c] = "readVersion"
          /\ c2s'[c] = <<"version">> /\ s2c'[c] = << >>
      BY <1>4, <2>1, <2>2, <3>1 DEF WriteVersion, TypeOK, Silent, netVars
    <3>3. Dialled(c)' /\ ~Exchanged(c)' /\ main' = "read" /\ at' = at
      BY <1>4, <2>2, <3>1 DEF WriteVersion, Dialled, Exchanged, TypeOK, Chans
    <3>. QED BY <2>2, <3>2, <3>3 DEF Open, Asked
  <2>3. CASE c # at
    BY <1>4, <1>a, <2>3 DEF WriteVersion, Dialled, Exchanged, TypeOK, Open, Silent, Spoken,
       Unused, Left, netVars
  <2>. QED BY <2>2, <2>3
<1>5. CASE ReadVersion
  <2> SUFFICES ASSUME NEW c \in Chans PROVE Talk(c)'
    BY DEF Conversation
  <2>1. VersionFree(<< >>)
    BY FreeEmpty, Zenon
  <2>2. CASE c = at
    <3>1. up[c] = "open" /\ Dialled(c) /\ Asked(c) /\ s2c[c] # << >>
      BY <1>5, <1>a, <2>2 DEF ReadVersion, Open
    <3>2. /\ handler[c] \in {"newHub", "serve"} /\ c2s[c] = << >>
          /\ VersionFree(Tail(s2c[c]))
      BY <3>1 DEF Asked
    <3>3. /\ up'[c] = "open" /\ handler'[c] = handler[c]
          /\ c2s'[c] = << >> /\ s2c'[c] = Tail(s2c[c])
      BY <1>5, <2>2, <3>1, <3>2 DEF ReadVersion, TypeOK, netVars
    <3>4. Dialled(c)' /\ Exchanged(c)' /\ main' # "read"
      <4>1. /\ main = "read" /\ nums' = nums
            /\ IF at < nums THEN main' = "write" /\ at' = at + 1 ELSE main' = "check" /\ at' = at
        BY <1>5 DEF ReadVersion, AfterExchange
      <4>. QED BY <1>d, <2>2, <3>1, <4>1 DEF Dialled, Exchanged
    <3>. QED BY <2>1, <3>2, <3>3, <3>4 DEF Open, Spoken
  <2>3. CASE c # at
    <3>1. Kept(c)
      BY <1>5, <2>3 DEF ReadVersion, TypeOK, Kept, netVars
    <3>2. /\ Dialled(c) <=> Dialled(c)'
          /\ Dialled(c) => (Exchanged(c) <=> Exchanged(c)')
          /\ main' \in {"write", "check"}
      <4>1. /\ main = "read" /\ nums' = nums
            /\ IF at < nums THEN main' = "write" /\ at' = at + 1 ELSE main' = "check" /\ at' = at
        BY <1>5 DEF ReadVersion, AfterExchange
      <4>. QED BY <1>d, <2>3, <4>1 DEF Dialled, Exchanged
    <3>3. ~(main = "read" /\ c = at)
      BY <2>3
    <3>. QED BY <1>a, <3>1, <3>2, <3>3 DEF Kept, Open, Silent, Spoken, Unused, Left
  <2>. QED BY <2>2, <2>3
<1>6. CASE ExchangeFails
  <2> SUFFICES ASSUME NEW c \in Chans PROVE Talk(c)'
    BY DEF Conversation
  <2>1. CASE at = 1
    BY <1>6, <1>a, <1>b, <2>1 DEF ExchangeFails, Leave, TypeOK, Unused, Left
  <2>2. CASE at # 1 /\ c = at
    <3>1. Left(c)
      BY <1>a, <1>b, <1>c DEF Unused, Left
    <3>2. /\ up'[c] = "closed" /\ UNCHANGED <<handler, c2s>>
          /\ main' \in {"write", "check"}
      BY <1>6, <2>2 DEF ExchangeFails, AfterExchange, TypeOK
    <3>. QED BY <3>1, <3>2 DEF Left
  <2>3. CASE at # 1 /\ c # at
    <3>1. Kept(c)
      BY <1>6, <2>3 DEF ExchangeFails, TypeOK, Kept, netVars
    <3>2. /\ Dialled(c) <=> Dialled(c)'
          /\ Dialled(c) => (Exchanged(c) <=> Exchanged(c)')
          /\ main' \in {"write", "check"}
      <4>1. /\ main \in {"write", "read"} /\ nums' = nums
            /\ IF at < nums THEN main' = "write" /\ at' = at + 1 ELSE main' = "check" /\ at' = at
        BY <1>6, <2>3 DEF ExchangeFails, AfterExchange
      <4>. QED BY <1>d, <2>3, <4>1 DEF Dialled, Exchanged
    <3>3. ~(main = "read" /\ c = at)
      BY <2>3
    <3>. QED BY <1>a, <3>1, <3>2, <3>3 DEF Kept, Open, Silent, Spoken, Unused, Left
  <2>. QED BY <2>1, <2>2, <2>3
<1>7. CASE CheckVersion
  <2>1. CASE Compatible
    BY <1>7, <1>a, <2>1 DEF Conversation, CheckVersion, Dialled, Exchanged, TypeOK, Open,
       Spoken, Unused, Left
  <2>2. CASE ~Compatible
    BY <1>7, <1>a, <1>b, <2>2 DEF Conversation, CheckVersion, Leave, TypeOK, Unused, Left
  <2>. QED BY <2>1, <2>2
<1>8. CASE ClientEnds \/ Crash
  BY <1>8, <1>a, <1>b DEF Conversation, ClientEnds, Crash, Leave, TypeOK, Unused, Left
<1>9. ASSUME NEW d \in Chans, ClientSend(d) PROVE Conversation'
  <2> SUFFICES ASSUME NEW c \in Chans PROVE Talk(c)'
    BY DEF Conversation
  <2>1. CASE c = d
    <3>1. VersionFree(c2s[c]) => VersionFree(Append(c2s[c], "message"))
      BY <1>c, FreeMsg
    <3>2. up[c] = "open" /\ Dialled(c) /\ Exchanged(c) /\ Spoken(c) /\ main = "run"
      BY <1>9, <1>a, <2>1 DEF ClientSend, Open, Exchanged
    <3>3. /\ up'[c] = "open" /\ handler'[c] = handler[c]
          /\ c2s'[c] = Append(c2s[c], "message") /\ s2c'[c] = s2c[c]
      BY <1>9, <2>1, <3>2 DEF ClientSend, TypeOK, netVars
    <3>4. Dialled(c)' /\ Exchanged(c)' /\ main' = "run"
      BY <1>9, <3>2 DEF ClientSend, Dialled, Exchanged, clientVars
    <3>. QED BY <3>1, <3>2, <3>3, <3>4 DEF Open, Spoken
  <2>2. CASE c # d
    BY <1>9, <1>a, <2>2, Zenon DEF ClientSend, TypeOK, clientVars, netVars, Open, Dialled,
       Exchanged, Spoken, Asked, Silent, Unused, Left
  <2>. QED BY <2>1, <2>2
<1>10. ASSUME NEW d \in Chans, ClientReceive(d) PROVE Conversation'
  <2> SUFFICES ASSUME NEW c \in Chans PROVE Talk(c)'
    BY DEF Conversation
  <2>1. CASE c = d
    <3>1. up[c] = "open" /\ Spoken(c) /\ s2c[c] # << >>
      BY <1>10, <1>a, <2>1 DEF ClientReceive, Open, Exchanged
    <3>2. VersionFree(Tail(s2c[c]))
      BY <1>c, <3>1, FreeMsg DEF Spoken
    <3>3. /\ up'[c] = "open" /\ handler'[c] = handler[c] /\ UNCHANGED <<main, at, nums>>
          /\ c2s'[c] = c2s[c] /\ s2c'[c] = Tail(s2c[c])
      BY <1>10, <2>1, <3>1 DEF ClientReceive, TypeOK, netVars, clientVars
    <3>4. Dialled(c)' /\ Exchanged(c)' /\ main' = "run"
      BY <1>10, <1>a, <3>1, <3>3, Zenon DEF ClientReceive, Open, Dialled, Exchanged
    <3>. QED BY <3>1, <3>2, <3>3, <3>4 DEF Open, Spoken
  <2>2. CASE c # d
    BY <1>10, <1>a, <2>2, Zenon DEF ClientReceive, TypeOK, clientVars, netVars, Open, Dialled,
       Exchanged, Spoken, Asked, Silent, Unused, Left
  <2>. QED BY <2>1, <2>2
<1>11. ASSUME NEW d \in Chans, ReadClientVersion(d) PROVE Conversation'
  <2> SUFFICES ASSUME NEW c \in Chans PROVE Talk(c)'
    BY DEF Conversation
  <2>1. CASE c = d
    <3>1. c2s[c] # << >> /\ handler[c] = "readVersion" /\ up[c] # "none"
      BY <1>11, <1>a, <2>1 DEF ReadClientVersion, Unused
    <3>2. /\ up'[c] = up[c] /\ handler'[c] = "sendVersion" /\ UNCHANGED <<main, at, nums>>
          /\ c2s'[c] = Tail(c2s[c]) /\ s2c'[c] = s2c[c]
      BY <1>11, <2>1 DEF ReadClientVersion, TypeOK, netVars, clientVars
    <3>3. CASE up[c] = "closed"
      BY <1>a, <3>1, <3>2, <3>3 DEF Left, Dialled
    <3>4. CASE up[c] = "open"
      <4>1. Dialled(c) /\ main = "read" /\ c = at /\ c2s[c] = <<"version">> /\ s2c[c] = << >>
        BY <1>a, <3>1, <3>4, Zenon DEF Open, Spoken, Asked, Silent
      <4>2. Tail(c2s[c]) = << >>
        BY <4>1, OneMsg, Zenon
      <4>3. Dialled(c)' /\ ~Exchanged(c)
        BY <3>2, <4>1 DEF Dialled, Exchanged, TypeOK, Chans
      <4>. QED BY <3>2, <3>4, <4>1, <4>2, <4>3, Zenon DEF Open, Asked, Exchanged
    <3>. QED BY <1>c, <3>1, <3>3, <3>4, Zenon
  <2>2. CASE c # d
    BY <1>11, <1>a, <2>2, Zenon DEF ReadClientVersion, TypeOK, clientVars, netVars, Open, Dialled,
       Exchanged, Spoken, Asked, Silent, Unused, Left
  <2>. QED BY <2>1, <2>2
<1>12. ASSUME NEW d \in Chans, SendVersion(d) PROVE Conversation'
  <2> SUFFICES ASSUME NEW c \in Chans PROVE Talk(c)'
    BY DEF Conversation
  <2>1. CASE c = d
    <3>1. up[c] = "open" /\ handler[c] = "sendVersion"
      BY <1>12, <2>1 DEF SendVersion
    <3>2. /\ Dialled(c) /\ ~Exchanged(c) /\ main = "read" /\ c = at
          /\ c2s[c] = << >> /\ s2c[c] = << >>
      BY <1>a, <3>1 DEF Open, Spoken, Asked, Silent
    <3>3. /\ up'[c] = "open" /\ handler'[c] = "newHub" /\ UNCHANGED <<main, at, nums>>
          /\ c2s'[c] = << >> /\ s2c'[c] = <<"version">>
      BY <1>12, <2>1, <3>1, <3>2, OneMsg DEF SendVersion, TypeOK, netVars, clientVars
    <3>4. /\ s2c'[c] # << >> /\ Head(s2c'[c]) = "version" /\ VersionFree(Tail(s2c'[c]))
      BY <3>3, OneMsg, FreeEmpty
    <3>5. Dialled(c)' /\ ~Exchanged(c)'
      BY <3>2, <3>3 DEF Dialled, Exchanged
    <3>. QED BY <3>2, <3>3, <3>4, <3>5, Zenon DEF Open, Asked
  <2>2. CASE c # d
    BY <1>12, <1>a, <2>2, Zenon DEF SendVersion, TypeOK, clientVars, netVars, Open, Dialled,
       Exchanged, Spoken, Asked, Silent, Unused, Left
  <2>. QED BY <2>1, <2>2
<1>13. ASSUME NEW d \in Chans, NewHub(d) PROVE Conversation'
  <2> SUFFICES ASSUME NEW c \in Chans PROVE Talk(c)'
    BY DEF Conversation
  <2>1. CASE c = d
    <3>1. handler[c] = "newHub" /\ up[c] # "none"
      BY <1>13, <1>a, <2>1 DEF NewHub, Unused
    <3>2. /\ up'[c] = up[c] /\ handler'[c] = "serve" /\ UNCHANGED <<main, at, nums>>
          /\ c2s'[c] = c2s[c] /\ s2c'[c] = s2c[c]
      BY <1>13, <2>1 DEF NewHub, TypeOK, netVars, clientVars
    <3>. QED BY <1>a, <3>1, <3>2, Zenon DEF Open, Dialled, Exchanged, Spoken, Asked, Silent, Left
  <2>2. CASE c # d
    BY <1>13, <1>a, <2>2, Zenon DEF NewHub, TypeOK, clientVars, netVars, Open, Dialled,
       Exchanged, Spoken, Asked, Silent, Unused, Left
  <2>. QED BY <2>1, <2>2
<1>14. ASSUME NEW d \in Chans, Dispatch(d) PROVE Conversation'
  <2> SUFFICES ASSUME NEW c \in Chans PROVE Talk(c)'
    BY DEF Conversation
  <2>1. CASE c = d
    <3>1. handler[c] = "serve" /\ c2s[c] # << >> /\ up[c] # "none"
      BY <1>14, <1>a, <2>1 DEF Dispatch, Unused
    <3>2. /\ up'[c] = up[c] /\ handler'[c] = "serve" /\ UNCHANGED <<main, at, nums>>
          /\ c2s'[c] = Tail(c2s[c]) /\ s2c'[c] = s2c[c]
      BY <1>14, <2>1 DEF Dispatch, TypeOK, netVars, clientVars
    <3>3. VersionFree(c2s[c]) => VersionFree(Tail(c2s[c]))
      BY <1>c, <3>1, FreeMsg
    <3>. QED BY <1>a, <3>1, <3>2, <3>3, Zenon DEF Open, Dialled, Exchanged,
                                               Spoken, Asked, Silent, Left
  <2>2. CASE c # d
    BY <1>14, <1>a, <2>2, Zenon DEF Dispatch, TypeOK, clientVars, netVars, Open, Dialled,
       Exchanged, Spoken, Asked, Silent, Unused, Left
  <2>. QED BY <2>1, <2>2
<1>15. ASSUME NEW d \in Chans, ServerSend(d) PROVE Conversation'
  <2> SUFFICES ASSUME NEW c \in Chans PROVE Talk(c)'
    BY DEF Conversation
  <2>1. CASE c = d
    <3>1. handler[c] = "serve" /\ up[c] = "open"
      BY <1>15, <2>1 DEF ServerSend
    <3>2. /\ up'[c] = "open" /\ handler'[c] = "serve" /\ UNCHANGED <<main, at, nums>>
          /\ c2s'[c] = c2s[c] /\ s2c'[c] = Append(s2c[c], "message")
      BY <1>15, <2>1 DEF ServerSend, TypeOK, netVars, clientVars
    <3>3. VersionFree(s2c[c]) => VersionFree(s2c'[c])
      BY <1>c, <3>2, FreeMsg
    <3>4. ASSUME s2c[c] # << >>, VersionFree(Tail(s2c[c]))
          PROVE  s2c'[c] # << >> /\ Head(s2c'[c]) = Head(s2c[c]) /\ VersionFree(Tail(s2c'[c]))
      BY <1>c, <3>2, <3>4, HeadStays, AppendMsg DEF Msg
    <3>5. (Dialled(c) <=> Dialled(c)') /\ (Exchanged(c) <=> Exchanged(c)')
      BY <3>2 DEF Dialled, Exchanged
    <3>6. Open(c)
      BY <1>a, <3>1
    <3>7. Spoken(c) => Spoken(c)'
      BY <3>1, <3>2, <3>3 DEF Spoken
    <3>8. Asked(c) => Asked(c)'
      BY <3>1, <3>2, <3>4 DEF Asked
    <3>. QED BY <3>1, <3>2, <3>5, <3>6, <3>7, <3>8 DEF Open, Silent
  <2>2. CASE c # d
    BY <1>15, <1>a, <2>2, Zenon DEF ServerSend, TypeOK, clientVars, netVars, Open, Dialled,
       Exchanged, Spoken, Asked, Silent, Unused, Left
  <2>. QED BY <2>1, <2>2
<1>16. ASSUME NEW d \in Chans, Lose(d) \/ CloseHub(d) \/ RemoveHub(d) PROVE Conversation'
  <2> SUFFICES ASSUME NEW c \in Chans PROVE Talk(c)'
    BY DEF Conversation
  <2>1. CASE c = d
    <3>1. up[c] = "closed"
      BY <1>16, <1>a, <1>c, <2>1
         DEF Lose, CloseHub, RemoveHub, Unused, Open, Spoken, Asked, Silent
    <3>2. /\ up'[c] = "closed"
          /\ handler'[c] \notin {"readVersion", "sendVersion", "newHub", "serve"}
          /\ UNCHANGED <<main, at, nums>>
      BY <1>16, <2>1, <3>1
         DEF Lose, AfterLoss, CloseHub, RemoveHub, TypeOK, netVars, clientVars
    <3>. QED BY <1>a, <3>1, <3>2 DEF Left, Dialled
  <2>2. CASE c # d
    <3>1. Kept(c) /\ UNCHANGED <<main, at, nums>>
      BY <1>16, <2>2 DEF Lose, CloseHub, RemoveHub, TypeOK, netVars, clientVars, Kept
    <3>. QED BY <1>a, <3>1 DEF Kept, Open, Dialled, Exchanged, Spoken, Asked, Silent, Unused, Left
  <2>. QED BY <2>1, <2>2
<1>17. ASSUME NEW d \in Chans, Break(d) \/ Stick(d) PROVE Conversation'
  <2> SUFFICES ASSUME NEW c \in Chans PROVE Talk(c)'
    BY DEF Conversation
  <2>1. UNCHANGED <<main, at, nums, handler, c2s, s2c>>
    BY <1>17 DEF Break, Stick, clientVars
  <2>2. up'[c] = up[c] \/ (up[c] = "open" /\ up'[c] = "closed")
    BY <1>17, Zenon DEF Break, Stick, TypeOK
  <2>. QED
    BY <1>a, <1>b, <2>1, <2>2
       DEF Open, Dialled, Exchanged, Spoken, Asked, Silent, Unused, Left
<1>18. CASE UNCHANGED vars
  BY <1>a, <1>18 DEF vars, netVars, clientVars, Conversation, Open, Dialled, Exchanged, Spoken,
     Asked, Silent, Unused, Left
<1>. QED
  BY <1>1, <1>2, <1>3, <1>4, <1>5, <1>6, <1>7, <1>8, <1>9, <1>10, <1>11, <1>12, <1>13, <1>14,
     <1>15, <1>16, <1>17, <1>18 DEF Next, StartStep, HandlerStep

-----------------------------------------------------------------------------
(* Who is served.                                                          *)

\* What the server's loop reads next is a message.
LEMMA NextIsMessage ==
  ASSUME TypeOK, Conversation, NEW c \in Chans, handler[c] = "serve", c2s[c] # << >>
  PROVE  1 \in 1 .. Len(c2s[c]) /\ c2s[c][1] = "message"
<1>1. c2s[c] \in Seq(Msg) /\ up[c] \in {"none", "open", "closed"}
  BY DEF TypeOK, Msg
<1>2. VersionFree(c2s[c])
  BY <1>1 DEF Conversation, Unused, Open, Spoken, Asked, Silent, Left
<1>. QED BY <1>1, <1>2, FreeMsg, TailMsg

\* Every step keeps Admitted.
LEMMA AdmittedStep ==
  ASSUME TypeOK, Conversation, Admitted, [Next]_vars
  PROVE  Admitted'
<1>a. ASSUME NEW c \in Chans PROVE c2s[c] \in Seq(Msg)
  BY DEF TypeOK, Msg
<1>1. CASE PreRun \/ DialFails \/ Dial \/ CheckVersion \/ ClientEnds \/ Crash \/ ExchangeFails
  BY <1>1 DEF Admitted, TypeOK, PreRun, Dial, DialFails, CheckVersion, ClientEnds, Crash,
     ExchangeFails, AfterExchange, Leave, Compatible
<1>2. CASE WriteVersion
  <2>1. \A j \in 1 .. Len(Append(c2s[at], "version")) :
          Append(c2s[at], "version")[j] = "message" => Compatible
    <3>1. at \in Chans /\ c2s[at] \in Seq(Msg)
      BY <1>a DEF TypeOK
    <3>2. \A j \in 1 .. Len(c2s[at]) : c2s[at][j] = "message" => Compatible
      BY <3>1 DEF Admitted
    <3>. QED BY <3>1, <3>2, AppendMsg DEF Msg
  <2>. QED BY <1>2, <2>1, Zenon DEF Admitted, TypeOK, WriteVersion, Compatible
<1>3. CASE ReadVersion
  BY <1>3 DEF Admitted, ReadVersion, AfterExchange, Compatible
<1>4. ASSUME NEW d \in Chans, ClientSend(d) PROVE Admitted'
  BY <1>4, <1>a DEF Admitted, TypeOK, ClientSend, Compatible, clientVars
<1>5. ASSUME NEW d \in Chans, ReadClientVersion(d) \/ Dispatch(d) PROVE Admitted'
  <2>1. \A j \in 1 .. Len(Tail(c2s[d])) : Tail(c2s[d])[j] = "message" => Compatible
    <3>1. c2s[d] \in Seq(Msg) /\ c2s[d] # << >>
      BY <1>5, <1>a DEF ReadClientVersion, Dispatch
    <3>. QED BY <3>1, TailMsg DEF Admitted
  <2>2. handler[d] \in {"readVersion", "serve"}
    BY <1>5 DEF ReadClientVersion, Dispatch
  <2>3. Dispatch(d) => Compatible /\ keyOK
    BY NextIsMessage DEF Dispatch, Admitted
  <2>4. CASE ReadClientVersion(d)
    BY <2>1, <2>2, <2>4 DEF Admitted, TypeOK, ReadClientVersion, Compatible, clientVars
  <2>5. CASE Dispatch(d)
    BY <2>1, <2>3, <2>5 DEF Admitted, TypeOK, Dispatch, Compatible, clientVars
  <2>. QED BY <1>5, <2>4, <2>5
<1>6. ASSUME NEW d \in Chans,
             \/ ClientReceive(d) \/ SendVersion(d) \/ NewHub(d) \/ ServerSend(d) \/ Lose(d)
             \/ CloseHub(d) \/ RemoveHub(d) \/ Break(d) \/ Stick(d)
      PROVE  Admitted'
  BY <1>6 DEF Admitted, TypeOK, ClientReceive, SendVersion, NewHub, ServerSend, Lose,
     CloseHub, RemoveHub, Break, Stick, Compatible, clientVars
<1>7. CASE UNCHANGED vars
  BY <1>7, Zenon DEF vars, clientVars, Admitted, Compatible
<1>. QED BY <1>1, <1>2, <1>3, <1>4, <1>5, <1>6, <1>7 DEF Next, StartStep, HandlerStep

-----------------------------------------------------------------------------
(* The theorems.                                                           *)

\* Where the client starts.
LEMMA StartupInit == Init => StartupInv
<1> SUFFICES ASSUME Init PROVE StartupInv
  OBVIOUS
<1>1. TypeOK
  <2>1. nums \in Int /\ nums <= N /\ 1 \in Chans
    BY StartupAssumption DEF Init, Chans
  <2>2. c2s \in [Chans -> Seq(Msg)] /\ s2c \in [Chans -> Seq(Msg)]
    BY DEF Init
  <2>. QED BY <2>1, <2>2, Zenon DEF Init, TypeOK, Msg
<1>2. Conversation
  BY StartupAssumption DEF Init, Conversation, Unused, Chans
<1>3. Admitted
  BY DEF Init, Admitted
<1>. QED BY <1>1, <1>2, <1>3 DEF StartupInv

\* The inductive invariant holds in every state of a start.
THEOREM StartupInvariant == Spec => []StartupInv
<1>1. StartupInv /\ [Next]_vars => StartupInv'
  BY TypeStep, ConversationStep, AdmittedStep DEF StartupInv
<1>. QED BY <1>1, StartupInit, PTL DEF Spec

\* NegVersionServer reads a version and nothing else, and neither the loop of
\* ServeHTTP nor ListenIncomeMsg ever reads one, for any number of websockets and
\* whatever fails: the exchange that NegotiateVersion insists on does its work.
THEOREM VersionsAligned == Spec => []Aligned
<1>1. StartupInv => Aligned
  <2> SUFFICES ASSUME StartupInv, NEW c \in Chans
               PROVE  /\ handler[c] = "readVersion" /\ c2s[c] # << >> =>
                           Head(c2s[c]) = "version"
                      /\ handler[c] = "serve" => VersionFree(c2s[c])
                      /\ main = "run" /\ up[c] = "open" => VersionFree(s2c[c])
    BY DEF Aligned
  <2>1. up[c] \in {"none", "open", "closed"} /\ TypeOK /\ Conversation
    BY DEF StartupInv, TypeOK
  <2>2. up[c] = "open" => Left(c)
    BY <2>1, OpenIsLeft DEF Conversation
  <2>3. main = "run" /\ up[c] = "open" => VersionFree(s2c[c])
    BY <2>1 DEF Conversation, Open, Exchanged, Spoken
  <2>. QED BY <2>1, <2>2, <2>3, FreeEmpty DEF Conversation, Unused, Left
<1>. QED BY <1>1, StartupInvariant, PTL

\* The server dispatches messages only of clients that have the key and that its
\* version allows, although it is the client that compares the versions.
THEOREM OnlyCompatibleServed == Spec => []ServesCompatible
<1>1. StartupInv => ServesCompatible
  BY DEF StartupInv, Admitted, ServesCompatible, Compatible
<1>. QED BY <1>1, StartupInvariant, PTL
=============================================================================
