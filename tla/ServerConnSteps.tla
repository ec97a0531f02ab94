-------------------------- MODULE ServerConnSteps ---------------------------
(***************************************************************************)
(* The inductive invariant of ServerConn, and the first part of the proof  *)
(* that every step keeps it, for every number of websockets: the types,    *)
(* the order of the messages on a websocket, who opens the entries of the  *)
(* hubs, and what is still untouched.                                      *)
(***************************************************************************)
EXTENDS ServerConn, SequenceTheorems, FiniteSetTheorems, TLAPS

-----------------------------------------------------------------------------
(***************************************************************************)
(* Why the order of the messages does not matter.  Nothing is removed from *)
(* the hubs before establishProxy has put the connection into the pool, so *)
(* that the Hi of websocket 1, Est and the dial all find the first queue   *)
(* and the first master link.  What the hubs make afterwards is left over  *)
(* from Hi messages that came late.                                        *)
(***************************************************************************)

Msgs == {"hi", "est", "close", "break"}

\* The messages of a websocket: Hi comes first, Est next, and once.
Script(s) ==
  \A i \in 1 .. Len(s) :
    /\ s[i] = "hi" => i = 1
    /\ s[i] = "est" => i = 1 \/ (i = 2 /\ s[1] = "hi")

Has(s, m) == \E i \in 1 .. Len(s) : s[i] = m
HiLeft(c) == Has(inbox[c], "hi")
EstLeft == Has(inbox[1], "est")

\* What the reader of websocket 1 has yet to do with Hi and Est, and where
\* establishProxy is.
Ordered ==
  /\ \A c \in Chans : Script(inbox[c])
  /\ \A c \in Chans : HiLeft(c) => rpc[c] = "idle"
  /\ rpc[1] = "est" => ~HiLeft(1) /\ ~EstLeft
  /\ EstLeft => rpc[1] \in {"idle", "hi"}
  /\ HiLeft(1) \/ rpc[1] = "hi" \/ EstLeft \/ rpc[1] = "est" => ePc = "none"

\* Before the connection is in the pool nobody can close it.
Unpooled == {"none", "dial", "tryLink", "pool"}
Closers == {"removeAll", "remove"}

Opening ==
  /\ ePc \in Unpooled =>
       ~pool /\ ~estClosed /\ rpc[1] \in {"idle", "hi", "est"}
  /\ rpc[1] \in Closers \/ ePc \in Closers => estClosed

\* Before it is closed the hubs hold what they made, one queue and one link.
Held ==
  /\ \A k \in Kinds : cur[k] <= made[k]
  /\ ~estClosed => \A k \in Kinds : cur[k] = made[k] /\ made[k] <= 1

\* Est sets the order of the first queue and of the first link.
Sorting ==
  /\ sorted["queue"] = IF rpc[1] = "est" \/ ePc # "none" THEN {1} ELSE {}
  /\ sorted["link"] = IF ePc # "none" THEN {1} ELSE {}
  /\ \A k \in Kinds : 1 \in sorted[k] => made[k] > 0

\* An entry that is in a hub, or is yet to be made, has not been closed.
Fresh ==
  \A k \in Kinds, g \in Objs :
    /\ closes[k][g] <= 1
    /\ g = cur[k] \/ g > made[k] => closes[k][g] = 0

\* The connection of a link is set, and Send spawned, for the first link only,
\* by TrySend or by the Hi message that is the last one.
LinkStarts ==
  /\ lConn = {} \/ (lConn = {1} /\ ePc \notin {"none", "dial", "tryLink"})
  /\ \A g \in Objs : Spawned("link", g) => g \in lConn
  /\ send["link"][1]["try"] # "none" =>
       counter[1] >= N /\ send["link"][1]["add"] = "none"
  /\ 1 \in lConn /\ counter[1] = N => Spawned("link", 1)

\* The Hi of websocket 1 is with the first queue, and once establish has tried
\* to start that one, it is started with its last Hi message.
QueueStarts ==
  /\ \A g \in Objs : 1 \in writers[g] => g = 1
  /\ ePc = "get" /\ cur["queue"] = 1 /\ writers[1] = Chans => Spawned("queue", 1)
  /\ writer = 1 /\ writers[1] = Chans => Spawned("queue", 1)
  /\ writer # 0 => ePc # "none"

\* Whoever marks the connection as closed removes the first link, with the
\* links of the other websockets, and the first queue.
Removing ==
  /\ conn = "closed" => estClosed \/ ePc = "mark"
  /\ estClosed /\ cur["link"] = 1 => rpc[1] = "removeAll" \/ ePc = "removeAll"
  /\ estClosed /\ cur["queue"] = 1 => rpc[1] \in Closers \/ ePc \in Closers
  /\ cur["link"] = 0 /\ made["link"] <= 1 => children = {}

\* A queue or link beyond the first was made for a Hi message of its own.
Pending(k, c) == HiLeft(c) \/ (k = "link" /\ rpc[c] = "hi")

Owned(k, own) ==
  /\ \A g \in 2 .. made[k] : \E c \in Chans : own[c] = g
  /\ \A c \in Chans : Pending(k, c) => own[c] = 0
  /\ k = "link" => \A g \in Objs : counter[g] = Cardinality({c \in Chans : own[c] = g})

Owners == \A k \in Kinds : \E own \in [Chans -> 0 .. N + 1] : Owned(k, own)

ServerInv ==
  /\ TypeOK /\ Ordered /\ Opening /\ Held /\ Sorting /\ Fresh
  /\ LinkStarts /\ QueueStarts /\ Removing /\ Owners /\ NilNeedsClose

-----------------------------------------------------------------------------
(* The messages of a websocket.                                            *)

\* What is left after the first message.
LEMMA TailOfScript ==
  ASSUME NEW s \in Seq(Msgs), Script(s), s # << >>
  PROVE  /\ Tail(s) \in Seq(Msgs)
         /\ Script(Tail(s))
         /\ ~Has(Tail(s), "hi")
         /\ Has(s, "hi") <=> (Head(s) = "hi")
         /\ Head(s) = "est" => Has(s, "est")
         /\ Has(s, "est") => Head(s) \in {"hi", "est"}
         /\ Has(Tail(s), "est") => Has(s, "est") /\ Head(s) = "hi"
<1>1. Len(s) \in Nat \ {0} /\ Head(s) = s[1]
  BY EmptySeq
<1>2. /\ Tail(s) \in Seq(Msgs)
      /\ Len(Tail(s)) = Len(s) - 1
      /\ \A i \in 1 .. Len(s) - 1 : Tail(s)[i] = s[i + 1]
  BY HeadTailProperties
<1>3. \A i \in 1 .. Len(s) - 1 : i + 1 \in 1 .. Len(s) /\ i + 1 # 1
  BY <1>1
<1>4. Script(Tail(s))
  BY <1>1, <1>2, <1>3 DEF Script
<1>5. ~Has(Tail(s), "hi")
  BY <1>1, <1>2, <1>3 DEF Script, Has
<1>6. Has(s, "hi") <=> (Head(s) = "hi")
  BY <1>1 DEF Script, Has
<1>7. /\ Head(s) = "est" => Has(s, "est")
      /\ Has(s, "est") => Head(s) \in {"hi", "est"}
  BY <1>1 DEF Script, Has
<1>8. Has(Tail(s), "est") => Has(s, "est") /\ Head(s) = "hi"
  BY <1>1, <1>2, <1>3 DEF Script, Has
<1>. QED BY <1>2, <1>4, <1>5, <1>6, <1>7, <1>8

\* The messages of a websocket that the client sends, or a part of them and
\* then the end of the websocket.
LEMMA Scripts ==
  ASSUME NEW c \in Chans, NEW s \in Inboxes(c)
  PROVE  s \in Seq(Msgs) /\ Script(s)
<1>1. \A t \in {<<"hi", "est">>, <<"hi", "est", "close">>, <<"hi">>, << >>} :
        t \in Seq(Msgs) /\ Script(t)
  <2>1. << >> \in Seq(Msgs) /\ Script(<< >>)
    BY DEF Msgs, Script
  <2>2. <<"hi">> \in Seq(Msgs) /\ Script(<<"hi">>)
    BY DEF Msgs, Script
  <2>3. <<"hi", "est">> \in Seq(Msgs) /\ Script(<<"hi", "est">>)
    BY DEF Msgs, Script
  <2>4. <<"hi", "est", "close">> \in Seq(Msgs) /\ Script(<<"hi", "est", "close">>)
    BY DEF Msgs, Script
  <2>. QED BY <2>1, <2>2, <2>3, <2>4, Zenon
<1>2. ASSUME NEW t \in Seq(Msgs), Script(t), NEW i \in 0 .. Len(t)
      PROVE  /\ Append(SubSeq(t, 1, i), "break") \in Seq(Msgs)
             /\ Script(Append(SubSeq(t, 1, i), "break"))
  <2> DEFINE u == SubSeq(t, 1, i)
             v == Append(u, "break")
  <2>1. u \in Seq(Msgs) /\ Len(u) = i /\ \A j \in 1 .. i : u[j] = t[j]
    BY <1>2
  <2> HIDE DEF u
  <2>2. "break" \in Msgs
    BY DEF Msgs
  <2>3. /\ v \in Seq(Msgs) /\ Len(v) = i + 1 /\ v[i + 1] = "break"
        /\ \A j \in 1 .. i : v[j] = t[j]
    BY <2>1, <2>2
  <2> HIDE DEF v
  <2>4. \A j \in 1 .. i + 1 : j = i + 1 \/ (j \in 1 .. i /\ j \in 1 .. Len(t))
    BY <1>2
  <2>5. Script(v)
    <3>1. ASSUME NEW j \in 1 .. i + 1, v[j] = "hi" PROVE j = 1
      BY <1>2, <2>3, <2>4, <3>1 DEF Script
    <3>2. ASSUME NEW j \in 1 .. i + 1, v[j] = "est"
          PROVE  j = 1 \/ (j = 2 /\ v[1] = "hi")
      <4>1. j \in 1 .. i /\ j \in 1 .. Len(t) /\ t[j] = "est"
        BY <2>3, <2>4, <3>2
      <4>2. j = 1 \/ (j = 2 /\ t[1] = "hi")
        BY <1>2, <4>1 DEF Script
      <4>. QED BY <2>3, <4>1, <4>2
    <3>. QED BY <2>3, <3>1, <3>2 DEF Script
  <2>. QED BY <2>3, <2>5 DEF u, v
<1>3. CASE c = 1
  <2>. DEFINE said == {<<"hi", "est">>} \union
                (IF "clientClose" \in Faults THEN {<<"hi", "est", "close">>} ELSE {})
  <2>1. \A t \in said : t \in Seq(Msgs) /\ Script(t)
    BY <1>1, Zenon
  <2>2. s \in said \union
          (IF "break" \in Faults
             THEN UNION {{Append(SubSeq(t, 1, i), "break") : i \in 0 .. Len(t)} : t \in said}
             ELSE {})
    BY <1>3, Zenon DEF Inboxes, MasterInbox
  <2>. HIDE DEF said
  <2>3. s \in said \/ \E t \in said :
                        \E i \in 0 .. Len(t) : s = Append(SubSeq(t, 1, i), "break")
    BY <2>2, Zenon
  <2>. QED BY <1>2, <2>1, <2>3, Zenon
<1>4. CASE c # 1
  BY <1>1, <1>4, Zenon DEF Inboxes
<1>. QED BY <1>3, <1>4

\* What a reader takes, and leaves.
LEMMA TakeFacts ==
  ASSUME TypeOK, Ordered, NEW c \in Chans, NEW m, Take(c, m)
  PROVE  /\ inbox' \in [Chans -> Seq(Msgs)]
         /\ \A d \in Chans : Script(inbox'[d])
         /\ \A d \in Chans \ {c} : inbox'[d] = inbox[d]
         /\ ~Has(inbox'[c], "hi")
         /\ Has(inbox[c], "hi") <=> (m = "hi")
         /\ m = "est" => Has(inbox[c], "est")
         /\ Has(inbox[c], "est") => m \in {"hi", "est"}
         /\ Has(inbox'[c], "est") => Has(inbox[c], "est") /\ m = "hi"
<1>1. inbox \in [Chans -> Seq(Msgs)] /\ \A d \in Chans : Script(inbox[d])
  BY DEF TypeOK, Msgs, Ordered
<1>2. inbox[c] # << >> /\ Head(inbox[c]) = m /\ inbox' = [inbox EXCEPT ![c] = Tail(@)]
  BY DEF Take
<1>3. inbox'[c] = Tail(inbox[c]) /\ \A d \in Chans \ {c} : inbox'[d] = inbox[d]
  BY <1>1, <1>2
<1>4. Tail(inbox[c]) \in Seq(Msgs) /\ Script(Tail(inbox[c]))
  BY <1>1, <1>2, TailOfScript
<1>5. inbox' \in [Chans -> Seq(Msgs)]
  BY <1>1, <1>2, <1>4
<1>. QED BY <1>1, <1>2, <1>3, <1>4, <1>5, TailOfScript

-----------------------------------------------------------------------------
(* The hubs.                                                               *)

\* There are N websockets.
LEMMA ChansFinite == IsFiniteSet(Chans) /\ Cardinality(Chans) = N
BY ServerAssumption, FS_Interval DEF Chans

\* Only N websockets can have made more than the first entry: while one of
\* them has yet to ask for its entry there is room for it.
LEMMA Room ==
  ASSUME NEW own \in [Chans -> 0 .. N + 1], NEW m \in Nat,
         \A g \in 2 .. m : \E c \in Chans : own[c] = g,
         NEW p \in Chans, own[p] = 0
  PROVE  m <= N
<1> DEFINE S == 2 .. m
           T == Chans \ {p}
           f == [g \in S |-> CHOOSE c \in Chans : own[c] = g]
<1>1. \A g \in S : f[g] \in Chans /\ own[f[g]] = g
  OBVIOUS
<1>2. f \in Injection(S, T)
  <2>1. \A g \in S : f[g] \in T
    BY <1>1
  <2>2. \A g, h \in S : f[g] = f[h] => g = h
    BY <1>1
  <2>3. f \in [S -> T]
    BY <2>1
  <2> HIDE DEF f
  <2>. QED BY <2>2, <2>3 DEF Injection, IsInjective
<1>3. IsFiniteSet(T) /\ Cardinality(T) = N - 1
  BY ChansFinite, FS_RemoveElement
<1>4. Cardinality(S) <= N - 1
  BY <1>2, <1>3, FS_Injection
<1>5. Cardinality(S) = IF 2 > m THEN 0 ELSE m - 2 + 1
  BY FS_Interval
<1>. QED BY <1>4, <1>5, ServerAssumption

\* A Hi message finds an entry, or makes one.
LEMMA EntryOfHi ==
  ASSUME TypeOK, Held, Owners, NEW k \in Kinds, NEW c \in Chans, Pending(k, c)
  PROVE  /\ Entry(k) \in Objs
         /\ cur[k] = 0 => Entry(k) = made[k] + 1
         /\ cur[k] # 0 => Entry(k) = cur[k] /\ made[k] > 0
<1>1. PICK own \in [Chans -> 0 .. N + 1] : Owned(k, own)
  BY DEF Owners
<1>2. made[k] \in Nat /\ cur[k] \in 0 .. N + 1 /\ cur[k] <= made[k]
  BY DEF TypeOK, Held
<1>3. made[k] <= N
  BY <1>1, <1>2, Room DEF Owned
<1>. QED BY <1>2, <1>3, ServerAssumption DEF Entry, Objs

\* A Hi message that has yet to be counted leaves room in the counter.
LEMMA CountOfHi ==
  ASSUME TypeOK, Owners, NEW c \in Chans, Pending("link", c), NEW g \in Objs
  PROVE  counter[g] + 1 \in 0 .. N
<1>1. PICK own \in [Chans -> 0 .. N + 1] : Owned("link", own)
  BY DEF Owners, Kinds
<1> DEFINE S == {d \in Chans : own[d] = g}
<1>2. S \in SUBSET (Chans \ {c})
  BY <1>1 DEF Owned, Objs
<1>3. IsFiniteSet(Chans \ {c}) /\ Cardinality(Chans \ {c}) = N - 1
  BY ChansFinite, FS_RemoveElement
<1>4. counter[g] = Cardinality(S)
  BY <1>1 DEF Owned
<1> HIDE DEF S
<1>5. IsFiniteSet(S) /\ Cardinality(S) <= N - 1
  BY <1>2, <1>3, FS_Subset
<1>6. counter[g] \in 0 .. N
  BY DEF TypeOK
<1>. QED BY <1>4, <1>5, <1>6, ServerAssumption

\* Est finds the first entry, or makes it.
LEMMA EntryOfEst ==
  ASSUME TypeOK, Opening, Held, ePc = "none", NEW k \in Kinds
  PROVE  Entry(k) = 1 /\ (cur[k] = 0 => made[k] = 0) /\ (cur[k] # 0 => made[k] = 1)
<1>1. cur[k] = made[k] /\ made[k] <= 1 /\ made[k] \in Nat
  BY DEF TypeOK, Opening, Unpooled, Held
<1>. QED BY <1>1 DEF Entry

\* What SetSort and Add do with the entry of a hub.
LEMMA HoldFacts ==
  ASSUME TypeOK, Held, NEW k \in Kinds, Hold(k)
  PROVE  /\ cur'[k] = Entry(k) /\ Entry(k) > 0 /\ Entry(k) <= made'[k]
         /\ cur[k] = 0 => Entry(k) = made[k] + 1 /\ made'[k] = made[k] + 1
         /\ cur[k] # 0 => Entry(k) = cur[k] /\ made'[k] = made[k]
         /\ made[k] <= made'[k]
         /\ \A j \in Kinds \ {k} : cur'[j] = cur[j] /\ made'[j] = made[j]
<1>1. cur[k] \in 0 .. N + 1 /\ made[k] \in 0 .. N + 1 /\ cur[k] <= made[k]
  BY DEF TypeOK, Held
<1>2. /\ cur'[k] = Entry(k) /\ made'[k] = IF cur[k] = 0 THEN made[k] + 1 ELSE made[k]
      /\ \A j \in Kinds \ {k} : cur'[j] = cur[j] /\ made'[j] = made[j]
  BY DEF Hold, TypeOK
<1>. QED BY <1>1, <1>2, ServerAssumption DEF Entry

\* What Remove and RemoveAll do with the entry of a hub.
LEMMA CloseFacts ==
  ASSUME TypeOK, NEW k \in Kinds, CloseEntry(k)
  PROVE  /\ cur'[k] = 0
         /\ \A j \in Kinds \ {k} : cur'[j] = cur[j]
         /\ \A j \in Kinds, g \in Objs :
              \/ closes'[j][g] = closes[j][g]
              \/ j = k /\ g = cur[k] /\ closes'[j][g] <= closes[j][g] + 1
<1>1. CASE cur[k] = 0
  BY <1>1 DEF CloseEntry
<1>2. CASE cur[k] # 0
  <2> DEFINE n == IF status[k][cur[k]] = "close" THEN closes[k][cur[k]]
                  ELSE closes[k][cur[k]] + 1
  <2>1. cur[k] \in Objs
    BY <1>2, ServerAssumption DEF TypeOK, Objs
  <2>2. closes[k] \in [Objs -> Nat] /\ closes \in [Kinds -> [Objs -> Nat]]
    BY DEF TypeOK
  <2>3. closes' = [closes EXCEPT ![k] = [closes[k] EXCEPT ![cur[k]] = n]]
    BY <1>2 DEF CloseEntry
  <2>4. n <= closes[k][cur[k]] + 1
    BY <2>1, <2>2
  <2>5. cur' = [cur EXCEPT ![k] = 0] /\ cur \in [Kinds -> 0 .. N + 1]
    BY <1>2 DEF CloseEntry, TypeOK
  <2> HIDE DEF n
  <2>. QED BY <2>1, <2>2, <2>3, <2>4, <2>5
<1>. QED BY <1>1, <1>2

\* Removing an entry keeps the types.
LEMMA ClosedTypes ==
  ASSUME TypeOK, NEW k \in Kinds, CloseEntry(k)
  PROVE  /\ cur' \in [Kinds -> 0 .. N + 1]
         /\ status' \in [Kinds -> [Objs -> Status]]
         /\ closes' \in [Kinds -> [Objs -> Nat]]
<1>1. CASE cur[k] = 0
  BY <1>1 DEF CloseEntry, TypeOK
<1>2. CASE cur[k] # 0
  <2>1. cur[k] \in Objs
    BY <1>2, ServerAssumption DEF TypeOK, Objs
  <2>2. cur' \in [Kinds -> 0 .. N + 1]
    BY <1>2, ServerAssumption DEF CloseEntry, TypeOK
  <2>3. status' \in [Kinds -> [Objs -> Status]]
    <3>1. status[k] \in [Objs -> Status] /\ "close" \in Status
      BY DEF TypeOK, Status
    <3>2. [status[k] EXCEPT ![cur[k]] = "close"] \in [Objs -> Status]
      BY <3>1, Zenon
    <3>3. status' = [status EXCEPT ![k] = [status[k] EXCEPT ![cur[k]] = "close"]]
      BY <1>2 DEF CloseEntry
    <3>. QED BY <3>2, <3>3 DEF TypeOK
  <2>4. closes' \in [Kinds -> [Objs -> Nat]]
    <3> DEFINE n == IF status[k][cur[k]] = "close" THEN closes[k][cur[k]]
                    ELSE closes[k][cur[k]] + 1
    <3>1. closes[k] \in [Objs -> Nat] /\ n \in Nat
      BY <2>1 DEF TypeOK
    <3>2. [closes[k] EXCEPT ![cur[k]] = n] \in [Objs -> Nat]
      BY <3>1, Zenon
    <3>3. closes' = [closes EXCEPT ![k] = [closes[k] EXCEPT ![cur[k]] = n]]
      BY <1>2 DEF CloseEntry
    <3>. QED BY <3>2, <3>3 DEF TypeOK
  <2>. QED BY <2>2, <2>3, <2>4
<1>. QED BY <1>1, <1>2

\* What "go q.Send()" changes.
LEMMA SendSet ==
  ASSUME TypeOK, NEW k \in Kinds, NEW g \in Objs, NEW x \in Spawners, NEW p \in SendPc,
         send' = [send EXCEPT ![k][g][x] = p]
  PROVE  /\ send' \in [Kinds -> [Objs -> [Spawners -> SendPc]]]
         /\ send'[k][g][x] = p
         /\ \A k2 \in Kinds, g2 \in Objs, x2 \in Spawners :
              k2 # k \/ g2 # g \/ x2 # x => send'[k2][g2][x2] = send[k2][g2][x2]
BY DEF TypeOK

\* Init establishes the invariant.
LEMMA ServerInit == Init => ServerInv
<1> SUFFICES ASSUME Init PROVE ServerInv
  OBVIOUS
<1>1. /\ inbox \in [Chans -> Seq(Msgs)]
      /\ \A c \in Chans : Script(inbox[c])
  <2>1. \A c \in Chans : inbox[c] \in Seq(Msgs) /\ Script(inbox[c])
    BY Scripts DEF Init
  <2>2. inbox = [c \in Chans |-> inbox[c]]
    BY DEF Init
  <2>. QED BY <2>1, <2>2
<1>2. TypeOK
  <2>1. /\ rpc \in [Chans -> {"idle", "hi", "est", "check", "mark", "removeAll", "remove"}]
        /\ cur \in [Kinds -> 0 .. N + 1] /\ made \in [Kinds -> 0 .. N + 1]
        /\ sorted \in [Kinds -> SUBSET Objs] /\ over \in [Kinds -> SUBSET Objs]
    BY ServerAssumption DEF Init
  <2>2. /\ status \in [Kinds -> [Objs -> Status]]
        /\ closes \in [Kinds -> [Objs -> Nat]]
        /\ send \in [Kinds -> [Objs -> [Spawners -> SendPc]]]
    BY DEF Init, Status, SendPc
  <2>3. writers \in [Objs -> SUBSET Chans] /\ counter \in [Objs -> 0 .. N]
    BY ServerAssumption DEF Init
  <2>4. writer \in 0 .. N + 1 /\ waitLink \in 0 .. N + 1
    BY ServerAssumption DEF Init
  <2>5. estClosed \in BOOLEAN /\ pool \in BOOLEAN /\ hubLock \in BOOLEAN
    BY Zenon DEF Init
  <2>6. silent \in BOOLEAN
    BY Zenon DEF Init
  <2>7. lConn \subseteq Objs /\ children \subseteq Chans \ {1}
    BY DEF Init
  <2>. QED BY <1>1, <2>1, <2>2, <2>3, <2>4, <2>5, <2>6, <2>7 DEF Init, TypeOK, Msgs
<1>3. 1 \in Chans /\ 1 \in Objs /\ "queue" \in Kinds /\ "link" \in Kinds
  BY ServerAssumption DEF Chans, Objs, Kinds
<1>4. Ordered /\ Opening
  BY <1>1, <1>3 DEF Init, Ordered, Opening, Closers
<1>5. Held /\ Sorting /\ Fresh
  BY <1>3 DEF Init, Held, Sorting, Fresh
<1>6. LinkStarts
  BY <1>3 DEF Init, LinkStarts, Spawned, Spawners
<1>7. QueueStarts /\ Removing /\ NilNeedsClose
  BY DEF Init, QueueStarts, Removing, NilNeedsClose
<1>8. Owners
  <2> DEFINE own == [c \in Chans |-> 0]
  <2>1. own \in [Chans -> 0 .. N + 1]
    BY ServerAssumption
  <2>2. \A g \in Objs : {c \in Chans : own[c] = g} = {}
    BY DEF Objs
  <2>3. \A g \in Objs : counter[g] = Cardinality({c \in Chans : own[c] = g})
    BY <2>2, FS_EmptySet, Zenon DEF Init
  <2>4. ASSUME NEW k \in Kinds PROVE Owned(k, own)
    <3>1. made[k] = 0
      BY DEF Init
    <3>. QED BY <2>3, <3>1 DEF Owned
  <2>. QED BY <2>1, <2>4 DEF Owners
<1>. QED BY <1>2, <1>4, <1>5, <1>6, <1>7, <1>8 DEF ServerInv

-----------------------------------------------------------------------------
(* One step at a time.                                                     *)

USE ServerAssumption DEF readVars, hubVars, sendVars, estVars, poolVars, Running

\* Every step keeps the types.
LEMMA TypeStep ==
  ASSUME TypeOK, Ordered, Opening, Held, Owners, [Next]_vars
  PROVE  TypeOK'
<1>1. ASSUME NEW c \in Chans, QueueAdd(c) PROVE TypeOK'
  <2>1. Pending("queue", c)
    BY <1>1, TakeFacts DEF QueueAdd, Pending, HiLeft
  <2>2. inbox' \in [Chans -> Seq(Msgs)]
    BY <1>1, TakeFacts DEF QueueAdd, Chans
  <2>3. Entry("queue") \in Objs /\ "queue" \in Kinds
    BY <2>1, EntryOfHi DEF Kinds
  <2>4. send' \in [Kinds -> [Objs -> [Spawners -> SendPc]]]
    BY <1>1, <2>3, SendSet, Zenon DEF QueueAdd, Spawn, TypeOK, Spawners, SendPc
  <2>5. cur' \in [Kinds -> 0 .. N + 1] /\ made' \in [Kinds -> 0 .. N + 1]
    BY <1>1, <2>3 DEF QueueAdd, Hold, Entry, Objs, TypeOK
  <2>6. writers' \in [Objs -> SUBSET Chans]
    BY <1>1, <2>3 DEF QueueAdd, TypeOK
  <2>. QED BY <1>1, <2>2, <2>4, <2>5, <2>6, ZenonT(30) DEF QueueAdd, TypeOK, Msgs
<1>2. ASSUME NEW c \in Chans, LinkAdd(c) PROVE TypeOK'
  <2>1. Pending("link", c)
    BY <1>2 DEF LinkAdd, Pending
  <2>2. Entry("link") \in Objs /\ "link" \in Kinds
    BY <2>1, EntryOfHi DEF Kinds
  <2>3. send' \in [Kinds -> [Objs -> [Spawners -> SendPc]]]
    BY <1>2, <2>2, SendSet, Zenon DEF LinkAdd, Spawn, TypeOK, Spawners, SendPc
  <2>4. cur' \in [Kinds -> 0 .. N + 1] /\ made' \in [Kinds -> 0 .. N + 1]
    BY <1>2, <2>2, SMTT(30) DEF LinkAdd, Hold, Entry, Objs, TypeOK
  <2>5. counter' \in [Objs -> 0 .. N]
    BY <1>2, <2>1, <2>2, CountOfHi DEF LinkAdd, TypeOK
  <2>6. children' \subseteq Chans \ {1}
    BY <1>2 DEF LinkAdd, LinksOf, TypeOK
  <2>. QED BY <1>2, <2>3, <2>4, <2>5, <2>6 DEF LinkAdd, TypeOK
<1>3. CASE EstQueue
  <2>1. inbox' \in [Chans -> Seq(Msgs)]
    BY <1>3, TakeFacts DEF EstQueue, Chans
  <2>2. ePc = "none"
    BY <1>3, TakeFacts DEF EstQueue, Ordered, EstLeft, Chans
  <2>3. Entry("queue") = 1 /\ (cur["queue"] = 0 => made["queue"] = 0)
    BY <2>2, EntryOfEst DEF Kinds
  <2>4. cur' \in [Kinds -> 0 .. N + 1] /\ made' \in [Kinds -> 0 .. N + 1]
    BY <1>3, <2>3 DEF EstQueue, SetSort, Hold, TypeOK, Kinds
  <2>5. sorted' \in [Kinds -> SUBSET Objs]
    BY <1>3, <2>3 DEF EstQueue, SetSort, TypeOK, Kinds, Objs
  <2>6. rpc' \in [Chans -> {"idle", "hi", "est", "check", "mark", "removeAll", "remove"}]
    BY <1>3, Zenon DEF EstQueue, TypeOK
  <2>. QED BY <1>3, <2>1, <2>4, <2>5, <2>6 DEF EstQueue, TypeOK, Msgs
<1>4. CASE EstLink
  <2>1. ePc = "none"
    BY <1>4 DEF EstLink, Ordered
  <2>2. Entry("link") = 1 /\ (cur["link"] = 0 => made["link"] = 0)
    BY <2>1, EntryOfEst DEF Kinds
  <2>3. cur' \in [Kinds -> 0 .. N + 1] /\ made' \in [Kinds -> 0 .. N + 1]
    BY <1>4, <2>2 DEF EstLink, SetSort, Hold, TypeOK, Kinds
  <2>4. sorted' \in [Kinds -> SUBSET Objs]
    BY <1>4, <2>2 DEF EstLink, SetSort, TypeOK, Kinds, Objs
  <2>. QED BY <1>4, <2>3, <2>4, Zenon DEF EstLink, TypeOK
<1>5. CASE CloseProxyConn
  <2>1. inbox' \in [Chans -> Seq(Msgs)]
    BY <1>5, TakeFacts DEF CloseProxyConn, Chans
  <2>2. rpc' \in [Chans -> {"idle", "hi", "est", "check", "mark", "removeAll", "remove"}]
    BY <1>5, Zenon DEF CloseProxyConn, TypeOK
  <2>. QED BY <1>5, <2>1, <2>2 DEF CloseProxyConn, TypeOK, Msgs
<1>6. CASE HubClose
  <2>1. inbox' \in [Chans -> Seq(Msgs)]
    BY <1>6, TakeFacts DEF HubClose, Chans
  <2>2. rpc' \in [Chans -> {"idle", "hi", "est", "check", "mark", "removeAll", "remove"}]
    BY <1>6, Zenon DEF HubClose, TypeOK
  <2>. QED BY <1>6, <2>1, <2>2 DEF HubClose, TypeOK, Msgs
<1>7. CASE ReaderCheck
  <2>1. rpc' \in [Chans -> {"idle", "hi", "est", "check", "mark", "removeAll", "remove"}]
    BY <1>7, Zenon DEF ReaderCheck, ReaderCloseEnds, TypeOK
  <2>2. pool' \in BOOLEAN /\ hubLock' \in BOOLEAN
    BY <1>7, Zenon DEF ReaderCheck, ReaderCloseEnds, TypeOK
  <2>3. UNCHANGED <<inbox, hubVars, sendVars, estVars, estClosed, silent, crashed>>
    BY <1>7 DEF ReaderCheck
  <2>. QED BY <2>1, <2>2, <2>3, ZenonT(30) DEF TypeOK
<1>8. CASE ReaderMark
  BY <1>8, ZenonT(30) DEF ReaderMark, TypeOK
<1>9. CASE ReaderRemoveAll
  <2>1. RemoveAll
    BY <1>9 DEF ReaderRemoveAll
  <2>2. /\ cur' \in [Kinds -> 0 .. N + 1]
        /\ status' \in [Kinds -> [Objs -> Status]]
        /\ closes' \in [Kinds -> [Objs -> Nat]]
    BY <2>1, ClosedTypes DEF RemoveAll, Kinds
  <2>3. rpc' \in [Chans -> {"idle", "hi", "est", "check", "mark", "removeAll", "remove"}]
    BY <1>9, Zenon DEF ReaderRemoveAll, TypeOK
  <2>. QED BY <1>9, <2>2, <2>3 DEF ReaderRemoveAll, RemoveAll, TypeOK
<1>10. CASE ReaderRemove
  <2>1. Remove
    BY <1>10 DEF ReaderRemove
  <2>2. /\ cur' \in [Kinds -> 0 .. N + 1]
        /\ status' \in [Kinds -> [Objs -> Status]]
        /\ closes' \in [Kinds -> [Objs -> Nat]]
    BY <2>1, ClosedTypes DEF Remove, Kinds
  <2>3. rpc' \in [Chans -> {"idle", "hi", "est", "check", "mark", "removeAll", "remove"}]
    BY <1>10, Zenon DEF ReaderRemove, ReaderCloseEnds, TypeOK
  <2>. QED BY <1>10, <2>2, <2>3, ZenonT(30) DEF ReaderRemove, Remove,
       ReaderCloseEnds, TypeOK
<1>11. CASE DialFails
  BY <1>11 DEF DialFails, TypeOK
<1>12. CASE Dial
  BY <1>12 DEF Dial, TypeOK
<1>13. CASE TrySendLink
  <2>1. cur["link"] \in 0 .. N + 1 /\ (cur["link"] # 0 => cur["link"] \in Objs)
    BY DEF TypeOK, Kinds, Objs
  <2>2. send' \in [Kinds -> [Objs -> [Spawners -> SendPc]]]
    BY <1>13, <2>1, SendSet, Zenon DEF TrySendLink, Spawn, TypeOK, Kinds, Spawners,
         SendPc
  <2>. QED BY <1>13, <2>1, <2>2 DEF TrySendLink, TypeOK
<1>14. CASE AddNewProxy
  BY <1>14 DEF AddNewProxy, TypeOK
<1>15. CASE TrySendQueue
  <2>1. cur["queue"] \in 0 .. N + 1 /\ (cur["queue"] # 0 => cur["queue"] \in Objs)
    BY DEF TypeOK, Kinds, Objs
  <2>2. send' \in [Kinds -> [Objs -> [Spawners -> SendPc]]]
    BY <1>15, <2>1, SendSet, Zenon DEF TrySendQueue, Spawn, TypeOK, Kinds,
         Spawners, SendPc
  <2>. QED BY <1>15, <2>2 DEF TrySendQueue, TypeOK
<1>16. CASE GetWriter
  BY <1>16 DEF GetWriter, TypeOK, Kinds
<1>17. CASE RemoveProxy
  BY <1>17, Zenon DEF RemoveProxy, TypeOK
<1>18. CASE EstClose
  BY <1>18 DEF EstClose, TypeOK
<1>19. CASE EstMark
  BY <1>19 DEF EstMark, TypeOK
<1>20. CASE EstRemoveAll
  <2>1. RemoveAll
    BY <1>20 DEF EstRemoveAll
  <2>2. /\ cur' \in [Kinds -> 0 .. N + 1]
        /\ status' \in [Kinds -> [Objs -> Status]]
        /\ closes' \in [Kinds -> [Objs -> Nat]]
    BY <2>1, ClosedTypes DEF RemoveAll, Kinds
  <2>. QED BY <1>20, <2>2 DEF EstRemoveAll, RemoveAll, TypeOK
<1>21. CASE EstRemove
  <2>1. Remove
    BY <1>21 DEF EstRemove
  <2>2. /\ cur' \in [Kinds -> 0 .. N + 1]
        /\ status' \in [Kinds -> [Objs -> Status]]
        /\ closes' \in [Kinds -> [Objs -> Nat]]
    BY <2>1, ClosedTypes DEF Remove, Kinds
  <2>. QED BY <1>21, <2>2 DEF EstRemove, Remove, TypeOK
<1>22. CASE TellClosed
  BY <1>22 DEF TellClosed, TypeOK
<1>23. CASE WaiterGet
  BY <1>23 DEF WaiterGet, TypeOK, Kinds
<1>24. ASSUME NEW k \in Kinds, NEW g \in Objs, NEW x \in Spawners, SendCheck(k, g, x)
      PROVE  TypeOK'
  <2>1. send' \in [Kinds -> [Objs -> [Spawners -> SendPc]]]
    BY <1>24, SendSet, ZenonT(30) DEF SendCheck, SendPc
  <2>. QED BY <1>24, <2>1 DEF SendCheck, TypeOK
<1>25. ASSUME NEW k \in Kinds, NEW g \in Objs, NEW x \in Spawners, SendStart(k, g, x)
      PROVE  TypeOK'
  <2>1. send' \in [Kinds -> [Objs -> [Spawners -> SendPc]]]
    BY <1>25, SendSet, Zenon DEF SendStart, SendPc
  <2>2. status' \in [Kinds -> [Objs -> Status]]
    BY <1>25 DEF SendStart, Status, TypeOK
  <2>. QED BY <1>25, <2>1, <2>2 DEF SendStart, TypeOK
<1>26. ASSUME NEW k \in Kinds, NEW g \in Objs, NEW x \in Spawners, SendReturn(k, g, x)
      PROVE  TypeOK'
  <2>1. send' \in [Kinds -> [Objs -> [Spawners -> SendPc]]]
    BY <1>26, SendSet, Zenon DEF SendReturn, SendPc
  <2>2. status' \in [Kinds -> [Objs -> Status]]
    BY <1>26 DEF SendReturn, Status, TypeOK
  <2>. QED BY <1>26, <2>1, <2>2 DEF SendReturn, TypeOK
<1>27. ASSUME NEW k \in Kinds, NEW g \in Objs, NEW x \in Spawners, SendDone(k, g, x)
      PROVE  TypeOK'
  <2>1. send' \in [Kinds -> [Objs -> [Spawners -> SendPc]]]
    BY <1>27, SendSet, Zenon DEF SendDone, SendPc
  <2>2. over' \in [Kinds -> SUBSET Objs]
    BY <1>27 DEF SendDone, TypeOK
  <2>. QED BY <1>27, <2>1, <2>2, SMTT(30) DEF SendDone, TypeOK
<1>28. ASSUME NEW k \in Kinds, NEW g \in Objs, NEW x \in Spawners, SendPanics(k, g, x)
      PROVE  TypeOK'
  BY <1>28 DEF SendPanics, TypeOK
<1>29. CASE UNCHANGED vars
  BY <1>29 DEF vars, TypeOK
<1>. QED BY <1>1, <1>2, <1>3, <1>4, <1>5, <1>6, <1>7, <1>8, <1>9, <1>10, <1>11,
      <1>12, <1>13, <1>14, <1>15, <1>16, <1>17, <1>18, <1>19, <1>20, <1>21,
      <1>22, <1>23, <1>24, <1>25, <1>26, <1>27, <1>28, <1>29, Zenon
   DEF Next, ReaderStep, MasterStep, EstablishStep, SendStep

\* Hi comes before Est, and Est before establishProxy.
LEMMA OrderedStep ==
  ASSUME TypeOK, Ordered, [Next]_vars
  PROVE  Ordered'
<1>1. ASSUME NEW c \in Chans, QueueAdd(c) PROVE Ordered'
  <2>1. /\ \A d \in Chans : Script(inbox'[d])
        /\ ~Has(inbox'[c], "hi")
        /\ Has(inbox[c], "hi")
        /\ Has(inbox'[c], "est") => Has(inbox[c], "est")
        /\ \A d \in Chans \ {c} : inbox'[d] = inbox[d]
        /\ 1 \in Chans
    BY <1>1, TakeFacts DEF QueueAdd, Chans
  <2>2. rpc[c] = "idle" /\ ePc' = ePc
        /\ rpc'[c] = "hi" /\ \A d \in Chans \ {c} : rpc'[d] = rpc[d]
    BY <1>1 DEF QueueAdd, Take, TypeOK
  <2>. QED BY <2>1, <2>2 DEF Ordered, HiLeft, EstLeft
<1>2. ASSUME NEW c \in Chans, LinkAdd(c) PROVE Ordered'
  BY <1>2 DEF LinkAdd, Hold, LinksOf, Spawn, TypeOK, Ordered, HiLeft, EstLeft,
    Chans
<1>3. CASE EstQueue
  <2>1. /\ \A d \in Chans : Script(inbox'[d])
        /\ ~Has(inbox'[1], "hi")
        /\ ~Has(inbox[1], "hi") /\ ~Has(inbox'[1], "est")
        /\ \A d \in Chans \ {1} : inbox'[d] = inbox[d]
        /\ Has(inbox[1], "est")
    BY <1>3, TakeFacts DEF EstQueue, Chans
  <2>2. rpc[1] = "idle" /\ ePc' = ePc /\ rpc'[1] = "est"
        /\ \A d \in Chans \ {1} : rpc'[d] = rpc[d]
    BY <1>3 DEF EstQueue, Take, TypeOK, Chans
  <2>. QED BY <2>1, <2>2 DEF Ordered, HiLeft, EstLeft
<1>4. CASE EstLink
  BY <1>4 DEF EstLink, SetSort, Hold, TypeOK, Ordered, HiLeft, EstLeft, Chans
<1>5. CASE CloseProxyConn
  <2>1. /\ \A d \in Chans : Script(inbox'[d])
        /\ ~Has(inbox'[1], "hi")
        /\ ~Has(inbox[1], "hi") /\ ~Has(inbox'[1], "est")
        /\ \A d \in Chans \ {1} : inbox'[d] = inbox[d]
    BY <1>5, TakeFacts DEF CloseProxyConn, Chans
  <2>2. rpc[1] = "idle" /\ ePc' = ePc /\ rpc'[1] \in {"check", "idle"}
        /\ \A d \in Chans \ {1} : rpc'[d] = rpc[d]
    BY <1>5 DEF CloseProxyConn, Take, TypeOK, Chans
  <2>. QED BY <2>1, <2>2 DEF Ordered, HiLeft, EstLeft
<1>6. CASE HubClose
  <2>1. /\ \A d \in Chans : Script(inbox'[d])
        /\ ~Has(inbox'[1], "hi")
        /\ ~Has(inbox[1], "hi") /\ ~Has(inbox'[1], "est")
        /\ \A d \in Chans \ {1} : inbox'[d] = inbox[d]
    BY <1>6, TakeFacts DEF HubClose, Chans
  <2>2. rpc[1] = "idle" /\ ePc' = ePc /\ rpc'[1] \in {"check", "idle"}
        /\ \A d \in Chans \ {1} : rpc'[d] = rpc[d]
    BY <1>6 DEF HubClose, Take, TypeOK, Chans
  <2>. QED BY <2>1, <2>2 DEF Ordered, HiLeft, EstLeft
<1>7. CASE ReaderCheck
  BY <1>7 DEF ReaderCheck, ReaderCloseEnds, TypeOK, Ordered, HiLeft, EstLeft,
    Chans
<1>8. CASE ReaderMark
  BY <1>8 DEF ReaderMark, TypeOK, Ordered, HiLeft, EstLeft, Chans
<1>9. CASE ReaderRemoveAll
  BY <1>9 DEF ReaderRemoveAll, RemoveAll, CloseEntry, TypeOK, Ordered, HiLeft,
    EstLeft, Chans
<1>10. CASE ReaderRemove
  BY <1>10 DEF ReaderRemove, ReaderCloseEnds, Remove, CloseEntry, TypeOK,
    Ordered, HiLeft, EstLeft, Chans
<1>11.
  ASSUME \/ UNCHANGED vars \/ DialFails \/ Dial \/ TrySendLink
         \/ AddNewProxy \/ TrySendQueue \/ GetWriter \/ RemoveProxy
         \/ EstClose \/ EstMark \/ EstRemoveAll \/ EstRemove \/ TellClosed
         \/ WaiterGet
         \/ (\E k \in Kinds, g \in Objs, x \in Spawners : SendCheck(k, g, x))
         \/ (\E k \in Kinds, g \in Objs, x \in Spawners : SendStart(k, g, x))
         \/ (\E k \in Kinds, g \in Objs, x \in Spawners : SendReturn(k, g, x))
         \/ (\E k \in Kinds, g \in Objs, x \in Spawners : SendDone(k, g, x))
         \/ (\E k \in Kinds, g \in Objs, x \in Spawners : SendPanics(k, g, x))
  PROVE  Ordered'
  <2>1. UNCHANGED <<inbox, rpc>>
    BY <1>11, Zenon DEF DialFails, Dial, TrySendLink, Spawn, AddNewProxy,
      TrySendQueue, GetWriter, RemoveProxy, EstClose, EstMark, EstRemoveAll,
      RemoveAll, CloseEntry, EstRemove, Remove, TellClosed, WaiterGet,
      SendCheck, SendStart, SendReturn, SendDone, SendPanics, vars
  <2>2. ePc # "none" \/ ePc' = ePc
    BY <1>11, ZenonT(30) DEF DialFails, Dial, TrySendLink, Spawn, AddNewProxy,
      TrySendQueue, GetWriter, RemoveProxy, EstClose, EstMark, EstRemoveAll,
      RemoveAll, CloseEntry, EstRemove, Remove, TellClosed, WaiterGet,
      SendCheck, SendStart, SendReturn, SendDone, SendPanics, vars
  <2>. QED BY <2>1, <2>2 DEF Ordered, HiLeft, EstLeft
<1>. QED BY <1>1, <1>2, <1>3, <1>4, <1>5, <1>6, <1>7, <1>8, <1>9, <1>10, <1>11, Zenon
   DEF Next, ReaderStep, MasterStep, EstablishStep, SendStep

\* A connection is closed when it is in the pool, or was.
LEMMA OpeningStep ==
  ASSUME TypeOK, Ordered, Opening, [Next]_vars
  PROVE  Opening'
<1> USE DEF TypeOK, Opening, Unpooled, Closers
<1>1. ASSUME NEW c \in Chans, QueueAdd(c) PROVE Opening'
  BY <1>1 DEF QueueAdd, Chans
<1>2. ASSUME NEW c \in Chans, LinkAdd(c) PROVE Opening'
  BY <1>2 DEF LinkAdd, Chans
<1>3. CASE EstQueue
  BY <1>3 DEF EstQueue, Chans
<1>4. CASE EstLink
  BY <1>4 DEF EstLink, Chans, Ordered
<1>5. CASE CloseProxyConn
  BY <1>5 DEF CloseProxyConn, Take, Chans
<1>6. CASE HubClose
  BY <1>6 DEF HubClose, Take, Chans
<1>7. CASE ReaderCheck
  BY <1>7 DEF ReaderCheck, ReaderCloseEnds, Chans
<1>8. CASE ReaderMark
  BY <1>8 DEF ReaderMark, Chans
<1>9. CASE ReaderRemoveAll
  BY <1>9 DEF ReaderRemoveAll, Chans
<1>10. CASE ReaderRemove
  BY <1>10 DEF ReaderRemove, ReaderCloseEnds, Chans
<1>11. CASE DialFails
  BY <1>11 DEF DialFails
<1>12. CASE Dial
  BY <1>12 DEF Dial
<1>13. CASE TrySendLink
  BY <1>13 DEF TrySendLink, Spawn
<1>14. CASE AddNewProxy
  BY <1>14 DEF AddNewProxy
<1>15. CASE TrySendQueue
  BY <1>15 DEF TrySendQueue, Spawn
<1>16. CASE GetWriter
  BY <1>16 DEF GetWriter
<1>17. CASE RemoveProxy
  BY <1>17 DEF RemoveProxy
<1>18. CASE EstClose
  BY <1>18 DEF EstClose
<1>19. CASE EstMark
  BY <1>19 DEF EstMark
<1>20. CASE EstRemoveAll
  BY <1>20 DEF EstRemoveAll, RemoveAll, CloseEntry
<1>21. CASE EstRemove
  BY <1>21 DEF EstRemove, Remove, CloseEntry
<1>22. CASE TellClosed
  BY <1>22 DEF TellClosed
<1>23. ASSUME NEW k \in Kinds, NEW g \in Objs, NEW x \in Spawners, SendDone(k, g, x)
      PROVE  Opening'
  BY <1>23 DEF SendDone
<1>24.
  ASSUME \/ UNCHANGED vars \/ WaiterGet
         \/ (\E k \in Kinds, g \in Objs, x \in Spawners : SendCheck(k, g, x))
         \/ (\E k \in Kinds, g \in Objs, x \in Spawners : SendStart(k, g, x))
         \/ (\E k \in Kinds, g \in Objs, x \in Spawners : SendReturn(k, g, x))
         \/ (\E k \in Kinds, g \in Objs, x \in Spawners : SendPanics(k, g, x))
  PROVE  Opening'
  <2>1. UNCHANGED <<rpc, ePc, estClosed, pool>>
    BY <1>24 DEF WaiterGet, SendCheck, SendStart, SendReturn, SendPanics, vars
  <2>. QED BY <2>1, Zenon
<1>. QED BY <1>1, <1>2, <1>3, <1>4, <1>5, <1>6, <1>7, <1>8, <1>9, <1>10, <1>11,
      <1>12, <1>13, <1>14, <1>15, <1>16, <1>17, <1>18, <1>19, <1>20, <1>21,
      <1>22, <1>23, <1>24, Zenon
   DEF Next, ReaderStep, MasterStep, EstablishStep, SendStep

\* What a hub makes stays in it until the connection is closed.
LEMMA HeldStep ==
  ASSUME TypeOK, Opening, Held, [Next]_vars
  PROVE  Held'
<1> USE DEF TypeOK, Opening, Closers, Held
<1>1. ASSUME NEW c \in Chans, QueueAdd(c) PROVE Held'
  BY <1>1 DEF QueueAdd, Take, Hold, Spawn, Entry, Kinds
<1>2. ASSUME NEW c \in Chans, LinkAdd(c) PROVE Held'
  BY <1>2 DEF LinkAdd, Hold, LinksOf, Spawn, Entry, Kinds
<1>3. CASE EstQueue
  BY <1>3 DEF EstQueue, Take, SetSort, Hold, Entry, Kinds
<1>4. CASE EstLink
  BY <1>4 DEF EstLink, SetSort, Hold, Entry, Kinds
<1>5. CASE ReaderMark
  BY <1>5 DEF ReaderMark
<1>6. CASE ReaderRemoveAll
  BY <1>6 DEF ReaderRemoveAll, RemoveAll, CloseEntry, Kinds
<1>7. CASE ReaderRemove
  BY <1>7 DEF ReaderRemove, ReaderCloseEnds, Remove, CloseEntry, Kinds
<1>8. CASE EstMark
  BY <1>8 DEF EstMark
<1>9. CASE EstRemoveAll
  BY <1>9 DEF EstRemoveAll, RemoveAll, CloseEntry, Kinds
<1>10. CASE EstRemove
  BY <1>10 DEF EstRemove, Remove, CloseEntry, Kinds
<1>11.
  ASSUME \/ UNCHANGED vars \/ CloseProxyConn \/ HubClose \/ ReaderCheck
         \/ DialFails \/ Dial \/ TrySendLink \/ AddNewProxy \/ TrySendQueue
         \/ GetWriter \/ RemoveProxy \/ EstClose \/ TellClosed \/ WaiterGet
         \/ (\E k \in Kinds, g \in Objs, x \in Spawners : SendCheck(k, g, x))
         \/ (\E k \in Kinds, g \in Objs, x \in Spawners : SendStart(k, g, x))
         \/ (\E k \in Kinds, g \in Objs, x \in Spawners : SendReturn(k, g, x))
         \/ (\E k \in Kinds, g \in Objs, x \in Spawners : SendDone(k, g, x))
         \/ (\E k \in Kinds, g \in Objs, x \in Spawners : SendPanics(k, g, x))
  PROVE  Held'
  <2>1. UNCHANGED <<cur, made, estClosed>>
    BY <1>11, Zenon DEF CloseProxyConn, Take, HubClose, ReaderCheck, ReaderCloseEnds,
      DialFails, Dial, TrySendLink, Spawn, AddNewProxy, TrySendQueue,
      GetWriter, RemoveProxy, EstClose, TellClosed, WaiterGet, SendCheck,
      SendStart, SendReturn, SendDone, SendPanics, vars
  <2>. QED BY <2>1
<1>. QED BY <1>1, <1>2, <1>3, <1>4, <1>5, <1>6, <1>7, <1>8, <1>9, <1>10, <1>11,
     ZenonT(30)
   DEF Next, ReaderStep, MasterStep, EstablishStep, SendStep

\* Est sets the order of the first queue and the first link.
LEMMA SortingStep ==
  ASSUME TypeOK, Ordered, Opening, Held, Sorting, [Next]_vars
  PROVE  Sorting'
<1>1. ASSUME NEW c \in Chans, QueueAdd(c) PROVE Sorting'
  <2>1. Hold("queue") /\ sorted' = sorted /\ ePc' = ePc
    BY <1>1 DEF QueueAdd
  <2>2. \A k \in Kinds : made[k] <= made'[k] /\ made[k] \in 0 .. N + 1 /\ made'[k] \in 0 .. N + 2
    BY <2>1, HoldFacts DEF Kinds, TypeOK, Hold
  <2>3. rpc'[1] = "est" <=> rpc[1] = "est"
    BY <1>1 DEF QueueAdd, Take, TypeOK, Chans
  <2>. QED BY <2>1, <2>2, <2>3 DEF Sorting
<1>2. ASSUME NEW c \in Chans, LinkAdd(c) PROVE Sorting'
  <2>1. Hold("link") /\ sorted' = sorted /\ ePc' = ePc
    BY <1>2 DEF LinkAdd
  <2>2. \A k \in Kinds : made[k] <= made'[k] /\ made[k] \in 0 .. N + 1 /\ made'[k] \in 0 .. N + 2
    BY <2>1, HoldFacts DEF Kinds, TypeOK, Hold
  <2>3. rpc'[1] = "est" <=> rpc[1] = "est"
    BY <1>2 DEF LinkAdd, TypeOK, Chans
  <2>. QED BY <2>1, <2>2, <2>3 DEF Sorting
<1>3. CASE EstQueue
  <2>1. ePc = "none"
    BY <1>3, TakeFacts DEF EstQueue, Ordered, EstLeft, Chans
  <2>2. /\ Entry("queue") = 1 /\ made'["queue"] > 0
        /\ made["queue"] <= made'["queue"] /\ made'["link"] = made["link"]
    BY <1>3, <2>1, EntryOfEst, HoldFacts, Zenon DEF EstQueue, SetSort, Kinds
  <2>3. sorted'["queue"] = sorted["queue"] \union {1} /\ sorted'["link"] = sorted["link"]
    BY <1>3, <2>2 DEF EstQueue, SetSort, TypeOK, Kinds
  <2>4. rpc[1] = "idle" /\ rpc'[1] = "est" /\ ePc' = ePc
    BY <1>3 DEF EstQueue, Take, TypeOK, Chans
  <2>. QED BY <2>1, <2>2, <2>3, <2>4, ZenonT(30) DEF Sorting, Kinds
<1>4. CASE EstLink
  <2>1. ePc = "none"
    BY <1>4 DEF EstLink, Ordered, EstLeft, Chans
  <2>2. /\ Entry("link") = 1 /\ made'["link"] > 0
        /\ made["link"] <= made'["link"] /\ made'["queue"] = made["queue"]
    BY <1>4, <2>1, EntryOfEst, HoldFacts, Zenon DEF EstLink, SetSort, Kinds
  <2>3. sorted'["link"] = sorted["link"] \union {1} /\ sorted'["queue"] = sorted["queue"]
    BY <1>4, <2>2 DEF EstLink, SetSort, TypeOK, Kinds
  <2>4. rpc[1] = "est" /\ rpc'[1] = "idle" /\ ePc' = "dial"
    BY <1>4 DEF EstLink, TypeOK, Chans
  <2>. QED BY <2>1, <2>2, <2>3, <2>4 DEF Sorting, Kinds
<1>5. CASE CloseProxyConn
  BY <1>5 DEF CloseProxyConn, Take, Chans, TypeOK, Sorting
<1>6. CASE HubClose
  BY <1>6 DEF HubClose, Take, Chans, TypeOK, Sorting
<1>7. CASE ReaderCheck
  BY <1>7 DEF ReaderCheck, ReaderCloseEnds, Chans, TypeOK, Sorting
<1>8. CASE ReaderMark
  BY <1>8 DEF ReaderMark, Chans, TypeOK, Sorting
<1>9. CASE ReaderRemoveAll
  BY <1>9 DEF ReaderRemoveAll, RemoveAll, CloseEntry, Chans, TypeOK, Sorting
<1>10. CASE ReaderRemove
  BY <1>10 DEF ReaderRemove, ReaderCloseEnds, Remove, CloseEntry, Chans,
    TypeOK, Sorting
<1>11.
  ASSUME \/ UNCHANGED vars \/ DialFails \/ Dial \/ TrySendLink
         \/ AddNewProxy \/ TrySendQueue \/ GetWriter \/ RemoveProxy
         \/ EstClose \/ EstMark \/ EstRemoveAll \/ EstRemove \/ TellClosed
         \/ WaiterGet
         \/ (\E k \in Kinds, g \in Objs, x \in Spawners : SendCheck(k, g, x))
         \/ (\E k \in Kinds, g \in Objs, x \in Spawners : SendStart(k, g, x))
         \/ (\E k \in Kinds, g \in Objs, x \in Spawners : SendReturn(k, g, x))
         \/ (\E k \in Kinds, g \in Objs, x \in Spawners : SendDone(k, g, x))
         \/ (\E k \in Kinds, g \in Objs, x \in Spawners : SendPanics(k, g, x))
  PROVE  Sorting'
  <2>1. UNCHANGED <<sorted, made, rpc>>
    BY <1>11, Zenon DEF DialFails, Dial, TrySendLink, Spawn, AddNewProxy,
      TrySendQueue, GetWriter, RemoveProxy, EstClose, EstMark, EstRemoveAll,
      RemoveAll, CloseEntry, EstRemove, Remove, TellClosed, WaiterGet,
      SendCheck, SendStart, SendReturn, SendDone, SendPanics, vars
  <2>2. (ePc = "none") <=> (ePc' = "none")
    BY <1>11, ZenonT(30) DEF DialFails, Dial, TrySendLink, Spawn, AddNewProxy,
      TrySendQueue, GetWriter, RemoveProxy, EstClose, EstMark, EstRemoveAll,
      RemoveAll, CloseEntry, EstRemove, Remove, TellClosed, WaiterGet,
      SendCheck, SendStart, SendReturn, SendDone, SendPanics, vars
  <2>. QED BY <2>1, <2>2 DEF Sorting
<1>. QED BY <1>1, <1>2, <1>3, <1>4, <1>5, <1>6, <1>7, <1>8, <1>9, <1>10, <1>11, Zenon
   DEF Next, ReaderStep, MasterStep, EstablishStep, SendStep

\* A new entry has not been closed.
LEMMA FreshHold ==
  ASSUME TypeOK, Held, Fresh, NEW k \in Kinds, Hold(k), closes' = closes
  PROVE  Fresh'
<1>1. ASSUME NEW j \in Kinds, NEW g \in Objs, g = cur'[j] \/ g > made'[j]
      PROVE  g = cur[j] \/ g > made[j]
  <2>1. g \in Nat /\ cur[j] \in Nat /\ made[j] \in Nat
    BY DEF TypeOK, Objs
  <2>2. CASE j = k
    BY <1>1, <2>1, <2>2, HoldFacts
  <2>3. CASE j # k
    BY <1>1, <2>3, HoldFacts
  <2>. QED BY <2>2, <2>3
<1>. QED BY <1>1 DEF Fresh

\* The entry that is closed leaves its hub.
LEMMA FreshClose ==
  ASSUME TypeOK, Held, Fresh, NEW k \in Kinds, CloseEntry(k), made' = made
  PROVE  Fresh'
<1> SUFFICES ASSUME NEW j \in Kinds, NEW g \in Objs
             PROVE  /\ closes'[j][g] <= 1
                    /\ g = cur'[j] \/ g > made[j] => closes'[j][g] = 0
  BY DEF Fresh
<1>0. /\ g \in Nat \ {0} /\ cur[j] \in Nat /\ made[j] \in Nat
      /\ closes[j][g] \in Nat
  BY DEF TypeOK, Objs
<1>1. /\ cur[j] <= made[j] /\ closes[j][g] <= 1
      /\ g = cur[j] \/ g > made[j] => closes[j][g] = 0
  BY DEF Held, Fresh
<1>2. CASE j = k /\ g = cur[k]
  BY <1>0, <1>1, <1>2, CloseFacts
<1>3. CASE j = k /\ g # cur[k]
  BY <1>0, <1>1, <1>3, CloseFacts
<1>4. CASE j # k
  BY <1>0, <1>1, <1>4, CloseFacts
<1>. QED BY <1>2, <1>3, <1>4

\* An entry is closed when it leaves its hub.
LEMMA FreshStep ==
  ASSUME TypeOK, Held, Fresh, [Next]_vars
  PROVE  Fresh'
<1>1. ASSUME NEW c \in Chans, QueueAdd(c) PROVE Fresh'
  <2>1. Hold("queue") /\ closes' = closes
    BY <1>1 DEF QueueAdd
  <2>. QED BY <2>1, FreshHold DEF Kinds
<1>2. ASSUME NEW c \in Chans, LinkAdd(c) PROVE Fresh'
  <2>1. Hold("link") /\ closes' = closes
    BY <1>2 DEF LinkAdd
  <2>. QED BY <2>1, FreshHold DEF Kinds
<1>3. CASE EstQueue
  <2>1. Hold("queue") /\ closes' = closes
    BY <1>3 DEF EstQueue, SetSort
  <2>. QED BY <2>1, FreshHold DEF Kinds
<1>4. CASE EstLink
  <2>1. Hold("link") /\ closes' = closes
    BY <1>4 DEF EstLink, SetSort
  <2>. QED BY <2>1, FreshHold DEF Kinds
<1>5. CASE ReaderRemoveAll
  <2>1. CloseEntry("link") /\ made' = made
    BY <1>5 DEF ReaderRemoveAll, RemoveAll
  <2>. QED BY <2>1, FreshClose DEF Kinds
<1>6. CASE ReaderRemove
  <2>1. CloseEntry("queue") /\ made' = made
    BY <1>6 DEF ReaderRemove, Remove
  <2>. QED BY <2>1, FreshClose DEF Kinds
<1>7. CASE EstRemoveAll
  <2>1. CloseEntry("link") /\ made' = made
    BY <1>7 DEF EstRemoveAll, RemoveAll
  <2>. QED BY <2>1, FreshClose DEF Kinds
<1>8. CASE EstRemove
  <2>1. CloseEntry("queue") /\ made' = made
    BY <1>8 DEF EstRemove, Remove
  <2>. QED BY <2>1, FreshClose DEF Kinds
<1>9.
  ASSUME \/ UNCHANGED vars \/ CloseProxyConn \/ HubClose \/ ReaderCheck
         \/ ReaderMark \/ DialFails \/ Dial \/ TrySendLink \/ AddNewProxy
         \/ TrySendQueue \/ GetWriter \/ RemoveProxy \/ EstClose \/ EstMark
         \/ TellClosed \/ WaiterGet
         \/ (\E k \in Kinds, g \in Objs, x \in Spawners : SendCheck(k, g, x))
         \/ (\E k \in Kinds, g \in Objs, x \in Spawners : SendStart(k, g, x))
         \/ (\E k \in Kinds, g \in Objs, x \in Spawners : SendReturn(k, g, x))
         \/ (\E k \in Kinds, g \in Objs, x \in Spawners : SendDone(k, g, x))
         \/ (\E k \in Kinds, g \in Objs, x \in Spawners : SendPanics(k, g, x))
  PROVE  Fresh'
  <2>1. UNCHANGED <<cur, made, closes>>
    BY <1>9, Zenon DEF CloseProxyConn, Take, HubClose, ReaderCheck, ReaderCloseEnds,
      ReaderMark, DialFails, Dial, TrySendLink, Spawn, AddNewProxy,
      TrySendQueue, GetWriter, RemoveProxy, EstClose, EstMark, TellClosed,
      WaiterGet, SendCheck, SendStart, SendReturn, SendDone, SendPanics, vars
  <2>. QED BY <2>1 DEF Fresh
<1>. QED BY <1>1, <1>2, <1>3, <1>4, <1>5, <1>6, <1>7, <1>8, <1>9
   DEF Next, ReaderStep, MasterStep, EstablishStep, SendStep
=============================================================================
