---------------------------- MODULE NetworkProofs ----------------------------
(***************************************************************************)
(* Proofs, for any number of nodes and any server among them, that the     *)
(* start-up fails no assert and gives every node the whole directory, and  *)
(* that connections made one per message are first-in first-out inboxes.   *)
(***************************************************************************)
EXTENDS Network, FiniteSetTheorems, SequenceTheorems, TLAPS

-----------------------------------------------------------------------------
(* The inductive invariant *)

\* The positions of a thread.
Labels == {"down", "init", "run", "wait", "receive", "reply", "aborted"}

\* The application of n runs.
Running(n) == pc[n]["app"] \in {"run", "wait"}

\* The positions of the two threads of a node while nothing has failed: the
\* ReceiverThread is there as long as the application runs, which knows every node by then.
Phases ==
  /\ \A n \in Nodes :
       /\ aborted[n] = "no"
       /\ pc[n]["app"] \in {"down", "init", "run", "wait"}
       /\ Running(n) => /\ pc[n]["rt"] \in {"receive", "reply"}
                        /\ NumNodes <= round
                        /\ \A m \in Nodes : dir[n][m] = Addr(m)
       /\ ~Running(n) => pc[n]["rt"] = "down"
  /\ pc[Server]["app"] # "down"
  /\ Running(Server) => round = 2 * NumNodes

\* The server knows as many nodes as it has gone rounds, and all when it is through; the
\* nodes it knows are up.
Registration ==
  /\ round <= NumNodes => Size(dir[Server]) = round
  /\ NumNodes <= round => \A m \in Nodes : dir[Server][m] = Addr(m)
  /\ \A m \in Nodes : dir[Server][m] # NoAddr => pc[m]["app"] # "down"

\* A message on its way: a Register is one of a node that the server does not know yet,
\* a Dir is the whole directory, and there are others only after all Registers.
MailOk(h, m) ==
  /\ m.kind = "Register" =>
       /\ h = Server
       /\ m.dir = Info(m.from, Addr(m.from))
       /\ pc[m.from]["app"] # "down"
       /\ dir[Server][m.from] = NoAddr
  /\ m.kind = "Dir" => \A x \in Nodes : m.dir[x] = Addr(x)
  /\ m.kind # "Register" => NumNodes <= round

\* So it is with every message on its way.
Mail == \A h \in Nodes : \A i \in DOMAIN Pending(h) : MailOk(h, Pending(h)[i])

\* No two Registers on their way are of the same node.
RegisterOnce ==
  \A i, j \in DOMAIN Pending(Server) :
    /\ Pending(Server)[i].kind = "Register" /\ Pending(Server)[j].kind = "Register"
    /\ Pending(Server)[i].from = Pending(Server)[j].from
    => i = j

\* As long as no node took another message for the directory.
Start_Up == Phases /\ Registration /\ Mail /\ RegisterOnce

\* receiveMsg reads one connection at a time.
ReadsOne == \A n \in Nodes : Len(reading[n]) <= 1

\* A node that failed has stopped.
AbortedStops == \A n \in Nodes, t \in Threads : aborted[n] # "no" => pc[n][t] = "aborted"

\* What a node knows of another is its address, and of the server it knows it.
DirsTrue ==
  \A n \in Nodes :
    /\ \A m \in Nodes : dir[n][m] \in {Addr(m), NoAddr}
    /\ dir[n][Server] = Addr(Server)

\* So it is with the directories on their way.
MailTrue ==
  \A h \in Nodes : \A i \in DOMAIN Pending(h) :
    \A x \in Nodes : Pending(h)[i].dir[x] \in {Addr(x), NoAddr}

\* The inductive invariant of every run.
IndInv ==
  /\ TypeOK /\ ReadsOne /\ AbortedStops /\ DirsTrue /\ MailTrue
  /\ FirstIsDirectory => Start_Up

-----------------------------------------------------------------------------
(* The invariant behind FirstIsDirectory *)

\* The first message to a client is its directory, which is sent in its round.
ClientMail ==
  \A n \in Nodes \ {Server} :
    pc[n]["app"] \in {"down", "init"} =>
      /\ round <= NumNodes + n => Pending(n) = <<>>
      /\ NumNodes + n < round => Pending(n) # <<>> /\ Pending(n)[1].kind = "Dir"

\* Who asks for something runs.
AskersRun ==
  /\ \A h \in Nodes : \A i \in DOMAIN Pending(h) :
       Pending(h)[i].kind = "Get" => Running(Pending(h)[i].from)
  /\ \A n \in Nodes : pc[n]["rt"] = "reply" => Running(asker[n])

\* The invariant, above IndInv, of clients that talk to the server only.
DirInv == FirstIsDirectory /\ ClientMail /\ AskersRun

-----------------------------------------------------------------------------
(* Sequences of connections and the messages on them *)

\* To append to the second of two sequences is to append to both together.
LEMMA ConcatAppend ==
  ASSUME NEW S, NEW s \in Seq(S), NEW t \in Seq(S), NEW e \in S
  PROVE  s \o Append(t, e) = Append(s \o t, e)
  <1>1. Append(t, e) = t \o <<e>> /\ <<e>> \in Seq(S) /\ s \o t \in Seq(S)
    BY AppendIsConcat
  <1>2. Append(s \o t, e) = (s \o t) \o <<e>>
    BY <1>1, AppendIsConcat
  <1>3. (s \o t) \o <<e>> = s \o (t \o <<e>>)
    BY <1>1, ConcatAssociative
  <1>4. QED
    BY <1>1, <1>2, <1>3

\* The messages on a sequence of connections.
Msgs(s) == [i \in DOMAIN s |-> s[i].msg]

\* They are as many, in the same order.
LEMMA MsgsFacts ==
  ASSUME NEW s \in Seq(Connection)
  PROVE  /\ Msgs(s) \in Seq(Message) /\ Len(Msgs(s)) = Len(s)
         /\ DOMAIN Msgs(s) = 1 .. Len(s)
         /\ \A i \in 1 .. Len(s) : Msgs(s)[i] = s[i].msg
  <1>1. DOMAIN s = 1 .. Len(s) /\ Len(s) \in Nat /\ \A i \in 1 .. Len(s) : s[i] \in Connection
    OBVIOUS
  <1>2. \A i \in 1 .. Len(s) : s[i].msg \in Message
    BY <1>1 DEF Connection
  <1>3. Msgs(s) = [i \in 1 .. Len(s) |-> s[i].msg]
    BY <1>1 DEF Msgs
  <1>4. QED
    BY <1>1, <1>2, <1>3

\* What is on its way to a node are the messages on its connections.
LEMMA PendingFacts ==
  ASSUME TypeOK, NEW n \in Nodes
  PROVE  /\ reading[n] \in Seq(Connection) /\ backlog[n] \in Seq(Connection)
         /\ reading[n] \o backlog[n] \in Seq(Connection)
         /\ Pending(n) = Msgs(reading[n] \o backlog[n])
         /\ Pending(n) \in Seq(Message) /\ Len(Pending(n)) \in Nat
         /\ DOMAIN Pending(n) = 1 .. Len(Pending(n))
         /\ Len(Pending(n)) = Len(reading[n]) + Len(backlog[n])
  <1>1. reading[n] \in Seq(Connection) /\ backlog[n] \in Seq(Connection)
    BY DEF TypeOK
  <1>2. /\ reading[n] \o backlog[n] \in Seq(Connection)
        /\ Len(reading[n] \o backlog[n]) = Len(reading[n]) + Len(backlog[n])
    BY <1>1
  <1>3. Pending(n) = Msgs(reading[n] \o backlog[n])
    BY DEF Pending, Msgs
  <1>4. \A s \in Seq(Message) : Len(s) \in Nat /\ DOMAIN s = 1 .. Len(s)
    OBVIOUS
  <1>5. QED
    BY <1>1, <1>2, <1>3, <1>4, MsgsFacts

\* The message of a new connection is behind the others.
LEMMA MsgsAppend ==
  ASSUME NEW s \in Seq(Connection), NEW c \in Connection
  PROVE  Msgs(Append(s, c)) = Append(Msgs(s), c.msg)
  <1>1. Append(s, c) \in Seq(Connection) /\ Len(Append(s, c)) = Len(s) + 1
    OBVIOUS
  <1>2. c.msg \in Message
    BY DEF Connection
  <1>3. /\ Append(Msgs(s), c.msg) \in Seq(Message)
        /\ Len(Append(Msgs(s), c.msg)) = Len(s) + 1
    BY <1>2, MsgsFacts
  <1>4. \A i \in 1 .. Len(s) + 1 : Msgs(Append(s, c))[i] = Append(Msgs(s), c.msg)[i]
    <2> SUFFICES ASSUME NEW i \in 1 .. Len(s) + 1
                 PROVE  Msgs(Append(s, c))[i] = Append(Msgs(s), c.msg)[i]
      OBVIOUS
    <2>1. Msgs(Append(s, c))[i] = Append(s, c)[i].msg
      BY <1>1, MsgsFacts
    <2>2. Append(Msgs(s), c.msg)[i] = IF i <= Len(s) THEN Msgs(s)[i] ELSE c.msg
      BY <1>2, MsgsFacts
    <2>3. QED
      BY <2>1, <2>2, MsgsFacts
  <1>5. QED
    <2> DEFINE t == Append(s, c)
               u == Append(Msgs(s), c.msg)
    <2>1. Msgs(t) \in Seq(Message) /\ Len(Msgs(t)) = Len(s) + 1
      BY <1>1, MsgsFacts
    <2> HIDE DEF t, u
    <2>2. QED
      BY <1>3, <1>4, <2>1 DEF t, u

\* What sendMsg does to the messages on their way: a connection adds its message, ...
LEMMA ConnectPending ==
  ASSUME TypeOK, NEW h \in Nodes, NEW c \in Connection, ConnectTo(h, c), reading' = reading
  PROVE  /\ backlog' \in [Nodes -> Seq(Connection)]
         /\ \A a \in Nodes :
              Pending(a)' = IF a = h THEN Append(Pending(a), c.msg) ELSE Pending(a)
  <1>1. /\ backlog \in [Nodes -> Seq(Connection)]
        /\ backlog' = [backlog EXCEPT ![h] = Append(backlog[h], c)]
    BY DEF TypeOK, ConnectTo
  <1>2. backlog' \in [Nodes -> Seq(Connection)]
    BY <1>1
  <1>3. ASSUME NEW a \in Nodes, a # h
        PROVE  Pending(a)' = Pending(a)
    BY <1>1, <1>3 DEF Pending
  <1>4. Pending(h)' = Append(Pending(h), c.msg)
    <2>1. reading[h] \o Append(backlog[h], c) = Append(reading[h] \o backlog[h], c)
      <3> DEFINE r == reading[h]
                 b == backlog[h]
      <3>1. r \in Seq(Connection) /\ b \in Seq(Connection)
        BY PendingFacts
      <3> HIDE DEF r, b
      <3>2. r \o Append(b, c) = Append(r \o b, c)
        BY ONLY <3>1, c \in Connection, ConcatAppend
      <3>3. QED
        BY <3>2 DEF r, b
    <2>2. Pending(h)' = Msgs(Append(reading[h] \o backlog[h], c))
      BY <1>1, <2>1 DEF Pending, Msgs
    <2>3. QED
      BY <2>2, PendingFacts, MsgsAppend
  <1>5. QED
    BY <1>2, <1>3, <1>4

\* ... and its end changes none.
LEMMA ClosePending ==
  ASSUME TypeOK, ReadsOne, NEW n \in Nodes, NEW t \in Threads, Close(n, t)
  PROVE  /\ backlog' \in [Nodes -> Seq(Connection)] /\ reading' \in [Nodes -> Seq(Connection)]
         /\ ReadsOne'
         /\ \A a \in Nodes : Pending(a)' = Pending(a)
  <1> DEFINE shut(c) == IF c.msg.from = n /\ c.by = t THEN [c EXCEPT !.open = FALSE] ELSE c
             closed(s) == [i \in DOMAIN s |-> shut(s[i])]
  <1>1. \A c \in Connection : shut(c) \in Connection /\ shut(c).msg = c.msg
    BY DEF Connection
  <1>2. ASSUME NEW s \in Seq(Connection)
        PROVE  /\ closed(s) \in Seq(Connection) /\ Len(closed(s)) = Len(s)
               /\ \A i \in 1 .. Len(s) : closed(s)[i].msg = s[i].msg
    <2>1. DOMAIN s = 1 .. Len(s) /\ Len(s) \in Nat /\ \A i \in 1 .. Len(s) : s[i] \in Connection
      OBVIOUS
    <2>2. \A i \in 1 .. Len(s) : shut(s[i]) \in Connection /\ shut(s[i]).msg = s[i].msg
      BY <1>1, <2>1
    <2> HIDE DEF shut
    <2>3. QED
      BY <2>1, <2>2
  <1>3. /\ backlog' = [h \in Nodes |-> closed(backlog[h])]
        /\ reading' = [h \in Nodes |-> closed(reading[h])]
    BY DEF Close
  <1> HIDE DEF shut, closed
  <1>4. /\ backlog' \in [Nodes -> Seq(Connection)] /\ reading' \in [Nodes -> Seq(Connection)]
        /\ ReadsOne'
    BY <1>2, <1>3 DEF TypeOK, ReadsOne
  <1>5. ASSUME NEW a \in Nodes
        PROVE  Pending(a)' = Pending(a)
    <2>1. /\ reading[a] \in Seq(Connection) /\ backlog[a] \in Seq(Connection)
          /\ reading'[a] = closed(reading[a]) /\ backlog'[a] = closed(backlog[a])
      BY <1>3 DEF TypeOK
    <2> DEFINE s == reading[a] \o backlog[a]
               u == closed(reading[a]) \o closed(backlog[a])
    <2>2. /\ s \in Seq(Connection) /\ u \in Seq(Connection) /\ Len(u) = Len(s)
          /\ \A i \in 1 .. Len(s) : u[i].msg = s[i].msg
      <3>1. /\ closed(reading[a]) \in Seq(Connection) /\ closed(backlog[a]) \in Seq(Connection)
            /\ Len(closed(reading[a])) = Len(reading[a])
            /\ Len(closed(backlog[a])) = Len(backlog[a])
            /\ \A i \in 1 .. Len(reading[a]) : closed(reading[a])[i].msg = reading[a][i].msg
            /\ \A i \in 1 .. Len(backlog[a]) : closed(backlog[a])[i].msg = backlog[a][i].msg
        BY <1>2, <2>1
      <3> DEFINE r == reading[a]
                 b == backlog[a]
                 cr == closed(reading[a])
                 cb == closed(backlog[a])
      <3> HIDE DEF r, b, cr, cb
      <3>2. /\ r \in Seq(Connection) /\ b \in Seq(Connection)
            /\ cr \in Seq(Connection) /\ cb \in Seq(Connection)
            /\ Len(cr) = Len(r) /\ Len(cb) = Len(b)
            /\ \A i \in 1 .. Len(r) : cr[i].msg = r[i].msg
            /\ \A i \in 1 .. Len(b) : cb[i].msg = b[i].msg
        BY <2>1, <3>1 DEF r, b, cr, cb
      <3>3. /\ r \o b \in Seq(Connection) /\ Len(r \o b) = Len(r) + Len(b)
            /\ \A i \in 1 .. Len(r) + Len(b) :
                 (r \o b)[i] = IF i <= Len(r) THEN r[i] ELSE b[i - Len(r)]
        BY <3>2, ConcatProperties
      <3>4. /\ cr \o cb \in Seq(Connection) /\ Len(cr \o cb) = Len(r) + Len(b)
            /\ \A i \in 1 .. Len(r) + Len(b) :
                 (cr \o cb)[i] = IF i <= Len(r) THEN cr[i] ELSE cb[i - Len(r)]
        <4>1. /\ cr \o cb \in Seq(Connection) /\ Len(cr \o cb) = Len(cr) + Len(cb)
              /\ \A i \in 1 .. Len(cr) + Len(cb) :
                   (cr \o cb)[i] = IF i <= Len(cr) THEN cr[i] ELSE cb[i - Len(cr)]
          <5>1. cr \in Seq(Connection) /\ cb \in Seq(Connection)
            BY <3>2
          <5>2. QED
            BY ONLY <5>1, ConcatProperties
        <4>2. QED
          BY <3>2, <4>1
      <3>5. ASSUME NEW i \in 1 .. Len(r) + Len(b)
            PROVE  (cr \o cb)[i].msg = (r \o b)[i].msg
        <4>1. CASE i <= Len(r)
          BY <3>2, <3>3, <3>4, <4>1
        <4>2. CASE ~(i <= Len(r))
          <5>1. i - Len(r) \in 1 .. Len(b)
            BY <3>2, <4>2
          <5>2. QED
            BY <3>2, <3>3, <3>4, <4>2, <5>1
        <4>3. QED
          BY <4>1, <4>2
      <3>6. QED
        BY <3>3, <3>4, <3>5 DEF r, b, cr, cb
    <2>3. Pending(a) = Msgs(s) /\ Pending(a)' = Msgs(u)
      BY <2>1 DEF Pending, Msgs
    <2> HIDE DEF s, u
    <2>4. DOMAIN s = 1 .. Len(s) /\ DOMAIN u = 1 .. Len(s)
      BY <2>2
    <2>5. QED
      BY <2>2, <2>3, <2>4 DEF Msgs
  <1>6. QED
    BY <1>4, <1>5

\* What receiveMsg does to them: accepting a connection changes none, ...
LEMMA AcceptPending ==
  ASSUME TypeOK, ReadsOne, NEW n \in Nodes, Accept(n)
  PROVE  /\ backlog' \in [Nodes -> Seq(Connection)] /\ reading' \in [Nodes -> Seq(Connection)]
         /\ ReadsOne'
         /\ \A a \in Nodes : Pending(a)' = Pending(a)
  <1>1. /\ backlog \in [Nodes -> Seq(Connection)] /\ reading \in [Nodes -> Seq(Connection)]
        /\ reading[n] = <<>> /\ backlog[n] # <<>>
        /\ reading' = [reading EXCEPT ![n] = <<Head(backlog[n])>>]
        /\ backlog' = [backlog EXCEPT ![n] = Tail(backlog[n])]
    BY DEF TypeOK, Accept
  <1>2. backlog[n] \in Seq(Connection)
    BY <1>1
  <1>3. /\ Head(backlog[n]) \in Connection /\ Tail(backlog[n]) \in Seq(Connection)
        /\ <<Head(backlog[n])>> \in Seq(Connection)
    BY <1>1, <1>2
  <1>4. <<Head(backlog[n])>> \o Tail(backlog[n]) = <<>> \o backlog[n]
    BY <1>1, <1>2
  <1>5. backlog' \in [Nodes -> Seq(Connection)] /\ reading' \in [Nodes -> Seq(Connection)]
    BY <1>1, <1>3
  <1>6. ReadsOne'
    BY <1>1 DEF ReadsOne
  <1>7. \A a \in Nodes : reading'[a] \o backlog'[a] = reading[a] \o backlog[a]
    BY <1>1, <1>4
  <1>8. QED
    BY <1>5, <1>6, <1>7 DEF Pending

\* ... and the message that is read is the first of them, which leaves.
LEMMA ReceivedPending ==
  ASSUME TypeOK, ReadsOne, NEW n \in Nodes, NEW t \in Threads, NEW kinds,
         Received(n, t, kinds), backlog' = backlog
  PROVE  /\ reading' \in [Nodes -> Seq(Connection)] /\ ReadsOne'
         /\ Pending(n) # <<>> /\ Read(n) \in Message
         /\ Pending(n)[1] = Read(n) /\ Read(n).kind \in kinds
         /\ \A a \in Nodes : Pending(a)' = IF a = n THEN Tail(Pending(a)) ELSE Pending(a)
  <1>1. /\ reading \in [Nodes -> Seq(Connection)]
        /\ reading[n] # <<>> /\ reading' = [reading EXCEPT ![n] = <<>>]
        /\ Read(n).kind \in kinds
    BY DEF TypeOK, Received
  <1>2. /\ reading[n] \in Seq(Connection) /\ Len(reading[n]) = 1
        /\ backlog[n] \in Seq(Connection)
    <2>1. /\ reading[n] \in Seq(Connection) /\ backlog[n] \in Seq(Connection)
          /\ Len(reading[n]) <= 1
      BY DEF TypeOK, ReadsOne
    <2>2. Len(reading[n]) \in Nat \ {0}
      BY <1>1, <2>1, EmptySeq
    <2>3. \A i \in Nat \ {0} : i <= 1 => i = 1
      OBVIOUS
    <2>4. QED
      BY <2>1, <2>2, <2>3
  <1>3. reading' \in [Nodes -> Seq(Connection)] /\ ReadsOne'
    BY <1>1 DEF ReadsOne
  <1> DEFINE r == reading[n]
             b == backlog[n]
  <1>4. /\ r[1] \in Connection
        /\ r \o b \in Seq(Connection) /\ Len(r \o b) = Len(b) + 1
        /\ (r \o b)[1] = r[1] /\ \A i \in 1 .. Len(b) : (r \o b)[i + 1] = b[i]
    <2> HIDE DEF r, b
    <2>1. r \in Seq(Connection) /\ b \in Seq(Connection) /\ Len(r) = 1 /\ Len(b) \in Nat
      BY <1>2 DEF r, b
    <2>2. /\ r \o b \in Seq(Connection) /\ Len(r \o b) = Len(r) + Len(b)
          /\ \A i \in 1 .. Len(r) + Len(b) :
               (r \o b)[i] = IF i <= Len(r) THEN r[i] ELSE b[i - Len(r)]
      BY <2>1, ConcatProperties
    <2>3. \A i \in 1 .. Len(b) : i + 1 \in 1 .. Len(r) + Len(b) /\ ~(i + 1 <= Len(r)) /\ i + 1 - Len(r) = i
      BY <2>1
    <2>4. QED
      BY <2>1, <2>2, <2>3
  <1>5. /\ Pending(n) \in Seq(Message) /\ Len(Pending(n)) = Len(b) + 1
        /\ Pending(n)[1] = r[1].msg /\ \A i \in 1 .. Len(b) : Pending(n)[i + 1] = b[i].msg
    <2>1. Pending(n) = Msgs(r \o b)
      BY DEF Pending, Msgs
    <2>2. \A i \in 1 .. Len(b) : i + 1 \in 1 .. Len(r \o b)
      BY <1>2, <1>4
    <2>3. 1 \in 1 .. Len(r \o b)
      BY <1>2, <1>4
    <2> HIDE DEF r, b
    <2>4. QED
      BY <1>4, <2>1, <2>2, <2>3, MsgsFacts
  <1>6. Pending(n)' = Msgs(b)
    <2>1. <<>> \o b = b
      BY <1>2
    <2>2. QED
      BY <1>1, <2>1 DEF Pending, Msgs
  <1>7. Pending(n)' = Tail(Pending(n))
    <2>1. /\ Msgs(b) \in Seq(Message) /\ Len(Msgs(b)) = Len(b)
          /\ \A i \in 1 .. Len(b) : Msgs(b)[i] = b[i].msg
      BY <1>2, MsgsFacts
    <2> HIDE DEF b, r
    <2>2. Pending(n) # <<>>
      BY <1>2, <1>5 DEF b
    <2>3. /\ Tail(Pending(n)) \in Seq(Message) /\ Len(Tail(Pending(n))) = Len(b)
          /\ \A i \in 1 .. Len(b) : Tail(Pending(n))[i] = Pending(n)[i + 1]
      BY <1>5, <2>2
    <2>4. QED
      BY <1>5, <1>6, <2>1, <2>3
  <1>8. \A a \in Nodes : a # n => Pending(a)' = Pending(a)
    BY <1>1 DEF Pending
  <1>9. Read(n) = r[1].msg /\ Read(n) \in Message /\ Pending(n) # <<>>
    <2>1. Read(n) = r[1].msg
      BY DEF Read
    <2> HIDE DEF r, b
    <2>2. Len(b) \in Nat
      BY <1>2 DEF b
    <2>3. QED
      BY <1>4, <1>5, <2>1, <2>2 DEF Connection
  <1>10. QED
    BY <1>1, <1>3, <1>5, <1>7, <1>8, <1>9

-----------------------------------------------------------------------------
(* What a step does to the messages on their way *)

\* A message joins those of h, the first one of those of n leaves, or nothing happens.
Joins(h, m) ==
  \A a \in Nodes : Pending(a)' = IF a = h THEN Append(Pending(a), m) ELSE Pending(a)
Leaves(n) == \A a \in Nodes : Pending(a)' = IF a = n THEN Tail(Pending(a)) ELSE Pending(a)
Stays     == \A a \in Nodes : Pending(a)' = Pending(a)

\* After a message joined there are that one and the old ones.
LEMMA JoinsElements ==
  ASSUME TypeOK, NEW h \in Nodes, NEW m \in Message, Joins(h, m),
         NEW a \in Nodes, NEW i \in DOMAIN Pending(a)'
  PROVE  \/ a = h /\ i = Len(Pending(a)) + 1 /\ Pending(a)'[i] = m
         \/ i \in DOMAIN Pending(a) /\ i <= Len(Pending(a)) /\ Pending(a)'[i] = Pending(a)[i]
  <1>1. /\ Pending(a) \in Seq(Message) /\ Len(Pending(a)) \in Nat
        /\ DOMAIN Pending(a) = 1 .. Len(Pending(a))
    BY PendingFacts
  <1>2. CASE a = h
    <2> DEFINE s == Pending(a)
               u == Append(s, m)
    <2>1. Pending(a)' = u
      BY <1>2 DEF Joins
    <2> HIDE DEF s
    <2>2. /\ s \in Seq(Message) /\ DOMAIN s = 1 .. Len(s) /\ Len(s) \in Nat
      BY <1>1 DEF s
    <2>3. DOMAIN u = 1 .. Len(s) + 1 /\ u[Len(s) + 1] = m /\ \A j \in 1 .. Len(s) : u[j] = s[j]
      BY <2>2
    <2> HIDE DEF u
    <2>4. i = Len(s) + 1 \/ i \in 1 .. Len(s)
      BY <2>1, <2>2, <2>3
    <2>5. QED
      BY <1>2, <2>1, <2>2, <2>3, <2>4 DEF s
  <1>3. CASE a # h
    BY <1>1, <1>3 DEF Joins
  <1>4. QED
    BY <1>2, <1>3

\* After the first message left there are the others, each one place further to the front.
LEMMA LeavesElements ==
  ASSUME TypeOK, NEW n \in Nodes, Leaves(n), Pending(n) # <<>>,
         NEW a \in Nodes, NEW i \in DOMAIN Pending(a)'
  PROVE  \/ a = n /\ i \in Nat \ {0} /\ i + 1 \in DOMAIN Pending(a) /\ Pending(a)'[i] = Pending(a)[i + 1]
         \/ a # n /\ i \in DOMAIN Pending(a) /\ Pending(a)'[i] = Pending(a)[i]
  <1>1. /\ Pending(a) \in Seq(Message) /\ Len(Pending(a)) \in Nat
        /\ DOMAIN Pending(a) = 1 .. Len(Pending(a))
    BY PendingFacts
  <1>2. CASE a = n
    <2> DEFINE s == Pending(a)
               u == Tail(s)
    <2>1. Pending(a)' = u /\ s # <<>>
      BY <1>2 DEF Leaves
    <2> HIDE DEF s
    <2>2. /\ s \in Seq(Message) /\ DOMAIN s = 1 .. Len(s) /\ Len(s) \in Nat
      BY <1>1 DEF s
    <2>3. DOMAIN u = 1 .. Len(s) - 1 /\ \A j \in 1 .. Len(s) - 1 : u[j] = s[j + 1]
      BY <2>1, <2>2
    <2> HIDE DEF u
    <2>4. i \in 1 .. Len(s) - 1 /\ i + 1 \in 1 .. Len(s)
      BY <2>1, <2>2, <2>3
    <2>5. QED
      BY <1>2, <2>1, <2>2, <2>3, <2>4 DEF s
  <1>3. CASE a # n
    BY <1>1, <1>3 DEF Leaves
  <1>4. QED
    BY <1>2, <1>3

\* Messages are messages.
LEMMA PendingElements ==
  ASSUME TypeOK, NEW a \in Nodes, NEW i \in DOMAIN Pending(a)
  PROVE  Pending(a)[i] \in Message
  BY PendingFacts, ElementOfSeq

\* If there are messages there is a first one.
LEMMA FirstPending ==
  ASSUME TypeOK, NEW a \in Nodes, Pending(a) # <<>>
  PROVE  1 \in DOMAIN Pending(a) /\ 1 <= Len(Pending(a))
  <1> DEFINE s == Pending(a)
  <1>1. s \in Seq(Message) /\ DOMAIN s = 1 .. Len(s) /\ s # <<>>
    BY PendingFacts
  <1> HIDE DEF s
  <1>2. 1 \in DOMAIN s /\ 1 <= Len(s)
    BY <1>1
  <1>3. QED
    BY <1>2 DEF s

\* The server is a node, and there is one.
LEMMA NodesFacts ==
  /\ Server \in Nodes /\ NumNodes \in Nat \ {0} /\ Nodes \subseteq Nat
  /\ IsFiniteSet(Nodes) /\ Cardinality(Nodes) = NumNodes
  <1>1. NumNodes \in Nat \ {0} /\ Server \in Nodes
    BY NetworkAssumption
  <1>2. 0 \in Int /\ NumNodes - 1 \in Int
    BY <1>1
  <1>3. IsFiniteSet(0 .. NumNodes - 1) /\ Cardinality(0 .. NumNodes - 1) = NumNodes
    BY <1>1, <1>2, FS_Interval
  <1>4. QED
    BY <1>1, <1>3 DEF Nodes

\* Addresses are of one node only, and none is the missing one.
LEMMA AddrFacts ==
  /\ \A n \in Nodes : Addr(n) \in Addrs /\ Addr(n) # NoAddr
  /\ \A n, m \in Nodes : Addr(n) = Addr(m) => n = m
  BY NetworkAssumption DEF Addr, Addrs

\* What is on its way after a message joined, if what it says of others still holds.
LEMMA MailJoins ==
  ASSUME TypeOK, RegisterOnce, NEW h \in Nodes, NEW m \in Message, Joins(h, m),
         MailOk(h, m)',
         \A a \in Nodes : \A i \in DOMAIN Pending(a), x \in Message :
           x = Pending(a)[i] => MailOk(a, x)',
         m.kind = "Register" =>
           \A i \in DOMAIN Pending(Server) :
             Pending(Server)[i].kind = "Register" => Pending(Server)[i].from # m.from
  PROVE  Mail' /\ RegisterOnce'
  <1>1. Mail'
    <2> SUFFICES ASSUME NEW a \in Nodes, NEW i \in DOMAIN Pending(a)'
                 PROVE  MailOk(a, Pending(a)[i])'
      BY DEF Mail
    <2> DEFINE x == Pending(a)'[i]
    <2>1. \A y : x = y /\ MailOk(a, y)' => MailOk(a, Pending(a)[i])'
      BY DEF MailOk
    <2>2. \/ a = h /\ x = m
          \/ i \in DOMAIN Pending(a) /\ x = Pending(a)[i] /\ Pending(a)[i] \in Message
      BY JoinsElements, PendingElements
    <2>3. QED
      BY <2>1, <2>2
  <1>2. RegisterOnce'
    <2> SUFFICES ASSUME NEW i \in DOMAIN Pending(Server)', NEW j \in DOMAIN Pending(Server)',
                        Pending(Server)'[i].kind = "Register",
                        Pending(Server)'[j].kind = "Register",
                        Pending(Server)'[i].from = Pending(Server)'[j].from
                 PROVE  i = j
      BY DEF RegisterOnce
    <2>1. /\ \/ h = Server /\ i = Len(Pending(Server)) + 1 /\ Pending(Server)'[i] = m
             \/ i \in DOMAIN Pending(Server) /\ Pending(Server)'[i] = Pending(Server)[i]
          /\ \/ h = Server /\ j = Len(Pending(Server)) + 1 /\ Pending(Server)'[j] = m
             \/ j \in DOMAIN Pending(Server) /\ Pending(Server)'[j] = Pending(Server)[j]
      BY NodesFacts, JoinsElements
    <2>2. QED
      BY <2>1 DEF RegisterOnce
  <1>3. QED
    BY <1>1, <1>2

\* The same after one left.
LEMMA MailLeaves ==
  ASSUME TypeOK, RegisterOnce, NEW n \in Nodes, Leaves(n), Pending(n) # <<>>,
         \A a \in Nodes : \A i \in DOMAIN Pending(a), x \in Message :
           x = Pending(a)[i] /\ (a # n \/ i # 1) => MailOk(a, x)'
  PROVE  Mail' /\ RegisterOnce'
  <1>1. Mail'
    <2> SUFFICES ASSUME NEW a \in Nodes, NEW i \in DOMAIN Pending(a)'
                 PROVE  MailOk(a, Pending(a)[i])'
      BY DEF Mail
    <2> DEFINE x == Pending(a)'[i]
    <2>1. \A y : x = y /\ MailOk(a, y)' => MailOk(a, Pending(a)[i])'
      BY DEF MailOk
    <2>2. \E j \in DOMAIN Pending(a) :
            x = Pending(a)[j] /\ (a # n \/ j # 1) /\ Pending(a)[j] \in Message
      <3>1. CASE a = n /\ i \in Nat \ {0} /\ i + 1 \in DOMAIN Pending(a) /\ x = Pending(a)[i + 1]
        BY <3>1, PendingElements
      <3>2. CASE a # n /\ i \in DOMAIN Pending(a) /\ x = Pending(a)[i]
        BY <3>2, PendingElements
      <3>3. QED
        BY <3>1, <3>2, LeavesElements
    <2>3. QED
      BY <2>1, <2>2
  <1>2. RegisterOnce'
    <2> SUFFICES ASSUME NEW i \in DOMAIN Pending(Server)', NEW j \in DOMAIN Pending(Server)',
                        Pending(Server)'[i].kind = "Register",
                        Pending(Server)'[j].kind = "Register",
                        Pending(Server)'[i].from = Pending(Server)'[j].from
                 PROVE  i = j
      BY DEF RegisterOnce
    <2>1. CASE n = Server
      <3>1. /\ i \in Nat /\ i + 1 \in DOMAIN Pending(Server) /\ Pending(Server)'[i] = Pending(Server)[i + 1]
            /\ j \in Nat /\ j + 1 \in DOMAIN Pending(Server) /\ Pending(Server)'[j] = Pending(Server)[j + 1]
        BY <2>1, NodesFacts, LeavesElements
      <3>2. i + 1 = j + 1
        BY <3>1 DEF RegisterOnce
      <3>3. QED
        BY <3>1, <3>2
    <2>2. CASE n # Server
      <3>1. /\ i \in DOMAIN Pending(Server) /\ Pending(Server)'[i] = Pending(Server)[i]
            /\ j \in DOMAIN Pending(Server) /\ Pending(Server)'[j] = Pending(Server)[j]
        BY <2>2, NodesFacts, LeavesElements
      <3>2. QED
        BY <3>1 DEF RegisterOnce
    <2>3. QED
      BY <2>1, <2>2
  <1>3. QED
    BY <1>1, <1>2

\* What a message says stays true while the server learns no more, no node goes down and
\* the rounds go on.
LEMMA MailOkKept ==
  ASSUME TypeOK, round \in Int, round' \in Int, round <= round', dir'[Server] = dir[Server],
         \A a \in Nodes : pc[a]["app"] # "down" => pc'[a]["app"] # "down",
         NEW h \in Nodes, NEW m \in Message, MailOk(h, m)
  PROVE  MailOk(h, m)'
  <1>1. m.from \in Nodes /\ NumNodes \in Int
    BY NodesFacts DEF Message
  <1>2. QED
    BY <1>1 DEF MailOk

-----------------------------------------------------------------------------
(* What the helpers of the actions do *)

\* A nested EXCEPT keeps the type of a function of functions.
LEMMA Except2Type ==
  ASSUME NEW S, NEW R, NEW T, NEW f \in [S -> [R -> T]],
         NEW x \in S, NEW r \in R, NEW y \in T
  PROVE  /\ [f EXCEPT ![x][r] = y] \in [S -> [R -> T]]
         /\ \A a \in S, b \in R :
              [f EXCEPT ![x][r] = y][a][b] = IF a = x /\ b = r THEN y ELSE f[a][b]
  OBVIOUS

\* A thread moves to a label, and no other thread moves.
Moves(n, t, l) ==
  /\ pc' \in [Nodes -> [Threads -> Labels]]
  /\ \A a \in Nodes, b \in Threads : pc'[a][b] = IF a = n /\ b = t THEN l ELSE pc[a][b]

\* A node fails, and no other node does.
Fails(n, why) ==
  /\ pc' \in [Nodes -> [Threads -> Labels]]
  /\ aborted' \in [Nodes -> Failures \cup {"no"}]
  /\ \A a \in Nodes, b \in Threads : pc'[a][b] = IF a = n THEN "aborted" ELSE pc[a][b]
  /\ \A a \in Nodes : aborted'[a] = IF a = n THEN why ELSE aborted[a]

\* A thread that moves on moves alone.
LEMMA GotoEffect ==
  ASSUME TypeOK, NEW n \in Nodes, NEW t \in Threads, NEW l \in Labels, Goto(n, t, l)
  PROVE  Moves(n, t, l)
  <1>1. pc \in [Nodes -> [Threads -> Labels]] /\ pc' = [pc EXCEPT ![n][t] = l]
    BY DEF TypeOK, Goto, Labels
  <1>2. QED
    BY ONLY <1>1, n \in Nodes, t \in Threads, l \in Labels, Except2Type DEF Moves

\* A node that fails stops with both threads.
LEMMA AbortEffect ==
  ASSUME TypeOK, NEW n \in Nodes, NEW why \in Failures, Abort(n, why)
  PROVE  Fails(n, why)
  <1>1. [t \in Threads |-> "aborted"] \in [Threads -> Labels]
    BY DEF Labels
  <1>2. pc' \in [Nodes -> [Threads -> Labels]]
    BY <1>1 DEF TypeOK, Abort, Labels
  <1>3. \A a \in Nodes, b \in Threads : pc'[a][b] = IF a = n THEN "aborted" ELSE pc[a][b]
    BY DEF TypeOK, Abort
  <1>4. QED
    BY <1>2, <1>3 DEF TypeOK, Abort, Fails

\* Both threads of a node that runs are where they start.
LEMMA RunEffect ==
  ASSUME TypeOK, NEW n \in Nodes, Run(n)
  PROVE  /\ pc' \in [Nodes -> [Threads -> Labels]]
         /\ pc'[n]["app"] = "run" /\ pc'[n]["rt"] = "receive"
         /\ \A a \in Nodes : a # n => pc'[a] = pc[a]
  <1> DEFINE f == [t \in Threads |-> IF t = "app" THEN "run" ELSE "receive"]
  <1>1. f \in [Threads -> Labels] /\ f["app"] = "run" /\ f["rt"] = "receive"
    BY DEF Labels, Threads
  <1>2. pc' = [pc EXCEPT ![n] = f] /\ pc \in [Nodes -> [Threads -> Labels]]
    BY DEF TypeOK, Run, Labels
  <1> HIDE DEF f
  <1>3. QED
    BY <1>1, <1>2

\* A message that is sent is on its way to the node it is for, unless that node does not
\* listen or its address is not known.
LEMMA SendEffect ==
  ASSUME TypeOK, DirsTrue, NEW n \in Nodes, NEW t \in Threads, NEW m \in Message, NEW l \in Labels,
         StartSend(n, t, m, l), reading' = reading
  PROVE  /\ backlog' \in [Nodes -> Seq(Connection)]
         /\ sending' \in [Nodes -> [Threads -> {"no", "connected", "locked", "sent"}]]
         /\ \/ /\ Up(m.to) /\ dir[n][m.to] = Addr(m.to)
               /\ Joins(m.to, m) /\ Moves(n, t, l) /\ aborted' = aborted
            \/ /\ ~(Up(m.to) /\ dir[n][m.to] = Addr(m.to))
               /\ Stays /\ \E why \in {"noInfo", "connect"} : Fails(n, why)
  <1>1. m.to \in Nodes
    BY DEF Message
  <1>2. CASE \E h \in Nodes :
               /\ Up(h) /\ Addr(h) = dir[n][m.to]
               /\ ConnectTo(h, [msg |-> m, by |-> t, open |-> TRUE])
               /\ sending' = [sending EXCEPT ![n][t] = "connected"]
               /\ Goto(n, t, l)
               /\ UNCHANGED aborted
    <2>1. PICK h \in Nodes :
               /\ Up(h) /\ Addr(h) = dir[n][m.to]
               /\ ConnectTo(h, [msg |-> m, by |-> t, open |-> TRUE])
               /\ sending' = [sending EXCEPT ![n][t] = "connected"]
               /\ Goto(n, t, l)
               /\ UNCHANGED aborted
      BY <1>2
    <2>2. dir[n][m.to] = Addr(m.to) /\ h = m.to
      BY <1>1, <2>1, AddrFacts DEF DirsTrue
    <2> DEFINE c == [msg |-> m, by |-> t, open |-> TRUE]
    <2>3. c \in Connection /\ c.msg = m
      BY DEF Connection
    <2>4. /\ backlog' \in [Nodes -> Seq(Connection)]
          /\ \A a \in Nodes :
               Pending(a)' = IF a = h THEN Append(Pending(a), c.msg) ELSE Pending(a)
      <3>1. ConnectTo(h, c)
        BY <2>1
      <3> HIDE DEF c
      <3>2. QED
        BY <2>3, <3>1, ConnectPending
    <2>5. Joins(m.to, m)
      BY <2>2, <2>3, <2>4 DEF Joins
    <2>6. sending' \in [Nodes -> [Threads -> {"no", "connected", "locked", "sent"}]]
      <3>1. sending \in [Nodes -> [Threads -> {"no", "connected", "locked", "sent"}]]
        BY DEF TypeOK
      <3>2. QED
        BY ONLY <2>1, <3>1, n \in Nodes, t \in Threads, Except2Type
    <2>7. Moves(n, t, l)
      BY <2>1, GotoEffect
    <2>8. QED
      BY <2>1, <2>2, <2>4, <2>5, <2>6, <2>7
  <1>3. CASE /\ \A h \in Nodes : ~(Up(h) /\ Addr(h) = dir[n][m.to])
             /\ Abort(n, IF dir[n][m.to] = NoAddr THEN "noInfo" ELSE "connect")
             /\ UNCHANGED <<backlog, sending>>
    <2> DEFINE why == IF dir[n][m.to] = NoAddr THEN "noInfo" ELSE "connect"
    <2>1. why \in {"noInfo", "connect"} /\ why \in Failures
      BY DEF Failures
    <2>2. Fails(n, why)
      BY <1>3, <2>1, AbortEffect
    <2>3. Stays
      BY <1>3 DEF Stays, Pending
    <2>4. ~(Up(m.to) /\ dir[n][m.to] = Addr(m.to))
      BY <1>1, <1>3
    <2>5. QED
      BY <1>3, <2>1, <2>2, <2>3, <2>4 DEF TypeOK
  <1>4. QED
    BY <1>2, <1>3 DEF StartSend

\* The directories on their way are true as long as those that join are.
LEMMA MailTrueKept ==
  ASSUME TypeOK, MailTrue
  PROVE  /\ Stays => MailTrue'
         /\ \A n \in Nodes : Leaves(n) /\ Pending(n) # <<>> => MailTrue'
         /\ \A h \in Nodes, m \in Message :
              Joins(h, m) /\ (\A x \in Nodes : m.dir[x] \in {Addr(x), NoAddr}) => MailTrue'
  <1>1. Stays => MailTrue'
    BY DEF Stays, MailTrue
  <1>2. ASSUME NEW n \in Nodes, Leaves(n), Pending(n) # <<>>
        PROVE  MailTrue'
    <2> SUFFICES ASSUME NEW a \in Nodes, NEW i \in DOMAIN Pending(a)', NEW x \in Nodes
                 PROVE  Pending(a)'[i].dir[x] \in {Addr(x), NoAddr}
      BY DEF MailTrue
    <2>1. \E j \in DOMAIN Pending(a) : Pending(a)'[i] = Pending(a)[j]
      BY <1>2, LeavesElements
    <2>2. QED
      BY <2>1 DEF MailTrue
  <1>3. ASSUME NEW h \in Nodes, NEW m \in Message, Joins(h, m),
               \A x \in Nodes : m.dir[x] \in {Addr(x), NoAddr}
        PROVE  MailTrue'
    <2> SUFFICES ASSUME NEW a \in Nodes, NEW i \in DOMAIN Pending(a)', NEW x \in Nodes
                 PROVE  Pending(a)'[i].dir[x] \in {Addr(x), NoAddr}
      BY DEF MailTrue
    <2>1. Pending(a)'[i] = m \/ (i \in DOMAIN Pending(a) /\ Pending(a)'[i] = Pending(a)[i])
      BY <1>3, JoinsElements
    <2>2. QED
      BY <1>3, <2>1 DEF MailTrue
  <1>4. QED
    BY <1>1, <1>2, <1>3

-----------------------------------------------------------------------------
(* Steps that send *)

\* A node that can act has not failed, and a step of it that fails otherwise than on the
\* first message leaves what the others took as it was.
LEMMA FailsOtherwise ==
  ASSUME IndInv, NEW n \in Nodes, NEW t \in Threads, pc[n][t] # "aborted"
  PROVE  /\ aborted[n] = "no"
         /\ \A why \in {"noInfo", "connect"} : Fails(n, why) /\ FirstIsDirectory' => FirstIsDirectory
  <1>1. aborted[n] = "no"
    BY DEF IndInv, AbortedStops
  <1>2. QED
    BY <1>1 DEF Fails, FirstIsDirectory

\* Nodes that failed have stopped after a step as before.
LEMMA StopsKept ==
  ASSUME TypeOK, AbortedStops, NEW n \in Nodes
  PROVE  /\ \A t \in Threads, l \in Labels :
              pc[n][t] # "aborted" /\ Moves(n, t, l) /\ aborted' = aborted => AbortedStops'
         /\ \A why : Fails(n, why) => AbortedStops'
  <1>1. \A t \in Threads, l \in Labels :
              pc[n][t] # "aborted" /\ Moves(n, t, l) /\ aborted' = aborted => AbortedStops'
    BY DEF AbortedStops, Moves
  <1>2. \A why : Fails(n, why) => AbortedStops'
    BY DEF AbortedStops, Fails
  <1>3. QED
    BY <1>1, <1>2

\* What a message that n is to send needs, as long as the start-up goes well: the target
\* listens at the known address, and the message says what is so.
MaySend(n, m) ==
  /\ Up(m.to) /\ dir[n][m.to] = Addr(m.to)
  /\ m.kind = "Register" =>
       /\ m.to = Server /\ m.from = n
       /\ m.dir = Info(n, Addr(n))
       /\ dir[Server][n] = NoAddr
       /\ \A i \in DOMAIN Pending(Server) :
            Pending(Server)[i].kind = "Register" => Pending(Server)[i].from # n
  /\ m.kind = "Dir" => \A x \in Nodes : m.dir[x] = Addr(x)
  /\ m.kind # "Register" => NumNodes <= round

\* Where thread t of n goes after sending.
MayMove(n, t, l) ==
  IF t = "app"
  THEN IF Running(n) THEN l \in {"run", "wait"} ELSE l = "init"
  ELSE Running(n) /\ l \in {"receive", "reply"}

\* A message that is sent keeps the start-up going well, ...
LEMMA SentStartUp ==
  ASSUME TypeOK, Start_Up, NEW n \in Nodes, NEW t \in Threads, NEW m \in Message, NEW l \in Labels,
         Joins(m.to, m), Moves(n, t, l), aborted' = aborted, dir' = dir,
         MaySend(n, m), MayMove(n, t, l),
         round' \in Nat, round' = round \/ (NumNodes <= round /\ round <= round' /\ ~Running(Server))
  PROVE  Start_Up'
  <1>1. /\ round \in Nat /\ NumNodes \in Nat /\ round <= round' /\ Server \in Nodes
        /\ "app" \in Threads /\ "rt" \in Threads /\ m.to \in Nodes /\ m.from \in Nodes
    BY NodesFacts DEF TypeOK, Threads, Message
  <1>2. \A a \in Nodes : Running(a)' = Running(a) /\ Addr(a)' = Addr(a)
    BY <1>1 DEF Running, Moves, MayMove, Threads, Addr
  <1>3. \A a \in Nodes : pc[a]["app"] # "down" => pc'[a]["app"] # "down"
    BY <1>1 DEF Moves, MayMove
  <1>4. \A a \in Nodes : pc'[a]["app"] \in {"down", "init", "run", "wait"}
    BY <1>1 DEF Moves, MayMove, Start_Up, Phases
  <1>5. \A a \in Nodes : /\ Running(a) => pc'[a]["rt"] \in {"receive", "reply"}
                         /\ ~Running(a) => pc'[a]["rt"] = "down"
    BY <1>1 DEF Moves, MayMove, Start_Up, Phases, Threads
  <1>6. Phases'
    BY <1>1, <1>2, <1>3, <1>4, <1>5 DEF Start_Up, Phases
  <1>7. Registration'
    <2>1. Size(dir'[Server]) = Size(dir[Server])
      BY DEF Size
    <2>2. round' <= NumNodes => round' = round
      BY <1>1
    <2>3. NumNodes <= round' => NumNodes <= round
      BY <1>1
    <2>4. QED
      BY <1>2, <1>3, <2>1, <2>2, <2>3 DEF Start_Up, Registration
  <1>8. MailOk(m.to, m)'
    <2>1. m.kind = "Register" => pc'[n]["app"] # "down"
      <3>1. m.kind = "Register" /\ t = "rt" => pc[n]["app"] # "down"
        BY DEF MayMove, Running
      <3>2. t = "app" => l # "down"
        BY DEF MayMove
      <3>3. QED
        BY <1>1, <3>1, <3>2 DEF Moves, Threads
    <2>2. QED
      BY <1>1, <2>1 DEF MailOk, MaySend
  <1>9. Mail' /\ RegisterOnce'
    <2>1. \A a \in Nodes : \A i \in DOMAIN Pending(a), x \in Message :
            x = Pending(a)[i] => MailOk(a, x)'
      BY <1>1, <1>3, MailOkKept DEF Start_Up, Mail
    <2>2. m.kind = "Register" =>
            \A i \in DOMAIN Pending(Server) :
              Pending(Server)[i].kind = "Register" => Pending(Server)[i].from # m.from
      BY DEF MaySend
    <2>3. QED
      BY <1>1, <1>8, <2>1, <2>2, MailJoins DEF Start_Up
  <1>10. QED
    BY <1>6, <1>7, <1>9 DEF Start_Up

\* ... and so the invariant.
LEMMA SendKeeps ==
  ASSUME IndInv, NEW n \in Nodes, NEW t \in Threads, NEW m \in Message, NEW l \in Labels,
         StartSend(n, t, m, l), UNCHANGED <<reading, dir, lock, asker, big>>,
         sends' \in [Nodes -> 0 .. MaxSends], round' \in 1 .. 2 * NumNodes,
         pc[n][t] # "aborted",
         \A x \in Nodes : m.dir[x] \in {Addr(x), NoAddr},
         Start_Up =>
           /\ MaySend(n, m) /\ MayMove(n, t, l)
           /\ round' = round \/ (NumNodes <= round /\ round <= round' /\ ~Running(Server))
  PROVE  IndInv'
  <1>1. TypeOK /\ DirsTrue /\ ReadsOne /\ AbortedStops /\ MailTrue /\ (FirstIsDirectory => Start_Up)
    BY DEF IndInv
  <1>2. m.to \in Nodes
    BY DEF Message
  <1>3. /\ backlog' \in [Nodes -> Seq(Connection)]
        /\ sending' \in [Nodes -> [Threads -> {"no", "connected", "locked", "sent"}]]
        /\ \/ /\ Up(m.to) /\ dir[n][m.to] = Addr(m.to)
              /\ Joins(m.to, m) /\ Moves(n, t, l) /\ aborted' = aborted
           \/ /\ ~(Up(m.to) /\ dir[n][m.to] = Addr(m.to))
              /\ Stays /\ \E why \in {"noInfo", "connect"} : Fails(n, why)
    BY <1>1, SendEffect
  <1>4. TypeOK'
    <2>1. pc' \in [Nodes -> [Threads -> Labels]] /\ aborted' \in [Nodes -> Failures \cup {"no"}]
      BY <1>1, <1>3 DEF Moves, Fails, TypeOK
    <2>2. QED
      BY <1>1, <1>3, <2>1 DEF TypeOK, Labels
  <1>5. ReadsOne' /\ DirsTrue'
    BY <1>1 DEF ReadsOne, DirsTrue, Addr
  <1>6. AbortedStops'
    BY <1>1, <1>3, StopsKept
  <1>7. MailTrue'
    BY <1>1, <1>2, <1>3, MailTrueKept
  <1>8. ASSUME FirstIsDirectory'
        PROVE  Start_Up'
    <2>1. FirstIsDirectory
      BY <1>3, <1>8, FailsOtherwise DEF FirstIsDirectory
    <2>2. Start_Up
      BY <1>1, <2>1
    <2>3. round' \in Nat
      BY NodesFacts
    <2>4. Joins(m.to, m) /\ Moves(n, t, l) /\ aborted' = aborted
      BY <1>3, <2>2 DEF MaySend
    <2>5. QED
      BY <1>1, <2>2, <2>3, <2>4, SentStartUp
  <1>9. QED
    BY <1>4, <1>5, <1>6, <1>7, <1>8 DEF IndInv

\* What the actions send are messages, with true directories.
LEMMA MessageTypes ==
  ASSUME TypeOK, NEW n \in Nodes
  PROVE  /\ OnePort => /\ RegisterMsg(n) \in Message
                       /\ RegisterMsg(n).dir = Info(n, Addr(n))
                       /\ \A x \in Nodes : RegisterMsg(n).dir[x] \in {Addr(x), NoAddr}
         /\ \A h \in Nodes : [kind |-> "Dir", from |-> n, to |-> h, dir |-> dir[n]] \in Message
         /\ \A kind \in {"Put", "Get", "Reply"}, h \in Nodes :
              /\ Data(kind, n, h) \in Message
              /\ \A x \in Nodes : Data(kind, n, h).dir[x] = NoAddr
  <1>1. /\ "Register" \in Kinds /\ "Dir" \in Kinds /\ Server \in Nodes
        /\ {"Put", "Get", "Reply"} \subseteq Kinds
    BY NodesFacts DEF Kinds
  <1>2. NoDir \in Directory /\ \A x \in Nodes : NoDir[x] = NoAddr
    BY DEF NoDir, Directory
  <1>3. Addr(n) \in Addrs /\ Info(n, Addr(n)) \in Directory
    BY <1>2, AddrFacts DEF Info, Directory
  <1>4. OnePort => RegisterMsg(n) = [kind |-> "Register", from |-> n, to |-> Server, dir |-> Info(n, Addr(n))]
    BY DEF OnePort, RegisterMsg, Addr
  <1>5. OnePort => RegisterMsg(n) \in Message /\ RegisterMsg(n).dir = Info(n, Addr(n))
    BY <1>1, <1>3, <1>4 DEF Message
  <1>6. \A x \in Nodes : Info(n, Addr(n))[x] \in {Addr(x), NoAddr}
    BY <1>2 DEF Info, Directory
  <1>7. \A h \in Nodes : [kind |-> "Dir", from |-> n, to |-> h, dir |-> dir[n]] \in Message
    BY <1>1 DEF TypeOK, Message
  <1>8. \A kind \in {"Put", "Get", "Reply"}, h \in Nodes :
          Data(kind, n, h) \in Message /\ Data(kind, n, h).dir = NoDir
    BY <1>1, <1>2 DEF Data, Message
  <1>9. QED
    BY <1>2, <1>5, <1>6, <1>7, <1>8

\* Client n starts.
LEMMA StartKeeps ==
  ASSUME OnePort, IndInv, NEW n \in Nodes, Start(n), big' = big
  PROVE  IndInv'
  <1>1. /\ pc[n]["app"] = "down" /\ StartSend(n, "app", RegisterMsg(n), "init")
        /\ UNCHANGED <<reading, dir, lock, round, asker, sends>>
    BY DEF Start
  <1>2. TypeOK /\ DirsTrue
    BY DEF IndInv
  <1>3. /\ RegisterMsg(n) \in Message /\ RegisterMsg(n).dir = Info(n, Addr(n))
        /\ \A x \in Nodes : RegisterMsg(n).dir[x] \in {Addr(x), NoAddr}
        /\ RegisterMsg(n).to = Server /\ RegisterMsg(n).from = n /\ RegisterMsg(n).kind = "Register"
    BY <1>2, MessageTypes DEF RegisterMsg
  <1>4. "app" \in Threads /\ "init" \in Labels
    BY DEF Threads, Labels
  <1>5. sends' \in [Nodes -> 0 .. MaxSends] /\ round' \in 1 .. 2 * NumNodes
    BY <1>1, <1>2 DEF TypeOK
  <1>6. ASSUME Start_Up
        PROVE  MaySend(n, RegisterMsg(n)) /\ MayMove(n, "app", "init")
    <2>1. Up(Server) /\ dir[n][Server] = Addr(Server)
      BY <1>2, <1>6, NodesFacts DEF DirsTrue, Start_Up, Phases, Up
    <2>2. dir[Server][n] = NoAddr
      BY <1>1, <1>6 DEF Start_Up, Registration
    <2>3. \A i \in DOMAIN Pending(Server) :
            Pending(Server)[i].kind = "Register" => Pending(Server)[i].from # n
      BY <1>1, <1>6, NodesFacts DEF Start_Up, Mail, MailOk
    <2>4. MayMove(n, "app", "init")
      BY <1>1 DEF MayMove, Running
    <2>5. QED
      BY <1>3, <2>1, <2>2, <2>3, <2>4 DEF MaySend
  <1>7. QED
    BY <1>1, <1>3, <1>4, <1>5, <1>6, SendKeeps

\* The server sends a directory, or goes past itself.
LEMMA SendDirectoryKeeps ==
  ASSUME IndInv, SendDirectory, big' = big
  PROVE  IndInv'
  <1> DEFINE i == round - NumNodes
             m == [kind |-> "Dir", from |-> Server, to |-> i, dir |-> dir[Server]]
  <1>1. /\ pc[Server]["app"] = "init" /\ round \in NumNodes .. 2 * NumNodes - 1
        /\ round' = round + 1 /\ UNCHANGED <<reading, dir, lock, asker, sends>>
    BY DEF SendDirectory, NextRound
  <1>2. TypeOK /\ DirsTrue /\ Server \in Nodes /\ NumNodes \in Nat \ {0} /\ "app" \in Threads
    BY NodesFacts DEF IndInv, Threads
  <1>3. /\ i \in Nodes /\ round \in Nat /\ round' \in Nat /\ round' \in 1 .. 2 * NumNodes
        /\ NumNodes <= round /\ round <= round'
    BY <1>1, <1>2 DEF Nodes
  <1>4. ~Running(Server)
    BY <1>1 DEF Running
  <1>5. CASE i = Server
    <2>1. UNCHANGED <<backlog, sending, pc, aborted>>
      BY <1>5 DEF SendDirectory
    <2>2. TypeOK'
      BY <1>1, <1>2, <1>3, <2>1 DEF TypeOK
    <2>3. \A a \in Nodes : Pending(a)' = Pending(a) /\ Running(a)' = Running(a) /\ Addr(a)' = Addr(a)
      BY <1>1, <2>1 DEF Pending, Running, Addr
    <2>4. ReadsOne' /\ AbortedStops' /\ DirsTrue' /\ MailTrue'
      BY <1>1, <2>1, <2>3 DEF IndInv, ReadsOne, AbortedStops, DirsTrue, MailTrue
    <2>5. ASSUME FirstIsDirectory'
          PROVE  Start_Up'
      <3>1. Start_Up
        BY <2>1, <2>5 DEF IndInv, FirstIsDirectory
      <3>2. Phases'
        BY <1>1, <1>3, <1>4, <2>1, <2>3, <3>1, <1>2 DEF Start_Up, Phases
      <3>3. Registration'
        <4>1. ~(round' <= NumNodes)
          BY <1>1, <1>2, <1>3
        <4>2. QED
          BY <1>1, <1>3, <2>1, <2>3, <3>1, <4>1 DEF Start_Up, Registration
      <3>4. Mail'
        <4> SUFFICES ASSUME NEW a \in Nodes, NEW j \in DOMAIN Pending(a)
                     PROVE  MailOk(a, Pending(a)[j])'
          BY <2>3 DEF Mail
        <4> DEFINE x == Pending(a)[j]
        <4>1. MailOk(a, x) /\ x \in Message
          BY <1>2, <3>1, PendingElements DEF Start_Up, Mail
        <4>2. \A y \in Message : MailOk(a, y) => MailOk(a, y)'
          BY <1>1, <1>2, <1>3, <2>1, MailOkKept
        <4>3. Pending(a)'[j] = x
          BY <2>3
        <4>4. \A y : y = Pending(a)'[j] /\ MailOk(a, y)' => MailOk(a, Pending(a)[j])'
          BY DEF MailOk
        <4>5. QED
          BY <4>1, <4>2, <4>3, <4>4
      <3>5. RegisterOnce'
        BY <1>2, <2>3, <3>1 DEF Start_Up, RegisterOnce
      <3>6. QED
        BY <3>2, <3>3, <3>4, <3>5 DEF Start_Up
    <2>6. QED
      BY <2>2, <2>4, <2>5 DEF IndInv
  <1>6. CASE i # Server
    <2>1. StartSend(Server, "app", m, "init")
      BY <1>6 DEF SendDirectory
    <2>2. m \in Message /\ m.to = i /\ m.dir = dir[Server] /\ m.kind = "Dir"
      BY <1>2, <1>3, MessageTypes
    <2>3. \A x \in Nodes : m.dir[x] \in {Addr(x), NoAddr}
      BY <1>2 DEF DirsTrue
    <2>4. "init" \in Labels /\ pc[Server]["app"] # "aborted"
      BY <1>1 DEF Labels
    <2>5. sends' \in [Nodes -> 0 .. MaxSends]
      BY <1>1, <1>2 DEF TypeOK
    <2>6. ASSUME Start_Up
          PROVE  MaySend(Server, m) /\ MayMove(Server, "app", "init")
      <3>1. \A x \in Nodes : dir[Server][x] = Addr(x)
        BY <1>3, <2>6 DEF Start_Up, Registration
      <3>2. Up(i)
        BY <1>3, <2>6, <3>1, AddrFacts DEF Start_Up, Registration, Phases, Up
      <3>3. QED
        BY <1>3, <1>4, <2>2, <3>1, <3>2 DEF MaySend, MayMove
    <2> HIDE DEF m, i
    <2>7. QED
      BY <1>1, <1>2, <1>3, <1>4, <2>1, <2>2, <2>3, <2>4, <2>5, <2>6, SendKeeps
  <1>7. QED
    BY <1>5, <1>6

\* A node that runs knows all nodes, and all nodes are up by then.
LEMMA RunningSends ==
  ASSUME TypeOK, Start_Up, NEW n \in Nodes, Running(n), NEW kind \in {"Put", "Get", "Reply"}, NEW h \in Nodes
  PROVE  MaySend(n, Data(kind, n, h))
  <1>1. NumNodes <= round /\ \A m \in Nodes : dir[n][m] = Addr(m)
    BY DEF Start_Up, Phases
  <1>2. Up(h)
    BY <1>1, AddrFacts DEF Start_Up, Registration, Phases, Up
  <1>3. Data(kind, n, h).to = h /\ Data(kind, n, h).kind = kind
    BY DEF Data
  <1>4. QED
    BY <1>1, <1>2, <1>3 DEF MaySend

\* The application of n puts or gets.
LEMMA CallStoreKeeps ==
  ASSUME IndInv, NEW n \in Nodes, NEW h \in Nodes, NEW kind \in {"Put", "Get"},
         CallStore(n, h, kind), big' = big
  PROVE  IndInv'
  <1> DEFINE l == IF kind = "Get" THEN "wait" ELSE "run"
             m == Data(kind, n, h)
  <1>1. /\ pc[n]["app"] = "run" /\ sends[n] < MaxSends
        /\ sends' = [sends EXCEPT ![n] = sends[n] + 1]
        /\ StartSend(n, "app", m, l) /\ UNCHANGED <<reading, dir, lock, round, asker>>
    BY DEF CallStore
  <1>2. TypeOK
    BY DEF IndInv
  <1>3. l \in Labels /\ l \in {"run", "wait"} /\ "app" \in Threads /\ kind \in {"Put", "Get", "Reply"}
    BY DEF Labels, Threads
  <1>4. sends' \in [Nodes -> 0 .. MaxSends] /\ round' \in 1 .. 2 * NumNodes
    BY <1>1, <1>2, NetworkAssumption DEF TypeOK
  <1>5. m \in Message /\ \A x \in Nodes : m.dir[x] \in {Addr(x), NoAddr}
    BY <1>2, <1>3, MessageTypes
  <1>6. Running(n) /\ MayMove(n, "app", l)
    BY <1>1, <1>3 DEF Running, MayMove
  <1>7. Start_Up => MaySend(n, m)
    BY <1>2, <1>3, <1>6, RunningSends
  <1> HIDE DEF l, m
  <1>8. QED
    BY <1>1, <1>3, <1>4, <1>5, <1>6, <1>7, SendKeeps

\* The ReceiverThread of n replies.
LEMMA SendReplyKeeps ==
  ASSUME IndInv, NEW n \in Nodes, SendReply(n), big' = big
  PROVE  IndInv'
  <1> DEFINE m == Data("Reply", n, asker[n])
  <1>1. /\ pc[n]["rt"] = "reply" /\ StartSend(n, "rt", m, "receive")
        /\ UNCHANGED <<reading, dir, lock, round, asker, sends>>
    BY DEF SendReply
  <1>2. TypeOK /\ asker[n] \in Nodes
    BY DEF IndInv, TypeOK
  <1>3. "receive" \in Labels /\ "rt" \in Threads
    BY DEF Labels, Threads
  <1>4. sends' \in [Nodes -> 0 .. MaxSends] /\ round' \in 1 .. 2 * NumNodes
    BY <1>1, <1>2 DEF TypeOK
  <1>5. m \in Message /\ \A x \in Nodes : m.dir[x] \in {Addr(x), NoAddr}
    BY <1>2, MessageTypes
  <1>6. Start_Up => Running(n) /\ MayMove(n, "rt", "receive")
    BY <1>1 DEF Start_Up, Phases, MayMove
  <1>7. Start_Up => MaySend(n, m)
    BY <1>2, <1>6, RunningSends
  <1> HIDE DEF m
  <1>8. QED
    BY <1>1, <1>3, <1>4, <1>5, <1>6, <1>7, SendKeeps

-----------------------------------------------------------------------------
(* Steps that neither send nor take a message *)

\* A step that only moves bytes and locks keeps the invariant.
LEMMA QuietKeeps ==
  ASSUME IndInv, Stays, TypeOK', ReadsOne', UNCHANGED <<dir, pc, round, aborted>>
  PROVE  IndInv'
  <1>1. \A a \in Nodes : Running(a)' = Running(a) /\ Addr(a)' = Addr(a)
    BY DEF Running, Addr
  <1>2. \A a \in Nodes : \A m : MailOk(a, m) => MailOk(a, m)'
    BY DEF MailOk
  <1>3. AbortedStops' /\ DirsTrue' /\ MailTrue'
    BY <1>1, MailTrueKept DEF IndInv, AbortedStops, DirsTrue
  <1>4. ASSUME Start_Up
        PROVE  Start_Up'
    <2>1. Phases' /\ Registration'
      BY <1>1, <1>4, NodesFacts DEF Start_Up, Phases, Registration, Size
    <2>2. Mail'
      <3> SUFFICES ASSUME NEW a \in Nodes, NEW i \in DOMAIN Pending(a)
                   PROVE  MailOk(a, Pending(a)[i])'
        BY DEF Mail, Stays
      <3>1. MailOk(a, Pending(a)[i]) /\ Pending(a)' = Pending(a)
        BY <1>4 DEF Start_Up, Mail, Stays
      <3>2. \A x, y : MailOk(a, x) /\ y = x => MailOk(a, y)'
        BY DEF MailOk
      <3>3. QED
        BY <3>1, <3>2
    <2>3. RegisterOnce'
      BY <1>4, NodesFacts DEF Start_Up, RegisterOnce, Stays
    <2>4. QED
      BY <2>1, <2>2, <2>3 DEF Start_Up
  <1>5. FirstIsDirectory' => Start_Up'
    BY <1>4 DEF IndInv, FirstIsDirectory
  <1>6. QED
    BY <1>3, <1>5 DEF IndInv

\* What the steps of sendMsg after connect, and accept, do to the state.
LEMMA QuietEffect ==
  ASSUME TypeOK, ReadsOne, NEW n \in Nodes, big' = big,
         Accept(n) \/ \E t \in Threads : SendMsg(n, t)
  PROVE  Stays /\ TypeOK' /\ ReadsOne' /\ UNCHANGED <<dir, pc, round, aborted, asker, sends>>
  <1>1. CASE Accept(n)
    <2>1. /\ backlog' \in [Nodes -> Seq(Connection)] /\ reading' \in [Nodes -> Seq(Connection)]
          /\ ReadsOne' /\ Stays
      BY <1>1, AcceptPending DEF Stays
    <2>2. UNCHANGED <<dir, lock, sending, pc, round, asker, sends, aborted>>
      BY <1>1 DEF Accept
    <2>3. QED
      BY <2>1, <2>2 DEF TypeOK
  <1>2. ASSUME NEW t \in Threads, SendMsg(n, t)
        PROVE  Stays /\ TypeOK' /\ ReadsOne' /\ UNCHANGED <<dir, pc, round, aborted, asker, sends>>
    <2>1. UNCHANGED <<dir, pc, round, asker, sends, aborted>>
      BY <1>2 DEF SendMsg, LockSend, SendReturns, CloseSock
    <2>2. /\ lock' \in [Nodes -> Threads \cup {"free"}]
          /\ sending' \in [Nodes -> [Threads -> {"no", "connected", "locked", "sent"}]]
      <3>1. PICK x \in {"no", "connected", "locked", "sent"} : sending' = [sending EXCEPT ![n][t] = x]
        BY <1>2 DEF SendMsg, LockSend, SendReturns, CloseSock
      <3>2. sending \in [Nodes -> [Threads -> {"no", "connected", "locked", "sent"}]]
        BY DEF TypeOK
      <3>3. sending' \in [Nodes -> [Threads -> {"no", "connected", "locked", "sent"}]]
        BY ONLY <3>1, <3>2, n \in Nodes, t \in Threads, Except2Type
      <3>4. lock' = lock \/ \E y \in Threads \cup {"free"} : lock' = [lock EXCEPT ![n] = y]
        BY <1>2 DEF SendMsg, LockSend, SendReturns, CloseSock
      <3>5. lock \in [Nodes -> Threads \cup {"free"}]
        BY DEF TypeOK
      <3>6. QED
        BY ONLY <3>3, <3>4, <3>5
    <2>3. /\ backlog' \in [Nodes -> Seq(Connection)] /\ reading' \in [Nodes -> Seq(Connection)]
          /\ ReadsOne' /\ Stays
      <3>1. CASE backlog' = backlog /\ reading' = reading
        BY <3>1 DEF TypeOK, ReadsOne, Stays, Pending
      <3>2. CASE Close(n, t)
        BY <3>2, ClosePending DEF Stays
      <3>3. QED
        BY <1>2, <3>1, <3>2 DEF SendMsg, LockSend, SendReturns, CloseSock
    <2>4. QED
      BY <2>1, <2>2, <2>3 DEF TypeOK
  <1>3. QED
    BY <1>1, <1>2

-----------------------------------------------------------------------------
(* Steps that take a message *)

\* A step that takes a message, and teaches the server nothing, keeps the invariant if the
\* node that took it goes on as it may.
LEMMA TakeKeeps ==
  ASSUME IndInv, NEW n \in Nodes, NEW t \in Threads, NEW kinds, Received(n, t, kinds),
         backlog' = backlog, round' = round, dir'[Server] = dir[Server],
         TypeOK', AbortedStops', DirsTrue',
         \A a \in Nodes : pc[a]["app"] # "down" => pc'[a]["app"] # "down",
         FirstIsDirectory' => aborted' = aborted,
         FirstIsDirectory' /\ Start_Up => Phases'
  PROVE  IndInv'
  <1>1. TypeOK /\ ReadsOne /\ MailTrue /\ Server \in Nodes /\ round \in Int
    <2>1. TypeOK /\ ReadsOne /\ MailTrue
      BY DEF IndInv
    <2>2. NumNodes \in Nat /\ round \in 1 .. 2 * NumNodes
      BY <2>1, NodesFacts DEF TypeOK
    <2>3. QED
      BY <2>1, <2>2, NodesFacts
  <1>2. ReadsOne' /\ Pending(n) # <<>> /\ Leaves(n)
    BY <1>1, ReceivedPending DEF Leaves
  <1>3. MailTrue'
    BY <1>1, <1>2, MailTrueKept
  <1>4. ASSUME FirstIsDirectory'
        PROVE  Start_Up'
    <2>1. Start_Up
      BY <1>4 DEF IndInv, FirstIsDirectory
    <2>2. Registration'
      BY <1>1, <2>1, AddrFacts DEF Start_Up, Registration, Size, Addr
    <2>3. Mail' /\ RegisterOnce'
      <3>1. \A a \in Nodes : \A i \in DOMAIN Pending(a), x \in Message :
              x = Pending(a)[i] => MailOk(a, x)'
        BY <1>1, <2>1, MailOkKept DEF Start_Up, Mail
      <3>2. QED
        BY <1>1, <1>2, <2>1, <3>1, MailLeaves DEF Start_Up
    <2>4. QED
      BY <1>4, <2>1, <2>2, <2>3 DEF Start_Up
  <1>5. QED
    BY <1>2, <1>3, <1>4 DEF IndInv

\* The ReceiverThread of n takes a message.
LEMMA ReceiverKeeps ==
  ASSUME IndInv, NEW n \in Nodes, ReceivePut(n) \/ ReceiveGet(n) \/ ReceiveReply(n), big' = big
  PROVE  IndInv'
  <1>1. PICK kinds : Received(n, "rt", kinds)
    BY DEF ReceivePut, ReceiveGet, ReceiveReply
  <1>2. /\ UNCHANGED <<backlog, dir, lock, sending, round, sends, aborted>>
        /\ "rt" \in Threads /\ "app" \in Threads /\ Server \in Nodes
    BY NodesFacts DEF ReceivePut, ReceiveGet, ReceiveReply, Threads
  <1>3. /\ TypeOK /\ ReadsOne /\ AbortedStops /\ DirsTrue
        /\ pc \in [Nodes -> [Threads -> Labels]] /\ asker \in [Nodes -> Nodes]
    BY DEF IndInv, TypeOK, Labels
  <1>4. reading' \in [Nodes -> Seq(Connection)] /\ Read(n) \in Message
    BY <1>1, <1>2, <1>3, ReceivedPending
  <1>5. asker' \in [Nodes -> Nodes]
    <2>1. asker' = asker \/ asker' = [asker EXCEPT ![n] = Read(n).from]
      BY DEF ReceivePut, ReceiveGet, ReceiveReply
    <2>2. QED
      BY <1>3, <1>4, <2>1 DEF Message
  <1>6. pc[n]["rt"] = "receive"
    BY <1>1 DEF Received, Receives
  <1>7. /\ pc' \in [Nodes -> [Threads -> Labels]]
        /\ \A a \in Nodes, b \in Threads :
             \/ pc'[a][b] = pc[a][b]
             \/ a = n /\ b = "rt" /\ pc'[a][b] = "reply"
             \/ a = n /\ b = "app" /\ pc[a][b] = "wait" /\ pc'[a][b] = "run"
    <2>1. CASE pc' = pc
      BY <1>3, <2>1
    <2>2. CASE Goto(n, "rt", "reply")
      <3>1. "reply" \in Labels
        BY DEF Labels
      <3>2. Moves(n, "rt", "reply")
        BY <1>2, <1>3, <2>2, <3>1, GotoEffect
      <3>3. QED
        BY <3>2 DEF Moves
    <2>3. CASE ReceiveReply(n)
      <3> DEFINE l == IF pc[n]["app"] = "wait" THEN "run" ELSE pc[n]["app"]
      <3>1. l \in Labels
        BY <1>2, <1>3 DEF Labels
      <3>2. pc' = [pc EXCEPT ![n]["app"] = l]
        BY <2>3 DEF ReceiveReply
      <3>3. Moves(n, "app", l)
        <4>1. Goto(n, "app", l)
          BY <3>2 DEF Goto
        <4> HIDE DEF l
        <4>2. QED
          BY <1>2, <1>3, <3>1, <4>1, GotoEffect
      <3>4. QED
        BY <3>3 DEF Moves
    <2>4. QED
      BY <2>1, <2>2, <2>3 DEF ReceivePut, ReceiveGet
  <1>8. TypeOK'
    BY <1>2, <1>3, <1>4, <1>5, <1>7 DEF TypeOK, Labels
  <1>9. AbortedStops' /\ DirsTrue'
    <2>1. aborted[n] = "no"
      BY <1>2, <1>3, <1>6 DEF AbortedStops
    <2>2. AbortedStops'
      <3> SUFFICES ASSUME NEW a \in Nodes, NEW b \in Threads, aborted[a] # "no"
                   PROVE  pc'[a][b] = "aborted"
        BY <1>2 DEF AbortedStops
      <3>1. pc[a][b] = "aborted" /\ a # n
        BY <1>3, <2>1 DEF AbortedStops
      <3>2. QED
        BY <1>7, <3>1
    <2>3. QED
      BY <1>2, <1>3, <2>2 DEF DirsTrue, Addr
  <1>10. \A a \in Nodes : pc[a]["app"] # "down" => pc'[a]["app"] # "down"
    BY <1>2, <1>7
  <1>11. ASSUME Start_Up
         PROVE  Phases'
    <2>1. \A a \in Nodes : /\ Running(a)' = Running(a) /\ Addr(a)' = Addr(a)
                           /\ pc'[a]["app"] = pc[a]["app"] \/ (pc[a]["app"] = "wait" /\ pc'[a]["app"] = "run")
                           /\ pc'[a]["rt"] = pc[a]["rt"] \/ (a = n /\ pc'[a]["rt"] = "reply")
      BY <1>2, <1>7 DEF Running, Addr
    <2>2. Running(n)
      BY <1>6, <1>11 DEF Start_Up, Phases
    <2>3. QED
      BY <1>2, <1>11, <2>1, <2>2 DEF Start_Up, Phases
  <1>12. QED
    BY <1>1, <1>2, <1>8, <1>9, <1>10, <1>11, TakeKeeps

\* Client n takes the directory, or another message for it, which ends it.
LEMMA ClientRunsKeeps ==
  ASSUME IndInv, NEW n \in Nodes, ClientRuns(n), big' = big
  PROVE  IndInv'
  <1>1. /\ UNCHANGED <<backlog, lock, sending, round, asker, sends>> /\ n # Server
        /\ "app" \in Threads /\ "rt" \in Threads /\ Server \in Nodes
    BY NodesFacts DEF ClientRuns, Threads
  <1>2. TypeOK /\ ReadsOne /\ AbortedStops /\ DirsTrue /\ MailTrue
    BY DEF IndInv
  <1>3. CASE /\ Received(n, "app", {"Dir"})
             /\ dir' = [dir EXCEPT ![n] = MergeIn(dir[n], Read(n).dir)]
             /\ Run(n)
             /\ UNCHANGED aborted
    <2>1. /\ reading' \in [Nodes -> Seq(Connection)] /\ Read(n) \in Message /\ Read(n).kind = "Dir"
          /\ Pending(n) # <<>> /\ Pending(n)[1] = Read(n)
      BY <1>1, <1>2, <1>3, ReceivedPending
    <2>2. 1 \in DOMAIN Pending(n)
      BY <1>2, <2>1, FirstPending
    <2>3. dir[n] \in Directory /\ Read(n).dir \in Directory
      BY <1>2, <2>1 DEF TypeOK, Message
    <2>4. dir' \in [Nodes -> Directory]
      <3>1. MergeIn(dir[n], Read(n).dir) \in Directory
        BY <2>3 DEF MergeIn, Directory
      <3>2. QED
        BY <1>2, <1>3, <3>1 DEF TypeOK
    <2>5. \A a, m \in Nodes : dir'[a][m] = IF a = n /\ Read(n).dir[m] # NoAddr THEN Read(n).dir[m] ELSE dir[a][m]
      BY <1>2, <1>3 DEF TypeOK, MergeIn
    <2>6. DirsTrue'
      <3>1. \A m \in Nodes : Read(n).dir[m] \in {Addr(m), NoAddr}
        BY <1>2, <2>1, <2>2 DEF MailTrue
      <3>2. QED
        BY <1>1, <1>2, <2>5, <3>1 DEF DirsTrue, Addr
    <2>7. /\ pc' \in [Nodes -> [Threads -> Labels]]
          /\ pc'[n]["app"] = "run" /\ pc'[n]["rt"] = "receive"
          /\ \A a \in Nodes : a # n => pc'[a] = pc[a]
      BY <1>2, <1>3, RunEffect
    <2>8. TypeOK'
      BY <1>1, <1>2, <1>3, <2>1, <2>4, <2>7 DEF TypeOK, Labels
    <2>9. pc[n]["app"] = "init" /\ aborted[n] = "no"
      BY <1>1, <1>2, <1>3 DEF Received, Receives, AbortedStops
    <2>10. AbortedStops'
      BY <1>2, <1>3, <2>7, <2>9 DEF AbortedStops
    <2>11. ASSUME Start_Up
           PROVE  Phases'
      <3>1. NumNodes <= round /\ \A m \in Nodes : Read(n).dir[m] = Addr(m)
        BY <2>1, <2>2, <2>11 DEF Start_Up, Mail, MailOk
      <3>2. \A m \in Nodes : dir'[n][m] = Addr(m)
        BY <2>5, <3>1, AddrFacts
      <3>3. \A a \in Nodes : a # n => Running(a)' = Running(a) /\ \A m \in Nodes : dir'[a][m] = dir[a][m]
        BY <2>5, <2>7 DEF Running
      <3>4. Running(n)' /\ \A a \in Nodes : Addr(a)' = Addr(a)
        BY <2>7 DEF Running, Addr
      <3>5. QED
        BY <1>1, <1>3, <2>7, <2>11, <3>1, <3>2, <3>3, <3>4 DEF Start_Up, Phases
    <2>12. dir'[Server] = dir[Server]
      BY <1>1, <1>3
    <2>13. \A a \in Nodes : pc[a]["app"] # "down" => pc'[a]["app"] # "down"
      BY <2>7
    <2>14. QED
      BY <1>1, <1>3, <2>6, <2>8, <2>10, <2>11, <2>12, <2>13, TakeKeeps
  <1>4. CASE /\ Received(n, "app", Kinds \ {"Dir"})
             /\ Abort(n, "notDir")
             /\ UNCHANGED dir
    <2>1. reading' \in [Nodes -> Seq(Connection)]
      BY <1>1, <1>2, <1>4, ReceivedPending
    <2>2. Fails(n, "notDir")
      <3>1. "notDir" \in Failures
        BY DEF Failures
      <3>2. QED
        BY <1>2, <1>4, <3>1, AbortEffect
    <2>3. TypeOK'
      BY <1>1, <1>2, <1>4, <2>1, <2>2 DEF TypeOK, Labels, Fails
    <2>4. AbortedStops' /\ DirsTrue'
      BY <1>2, <1>4, <2>2, StopsKept DEF DirsTrue, Addr
    <2>5. ~FirstIsDirectory'
      BY <2>2 DEF FirstIsDirectory, Fails
    <2>6. \A a \in Nodes : pc[a]["app"] # "down" => pc'[a]["app"] # "down"
      BY <1>1, <2>2 DEF Fails
    <2>7. QED
      BY <1>1, <1>4, <2>3, <2>4, <2>5, <2>6, TakeKeeps
  <1>5. QED
    BY <1>3, <1>4 DEF ClientRuns

\* A directory has no more entries than there are nodes, and with as many it has all.
LEMMA SizeFacts ==
  ASSUME NEW d
  PROVE  /\ IsFiniteSet({m \in Nodes : d[m] # NoAddr}) /\ Size(d) \in Nat
         /\ Size(d) = NumNodes => \A m \in Nodes : d[m] # NoAddr
  <1> DEFINE K == {m \in Nodes : d[m] # NoAddr}
  <1>1. IsFiniteSet(Nodes) /\ Cardinality(Nodes) = NumNodes /\ K \subseteq Nodes
    BY NodesFacts
  <1>2. /\ IsFiniteSet(K) /\ Cardinality(K) \in Nat
        /\ Cardinality(Nodes) = Cardinality(K) => Nodes = K
    BY <1>1, FS_Subset, FS_CardinalityType
  <1>3. Size(d) = Cardinality(K)
    BY DEF Size
  <1>4. QED
    BY <1>1, <1>2, <1>3

\* A new entry makes it one larger.
LEMMA SizeGrows ==
  ASSUME NEW d, NEW e, NEW f \in Nodes, d[f] = NoAddr, e[f] # NoAddr,
         \A m \in Nodes : m # f => e[m] = d[m]
  PROVE  Size(e) = Size(d) + 1
  <1> DEFINE K == {m \in Nodes : d[m] # NoAddr}
             L == {m \in Nodes : e[m] # NoAddr}
  <1>1. L = K \cup {f} /\ f \notin K
    OBVIOUS
  <1>2. IsFiniteSet(K) /\ Size(d) = Cardinality(K) /\ Size(e) = Cardinality(L)
    BY SizeFacts DEF Size
  <1> HIDE DEF K, L
  <1>3. QED
    BY <1>1, <1>2, FS_AddElement

\* The server takes a Register in its round.
LEMMA RegisteredKeeps ==
  ASSUME IndInv, Registered, big' = big
  PROVE  IndInv'
  <1> DEFINE S == Server
             m == Read(S)
             f == m.from
  <1>1. /\ UNCHANGED <<backlog, lock, sending, asker, sends>> /\ round' = round + 1
        /\ round < NumNodes /\ S \in Nodes /\ "app" \in Threads
    BY NodesFacts DEF Registered, Threads
  <1>2. TypeOK /\ ReadsOne /\ AbortedStops /\ DirsTrue /\ MailTrue
    BY DEF IndInv
  <1>3. round \in Nat /\ NumNodes \in Nat /\ round' \in 1 .. 2 * NumNodes
    <2>1. round \in 1 .. 2 * NumNodes /\ NumNodes \in Nat
      BY <1>2, NodesFacts DEF TypeOK
    <2>2. QED
      BY <1>1, <2>1
  <1>4. PICK kinds \in {{"Register"}, Kinds \ {"Register"}} : Received(S, "app", kinds)
    BY DEF Registered
  <1>5. /\ reading' \in [Nodes -> Seq(Connection)] /\ ReadsOne' /\ Leaves(S)
        /\ Pending(S) # <<>> /\ m \in Message /\ Pending(S)[1] = m /\ m.kind \in kinds
    BY <1>1, <1>2, <1>4, ReceivedPending DEF Leaves
  <1>6. 1 \in DOMAIN Pending(S)
    BY <1>1, <1>2, <1>5, FirstPending
  <1>7. pc[S]["app"] = "init" /\ aborted[S] = "no"
    BY <1>1, <1>2, <1>4 DEF Received, Receives, AbortedStops
  <1>8. MailTrue'
    BY <1>1, <1>2, <1>5, MailTrueKept
  <1>9. ASSUME Start_Up
        PROVE  /\ m.kind = "Register" /\ f \in Nodes
               /\ m.dir = Info(f, Addr(f)) /\ pc[f]["app"] # "down" /\ dir[S][f] = NoAddr
    <2>1. MailOk(S, m)
      BY <1>1, <1>5, <1>6, <1>9 DEF Start_Up, Mail
    <2>2. ~(NumNodes <= round) /\ f \in Nodes
      BY <1>1, <1>3, <1>5 DEF Message
    <2>3. QED
      BY <2>1, <2>2 DEF MailOk
  <1> DEFINE d == MergeIn(dir[S], m.dir)
  <1>10. ASSUME Start_Up
         PROVE  /\ \A x \in Nodes : d[x] = IF x = f THEN Addr(f) ELSE dir[S][x]
                /\ Size(d) = Size(dir[S]) + 1
    <2>1. \A x \in Nodes : d[x] = IF x = f THEN Addr(f) ELSE dir[S][x]
      BY <1>9, <1>10, AddrFacts DEF MergeIn, Info, NoDir
    <2>2. f \in Nodes /\ dir[S][f] = NoAddr /\ d[f] # NoAddr
      BY <1>9, <1>10, <2>1, AddrFacts
    <2> HIDE DEF d, f
    <2>3. QED
      BY <2>1, <2>2, SizeGrows
  <1>11. CASE dir' = [dir EXCEPT ![S] = d] /\ UNCHANGED <<pc, aborted>>
    <2>1. d \in Directory /\ \A x \in Nodes : d[x] \in {Addr(x), NoAddr} /\ d[Server] = Addr(Server)
      <3>1. /\ dir[S] \in Directory /\ m.dir \in Directory
            /\ \A x \in Nodes : dir[S][x] \in {Addr(x), NoAddr} /\ m.dir[x] \in {Addr(x), NoAddr}
            /\ dir[S][Server] = Addr(Server)
        BY <1>1, <1>2, <1>5, <1>6 DEF TypeOK, Message, DirsTrue, MailTrue
      <3>2. QED
        BY <1>1, <3>1 DEF MergeIn, Directory
    <2>2. /\ dir' \in [Nodes -> Directory] /\ dir'[S] = d
          /\ \A a \in Nodes : a # S => dir'[a] = dir[a]
      BY <1>1, <1>2, <1>11, <2>1 DEF TypeOK
    <2>3. TypeOK'
      BY <1>1, <1>2, <1>3, <1>5, <1>11, <2>2 DEF TypeOK
    <2>4. AbortedStops' /\ DirsTrue'
      BY <1>2, <1>11, <2>1, <2>2 DEF AbortedStops, DirsTrue, Addr
    <2>5. ASSUME FirstIsDirectory'
          PROVE  Start_Up'
      <3>1. Start_Up
        BY <1>11, <2>5 DEF IndInv, FirstIsDirectory
      <3>2. /\ f \in Nodes /\ pc[f]["app"] # "down" /\ m.kind = "Register" /\ dir[S][f] = NoAddr
            /\ \A x \in Nodes : d[x] = IF x = f THEN Addr(f) ELSE dir[S][x]
            /\ Size(d) = Size(dir[S]) + 1
        BY <1>9, <1>10, <3>1
      <3>3. Size(dir[S]) = round /\ Size(d) = round'
        BY <1>1, <1>3, <3>1, <3>2 DEF Start_Up, Registration
      <3> HIDE DEF d, f, m
      <3>4. Phases'
        <4>1. \A a \in Nodes : ~Running(a) /\ ~Running(a)'
          BY <1>1, <1>3, <1>11, <3>1 DEF Start_Up, Phases, Running
        <4>2. QED
          BY <1>1, <1>11, <3>1, <4>1 DEF Start_Up, Phases
      <3>5. Registration'
        <4>1. NumNodes <= round' => \A x \in Nodes : d[x] = Addr(x)
          <5>1. NumNodes <= round' => round' = NumNodes
            BY <1>1, <1>3
          <5>2. QED
            BY <2>1, <3>3, <5>1, SizeFacts
        <4>2. \A x \in Nodes : d[x] # NoAddr => pc[x]["app"] # "down"
          BY <3>1, <3>2 DEF Start_Up, Registration
        <4>3. \A x \in Nodes : Addr(x)' = Addr(x)
          BY DEF Addr
        <4>4. QED
          BY <1>11, <2>2, <3>3, <4>1, <4>2, <4>3 DEF Registration, Size
      <3>6. Mail' /\ RegisterOnce'
        <4> SUFFICES ASSUME NEW a \in Nodes, NEW i \in DOMAIN Pending(a), NEW x \in Message,
                            x = Pending(a)[i], a # S \/ i # 1
                     PROVE  MailOk(a, x)'
          BY <1>1, <1>2, <1>5, <3>1, MailLeaves DEF Start_Up
        <4>1. MailOk(a, x) /\ x.from \in Nodes
          BY <3>1 DEF Start_Up, Mail, Message
        <4>2. x.kind = "Register" => x.from # f
          <5>1. x.kind = "Register" => a = S
            BY <4>1 DEF MailOk
          <5>2. QED
            BY <1>5, <1>6, <3>1, <3>2, <5>1 DEF Start_Up, RegisterOnce, f
        <4>3. x.kind = "Register" => dir'[S][x.from] = NoAddr
          BY <2>2, <3>2, <4>1, <4>2 DEF MailOk
        <4>4. x.kind # "Register" => NumNodes <= round'
          BY <1>1, <1>3, <4>1 DEF MailOk
        <4>5. QED
          BY <1>11, <4>1, <4>3, <4>4 DEF MailOk, Info, Addr, NoDir
      <3>7. QED
        BY <3>4, <3>5, <3>6 DEF Start_Up
    <2>6. QED
      BY <1>5, <1>8, <2>3, <2>4, <2>5 DEF IndInv
  <1>12. ASSUME NEW why \in {"duplicate", "notRegister"}, Abort(S, why), dir' = dir,
                why = "duplicate" => Size(d) # Size(dir[S]) + 1,
                why = "notRegister" => m.kind # "Register"
         PROVE  IndInv'
    <2>1. Fails(S, why)
      <3>1. why \in Failures
        BY DEF Failures
      <3>2. QED
        BY <1>1, <1>2, <1>12, <3>1, AbortEffect
    <2>2. TypeOK'
      BY <1>1, <1>2, <1>3, <1>5, <1>12, <2>1 DEF TypeOK, Labels, Fails
    <2>3. AbortedStops' /\ DirsTrue'
      BY <1>1, <1>2, <1>12, <2>1, StopsKept DEF DirsTrue, Addr
    <2>4. ~FirstIsDirectory'
      <3>1. ~Start_Up
        BY <1>9, <1>10, <1>12
      <3>2. \E a \in Nodes : aborted[a] = "notDir" /\ a # S
        BY <1>7, <3>1 DEF IndInv, FirstIsDirectory
      <3>3. QED
        BY <2>1, <3>2 DEF Fails, FirstIsDirectory
    <2>5. QED
      BY <1>5, <1>8, <2>2, <2>3, <2>4 DEF IndInv
  <1>13. QED
    <2>1. CASE Received(S, "app", {"Register"}) /\ HandleRegister(S)
      BY <1>11, <1>12, <2>1 DEF HandleRegister
    <2>2. CASE Received(S, "app", Kinds \ {"Register"}) /\ Abort(S, "notRegister") /\ UNCHANGED dir
      <3>1. m.kind # "Register"
        BY <2>2 DEF Received
      <3>2. QED
        BY <1>12, <2>2, <3>1
    <2>3. QED
      BY <2>1, <2>2 DEF Registered

\* The server is through with the directories, and runs.
LEMMA ServerRunsKeeps ==
  ASSUME IndInv, ServerRuns, big' = big
  PROVE  IndInv'
  <1>1. /\ UNCHANGED <<backlog, reading, dir, lock, sending, round, asker, sends, aborted>>
        /\ pc[Server]["app"] = "init" /\ round = 2 * NumNodes /\ Run(Server)
        /\ Server \in Nodes /\ "app" \in Threads /\ NumNodes \in Nat \ {0}
    BY NodesFacts DEF ServerRuns, Threads
  <1>2. TypeOK /\ ReadsOne /\ AbortedStops /\ DirsTrue /\ MailTrue
    BY DEF IndInv
  <1>3. /\ pc' \in [Nodes -> [Threads -> Labels]]
        /\ pc'[Server]["app"] = "run" /\ pc'[Server]["rt"] = "receive"
        /\ \A a \in Nodes : a # Server => pc'[a] = pc[a]
    BY <1>1, <1>2, RunEffect
  <1>4. TypeOK' /\ ReadsOne' /\ DirsTrue' /\ Stays
    BY <1>1, <1>2, <1>3 DEF TypeOK, Labels, ReadsOne, DirsTrue, Addr, Stays, Pending
  <1>5. AbortedStops'
    BY <1>1, <1>2, <1>3 DEF AbortedStops
  <1>6. MailTrue'
    BY <1>2, <1>4, MailTrueKept
  <1>7. ASSUME Start_Up
        PROVE  Start_Up'
    <2>1. /\ \A a \in Nodes : a # Server => Running(a)' = Running(a)
          /\ \A a \in Nodes : Addr(a)' = Addr(a) /\ (pc[a]["app"] # "down" => pc'[a]["app"] # "down")
      BY <1>1, <1>3 DEF Running, Addr
    <2>2. NumNodes <= round /\ round \in Int
      BY <1>1
    <2>3. \A x \in Nodes : dir[Server][x] = Addr(x)
      BY <1>7, <2>2 DEF Start_Up, Registration
    <2>4. Phases'
      BY <1>1, <1>3, <1>7, <2>1, <2>2, <2>3 DEF Start_Up, Phases, Running
    <2>5. Registration'
      BY <1>1, <1>7, <2>1 DEF Start_Up, Registration, Size
    <2>6. Mail'
      <3> SUFFICES ASSUME NEW a \in Nodes, NEW i \in DOMAIN Pending(a)
                   PROVE  MailOk(a, Pending(a)[i])'
        BY <1>4 DEF Mail, Stays
      <3>1. /\ MailOk(a, Pending(a)[i]) /\ Pending(a)' = Pending(a) /\ Pending(a)[i] \in Message
        BY <1>2, <1>4, <1>7, PendingElements DEF Start_Up, Mail, Stays
      <3>2. \A x \in Message : MailOk(a, x) => MailOk(a, x)'
        BY <1>1, <1>2, <2>1, <2>2, MailOkKept
      <3>3. \A y : y = Pending(a)'[i] => (MailOk(a, y)' => MailOk(a, Pending(a)[i])')
        BY DEF MailOk
      <3>4. QED
        BY <3>1, <3>2, <3>3
    <2>7. RegisterOnce'
      BY <1>1, <1>4, <1>7 DEF Start_Up, RegisterOnce, Stays
    <2>8. QED
      BY <2>4, <2>5, <2>6, <2>7 DEF Start_Up
  <1>8. QED
    BY <1>1, <1>4, <1>5, <1>6, <1>7 DEF IndInv, FirstIsDirectory

-----------------------------------------------------------------------------
(* The invariant *)

\* At first only the server is up, and known.
LEMMA InitInd ==
  ASSUME Init
  PROVE  IndInv
  <1>1. Server \in Nodes /\ NumNodes \in Nat \ {0} /\ "app" \in Threads /\ "rt" \in Threads
    BY NodesFacts DEF Threads
  <1>2. \A a \in Nodes : Pending(a) = <<>> /\ reading[a] = <<>> /\ backlog[a] = <<>>
    BY DEF Init, Pending
  <1> DEFINE d0 == [NoDir EXCEPT ![Server] = Addr(Server)]
  <1>3. d0 \in Directory /\ \A x \in Nodes : d0[x] = IF x = Server THEN Addr(Server) ELSE NoAddr
    BY <1>1, AddrFacts DEF NoDir, Directory
  <1>4. \A a \in Nodes : dir[a] = d0
    BY DEF Init
  <1> HIDE DEF d0
  <1>5. /\ pc \in [Nodes -> [Threads -> Labels]]
        /\ \A a \in Nodes : /\ pc[a]["app"] = IF a = Server THEN "init" ELSE "down"
                            /\ pc[a]["rt"] = "down"
    BY <1>1 DEF Init, Labels, Threads
  <1>6. TypeOK
    <2>1. big \subseteq Big
      BY DEF Init
    <2>2. round \in 1 .. 2 * NumNodes /\ sends \in [Nodes -> 0 .. MaxSends]
      BY <1>1, NetworkAssumption DEF Init
    <2>3. /\ asker \in [Nodes -> Nodes] /\ aborted \in [Nodes -> Failures \cup {"no"}]
          /\ lock \in [Nodes -> Threads \cup {"free"}]
          /\ sending \in [Nodes -> [Threads -> {"no", "connected", "locked", "sent"}]]
      BY <1>1 DEF Init
    <2>4. backlog \in [Nodes -> Seq(Connection)] /\ reading \in [Nodes -> Seq(Connection)]
      BY DEF Init
    <2>5. dir \in [Nodes -> Directory]
      BY <1>3, <1>4 DEF Init
    <2>6. QED
      BY <1>5, <2>1, <2>2, <2>3, <2>4, <2>5 DEF TypeOK, Labels
  <1>7. ReadsOne /\ AbortedStops /\ DirsTrue /\ MailTrue
    <2>1. ReadsOne /\ MailTrue
      BY <1>2 DEF ReadsOne, MailTrue
    <2>2. AbortedStops
      BY DEF Init, AbortedStops
    <2>3. DirsTrue
      BY <1>1, <1>3, <1>4 DEF DirsTrue
    <2>4. QED
      BY <2>1, <2>2, <2>3
  <1>8. Size(d0) = 1
    <2>1. {x \in Nodes : d0[x] # NoAddr} = {Server}
      BY <1>1, <1>3, AddrFacts
    <2>2. QED
      BY <2>1, FS_Singleton DEF Size
  <1>9. NumNodes <= 1 => \A x \in Nodes : x = Server
    BY <1>1 DEF Nodes
  <1>10. Start_Up
    <2>1. round = 1 /\ \A a \in Nodes : aborted[a] = "no"
      BY DEF Init
    <2>2. Phases
      BY <1>1, <1>5, <2>1 DEF Phases, Running
    <2>3. Registration
      BY <1>1, <1>3, <1>4, <1>5, <1>8, <1>9, <2>1 DEF Registration
    <2>4. Mail /\ RegisterOnce
      BY <1>1, <1>2 DEF Mail, RegisterOnce
    <2>5. QED
      BY <2>2, <2>3, <2>4 DEF Start_Up
  <1>11. QED
    BY <1>6, <1>7, <1>10 DEF IndInv

\* Every step keeps it.
LEMMA NextInd ==
  ASSUME OnePort, IndInv, [Next]_vars
  PROVE  IndInv'
  <1>1. CASE UNCHANGED vars
    <2>1. UNCHANGED <<backlog, reading, dir, lock, sending, pc, round, asker, sends, aborted, big>>
      BY <1>1 DEF vars, moving
    <2>2. Stays /\ TypeOK' /\ ReadsOne'
      BY <2>1 DEF IndInv, TypeOK, ReadsOne, Stays, Pending
    <2>3. QED
      BY <2>1, <2>2, QuietKeeps
  <1>2. CASE Next
    <2>1. big' = big
      BY <1>2 DEF Next
    <2>2. CASE ServerInit
      BY <2>1, <2>2, RegisteredKeeps, SendDirectoryKeeps, ServerRunsKeeps DEF ServerInit
    <2>3. ASSUME NEW n \in Nodes, ClientInit(n)
          PROVE  IndInv'
      BY <2>1, <2>3, StartKeeps, ClientRunsKeeps DEF ClientInit
    <2>4. ASSUME NEW n \in Nodes, Accept(n) \/ \E t \in Threads : SendMsg(n, t)
          PROVE  IndInv'
      BY <2>1, <2>4, QuietEffect, QuietKeeps DEF IndInv
    <2>5. ASSUME NEW n \in Nodes, ReceiverStep(n)
          PROVE  IndInv'
      BY <2>1, <2>5, ReceiverKeeps, SendReplyKeeps DEF ReceiverStep
    <2>6. ASSUME NEW n \in Nodes, AppCalls(n)
          PROVE  IndInv'
      BY <2>1, <2>6, CallStoreKeeps DEF AppCalls
    <2>7. QED
      BY <1>2, <2>2, <2>3, <2>4, <2>5, <2>6 DEF Next
  <1>3. QED
    BY <1>1, <1>2

\* If all nodes have one port, as in the tests of the network, the start-up goes well until
\* a client takes another message for the directory, whatever the applications send.
THEOREM StartsWell ==
  ASSUME OnePort
  PROVE  Spec => []IndInv
  <1>1. Init => IndInv
    BY InitInd
  <1>2. IndInv /\ [Next]_vars => IndInv'
    BY NextInd
  <1>3. QED
    BY <1>1, <1>2, PTL DEF Spec

\* While the start-up goes well no assert of it fails, and what runs knows every node.
LEMMA StartUpSafe ==
  ASSUME IndInv, FirstIsDirectory
  PROVE  StartupSafe
  BY DEF IndInv, Start_Up, Phases, Running, StartupSafe

\* server_init and handleRegisterMsg fail no assert, every message goes to a node that
\* listens at the address in the directory, and a node that runs knows every node
\* (network.h:73), unless client_init's own assert fails first.
THEOREM SafeWhileDirectoryFirst ==
  ASSUME OnePort
  PROVE  Spec => [](FirstIsDirectory => StartupSafe)
  <1>1. IndInv => (FirstIsDirectory => StartupSafe)
    BY StartUpSafe
  <1>2. QED
    BY <1>1, StartsWell, PTL

-----------------------------------------------------------------------------
(* The first message to a client *)

\* A message that is sent is on its way, since the start-up goes well before and after.
LEMMA SentWell ==
  ASSUME IndInv, IndInv', FirstIsDirectory,
         NEW n \in Nodes, NEW t \in Threads, NEW m \in Message, NEW l \in Labels,
         StartSend(n, t, m, l), reading' = reading, pc[n][t] # "aborted"
  PROVE  Joins(m.to, m) /\ Moves(n, t, l) /\ aborted' = aborted
  <1>1. \/ Joins(m.to, m) /\ Moves(n, t, l) /\ aborted' = aborted
        \/ \E why \in {"noInfo", "connect"} : Fails(n, why)
    BY SendEffect DEF IndInv
  <1>2. ASSUME NEW why \in {"noInfo", "connect"}, Fails(n, why)
        PROVE  FALSE
    <2>1. FirstIsDirectory'
      BY <1>2 DEF FirstIsDirectory, Fails
    <2>2. aborted'[n] = "no"
      BY <2>1 DEF IndInv, Start_Up, Phases
    <2>3. QED
      BY <1>2, <2>2 DEF Fails
  <1>3. QED
    BY <1>1, <1>2

\* Who has asked goes on running, as long as nobody fails.
LEMMA AskersKept ==
  ASSUME TypeOK, AskersRun,
         \A a \in Nodes : Running(a) => Running(a)',
         \/ Stays
         \/ \E n \in Nodes : Leaves(n) /\ Pending(n) # <<>>
         \/ \E h \in Nodes, m \in Message : Joins(h, m) /\ (m.kind = "Get" => Running(m.from)),
         \A a \in Nodes : \/ pc'[a]["rt"] # "reply"
                          \/ pc[a]["rt"] = "reply" /\ asker'[a] = asker[a]
                          \/ asker'[a] \in Nodes /\ Running(asker'[a])
  PROVE  AskersRun'
  <1>1. ASSUME NEW a \in Nodes, NEW i \in DOMAIN Pending(a)', Pending(a)'[i].kind = "Get"
        PROVE  Pending(a)'[i].from \in Nodes /\ Running(Pending(a)'[i].from)
    <2>1. \/ \E j \in DOMAIN Pending(a) : Pending(a)'[i] = Pending(a)[j]
          \/ Pending(a)'[i] \in Message /\ Running(Pending(a)'[i].from)
      <3>1. CASE Stays
        BY <3>1 DEF Stays
      <3>2. ASSUME NEW n \in Nodes, Leaves(n), Pending(n) # <<>>
            PROVE  \E j \in DOMAIN Pending(a) : Pending(a)'[i] = Pending(a)[j]
        BY <3>2, LeavesElements
      <3>3. ASSUME NEW h \in Nodes, NEW m \in Message, Joins(h, m), m.kind = "Get" => Running(m.from)
            PROVE  \/ \E j \in DOMAIN Pending(a) : Pending(a)'[i] = Pending(a)[j]
                   \/ Pending(a)'[i] \in Message /\ Running(Pending(a)'[i].from)
        BY <1>1, <3>3, JoinsElements
      <3>4. QED
        BY <3>1, <3>2, <3>3
    <2>2. ASSUME NEW j \in DOMAIN Pending(a), Pending(a)'[i] = Pending(a)[j]
          PROVE  Pending(a)'[i].from \in Nodes /\ Running(Pending(a)'[i].from)
      BY <1>1, <2>2, PendingElements DEF AskersRun, Message
    <2>3. QED
      BY <2>1, <2>2 DEF Message
  <1>2. \A a \in Nodes : pc'[a]["rt"] = "reply" => asker'[a] \in Nodes /\ Running(asker'[a])
    BY DEF AskersRun, TypeOK
  <1>3. QED
    BY <1>1, <1>2 DEF AskersRun, Running

\* The first message to a client stays the first until the client takes it.
LEMMA ClientMailKept ==
  ASSUME TypeOK, ClientMail, round' = round,
         \A n \in Nodes \ {Server} :
           pc'[n]["app"] \in {"down", "init"} =>
             /\ pc[n]["app"] \in {"down", "init"}
             /\ \/ Pending(n)' = Pending(n)
                \/ \E m \in Message : Pending(n) # <<>> /\ Pending(n)' = Append(Pending(n), m)
  PROVE  ClientMail'
  <1> SUFFICES ASSUME NEW n \in Nodes \ {Server}, pc'[n]["app"] \in {"down", "init"}
               PROVE  /\ round <= NumNodes + n => Pending(n)' = <<>>
                      /\ NumNodes + n < round => Pending(n)' # <<>> /\ Pending(n)'[1].kind = "Dir"
    BY DEF ClientMail
  <1>1. /\ round <= NumNodes + n => Pending(n) = <<>>
        /\ NumNodes + n < round => Pending(n) # <<>> /\ Pending(n)[1].kind = "Dir"
    BY DEF ClientMail
  <1>2. CASE Pending(n)' = Pending(n)
    BY <1>1, <1>2
  <1>3. ASSUME NEW m \in Message, Pending(n) # <<>>, Pending(n)' = Append(Pending(n), m)
        PROVE  Pending(n)' # <<>> /\ Pending(n)'[1] = Pending(n)[1]
    <2> DEFINE s == Pending(n)
               u == Append(s, m)
    <2>1. s \in Seq(Message) /\ 1 <= Len(s)
      BY <1>3, PendingFacts, FirstPending
    <2>2. Pending(n)' = u
      BY <1>3
    <2> HIDE DEF s
    <2>3. u # <<>> /\ u[1] = s[1]
      BY <2>1
    <2>4. QED
      BY <2>2, <2>3 DEF s
  <1>4. QED
    BY <1>1, <1>2, <1>3

\* What the start-up has done by now, for the steps below.
LEMMA DirFacts ==
  ASSUME IndInv, DirInv
  PROVE  /\ TypeOK /\ ReadsOne /\ Start_Up /\ FirstIsDirectory /\ ClientMail /\ AskersRun
         /\ \A a \in Nodes : aborted[a] = "no"
         /\ NumNodes \in Nat \ {0} /\ round \in Nat /\ round <= 2 * NumNodes
         /\ Server \in Nodes /\ "app" \in Threads /\ "rt" \in Threads
  <1>1. TypeOK /\ ReadsOne /\ Start_Up /\ FirstIsDirectory /\ ClientMail /\ AskersRun
    BY DEF IndInv, DirInv
  <1>2. NumNodes \in Nat \ {0} /\ round \in 1 .. 2 * NumNodes
    BY <1>1, NodesFacts DEF TypeOK
  <1>3. round \in Nat /\ round <= 2 * NumNodes
    BY <1>2
  <1>4. QED
    BY <1>1, <1>2, <1>3, NodesFacts DEF Start_Up, Phases, Threads

\* A client starts: its Register is for the server.
LEMMA StartDir ==
  ASSUME OnePort, IndInv, IndInv', DirInv, NEW n \in Nodes, Start(n)
  PROVE  DirInv'
  <1> DEFINE m == RegisterMsg(n)
  <1>1. /\ TypeOK /\ ClientMail /\ AskersRun /\ Server \in Nodes /\ "app" \in Threads /\ "rt" \in Threads
        /\ FirstIsDirectory
    BY DirFacts
  <1>2. /\ pc[n]["app"] = "down" /\ StartSend(n, "app", m, "init")
        /\ UNCHANGED <<reading, dir, lock, round, asker, sends>> /\ "init" \in Labels
    BY DEF Start, Labels
  <1>3. m \in Message /\ m.to = Server /\ m.kind = "Register"
    BY <1>1, MessageTypes DEF RegisterMsg
  <1> HIDE DEF m
  <1>4. Joins(Server, m) /\ Moves(n, "app", "init") /\ aborted' = aborted
    BY <1>1, <1>2, <1>3, SentWell
  <1>5. /\ \A a \in Nodes : Running(a)' = Running(a) /\ pc'[a]["rt"] = pc[a]["rt"]
        /\ \A a \in Nodes : pc'[a]["app"] \in {"down", "init"} => pc[a]["app"] \in {"down", "init"}
    BY <1>1, <1>2, <1>4 DEF Moves, Running, Threads
  <1>6. AskersRun'
    BY <1>1, <1>2, <1>3, <1>4, <1>5, AskersKept
  <1>7. ClientMail'
    BY <1>1, <1>2, <1>4, <1>5, ClientMailKept DEF Joins
  <1>8. QED
    BY <1>1, <1>4, <1>6, <1>7 DEF DirInv, FirstIsDirectory

\* The server sends a client its directory, the first message to it.
LEMMA SendDirectoryDir ==
  ASSUME IndInv, IndInv', DirInv, SendDirectory
  PROVE  DirInv'
  <1> DEFINE k == round - NumNodes
             m == [kind |-> "Dir", from |-> Server, to |-> k, dir |-> dir[Server]]
  <1>1. /\ TypeOK /\ ClientMail /\ AskersRun /\ Server \in Nodes /\ "app" \in Threads /\ "rt" \in Threads
        /\ FirstIsDirectory /\ NumNodes \in Nat \ {0} /\ round \in Nat /\ Nodes \subseteq Nat
    BY DirFacts, NodesFacts
  <1>2. /\ pc[Server]["app"] = "init" /\ round \in NumNodes .. 2 * NumNodes - 1
        /\ round' = round + 1 /\ UNCHANGED <<reading, dir, lock, asker, sends>> /\ "init" \in Labels
    BY DEF SendDirectory, NextRound, Labels
  <1>3. k \in Nodes /\ round = NumNodes + k
    BY <1>1, <1>2 DEF Nodes
  <1>4. m \in Message /\ m.to = k /\ m.kind = "Dir"
    BY <1>1, <1>3, MessageTypes
  <1>5. /\ aborted' = aborted
        /\ \A a \in Nodes : /\ Running(a)' = Running(a) /\ pc'[a]["rt"] = pc[a]["rt"]
                            /\ pc'[a]["app"] = pc[a]["app"]
        /\ IF k = Server THEN Stays ELSE Joins(k, m)
    <2>1. CASE k = Server
      BY <1>2, <2>1 DEF SendDirectory, Stays, Pending, Running
    <2>2. CASE k # Server
      <3>1. StartSend(Server, "app", m, "init")
        BY <2>2 DEF SendDirectory
      <3> HIDE DEF m, k
      <3>2. Joins(k, m) /\ Moves(Server, "app", "init") /\ aborted' = aborted
        BY <1>1, <1>2, <1>4, <3>1, SentWell
      <3>3. QED
        BY <1>1, <1>2, <2>2, <3>2 DEF Moves, Running
    <2>3. QED
      BY <2>1, <2>2
  <1> HIDE DEF k, m
  <1>6. AskersRun'
    BY <1>1, <1>2, <1>3, <1>4, <1>5, AskersKept
  <1>7. ClientMail'
    <2> SUFFICES ASSUME NEW n \in Nodes \ {Server}, pc'[n]["app"] \in {"down", "init"}
                 PROVE  /\ round' <= NumNodes + n => Pending(n)' = <<>>
                        /\ NumNodes + n < round' => Pending(n)' # <<>> /\ Pending(n)'[1].kind = "Dir"
      BY DEF ClientMail
    <2>1. /\ round <= NumNodes + n => Pending(n) = <<>>
          /\ NumNodes + n < round => Pending(n) # <<>> /\ Pending(n)[1].kind = "Dir"
      BY <1>1, <1>5 DEF ClientMail
    <2>2. n \in Nat /\ k \in Nat
      BY <1>1, <1>3
    <2>3. CASE n = k
      <3>1. Pending(n) = <<>>
        BY <1>1, <1>3, <2>1, <2>2, <2>3
      <3>2. Pending(n)' = <<m>>
        <4>1. Pending(n)' = Append(Pending(n), m)
          BY <1>5, <2>3 DEF Joins
        <4>2. QED
          BY <3>1, <4>1
      <3>3. <<m>> # <<>> /\ <<m>>[1] = m
        OBVIOUS
      <3>4. ~(round' <= NumNodes + n)
        BY <1>1, <1>2, <1>3, <2>2, <2>3
      <3>5. QED
        BY <1>4, <3>2, <3>3, <3>4
    <2>4. CASE n # k
      <3>1. Pending(n)' = Pending(n)
        BY <1>5, <2>4 DEF Stays, Joins
      <3>2. /\ round' <= NumNodes + n => round <= NumNodes + n
            /\ NumNodes + n < round' => NumNodes + n < round
        BY <1>1, <1>2, <1>3, <2>2, <2>4
      <3>3. QED
        BY <2>1, <3>1, <3>2
    <2>5. QED
      BY <2>3, <2>4
  <1>8. QED
    BY <1>1, <1>5, <1>6, <1>7 DEF DirInv, FirstIsDirectory

\* Put and Get go to the server, or come from it after it sent the directories.
LEMMA CallStoreDir ==
  ASSUME ServerOnly, IndInv, IndInv', DirInv, NEW n \in Nodes, NEW h \in Nodes, NEW kind \in {"Put", "Get"},
         CallStore(n, h, kind)
  PROVE  DirInv'
  <1> DEFINE l == IF kind = "Get" THEN "wait" ELSE "run"
             m == Data(kind, n, h)
  <1>1. /\ TypeOK /\ ClientMail /\ AskersRun /\ Server \in Nodes /\ "app" \in Threads /\ "rt" \in Threads
        /\ FirstIsDirectory /\ NumNodes \in Nat \ {0} /\ round \in Nat /\ Nodes \subseteq Nat /\ Start_Up
    BY DirFacts, NodesFacts
  <1>2. /\ pc[n]["app"] = "run" /\ h \in Targets[n] /\ StartSend(n, "app", m, l)
        /\ UNCHANGED <<reading, dir, lock, round, asker>>
    BY DEF CallStore
  <1>3. m \in Message /\ m.to = h /\ m.from = n
    BY <1>1, MessageTypes DEF Data
  <1>4. l \in Labels /\ l \in {"run", "wait"}
    BY DEF Labels
  <1> HIDE DEF l, m
  <1>5. Joins(h, m) /\ Moves(n, "app", l) /\ aborted' = aborted
    BY <1>1, <1>2, <1>3, <1>4, SentWell
  <1>6. /\ Running(n)
        /\ \A a \in Nodes : Running(a)' = Running(a) /\ pc'[a]["rt"] = pc[a]["rt"]
        /\ \A a \in Nodes : pc'[a]["app"] \in {"down", "init"} => pc[a]["app"] \in {"down", "init"}
    BY <1>1, <1>2, <1>4, <1>5 DEF Moves, Running, Threads
  <1>7. AskersRun'
    BY <1>1, <1>2, <1>3, <1>5, <1>6, AskersKept
  <1>8. ASSUME NEW a \in Nodes \ {Server}, pc[a]["app"] \in {"down", "init"}, a = h
        PROVE  Pending(a) # <<>>
    <2>1. n = Server
      BY <1>2, <1>8 DEF ServerOnly
    <2>2. round = 2 * NumNodes
      BY <1>1, <1>6, <2>1 DEF Start_Up, Phases
    <2>3. NumNodes + a < round
      BY <1>1, <2>2 DEF Nodes
    <2>4. QED
      BY <1>1, <1>8, <2>3 DEF ClientMail
  <1>9. ClientMail'
    BY <1>1, <1>2, <1>3, <1>5, <1>6, <1>8, ClientMailKept DEF Joins
  <1>10. QED
    BY <1>1, <1>5, <1>7, <1>9 DEF DirInv, FirstIsDirectory

\* A Reply goes to a node that runs.
LEMMA SendReplyDir ==
  ASSUME IndInv, IndInv', DirInv, NEW n \in Nodes, SendReply(n)
  PROVE  DirInv'
  <1> DEFINE m == Data("Reply", n, asker[n])
  <1>1. /\ TypeOK /\ ClientMail /\ AskersRun /\ Server \in Nodes /\ "app" \in Threads /\ "rt" \in Threads
        /\ FirstIsDirectory
    BY DirFacts
  <1>2. /\ pc[n]["rt"] = "reply" /\ StartSend(n, "rt", m, "receive") /\ "receive" \in Labels
        /\ UNCHANGED <<reading, dir, lock, round, asker, sends>> /\ asker[n] \in Nodes
    BY <1>1 DEF SendReply, Labels, TypeOK
  <1>3. m \in Message /\ m.to = asker[n] /\ m.kind = "Reply"
    BY <1>1, <1>2, MessageTypes DEF Data
  <1> HIDE DEF m
  <1>4. Joins(asker[n], m) /\ Moves(n, "rt", "receive") /\ aborted' = aborted
    BY <1>1, <1>2, <1>3, SentWell
  <1>5. /\ \A a \in Nodes : Running(a)' = Running(a) /\ pc'[a]["app"] = pc[a]["app"]
        /\ \A a \in Nodes : pc'[a]["rt"] = "reply" => pc[a]["rt"] = "reply"
    BY <1>1, <1>4 DEF Moves, Running, Threads
  <1>6. AskersRun'
    BY <1>1, <1>2, <1>3, <1>4, <1>5, AskersKept
  <1>7. \A a \in Nodes : pc[a]["app"] \in {"down", "init"} => a # asker[n]
    BY <1>1, <1>2 DEF AskersRun, Running
  <1>8. ClientMail'
    BY <1>1, <1>2, <1>4, <1>5, <1>7, ClientMailKept DEF Joins
  <1>9. QED
    BY <1>1, <1>4, <1>6, <1>8 DEF DirInv, FirstIsDirectory

\* What is read leaves the first messages of the clients that still wait alone.
LEMMA TakeDir ==
  ASSUME IndInv, DirInv, NEW n \in Nodes, NEW t \in Threads, NEW kinds, Received(n, t, kinds),
         backlog' = backlog,
         round' = round \/ (n = Server /\ round < NumNodes /\ round' = round + 1),
         FirstIsDirectory',
         \A a \in Nodes : Running(a) => Running(a)',
         \A a \in Nodes \ {Server} :
           pc'[a]["app"] \in {"down", "init"} => a # n /\ pc[a]["app"] \in {"down", "init"},
         \A a \in Nodes : \/ pc'[a]["rt"] # "reply"
                          \/ pc[a]["rt"] = "reply" /\ asker'[a] = asker[a]
                          \/ asker'[a] \in Nodes /\ Running(asker'[a])
  PROVE  DirInv'
  <1>1. /\ TypeOK /\ ReadsOne /\ ClientMail /\ AskersRun /\ NumNodes \in Nat /\ round \in Nat
        /\ Nodes \subseteq Nat
    BY DirFacts, NodesFacts
  <1>2. Leaves(n) /\ Pending(n) # <<>>
    BY <1>1, ReceivedPending DEF Leaves
  <1>3. AskersRun'
    BY <1>1, <1>2, AskersKept
  <1>4. ClientMail'
    <2> SUFFICES ASSUME NEW a \in Nodes \ {Server}, pc'[a]["app"] \in {"down", "init"}
                 PROVE  /\ round' <= NumNodes + a => Pending(a)' = <<>>
                        /\ NumNodes + a < round' => Pending(a)' # <<>> /\ Pending(a)'[1].kind = "Dir"
      BY DEF ClientMail
    <2>1. /\ round <= NumNodes + a => Pending(a) = <<>>
          /\ NumNodes + a < round => Pending(a) # <<>> /\ Pending(a)[1].kind = "Dir"
      BY <1>1 DEF ClientMail
    <2>2. Pending(a)' = Pending(a)
      BY <1>2 DEF Leaves
    <2>3. /\ round' <= NumNodes + a => round <= NumNodes + a
          /\ NumNodes + a < round' => NumNodes + a < round
      BY <1>1
    <2>4. QED
      BY <2>1, <2>2, <2>3
  <1>5. QED
    BY <1>3, <1>4 DEF DirInv

\* The server takes a Register.
LEMMA RegisteredDir ==
  ASSUME IndInv, IndInv', DirInv, Registered
  PROVE  DirInv'
  <1>1. PICK kinds : Received(Server, "app", kinds)
    BY DEF Registered
  <1>2. /\ UNCHANGED <<backlog, asker>> /\ round < NumNodes /\ round' = round + 1
        /\ \/ UNCHANGED <<pc, aborted>>
           \/ \E why \in {"notRegister", "duplicate"} : Abort(Server, why)
    BY DEF Registered, HandleRegister
  <1>3. /\ TypeOK /\ FirstIsDirectory /\ Server \in Nodes /\ "app" \in Threads
    BY DirFacts
  <1>4. UNCHANGED <<pc, aborted>>
    <2> SUFFICES ASSUME NEW why \in {"notRegister", "duplicate"}, Abort(Server, why)
                 PROVE  FALSE
      BY <1>2
    <2>1. Fails(Server, why)
      <3>1. why \in Failures
        BY DEF Failures
      <3>2. QED
        BY <1>3, <3>1, AbortEffect
    <2>2. FirstIsDirectory'
      BY <1>3, <2>1 DEF Fails, FirstIsDirectory
    <2>3. aborted'[Server] = "no"
      BY <1>3, <2>2 DEF IndInv, Start_Up, Phases
    <2>4. QED
      BY <1>3, <2>1, <2>3 DEF Fails
  <1>5. FirstIsDirectory' /\ \A a \in Nodes : Running(a)' = Running(a)
    BY <1>3, <1>4 DEF FirstIsDirectory, Running
  <1>6. QED
    BY <1>1, <1>2, <1>3, <1>4, <1>5, TakeDir

\* A client takes its first message, which is its directory.
LEMMA ClientRunsDir ==
  ASSUME IndInv, DirInv, NEW n \in Nodes, ClientRuns(n)
  PROVE  DirInv'
  <1>1. /\ n # Server /\ UNCHANGED <<backlog, round, asker>>
    BY DEF ClientRuns
  <1>2. /\ TypeOK /\ ReadsOne /\ ClientMail /\ FirstIsDirectory /\ "app" \in Threads /\ "rt" \in Threads
    BY DirFacts
  <1>3. /\ NumNodes \in Nat /\ round \in Nat /\ Nodes \subseteq Nat
    BY DirFacts, NodesFacts
  <1>4. PICK kinds \in {{"Dir"}, Kinds \ {"Dir"}} : Received(n, "app", kinds)
    BY DEF ClientRuns
  <1>5. /\ Pending(n) # <<>> /\ Pending(n)[1] = Read(n) /\ Read(n).kind \in kinds
        /\ pc[n]["app"] = "init"
    BY <1>1, <1>2, <1>4, ReceivedPending DEF Received, Receives
  <1>6. Read(n).kind = "Dir"
    <2>1. /\ round <= NumNodes + n => Pending(n) = <<>>
          /\ NumNodes + n < round => Pending(n)[1].kind = "Dir"
      BY <1>1, <1>2, <1>5 DEF ClientMail
    <2>2. n \in Nat /\ (round <= NumNodes + n \/ NumNodes + n < round)
      BY <1>3
    <2>3. QED
      BY <1>5, <2>1, <2>2
  <1>7. Run(n) /\ aborted' = aborted
    BY <1>6 DEF ClientRuns, Received
  <1>8. /\ pc'[n]["app"] = "run" /\ pc'[n]["rt"] = "receive"
        /\ \A a \in Nodes : a # n => pc'[a] = pc[a]
    BY <1>2, <1>7, RunEffect
  <1>9. FirstIsDirectory' /\ \A a \in Nodes : Running(a) => Running(a)'
    BY <1>2, <1>7, <1>8 DEF FirstIsDirectory, Running
  <1>10. /\ \A a \in Nodes \ {Server} :
              pc'[a]["app"] \in {"down", "init"} => a # n /\ pc[a]["app"] \in {"down", "init"}
         /\ \A a \in Nodes : pc'[a]["rt"] # "reply" \/ (pc[a]["rt"] = "reply" /\ asker'[a] = asker[a])
    BY <1>1, <1>8
  <1>11. QED
    BY <1>1, <1>2, <1>4, <1>9, <1>10, TakeDir

\* The ReceiverThread takes a message; who asks for something runs.
LEMMA ReceiverDir ==
  ASSUME IndInv, DirInv, NEW n \in Nodes, ReceivePut(n) \/ ReceiveGet(n) \/ ReceiveReply(n)
  PROVE  DirInv'
  <1>1. PICK kinds : Received(n, "rt", kinds)
    BY DEF ReceivePut, ReceiveGet, ReceiveReply
  <1>2. UNCHANGED <<backlog, round, aborted>>
    BY DEF ReceivePut, ReceiveGet, ReceiveReply
  <1>3. /\ TypeOK /\ ReadsOne /\ Start_Up /\ FirstIsDirectory /\ AskersRun
        /\ "app" \in Threads /\ "rt" \in Threads
    BY DirFacts
  <1>4. pc \in [Nodes -> [Threads -> Labels]] /\ asker \in [Nodes -> Nodes]
    BY <1>3 DEF TypeOK, Labels
  <1>5. /\ Pending(n) # <<>> /\ Read(n) \in Message /\ Pending(n)[1] = Read(n)
        /\ pc[n]["rt"] = "receive"
    BY <1>1, <1>2, <1>3, ReceivedPending DEF Received, Receives
  <1>6. Running(n)
    BY <1>3, <1>5 DEF Start_Up, Phases
  <1>7. \A a \in Nodes : /\ Running(a)' = Running(a)
                         /\ pc'[a]["app"] # pc[a]["app"] => pc'[a]["app"] = "run"
                         /\ pc'[a]["rt"] # pc[a]["rt"] => a = n /\ ReceiveGet(n)
    <2>1. CASE ReceivePut(n)
      BY <2>1 DEF ReceivePut, Running
    <2>2. CASE ReceiveGet(n)
      <3>1. "reply" \in Labels /\ Goto(n, "rt", "reply")
        BY <2>2 DEF ReceiveGet, Labels
      <3>2. Moves(n, "rt", "reply")
        BY <1>3, <3>1, GotoEffect
      <3>3. QED
        BY <1>3, <2>2, <3>2 DEF Moves, Running
    <2>3. CASE ReceiveReply(n)
      <3> DEFINE l == IF pc[n]["app"] = "wait" THEN "run" ELSE pc[n]["app"]
      <3>1. l \in Labels /\ Goto(n, "app", l)
        BY <1>3, <1>4, <2>3 DEF ReceiveReply, Labels, Goto
      <3>2. Moves(n, "app", l)
        <4> HIDE DEF l
        <4>1. QED
          BY <1>3, <3>1, GotoEffect
      <3>3. QED
        BY <1>3, <3>2 DEF Moves, Running
    <2>4. QED
      BY <2>1, <2>2, <2>3
  <1>8. \A a \in Nodes : \/ pc'[a]["rt"] # "reply"
                         \/ pc[a]["rt"] = "reply" /\ asker'[a] = asker[a]
                         \/ asker'[a] \in Nodes /\ Running(asker'[a])
    <2>1. CASE ReceiveGet(n)
      <3>1. Read(n).kind = "Get" /\ asker' = [asker EXCEPT ![n] = Read(n).from]
        BY <2>1 DEF ReceiveGet, Received
      <3>2. Read(n).from \in Nodes /\ Running(Read(n).from)
        BY <1>3, <1>5, <3>1, FirstPending DEF AskersRun, Message
      <3>3. QED
        BY <1>4, <1>7, <3>1, <3>2
    <2>2. CASE ~ReceiveGet(n)
      <3>1. asker' = asker
        BY <2>2 DEF ReceivePut, ReceiveReply
      <3>2. QED
        BY <1>7, <2>2, <3>1
    <2>3. QED
      BY <2>1, <2>2
  <1>9. \A a \in Nodes \ {Server} :
          pc'[a]["app"] \in {"down", "init"} => a # n /\ pc[a]["app"] \in {"down", "init"}
    BY <1>6, <1>7 DEF Running
  <1>10. FirstIsDirectory'
    BY <1>2, <1>3 DEF FirstIsDirectory
  <1>11. QED
    BY <1>1, <1>2, <1>3, <1>7, <1>8, <1>9, <1>10, TakeDir

\* Steps that move bytes and locks, and the server's own start.
LEMMA QuietDir ==
  ASSUME DirInv, TypeOK, Stays, UNCHANGED <<round, aborted, asker>>,
         UNCHANGED pc \/ (Run(Server) /\ pc[Server]["app"] = "init")
  PROVE  DirInv'
  <1>1. ClientMail /\ AskersRun /\ FirstIsDirectory /\ Server \in Nodes
    BY NodesFacts DEF DirInv
  <1>2. /\ \A a \in Nodes : Running(a) => Running(a)'
        /\ \A a \in Nodes : pc'[a]["rt"] = "reply" => pc[a]["rt"] = "reply"
        /\ \A a \in Nodes \ {Server} : pc'[a] = pc[a]
    <2>1. CASE UNCHANGED pc
      BY <2>1 DEF Running
    <2>2. CASE Run(Server) /\ pc[Server]["app"] = "init"
      <3>1. /\ pc'[Server]["app"] = "run" /\ pc'[Server]["rt"] = "receive"
            /\ \A a \in Nodes : a # Server => pc'[a] = pc[a]
        BY <1>1, <2>2, RunEffect
      <3>2. QED
        BY <2>2, <3>1 DEF Running
    <2>3. QED
      BY <2>1, <2>2
  <1>3. AskersRun'
    BY <1>1, <1>2, AskersKept
  <1>4. ClientMail'
    BY <1>1, <1>2, ClientMailKept DEF Stays
  <1>5. QED
    BY <1>1, <1>3, <1>4 DEF DirInv, FirstIsDirectory

\* At first nothing is on its way.
LEMMA InitDir ==
  ASSUME Init
  PROVE  DirInv
  <1>1. \A a \in Nodes : Pending(a) = <<>>
    BY DEF Init, Pending
  <1>2. FirstIsDirectory
    BY DEF Init, FirstIsDirectory
  <1>3. ClientMail
    <2>1. \A a \in Nodes : ~(NumNodes + a < round)
      <3>1. Nodes \subseteq Nat /\ NumNodes \in Nat \ {0} /\ round = 1
        BY NodesFacts DEF Init
      <3>2. QED
        BY <3>1
    <2>2. QED
      BY <1>1, <2>1 DEF ClientMail
  <1>4. AskersRun
    <2>1. \A a \in Nodes : pc[a]["rt"] = "down"
      BY DEF Init, Threads
    <2>2. QED
      BY <1>1, <2>1 DEF AskersRun
  <1>5. QED
    BY <1>2, <1>3, <1>4 DEF DirInv

\* Every step keeps the first message of a client its directory.
LEMMA NextDir ==
  ASSUME OnePort, ServerOnly, IndInv, IndInv', DirInv, [Next]_vars
  PROVE  DirInv'
  <1>1. TypeOK /\ ReadsOne
    BY DEF IndInv
  <1>2. CASE UNCHANGED vars
    <2>1. UNCHANGED <<backlog, reading, pc, round, aborted, asker>> /\ Stays
      BY <1>2 DEF vars, moving, Stays, Pending
    <2>2. QED
      BY <1>1, <2>1, QuietDir
  <1>3. CASE Next
    <2>1. big' = big
      BY <1>3 DEF Next
    <2>2. CASE ServerInit
      <3>1. CASE ServerRuns
        <4>1. Stays /\ UNCHANGED <<round, aborted, asker>> /\ Run(Server) /\ pc[Server]["app"] = "init"
          BY <3>1 DEF ServerRuns, Stays, Pending
        <4>2. QED
          BY <1>1, <4>1, QuietDir
      <3>2. QED
        BY <2>2, <3>1, RegisteredDir, SendDirectoryDir DEF ServerInit
    <2>3. ASSUME NEW n \in Nodes, ClientInit(n)
          PROVE  DirInv'
      BY <2>3, StartDir, ClientRunsDir DEF ClientInit
    <2>4. ASSUME NEW n \in Nodes, Accept(n) \/ \E t \in Threads : SendMsg(n, t)
          PROVE  DirInv'
      BY <1>1, <2>1, <2>4, QuietEffect, QuietDir
    <2>5. ASSUME NEW n \in Nodes, ReceiverStep(n)
          PROVE  DirInv'
      BY <2>5, ReceiverDir, SendReplyDir DEF ReceiverStep
    <2>6. ASSUME NEW n \in Nodes, AppCalls(n)
          PROVE  DirInv'
      BY <2>6, CallStoreDir DEF AppCalls
    <2>7. QED
      BY <1>3, <2>2, <2>3, <2>4, <2>5, <2>6 DEF Next
  <1>4. QED
    BY <1>2, <1>3

\* If the applications of the clients talk to the server only, the first message to a client
\* is its directory: client_init's assert (network.h:89) holds.
THEOREM DirectoryFirst ==
  ASSUME OnePort, ServerOnly
  PROVE  Spec => []FirstIsDirectory
  <1>1. Init => DirInv
    BY InitDir
  <1>2. IndInv /\ IndInv' /\ DirInv /\ [Next]_vars => DirInv'
    BY NextDir
  <1>3. DirInv => FirstIsDirectory
    BY DEF DirInv
  <1>4. QED
    BY <1>1, <1>2, <1>3, StartsWell, PTL DEF Spec

\* Then no assert of the start-up fails at all, every message finds its node, and a node that
\* runs knows every node (network.h:73).
THEOREM StartsSafely ==
  ASSUME OnePort, ServerOnly
  PROVE  Spec => []StartupSafe
  <1>1. IndInv /\ FirstIsDirectory => StartupSafe
    BY StartUpSafe
  <1>2. QED
    BY <1>1, StartsWell, DirectoryFirst, PTL

-----------------------------------------------------------------------------
(* Connections one per message are first-in first-out inboxes *)

\* One message more is on its way to its target, or the first one of a node less, or all are
\* as they were.
Mails ==
  \/ Stays
  \/ \E m \in Message : Joins(m.to, m)
  \/ \E n \in Nodes : Leaves(n) /\ Pending(n) # <<>>

\* So it is with every step.
LEMMA StepMoves ==
  ASSUME OnePort, IndInv, [Next]_vars
  PROVE  Mails
  <1>1. TypeOK /\ ReadsOne /\ DirsTrue /\ Server \in Nodes /\ "app" \in Threads /\ "rt" \in Threads
    BY NodesFacts DEF IndInv, Threads
  <1>2. ASSUME NEW n \in Nodes, NEW t \in Threads, NEW m \in Message, NEW l \in Labels,
               StartSend(n, t, m, l), reading' = reading
        PROVE  Mails
    BY <1>1, <1>2, SendEffect DEF Mails, Message
  <1>3. ASSUME NEW n \in Nodes, NEW t \in Threads, NEW kinds, Received(n, t, kinds), backlog' = backlog
        PROVE  Mails
    BY <1>1, <1>3, ReceivedPending DEF Leaves, Mails
  <1>4. ASSUME UNCHANGED <<backlog, reading>>
        PROVE  Mails
    BY <1>4 DEF Stays, Pending, Mails
  <1>5. CASE UNCHANGED vars
    BY <1>4, <1>5 DEF vars, moving
  <1>6. CASE ServerInit
    <2>1. CASE Registered
      BY <1>1, <1>3, <2>1 DEF Registered
    <2>2. CASE SendDirectory
      <3> DEFINE i == round - NumNodes
                 m == [kind |-> "Dir", from |-> Server, to |-> i, dir |-> dir[Server]]
      <3>1. i \in Nodes
        <4>1. NumNodes \in Nat /\ round \in NumNodes .. 2 * NumNodes - 1
          BY <2>2, NodesFacts DEF SendDirectory
        <4>2. QED
          BY <4>1 DEF Nodes
      <3>2. m \in Message /\ "init" \in Labels
        BY <1>1, <3>1, MessageTypes DEF Labels
      <3>3. UNCHANGED <<backlog, reading>> \/ (StartSend(Server, "app", m, "init") /\ reading' = reading)
        BY <2>2 DEF SendDirectory
      <3> HIDE DEF i, m
      <3>4. QED
        BY <1>1, <1>2, <1>4, <3>2, <3>3
    <2>3. CASE ServerRuns
      BY <1>4, <2>3 DEF ServerRuns
    <2>4. QED
      BY <1>6, <2>1, <2>2, <2>3 DEF ServerInit
  <1>7. ASSUME NEW n \in Nodes, ClientInit(n)
        PROVE  Mails
    <2>1. CASE Start(n)
      <3>1. RegisterMsg(n) \in Message /\ "init" \in Labels
        BY <1>1, MessageTypes DEF Labels
      <3>2. QED
        BY <1>1, <1>2, <2>1, <3>1 DEF Start
    <2>2. CASE ClientRuns(n)
      BY <1>1, <1>3, <2>2 DEF ClientRuns
    <2>3. QED
      BY <1>7, <2>1, <2>2 DEF ClientInit
  <1>8. ASSUME NEW n \in Nodes, Accept(n) \/ \E t \in Threads : SendMsg(n, t), big' = big
        PROVE  Mails
    BY <1>1, <1>8, QuietEffect DEF Mails
  <1>9. ASSUME NEW n \in Nodes, ReceiverStep(n)
        PROVE  Mails
    <2>1. CASE SendReply(n)
      <3>1. Data("Reply", n, asker[n]) \in Message /\ "receive" \in Labels
        BY <1>1, MessageTypes DEF Labels, TypeOK
      <3>2. StartSend(n, "rt", Data("Reply", n, asker[n]), "receive") /\ reading' = reading
        BY <2>1 DEF SendReply
      <3>3. QED
        BY <1>1, <1>2, <3>1, <3>2
    <2>2. QED
      BY <1>1, <1>3, <1>9, <2>1 DEF ReceiverStep, ReceivePut, ReceiveGet, ReceiveReply
  <1>10. ASSUME NEW n \in Nodes, AppCalls(n)
         PROVE  Mails
    <2>1. PICK h \in Nodes, kind \in {"Put", "Get"} : CallStore(n, h, kind)
      BY <1>10 DEF AppCalls
    <2> DEFINE l == IF kind = "Get" THEN "wait" ELSE "run"
    <2>2. Data(kind, n, h) \in Message /\ l \in Labels
      BY <1>1, MessageTypes DEF Labels
    <2>3. StartSend(n, "app", Data(kind, n, h), l) /\ reading' = reading
      BY <2>1 DEF CallStore
    <2> HIDE DEF l
    <2>4. QED
      BY <1>1, <1>2, <2>2, <2>3
  <1>11. QED
    BY <1>5, <1>6, <1>7, <1>8, <1>9, <1>10 DEF Next

\* What an inbox holds of a sequence of messages is as long, grows at its end
\* and shrinks at its front when the sequence does.
LEMMA LettersFacts ==
  ASSUME NEW s \in Seq(Message)
  PROVE  /\ s # <<>> => Letters(s) # <<>> /\ Letters(Tail(s)) = Tail(Letters(s))
         /\ \A m \in Message : Letters(Append(s, m)) = Append(Letters(s), LetterOf(m))
  <1>1. ASSUME NEW t \in Seq(Message)
        PROVE  /\ Letters(t) \in Seq(Letter) /\ Len(Letters(t)) = Len(t)
               /\ \A i \in 1 .. Len(t) : Letters(t)[i] = LetterOf(t[i])
    <2>1. DOMAIN t = 1 .. Len(t) /\ Len(t) \in Nat /\ \A i \in 1 .. Len(t) : t[i] \in Message
      OBVIOUS
    <2>2. \A m \in Message : LetterOf(m) \in Letter
      BY DEF Message, LetterOf, Letter
    <2>3. Letters(t) = [i \in 1 .. Len(t) |-> LetterOf(t[i])]
      BY <2>1 DEF Letters
    <2>4. QED
      BY <2>1, <2>2, <2>3
  <1>2. ASSUME s # <<>>
        PROVE  Letters(s) # <<>> /\ Letters(Tail(s)) = Tail(Letters(s))
    <2> DEFINE u == Letters(s)
               v == Letters(Tail(s))
    <2>1. /\ Tail(s) \in Seq(Message) /\ Len(Tail(s)) = Len(s) - 1 /\ Len(s) \in Nat \ {0}
          /\ \A i \in 1 .. Len(s) - 1 : Tail(s)[i] = s[i + 1]
      BY <1>2
    <2>2. /\ u \in Seq(Letter) /\ Len(u) = Len(s)
          /\ \A i \in 1 .. Len(s) : u[i] = LetterOf(s[i])
      BY <1>1
    <2>3. /\ v \in Seq(Letter) /\ Len(v) = Len(s) - 1
          /\ \A i \in 1 .. Len(s) - 1 : v[i] = LetterOf(s[i + 1])
      BY <1>1, <2>1
    <2> HIDE DEF u, v
    <2>4. u # <<>>
      BY <2>1, <2>2
    <2>5. /\ Tail(u) \in Seq(Letter) /\ Len(Tail(u)) = Len(s) - 1
          /\ \A i \in 1 .. Len(s) - 1 : Tail(u)[i] = u[i + 1]
      BY <2>1, <2>2, <2>4
    <2>6. \A i \in 1 .. Len(s) - 1 : i + 1 \in 1 .. Len(s)
      BY <2>1
    <2>7. v = Tail(u)
      BY <2>1, <2>2, <2>3, <2>5, <2>6
    <2>8. QED
      BY <2>4, <2>7 DEF u, v
  <1>3. ASSUME NEW m \in Message
        PROVE  Letters(Append(s, m)) = Append(Letters(s), LetterOf(m))
    <2> DEFINE u == Letters(s)
               l == LetterOf(m)
               v == Letters(Append(s, m))
               w == Append(u, l)
    <2>1. /\ Append(s, m) \in Seq(Message) /\ Len(Append(s, m)) = Len(s) + 1 /\ Len(s) \in Nat
          /\ Append(s, m)[Len(s) + 1] = m /\ \A i \in 1 .. Len(s) : Append(s, m)[i] = s[i]
      OBVIOUS
    <2>2. /\ u \in Seq(Letter) /\ Len(u) = Len(s) /\ l \in Letter
          /\ \A i \in 1 .. Len(s) : u[i] = LetterOf(s[i])
      BY <1>1 DEF Message, LetterOf, Letter
    <2>3. /\ v \in Seq(Letter) /\ Len(v) = Len(s) + 1
          /\ v[Len(s) + 1] = l /\ \A i \in 1 .. Len(s) : v[i] = LetterOf(s[i])
      <3> DEFINE q == Append(s, m)
      <3>1. /\ q \in Seq(Message) /\ Len(q) = Len(s) + 1
            /\ q[Len(s) + 1] = m /\ \A i \in 1 .. Len(s) : q[i] = s[i]
        BY <2>1
      <3> HIDE DEF q
      <3>2. /\ Letters(q) \in Seq(Letter) /\ Len(Letters(q)) = Len(s) + 1
            /\ \A i \in 1 .. Len(s) + 1 : Letters(q)[i] = LetterOf(q[i])
        BY <1>1, <3>1
      <3>3. Len(s) + 1 \in 1 .. Len(s) + 1 /\ \A i \in 1 .. Len(s) : i \in 1 .. Len(s) + 1
        BY <2>1
      <3>4. QED
        BY <3>1, <3>2, <3>3 DEF q
    <2> HIDE DEF u, v, l
    <2>4. /\ w \in Seq(Letter) /\ Len(w) = Len(s) + 1
          /\ w[Len(s) + 1] = l /\ \A i \in 1 .. Len(s) : w[i] = u[i]
      BY <2>1, <2>2
    <2>5. \A i \in 1 .. Len(s) + 1 : v[i] = w[i]
      BY <2>1, <2>2, <2>3, <2>4
    <2> HIDE DEF w
    <2>6. v = w
      BY <2>1, <2>3, <2>4, <2>5
    <2>7. QED
      BY <2>6 DEF u, v, l, w
  <1>4. QED
    BY <1>2, <1>3

\* A step of the network is a step of the inboxes, or none of their business.
LEMMA StepRefines ==
  ASSUME OnePort, IndInv, [Next]_vars
  PROVE  [Inboxes!INext]_Mailbox
  <1>1. TypeOK /\ Mails
    BY StepMoves DEF IndInv
  <1>2. ASSUME Stays
        PROVE  Mailbox' = Mailbox
    BY <1>2 DEF Stays, Mailbox, Letters, LetterOf
  <1>3. ASSUME NEW m \in Message, Joins(m.to, m)
        PROVE  Inboxes!INext
    <2>1. m.to \in Nodes /\ LetterOf(m) \in Letter /\ LetterOf(m).to = m.to
      BY DEF Message, LetterOf, Letter
    <2>2. \A a \in Nodes :
            Letters(Pending(a)') = IF a = m.to THEN Append(Letters(Pending(a)), LetterOf(m)) ELSE Letters(Pending(a))
      BY <1>1, <1>3, PendingFacts, LettersFacts DEF Joins
    <2>3. Mailbox' = [n \in Nodes |-> Letters(Pending(n)')]
      BY DEF Mailbox, Letters, LetterOf
    <2>4. Mailbox' = [Mailbox EXCEPT ![m.to] = Append(Mailbox[m.to], LetterOf(m))]
      BY <2>1, <2>2, <2>3 DEF Mailbox
    <2>5. Inboxes!ISend(LetterOf(m))
      BY <2>1, <2>4 DEF Inboxes!ISend
    <2>6. QED
      BY <2>1, <2>5 DEF Inboxes!INext
  <1>4. ASSUME NEW n \in Nodes, Leaves(n), Pending(n) # <<>>
        PROVE  Inboxes!INext
    <2>1. Letters(Pending(n)) # <<>> /\ Letters(Tail(Pending(n))) = Tail(Letters(Pending(n)))
      BY <1>1, <1>4, PendingFacts, LettersFacts
    <2>2. \A a \in Nodes :
            Letters(Pending(a)') = IF a = n THEN Tail(Letters(Pending(a))) ELSE Letters(Pending(a))
      BY <1>4, <2>1 DEF Leaves
    <2>3. Mailbox' = [a \in Nodes |-> Letters(Pending(a)')]
      BY DEF Mailbox, Letters, LetterOf
    <2>4. Mailbox' = [Mailbox EXCEPT ![n] = Tail(Mailbox[n])] /\ Mailbox[n] # <<>>
      BY <2>1, <2>2, <2>3 DEF Mailbox
    <2>5. Inboxes!IReceive(n)
      BY <2>4 DEF Inboxes!IReceive
    <2>6. QED
      BY <2>5 DEF Inboxes!INext
  <1>5. QED
    BY <1>1, <1>2, <1>3, <1>4 DEF Mails

\* The network of connections, each for one message, is one first-in first-out inbox per node
\* (inetwork.h:16, :22), as KVStore takes it to be: no message is lost, doubled, overtaken or
\* delivered to another node than the one it is for, whatever the applications send.
THEOREM Inboxed ==
  ASSUME OnePort
  PROVE  Spec => ImplementsInbox
  <1>1. Init => Inboxes!IInit
    <2>1. ASSUME Init
          PROVE  Mailbox = [n \in Nodes |-> <<>>]
      <3>1. \A a \in Nodes : Pending(a) = <<>>
        BY <2>1 DEF Init, Pending
      <3>2. Letters(<<>>) = <<>>
        BY DEF Letters
      <3>3. QED
        BY <3>1, <3>2 DEF Mailbox
    <2>2. QED
      BY <2>1 DEF Inboxes!IInit
  <1>2. IndInv /\ [Next]_vars => [Inboxes!INext]_Mailbox
    BY StepRefines
  <1>3. QED
    BY <1>1, <1>2, StartsWell, PTL DEF Spec, ImplementsInbox, Inboxes!ISpec
=============================================================================
