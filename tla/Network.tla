------------------------------- MODULE Network -------------------------------
(***************************************************************************)
(* The TCP network of the nodes: the start-up in which clients register    *)
(* with the server and get its directory, and the two threads of a node    *)
(* that send and receive at once afterwards.  A message travels on a       *)
(* connection of its own: sendMsg connects, locks lock_, sends and closes; *)
(* receiveMsg accepts the connections in the order in which they were made *)
(* and reads each to its end before it locks lock_.                        *)
(*                                                                         *)
(* What the nodes say to each other once they run is abstracted to Put,    *)
(* Get and Reply; Done and Teardown are in KVStore.                        *)
(***************************************************************************)
EXTENDS Integers, Sequences, FiniteSets, Functions

CONSTANTS
  NumNodes,  \* args.numNodes
  Server,    \* args.serverIndex
  Ip,        \* Ip[n]: args.ip of node n
  Port,      \* Port[n]: args.port of node n
  Targets,   \* Targets[n]: the nodes that the application of n sends to
  Big,       \* the kinds whose messages may exceed the socket buffers
  MaxSends,  \* bound: messages sent by one application
  NoAddr     \* a node that a directory has no NodeInfo of

Nodes == 0 .. NumNodes - 1
Addrs == {<<Ip[n], Port[m]>> : n, m \in Nodes}

\* The address that the node listens at.
Addr(n) == <<Ip[n], Port[n]>>

ASSUME NetworkAssumption ==
  /\ NumNodes \in Nat \ {0}
  /\ Server \in Nodes
  /\ Targets \in [Nodes -> SUBSET Nodes]
  /\ Big \subseteq {"Put", "Get", "Reply"}
  /\ MaxSends \in Nat
  /\ NoAddr \notin Addrs
  /\ \A n, m \in Nodes : Addr(n) = Addr(m) => n = m

Threads   == {"app", "rt"}
Kinds     == {"Register", "Dir", "Put", "Get", "Reply"}
Directory == [Nodes -> Addrs \cup {NoAddr}]
Message   == [kind : Kinds, from : Nodes, to : Nodes, dir : Directory]

\* A connection and the message that its sender, thread by of msg.from, sends on
\* it.  It is open until the sender has closed it.
Connection == [msg : Message, by : Threads, open : BOOLEAN]

VARIABLES
  backlog,  \* backlog[n]: the connections that n has not accepted yet
  reading,  \* reading[n]: the connection that n reads, in a sequence of at most one
  dir,      \* dir[n]: the directory dir_ of n
  lock,     \* lock[n]: the thread that owns lock_, or "free"
  sending,  \* sending[n][t]: where thread t of n is in sendMsg, or "no"
  pc,       \* pc[n][t]: what thread t of n does next, once it is out of sendMsg
  round,    \* the loop counter of server_init
  asker,    \* asker[n]: the node that the ReceiverThread of n has to reply to
  sends,    \* sends[n]: the messages that the application of n has sent
  big,      \* the kinds whose messages exceed the socket buffers: all of Big, or none
  aborted   \* aborted[n]: the failure that ended node n, or "no"

moving == <<backlog, reading, dir, lock, sending, pc, round, asker, sends, aborted>>
vars   == <<moving, big>>

NoDir == [n \in Nodes |-> NoAddr]
Size(d) == Cardinality({n \in Nodes : d[n] # NoAddr})

\* Directory::mergeIn, and addInfo for a directory of one entry.
MergeIn(d, other) == [n \in Nodes |-> IF other[n] = NoAddr THEN d[n] ELSE other[n]]

\* Every node starts out with the address of the server, which listens already.
Init ==
  /\ backlog = [n \in Nodes |-> <<>>]
  /\ reading = [n \in Nodes |-> <<>>]
  /\ dir = [n \in Nodes |-> [NoDir EXCEPT ![Server] = Addr(Server)]]
  /\ lock = [n \in Nodes |-> "free"]
  /\ sending = [n \in Nodes |-> [t \in Threads |-> "no"]]
  /\ pc = [n \in Nodes |-> [t \in Threads |->
             IF t = "app" THEN (IF n = Server THEN "init" ELSE "down") ELSE "down"]]
  /\ round = 1
  /\ asker = [n \in Nodes |-> Server]
  /\ sends = [n \in Nodes |-> 0]
  /\ big \in {{}, Big}
  /\ aborted = [n \in Nodes |-> "no"]

-----------------------------------------------------------------------------
(* sendMsg *)

\* The node listens.
Up(n) == pc[n]["app"] \notin {"down", "aborted"}

Goto(n, t, label) == pc' = [pc EXCEPT ![n][t] = label]

\* A failing assert ends the node.
Abort(n, why) ==
  /\ aborted' = [aborted EXCEPT ![n] = why]
  /\ pc' = [pc EXCEPT ![n] = [t \in Threads |-> "aborted"]]

\* Mutant: a new connection overtakes those that wait.
ConnectFirst(h, c) == backlog' = [backlog EXCEPT ![h] = <<c>> \o @]

\* connect: the connection joins the backlog of the listening node.
ConnectTo(h, c) == backlog' = [backlog EXCEPT ![h] = Append(@, c)]

\* Thread t of n calls sendMsg(m) and goes on to label afterwards: getInfo and
\* connect, which fails if nobody listens at the address in the directory.
StartSend(n, t, m, label) ==
  \/ \E h \in Nodes :
       /\ Up(h) /\ Addr(h) = dir[n][m.to]
       /\ ConnectTo(h, [msg |-> m, by |-> t, open |-> TRUE])
       /\ sending' = [sending EXCEPT ![n][t] = "connected"]
       /\ Goto(n, t, label)
       /\ UNCHANGED aborted
  \/ /\ \A h \in Nodes : ~(Up(h) /\ Addr(h) = dir[n][m.to])
     /\ Abort(n, IF dir[n][m.to] = NoAddr THEN "noInfo" ELSE "connect")
     /\ UNCHANGED <<backlog, sending>>

\* The connection of thread t of n gets all its bytes and is closed.
Close(n, t) ==
  LET closed(s) == [i \in DOMAIN s |->
        IF s[i].msg.from = n /\ s[i].by = t THEN [s[i] EXCEPT !.open = FALSE] ELSE s[i]] IN
  /\ backlog' = [h \in Nodes |-> closed(backlog[h])]
  /\ reading' = [h \in Nodes |-> closed(reading[h])]

\* The connection on which thread t of n is sending.
Mine(c, n, t) == c.open /\ c.msg.from = n /\ c.by = t

\* sendMsg locks lock_ and serializes the message, ...
LockSend(n, t) ==
  /\ sending[n][t] = "connected"
  /\ lock[n] = "free"
  /\ lock' = [lock EXCEPT ![n] = t]
  /\ sending' = [sending EXCEPT ![n][t] = "locked"]
  /\ UNCHANGED <<backlog, reading, dir, pc, round, asker, sends, aborted>>

\* Mutant: send returns without releasing lock_.
SendReturnsLocked(n, t) ==
  /\ sending[n][t] = "locked"
  /\ \A h \in Nodes : \A c \in Range(backlog[h]) : Mine(c, n, t) => c.msg.kind \notin big
  /\ sending' = [sending EXCEPT ![n][t] = "sent"]
  /\ UNCHANGED <<backlog, reading, dir, lock, pc, round, asker, sends, aborted>>

\* ... calls send with lock_ held, which blocks while a message that exceeds the socket
\* buffers is not being read, and unlocks it, ...
SendReturns(n, t) ==
  /\ sending[n][t] = "locked"
  /\ \A h \in Nodes : \A c \in Range(backlog[h]) : Mine(c, n, t) => c.msg.kind \notin big
  /\ lock' = [lock EXCEPT ![n] = "free"]
  /\ sending' = [sending EXCEPT ![n][t] = "sent"]
  /\ UNCHANGED <<backlog, reading, dir, pc, round, asker, sends, aborted>>

\* ... and closes the socket.
CloseSock(n, t) ==
  /\ sending[n][t] = "sent"
  /\ Close(n, t)
  /\ sending' = [sending EXCEPT ![n][t] = "no"]
  /\ UNCHANGED <<dir, lock, pc, round, asker, sends, aborted>>

-----------------------------------------------------------------------------
(* receiveMsg *)

\* The thread that calls receiveMsg: the application's own in server_init and
\* client_init, the ReceiverThread afterwards.
Receives(n, t) ==
  /\ pc[n][t] = IF t = "app" THEN "init" ELSE "receive"
  /\ sending[n][t] = "no"

Accept(n) ==
  /\ \E t \in Threads : Receives(n, t)
  /\ reading[n] = <<>> /\ backlog[n] # <<>>
  /\ reading' = [reading EXCEPT ![n] = <<Head(backlog[n])>>]
  /\ backlog' = [backlog EXCEPT ![n] = Tail(@)]
  /\ UNCHANGED <<dir, lock, sending, pc, round, asker, sends, aborted>>

\* The message that n is reading.
Read(n) == reading[n][1].msg

\* Thread t of n has read a message of one of these kinds to its end, and takes
\* lock_ to deserialize it.
Received(n, t, kinds) ==
  /\ Receives(n, t)
  /\ reading[n] # <<>>
  /\ ~reading[n][1].open
  /\ Read(n).kind \in kinds
  /\ lock[n] = "free"
  /\ reading' = [reading EXCEPT ![n] = <<>>]

-----------------------------------------------------------------------------
(* Start-up *)

Info(n, a) == [NoDir EXCEPT ![n] = a]

\* Mutant: args.serverIndex for args.index.
RegisterServer(n) ==
  [kind |-> "Register", from |-> n, to |-> Server, dir |-> Info(Server, Addr(Server))]

\* The RegisterMsg of client_init: the node's ip with the port of the server.
RegisterMsg(n) ==
  [kind |-> "Register", from |-> n, to |-> Server, dir |-> Info(n, <<Ip[n], Port[Server]>>)]

\* A client starts: Network's constructor listens, client_init registers.
Start(n) ==
  /\ pc[n]["app"] = "down"
  /\ StartSend(n, "app", RegisterMsg(n), "init")
  /\ UNCHANGED <<reading, dir, lock, round, asker, sends>>

\* handleRegisterMsg, which asserts that the directory has grown by one.
HandleRegister(n) ==
  LET d == MergeIn(dir[n], Read(n).dir) IN
  IF Size(d) = Size(dir[n]) + 1
  THEN dir' = [dir EXCEPT ![n] = d] /\ UNCHANGED <<pc, aborted>>
  ELSE Abort(n, "duplicate") /\ UNCHANGED dir

\* A round of the first loop of server_init, which asserts that it is a Register.
Registered ==
  /\ round < NumNodes
  /\ \/ Received(Server, "app", {"Register"}) /\ HandleRegister(Server)
     \/ /\ Received(Server, "app", Kinds \ {"Register"})
        /\ Abort(Server, "notRegister")
        /\ UNCHANGED dir
  /\ round' = round + 1
  /\ UNCHANGED <<backlog, lock, sending, asker, sends>>

\* Mutant: the loop also steps over the node after the server.
NextRoundSkipping(r) == IF r = NumNodes + Server THEN r + 2 ELSE r + 1

\* The step of the loops of server_init.
NextRound(r) == r + 1

\* A round of the second loop of server_init: the directory goes to the client
\* with index round - NumNodes, if it is one.
SendDirectory ==
  LET i == round - NumNodes IN
  /\ pc[Server]["app"] = "init" /\ sending[Server]["app"] = "no"
  /\ round \in NumNodes .. 2 * NumNodes - 1
  /\ round' = NextRound(round)
  /\ IF i = Server
     THEN UNCHANGED <<backlog, sending, pc, aborted>>
     ELSE StartSend(Server, "app",
            [kind |-> "Dir", from |-> Server, to |-> i, dir |-> dir[Server]], "init")
  /\ UNCHANGED <<reading, dir, lock, asker, sends>>

\* NodeThread::run goes on: the ReceiverThread starts, the application runs.
Run(n) == pc' = [pc EXCEPT ![n] = [t \in Threads |-> IF t = "app" THEN "run" ELSE "receive"]]

ServerRuns ==
  /\ pc[Server]["app"] = "init" /\ sending[Server]["app"] = "no"
  /\ round = 2 * NumNodes
  /\ Run(Server)
  /\ UNCHANGED <<backlog, reading, dir, lock, sending, round, asker, sends, aborted>>

\* client_init asserts that the first message is the directory.
ClientRuns(n) ==
  /\ n # Server
  /\ \/ /\ Received(n, "app", {"Dir"})
        /\ dir' = [dir EXCEPT ![n] = MergeIn(@, Read(n).dir)]
        /\ Run(n)
        /\ UNCHANGED aborted
     \/ /\ Received(n, "app", Kinds \ {"Dir"})
        /\ Abort(n, "notDir")
        /\ UNCHANGED dir
  /\ UNCHANGED <<backlog, lock, sending, round, asker, sends>>

-----------------------------------------------------------------------------
(* The nodes run *)

Data(kind, n, h) == [kind |-> kind, from |-> n, to |-> h, dir |-> NoDir]

\* The application puts or gets a key that lives on h; a get waits for the reply.
CallStore(n, h, kind) ==
  /\ pc[n]["app"] = "run" /\ sending[n]["app"] = "no"
  /\ h \in Targets[n] /\ sends[n] < MaxSends
  /\ sends' = [sends EXCEPT ![n] = @ + 1]
  /\ StartSend(n, "app", Data(kind, n, h), IF kind = "Get" THEN "wait" ELSE "run")
  /\ UNCHANGED <<reading, dir, lock, round, asker>>

ReceivePut(n) ==
  /\ Received(n, "rt", {"Put"})
  /\ UNCHANGED <<backlog, dir, lock, sending, pc, round, asker, sends, aborted>>

ReceiveGet(n) ==
  /\ Received(n, "rt", {"Get"})
  /\ asker' = [asker EXCEPT ![n] = Read(n).from]
  /\ Goto(n, "rt", "reply")
  /\ UNCHANGED <<backlog, dir, lock, sending, round, sends, aborted>>

SendReply(n) ==
  /\ pc[n]["rt"] = "reply"
  /\ StartSend(n, "rt", Data("Reply", n, asker[n]), "receive")
  /\ UNCHANGED <<reading, dir, lock, round, asker, sends>>

ReceiveReply(n) ==
  /\ Received(n, "rt", {"Reply"})
  /\ pc' = [pc EXCEPT ![n]["app"] = IF @ = "wait" THEN "run" ELSE @]
  /\ UNCHANGED <<backlog, dir, lock, sending, round, asker, sends, aborted>>

-----------------------------------------------------------------------------
SendMsg(n, t) == LockSend(n, t) \/ SendReturns(n, t) \/ CloseSock(n, t)

ServerInit == Registered \/ SendDirectory \/ ServerRuns
ClientInit(n) == Start(n) \/ ClientRuns(n)

AppCalls(n) == \E h \in Nodes, kind \in {"Put", "Get"} : CallStore(n, h, kind)

ReceiverStep(n) == ReceivePut(n) \/ ReceiveGet(n) \/ SendReply(n) \/ ReceiveReply(n)

Next ==
  /\ \/ ServerInit
     \/ \E n \in Nodes :
          \/ ClientInit(n) \/ Accept(n) \/ ReceiverStep(n) \/ AppCalls(n)
          \/ \E t \in Threads : SendMsg(n, t)
  /\ UNCHANGED big

Spec == Init /\ [][Next]_vars

\* Every process is started, and the scheduler runs every thread that can go on;
\* what its application sends is the application's choice.
Fairness ==
  /\ WF_moving(ServerInit)
  /\ \A n \in Nodes :
       /\ WF_moving(ClientInit(n)) /\ WF_moving(Accept(n)) /\ WF_moving(ReceiverStep(n))
       /\ \A t \in Threads : WF_moving(SendMsg(n, t))

FairSpec == Spec /\ Fairness

-----------------------------------------------------------------------------
(* What the settings of the nodes have to be for some of the properties *)

\* All nodes have one port, so that each registers the address it listens at.
OnePort == \A n \in Nodes : Port[n] = Port[Server]

\* The applications of the clients talk to the server only.
ServerOnly == \A n \in Nodes \ {Server} : Targets[n] \subseteq {Server}

-----------------------------------------------------------------------------
(* Properties *)

Failures == {"noInfo", "connect", "notRegister", "duplicate", "notDir"}

\* Every variable holds what the code's declarations allow.
TypeOK ==
  /\ backlog \in [Nodes -> Seq(Connection)]
  /\ reading \in [Nodes -> Seq(Connection)]
  /\ dir \in [Nodes -> Directory]
  /\ lock \in [Nodes -> Threads \cup {"free"}]
  /\ sending \in [Nodes -> [Threads -> {"no", "connected", "locked", "sent"}]]
  /\ pc \in [Nodes -> [Threads ->
             {"down", "init", "run", "wait", "receive", "reply", "aborted"}]]
  /\ round \in 1 .. 2 * NumNodes
  /\ asker \in [Nodes -> Nodes]
  /\ sends \in [Nodes -> 0 .. MaxSends]
  /\ big \subseteq Big
  /\ aborted \in [Nodes -> Failures \cup {"no"}]

\* The asserts of server_init and handleRegisterMsg hold, no message is sent to a node
\* that the directory does not know or that does not listen, and a node whose application
\* runs can reach every node (network.h:73 "When all nodes (expected number) have
\* registered, send directory to everyone").
StartupSafe ==
  /\ TypeOK
  /\ \A n \in Nodes : aborted[n] \in {"no", "notDir"}
  /\ \A n \in Nodes : pc[n]["app"] \in {"run", "wait"} => \A m \in Nodes : dir[n][m] = Addr(m)

\* client_init's assert that the first message is the directory (network.h:89).
FirstIsDirectory == \A n \in Nodes : aborted[n] # "notDir"

Letter == [kind : Kinds, from : Nodes, to : Nodes]

\* The messages on their way to n, in the order in which n receives them.
Pending(n) == LET s == reading[n] \o backlog[n] IN [i \in DOMAIN s |-> s[i].msg]

LetterOf(m) == [kind |-> m.kind, from |-> m.from, to |-> m.to]

Letters(s) == [i \in DOMAIN s |-> LetterOf(s[i])]

Mailbox == [n \in Nodes |-> Letters(Pending(n))]

\* The connections that are made to a node, in their order, are its inbox.
Inboxes == INSTANCE Inbox WITH inbox <- Mailbox

\* Network implements the inboxes that KVStore takes for granted: no message is
\* lost, doubled, overtaken or delivered to another node.
ImplementsInbox == Inboxes!ISpec

\* Thread p waits for thread q: for lock_, for q to read the connection on which p sends,
\* or for q to send on the connection that p reads.
Waits(p, q) ==
  LET n == p[1]
      t == p[2]
  IN  \/ q = <<n, lock[n]>> /\ sending[n][t] = "connected"
      \/ q = <<n, lock[n]>> /\ Receives(n, t) /\ reading[n] # <<>> /\ ~reading[n][1].open
      \/ /\ sending[n][t] = "locked"
         /\ q[2] = "rt" /\ \E c \in Range(backlog[q[1]]) : Mine(c, n, t) /\ c.msg.kind \in big
      \/ Receives(n, t) /\ \E c \in Range(reading[n]) : Mine(c, q[1], q[2])

\* Some threads that call sendMsg or receiveMsg all wait for others of them.
Circle ==
  LET threads == Nodes \X Threads
      waiting == {p \in threads : \E q \in threads : Waits(p, q)}
  IN  \E ps \in SUBSET waiting : ps # {} /\ \A p \in ps : \E q \in ps : Waits(p, q)

\* Every call of sendMsg returns (inetwork.h:16 "Send the given message through this
\* network"): no lock that stays taken and no receiver that stops taking connections keeps
\* it. There is one exception, a defect of the code: messages that exceed the socket
\* buffers can bring threads into a circle of waits for each other's lock_ and reads
\* (network.h:101-107, 123). Messages that fit never do.
SendsReturn ==
  \A n \in Nodes, t \in Threads :
    sending[n][t] # "no" ~> (sending[n][t] = "no" \/ (big # {} /\ Circle))

\* Every node gets to run its application (network.h:73, 87-90).
StartupCompletes == <>(\A n \in Nodes : pc[n]["app"] \in {"run", "wait"})
=============================================================================
