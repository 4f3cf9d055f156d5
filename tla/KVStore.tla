------------------------------- MODULE KVStore -------------------------------
(***************************************************************************)
(* The key-value stores of all nodes and the two threads of each node that *)
(* share one: the application thread (NodeThread::run) and the             *)
(* ReceiverThread.  Every node has an inbox, FIFO like a MessageQueue, a   *)
(* map kvMap_ with the pairs that live on it, and msgCache_, guarded by    *)
(* msgCacheLock_, with the WaitAndGet messages it cannot answer yet and    *)
(* the ReplyData messages its application thread has not picked up yet.    *)
(*                                                                         *)
(* A step is one access to state that two threads share: a critical        *)
(* section of msgCacheLock_, a call of kvMap_ (which no lock protects), or *)
(* a push to or a pop from an inbox.  A failing assert ends a node.        *)
(***************************************************************************)
EXTENDS Integers, Sequences, FiniteSets, Functions

CONSTANTS
  NumNodes,   \* args.numNodes
  Server,     \* args.serverIndex
  Keys,       \* the keys the applications use
  Home,       \* Home[k]: the node k->getNode()
  Writers,    \* Writers[k]: the nodes whose application puts k
  Readers,    \* Readers[k]: the nodes whose application gets k
  GetModes,   \* the values of shouldBlock that the applications use
  MaxOps,     \* bound: calls of put and get by one application
  NoKey,      \* the key of a message that has none
  NoValue     \* nullptr

Nodes   == 0 .. NumNodes - 1
Threads == {"app", "rt"}

ASSUME KVAssumption ==
  /\ NumNodes \in Nat \ {0}
  /\ Server \in Nodes
  /\ Home \in [Keys -> Nodes]
  /\ Writers \in [Keys -> SUBSET Nodes]
  /\ Readers \in [Keys -> SUBSET Nodes]
  /\ GetModes \subseteq BOOLEAN
  /\ MaxOps \in Nat
  /\ NoKey \notin Keys

\* What an application puts: the payload is abstracted to the call that wrote it.
Value == [by : Nodes, seq : 1 .. MaxOps]

ASSUME NoValueAssumption == NoValue \notin Value

MsgKind == {"GetData", "WaitAndGet", "ReplyData", "Put", "Done", "Teardown"}

Message == [kind : MsgKind, from : Nodes,
            key : Keys \cup {NoKey}, val : Value \cup {NoValue}]

VARIABLES
  queue,      \* queue[n]: the inbox of n
  kvMap,      \* kvMap[n][k]: the value of k in the store of n, or NoValue
  msgCache,   \* msgCache[n][k]: the array of messages under k; empty: no entry
  lock,       \* lock[n]: the thread that owns msgCacheLock_, or "free"
  pc,         \* pc[n][t]: where thread t of n is
  key,        \* key[n][t]: the key that thread t of n works on
  todo,       \* todo[n][t]: the waiters that thread t of n has yet to answer
  request,    \* request[n]: the request the ReceiverThread of n is answering
  found,      \* found[n]: the value that ReceiverThread read for the request
  shouldBlock,\* shouldBlock[n]: the mode of the application's remote get
  isNodeDone, \* the server's record of the nodes whose application ended
  nextTorn,   \* the next node that sendTeardownMsgs_ sends to
  aborted,    \* aborted[n]: the failure that ended node n, or "no"
  ops,        \* ops[n]: the calls made by the application of n
  result,     \* result[n]: what the last get of the application of n returned
  \* History, which no action reads:
  log,        \* log[k]: the values of k in the order its store took them
  lastPut,    \* lastPut[n][k]: the seq of the last put of k by n, or 0
  lastRead    \* lastRead[n][k]: the last value of k that n got, or NoValue

network == <<queue>>
store   == <<kvMap, msgCache, lock>>
rtLocal == <<request, found>>
done    == <<isNodeDone, nextTorn>>
history == <<log, lastPut, lastRead>>
vars    == <<queue, kvMap, msgCache, lock, pc, key, todo, request, found,
             shouldBlock, isNodeDone, nextTorn, aborted, ops, result,
             log, lastPut, lastRead>>

NoMessage == [kind |-> "Teardown", from |-> Server, key |-> NoKey, val |-> NoValue]
NoResult  == [key |-> NoKey, val |-> NoValue, owes |-> 0, prev |-> NoValue]

Init ==
  /\ queue = [n \in Nodes |-> <<>>]
  /\ kvMap = [n \in Nodes |-> [k \in Keys |-> NoValue]]
  /\ msgCache = [n \in Nodes |-> [k \in Keys |-> <<>>]]
  /\ lock = [n \in Nodes |-> "free"]
  /\ pc = [n \in Nodes |-> [t \in Threads |-> IF t = "app" THEN "run" ELSE "receive"]]
  /\ key = [n \in Nodes |-> [t \in Threads |-> NoKey]]
  /\ todo = [n \in Nodes |-> [t \in Threads |-> <<>>]]
  /\ request = [n \in Nodes |-> NoMessage]
  /\ found = [n \in Nodes |-> NoValue]
  /\ shouldBlock = [n \in Nodes |-> FALSE]
  /\ isNodeDone = [n \in Nodes |-> FALSE]
  /\ nextTorn = 0
  /\ aborted = [n \in Nodes |-> "no"]
  /\ ops = [n \in Nodes |-> 0]
  /\ result = [n \in Nodes |-> NoResult]
  /\ log = [k \in Keys |-> <<>>]
  /\ lastPut = [n \in Nodes |-> [k \in Keys |-> 0]]
  /\ lastRead = [n \in Nodes |-> [k \in Keys |-> NoValue]]

-----------------------------------------------------------------------------
(* Helpers shared by both threads *)

\* Mutant: every message is pushed twice, as by a retry after a late failure.
SendTwice(target, m) ==
  queue' = [queue EXCEPT ![target] = Append(Append(@, m), m)]

\* Mutant: the inbox is a stack.
SendOnTop(target, m) == queue' = [queue EXCEPT ![target] = <<m>> \o @]

\* INetwork::sendMsg: the push of m to the inbox of target.
Send(target, m) == queue' = [queue EXCEPT ![target] = Append(@, m)]

DataMsg(kind, n, k, v) == [kind |-> kind, from |-> n, key |-> k, val |-> v]
ControlMsg(kind, n)    == [kind |-> kind, from |-> n, key |-> NoKey, val |-> NoValue]

Goto(n, t, label) == pc' = [pc EXCEPT ![n][t] = label]

\* Where a thread goes on after KVStore::put returns.
Idle(t) == IF t = "app" THEN "run" ELSE "receive"

\* A failing assert, or a nullptr dereferenced, ends both threads of the node.
Abort(n, why) ==
  /\ aborted' = [aborted EXCEPT ![n] = why]
  /\ pc' = [pc EXCEPT ![n] = [t \in Threads |-> "aborted"]]

\* Mutant: a key that is in the map keeps its value.
StoreValueOnce(n, t, k, v) ==
  /\ kvMap' = [kvMap EXCEPT ![n][k] = IF @ = NoValue THEN v ELSE @]
  /\ log' = [log EXCEPT ![k] = Append(@, v)]
  /\ key' = [key EXCEPT ![n][t] = k]
  /\ Goto(n, t, "handleCache")

\* The part of put on the home node up to the call of tryToHandleCache_.
StoreValue(n, t, k, v) ==
  /\ kvMap' = [kvMap EXCEPT ![n][k] = v]
  /\ log' = [log EXCEPT ![k] = Append(@, v)]
  /\ key' = [key EXCEPT ![n][t] = k]
  /\ Goto(n, t, "handleCache")

\* Mutant: addToCache_ without notify_all.
AddToCacheSilently(n, k, m) ==
  /\ lock[n] = "free"
  /\ msgCache' = [msgCache EXCEPT ![n][k] = Append(@, m)]
  /\ Goto(n, "rt", "receive")

\* The critical section of addToCache_: notify_all moves a sleeping
\* application thread on to locking the mutex again.
AddToCache(n, k, m) ==
  /\ lock[n] = "free"
  /\ msgCache' = [msgCache EXCEPT ![n][k] = Append(@, m)]
  /\ pc' = [pc EXCEPT ![n]["rt"] = "receive",
                      ![n]["app"] = IF @ = "asleep" THEN "lockCache" ELSE @]

\* msgCache_->remove(k): the array under k leaves the cache.
RemoveArray(n, k) == msgCache' = [msgCache EXCEPT ![n][k] = <<>>]

\* A get of the application of n returns v.
Return(n, k, v) ==
  /\ result' = [result EXCEPT ![n] = [key |-> k, val |-> v,
                                      owes |-> lastPut[n][k], prev |-> lastRead[n][k]]]
  /\ lastRead' = [lastRead EXCEPT ![n][k] = IF v = NoValue THEN @ ELSE v]

\* The application of n calls put or get.
Call(n) ==
  /\ pc[n]["app"] = "run"
  /\ ops[n] < MaxOps
  /\ ops' = [ops EXCEPT ![n] = @ + 1]

NextValue(n) == [by |-> n, seq |-> ops[n] + 1]

-----------------------------------------------------------------------------
(* KVStore::put, called by the application *)

\* The key lives elsewhere: a PutMsg goes to its home and put returns.
PutRemote(n, k) ==
  /\ Call(n)
  /\ n \in Writers[k] /\ Home[k] # n
  /\ Send(Home[k], DataMsg("Put", n, k, NextValue(n)))
  /\ lastPut' = [lastPut EXCEPT ![n][k] = ops[n] + 1]
  /\ UNCHANGED <<store, pc, key, todo, rtLocal, shouldBlock, done, aborted,
                 result, log, lastRead>>

\* The key lives here: kvMap_->put, then tryToHandleCache_.
PutLocal(n, k) ==
  /\ Call(n)
  /\ n \in Writers[k] /\ Home[k] = n
  /\ StoreValue(n, "app", k, NextValue(n))
  /\ lastPut' = [lastPut EXCEPT ![n][k] = ops[n] + 1]
  /\ UNCHANGED <<queue, msgCache, lock, todo, rtLocal, shouldBlock, done,
                 aborted, result, lastRead>>

(* tryToHandleCache_, by the thread that put the key *)

\* Locks msgCacheLock_ and takes the array of messages that wait for the key.
TakeWaiters(n, t) ==
  LET k == key[n][t] IN
  /\ pc[n][t] = "handleCache"
  /\ lock[n] = "free"
  /\ msgCache[n][k] # <<>>
  /\ lock' = [lock EXCEPT ![n] = t]
  /\ todo' = [todo EXCEPT ![n][t] = msgCache[n][k]]
  /\ RemoveArray(n, k)
  /\ Goto(n, t, "serve")
  /\ UNCHANGED <<network, kvMap, key, rtLocal, shouldBlock, done, aborted, ops,
                 result, history>>

\* No message waits: the lock is taken and released.
NoWaiters(n, t) ==
  /\ pc[n][t] = "handleCache"
  /\ lock[n] = "free"
  /\ msgCache[n][key[n][t]] = <<>>
  /\ Goto(n, t, Idle(t))
  /\ UNCHANGED <<network, store, key, todo, rtLocal, shouldBlock, done, aborted,
                 ops, result, history>>

\* One round of the loop: a ReplyData with the value that getValue reads now.
ServeWaiter(n, t) ==
  LET k == key[n][t]
      m == Head(todo[n][t]) IN
  /\ pc[n][t] = "serve"
  /\ todo[n][t] # <<>>
  /\ IF m.kind # "WaitAndGet"
     THEN /\ Abort(n, "waiterCast")
          /\ UNCHANGED <<queue, todo>>
     ELSE /\ Send(m.from, DataMsg("ReplyData", n, k, kvMap[n][k]))
          /\ todo' = [todo EXCEPT ![n][t] = Tail(@)]
          /\ UNCHANGED <<pc, aborted>>
  /\ UNCHANGED <<store, key, rtLocal, shouldBlock, done, ops, result, history>>

\* The array is served: unlock and return from put.
ServedAll(n, t) ==
  /\ pc[n][t] = "serve"
  /\ todo[n][t] = <<>>
  /\ lock' = [lock EXCEPT ![n] = "free"]
  /\ Goto(n, t, Idle(t))
  /\ UNCHANGED <<network, kvMap, msgCache, key, todo, rtLocal, shouldBlock, done,
                 aborted, ops, result, history>>

-----------------------------------------------------------------------------
(* KVStore::getValue, called by the application *)

\* A local key, not blocking: what kvMap_ holds, NoValue if nothing.
GetLocal(n, k) ==
  /\ Call(n)
  /\ n \in Readers[k] /\ Home[k] = n /\ FALSE \in GetModes
  /\ Return(n, k, kvMap[n][k])
  /\ UNCHANGED <<network, store, pc, key, todo, rtLocal, shouldBlock, done,
                 aborted, log, lastPut>>

\* A local key, blocking: the loop that reads kvMap_ until the key is there.
SpinLocal(n, k) ==
  /\ Call(n)
  /\ n \in Readers[k] /\ Home[k] = n /\ TRUE \in GetModes
  /\ key' = [key EXCEPT ![n]["app"] = k]
  /\ Goto(n, "app", "spin")
  /\ UNCHANGED <<network, store, todo, rtLocal, shouldBlock, done, aborted,
                 result, history>>

SpinReads(n) ==
  LET k == key[n]["app"] IN
  /\ pc[n]["app"] = "spin"
  /\ kvMap[n][k] # NoValue
  /\ Return(n, k, kvMap[n][k])
  /\ Goto(n, "app", "run")
  /\ UNCHANGED <<network, store, key, todo, rtLocal, shouldBlock, done, aborted,
                 ops, log, lastPut>>

\* getFromNetwork_: the request goes to the home of the key.
RequestRemote(n, k, block) ==
  /\ Call(n)
  /\ n \in Readers[k] /\ Home[k] # n /\ block \in GetModes
  /\ Send(Home[k], DataMsg(IF block THEN "WaitAndGet" ELSE "GetData", n, k, NoValue))
  /\ key' = [key EXCEPT ![n]["app"] = k]
  /\ shouldBlock' = [shouldBlock EXCEPT ![n] = block]
  /\ Goto(n, "app", "lockCache")
  /\ UNCHANGED <<store, todo, rtLocal, done, aborted, result, history>>

\* getFromNetwork_ has the lock and nothing is cached under the key: it waits,
\* which releases the lock...
WaitForReply(n) ==
  /\ pc[n]["app"] = "lockCache"
  /\ lock[n] = "free"
  /\ shouldBlock[n]
  /\ msgCache[n][key[n]["app"]] = <<>>
  /\ Goto(n, "app", "asleep")
  /\ UNCHANGED <<network, store, key, todo, rtLocal, shouldBlock, done, aborted,
                 ops, result, history>>

\* ... or, not blocking, it returns nullptr without releasing the lock.
ReturnNull(n) ==
  /\ pc[n]["app"] = "lockCache"
  /\ lock[n] = "free"
  /\ ~shouldBlock[n]
  /\ msgCache[n][key[n]["app"]] = <<>>
  /\ lock' = [lock EXCEPT ![n] = "app"]
  /\ Return(n, key[n]["app"], NoValue)
  /\ Goto(n, "app", "run")
  /\ UNCHANGED <<network, kvMap, msgCache, key, todo, rtLocal, shouldBlock, done,
                 aborted, ops, log, lastPut>>

\* The key is cached: its array is removed, the lock released, and the two
\* asserts say that the array holds one message, a ReplyData.
TakeReply(n) ==
  LET k == key[n]["app"]
      arr == msgCache[n][k] IN
  /\ pc[n]["app"] = "lockCache"
  /\ lock[n] = "free"
  /\ arr # <<>>
  /\ RemoveArray(n, k)
  /\ IF Len(arr) # 1 \/ arr[1].kind # "ReplyData"
     THEN /\ Abort(n, IF Len(arr) # 1 THEN "replyCount" ELSE "replyCast")
          /\ UNCHANGED <<result, lastRead>>
     ELSE /\ Return(n, k, arr[1].val)
          /\ Goto(n, "app", "run")
          /\ UNCHANGED aborted
  /\ UNCHANGED <<network, kvMap, lock, key, todo, rtLocal, shouldBlock, done,
                 ops, log, lastPut>>

\* Lock::wait may return although nobody notified.
SpuriousWakeup(n) ==
  /\ pc[n]["app"] = "asleep"
  /\ Goto(n, "app", "lockCache")
  /\ UNCHANGED <<network, store, key, todo, rtLocal, shouldBlock, done, aborted,
                 ops, result, history>>

-----------------------------------------------------------------------------
(* NodeThread::run, after the application's run_ *)

SendDone(n) ==
  /\ pc[n]["app"] = "run"
  /\ Send(Server, ControlMsg("Done", n))
  /\ Goto(n, "app", "join")
  /\ UNCHANGED <<store, key, todo, rtLocal, shouldBlock, done, aborted, ops,
                 result, history>>

Join(n) ==
  /\ pc[n]["app"] = "join"
  /\ pc[n]["rt"] = "exited"
  /\ Goto(n, "app", "exited")
  /\ UNCHANGED <<network, store, key, todo, rtLocal, shouldBlock, done, aborted,
                 ops, result, history>>

-----------------------------------------------------------------------------
(* ReceiverThread::run, one case per message kind *)

\* receiveMsg: the next message of the inbox, if it is of one of these kinds.
Receive(n, kinds) ==
  /\ pc[n]["rt"] = "receive"
  /\ queue[n] # <<>>
  /\ Head(queue[n]).kind \in kinds
  /\ queue' = [queue EXCEPT ![n] = Tail(@)]

\* GetData and WaitAndGet: getValue reads the local map ...
ReceiveRequest(n) ==
  LET m == Head(queue[n]) IN
  /\ Receive(n, {"GetData", "WaitAndGet"})
  /\ request' = [request EXCEPT ![n] = m]
  /\ found' = [found EXCEPT ![n] = kvMap[n][m.key]]
  /\ Goto(n, "rt", "answer")
  /\ UNCHANGED <<store, key, todo, shouldBlock, done, aborted, ops, result, history>>

\* ... a value that was there is sent back ...
AnswerRequest(n) ==
  /\ pc[n]["rt"] = "answer"
  /\ found[n] # NoValue
  /\ Send(request[n].from, DataMsg("ReplyData", n, request[n].key, found[n]))
  /\ Goto(n, "rt", "receive")
  /\ UNCHANGED <<store, key, todo, rtLocal, shouldBlock, done, aborted, ops,
                 result, history>>

\* Mutant: a GetData that cannot be answered is cached like a WaitAndGet.
CacheAnyRequest(n) ==
  /\ pc[n]["rt"] = "answer"
  /\ found[n] = NoValue
  /\ AddToCache(n, request[n].key, request[n])
  /\ UNCHANGED <<network, kvMap, lock, key, todo, rtLocal, shouldBlock, done,
                 aborted, ops, result, history>>

\* ... a WaitAndGet for one that was not is cached (addMsgWaitingOn) ...
CacheRequest(n) ==
  /\ pc[n]["rt"] = "answer"
  /\ found[n] = NoValue /\ request[n].kind = "WaitAndGet"
  /\ AddToCache(n, request[n].key, request[n])
  /\ UNCHANGED <<network, kvMap, lock, key, todo, rtLocal, shouldBlock, done,
                 aborted, ops, result, history>>

\* ... and for a GetData the constructor of ReplyDataMsg clones a nullptr.
ReplyNull(n) ==
  /\ pc[n]["rt"] = "answer"
  /\ found[n] = NoValue /\ request[n].kind = "GetData"
  /\ Abort(n, "nullReply")
  /\ UNCHANGED <<network, store, key, todo, rtLocal, shouldBlock, done, ops,
                 result, history>>

\* ReplyData: addReply caches it for the application thread.
ReceiveReply(n) ==
  LET m == Head(queue[n]) IN
  /\ Receive(n, {"ReplyData"})
  /\ AddToCache(n, m.key, m)
  /\ UNCHANGED <<kvMap, lock, key, todo, rtLocal, shouldBlock, done, aborted, ops,
                 result, history>>

\* Put: put with the message's pair, which asserts that this is the home.
ReceivePut(n) ==
  LET m == Head(queue[n]) IN
  /\ Receive(n, {"Put"})
  /\ IF Home[m.key] # n
     THEN /\ Abort(n, "wrongHome")
          /\ UNCHANGED <<kvMap, log, key>>
     ELSE /\ StoreValue(n, "rt", m.key, m.val)
          /\ UNCHANGED aborted
  /\ UNCHANGED <<msgCache, lock, todo, rtLocal, shouldBlock, done, ops, result,
                 lastPut, lastRead>>

\* Mutant: one node that is done is enough.
AnyDone(isDone) == \E i \in Nodes : isDone[i]

\* The loop of handleDoneMsg over isNodeDone_.
AllDone(isDone) == \A i \in Nodes : isDone[i]

\* Done: handleDoneMsg starts the teardown when it was the last one.
ReceiveDone(n) ==
  /\ Receive(n, {"Done"})
  /\ isNodeDone' = [isNodeDone EXCEPT ![Head(queue[n]).from] = TRUE]
  /\ Goto(n, "rt", IF AllDone(isNodeDone') THEN "teardown" ELSE "receive")
  /\ UNCHANGED <<store, key, todo, rtLocal, shouldBlock, nextTorn, aborted, ops,
                 result, history>>

\* Mutants: the loop of sendTeardownMsgs_ runs one round too far, or stops short.
LoopEndsLate(i)  == i = NumNodes + 1
LoopEndsEarly(i) == i = NumNodes - 1

\* The exit test of the loop of sendTeardownMsgs_.
LoopEnds(i) == i = NumNodes

\* One round of the loop of sendTeardownMsgs_.
SendTeardown(n) ==
  /\ pc[n]["rt"] = "teardown"
  /\ Send(nextTorn, ControlMsg("Teardown", n))
  /\ nextTorn' = nextTorn + 1
  /\ Goto(n, "rt", IF LoopEnds(nextTorn') THEN "receive" ELSE "teardown")
  /\ UNCHANGED <<store, key, todo, rtLocal, shouldBlock, isNodeDone, aborted, ops,
                 result, history>>

\* Teardown: the thread ends.
ReceiveTeardown(n) ==
  /\ Receive(n, {"Teardown"})
  /\ Goto(n, "rt", "exited")
  /\ UNCHANGED <<store, key, todo, rtLocal, shouldBlock, done, aborted, ops,
                 result, history>>

-----------------------------------------------------------------------------
TryToHandleCache(n, t) ==
  TakeWaiters(n, t) \/ NoWaiters(n, t) \/ ServeWaiter(n, t) \/ ServedAll(n, t)

\* What the application may call next, or stop calling.
AppCalls(n) ==
  \/ \E k \in Keys : \/ PutRemote(n, k) \/ PutLocal(n, k)
                     \/ GetLocal(n, k) \/ SpinLocal(n, k)
                     \/ \E block \in BOOLEAN : RequestRemote(n, k, block)
  \/ SendDone(n)

\* What the application thread does until a call returns.
AppContinues(n) ==
  \/ TryToHandleCache(n, "app")
  \/ SpinReads(n) \/ WaitForReply(n) \/ ReturnNull(n) \/ TakeReply(n)
  \/ Join(n)

ReceiverStep(n) ==
  \/ ReceiveRequest(n) \/ AnswerRequest(n) \/ CacheRequest(n) \/ ReplyNull(n)
  \/ ReceiveReply(n) \/ ReceivePut(n) \/ TryToHandleCache(n, "rt")
  \/ ReceiveDone(n) \/ SendTeardown(n) \/ ReceiveTeardown(n)

NodeStep(n) == AppCalls(n) \/ AppContinues(n) \/ SpuriousWakeup(n) \/ ReceiverStep(n)

Next == \E n \in Nodes : NodeStep(n)

Spec == Init /\ [][Next]_vars

\* The scheduler runs every thread that can go on.  Whether an application
\* makes another call is its own choice, and no wakeup is owed without a notify.
Fairness ==
  \A n \in Nodes :
    /\ WF_vars(AppContinues(n))
    /\ WF_vars(ReceiverStep(n))

FairSpec == Spec /\ Fairness
-----------------------------------------------------------------------------
(* Properties *)

AppLabels == {"run", "handleCache", "serve", "spin", "lockCache", "asleep",
              "join", "exited", "aborted"}
RtLabels  == {"receive", "answer", "handleCache", "serve", "teardown", "exited", "aborted"}
Labels    == AppLabels \cup RtLabels
Failures  == {"nullReply", "waiterCast", "replyCount", "replyCast", "wrongHome"}

\* Every variable holds what the code's declarations allow.
TypeOK ==
  /\ queue \in [Nodes -> Seq(Message)]
  /\ kvMap \in [Nodes -> [Keys -> Value \cup {NoValue}]]
  /\ msgCache \in [Nodes -> [Keys -> Seq(Message)]]
  /\ lock \in [Nodes -> Threads \cup {"free"}]
  /\ pc \in [Nodes -> [Threads -> Labels]]
  /\ key \in [Nodes -> [Threads -> Keys \cup {NoKey}]]
  /\ todo \in [Nodes -> [Threads -> Seq(Message)]]
  /\ request \in [Nodes -> Message]
  /\ found \in [Nodes -> Value \cup {NoValue}]
  /\ shouldBlock \in [Nodes -> BOOLEAN]
  /\ isNodeDone \in [Nodes -> BOOLEAN]
  /\ nextTorn \in 0 .. NumNodes
  /\ aborted \in [Nodes -> Failures \cup {"no"}]
  /\ ops \in [Nodes -> 0 .. MaxOps]
  /\ result \in [Nodes -> [key : Keys \cup {NoKey}, val : Value \cup {NoValue},
                           owes : 0 .. MaxOps, prev : Value \cup {NoValue}]]
  /\ log \in [Keys -> Seq(Value)]
  /\ lastPut \in [Nodes -> [Keys -> 0 .. MaxOps]]
  /\ lastRead \in [Nodes -> [Keys -> Value \cup {NoValue}]]

\* What the code takes for granted of the messages it handles: a waiter in
\* tryToHandleCache_ is a WaitAndGet, what getFromNetwork_ picks up is a
\* ReplyData, and a Put only reaches the home of its key.
CastsHold == \A n \in Nodes : aborted[n] \notin {"waiterCast", "replyCast", "wrongHome"}

\* The application of n left getFromNetwork_ without unlocking msgCacheLock_.
Leaked(n) == lock[n] = "app" /\ pc[n]["app"] # "serve"

\* The application of n is inside getFromNetwork_ for k.
WaitsFor(n, k) == pc[n]["app"] \in {"lockCache", "asleep"} /\ key[n]["app"] = k

RequestsIn(s, n, k) ==
  {i \in DOMAIN s : s[i].kind \in {"GetData", "WaitAndGet"} /\ s[i].from = n /\ s[i].key = k}
RepliesIn(s, k) == {i \in DOMAIN s : s[i].kind = "ReplyData" /\ s[i].key = k}

\* The requests of n for k, and the replies to n for k, wherever they are.
Outstanding(n, k) ==
  LET h == Home[k] IN
    Cardinality(RequestsIn(queue[h], n, k))
  + (IF pc[h]["rt"] = "answer" /\ request[h].from = n /\ request[h].key = k THEN 1 ELSE 0)
  + Cardinality(RequestsIn(msgCache[h][k], n, k))
  + Cardinality(RequestsIn(todo[h]["app"], n, k))
  + Cardinality(RequestsIn(todo[h]["rt"], n, k))
  + Cardinality(RepliesIn(queue[n], k))
  + Cardinality(RepliesIn(msgCache[n][k], k))

\* A get is neither lost nor answered twice: while an application is inside
\* getFromNetwork_ exactly one message carries its call on, and outside none
\* does, so that getFromNetwork_ never finds two replies under its key
\* (kvstore.h:171-172).  Nodes that died or leaked their lock are excepted.
OneReplyPerGet ==
  /\ \A n \in Nodes : aborted[n] # "replyCount"
  /\ \A n \in Nodes, k \in Keys :
       Home[k] # n /\ ~Leaked(n) /\ aborted[n] = "no" /\ aborted[Home[k]] = "no" =>
         Outstanding(n, k) = IF WaitsFor(n, k) THEN 1 ELSE 0

Position(k, v) == CHOOSE i \in 1 .. Len(log[k]) : log[k][i] = v

\* Session order: what a get returns is a value the home of the key took, not
\* older than the caller's own last put of the key, nor than what it got
\* before, although puts are not acknowledged.
SessionOrder ==
  \A n \in Nodes :
    LET r == result[n]
        taken(v) == \E i \in 1 .. Len(log[r.key]) : log[r.key][i] = v
        own == [by |-> n, seq |-> r.owes] IN
    r.val # NoValue =>
      /\ taken(r.val)
      /\ r.owes > 0 => taken(own) /\ Position(r.key, own) <= Position(r.key, r.val)
      /\ r.prev # NoValue => Position(r.key, r.prev) <= Position(r.key, r.val)

\* Teardown loses nothing: a ReceiverThread only ends when no message is left
\* for its node and nobody waits at it, and none is sent to it later.
TeardownClean ==
  (\A n \in Nodes : ~Leaked(n) /\ aborted[n] = "no") =>
    \A n \in Nodes : pc[n]["rt"] = "exited" =>
      queue[n] = <<>> /\ \A k \in Keys : msgCache[n][k] = <<>>

\* A blocking get returns once its key is in the store of the key's home
\* (doc.md: a WaitAndGet is cached and answered once the data is added).
WaitersServed ==
  \A n \in Nodes, k \in Keys :
    (WaitsFor(n, k) /\ kvMap[Home[k]][k] # NoValue) ~> ~WaitsFor(n, k)

\* The same as long as the first value of the key came in a message: then the
\* ReceiverThread, which reads kvMap_ and caches the request, also stored it.
RemotelyServed ==
  \A n \in Nodes, k \in Keys :
    (WaitsFor(n, k) /\ log[k] # <<>> /\ log[k][1].by # Home[k]) ~> ~WaitsFor(n, k)

\* When every application has ended, every node ends.
TeardownCompletes ==
  (\A n \in Nodes : pc[n]["app"] = "join") ~> (\A n \in Nodes : pc[n]["app"] = "exited")

\* The server tears the system down once, after the application of every node
\* has ended: nobody gets a Teardown who may still put or get.
NoEarlyTeardown ==
  (nextTorn > 0 \/ \E n \in Nodes : pc[n]["rt"] \in {"teardown", "exited"}) =>
    \A n \in Nodes : pc[n]["app"] \in {"join", "exited", "aborted"}

-----------------------------------------------------------------------------
(* The stores implement one shared map, for applications that only block *)

PutsIn(s, n) == {m \in Range(s) : m.kind = "Put" /\ m.from = n}

\* The value that is on its way back to the get of n: the one its home read
\* for it, or the one in the reply.
OnItsWay(n) ==
  LET k == key[n]["app"]
      h == Home[k]
      replies == {m \in Range(queue[n]) \cup Range(msgCache[n][k]) :
                    m.kind = "ReplyData" /\ m.key = k} IN
  IF replies # {}
  THEN (CHOOSE m \in replies : TRUE).val
  ELSE IF pc[h]["rt"] = "answer" /\ request[h].from = n THEN found[h] ELSE NoValue

InGet(n) == pc[n]["app"] \in {"spin", "lockCache", "asleep"}

\* What the variables of SharedStore are here.
MapNow == [k \in Keys |-> kvMap[Home[k]][k]]

PutsNow ==
  [n \in Nodes |-> [h \in Nodes |->
     {[num |-> m.val.seq, key |-> m.key, val |-> m.val] : m \in PutsIn(queue[h], n)}]]

GettingNow == [n \in Nodes |-> IF InGet(n) THEN key[n]["app"] ELSE NoKey]

TakenNow ==
  [n \in Nodes |-> IF pc[n]["app"] \in {"lockCache", "asleep"} THEN OnItsWay(n) ELSE NoValue]

ReturnedNow == [n \in Nodes |-> [key |-> result[n].key, val |-> result[n].val]]

Shared == INSTANCE SharedStore WITH
  map <- MapNow, puts <- PutsNow, getting <- GettingNow, taken <- TakenNow,
  returned <- ReturnedNow, Calls <- 1 .. MaxOps

\* KVStore, its messages and its two threads per node implement SharedStore:
\* a get linearizes where the home reads kvMap_ for it.
ImplementsSharedStore == Shared!SSpec
-----------------------------------------------------------------------------
(* The inductive invariant behind CastsHold and NoEarlyTeardown *)

Requests == {"GetData", "WaitAndGet"}
Ended    == {"join", "exited", "aborted"}

\* Requests and puts only travel to their key's home, replies never do.
WellHomed(n, m) ==
  /\ m.kind \in Requests \cup {"Put"} => m.key \in Keys /\ Home[m.key] = n
  /\ m.kind \in Requests => m.from # n
  /\ m.kind = "Put" => m.val \in Value
  /\ m.kind = "ReplyData" => m.key \in Keys /\ Home[m.key] # n

QueueHomed == \A n \in Nodes : \A m \in Range(queue[n]) : WellHomed(n, m)

\* msgCache_ holds waiters under the keys that live here, replies under others.
CacheHomed ==
  \A n \in Nodes, k \in Keys : \A m \in Range(msgCache[n][k]) :
    /\ Home[k] = n => m.kind = "WaitAndGet" /\ m.from # n
    /\ Home[k] # n => m.kind = "ReplyData"

TodoHomed ==
  \A n \in Nodes, t \in Threads : \A m \in Range(todo[n][t]) :
    m.kind = "WaitAndGet" /\ m.from # n

\* The key that a thread works on lives where the thread's position says.
ThreadsHomed ==
  \A n \in Nodes :
    /\ \A t \in Threads :
         pc[n][t] \in {"handleCache", "serve"} => key[n][t] \in Keys /\ Home[key[n][t]] = n
    /\ pc[n]["app"] = "spin" => key[n]["app"] \in Keys /\ Home[key[n]["app"]] = n
    /\ pc[n]["app"] \in {"lockCache", "asleep"} =>
         key[n]["app"] \in Keys /\ Home[key[n]["app"]] # n
    /\ pc[n]["rt"] = "answer" =>
         /\ request[n].kind \in Requests /\ request[n].from # n
         /\ request[n].key \in Keys /\ Home[request[n].key] = n

\* No two Done messages in the inbox of the server come from the same node.
DoneDistinct ==
  \A i, j \in DOMAIN queue[Server] :
    i # j /\ queue[Server][i].kind = "Done" /\ queue[Server][j].kind = "Done" =>
      queue[Server][i].from # queue[Server][j].from

\* Each application's Done is sent, and counted by the server, at most once.
DoneOnce ==
  /\ \A n \in Nodes : \A m \in Range(queue[n]) : m.kind = "Done" =>
       n = Server /\ ~isNodeDone[m.from] /\ pc[m.from]["app"] \in Ended
  /\ \A n \in Nodes : isNodeDone[n] => pc[n]["app"] \in Ended

\* Teardown starts from the last Done, on the server only.
TeardownLast ==
  /\ \A n \in Nodes : pc[n]["rt"] = "teardown" =>
       n = Server /\ nextTorn < NumNodes /\ AllDone(isNodeDone)
  /\ nextTorn > 0 => AllDone(isNodeDone)
  /\ \A n \in Nodes : pc[n]["rt"] = "exited" => AllDone(isNodeDone)
  /\ \A n \in Nodes : \A m \in Range(queue[n]) :
       m.kind = "Teardown" => AllDone(isNodeDone)

IndInv ==
  /\ TypeOK /\ CastsHold
  /\ QueueHomed /\ CacheHomed /\ TodoHomed /\ ThreadsHomed
  /\ DoneDistinct /\ DoneOnce /\ TeardownLast
=============================================================================
