---------------------------- MODULE KVStoreProofs ----------------------------
(***************************************************************************)
(* Proofs, for any number of nodes, keys and calls, that the casts of the  *)
(* stores hold, that a get of a key that lives elsewhere is carried on by  *)
(* exactly one message, and that teardown waits for every application and  *)
(* leaves no message and no waiter behind.                                 *)
(***************************************************************************)
EXTENDS KVStore, FiniteSetTheorems, FunctionTheorems, TLAPS

-----------------------------------------------------------------------------
(* Functions and sequences *)

\* A nested EXCEPT keeps the type of a function of functions.
LEMMA Except2Type ==
  ASSUME NEW S, NEW R, NEW T, NEW f \in [S -> [R -> T]],
         NEW x \in S, NEW r \in R, NEW y \in T
  PROVE  /\ [f EXCEPT ![x][r] = y] \in [S -> [R -> T]]
         /\ \A a \in S, b \in R :
              [f EXCEPT ![x][r] = y][a][b] = IF a = x /\ b = r THEN y ELSE f[a][b]
  OBVIOUS

\* Pushing a message adds that message to the elements and nothing else.
LEMMA RangeAppend ==
  ASSUME NEW S, NEW s \in Seq(S), NEW e \in S
  PROVE  Append(s, e) \in Seq(S) /\ Range(Append(s, e)) = Range(s) \cup {e}
  <1>1. Append(s, e) \in Seq(S) /\ DOMAIN Append(s, e) = 1 .. Len(s) + 1
    OBVIOUS
  <1>2. \A i \in 1 .. Len(s) : Append(s, e)[i] = s[i]
    OBVIOUS
  <1>3. Append(s, e)[Len(s) + 1] = e
    OBVIOUS
  <1>4. DOMAIN s = 1 .. Len(s) /\ Len(s) \in Nat
    OBVIOUS
  <1>5. QED
    BY <1>1, <1>2, <1>3, <1>4 DEF Range

\* Popping a message takes it from the elements and adds nothing.
LEMMA RangeTail ==
  ASSUME NEW S, NEW s \in Seq(S), s # <<>>
  PROVE  /\ Tail(s) \in Seq(S) /\ Head(s) \in S
         /\ Head(s) \in Range(s) /\ Range(Tail(s)) \subseteq Range(s)
  <1>1. /\ Tail(s) \in Seq(S) /\ Head(s) \in S /\ Head(s) = s[1]
        /\ DOMAIN s = 1 .. Len(s) /\ Len(s) \in Nat /\ Len(s) > 0
        /\ DOMAIN Tail(s) = 1 .. Len(s) - 1
    OBVIOUS
  <1>2. \A i \in 1 .. Len(s) - 1 : Tail(s)[i] = s[i + 1]
    OBVIOUS
  <1>3. QED
    BY <1>1, <1>2 DEF Range

\* What the standard module says of the head and the tail of an inbox.
LEMMA TailFacts ==
  ASSUME NEW s \in Seq(Message), s # <<>>
  PROVE  /\ DOMAIN s = 1 .. Len(s) /\ Len(s) \in Nat \ {0} /\ Head(s) = s[1]
         /\ DOMAIN Tail(s) = 1 .. Len(s) - 1 /\ Len(Tail(s)) = Len(s) - 1
         /\ \A i \in 1 .. Len(s) - 1 : Tail(s)[i] = s[i + 1]
         /\ Len(s) = 1 => Tail(s) = <<>>
  <1>1. DOMAIN s = 1 .. Len(s) /\ Len(s) \in Nat \ {0}
    OBVIOUS
  <1>2. Head(s) = s[1]
    OBVIOUS
  <1>3. Tail(s) \in Seq(Message) /\ Len(Tail(s)) = Len(s) - 1
    OBVIOUS
  <1>4. \A i \in 1 .. Len(s) - 1 : Tail(s)[i] = s[i + 1]
    OBVIOUS
  <1>5. DOMAIN Tail(s) = 1 .. Len(s) - 1
    BY <1>3
  <1>6. ASSUME Len(s) = 1
        PROVE  Tail(s) = <<>>
    <2>1. PICK e \in Seq(Message) : e = Tail(s)
      BY <1>3
    <2>2. Len(e) = 0
      BY <1>3, <1>6, <2>1
    <2>3. e = <<>>
      BY <2>2
    <2>4. QED
      BY <2>1, <2>3
  <1>7. QED
    BY <1>1, <1>2, <1>3, <1>4, <1>5, <1>6

\* The empty sequence has no elements.
LEMMA RangeEmpty == Range(<<>>) = {}
  BY DEF Range

-----------------------------------------------------------------------------
(* What the helpers of the actions do *)

\* A message that is sent joins the inbox of its target and no other.
LEMMA SendEffect ==
  ASSUME TypeOK, NEW h \in Nodes, NEW m \in Message, Send(h, m)
  PROVE  /\ queue' \in [Nodes -> Seq(Message)]
         /\ \A a \in Nodes :
              Range(queue'[a]) = IF a = h THEN Range(queue[a]) \cup {m} ELSE Range(queue[a])
  <1>1. queue[h] \in Seq(Message)
    BY DEF TypeOK
  <1>2. Append(queue[h], m) \in Seq(Message)
        /\ Range(Append(queue[h], m)) = Range(queue[h]) \cup {m}
    BY <1>1, RangeAppend
  <1>3. QED
    BY <1>2 DEF TypeOK, Send

\* The message that is received was in the inbox, which gains nothing.
LEMMA ReceiveEffect ==
  ASSUME TypeOK, NEW n \in Nodes, NEW kinds, Receive(n, kinds)
  PROVE  /\ queue' \in [Nodes -> Seq(Message)]
         /\ Head(queue[n]) \in Message
         /\ Head(queue[n]) \in Range(queue[n])
         /\ \A a \in Nodes : Range(queue'[a]) \subseteq Range(queue[a])
  <1>1. queue[n] \in Seq(Message) /\ queue[n] # <<>>
    BY DEF TypeOK, Receive
  <1>2. /\ Tail(queue[n]) \in Seq(Message) /\ Head(queue[n]) \in Message
        /\ Head(queue[n]) \in Range(queue[n])
        /\ Range(Tail(queue[n])) \subseteq Range(queue[n])
    BY <1>1, RangeTail
  <1>3. QED
    BY <1>2 DEF TypeOK, Receive

\* A thread that moves on moves alone.
LEMMA GotoEffect ==
  ASSUME TypeOK, NEW n \in Nodes, NEW t \in Threads, NEW l \in Labels, Goto(n, t, l)
  PROVE  /\ pc' \in [Nodes -> [Threads -> Labels]]
         /\ \A a \in Nodes, b \in Threads :
              pc'[a][b] = IF a = n /\ b = t THEN l ELSE pc[a][b]
  <1>1. pc \in [Nodes -> [Threads -> Labels]] /\ pc' = [pc EXCEPT ![n][t] = l]
    BY DEF TypeOK, Goto
  <1>2. QED
    BY ONLY <1>1, n \in Nodes, t \in Threads, l \in Labels, Except2Type

\* A thread that turns to another key leaves the other threads theirs.
LEMMA KeyEffect ==
  ASSUME TypeOK, NEW n \in Nodes, NEW t \in Threads, NEW k \in Keys
  PROVE  /\ [key EXCEPT ![n][t] = k] \in [Nodes -> [Threads -> Keys \cup {NoKey}]]
         /\ \A a \in Nodes, b \in Threads :
              [key EXCEPT ![n][t] = k][a][b] = IF a = n /\ b = t THEN k ELSE key[a][b]
  <1>1. key \in [Nodes -> [Threads -> Keys \cup {NoKey}]] /\ k \in Keys \cup {NoKey}
    BY DEF TypeOK
  <1>2. QED
    BY ONLY <1>1, n \in Nodes, t \in Threads, Except2Type

\* An abort stops both threads of its node.
LEMMA AbortEffect ==
  ASSUME TypeOK, NEW n \in Nodes, NEW why \in Failures, Abort(n, why)
  PROVE  /\ pc' \in [Nodes -> [Threads -> Labels]]
         /\ aborted' \in [Nodes -> Failures \cup {"no"}]
         /\ \A a \in Nodes, b \in Threads :
              pc'[a][b] = IF a = n THEN "aborted" ELSE pc[a][b]
         /\ \A a \in Nodes : aborted'[a] = IF a = n THEN why ELSE aborted[a]
  <1>1. [t \in Threads |-> "aborted"] \in [Threads -> Labels]
    BY DEF Labels, AppLabels
  <1>2. QED
    BY <1>1 DEF TypeOK, Abort

\* A message that is cached joins the array of its key, and wakes the
\* application thread if it sleeps.
LEMMA AddToCacheEffect ==
  ASSUME TypeOK, NEW n \in Nodes, NEW k \in Keys, NEW m \in Message, AddToCache(n, k, m)
  PROVE  /\ msgCache' \in [Nodes -> [Keys -> Seq(Message)]]
         /\ pc' \in [Nodes -> [Threads -> Labels]]
         /\ \A a \in Nodes, b \in Threads :
              pc'[a][b] = IF a = n /\ b = "rt" THEN "receive"
                          ELSE IF a = n /\ b = "app" /\ pc[a][b] = "asleep" THEN "lockCache"
                          ELSE pc[a][b]
  <1>1. msgCache[n][k] \in Seq(Message)
    BY DEF TypeOK
  <1>2. Append(msgCache[n][k], m) \in Seq(Message)
        /\ Range(Append(msgCache[n][k], m)) = Range(msgCache[n][k]) \cup {m}
    BY <1>1, RangeAppend
  <1>3. /\ msgCache' \in [Nodes -> [Keys -> Seq(Message)]]
        /\ \A a \in Nodes, b \in Keys :
             msgCache'[a][b] = IF a = n /\ b = k THEN Append(msgCache[n][k], m)
                                                 ELSE msgCache[a][b]
    <2>1. msgCache \in [Nodes -> [Keys -> Seq(Message)]]
      BY DEF TypeOK
    <2>2. msgCache' = [msgCache EXCEPT ![n][k] = Append(msgCache[n][k], m)]
      BY DEF AddToCache
    <2>3. QED
      BY <1>2, <2>1, <2>2, Except2Type
  <1> DEFINE woken == IF pc[n]["app"] = "asleep" THEN "lockCache" ELSE pc[n]["app"]
             moved == [pc EXCEPT ![n]["rt"] = "receive"]
  <1>4. /\ pc \in [Nodes -> [Threads -> Labels]]
        /\ "rt" \in Threads /\ "app" \in Threads /\ "receive" \in Labels
        /\ woken \in Labels
    BY DEF TypeOK, Threads, Labels, AppLabels, RtLabels
  <1>5. /\ moved \in [Nodes -> [Threads -> Labels]]
        /\ \A a \in Nodes, b \in Threads :
             moved[a][b] = IF a = n /\ b = "rt" THEN "receive" ELSE pc[a][b]
    BY <1>4, Except2Type
  <1>6. pc' = [moved EXCEPT ![n]["app"] = woken]
    BY <1>4, <1>5 DEF AddToCache
  <1>7. /\ pc' \in [Nodes -> [Threads -> Labels]]
        /\ \A a \in Nodes, b \in Threads :
             pc'[a][b] = IF a = n /\ b = "app" THEN woken ELSE moved[a][b]
    <2>1. \A t \in Threads :
            /\ [moved EXCEPT ![n][t] = woken] \in [Nodes -> [Threads -> Labels]]
            /\ \A a \in Nodes, b \in Threads :
                 [moved EXCEPT ![n][t] = woken][a][b] =
                   IF a = n /\ b = t THEN woken ELSE moved[a][b]
      <3>1. moved \in [Nodes -> [Threads -> Labels]] /\ woken \in Labels
        BY <1>4, <1>5
      <3> HIDE DEF moved, woken
      <3>2. QED
        BY ONLY <3>1, n \in Nodes, Except2Type
    <2> HIDE DEF moved, woken
    <2>2. QED
      BY <1>4, <1>6, <2>1
  <1>8. \A a \in Nodes, b \in Threads :
          pc'[a][b] = IF a = n /\ b = "rt" THEN "receive"
                      ELSE IF a = n /\ b = "app" /\ pc[a][b] = "asleep" THEN "lockCache"
                      ELSE pc[a][b]
    <2> HIDE DEF moved
    <2>1. QED
      BY <1>4, <1>5, <1>7
  <1>9. QED
    BY <1>2, <1>3, <1>7, <1>8

\* The array of a key gains at most the message that is cached under it.
LEMMA AddToCacheGains ==
  ASSUME TypeOK, NEW n \in Nodes, NEW k \in Keys, NEW m \in Message, AddToCache(n, k, m)
  PROVE  \A a \in Nodes, b \in Keys : \A e \in Range(msgCache'[a][b]) :
           e \in Range(msgCache[a][b]) \/ (a = n /\ b = k /\ e = m)
  <1>1. msgCache[n][k] \in Seq(Message)
    BY DEF TypeOK
  <1>2. Range(Append(msgCache[n][k], m)) = Range(msgCache[n][k]) \cup {m}
    BY <1>1, RangeAppend
  <1>3. \A a \in Nodes, b \in Keys :
          msgCache'[a][b] = IF a = n /\ b = k THEN Append(msgCache[n][k], m)
                                              ELSE msgCache[a][b]
    BY DEF TypeOK, AddToCache
  <1>4. QED
    BY <1>2, <1>3

\* An array that is taken leaves the arrays of the other keys alone.
LEMMA RemoveArrayEffect ==
  ASSUME TypeOK, NEW n \in Nodes, NEW k \in Keys, RemoveArray(n, k)
  PROVE  /\ msgCache' \in [Nodes -> [Keys -> Seq(Message)]]
         /\ \A a \in Nodes, b \in Keys : Range(msgCache'[a][b]) \subseteq Range(msgCache[a][b])
  <1>1. /\ msgCache \in [Nodes -> [Keys -> Seq(Message)]]
        /\ msgCache' = [msgCache EXCEPT ![n][k] = <<>>]
    BY DEF TypeOK, RemoveArray
  <1>2. /\ msgCache' \in [Nodes -> [Keys -> Seq(Message)]]
        /\ \A a \in Nodes, b \in Keys :
             msgCache'[a][b] = IF a = n /\ b = k THEN <<>> ELSE msgCache[a][b]
    <2>1. <<>> \in Seq(Message)
      OBVIOUS
    <2>2. QED
      BY ONLY <1>1, <2>1, n \in Nodes, k \in Keys, Except2Type
  <1>3. QED
    BY <1>2, RangeEmpty

\* A call is counted, and the value it may put is a value.
LEMMA CallEffect ==
  ASSUME TypeOK, NEW n \in Nodes, Call(n)
  PROVE  /\ ops' \in [Nodes -> 0 .. MaxOps]
         /\ NextValue(n) \in Value
         /\ ops[n] + 1 \in 0 .. MaxOps
         /\ pc[n]["app"] = "run"
  BY KVAssumption DEF TypeOK, Call, NextValue, Value

\* The record of a node's last put of a key keeps its type.
LEMMA LastPutEffect ==
  ASSUME TypeOK, NEW n \in Nodes, NEW k \in Keys, Call(n)
  PROVE  [lastPut EXCEPT ![n][k] = ops[n] + 1] \in [Nodes -> [Keys -> 0 .. MaxOps]]
  <1>1. lastPut \in [Nodes -> [Keys -> 0 .. MaxOps]] /\ ops[n] + 1 \in 0 .. MaxOps
    BY CallEffect DEF TypeOK
  <1>2. QED
    BY ONLY <1>1, n \in Nodes, k \in Keys, Except2Type

\* What a get returns, and the history of it, keep their types.
LEMMA ReturnEffect ==
  ASSUME TypeOK, NEW n \in Nodes, NEW k \in Keys, NEW v \in Value \cup {NoValue},
         Return(n, k, v)
  PROVE  /\ result' \in [Nodes -> [key : Keys \cup {NoKey}, val : Value \cup {NoValue},
                                   owes : 0 .. MaxOps, prev : Value \cup {NoValue}]]
         /\ lastRead' \in [Nodes -> [Keys -> Value \cup {NoValue}]]
  <1>1. [key |-> k, val |-> v, owes |-> lastPut[n][k], prev |-> lastRead[n][k]]
          \in [key : Keys \cup {NoKey}, val : Value \cup {NoValue},
               owes : 0 .. MaxOps, prev : Value \cup {NoValue}]
    BY DEF TypeOK
  <1>2. lastRead' \in [Nodes -> [Keys -> Value \cup {NoValue}]]
    BY DEF TypeOK, Return
  <1>3. QED
    BY <1>1, <1>2 DEF TypeOK, Return

\* A put at the home stores a value and records it.
LEMMA StoreValueEffect ==
  ASSUME TypeOK, NEW n \in Nodes, NEW t \in Threads, NEW k \in Keys, NEW v \in Value,
         StoreValue(n, t, k, v)
  PROVE  /\ kvMap' \in [Nodes -> [Keys -> Value \cup {NoValue}]]
         /\ log' \in [Keys -> Seq(Value)]
         /\ key' \in [Nodes -> [Threads -> Keys \cup {NoKey}]]
         /\ \A a \in Nodes, b \in Threads :
              key'[a][b] = IF a = n /\ b = t THEN k ELSE key[a][b]
         /\ pc' \in [Nodes -> [Threads -> Labels]]
         /\ \A a \in Nodes, b \in Threads :
              pc'[a][b] = IF a = n /\ b = t THEN "handleCache" ELSE pc[a][b]
  <1>1. kvMap' \in [Nodes -> [Keys -> Value \cup {NoValue}]]
    <2>1. /\ kvMap \in [Nodes -> [Keys -> Value \cup {NoValue}]]
          /\ kvMap' = [kvMap EXCEPT ![n][k] = v]
          /\ v \in Value \cup {NoValue}
      BY DEF TypeOK, StoreValue
    <2>2. QED
      BY ONLY <2>1, n \in Nodes, k \in Keys, Except2Type
  <1>2. log' \in [Keys -> Seq(Value)]
    BY DEF TypeOK, StoreValue
  <1>3. /\ key' \in [Nodes -> [Threads -> Keys \cup {NoKey}]]
        /\ \A a \in Nodes, b \in Threads :
             key'[a][b] = IF a = n /\ b = t THEN k ELSE key[a][b]
    <2>1. key' = [key EXCEPT ![n][t] = k]
      BY DEF StoreValue
    <2>2. QED
      BY <2>1, KeyEffect
  <1>4. "handleCache" \in Labels
    BY DEF Labels, AppLabels
  <1>5. QED
    BY <1>1, <1>2, <1>3, <1>4, GotoEffect DEF StoreValue

-----------------------------------------------------------------------------
(* Type correctness *)

\* The messages that the actions build are messages.
LEMMA MessageTypes ==
  ASSUME NEW n \in Nodes
  PROVE  /\ \A kind \in MsgKind, k \in Keys, v \in Value \cup {NoValue} :
              DataMsg(kind, n, k, v) \in Message
         /\ \A kind \in MsgKind : ControlMsg(kind, n) \in Message
  BY DEF DataMsg, ControlMsg, Message

\* The labels that threads move to are labels.
LEMMA LabelTypes ==
  /\ {"run", "handleCache", "serve", "spin", "lockCache", "asleep", "join",
      "exited", "receive", "answer", "teardown"} \subseteq Labels
  /\ \A t \in Threads : Idle(t) \in Labels
  /\ "app" \in Threads /\ "rt" \in Threads
  BY DEF Labels, AppLabels, RtLabels, Idle, Threads

\* The initial state is well typed.
LEMMA InitType == Init => TypeOK
  <1> SUFFICES ASSUME Init PROVE TypeOK
    OBVIOUS
  <1>1. NoMessage \in Message
    BY KVAssumption DEF NoMessage, Message, MsgKind
  <1>2. /\ queue \in [Nodes -> Seq(Message)]
        /\ kvMap \in [Nodes -> [Keys -> Value \cup {NoValue}]]
        /\ msgCache \in [Nodes -> [Keys -> Seq(Message)]]
        /\ lock \in [Nodes -> Threads \cup {"free"}]
    BY DEF Init
  <1>3. pc \in [Nodes -> [Threads -> Labels]]
    BY DEF Init, Labels, AppLabels, RtLabels
  <1>4. /\ key \in [Nodes -> [Threads -> Keys \cup {NoKey}]]
        /\ todo \in [Nodes -> [Threads -> Seq(Message)]]
        /\ request \in [Nodes -> Message]
        /\ found \in [Nodes -> Value \cup {NoValue}]
        /\ shouldBlock \in [Nodes -> BOOLEAN]
        /\ isNodeDone \in [Nodes -> BOOLEAN]
        /\ aborted \in [Nodes -> Failures \cup {"no"}]
    BY <1>1 DEF Init
  <1>5. nextTorn \in 0 .. NumNodes /\ ops \in [Nodes -> 0 .. MaxOps]
    BY KVAssumption DEF Init
  <1>6. result \in [Nodes -> [key : Keys \cup {NoKey}, val : Value \cup {NoValue},
                              owes : 0 .. MaxOps, prev : Value \cup {NoValue}]]
    BY KVAssumption DEF Init, NoResult
  <1>7. /\ log \in [Keys -> Seq(Value)]
        /\ lastPut \in [Nodes -> [Keys -> 0 .. MaxOps]]
        /\ lastRead \in [Nodes -> [Keys -> Value \cup {NoValue}]]
    BY KVAssumption DEF Init
  <1>8. QED
    BY <1>2, <1>3, <1>4, <1>5, <1>6, <1>7 DEF TypeOK

\* Calls of the application keep the types.
LEMMA AppCallsType ==
  ASSUME TypeOK, NEW n \in Nodes, AppCalls(n)
  PROVE  TypeOK'
  <1>1. ASSUME NEW k \in Keys, PutRemote(n, k) PROVE TypeOK'
    <2>1. Call(n)
      BY <1>1 DEF PutRemote
    <2>2. queue' \in [Nodes -> Seq(Message)]
      BY <1>1, <2>1, CallEffect, MessageTypes, SendEffect, KVAssumption DEF PutRemote, MsgKind
    <2>3. lastPut' \in [Nodes -> [Keys -> 0 .. MaxOps]]
      BY <1>1, <2>1, LastPutEffect DEF PutRemote
    <2>4. QED
      BY <1>1, <2>1, <2>2, <2>3, CallEffect DEF PutRemote, TypeOK, store, rtLocal, done
  <1>2. ASSUME NEW k \in Keys, PutLocal(n, k) PROVE TypeOK'
    <2>1. Call(n)
      BY <1>2 DEF PutLocal
    <2>2. /\ kvMap' \in [Nodes -> [Keys -> Value \cup {NoValue}]]
          /\ log' \in [Keys -> Seq(Value)]
          /\ key' \in [Nodes -> [Threads -> Keys \cup {NoKey}]]
          /\ pc' \in [Nodes -> [Threads -> Labels]]
      BY <1>2, <2>1, CallEffect, StoreValueEffect, LabelTypes DEF PutLocal
    <2>3. lastPut' \in [Nodes -> [Keys -> 0 .. MaxOps]]
      BY <1>2, <2>1, LastPutEffect DEF PutLocal
    <2>4. QED
      BY <1>2, <2>1, <2>2, <2>3, CallEffect DEF PutLocal, TypeOK, rtLocal, done
  <1>3. ASSUME NEW k \in Keys, GetLocal(n, k) PROVE TypeOK'
    <2>1. Call(n) /\ kvMap[n][k] \in Value \cup {NoValue}
      BY <1>3 DEF GetLocal, TypeOK
    <2>2. QED
      BY <1>3, <2>1, CallEffect, ReturnEffect
      DEF GetLocal, TypeOK, network, store, rtLocal, done
  <1>4. ASSUME NEW k \in Keys, SpinLocal(n, k) PROVE TypeOK'
    <2>1. Call(n)
      BY <1>4 DEF SpinLocal
    <2>2. key' \in [Nodes -> [Threads -> Keys \cup {NoKey}]]
      BY <1>4, LabelTypes, KeyEffect DEF SpinLocal
    <2>3. pc' \in [Nodes -> [Threads -> Labels]]
      BY <1>4, LabelTypes, GotoEffect DEF SpinLocal
    <2>4. QED
      BY <1>4, <2>1, <2>2, <2>3, CallEffect
      DEF SpinLocal, TypeOK, network, store, rtLocal, done, history
  <1>5. ASSUME NEW k \in Keys, NEW block \in BOOLEAN, RequestRemote(n, k, block)
        PROVE  TypeOK'
    <2>1. Call(n)
      BY <1>5 DEF RequestRemote
    <2>2. queue' \in [Nodes -> Seq(Message)]
      BY <1>5, MessageTypes, SendEffect, KVAssumption DEF RequestRemote, MsgKind
    <2>3. key' \in [Nodes -> [Threads -> Keys \cup {NoKey}]]
      BY <1>5, LabelTypes, KeyEffect DEF RequestRemote
    <2>4. pc' \in [Nodes -> [Threads -> Labels]]
      BY <1>5, LabelTypes, GotoEffect DEF RequestRemote
    <2>5. shouldBlock' \in [Nodes -> BOOLEAN]
      BY <1>5 DEF RequestRemote, TypeOK
    <2>6. QED
      BY <1>5, <2>1, <2>2, <2>3, <2>4, <2>5, CallEffect
      DEF RequestRemote, TypeOK, store, rtLocal, done, history
  <1>6. ASSUME SendDone(n) PROVE TypeOK'
    <2>1. queue' \in [Nodes -> Seq(Message)]
      BY <1>6, MessageTypes, SendEffect, KVAssumption DEF SendDone, MsgKind
    <2>2. pc' \in [Nodes -> [Threads -> Labels]]
      BY <1>6, LabelTypes, GotoEffect DEF SendDone
    <2>3. QED
      BY <1>6, <2>1, <2>2 DEF SendDone, TypeOK, store, rtLocal, done, history
  <1>7. QED
    BY <1>1, <1>2, <1>3, <1>4, <1>5, <1>6 DEF AppCalls

\* The rounds of tryToHandleCache_ keep the types.
LEMMA TryToHandleCacheType ==
  ASSUME IndInv, NEW n \in Nodes, NEW t \in Threads, TryToHandleCache(n, t)
  PROVE  TypeOK'
  <1> DEFINE k == key[n][t]
  <1>1. TypeOK /\ k \in Keys
    BY DEF IndInv, ThreadsHomed, TryToHandleCache, TakeWaiters, NoWaiters, ServeWaiter, ServedAll
  <1>2. ASSUME TakeWaiters(n, t) PROVE TypeOK'
    <2>1. lock' \in [Nodes -> Threads \cup {"free"}]
      BY <1>1, <1>2 DEF TakeWaiters, TypeOK
    <2>2. todo' \in [Nodes -> [Threads -> Seq(Message)]]
      BY <1>1, <1>2, Except2Type DEF TakeWaiters, TypeOK
    <2>3. msgCache' \in [Nodes -> [Keys -> Seq(Message)]]
      BY <1>1, <1>2, RemoveArrayEffect DEF TakeWaiters
    <2>4. pc' \in [Nodes -> [Threads -> Labels]]
      BY <1>1, <1>2, LabelTypes, GotoEffect DEF TakeWaiters
    <2>5. QED
      BY <1>1, <1>2, <2>1, <2>2, <2>3, <2>4
      DEF TakeWaiters, TypeOK, network, rtLocal, done, history
  <1>3. ASSUME NoWaiters(n, t) PROVE TypeOK'
    <2>1. pc' \in [Nodes -> [Threads -> Labels]]
      BY <1>1, <1>3, LabelTypes, GotoEffect DEF NoWaiters
    <2>2. QED
      BY <1>1, <1>3, <2>1 DEF NoWaiters, TypeOK, network, store, rtLocal, done, history
  <1>4. ASSUME ServeWaiter(n, t) PROVE TypeOK'
    <2> DEFINE m == Head(todo[n][t])
    <2>1. todo[n][t] \in Seq(Message) /\ todo[n][t] # <<>>
      BY <1>1, <1>4 DEF ServeWaiter, TypeOK
    <2>2. m \in Message /\ m \in Range(todo[n][t]) /\ Tail(todo[n][t]) \in Seq(Message)
      BY <2>1, RangeTail
    <2>3. m.kind = "WaitAndGet" /\ m.from \in Nodes
      BY <2>2 DEF IndInv, TodoHomed, Message
    <2>4. /\ Send(m.from, DataMsg("ReplyData", n, k, kvMap[n][k]))
          /\ todo' = [todo EXCEPT ![n][t] = Tail(todo[n][t])]
          /\ UNCHANGED <<pc, aborted>>
      BY <1>4, <2>3 DEF ServeWaiter
    <2>5. DataMsg("ReplyData", n, k, kvMap[n][k]) \in Message
      BY <1>1, MessageTypes DEF TypeOK, MsgKind
    <2>6. queue' \in [Nodes -> Seq(Message)]
      BY <1>1, <2>3, <2>4, <2>5, SendEffect
    <2>7. todo' \in [Nodes -> [Threads -> Seq(Message)]]
      <3>1. todo \in [Nodes -> [Threads -> Seq(Message)]]
        BY <1>1 DEF TypeOK
      <3>2. QED
        BY <2>2, <2>4, <3>1, Except2Type
    <2>8. QED
      BY <1>1, <1>4, <2>4, <2>6, <2>7
      DEF ServeWaiter, TypeOK, store, rtLocal, done, history
  <1>5. ASSUME ServedAll(n, t) PROVE TypeOK'
    <2>1. pc' \in [Nodes -> [Threads -> Labels]]
      BY <1>1, <1>5, LabelTypes, GotoEffect DEF ServedAll
    <2>2. QED
      BY <1>1, <1>5, <2>1 DEF ServedAll, TypeOK, network, rtLocal, done, history
  <1>6. QED
    BY <1>2, <1>3, <1>4, <1>5 DEF TryToHandleCache

\* The array that TakeReply finds is of replies, so the cast holds.
LEMMA CachedAreReplies ==
  ASSUME IndInv, NEW n \in Nodes, pc[n]["app"] = "lockCache",
         msgCache[n][key[n]["app"]] # <<>>
  PROVE  LET arr == msgCache[n][key[n]["app"]] IN
         /\ key[n]["app"] \in Keys
         /\ arr[1] \in Message
         /\ arr[1].kind = "ReplyData"
         /\ arr[1].val \in Value \cup {NoValue}
  <1> DEFINE arr == msgCache[n][key[n]["app"]]
  <1>1. key[n]["app"] \in Keys /\ Home[key[n]["app"]] # n
    BY DEF IndInv, ThreadsHomed
  <1>2. arr \in Seq(Message) /\ arr # <<>>
    BY <1>1 DEF IndInv, TypeOK
  <1>3. Head(arr) = arr[1]
    BY <1>2
  <1>4. arr[1] \in Range(arr) /\ arr[1] \in Message
    BY <1>2, <1>3, RangeTail
  <1>5. QED
    BY <1>1, <1>4 DEF IndInv, CacheHomed, Message

\* What the application thread does until a call returns keeps the types.
LEMMA AppContinuesType ==
  ASSUME IndInv, NEW n \in Nodes, AppContinues(n) \/ SpuriousWakeup(n)
  PROVE  TypeOK'
  <1>1. TypeOK
    BY DEF IndInv
  <1>2. ASSUME SpinReads(n) PROVE TypeOK'
    <2>1. key[n]["app"] \in Keys
      BY <1>2 DEF SpinReads, IndInv, ThreadsHomed
    <2>2. kvMap[n][key[n]["app"]] \in Value \cup {NoValue}
      BY <1>1, <2>1 DEF TypeOK
    <2>3. /\ result' \in [Nodes -> [key : Keys \cup {NoKey}, val : Value \cup {NoValue},
                                    owes : 0 .. MaxOps, prev : Value \cup {NoValue}]]
          /\ lastRead' \in [Nodes -> [Keys -> Value \cup {NoValue}]]
      BY <1>1, <1>2, <2>1, <2>2, ReturnEffect DEF SpinReads
    <2>4. pc' \in [Nodes -> [Threads -> Labels]]
      BY <1>1, <1>2, LabelTypes, GotoEffect DEF SpinReads
    <2>5. QED
      BY <1>1, <1>2, <2>3, <2>4 DEF SpinReads, TypeOK, network, store, rtLocal, done
  <1>3. ASSUME WaitForReply(n) PROVE TypeOK'
    <2>1. pc' \in [Nodes -> [Threads -> Labels]]
      BY <1>1, <1>3, LabelTypes, GotoEffect DEF WaitForReply
    <2>2. QED
      BY <1>1, <1>3, <2>1 DEF WaitForReply, TypeOK, network, store, rtLocal, done, history
  <1>4. ASSUME ReturnNull(n) PROVE TypeOK'
    <2>1. key[n]["app"] \in Keys
      BY <1>4 DEF ReturnNull, IndInv, ThreadsHomed
    <2>2. /\ result' \in [Nodes -> [key : Keys \cup {NoKey}, val : Value \cup {NoValue},
                                    owes : 0 .. MaxOps, prev : Value \cup {NoValue}]]
          /\ lastRead' \in [Nodes -> [Keys -> Value \cup {NoValue}]]
      BY <1>1, <1>4, <2>1, ReturnEffect DEF ReturnNull
    <2>3. pc' \in [Nodes -> [Threads -> Labels]]
      BY <1>1, <1>4, LabelTypes, GotoEffect DEF ReturnNull
    <2>4. lock' \in [Nodes -> Threads \cup {"free"}]
      BY <1>1, <1>4, LabelTypes DEF ReturnNull, TypeOK
    <2>5. QED
      BY <1>1, <1>4, <2>2, <2>3, <2>4 DEF ReturnNull, TypeOK, network, rtLocal, done
  <1>5. ASSUME TakeReply(n) PROVE TypeOK'
    <2> DEFINE k == key[n]["app"]
               arr == msgCache[n][k]
    <2>1. k \in Keys /\ arr[1].kind = "ReplyData" /\ arr[1].val \in Value \cup {NoValue}
      BY <1>5, CachedAreReplies DEF TakeReply
    <2>2. msgCache' \in [Nodes -> [Keys -> Seq(Message)]]
      BY <1>1, <1>5, <2>1, RemoveArrayEffect DEF TakeReply
    <2>3. CASE Len(arr) # 1
      <3>1. Abort(n, "replyCount") /\ UNCHANGED <<result, lastRead>>
        BY <1>5, <2>3 DEF TakeReply
      <3>2. /\ pc' \in [Nodes -> [Threads -> Labels]]
            /\ aborted' \in [Nodes -> Failures \cup {"no"}]
        BY <1>1, <3>1, AbortEffect DEF Failures
      <3>3. QED
        BY <1>1, <1>5, <2>2, <3>1, <3>2 DEF TakeReply, TypeOK, network, rtLocal, done
    <2>4. CASE Len(arr) = 1
      <3>1. Return(n, k, arr[1].val) /\ Goto(n, "app", "run") /\ UNCHANGED aborted
        BY <1>5, <2>1, <2>4 DEF TakeReply
      <3>2. /\ result' \in [Nodes -> [key : Keys \cup {NoKey}, val : Value \cup {NoValue},
                                      owes : 0 .. MaxOps, prev : Value \cup {NoValue}]]
            /\ lastRead' \in [Nodes -> [Keys -> Value \cup {NoValue}]]
        BY <1>1, <2>1, <3>1, ReturnEffect
      <3>3. pc' \in [Nodes -> [Threads -> Labels]]
        BY <1>1, <3>1, LabelTypes, GotoEffect
      <3>4. QED
        BY <1>1, <1>5, <2>2, <3>1, <3>2, <3>3 DEF TakeReply, TypeOK, network, rtLocal, done
    <2>5. QED
      BY <2>3, <2>4
  <1>6. ASSUME Join(n) PROVE TypeOK'
    <2>1. pc' \in [Nodes -> [Threads -> Labels]]
      BY <1>1, <1>6, LabelTypes, GotoEffect DEF Join
    <2>2. QED
      BY <1>1, <1>6, <2>1 DEF Join, TypeOK, network, store, rtLocal, done, history
  <1>7. ASSUME SpuriousWakeup(n) PROVE TypeOK'
    <2>1. pc' \in [Nodes -> [Threads -> Labels]]
      BY <1>1, <1>7, LabelTypes, GotoEffect DEF SpuriousWakeup
    <2>2. QED
      BY <1>1, <1>7, <2>1 DEF SpuriousWakeup, TypeOK, network, store, rtLocal, done, history
  <1>8. QED
    BY <1>2, <1>3, <1>4, <1>5, <1>6, <1>7, TryToHandleCacheType, LabelTypes DEF AppContinues

\* What the ReceiverThread does keeps the types.
LEMMA ReceiverStepType ==
  ASSUME IndInv, NEW n \in Nodes, ReceiverStep(n)
  PROVE  TypeOK'
  <1> DEFINE m == Head(queue[n])
  <1>1. TypeOK
    BY DEF IndInv
  <1>2. ASSUME ReceiveRequest(n) PROVE TypeOK'
    <2>1. Receive(n, {"GetData", "WaitAndGet"})
      BY <1>2 DEF ReceiveRequest
    <2>2. m \in Message /\ m \in Range(queue[n]) /\ queue' \in [Nodes -> Seq(Message)]
      BY <1>1, <2>1, ReceiveEffect
    <2>3. m.key \in Keys
      BY <2>1, <2>2 DEF Receive, IndInv, QueueHomed, WellHomed, Requests
    <2>4. /\ request' \in [Nodes -> Message]
          /\ found' \in [Nodes -> Value \cup {NoValue}]
      BY <1>1, <1>2, <2>2, <2>3 DEF ReceiveRequest, TypeOK
    <2>5. pc' \in [Nodes -> [Threads -> Labels]]
      BY <1>1, <1>2, LabelTypes, GotoEffect DEF ReceiveRequest
    <2>6. QED
      BY <1>1, <1>2, <2>2, <2>4, <2>5 DEF ReceiveRequest, TypeOK, store, done, history
  <1>3. ASSUME AnswerRequest(n) PROVE TypeOK'
    <2>1. request[n].key \in Keys /\ request[n].from \in Nodes
      BY <1>1, <1>3 DEF AnswerRequest, IndInv, ThreadsHomed, TypeOK, Message
    <2>2. queue' \in [Nodes -> Seq(Message)]
      <3>1. DataMsg("ReplyData", n, request[n].key, found[n]) \in Message
        BY <1>1, <2>1, MessageTypes DEF TypeOK, MsgKind
      <3>2. QED
        BY <1>1, <1>3, <2>1, <3>1, SendEffect DEF AnswerRequest
    <2>3. pc' \in [Nodes -> [Threads -> Labels]]
      BY <1>1, <1>3, LabelTypes, GotoEffect DEF AnswerRequest
    <2>4. QED
      BY <1>1, <1>3, <2>2, <2>3 DEF AnswerRequest, TypeOK, store, rtLocal, done, history
  <1>4. ASSUME CacheRequest(n) PROVE TypeOK'
    <2>1. request[n].key \in Keys /\ request[n] \in Message
      BY <1>1, <1>4 DEF CacheRequest, IndInv, ThreadsHomed, TypeOK
    <2>2. /\ msgCache' \in [Nodes -> [Keys -> Seq(Message)]]
          /\ pc' \in [Nodes -> [Threads -> Labels]]
      BY <1>1, <1>4, <2>1, AddToCacheEffect DEF CacheRequest
    <2>3. QED
      BY <1>1, <1>4, <2>2 DEF CacheRequest, TypeOK, network, rtLocal, done, history
  <1>5. ASSUME ReplyNull(n) PROVE TypeOK'
    <2>1. /\ pc' \in [Nodes -> [Threads -> Labels]]
          /\ aborted' \in [Nodes -> Failures \cup {"no"}]
      BY <1>1, <1>5, AbortEffect DEF ReplyNull, Failures
    <2>2. QED
      BY <1>1, <1>5, <2>1 DEF ReplyNull, TypeOK, network, store, rtLocal, done, history
  <1>6. ASSUME ReceiveReply(n) PROVE TypeOK'
    <2>1. Receive(n, {"ReplyData"})
      BY <1>6 DEF ReceiveReply
    <2>2. m \in Message /\ m \in Range(queue[n]) /\ queue' \in [Nodes -> Seq(Message)]
      BY <1>1, <2>1, ReceiveEffect
    <2>3. m.key \in Keys
      BY <2>1, <2>2 DEF Receive, IndInv, QueueHomed, WellHomed
    <2>4. /\ msgCache' \in [Nodes -> [Keys -> Seq(Message)]]
          /\ pc' \in [Nodes -> [Threads -> Labels]]
      BY <1>1, <1>6, <2>2, <2>3, AddToCacheEffect DEF ReceiveReply
    <2>5. QED
      BY <1>1, <1>6, <2>2, <2>4 DEF ReceiveReply, TypeOK, rtLocal, done, history
  <1>7. ASSUME ReceivePut(n) PROVE TypeOK'
    <2>1. Receive(n, {"Put"})
      BY <1>7 DEF ReceivePut
    <2>2. m \in Message /\ m \in Range(queue[n]) /\ queue' \in [Nodes -> Seq(Message)]
      BY <1>1, <2>1, ReceiveEffect
    <2>3. m.key \in Keys /\ Home[m.key] = n /\ m.val \in Value
      BY <2>1, <2>2 DEF Receive, IndInv, QueueHomed, WellHomed
    <2>4. StoreValue(n, "rt", m.key, m.val) /\ UNCHANGED aborted
      BY <1>7, <2>3 DEF ReceivePut
    <2>5. /\ kvMap' \in [Nodes -> [Keys -> Value \cup {NoValue}]]
          /\ log' \in [Keys -> Seq(Value)]
          /\ key' \in [Nodes -> [Threads -> Keys \cup {NoKey}]]
          /\ pc' \in [Nodes -> [Threads -> Labels]]
      BY <1>1, <2>3, <2>4, LabelTypes, StoreValueEffect
    <2>6. QED
      BY <1>1, <1>7, <2>2, <2>4, <2>5 DEF ReceivePut, TypeOK, rtLocal, done
  <1>8. ASSUME ReceiveDone(n) PROVE TypeOK'
    <2>1. Receive(n, {"Done"})
      BY <1>8 DEF ReceiveDone
    <2>2. m \in Message /\ queue' \in [Nodes -> Seq(Message)]
      BY <1>1, <2>1, ReceiveEffect
    <2>3. isNodeDone' \in [Nodes -> BOOLEAN]
      BY <1>1, <1>8 DEF ReceiveDone, TypeOK
    <2>4. pc' \in [Nodes -> [Threads -> Labels]]
      BY <1>1, <1>8, LabelTypes, GotoEffect DEF ReceiveDone
    <2>5. QED
      BY <1>1, <1>8, <2>2, <2>3, <2>4 DEF ReceiveDone, TypeOK, store, rtLocal, history
  <1>9. ASSUME SendTeardown(n) PROVE TypeOK'
    <2>1. nextTorn \in Nodes /\ nextTorn + 1 \in 0 .. NumNodes
      BY <1>1, <1>9, KVAssumption DEF SendTeardown, IndInv, TeardownLast, TypeOK, Nodes
    <2>2. queue' \in [Nodes -> Seq(Message)]
      BY <1>1, <1>9, <2>1, MessageTypes, SendEffect DEF SendTeardown, MsgKind
    <2>3. pc' \in [Nodes -> [Threads -> Labels]]
      BY <1>1, <1>9, LabelTypes, GotoEffect DEF SendTeardown
    <2>4. QED
      BY <1>1, <1>9, <2>1, <2>2, <2>3
      DEF SendTeardown, TypeOK, store, rtLocal, history
  <1>10. ASSUME ReceiveTeardown(n) PROVE TypeOK'
    <2>1. Receive(n, {"Teardown"})
      BY <1>10 DEF ReceiveTeardown
    <2>2. queue' \in [Nodes -> Seq(Message)]
      BY <1>1, <2>1, ReceiveEffect
    <2>3. pc' \in [Nodes -> [Threads -> Labels]]
      BY <1>1, <1>10, LabelTypes, GotoEffect DEF ReceiveTeardown
    <2>4. QED
      BY <1>1, <1>10, <2>2, <2>3 DEF ReceiveTeardown, TypeOK, store, rtLocal, done, history
  <1>11. QED
    BY <1>2, <1>3, <1>4, <1>5, <1>6, <1>7, <1>8, <1>9, <1>10,
       TryToHandleCacheType, LabelTypes DEF ReceiverStep

-----------------------------------------------------------------------------
(* Every message is where its key's home says *)

\* Inboxes that gain nothing stay well homed.
LEMMA QueueKept ==
  ASSUME QueueHomed, \A a \in Nodes : Range(queue'[a]) \subseteq Range(queue[a])
  PROVE  QueueHomed'
  BY DEF QueueHomed, WellHomed

\* A well homed message leaves the inboxes well homed.
LEMMA QueueSent ==
  ASSUME TypeOK, QueueHomed, NEW h \in Nodes, NEW m \in Message, WellHomed(h, m), Send(h, m)
  PROVE  QueueHomed'
  <1>1. \A a \in Nodes :
          Range(queue'[a]) = IF a = h THEN Range(queue[a]) \cup {m} ELSE Range(queue[a])
    BY SendEffect
  <1>2. \A a \in Nodes : \A x \in Range(queue'[a]) : WellHomed(a, x)
    BY <1>1 DEF QueueHomed
  <1>3. QED
    BY <1>2 DEF QueueHomed, WellHomed

\* Caches that gain nothing stay well homed.
LEMMA CacheKept ==
  ASSUME CacheHomed,
         \A a \in Nodes, b \in Keys : Range(msgCache'[a][b]) \subseteq Range(msgCache[a][b])
  PROVE  CacheHomed'
  BY DEF CacheHomed

\* Positions of a thread that say the same of its key, or nothing.
SameRole(t, from, to) ==
  \/ to = from
  \/ to \in {"run", "receive", "join", "exited", "aborted", "teardown"}
  \/ t = "app" /\ {from, to} \subseteq {"lockCache", "asleep"}
  \/ {from, to} \subseteq {"handleCache", "serve"}

\* Threads that keep their key and their role stay well homed.
LEMMA ThreadsKept ==
  ASSUME ThreadsHomed, UNCHANGED <<key, request>>,
         \A a \in Nodes, t \in Threads : SameRole(t, pc[a][t], pc'[a][t])
  PROVE  ThreadsHomed'
  <1> SUFFICES ASSUME NEW a \in Nodes
               PROVE  /\ \A t \in Threads : pc'[a][t] \in {"handleCache", "serve"} =>
                           key[a][t] \in Keys /\ Home[key[a][t]] = a
                      /\ pc'[a]["app"] = "spin" =>
                           key[a]["app"] \in Keys /\ Home[key[a]["app"]] = a
                      /\ pc'[a]["app"] \in {"lockCache", "asleep"} =>
                           key[a]["app"] \in Keys /\ Home[key[a]["app"]] # a
                      /\ pc'[a]["rt"] = "answer" =>
                           /\ request[a].kind \in Requests /\ request[a].from # a
                           /\ request[a].key \in Keys /\ Home[request[a].key] = a
    BY DEF ThreadsHomed
  <1>1. "app" \in Threads /\ "rt" \in Threads
    BY DEF Threads
  <1>2. \A t \in Threads : SameRole(t, pc[a][t], pc'[a][t])
    OBVIOUS
  <1>3. \A t \in Threads : pc'[a][t] \in {"handleCache", "serve"} =>
          key[a][t] \in Keys /\ Home[key[a][t]] = a
    BY <1>2 DEF ThreadsHomed, SameRole
  <1>4. SameRole("app", pc[a]["app"], pc'[a]["app"]) /\ SameRole("rt", pc[a]["rt"], pc'[a]["rt"])
    BY <1>1, <1>2
  <1>5. QED
    BY <1>3, <1>4 DEF ThreadsHomed, SameRole

\* What keeps requests and replies apart.
Homed == CastsHold /\ QueueHomed /\ CacheHomed /\ TodoHomed /\ ThreadsHomed

\* A step that only moves threads along within their roles keeps Homed.
LEMMA MoveHomed ==
  ASSUME IndInv, NEW n \in Nodes, NEW t \in Threads, NEW l \in Labels,
         Goto(n, t, l), SameRole(t, pc[n][t], l),
         QueueHomed', CacheHomed', TodoHomed',
         UNCHANGED <<key, request, aborted>>
  PROVE  Homed'
  <1>1. \A a \in Nodes, b \in Threads : SameRole(b, pc[a][b], pc'[a][b])
    BY GotoEffect DEF IndInv, SameRole
  <1>2. ThreadsHomed'
    BY <1>1, ThreadsKept DEF IndInv
  <1>3. QED
    BY <1>2 DEF Homed, IndInv, CastsHold

\* An abort for a reason other than a failed cast keeps Homed.
LEMMA AbortHomed ==
  ASSUME IndInv, NEW n \in Nodes, NEW why \in {"nullReply", "replyCount"}, Abort(n, why),
         QueueHomed', CacheHomed', TodoHomed', UNCHANGED <<key, request>>
  PROVE  Homed'
  <1>1. /\ \A a \in Nodes, b \in Threads : SameRole(b, pc[a][b], pc'[a][b])
        /\ \A a \in Nodes : aborted'[a] = IF a = n THEN why ELSE aborted[a]
    BY AbortEffect DEF IndInv, SameRole, Failures
  <1>2. ThreadsHomed'
    BY <1>1, ThreadsKept DEF IndInv
  <1>3. CastsHold'
    BY <1>1 DEF IndInv, CastsHold
  <1>4. QED
    BY <1>2, <1>3 DEF Homed

\* What no action of a group touches stays homed.
LEMMA UnchangedHomed ==
  ASSUME IndInv
  PROVE  /\ UNCHANGED queue => QueueHomed'
         /\ UNCHANGED msgCache => CacheHomed'
         /\ UNCHANGED todo => TodoHomed'
         /\ UNCHANGED aborted => CastsHold'
         /\ UNCHANGED <<pc, key, request>> => ThreadsHomed'
  <1>1. UNCHANGED queue => QueueHomed'
    BY QueueKept DEF IndInv
  <1>2. UNCHANGED msgCache => CacheHomed'
    BY CacheKept DEF IndInv
  <1>3. UNCHANGED todo => TodoHomed'
    BY DEF IndInv, TodoHomed
  <1>4. UNCHANGED aborted => CastsHold'
    BY DEF IndInv, CastsHold
  <1>5. UNCHANGED <<pc, key, request>> => ThreadsHomed'
    BY ThreadsKept DEF IndInv, SameRole
  <1>6. QED
    BY <1>1, <1>2, <1>3, <1>4, <1>5

\* Turning to a key that lives where the new position says keeps ThreadsHomed.
LEMMA TurnHomed ==
  ASSUME IndInv, NEW n \in Nodes, NEW t \in Threads, NEW k \in Keys, NEW l \in Labels,
         key' = [key EXCEPT ![n][t] = k], Goto(n, t, l), UNCHANGED request,
         \/ l = "handleCache" /\ Home[k] = n
         \/ l = "spin" /\ t = "app" /\ Home[k] = n
         \/ l = "lockCache" /\ t = "app" /\ Home[k] # n
  PROVE  ThreadsHomed'
  <1>1. /\ \A a \in Nodes, b \in Threads :
             pc'[a][b] = IF a = n /\ b = t THEN l ELSE pc[a][b]
        /\ \A a \in Nodes, b \in Threads :
             key'[a][b] = IF a = n /\ b = t THEN k ELSE key[a][b]
    BY GotoEffect, KeyEffect DEF IndInv
  <1>2. "app" \in Threads /\ "rt" \in Threads
    BY DEF Threads
  <1>3. QED
    BY <1>1, <1>2 DEF IndInv, ThreadsHomed

\* Calls of the application keep every message homed.
LEMMA AppCallsHomed ==
  ASSUME IndInv, NEW n \in Nodes, AppCalls(n)
  PROVE  Homed'
  <1>1. ASSUME NEW k \in Keys, PutRemote(n, k) PROVE Homed'
    <2> DEFINE m == DataMsg("Put", n, k, NextValue(n))
    <2>1. NextValue(n) \in Value
      BY <1>1, CallEffect DEF PutRemote, IndInv
    <2>2. m \in Message /\ Home[k] \in Nodes
      BY <2>1, MessageTypes, KVAssumption DEF MsgKind
    <2>3. WellHomed(Home[k], m)
      BY <2>1 DEF WellHomed, DataMsg, Requests
    <2>4. QueueHomed'
      BY <1>1, <2>2, <2>3, QueueSent DEF PutRemote, IndInv
    <2>5. QED
      BY <1>1, <2>4, UnchangedHomed DEF PutRemote, store, rtLocal, Homed
  <1>2. ASSUME NEW k \in Keys, PutLocal(n, k) PROVE Homed'
    <2>1. ThreadsHomed'
      BY <1>2, TurnHomed, LabelTypes DEF PutLocal, StoreValue, rtLocal
    <2>2. QED
      BY <1>2, <2>1, UnchangedHomed DEF PutLocal, Homed
  <1>3. ASSUME NEW k \in Keys, GetLocal(n, k) PROVE Homed'
    BY <1>3, UnchangedHomed DEF GetLocal, network, store, rtLocal, Homed
  <1>4. ASSUME NEW k \in Keys, SpinLocal(n, k) PROVE Homed'
    <2>1. ThreadsHomed'
      BY <1>4, TurnHomed, LabelTypes DEF SpinLocal, rtLocal
    <2>2. QED
      BY <1>4, <2>1, UnchangedHomed DEF SpinLocal, network, store, Homed
  <1>5. ASSUME NEW k \in Keys, NEW block \in BOOLEAN, RequestRemote(n, k, block)
        PROVE  Homed'
    <2> DEFINE m == DataMsg(IF block THEN "WaitAndGet" ELSE "GetData", n, k, NoValue)
    <2>1. m \in Message /\ Home[k] \in Nodes
      BY MessageTypes, KVAssumption DEF MsgKind
    <2>2. WellHomed(Home[k], m)
      BY <1>5 DEF RequestRemote, WellHomed, DataMsg, Requests
    <2>3. QueueHomed'
      BY <1>5, <2>1, <2>2, QueueSent DEF RequestRemote, IndInv
    <2>4. ThreadsHomed'
      BY <1>5, TurnHomed, LabelTypes DEF RequestRemote, rtLocal
    <2>5. QED
      BY <1>5, <2>3, <2>4, UnchangedHomed DEF RequestRemote, store, Homed
  <1>6. ASSUME SendDone(n) PROVE Homed'
    <2>1. ControlMsg("Done", n) \in Message /\ WellHomed(Server, ControlMsg("Done", n))
      BY MessageTypes DEF MsgKind, WellHomed, ControlMsg, Requests
    <2>2. QueueHomed'
      BY <1>6, <2>1, QueueSent, KVAssumption DEF SendDone, IndInv
    <2>3. SameRole("app", pc[n]["app"], "join")
      BY DEF SameRole
    <2>4. QED
      BY <1>6, <2>2, <2>3, UnchangedHomed, MoveHomed, LabelTypes DEF SendDone, store, rtLocal
  <1>7. QED
    BY <1>1, <1>2, <1>3, <1>4, <1>5, <1>6 DEF AppCalls

\* tryToHandleCache_ takes waiters only, and answers other nodes only.
LEMMA TryToHandleCacheHomed ==
  ASSUME IndInv, NEW n \in Nodes, NEW t \in Threads, TryToHandleCache(n, t)
  PROVE  Homed'
  <1> DEFINE k == key[n][t]
  <1>1. TypeOK /\ k \in Keys /\ Home[k] = n
    BY DEF IndInv, ThreadsHomed, TryToHandleCache, TakeWaiters, NoWaiters, ServeWaiter, ServedAll
  <1>2. SameRole(t, pc[n][t], Idle(t))
    BY DEF SameRole, Idle
  <1>3. ASSUME TakeWaiters(n, t) PROVE Homed'
    <2>1. CacheHomed'
      BY <1>1, <1>3, RemoveArrayEffect, CacheKept DEF TakeWaiters, IndInv
    <2>2. \A a \in Nodes, b \in Threads :
            todo'[a][b] = IF a = n /\ b = t THEN msgCache[n][k] ELSE todo[a][b]
      <3>1. todo \in [Nodes -> [Threads -> Seq(Message)]] /\ msgCache[n][k] \in Seq(Message)
        BY <1>1 DEF TypeOK
      <3>2. QED
        BY <1>3, <3>1, Except2Type DEF TakeWaiters
    <2>3. TodoHomed'
      BY <1>1, <2>2 DEF TodoHomed, IndInv, CacheHomed
    <2>4. SameRole(t, pc[n][t], "serve")
      BY <1>3 DEF TakeWaiters, SameRole
    <2>5. QED
      BY <1>3, <2>1, <2>3, <2>4, UnchangedHomed, MoveHomed, LabelTypes
      DEF TakeWaiters, network, rtLocal
  <1>4. ASSUME NoWaiters(n, t) PROVE Homed'
    BY <1>2, <1>4, UnchangedHomed, MoveHomed, LabelTypes DEF NoWaiters, network, store, rtLocal
  <1>5. ASSUME ServeWaiter(n, t) PROVE Homed'
    <2> DEFINE m == Head(todo[n][t])
               r == DataMsg("ReplyData", n, k, kvMap[n][k])
    <2>1. todo[n][t] \in Seq(Message) /\ todo[n][t] # <<>>
      BY <1>1, <1>5 DEF ServeWaiter, TypeOK
    <2>2. /\ m \in Message /\ m \in Range(todo[n][t])
          /\ Tail(todo[n][t]) \in Seq(Message)
          /\ Range(Tail(todo[n][t])) \subseteq Range(todo[n][t])
      BY <2>1, RangeTail
    <2>3. m.kind = "WaitAndGet" /\ m.from \in Nodes /\ m.from # n
      BY <2>2 DEF IndInv, TodoHomed, Message
    <2>4. /\ Send(m.from, r) /\ todo' = [todo EXCEPT ![n][t] = Tail(todo[n][t])]
          /\ UNCHANGED <<pc, aborted>>
      BY <1>5, <2>3 DEF ServeWaiter
    <2>5. r \in Message /\ WellHomed(m.from, r)
      <3>1. kvMap[n][k] \in Value \cup {NoValue} /\ "ReplyData" \in MsgKind
        BY <1>1 DEF TypeOK, MsgKind
      <3>2. r \in Message
        BY <1>1, <3>1, MessageTypes
      <3>3. WellHomed(m.from, r)
        BY <1>1, <2>3 DEF WellHomed, DataMsg, Requests
      <3>4. QED
        BY <3>2, <3>3
    <2>6. QueueHomed'
      BY <1>1, <2>3, <2>4, <2>5, QueueSent DEF IndInv
    <2>7. \A a \in Nodes, b \in Threads :
            todo'[a][b] = IF a = n /\ b = t THEN Tail(todo[n][t]) ELSE todo[a][b]
      <3>1. todo \in [Nodes -> [Threads -> Seq(Message)]]
        BY <1>1 DEF TypeOK
      <3>2. QED
        BY <2>2, <2>4, <3>1, Except2Type
    <2>8. TodoHomed'
      BY <2>2, <2>7 DEF TodoHomed, IndInv
    <2>9. QED
      BY <1>5, <2>4, <2>6, <2>8, UnchangedHomed DEF ServeWaiter, store, rtLocal, Homed
  <1>6. ASSUME ServedAll(n, t) PROVE Homed'
    BY <1>2, <1>6, UnchangedHomed, MoveHomed, LabelTypes DEF ServedAll, network, rtLocal
  <1>7. QED
    BY <1>3, <1>4, <1>5, <1>6 DEF TryToHandleCache

\* What the application thread does until a call returns keeps Homed: the array
\* that getFromNetwork_ takes holds a reply.
LEMMA AppContinuesHomed ==
  ASSUME IndInv, NEW n \in Nodes, AppContinues(n) \/ SpuriousWakeup(n)
  PROVE  Homed'
  <1>1. TypeOK
    BY DEF IndInv
  <1>2. ASSUME SpinReads(n) PROVE Homed'
    <2>1. SameRole("app", pc[n]["app"], "run")
      BY DEF SameRole
    <2>2. QED
      BY <1>2, <2>1, UnchangedHomed, MoveHomed, LabelTypes DEF SpinReads, network, store, rtLocal
  <1>3. ASSUME WaitForReply(n) PROVE Homed'
    <2>1. SameRole("app", pc[n]["app"], "asleep")
      BY <1>3 DEF SameRole, WaitForReply
    <2>2. QED
      BY <1>3, <2>1, UnchangedHomed, MoveHomed, LabelTypes
      DEF WaitForReply, network, store, rtLocal
  <1>4. ASSUME ReturnNull(n) PROVE Homed'
    <2>1. SameRole("app", pc[n]["app"], "run")
      BY DEF SameRole
    <2>2. QED
      BY <1>4, <2>1, UnchangedHomed, MoveHomed, LabelTypes DEF ReturnNull, network, rtLocal
  <1>5. ASSUME TakeReply(n) PROVE Homed'
    <2> DEFINE k == key[n]["app"]
               arr == msgCache[n][k]
    <2>1. k \in Keys /\ arr[1].kind = "ReplyData"
      BY <1>5, CachedAreReplies DEF TakeReply
    <2>2. CacheHomed'
      BY <1>1, <1>5, <2>1, RemoveArrayEffect, CacheKept DEF TakeReply, IndInv
    <2>3. QueueHomed' /\ TodoHomed' /\ UNCHANGED <<key, request>>
      BY <1>5, UnchangedHomed DEF TakeReply, network, rtLocal
    <2>4. CASE Len(arr) # 1
      <3>1. Abort(n, "replyCount")
        BY <1>5, <2>4 DEF TakeReply
      <3>2. QED
        BY <2>2, <2>3, <3>1, AbortHomed
    <2>5. CASE Len(arr) = 1
      <3>1. Goto(n, "app", "run") /\ UNCHANGED aborted
        BY <1>5, <2>1, <2>5 DEF TakeReply
      <3>2. SameRole("app", pc[n]["app"], "run")
        BY DEF SameRole
      <3>3. QED
        BY <2>2, <2>3, <3>1, <3>2, MoveHomed, LabelTypes
    <2>6. QED
      BY <2>4, <2>5
  <1>6. ASSUME Join(n) PROVE Homed'
    <2>1. SameRole("app", pc[n]["app"], "exited")
      BY DEF SameRole
    <2>2. QED
      BY <1>6, <2>1, UnchangedHomed, MoveHomed, LabelTypes DEF Join, network, store, rtLocal
  <1>7. ASSUME SpuriousWakeup(n) PROVE Homed'
    <2>1. SameRole("app", pc[n]["app"], "lockCache")
      BY <1>7 DEF SameRole, SpuriousWakeup
    <2>2. QED
      BY <1>7, <2>1, UnchangedHomed, MoveHomed, LabelTypes
      DEF SpuriousWakeup, network, store, rtLocal
  <1>8. QED
    BY <1>2, <1>3, <1>4, <1>5, <1>6, <1>7, TryToHandleCacheHomed, LabelTypes DEF AppContinues

\* Caching a message of the right kind for its key keeps Homed.
LEMMA AddToCacheHomed ==
  ASSUME IndInv, NEW n \in Nodes, NEW k \in Keys, NEW m \in Message, AddToCache(n, k, m),
         Home[k] = n => m.kind = "WaitAndGet" /\ m.from # n,
         Home[k] # n => m.kind = "ReplyData",
         QueueHomed', TodoHomed', UNCHANGED <<key, request, aborted>>
  PROVE  Homed'
  <1>1. TypeOK
    BY DEF IndInv
  <1>0. n \in Nodes /\ k \in Keys /\ m \in Message /\ AddToCache(n, k, m)
    OBVIOUS
  <1>2. \A a \in Nodes, b \in Keys : \A e \in Range(msgCache'[a][b]) :
          e \in Range(msgCache[a][b]) \/ (a = n /\ b = k /\ e = m)
    BY ONLY <1>0, <1>1, AddToCacheGains, Zenon
  <1>4. \A a \in Nodes, b \in Threads :
          pc'[a][b] = IF a = n /\ b = "rt" THEN "receive"
                      ELSE IF a = n /\ b = "app" /\ pc[a][b] = "asleep" THEN "lockCache"
                      ELSE pc[a][b]
    BY ONLY <1>0, <1>1, AddToCacheEffect, Zenon
  <1>3. CacheHomed'
    <2> SUFFICES ASSUME NEW a \in Nodes, NEW b \in Keys, NEW e \in Range(msgCache'[a][b])
                 PROVE  /\ Home[b] = a => e.kind = "WaitAndGet" /\ e.from # a
                        /\ Home[b] # a => e.kind = "ReplyData"
      BY DEF CacheHomed
    <2>1. e \in Range(msgCache[a][b]) \/ (a = n /\ b = k /\ e = m)
      BY <1>2
    <2>2. QED
      BY <2>1 DEF IndInv, CacheHomed
  <1>5. \A a \in Nodes, b \in Threads : SameRole(b, pc[a][b], pc'[a][b])
    BY <1>4 DEF SameRole
  <1>6. ThreadsHomed'
    BY <1>5, ThreadsKept DEF IndInv
  <1>7. QED
    BY <1>3, <1>6 DEF Homed, IndInv, CastsHold

\* What the ReceiverThread does keeps Homed: it replies to other nodes only and
\* receives puts at their home only.
LEMMA ReceiverStepHomed ==
  ASSUME IndInv, NEW n \in Nodes, ReceiverStep(n)
  PROVE  Homed'
  <1> DEFINE m == Head(queue[n])
  <1>1. TypeOK
    BY DEF IndInv
  <1>2. ASSUME NEW kinds, Receive(n, kinds)
        PROVE  /\ QueueHomed' /\ m \in Message /\ m.kind \in kinds /\ WellHomed(n, m)
    <2>1. /\ m \in Message /\ m \in Range(queue[n])
          /\ \A a \in Nodes : Range(queue'[a]) \subseteq Range(queue[a])
      BY <1>1, <1>2, ReceiveEffect
    <2>2. QueueHomed'
      BY <2>1, QueueKept DEF IndInv
    <2>3. QED
      BY <1>2, <2>1, <2>2 DEF Receive, IndInv, QueueHomed
  <1>3. ASSUME ReceiveRequest(n) PROVE Homed'
    <2>1. QueueHomed' /\ m \in Message /\ m.kind \in {"GetData", "WaitAndGet"} /\ WellHomed(n, m)
      BY <1>2, <1>3 DEF ReceiveRequest
    <2>2. \A a \in Nodes, b \in Threads :
            pc'[a][b] = IF a = n /\ b = "rt" THEN "answer" ELSE pc[a][b]
      BY <1>1, <1>3, LabelTypes, GotoEffect DEF ReceiveRequest
    <2>3. \A a \in Nodes : request'[a] = IF a = n THEN m ELSE request[a]
      BY <1>1, <1>3 DEF ReceiveRequest, TypeOK
    <2>4. m.kind \in Requests /\ m.from # n /\ m.key \in Keys /\ Home[m.key] = n
      BY <2>1 DEF WellHomed, Requests
    <2>5. ThreadsHomed'
      BY <1>3, <2>2, <2>3, <2>4, LabelTypes DEF ReceiveRequest, IndInv, ThreadsHomed
    <2>6. QED
      BY <1>3, <2>1, <2>5, UnchangedHomed DEF ReceiveRequest, store, Homed
  <1>4. ASSUME AnswerRequest(n) PROVE Homed'
    <2> DEFINE r == DataMsg("ReplyData", n, request[n].key, found[n])
    <2>1. /\ request[n].key \in Keys /\ Home[request[n].key] = n
          /\ request[n].from \in Nodes /\ request[n].from # n
      BY <1>1, <1>4 DEF AnswerRequest, IndInv, ThreadsHomed, TypeOK, Message
    <2>2. r \in Message /\ WellHomed(request[n].from, r)
      BY <1>1, <2>1, MessageTypes DEF TypeOK, MsgKind, WellHomed, DataMsg, Requests
    <2>3. QueueHomed'
      BY <1>1, <1>4, <2>1, <2>2, QueueSent DEF AnswerRequest, IndInv
    <2>4. SameRole("rt", pc[n]["rt"], "receive")
      BY DEF SameRole
    <2>5. QED
      BY <1>4, <2>3, <2>4, UnchangedHomed, MoveHomed, LabelTypes DEF AnswerRequest, store, rtLocal
  <1>5. ASSUME CacheRequest(n) PROVE Homed'
    <2>1. /\ request[n] \in Message /\ request[n].kind = "WaitAndGet" /\ request[n].from # n
          /\ request[n].key \in Keys /\ Home[request[n].key] = n
      BY <1>1, <1>5 DEF CacheRequest, IndInv, ThreadsHomed, TypeOK
    <2>2. QED
      BY <1>5, <2>1, UnchangedHomed, AddToCacheHomed DEF CacheRequest, network, rtLocal
  <1>6. ASSUME ReplyNull(n) PROVE Homed'
    BY <1>6, UnchangedHomed, AbortHomed DEF ReplyNull, network, store, rtLocal
  <1>7. ASSUME ReceiveReply(n) PROVE Homed'
    <2>1. QueueHomed' /\ m \in Message /\ m.kind = "ReplyData" /\ WellHomed(n, m)
      BY <1>2, <1>7 DEF ReceiveReply
    <2>2. m.key \in Keys /\ Home[m.key] # n
      BY <2>1 DEF WellHomed
    <2>3. QED
      BY <1>7, <2>1, <2>2, UnchangedHomed, AddToCacheHomed DEF ReceiveReply, rtLocal
  <1>8. ASSUME ReceivePut(n) PROVE Homed'
    <2>1. QueueHomed' /\ m \in Message /\ m.kind = "Put" /\ WellHomed(n, m)
      BY <1>2, <1>8 DEF ReceivePut
    <2>2. m.key \in Keys /\ Home[m.key] = n
      BY <2>1 DEF WellHomed
    <2>3. StoreValue(n, "rt", m.key, m.val) /\ UNCHANGED aborted
      BY <1>8, <2>2 DEF ReceivePut
    <2>4. ThreadsHomed'
      BY <1>8, <2>2, <2>3, TurnHomed, LabelTypes DEF ReceivePut, StoreValue, rtLocal
    <2>5. QED
      BY <1>8, <2>1, <2>3, <2>4, UnchangedHomed DEF ReceivePut, Homed
  <1>9. ASSUME ReceiveDone(n) PROVE Homed'
    <2>1. QueueHomed'
      BY <1>2, <1>9 DEF ReceiveDone
    <2>2. \A l \in {"teardown", "receive"} : SameRole("rt", pc[n]["rt"], l)
      BY DEF SameRole
    <2>3. QED
      BY <1>9, <2>1, <2>2, UnchangedHomed, MoveHomed, LabelTypes DEF ReceiveDone, store, rtLocal
  <1>10. ASSUME SendTeardown(n) PROVE Homed'
    <2>1. ControlMsg("Teardown", n) \in Message
      BY MessageTypes DEF MsgKind
    <2>2. nextTorn \in Nodes /\ WellHomed(nextTorn, ControlMsg("Teardown", n))
      BY <1>1, <1>10, KVAssumption
      DEF SendTeardown, IndInv, TeardownLast, TypeOK, Nodes, WellHomed, ControlMsg, Requests
    <2>3. QueueHomed'
      BY <1>1, <1>10, <2>1, <2>2, QueueSent DEF SendTeardown, IndInv
    <2>4. \A l \in {"teardown", "receive"} : SameRole("rt", pc[n]["rt"], l)
      BY DEF SameRole
    <2>5. QED
      BY <1>10, <2>3, <2>4, UnchangedHomed, MoveHomed, LabelTypes DEF SendTeardown, store, rtLocal
  <1>11. ASSUME ReceiveTeardown(n) PROVE Homed'
    <2>1. QueueHomed'
      BY <1>2, <1>11 DEF ReceiveTeardown
    <2>2. SameRole("rt", pc[n]["rt"], "exited")
      BY DEF SameRole
    <2>3. QED
      BY <1>11, <2>1, <2>2, UnchangedHomed, MoveHomed, LabelTypes
      DEF ReceiveTeardown, store, rtLocal
  <1>12. QED
    BY <1>3, <1>4, <1>5, <1>6, <1>7, <1>8, <1>9, <1>10, <1>11,
       TryToHandleCacheHomed, LabelTypes DEF ReceiverStep

-----------------------------------------------------------------------------
(* Done and Teardown *)

\* What is in an inbox is a message.
LEMMA InboxTypes ==
  ASSUME TypeOK, NEW a \in Nodes, NEW m \in Range(queue[a])
  PROVE  m \in Message /\ m.from \in Nodes
  <1>1. PICK i \in DOMAIN queue[a] : m = queue[a][i]
    BY DEF Range
  <1>2. queue[a] \in Seq(Message)
    BY DEF TypeOK
  <1>3. m \in Message
    BY <1>1, <1>2
  <1>4. QED
    BY <1>3 DEF Message

\* The inboxes gain no Done and no Teardown.
QuietQueue ==
  /\ DoneDistinct'
  /\ \A a \in Nodes : \A m \in Range(queue'[a]) :
       m \in Range(queue[a]) \/ m.kind \notin {"Done", "Teardown"}

\* Positions of a thread between which no application starts again and no
\* teardown starts or ends.
Settled(t, from, to) ==
  /\ t = "app" /\ from \in Ended => to \in Ended
  /\ t = "rt" /\ to \in {"teardown", "exited"} => to = from

\* Steps that leave the inboxes alone gain no message.
LEMMA UnchangedQuiet ==
  ASSUME IndInv, UNCHANGED queue
  PROVE  QuietQueue
  BY DEF IndInv, QuietQueue, DoneDistinct

\* Neither does receiving one.
LEMMA ReceiveQuiet ==
  ASSUME IndInv, NEW n \in Nodes, NEW kinds, Receive(n, kinds)
  PROVE  QuietQueue
  <1>1. TypeOK
    BY DEF IndInv
  <1>2. \A a \in Nodes : Range(queue'[a]) \subseteq Range(queue[a])
    BY <1>1, ReceiveEffect
  <1>3. queue[n] \in Seq(Message) /\ queue[n] # <<>> /\ Server \in Nodes
    BY <1>1, KVAssumption DEF TypeOK, Receive
  <1>4. CASE n = Server
    <2>1. queue'[Server] = Tail(queue[n])
      BY <1>1, <1>3, <1>4 DEF Receive, TypeOK
    <2>2. /\ DOMAIN Tail(queue[n]) = 1 .. Len(queue[n]) - 1
          /\ \A i \in 1 .. Len(queue[n]) - 1 : Tail(queue[n])[i] = queue[n][i + 1]
          /\ DOMAIN queue[n] = 1 .. Len(queue[n]) /\ Len(queue[n]) \in Nat
      BY <1>3
    <2>3. \A i, j \in 1 .. Len(queue[n]) : i # j /\ queue[n][i].kind = "Done"
            /\ queue[n][j].kind = "Done" => queue[n][i].from # queue[n][j].from
      BY <1>4, <2>2 DEF IndInv, DoneDistinct
    <2>4. DoneDistinct'
      BY <2>1, <2>2, <2>3 DEF DoneDistinct
    <2>5. QED
      BY <1>2, <2>4 DEF QuietQueue
  <1>5. CASE n # Server
    <2>1. queue'[Server] = queue[Server]
      BY <1>1, <1>3, <1>5 DEF Receive, TypeOK
    <2>2. QED
      BY <1>2, <2>1 DEF QuietQueue, IndInv, DoneDistinct
  <1>6. QED
    BY <1>4, <1>5

\* A message that is sent keeps the Dones distinct if it is no Done, or the
\* first one of its sender.
LEMMA SendDistinct ==
  ASSUME IndInv, NEW h \in Nodes, NEW m \in Message, Send(h, m),
         m.kind = "Done" => \A e \in Range(queue[h]) : e.kind = "Done" => e.from # m.from
  PROVE  DoneDistinct'
  <1>1. queue \in [Nodes -> Seq(Message)] /\ queue[h] \in Seq(Message) /\ Server \in Nodes
    BY KVAssumption DEF IndInv, TypeOK
  <1>2. CASE h = Server
    <2>1. queue'[Server] = Append(queue[h], m)
      BY <1>1, <1>2 DEF Send
    <2>2. /\ DOMAIN Append(queue[h], m) = 1 .. Len(queue[h]) + 1
          /\ \A i \in 1 .. Len(queue[h]) : Append(queue[h], m)[i] = queue[h][i]
          /\ Append(queue[h], m)[Len(queue[h]) + 1] = m
          /\ DOMAIN queue[h] = 1 .. Len(queue[h]) /\ Len(queue[h]) \in Nat
      BY <1>1
    <2>3. \A i, j \in 1 .. Len(queue[h]) : i # j /\ queue[h][i].kind = "Done"
            /\ queue[h][j].kind = "Done" => queue[h][i].from # queue[h][j].from
      BY <1>2, <2>2 DEF IndInv, DoneDistinct
    <2>4. \A i \in 1 .. Len(queue[h]) : m.kind = "Done" /\ queue[h][i].kind = "Done" =>
            queue[h][i].from # m.from
      BY <2>2 DEF Range
    <2>5. QED
      BY <2>1, <2>2, <2>3, <2>4 DEF DoneDistinct
  <1>3. CASE h # Server
    <2>1. queue'[Server] = queue[Server]
      BY <1>1, <1>3 DEF Send
    <2>2. QED
      BY <2>1 DEF IndInv, DoneDistinct
  <1>4. QED
    BY <1>2, <1>3

\* Sending any other message gains no Done and no Teardown.
LEMMA SendQuiet ==
  ASSUME IndInv, NEW h \in Nodes, NEW m \in Message, Send(h, m),
         m.kind \notin {"Done", "Teardown"}
  PROVE  QuietQueue
  <1>1. DoneDistinct'
    BY SendDistinct
  <1>2. \A a \in Nodes : Range(queue'[a]) =
          IF a = h THEN Range(queue[a]) \cup {m} ELSE Range(queue[a])
    BY SendEffect DEF IndInv
  <1>3. QED
    BY <1>1, <1>2 DEF QuietQueue

\* What is known of Done and Teardown.
Closing == DoneDistinct /\ DoneOnce /\ TeardownLast

\* Quiet steps of settled threads keep what is known of Done and Teardown.
LEMMA DoneKept ==
  ASSUME IndInv, QuietQueue, UNCHANGED done,
         \A a \in Nodes, t \in Threads : Settled(t, pc[a][t], pc'[a][t])
  PROVE  Closing'
  <1>1. \A a \in Nodes : /\ pc[a]["app"] \in Ended => pc'[a]["app"] \in Ended
                         /\ pc'[a]["rt"] \in {"teardown", "exited"} => pc'[a]["rt"] = pc[a]["rt"]
    BY LabelTypes DEF Settled
  <1>2. \A a \in Nodes : \A m \in Range(queue[a]) : m.from \in Nodes
    BY InboxTypes DEF IndInv
  <1>3. DoneOnce'
    <2>1. \A a \in Nodes : isNodeDone'[a] => pc'[a]["app"] \in Ended
      BY <1>1 DEF IndInv, DoneOnce, done
    <2>2. ASSUME NEW a \in Nodes, NEW m \in Range(queue'[a]), m.kind = "Done"
          PROVE  a = Server /\ ~isNodeDone'[m.from] /\ pc'[m.from]["app"] \in Ended
      <3>1. m \in Range(queue[a])
        BY <2>2 DEF QuietQueue
      <3>2. QED
        BY <1>1, <1>2, <2>2, <3>1 DEF IndInv, DoneOnce, done
    <2>3. QED
      BY <2>1, <2>2 DEF DoneOnce
  <1>4. TeardownLast'
    <2>1. AllDone(isNodeDone)' = AllDone(isNodeDone) /\ nextTorn' = nextTorn
      BY DEF AllDone, done
    <2>2. \A a \in Nodes : pc'[a]["rt"] = "teardown" =>
            a = Server /\ nextTorn' < NumNodes /\ AllDone(isNodeDone)'
      BY <1>1, <2>1 DEF IndInv, TeardownLast
    <2>3. \A a \in Nodes : pc'[a]["rt"] = "exited" => AllDone(isNodeDone)'
      BY <1>1, <2>1 DEF IndInv, TeardownLast
    <2>4. \A a \in Nodes : \A m \in Range(queue'[a]) :
            m.kind = "Teardown" => AllDone(isNodeDone)'
      BY <2>1 DEF QuietQueue, IndInv, TeardownLast
    <2>5. QED
      BY <2>1, <2>2, <2>3, <2>4 DEF TeardownLast, IndInv
  <1>5. QED
    BY <1>3, <1>4 DEF QuietQueue, Closing

\* The same, for a step that moves one thread.
LEMMA MoveCloses ==
  ASSUME IndInv, NEW n \in Nodes, NEW t \in Threads, NEW l \in Labels, Goto(n, t, l),
         Settled(t, pc[n][t], l), QuietQueue, UNCHANGED done
  PROVE  Closing'
  <1>1. \A a \in Nodes, b \in Threads : pc'[a][b] = IF a = n /\ b = t THEN l ELSE pc[a][b]
    BY GotoEffect DEF IndInv
  <1>2. \A a \in Nodes, b \in Threads : Settled(b, pc[a][b], pc'[a][b])
    BY <1>1 DEF Settled
  <1>3. QED
    BY <1>2, DoneKept

\* The same, for a step that moves no thread.
LEMMA StayCloses ==
  ASSUME IndInv, QuietQueue, UNCHANGED <<pc, done>>
  PROVE  Closing'
  <1>1. \A a \in Nodes, b \in Threads : Settled(b, pc[a][b], pc'[a][b])
    BY DEF Settled
  <1>2. QED
    BY <1>1, DoneKept

\* The same, for a step that ends a node.
LEMMA AbortCloses ==
  ASSUME IndInv, NEW n \in Nodes, NEW why \in Failures, Abort(n, why),
         QuietQueue, UNCHANGED done
  PROVE  Closing'
  <1>1. \A a \in Nodes, b \in Threads : pc'[a][b] = IF a = n THEN "aborted" ELSE pc[a][b]
    BY AbortEffect DEF IndInv
  <1>2. \A a \in Nodes, b \in Threads : Settled(b, pc[a][b], pc'[a][b])
    BY <1>1 DEF Settled, Ended
  <1>3. QED
    BY <1>2, DoneKept

\* The same, for a step that caches a message.
LEMMA AddToCacheCloses ==
  ASSUME IndInv, NEW n \in Nodes, NEW k \in Keys, NEW m \in Message, AddToCache(n, k, m),
         QuietQueue, UNCHANGED done
  PROVE  Closing'
  <1>1. TypeOK /\ n \in Nodes /\ k \in Keys /\ m \in Message /\ AddToCache(n, k, m)
    BY DEF IndInv
  <1>2. \A a \in Nodes, b \in Threads :
          pc'[a][b] = IF a = n /\ b = "rt" THEN "receive"
                      ELSE IF a = n /\ b = "app" /\ pc[a][b] = "asleep" THEN "lockCache"
                      ELSE pc[a][b]
    BY ONLY <1>1, AddToCacheEffect, Zenon
  <1>3. \A a \in Nodes, b \in Threads : Settled(b, pc[a][b], pc'[a][b])
    BY <1>2 DEF Settled, Ended
  <1>4. QED
    BY <1>3, DoneKept

\* An application sends its Done once: before that it had not ended, so that
\* none of its is in the inbox of the server or counted there.
LEMMA SendDoneCloses ==
  ASSUME IndInv, NEW n \in Nodes, SendDone(n)
  PROVE  Closing'
  <1> DEFINE m == ControlMsg("Done", n)
  <1>1. TypeOK /\ Server \in Nodes /\ pc[n]["app"] = "run" /\ UNCHANGED done
    BY KVAssumption DEF IndInv, SendDone
  <1>2. m \in Message /\ m.kind = "Done" /\ m.from = n
    BY MessageTypes DEF MsgKind, ControlMsg
  <1>3. Send(Server, m)
    BY DEF SendDone
  <1> HIDE DEF m
  <1>4. \A a \in Nodes, b \in Threads :
          pc'[a][b] = IF a = n /\ b = "app" THEN "join" ELSE pc[a][b]
    BY <1>1, LabelTypes, GotoEffect DEF SendDone
  <1>5. \A a \in Nodes : Range(queue'[a]) =
          IF a = Server THEN Range(queue[a]) \cup {m} ELSE Range(queue[a])
    BY <1>1, <1>2, <1>3, SendEffect
  <1>6. pc[n]["app"] \notin Ended
    BY <1>1 DEF Ended
  <1>7. ~isNodeDone[n] /\ \A e \in Range(queue[Server]) : e.kind = "Done" => e.from # n
    BY <1>1, <1>6 DEF IndInv, DoneOnce
  <1>8. DoneDistinct'
    BY <1>1, <1>2, <1>3, <1>7, SendDistinct
  <1>9. /\ \A a \in Nodes : pc[a]["app"] \in Ended => pc'[a]["app"] \in Ended
        /\ pc'[n]["app"] \in Ended
        /\ \A a \in Nodes : pc'[a]["rt"] = pc[a]["rt"]
    BY <1>4, LabelTypes DEF Ended
  <1>10. DoneOnce'
    <2>1. \A a \in Nodes : isNodeDone'[a] => pc'[a]["app"] \in Ended
      BY <1>1, <1>9 DEF IndInv, DoneOnce, done
    <2>2. ASSUME NEW a \in Nodes, NEW e \in Range(queue'[a]), e.kind = "Done"
          PROVE  a = Server /\ ~isNodeDone'[e.from] /\ pc'[e.from]["app"] \in Ended
      <3>1. CASE e \in Range(queue[a])
        <4>1. e.from \in Nodes
          BY <1>1, <3>1, InboxTypes
        <4>2. QED
          BY <1>1, <1>9, <2>2, <3>1, <4>1 DEF IndInv, DoneOnce, done
      <3>2. CASE a = Server /\ e = m
        BY <1>1, <1>2, <1>7, <1>9, <3>2 DEF done
      <3>3. QED
        BY <1>5, <3>1, <3>2
    <2>3. QED
      BY <2>1, <2>2 DEF DoneOnce
  <1>11. TeardownLast'
    <2>1. AllDone(isNodeDone)' = AllDone(isNodeDone) /\ nextTorn' = nextTorn
      BY <1>1 DEF AllDone, done
    <2>2. \A a \in Nodes : \A e \in Range(queue'[a]) :
            e.kind = "Teardown" => AllDone(isNodeDone)'
      BY <1>2, <1>5, <2>1 DEF IndInv, TeardownLast
    <2>3. QED
      BY <1>9, <2>1, <2>2 DEF TeardownLast, IndInv
  <1>12. QED
    BY <1>8, <1>10, <1>11 DEF Closing

\* The Done that the server receives was not counted yet, so that the teardown
\* has not begun, and no other Done of the same node is left.
LEMMA ReceiveDoneCloses ==
  ASSUME IndInv, NEW n \in Nodes, ReceiveDone(n)
  PROVE  Closing'
  <1> DEFINE m == Head(queue[n])
  <1>1. TypeOK /\ Server \in Nodes /\ Receive(n, {"Done"})
    BY KVAssumption DEF IndInv, ReceiveDone
  <1>2. m \in Message /\ m \in Range(queue[n]) /\ m.kind = "Done" /\ m.from \in Nodes
    BY <1>1, ReceiveEffect, InboxTypes DEF Receive
  <1>3. n = Server /\ ~isNodeDone[m.from] /\ pc[m.from]["app"] \in Ended
    BY <1>2 DEF IndInv, DoneOnce
  <1>4. ~AllDone(isNodeDone)
    BY <1>2, <1>3 DEF AllDone
  <1>5. nextTorn = 0 /\ nextTorn' = nextTorn
    BY <1>1, <1>4, KVAssumption DEF IndInv, TeardownLast, TypeOK, ReceiveDone
  <1>6. \A a \in Nodes : isNodeDone'[a] = IF a = m.from THEN TRUE ELSE isNodeDone[a]
    BY <1>1 DEF ReceiveDone, TypeOK
  <1>7. DoneDistinct' /\ \A a \in Nodes : Range(queue'[a]) \subseteq Range(queue[a])
    BY <1>1, ReceiveQuiet, ReceiveEffect DEF QuietQueue
  <1>8. \A e \in Range(queue'[Server]) : e.kind = "Done" => e.from # m.from
    <2>1. queue[n] \in Seq(Message) /\ queue[n] # <<>> /\ queue'[Server] = Tail(queue[n])
      BY <1>1, <1>3 DEF Receive, TypeOK
    <2>2. /\ DOMAIN Tail(queue[n]) = 1 .. Len(queue[n]) - 1
          /\ \A i \in 1 .. Len(queue[n]) - 1 : Tail(queue[n])[i] = queue[n][i + 1]
          /\ DOMAIN queue[n] = 1 .. Len(queue[n]) /\ Len(queue[n]) \in Nat /\ Len(queue[n]) > 0
          /\ m = queue[n][1]
      BY <2>1
    <2>3. \A i \in 1 .. Len(queue[n]) - 1 : queue[n][i + 1].kind = "Done" =>
            queue[n][i + 1].from # queue[n][1].from
      BY <1>2, <1>3, <2>2 DEF IndInv, DoneDistinct
    <2>4. QED
      BY <2>1, <2>2, <2>3 DEF Range
  <1>9. \E l \in {"teardown", "receive"} :
          /\ l = "teardown" => AllDone(isNodeDone)'
          /\ \A a \in Nodes, b \in Threads :
               pc'[a][b] = IF a = n /\ b = "rt" THEN l ELSE pc[a][b]
    <2>1. CASE AllDone(isNodeDone')
      <3>1. Goto(n, "rt", "teardown")
        BY <2>1 DEF ReceiveDone
      <3>2. QED
        BY <1>1, <2>1, <3>1, GotoEffect, LabelTypes DEF AllDone
    <2>2. CASE ~AllDone(isNodeDone')
      <3>1. Goto(n, "rt", "receive")
        BY <2>2 DEF ReceiveDone
      <3>2. QED
        BY <1>1, <3>1, GotoEffect, LabelTypes
    <2>3. QED
      BY <2>1, <2>2
  <1>10. /\ \A a \in Nodes : pc'[a]["app"] = pc[a]["app"]
         /\ \A a \in Nodes : pc'[a]["rt"] = "teardown" =>
              pc[a]["rt"] = "teardown" \/ (a = n /\ AllDone(isNodeDone)')
         /\ \A a \in Nodes : pc'[a]["rt"] = "exited" => pc[a]["rt"] = "exited"
    BY <1>9, LabelTypes
  <1> HIDE DEF m
  <1>11. DoneOnce'
    <2>1. \A a \in Nodes : isNodeDone'[a] => pc'[a]["app"] \in Ended
      BY <1>3, <1>6, <1>10 DEF IndInv, DoneOnce
    <2>2. ASSUME NEW a \in Nodes, NEW e \in Range(queue'[a]), e.kind = "Done"
          PROVE  a = Server /\ ~isNodeDone'[e.from] /\ pc'[e.from]["app"] \in Ended
      <3>1. e \in Range(queue[a]) /\ e.from \in Nodes
        BY <1>1, <1>7, InboxTypes
      <3>2. a = Server /\ ~isNodeDone[e.from] /\ pc[e.from]["app"] \in Ended
        BY <2>2, <3>1 DEF IndInv, DoneOnce
      <3>3. QED
        BY <1>6, <1>8, <1>10, <2>2, <3>1, <3>2
    <2>3. QED
      BY <2>1, <2>2 DEF DoneOnce
  <1>12. TeardownLast'
    <2>1. /\ \A a \in Nodes : pc[a]["rt"] \notin {"teardown", "exited"}
          /\ \A a \in Nodes : \A e \in Range(queue[a]) : e.kind # "Teardown"
      BY <1>4 DEF IndInv, TeardownLast
    <2>2. \A a \in Nodes : \A e \in Range(queue'[a]) : e.kind # "Teardown"
      BY <1>7, <2>1
    <2>3. 0 < NumNodes
      BY KVAssumption
    <2>4. QED
      BY <1>3, <1>5, <1>10, <2>1, <2>2, <2>3 DEF TeardownLast
  <1>13. QED
    BY <1>7, <1>11, <1>12 DEF Closing

\* The server sends Teardowns only when every node is done, to one node after
\* the other.
LEMMA SendTeardownCloses ==
  ASSUME IndInv, NEW n \in Nodes, SendTeardown(n)
  PROVE  Closing'
  <1> DEFINE m == ControlMsg("Teardown", n)
  <1>1. TypeOK /\ pc[n]["rt"] = "teardown"
    BY DEF IndInv, SendTeardown
  <1>2. n = Server /\ nextTorn < NumNodes /\ AllDone(isNodeDone)
    BY <1>1 DEF IndInv, TeardownLast
  <1>3. nextTorn \in Nodes /\ nextTorn + 1 \in Nat /\ nextTorn + 1 <= NumNodes
    BY <1>1, <1>2, KVAssumption DEF TypeOK, Nodes
  <1>4. /\ m \in Message /\ m.kind = "Teardown" /\ Send(nextTorn, m)
        /\ nextTorn' = nextTorn + 1 /\ isNodeDone' = isNodeDone
    BY MessageTypes DEF MsgKind, ControlMsg, SendTeardown
  <1> HIDE DEF m
  <1>5. DoneDistinct'
    BY <1>3, <1>4, SendDistinct
  <1>6. \A a \in Nodes : \A e \in Range(queue'[a]) : e \in Range(queue[a]) \/ e = m
    <2>1. \A a \in Nodes : Range(queue'[a]) =
            IF a = nextTorn THEN Range(queue[a]) \cup {m} ELSE Range(queue[a])
      BY <1>1, <1>3, <1>4, SendEffect
    <2>2. QED
      BY ONLY <2>1
  <1>7. \E l \in {"teardown", "receive"} :
          /\ l = "teardown" => nextTorn' # NumNodes
          /\ \A a \in Nodes, b \in Threads :
               pc'[a][b] = IF a = n /\ b = "rt" THEN l ELSE pc[a][b]
    <2>1. CASE LoopEnds(nextTorn')
      <3>1. Goto(n, "rt", "receive")
        BY <2>1 DEF SendTeardown
      <3>2. QED
        BY <1>1, <3>1, GotoEffect, LabelTypes
    <2>2. CASE ~LoopEnds(nextTorn')
      <3>1. Goto(n, "rt", "teardown")
        BY <2>2 DEF SendTeardown
      <3>2. QED
        BY <1>1, <2>2, <3>1, GotoEffect, LabelTypes DEF LoopEnds
    <2>3. QED
      BY <2>1, <2>2
  <1>8. /\ \A a \in Nodes : pc'[a]["app"] = pc[a]["app"]
        /\ \A a \in Nodes : pc'[a]["rt"] = "teardown" =>
             pc[a]["rt"] = "teardown" /\ (a = n => nextTorn' # NumNodes)
        /\ \A a \in Nodes : pc'[a]["rt"] = "exited" => pc[a]["rt"] = "exited"
    BY <1>1, <1>7, LabelTypes
  <1>9. DoneOnce'
    <2>1. \A a \in Nodes : isNodeDone'[a] => pc'[a]["app"] \in Ended
      BY <1>4, <1>8 DEF IndInv, DoneOnce
    <2>2. ASSUME NEW a \in Nodes, NEW e \in Range(queue'[a]), e.kind = "Done"
          PROVE  a = Server /\ ~isNodeDone'[e.from] /\ pc'[e.from]["app"] \in Ended
      <3>1. e \in Range(queue[a]) /\ e.from \in Nodes
        BY <1>1, <1>4, <1>6, <2>2, InboxTypes
      <3>2. QED
        BY <1>4, <1>8, <2>2, <3>1 DEF IndInv, DoneOnce
    <2>3. QED
      BY <2>1, <2>2 DEF DoneOnce
  <1>10. TeardownLast'
    <2>1. AllDone(isNodeDone)'
      BY <1>2, <1>4 DEF AllDone
    <2>2. \A a \in Nodes : pc'[a]["rt"] = "teardown" => a = Server /\ nextTorn' < NumNodes
      <3>1. \A a \in Nodes : pc'[a]["rt"] = "teardown" => a = Server
        BY <1>8 DEF IndInv, TeardownLast
      <3>2. QED
        BY <1>2, <1>3, <1>4, <1>8, <3>1, KVAssumption
    <2>3. QED
      BY <2>1, <2>2 DEF TeardownLast
  <1>11. QED
    BY <1>5, <1>9, <1>10 DEF Closing

\* A Teardown that arrives was sent when every node was done.
LEMMA ReceiveTeardownCloses ==
  ASSUME IndInv, NEW n \in Nodes, ReceiveTeardown(n)
  PROVE  Closing'
  <1>1. TypeOK /\ Receive(n, {"Teardown"}) /\ UNCHANGED done
    BY DEF IndInv, ReceiveTeardown
  <1>2. QuietQueue /\ \A a \in Nodes : Range(queue'[a]) \subseteq Range(queue[a])
    BY <1>1, ReceiveQuiet, ReceiveEffect
  <1>3. AllDone(isNodeDone)
    BY <1>1, ReceiveEffect DEF Receive, IndInv, TeardownLast
  <1>4. \A a \in Nodes, b \in Threads :
          pc'[a][b] = IF a = n /\ b = "rt" THEN "exited" ELSE pc[a][b]
    BY <1>1, GotoEffect, LabelTypes DEF ReceiveTeardown
  <1>5. /\ \A a \in Nodes : pc'[a]["app"] = pc[a]["app"]
        /\ \A a \in Nodes : pc'[a]["rt"] = "teardown" => pc[a]["rt"] = "teardown"
    BY <1>4, LabelTypes
  <1>6. DoneOnce'
    <2>1. \A a \in Nodes : isNodeDone'[a] => pc'[a]["app"] \in Ended
      BY <1>1, <1>5 DEF IndInv, DoneOnce, done
    <2>2. ASSUME NEW a \in Nodes, NEW e \in Range(queue'[a]), e.kind = "Done"
          PROVE  a = Server /\ ~isNodeDone'[e.from] /\ pc'[e.from]["app"] \in Ended
      <3>1. e \in Range(queue[a]) /\ e.from \in Nodes
        BY <1>1, <1>2, InboxTypes
      <3>2. QED
        BY <1>1, <1>5, <2>2, <3>1 DEF IndInv, DoneOnce, done
    <2>3. QED
      BY <2>1, <2>2 DEF DoneOnce
  <1>7. TeardownLast'
    <2>1. AllDone(isNodeDone)' /\ nextTorn' = nextTorn
      BY <1>1, <1>3 DEF AllDone, done
    <2>2. QED
      BY <1>5, <2>1 DEF TeardownLast, IndInv
  <1>8. QED
    BY <1>2, <1>6, <1>7 DEF Closing, QuietQueue

\* Calls of the application keep Closing.
LEMMA AppCallsCloses ==
  ASSUME IndInv, NEW n \in Nodes, AppCalls(n)
  PROVE  Closing'
  <1>1. ASSUME NEW l \in Labels, l \notin Ended, pc[n]["app"] = "run"
        PROVE  Settled("app", pc[n]["app"], l)
    BY <1>1 DEF Settled, Ended
  <1>2. ASSUME NEW kind \in MsgKind \ {"Done", "Teardown"}, NEW k \in Keys,
               NEW v \in Value \cup {NoValue}, Send(Home[k], DataMsg(kind, n, k, v))
        PROVE  QuietQueue
    <2>1. DataMsg(kind, n, k, v) \in Message /\ DataMsg(kind, n, k, v).kind = kind
      BY MessageTypes DEF DataMsg
    <2>2. Home[k] \in Nodes
      BY KVAssumption
    <2>3. QED
      BY <1>2, <2>1, <2>2, SendQuiet
  <1>3. ASSUME NEW k \in Keys, PutRemote(n, k) PROVE Closing'
    <2>1. NextValue(n) \in Value
      BY <1>3, CallEffect DEF PutRemote, IndInv
    <2>2. QuietQueue
      BY <1>2, <1>3, <2>1 DEF PutRemote, MsgKind
    <2>3. QED
      BY <1>3, <2>2, StayCloses DEF PutRemote
  <1>4. ASSUME NEW k \in Keys, PutLocal(n, k) PROVE Closing'
    <2>1. Settled("app", pc[n]["app"], "handleCache")
      BY <1>1, <1>4, LabelTypes DEF PutLocal, Call, Ended
    <2>2. QED
      BY <1>4, <2>1, UnchangedQuiet, MoveCloses, LabelTypes DEF PutLocal, StoreValue
  <1>5. ASSUME NEW k \in Keys, GetLocal(n, k) PROVE Closing'
    BY <1>5, UnchangedQuiet, StayCloses DEF GetLocal, network
  <1>6. ASSUME NEW k \in Keys, SpinLocal(n, k) PROVE Closing'
    <2>1. Settled("app", pc[n]["app"], "spin")
      BY <1>1, <1>6, LabelTypes DEF SpinLocal, Call, Ended
    <2>2. QED
      BY <1>6, <2>1, UnchangedQuiet, MoveCloses, LabelTypes DEF SpinLocal, network
  <1>7. ASSUME NEW k \in Keys, NEW block \in BOOLEAN, RequestRemote(n, k, block) PROVE Closing'
    <2>1. (IF block THEN "WaitAndGet" ELSE "GetData") \in MsgKind \ {"Done", "Teardown"}
      BY DEF MsgKind
    <2>2. QuietQueue
      BY <1>2, <1>7, <2>1 DEF RequestRemote
    <2>3. Settled("app", pc[n]["app"], "lockCache")
      BY <1>1, <1>7, LabelTypes DEF RequestRemote, Call, Ended
    <2>4. QED
      BY <1>7, <2>2, <2>3, MoveCloses, LabelTypes DEF RequestRemote
  <1>8. QED
    BY <1>3, <1>4, <1>5, <1>6, <1>7, SendDoneCloses DEF AppCalls

\* tryToHandleCache_ keeps Closing: what it sends are replies.
LEMMA TryToHandleCacheCloses ==
  ASSUME IndInv, NEW n \in Nodes, NEW t \in Threads, TryToHandleCache(n, t)
  PROVE  Closing'
  <1>1. \A l \in {"serve", Idle(t)} : pc[n][t] \in {"handleCache", "serve"} =>
          Settled(t, pc[n][t], l)
    BY DEF Settled, Ended, Idle
  <1>2. ASSUME TakeWaiters(n, t) PROVE Closing'
    BY <1>1, <1>2, UnchangedQuiet, MoveCloses, LabelTypes DEF TakeWaiters, network
  <1>3. ASSUME NoWaiters(n, t) PROVE Closing'
    BY <1>1, <1>3, UnchangedQuiet, MoveCloses, LabelTypes DEF NoWaiters, network
  <1>4. ASSUME ServedAll(n, t) PROVE Closing'
    BY <1>1, <1>4, UnchangedQuiet, MoveCloses, LabelTypes DEF ServedAll, network
  <1>5. ASSUME ServeWaiter(n, t) PROVE Closing'
    <2> DEFINE m == Head(todo[n][t])
               r == DataMsg("ReplyData", n, key[n][t], kvMap[n][key[n][t]])
    <2>1. UNCHANGED done
      BY <1>5 DEF ServeWaiter
    <2>2. CASE m.kind # "WaitAndGet"
      <3>1. Abort(n, "waiterCast") /\ UNCHANGED queue
        BY <1>5, <2>2 DEF ServeWaiter
      <3>2. QED
        BY <2>1, <3>1, UnchangedQuiet, AbortCloses DEF Failures
    <2>3. CASE m.kind = "WaitAndGet"
      <3>1. todo[n][t] \in Seq(Message) /\ todo[n][t] # <<>>
        BY <1>5 DEF IndInv, TypeOK, ServeWaiter
      <3>2. m \in Message
        BY <3>1, RangeTail
      <3>3. m.from \in Nodes
        BY <3>2 DEF Message
      <3>4. key[n][t] \in Keys
        BY <1>5 DEF IndInv, ThreadsHomed, ServeWaiter
      <3>5. kvMap[n][key[n][t]] \in Value \cup {NoValue}
        BY <3>4 DEF IndInv, TypeOK
      <3>6. r \in Message /\ r.kind = "ReplyData"
        BY <3>4, <3>5, MessageTypes DEF MsgKind, DataMsg
      <3>7. Send(m.from, r) /\ UNCHANGED pc
        BY <1>5, <2>3 DEF ServeWaiter
      <3> HIDE DEF m, r
      <3>8. QED
        BY <2>1, <3>3, <3>6, <3>7, SendQuiet, StayCloses
    <2>4. QED
      BY <2>2, <2>3
  <1>6. QED
    BY <1>2, <1>3, <1>4, <1>5 DEF TryToHandleCache

\* What the application thread does until a call returns keeps Closing.
LEMMA AppContinuesCloses ==
  ASSUME IndInv, NEW n \in Nodes, AppContinues(n) \/ SpuriousWakeup(n)
  PROVE  Closing'
  <1>1. \A l \in Labels : pc[n]["app"] \notin Ended \/ l \in Ended => Settled("app", pc[n]["app"], l)
    BY DEF Settled
  <1>2. ASSUME SpinReads(n) PROVE Closing'
    <2>1. Settled("app", pc[n]["app"], "run")
      BY <1>1, <1>2, LabelTypes DEF SpinReads, Ended
    <2>2. QED
      BY <1>2, <2>1, UnchangedQuiet, MoveCloses, LabelTypes DEF SpinReads, network
  <1>3. ASSUME WaitForReply(n) PROVE Closing'
    <2>1. Settled("app", pc[n]["app"], "asleep")
      BY <1>1, <1>3, LabelTypes DEF WaitForReply, Ended
    <2>2. QED
      BY <1>3, <2>1, UnchangedQuiet, MoveCloses, LabelTypes DEF WaitForReply, network
  <1>4. ASSUME ReturnNull(n) PROVE Closing'
    <2>1. Settled("app", pc[n]["app"], "run")
      BY <1>1, <1>4, LabelTypes DEF ReturnNull, Ended
    <2>2. QED
      BY <1>4, <2>1, UnchangedQuiet, MoveCloses, LabelTypes DEF ReturnNull, network
  <1>5. ASSUME TakeReply(n) PROVE Closing'
    <2>1. QuietQueue /\ UNCHANGED done
      BY <1>5, UnchangedQuiet DEF TakeReply, network
    <2>2. Settled("app", pc[n]["app"], "run")
      BY <1>1, <1>5, LabelTypes DEF TakeReply, Ended
    <2>3. \/ Goto(n, "app", "run")
          \/ Abort(n, "replyCount")
          \/ Abort(n, "replyCast")
      BY <1>5 DEF TakeReply
    <2>4. QED
      BY <2>1, <2>2, <2>3, MoveCloses, AbortCloses, LabelTypes DEF Failures
  <1>6. ASSUME Join(n) PROVE Closing'
    <2>1. Settled("app", pc[n]["app"], "exited")
      BY <1>1, LabelTypes DEF Ended
    <2>2. QED
      BY <1>6, <2>1, UnchangedQuiet, MoveCloses, LabelTypes DEF Join, network
  <1>7. ASSUME SpuriousWakeup(n) PROVE Closing'
    <2>1. Settled("app", pc[n]["app"], "lockCache")
      BY <1>1, <1>7, LabelTypes DEF SpuriousWakeup, Ended
    <2>2. QED
      BY <1>7, <2>1, UnchangedQuiet, MoveCloses, LabelTypes DEF SpuriousWakeup, network
  <1>8. QED
    BY <1>2, <1>3, <1>4, <1>5, <1>6, <1>7, TryToHandleCacheCloses, LabelTypes DEF AppContinues

\* What the ReceiverThread does keeps Closing.
LEMMA ReceiverStepCloses ==
  ASSUME IndInv, NEW n \in Nodes, ReceiverStep(n)
  PROVE  Closing'
  <1> DEFINE m == Head(queue[n])
  <1>1. \A l \in Labels \ {"teardown", "exited"} : Settled("rt", pc[n]["rt"], l)
    BY DEF Settled
  <1>2. ASSUME NEW kinds, Receive(n, kinds)
        PROVE  QuietQueue /\ m \in Message /\ m.kind \in kinds /\ WellHomed(n, m)
    BY <1>2, ReceiveQuiet, ReceiveEffect DEF Receive, IndInv, QueueHomed
  <1>3. ASSUME ReceiveRequest(n) PROVE Closing'
    <2>1. QuietQueue
      BY <1>2, <1>3 DEF ReceiveRequest
    <2>2. QED
      BY <1>1, <1>3, <2>1, MoveCloses, LabelTypes DEF ReceiveRequest
  <1>4. ASSUME AnswerRequest(n) PROVE Closing'
    <2> DEFINE r == DataMsg("ReplyData", n, request[n].key, found[n])
    <2>1. request[n].key \in Keys /\ request[n].from \in Nodes /\ found[n] \in Value \cup {NoValue}
      BY <1>4 DEF AnswerRequest, IndInv, ThreadsHomed, TypeOK, Message
    <2>2. r \in Message /\ r.kind = "ReplyData"
      BY <2>1, MessageTypes DEF MsgKind, DataMsg
    <2>3. Send(request[n].from, r)
      BY <1>4 DEF AnswerRequest
    <2> HIDE DEF r
    <2>4. QuietQueue
      BY <2>1, <2>2, <2>3, SendQuiet
    <2>5. QED
      BY <1>1, <1>4, <2>4, MoveCloses, LabelTypes DEF AnswerRequest
  <1>5. ASSUME CacheRequest(n) PROVE Closing'
    <2>1. /\ request[n].key \in Keys /\ request[n] \in Message
          /\ AddToCache(n, request[n].key, request[n]) /\ UNCHANGED <<queue, done>>
      BY <1>5 DEF CacheRequest, IndInv, ThreadsHomed, TypeOK, network
    <2>2. QuietQueue
      BY <2>1, UnchangedQuiet
    <2>3. QED
      BY <2>1, <2>2, AddToCacheCloses
  <1>6. ASSUME ReplyNull(n) PROVE Closing'
    BY <1>6, UnchangedQuiet, AbortCloses DEF ReplyNull, network, Failures
  <1>7. ASSUME ReceiveReply(n) PROVE Closing'
    <2>1. QuietQueue /\ m \in Message /\ m.kind = "ReplyData" /\ WellHomed(n, m)
      BY <1>2, <1>7 DEF ReceiveReply
    <2>2. m.key \in Keys /\ AddToCache(n, m.key, m) /\ UNCHANGED done
      BY <1>7, <2>1 DEF ReceiveReply, WellHomed
    <2> HIDE DEF m
    <2>3. QED
      BY <2>1, <2>2, AddToCacheCloses
  <1>8. ASSUME ReceivePut(n) PROVE Closing'
    <2>1. QuietQueue /\ UNCHANGED done
      BY <1>2, <1>8 DEF ReceivePut
    <2>2. Abort(n, "wrongHome") \/ Goto(n, "rt", "handleCache")
      BY <1>8 DEF ReceivePut, StoreValue
    <2>3. QED
      BY <1>1, <2>1, <2>2, MoveCloses, AbortCloses, LabelTypes DEF Failures
  <1>9. QED
    BY <1>3, <1>4, <1>5, <1>6, <1>7, <1>8, TryToHandleCacheCloses, ReceiveDoneCloses,
       SendTeardownCloses, ReceiveTeardownCloses, LabelTypes DEF ReceiverStep

-----------------------------------------------------------------------------
(* The theorems *)

\* The initial state satisfies the inductive invariant.
LEMMA InitInd == Init => IndInv
  <1> SUFFICES ASSUME Init PROVE IndInv
    OBVIOUS
  <1>1. \A a \in Nodes : Range(queue[a]) = {} /\ queue[a] = <<>>
    BY RangeEmpty DEF Init
  <1>2. \A a \in Nodes, k \in Keys : Range(msgCache[a][k]) = {}
    BY RangeEmpty DEF Init
  <1>3. \A a \in Nodes, t \in Threads : Range(todo[a][t]) = {}
    BY RangeEmpty DEF Init
  <1>4. \A a \in Nodes, t \in Threads : pc[a][t] \in {"run", "receive"}
    BY DEF Init
  <1>5. CastsHold /\ QueueHomed /\ CacheHomed /\ TodoHomed
    BY <1>1, <1>2, <1>3 DEF Init, CastsHold, QueueHomed, CacheHomed, TodoHomed
  <1>6. ThreadsHomed
    BY <1>4, LabelTypes DEF ThreadsHomed
  <1>7. DoneDistinct /\ DoneOnce
    <2>1. DOMAIN queue[Server] = {}
      BY <1>1, KVAssumption
    <2>2. QED
      BY <1>1, <2>1 DEF Init, DoneDistinct, DoneOnce
  <1>8. TeardownLast
    BY <1>1, <1>4, LabelTypes, KVAssumption DEF Init, TeardownLast
  <1>9. QED
    BY <1>5, <1>6, <1>7, <1>8, InitType DEF IndInv

\* Every step preserves the inductive invariant.
LEMMA NextInd ==
  ASSUME IndInv, [Next]_vars
  PROVE  IndInv'
  <1>1. CASE Next
    <2>1. PICK n \in Nodes : NodeStep(n)
      BY <1>1 DEF Next
    <2>2. CASE AppCalls(n)
      BY <2>2, AppCallsType, AppCallsHomed, AppCallsCloses DEF IndInv, Homed, Closing
    <2>3. CASE AppContinues(n) \/ SpuriousWakeup(n)
      BY <2>3, AppContinuesType, AppContinuesHomed, AppContinuesCloses DEF IndInv, Homed, Closing
    <2>4. CASE ReceiverStep(n)
      BY <2>4, ReceiverStepType, ReceiverStepHomed, ReceiverStepCloses DEF IndInv, Homed, Closing
    <2>5. QED
      BY <2>1, <2>2, <2>3, <2>4 DEF NodeStep
  <1>2. CASE UNCHANGED vars
    BY <1>2 DEF vars, IndInv, TypeOK, CastsHold, QueueHomed, CacheHomed, TodoHomed, ThreadsHomed,
                DoneDistinct, DoneOnce, TeardownLast, WellHomed, AllDone
  <1>3. QED
    BY <1>1, <1>2

\* The inductive invariant holds in every reachable state, for any number of
\* nodes, keys and calls: messages travel where their handlers expect them
\* (receiverthread.h, run), msgCache_ never mixes waiters with replies, and
\* each Done is counted once.
THEOREM IndInvHolds == Spec => []IndInv
  BY InitInd, NextInd, PTL DEF Spec

\* Type correctness of the stores, their threads and the inboxes, among it that
\* the index of sendTeardownMsgs_ stays below the number of nodes.
THEOREM TypeCorrect == Spec => []TypeOK
  <1>1. IndInv => TypeOK
    BY DEF IndInv
  <1>2. QED
    BY <1>1, IndInvHolds, PTL

\* The casts of tryToHandleCache_ and getFromNetwork_ never fail, and no Put
\* reaches a node that is not the home of its key.
THEOREM CastsNeverFail == Spec => []CastsHold
  <1>1. IndInv => CastsHold
    BY DEF IndInv
  <1>2. QED
    BY <1>1, IndInvHolds, PTL

\* handleDoneMsg starts no teardown before every application has ended, and no
\* ReceiverThread ends before.
THEOREM TeardownWaits == Spec => []NoEarlyTeardown
  <1>1. IndInv => NoEarlyTeardown
    <2> SUFFICES ASSUME IndInv,
                        nextTorn > 0 \/ \E n \in Nodes : pc[n]["rt"] \in {"teardown", "exited"}
                 PROVE  \A n \in Nodes : pc[n]["app"] \in {"join", "exited", "aborted"}
      BY DEF NoEarlyTeardown
    <2>1. AllDone(isNodeDone)
      BY DEF IndInv, TeardownLast
    <2>2. QED
      BY <2>1 DEF AllDone, IndInv, DoneOnce, Ended
  <1>2. QED
    BY <1>1, IndInvHolds, PTL

-----------------------------------------------------------------------------
(* The places where a request of n for k, or the reply to it, can be *)

\* A request of n for k.
IsRequest(m, n, k) == m.kind \in {"GetData", "WaitAndGet"} /\ m.from = n /\ m.key = k

\* A reply for k.
IsReply(m, k) == m.kind = "ReplyData" /\ m.key = k

\* The request is in the inbox of the home, ...
Asked(n, k) == Cardinality(RequestsIn(queue[Home[k]], n, k))

\* ... or the receiver of the home has it and looks for the value, ...
Answering(n, k) ==
  pc[Home[k]]["rt"] = "answer" /\ request[Home[k]].from = n /\ request[Home[k]].key = k

\* ... or it waits in the cache of the home, ...
Waiting(n, k) == Cardinality(RequestsIn(msgCache[Home[k]][k], n, k))

\* ... or a thread of the home serves it.
Served(n, k, t) == Cardinality(RequestsIn(todo[Home[k]][t], n, k))

\* The reply is in the inbox of n, ...
Coming(n, k) == Cardinality(RepliesIn(queue[n], k))

\* ... or in its cache.
Arrived(n, k) == Cardinality(RepliesIn(msgCache[n][k], k))

-----------------------------------------------------------------------------
(* The inductive invariant *)

\* A thread that serves waiters owns the lock, and only such a thread has waiters to serve.
LockHeld ==
  \A n \in Nodes, t \in Threads :
    /\ pc[n][t] = "serve" => lock[n] = t
    /\ todo[n][t] # <<>> => pc[n][t] \in {"serve", "aborted"}

\* What is cached under a key, or served by a thread that put it, is for that key.
Keyed ==
  /\ \A n \in Nodes, k \in Keys : \A m \in Range(msgCache[n][k]) : m.key = k
  /\ \A n \in Nodes, t \in Threads : \A m \in Range(todo[n][t]) : m.key = key[n][t]

\* A node that failed has stopped, and none has failed for want of one reply.
Failed ==
  \A n \in Nodes :
    /\ \A t \in Threads : pc[n][t] = "aborted" <=> aborted[n] # "no"
    /\ aborted[n] # "replyCount"

\* The call of a get is carried on by one message, unless the home of its key has failed;
\* no other message is under way.
OneEach ==
  \A n \in Nodes, k \in Keys :
    Home[k] # n /\ ~Leaked(n) /\ aborted[n] = "no" =>
      /\ Outstanding(n, k) <= IF WaitsFor(n, k) THEN 1 ELSE 0
      /\ aborted[Home[k]] = "no" => Outstanding(n, k) = IF WaitsFor(n, k) THEN 1 ELSE 0

\* The inductive invariant, above IndInv.
GetInv == IndInv /\ LockHeld /\ Keyed /\ Failed /\ OneEach

-----------------------------------------------------------------------------
(* Counting the messages of a sequence *)

\* The positions of a sequence whose messages are in M.
At(s, M) == {i \in DOMAIN s : s[i] \in M}

\* A message that is pushed is counted.
LEMMA CountAppend ==
  ASSUME NEW s \in Seq(Message), NEW m \in Message, NEW M
  PROVE  Cardinality(At(Append(s, m), M)) = Cardinality(At(s, M)) + (IF m \in M THEN 1 ELSE 0)
  <1> DEFINE t == Append(s, m)
             l == Len(s) + 1
  <1>1. /\ l \in Nat /\ DOMAIN s = 1 .. Len(s) /\ Len(s) \in Nat /\ DOMAIN t = 1 .. l
        /\ t[l] = m /\ \A i \in 1 .. Len(s) : t[i] = s[i]
    OBVIOUS
  <1> HIDE DEF t
  <1>2. \A i : i \in 1 .. l <=> i \in 1 .. Len(s) \/ i = l
    BY <1>1
  <1>3. l \notin 1 .. Len(s)
    BY <1>1
  <1> HIDE DEF l
  <1>4. At(t, M) = At(s, M) \cup (IF m \in M THEN {l} ELSE {})
    BY <1>1, <1>2, <1>3 DEF At
  <1>5. IsFiniteSet(At(s, M)) /\ l \notin At(s, M)
    <2>1. IsFiniteSet(1 .. Len(s))
      BY <1>1, FS_Interval
    <2>2. At(s, M) \in SUBSET (1 .. Len(s))
      BY <1>1 DEF At
    <2>3. QED
      BY <1>3, <2>1, <2>2, FS_Subset
  <1>6. Cardinality(At(s, M)) \in Nat
    BY <1>5, FS_CardinalityType
  <1>7. CASE m \in M
    <2>1. At(t, M) = At(s, M) \cup {l}
      BY <1>4, <1>7
    <2>2. QED
      BY <1>5, <1>7, <2>1, FS_AddElement DEF t
  <1>8. CASE m \notin M
    BY <1>4, <1>6, <1>8 DEF t
  <1>9. QED
    BY <1>7, <1>8

\* A sequence has finitely many positions, and none if and only if no message is in M.
LEMMA CountAt ==
  ASSUME NEW s \in Seq(Message), NEW M
  PROVE  /\ IsFiniteSet(At(s, M)) /\ Cardinality(At(s, M)) \in Nat
         /\ Cardinality(At(s, M)) = 0 <=> \A m \in Range(s) : m \notin M
  <1>1. DOMAIN s = 1 .. Len(s) /\ Len(s) \in Nat
    OBVIOUS
  <1>2. IsFiniteSet(1 .. Len(s)) /\ At(s, M) \in SUBSET (1 .. Len(s))
    BY <1>1, FS_Interval DEF At
  <1>3. IsFiniteSet(At(s, M))
    BY <1>2, FS_Subset
  <1>4. Cardinality(At(s, M)) \in Nat /\ (Cardinality(At(s, M)) = 0 <=> At(s, M) = {})
    BY <1>3, FS_CardinalityType, FS_EmptySet
  <1>5. At(s, M) = {} <=> \A m \in Range(s) : m \notin M
    BY DEF At, Range
  <1>6. QED
    BY <1>3, <1>4, <1>5

\* A message that is popped is no longer counted.
LEMMA CountTail ==
  ASSUME NEW s \in Seq(Message), s # <<>>, NEW M
  PROVE  Cardinality(At(s, M)) =
           Cardinality(At(Tail(s), M)) + (IF Head(s) \in M THEN 1 ELSE 0)
  <1> DEFINE t == Tail(s)
             A == At(t, M)
             B == At(s, M) \ {1}
             f == [i \in A |-> i + 1]
  <1>1. /\ Len(s) \in Nat \ {0} /\ DOMAIN s = 1 .. Len(s) /\ t \in Seq(Message)
        /\ DOMAIN t = 1 .. Len(s) - 1 /\ \A i \in 1 .. Len(s) - 1 : t[i] = s[i + 1]
        /\ Head(s) = s[1]
    OBVIOUS
  <1> HIDE DEF t
  <1>2. \A i \in 1 .. Len(s) - 1 : i + 1 \in 1 .. Len(s) /\ i + 1 # 1
    BY <1>1
  <1>3. \A i \in 1 .. Len(s) : i # 1 => i - 1 \in 1 .. Len(s) - 1 /\ (i - 1) + 1 = i
    BY <1>1
  <1>4. \A i \in A : i \in 1 .. Len(s) - 1 /\ i + 1 \in B
    BY <1>1, <1>2 DEF At
  <1>5. \A i \in B : i - 1 \in A /\ (i - 1) + 1 = i
    BY <1>1, <1>3 DEF At
  <1> HIDE DEF A, B
  <1>6. f \in [A -> B]
    BY <1>4
  <1>7. \A i, j \in A : f[i] = f[j] => i = j
    BY <1>4
  <1>8. \A b \in B : \E i \in A : f[i] = b
    <2> SUFFICES ASSUME NEW b \in B PROVE \E i \in A : f[i] = b
      OBVIOUS
    <2>1. b - 1 \in A /\ f[b - 1] = b
      BY <1>5
    <2>2. QED
      BY <2>1
  <1> HIDE DEF f
  <1>9. f \in Bijection(A, B)
    BY <1>6, <1>7, <1>8, Fun_IsBij
  <1>10. IsFiniteSet(A) /\ Cardinality(A) \in Nat
    BY <1>1, CountAt DEF A
  <1>11. Cardinality(B) = Cardinality(A)
    BY <1>9, <1>10, FS_Bijection DEF ExistsBijection
  <1>12. IsFiniteSet(At(s, M)) /\ Cardinality(At(s, M)) \in Nat
    BY CountAt
  <1>13. Cardinality(B) = IF 1 \in At(s, M) THEN Cardinality(At(s, M)) - 1 ELSE Cardinality(At(s, M))
    BY <1>12, FS_RemoveElement DEF B
  <1>14. 1 \in At(s, M) <=> Head(s) \in M
    BY <1>1 DEF At
  <1>15. Cardinality(At(s, M)) = Cardinality(A) + (IF Head(s) \in M THEN 1 ELSE 0)
    BY <1>10, <1>11, <1>12, <1>13, <1>14
  <1>16. QED
    BY <1>15 DEF A, t

\* The requests and replies of a sequence are such positions.
LEMMA CountedMessages ==
  ASSUME NEW s \in Seq(Message), NEW n, NEW k
  PROVE  /\ RequestsIn(s, n, k) = At(s, {m \in Message : IsRequest(m, n, k)})
         /\ RepliesIn(s, k) = At(s, {m \in Message : IsReply(m, k)})
  <1>1. \A i \in DOMAIN s : s[i] \in Message
    OBVIOUS
  <1>2. QED
    BY <1>1 DEF RequestsIn, RepliesIn, At, IsRequest, IsReply

\* The requests and replies of a sequence are counted, and there are none if and only if no
\* message is one.
LEMMA Counts ==
  ASSUME NEW s \in Seq(Message), NEW n, NEW k
  PROVE  /\ Cardinality(RequestsIn(s, n, k)) \in Nat /\ Cardinality(RepliesIn(s, k)) \in Nat
         /\ Cardinality(RequestsIn(s, n, k)) = 0 <=> \A m \in Range(s) : ~IsRequest(m, n, k)
         /\ Cardinality(RepliesIn(s, k)) = 0 <=> \A m \in Range(s) : ~IsReply(m, k)
  <1> DEFINE Q == {m \in Message : IsRequest(m, n, k)}
             P == {m \in Message : IsReply(m, k)}
  <1>1. RequestsIn(s, n, k) = At(s, Q) /\ RepliesIn(s, k) = At(s, P)
    BY CountedMessages
  <1>2. \A m \in Message : (m \in Q <=> IsRequest(m, n, k)) /\ (m \in P <=> IsReply(m, k))
    OBVIOUS
  <1> HIDE DEF Q, P
  <1>3. \A m \in Range(s) : m \in Message
    BY DEF Range
  <1>4. /\ Cardinality(At(s, Q)) \in Nat /\ Cardinality(At(s, P)) \in Nat
        /\ Cardinality(At(s, Q)) = 0 <=> \A m \in Range(s) : m \notin Q
        /\ Cardinality(At(s, P)) = 0 <=> \A m \in Range(s) : m \notin P
    BY CountAt
  <1>5. QED
    BY <1>1, <1>2, <1>3, <1>4

\* What a push does to their numbers.
LEMMA PushCounts ==
  ASSUME NEW s \in Seq(Message), NEW m \in Message, NEW n, NEW k
  PROVE  /\ Cardinality(RequestsIn(Append(s, m), n, k)) =
              Cardinality(RequestsIn(s, n, k)) + (IF IsRequest(m, n, k) THEN 1 ELSE 0)
         /\ Cardinality(RepliesIn(Append(s, m), k)) =
              Cardinality(RepliesIn(s, k)) + (IF IsReply(m, k) THEN 1 ELSE 0)
  <1> DEFINE Q == {e \in Message : IsRequest(e, n, k)}
             P == {e \in Message : IsReply(e, k)}
  <1>1. Append(s, m) \in Seq(Message)
    OBVIOUS
  <1>2. /\ RequestsIn(s, n, k) = At(s, Q) /\ RepliesIn(s, k) = At(s, P)
        /\ RequestsIn(Append(s, m), n, k) = At(Append(s, m), Q)
        /\ RepliesIn(Append(s, m), k) = At(Append(s, m), P)
    <2>1. RequestsIn(s, n, k) = At(s, Q) /\ RepliesIn(s, k) = At(s, P)
      BY CountedMessages
    <2>2. /\ RequestsIn(Append(s, m), n, k) = At(Append(s, m), Q)
          /\ RepliesIn(Append(s, m), k) = At(Append(s, m), P)
      BY <1>1, CountedMessages
    <2>3. QED
      BY <2>1, <2>2
  <1>3. (m \in Q <=> IsRequest(m, n, k)) /\ (m \in P <=> IsReply(m, k))
    OBVIOUS
  <1> HIDE DEF Q, P
  <1>4. /\ Cardinality(At(Append(s, m), Q)) = Cardinality(At(s, Q)) + (IF m \in Q THEN 1 ELSE 0)
        /\ Cardinality(At(Append(s, m), P)) = Cardinality(At(s, P)) + (IF m \in P THEN 1 ELSE 0)
    BY CountAppend
  <1>5. QED
    BY <1>2, <1>3, <1>4

\* What a pop does to their numbers.
LEMMA PopCounts ==
  ASSUME NEW s \in Seq(Message), s # <<>>, NEW m, m = Head(s), NEW n, NEW k
  PROVE  /\ Cardinality(RequestsIn(s, n, k)) =
              Cardinality(RequestsIn(Tail(s), n, k)) + (IF IsRequest(m, n, k) THEN 1 ELSE 0)
         /\ Cardinality(RepliesIn(s, k)) =
              Cardinality(RepliesIn(Tail(s), k)) + (IF IsReply(m, k) THEN 1 ELSE 0)
  <1> DEFINE Q == {e \in Message : IsRequest(e, n, k)}
             P == {e \in Message : IsReply(e, k)}
  <1>1. Tail(s) \in Seq(Message) /\ m \in Message
    OBVIOUS
  <1>2. /\ RequestsIn(s, n, k) = At(s, Q) /\ RepliesIn(s, k) = At(s, P)
        /\ RequestsIn(Tail(s), n, k) = At(Tail(s), Q) /\ RepliesIn(Tail(s), k) = At(Tail(s), P)
    <2>1. RequestsIn(s, n, k) = At(s, Q) /\ RepliesIn(s, k) = At(s, P)
      BY CountedMessages
    <2>2. /\ RequestsIn(Tail(s), n, k) = At(Tail(s), Q)
          /\ RepliesIn(Tail(s), k) = At(Tail(s), P)
      BY <1>1, CountedMessages
    <2>3. QED
      BY <2>1, <2>2
  <1>3. (m \in Q <=> IsRequest(m, n, k)) /\ (m \in P <=> IsReply(m, k))
    BY <1>1
  <1> HIDE DEF Q, P
  <1>4. /\ Cardinality(At(s, Q)) = Cardinality(At(Tail(s), Q)) + (IF m \in Q THEN 1 ELSE 0)
        /\ Cardinality(At(s, P)) = Cardinality(At(Tail(s), P)) + (IF m \in P THEN 1 ELSE 0)
    BY CountTail
  <1>5. QED
    BY <1>2, <1>3, <1>4

-----------------------------------------------------------------------------
(* What the helpers of the actions do to the places *)

\* The places are counted, and there is one receiver that may be answering.
LEMMA PlaceTypes ==
  ASSUME TypeOK, NEW n \in Nodes, NEW k \in Keys
  PROVE  /\ Home[k] \in Nodes /\ Asked(n, k) \in Nat /\ Waiting(n, k) \in Nat
         /\ \A t \in Threads : Served(n, k, t) \in Nat
         /\ Coming(n, k) \in Nat /\ Arrived(n, k) \in Nat
         /\ Outstanding(n, k) =
              Asked(n, k) + (IF Answering(n, k) THEN 1 ELSE 0) + Waiting(n, k)
              + Served(n, k, "app") + Served(n, k, "rt") + Coming(n, k) + Arrived(n, k)
  <1>1. Home[k] \in Nodes
    BY KVAssumption
  <1>2. /\ queue[Home[k]] \in Seq(Message) /\ queue[n] \in Seq(Message)
        /\ msgCache[Home[k]][k] \in Seq(Message) /\ msgCache[n][k] \in Seq(Message)
        /\ \A t \in Threads : todo[Home[k]][t] \in Seq(Message)
    BY <1>1 DEF TypeOK
  <1>3. \A s \in Seq(Message) :
          Cardinality(RequestsIn(s, n, k)) \in Nat /\ Cardinality(RepliesIn(s, k)) \in Nat
    BY Counts
  <1>4. QED
    BY <1>1, <1>2, <1>3
       DEF Asked, Answering, Waiting, Served, Coming, Arrived, Outstanding

\* A message that is sent is at its target.
LEMMA SendCounts ==
  ASSUME TypeOK, NEW h \in Nodes, NEW m \in Message, Send(h, m), NEW n \in Nodes, NEW k \in Keys
  PROVE  /\ Asked(n, k)' =
              Asked(n, k) + (IF h = Home[k] /\ IsRequest(m, n, k) THEN 1 ELSE 0)
         /\ Coming(n, k)' = Coming(n, k) + (IF h = n /\ IsReply(m, k) THEN 1 ELSE 0)
  <1>1. \A a \in Nodes : /\ queue[a] \in Seq(Message)
                         /\ queue'[a] = IF a = h THEN Append(queue[a], m) ELSE queue[a]
    BY DEF TypeOK, Send
  <1>2. Home[k] \in Nodes
    BY KVAssumption
  <1>3. ASSUME NEW s \in Seq(Message)
        PROVE  /\ Cardinality(RequestsIn(s, n, k)) \in Nat /\ Cardinality(RepliesIn(s, k)) \in Nat
               /\ Cardinality(RequestsIn(Append(s, m), n, k)) =
                    Cardinality(RequestsIn(s, n, k)) + (IF IsRequest(m, n, k) THEN 1 ELSE 0)
               /\ Cardinality(RepliesIn(Append(s, m), k)) =
                    Cardinality(RepliesIn(s, k)) + (IF IsReply(m, k) THEN 1 ELSE 0)
    BY Counts, PushCounts
  <1>4. /\ Asked(n, k)' = Cardinality(RequestsIn(queue'[Home[k]], n, k))
        /\ Coming(n, k)' = Cardinality(RepliesIn(queue'[n], k))
    BY DEF Asked, Coming, RequestsIn, RepliesIn
  <1>5. Asked(n, k)' = Asked(n, k) + (IF h = Home[k] /\ IsRequest(m, n, k) THEN 1 ELSE 0)
    BY <1>1, <1>2, <1>3, <1>4 DEF Asked
  <1>6. Coming(n, k)' = Coming(n, k) + (IF h = n /\ IsReply(m, k) THEN 1 ELSE 0)
    BY <1>1, <1>3, <1>4 DEF Coming
  <1>7. QED
    BY <1>5, <1>6

\* A message that is received is no longer in the inbox.
LEMMA ReceiveCounts ==
  ASSUME TypeOK, NEW h \in Nodes, NEW kinds, Receive(h, kinds), NEW n \in Nodes, NEW k \in Keys
  PROVE  /\ Asked(n, k) =
              Asked(n, k)' + (IF h = Home[k] /\ IsRequest(Head(queue[h]), n, k) THEN 1 ELSE 0)
         /\ Coming(n, k) = Coming(n, k)' + (IF h = n /\ IsReply(Head(queue[h]), k) THEN 1 ELSE 0)
         /\ Asked(n, k)' \in Nat /\ Coming(n, k)' \in Nat
  <1> DEFINE q == queue[h]
             m == Head(q)
  <1>1. /\ \A a \in Nodes : /\ queue[a] \in Seq(Message)
                            /\ queue'[a] = IF a = h THEN Tail(q) ELSE queue[a]
        /\ q # <<>> /\ q \in Seq(Message)
    BY DEF TypeOK, Receive
  <1>2. Home[k] \in Nodes
    BY KVAssumption
  <1>3. ASSUME NEW s \in Seq(Message)
        PROVE  Cardinality(RequestsIn(s, n, k)) \in Nat /\ Cardinality(RepliesIn(s, k)) \in Nat
    BY Counts
  <1>4. /\ Cardinality(RequestsIn(q, n, k)) =
             Cardinality(RequestsIn(Tail(q), n, k)) + (IF IsRequest(m, n, k) THEN 1 ELSE 0)
        /\ Cardinality(RepliesIn(q, k)) =
             Cardinality(RepliesIn(Tail(q), k)) + (IF IsReply(m, k) THEN 1 ELSE 0)
    <2> HIDE DEF q
    <2>1. QED
      BY <1>1, PopCounts
  <1>5. Tail(q) \in Seq(Message)
    BY <1>1
  <1>6. /\ Asked(n, k)' = Cardinality(RequestsIn(queue'[Home[k]], n, k))
        /\ Coming(n, k)' = Cardinality(RepliesIn(queue'[n], k))
    BY DEF Asked, Coming, RequestsIn, RepliesIn
  <1> HIDE DEF m
  <1>7. Asked(n, k) = Asked(n, k)' + (IF h = Home[k] /\ IsRequest(m, n, k) THEN 1 ELSE 0)
    <2>1. CASE h = Home[k]
      BY <1>1, <1>4, <1>6, <2>1 DEF Asked
    <2>2. CASE h # Home[k]
      BY <1>1, <1>2, <1>3, <1>6, <2>2 DEF Asked
    <2>3. QED
      BY <2>1, <2>2
  <1>8. Coming(n, k) = Coming(n, k)' + (IF h = n /\ IsReply(m, k) THEN 1 ELSE 0)
    <2>1. CASE h = n
      BY <1>1, <1>4, <1>6, <2>1 DEF Coming
    <2>2. CASE h # n
      BY <1>1, <1>3, <1>6, <2>2 DEF Coming
    <2>3. QED
      BY <2>1, <2>2
  <1>9. Asked(n, k)' \in Nat /\ Coming(n, k)' \in Nat
    <2>1. queue'[Home[k]] \in Seq(Message) /\ queue'[n] \in Seq(Message)
      BY <1>1, <1>2, <1>5
    <2>2. QED
      BY <1>3, <1>6, <2>1
  <1>10. QED
    BY <1>7, <1>8, <1>9 DEF m

\* One array of the cache, or the waiters of one thread, become y.
ArrayBecomes(h, b, y)  == msgCache' = [msgCache EXCEPT ![h][b] = y]
WaitersBecome(h, t, y) == todo' = [todo EXCEPT ![h][t] = y]

\* A cache that changes under one key changes nowhere else.
LEMMA OneArray ==
  ASSUME TypeOK, NEW h \in Nodes, NEW b \in Keys, NEW y \in Seq(Message),
         ArrayBecomes(h, b, y)
  PROVE  \A a \in Nodes, c \in Keys :
           msgCache'[a][c] = IF a = h /\ c = b THEN y ELSE msgCache[a][c]
  <1>1. msgCache \in [Nodes -> [Keys -> Seq(Message)]]
    BY DEF TypeOK
  <1>2. \A a \in Nodes, c \in Keys :
          [msgCache EXCEPT ![h][b] = y][a][c] = IF a = h /\ c = b THEN y ELSE msgCache[a][c]
    BY ONLY <1>1, h \in Nodes, b \in Keys, y \in Seq(Message), Except2Type
  <1>3. QED
    BY <1>2 DEF ArrayBecomes

\* The waiters that one thread serves are no other thread's.
LEMMA OneThread ==
  ASSUME TypeOK, NEW h \in Nodes, NEW t \in Threads, NEW y \in Seq(Message),
         WaitersBecome(h, t, y)
  PROVE  \A a \in Nodes, u \in Threads :
           todo'[a][u] = IF a = h /\ u = t THEN y ELSE todo[a][u]
  <1>1. todo \in [Nodes -> [Threads -> Seq(Message)]]
    BY DEF TypeOK
  <1>2. \A a \in Nodes, u \in Threads :
          [todo EXCEPT ![h][t] = y][a][u] = IF a = h /\ u = t THEN y ELSE todo[a][u]
    BY ONLY <1>1, h \in Nodes, t \in Threads, y \in Seq(Message), Except2Type
  <1>3. QED
    BY <1>2 DEF WaitersBecome

\* A message that is cached is in the array of its key.
LEMMA CacheCounts ==
  ASSUME TypeOK, NEW h \in Nodes, NEW b \in Keys, NEW m \in Message, AddToCache(h, b, m),
         NEW n \in Nodes, NEW k \in Keys
  PROVE  /\ Waiting(n, k)' =
              Waiting(n, k) + (IF h = Home[k] /\ b = k /\ IsRequest(m, n, k) THEN 1 ELSE 0)
         /\ Arrived(n, k)' =
              Arrived(n, k) + (IF h = n /\ b = k /\ IsReply(m, k) THEN 1 ELSE 0)
  <1>1. \A a \in Nodes, c \in Keys : msgCache[a][c] \in Seq(Message)
    BY DEF TypeOK
  <1> DEFINE new == Append(msgCache[h][b], m)
  <1>2. new \in Seq(Message)
    BY <1>1
  <1>3. ArrayBecomes(h, b, new)
    BY DEF AddToCache, ArrayBecomes
  <1>4. \A a \in Nodes, c \in Keys :
          msgCache'[a][c] = IF a = h /\ c = b THEN new ELSE msgCache[a][c]
    <2> HIDE DEF new
    <2>1. QED
      BY <1>2, <1>3, OneArray
  <1>5. Home[k] \in Nodes
    BY KVAssumption
  <1>6. ASSUME NEW s \in Seq(Message)
        PROVE  /\ Cardinality(RequestsIn(s, n, k)) \in Nat /\ Cardinality(RepliesIn(s, k)) \in Nat
               /\ Cardinality(RequestsIn(Append(s, m), n, k)) =
                    Cardinality(RequestsIn(s, n, k)) + (IF IsRequest(m, n, k) THEN 1 ELSE 0)
               /\ Cardinality(RepliesIn(Append(s, m), k)) =
                    Cardinality(RepliesIn(s, k)) + (IF IsReply(m, k) THEN 1 ELSE 0)
    BY Counts, PushCounts
  <1>7. /\ Waiting(n, k)' = Cardinality(RequestsIn(msgCache'[Home[k]][k], n, k))
        /\ Arrived(n, k)' = Cardinality(RepliesIn(msgCache'[n][k], k))
    BY DEF Waiting, Arrived, RequestsIn, RepliesIn
  <1>8. Waiting(n, k)' =
          Waiting(n, k) + (IF h = Home[k] /\ b = k /\ IsRequest(m, n, k) THEN 1 ELSE 0)
    BY <1>1, <1>4, <1>5, <1>6, <1>7 DEF Waiting
  <1>9. Arrived(n, k)' =
          Arrived(n, k) + (IF h = n /\ b = k /\ IsReply(m, k) THEN 1 ELSE 0)
    BY <1>1, <1>4, <1>6, <1>7 DEF Arrived
  <1>10. QED
    BY <1>8, <1>9

\* What does not change, and what nobody moves, counts the same.
LEMMA SameCounts ==
  ASSUME NEW n \in Nodes, NEW k \in Keys
  PROVE  /\ UNCHANGED queue => Asked(n, k)' = Asked(n, k) /\ Coming(n, k)' = Coming(n, k)
         /\ UNCHANGED msgCache => Waiting(n, k)' = Waiting(n, k) /\ Arrived(n, k)' = Arrived(n, k)
         /\ UNCHANGED todo => \A t \in Threads : Served(n, k, t)' = Served(n, k, t)
  <1>1. UNCHANGED queue => Asked(n, k)' = Asked(n, k) /\ Coming(n, k)' = Coming(n, k)
    BY DEF Asked, Coming, RequestsIn, RepliesIn
  <1>2. UNCHANGED msgCache => Waiting(n, k)' = Waiting(n, k) /\ Arrived(n, k)' = Arrived(n, k)
    BY DEF Waiting, Arrived, RequestsIn, RepliesIn
  <1>3. UNCHANGED todo => \A t \in Threads : Served(n, k, t)' = Served(n, k, t)
    BY DEF Served, RequestsIn
  <1>4. QED
    BY <1>1, <1>2, <1>3

\* The same sum after a step.
LEMMA PlacesAfter ==
  ASSUME NEW n \in Nodes, NEW k \in Keys
  PROVE  Outstanding(n, k)' =
           Asked(n, k)' + (IF Answering(n, k)' THEN 1 ELSE 0) + Waiting(n, k)'
           + Served(n, k, "app")' + Served(n, k, "rt")' + Coming(n, k)' + Arrived(n, k)'
  BY DEF Asked, Answering, Waiting, Served, Coming, Arrived, Outstanding

\* The waiters of a key that a thread has put are served by that thread.
LEMMA TakeWaitersCounts ==
  ASSUME IndInv, LockHeld, Keyed, NEW h \in Nodes, NEW t \in Threads, TakeWaiters(h, t),
         NEW n \in Nodes, NEW k \in Keys, Home[k] # n
  PROVE  /\ Waiting(n, k)' + Served(n, k, t)' = Waiting(n, k) + Served(n, k, t)
         /\ \A u \in Threads : u # t => Served(n, k, u)' = Served(n, k, u)
         /\ Arrived(n, k)' = Arrived(n, k)
  <1>1. /\ TypeOK /\ key[h][t] \in Keys /\ Home[key[h][t]] = h /\ todo[h][t] = <<>>
        /\ pc[h][t] = "handleCache"
    BY DEF IndInv, ThreadsHomed, LockHeld, TakeWaiters
  <1> DEFINE arr == msgCache[h][key[h][t]]
  <1>2. PICK b \in Keys : b = key[h][t]
    BY <1>1
  <1>3. arr \in Seq(Message) /\ arr = msgCache[h][b] /\ <<>> \in Seq(Message)
    BY <1>1, <1>2 DEF TypeOK
  <1>4. msgCache' = [msgCache EXCEPT ![h][b] = <<>>] /\ todo' = [todo EXCEPT ![h][t] = arr]
    BY <1>2 DEF TakeWaiters, RemoveArray
  <1>5. \A m \in Range(arr) : m.key = b
    BY <1>3 DEF Keyed
  <1> HIDE DEF arr
  <1>6. /\ \A a \in Nodes, c \in Keys :
             msgCache'[a][c] = IF a = h /\ c = b THEN <<>> ELSE msgCache[a][c]
        /\ \A a \in Nodes, c \in Threads : todo'[a][c] = IF a = h /\ c = t THEN arr ELSE todo[a][c]
    <2>1. \A a \in Nodes, c \in Keys :
            msgCache'[a][c] = IF a = h /\ c = b THEN <<>> ELSE msgCache[a][c]
      <3>1. PICK e \in Seq(Message) : e = <<>>
        BY <1>3
      <3>2. ArrayBecomes(h, b, e)
        BY <1>4, <3>1 DEF ArrayBecomes
      <3>3. TypeOK
        BY <1>1
      <3>4. \A a \in Nodes, c \in Keys :
              msgCache'[a][c] = IF a = h /\ c = b THEN e ELSE msgCache[a][c]
        BY ONLY <3>2, <3>3, h \in Nodes, b \in Keys, e \in Seq(Message), OneArray
      <3>5. QED
        BY <3>1, <3>4
    <2>2. \A a \in Nodes, c \in Threads : todo'[a][c] = IF a = h /\ c = t THEN arr ELSE todo[a][c]
      <3>1. TypeOK /\ arr \in Seq(Message) /\ WaitersBecome(h, t, arr)
        BY <1>1, <1>3, <1>4 DEF WaitersBecome
      <3>2. QED
        BY ONLY <3>1, h \in Nodes, t \in Threads, OneThread
    <2>3. QED
      BY <2>1, <2>2
  <1>7. Home[k] \in Nodes /\ Home[b] = h
    BY <1>1, <1>2, KVAssumption
  <1>8. /\ Waiting(n, k)' = Cardinality(RequestsIn(msgCache'[Home[k]][k], n, k))
        /\ Arrived(n, k)' = Cardinality(RepliesIn(msgCache'[n][k], k))
        /\ \A u \in Threads : Served(n, k, u)' = Cardinality(RequestsIn(todo'[Home[k]][u], n, k))
    BY DEF Waiting, Arrived, Served, RequestsIn, RepliesIn
  <1>9. /\ Cardinality(RequestsIn(<<>>, n, k)) = 0
        /\ Cardinality(RequestsIn(arr, n, k)) \in Nat
        /\ b # k => Cardinality(RequestsIn(arr, n, k)) = 0
    BY <1>3, <1>5, Counts, RangeEmpty DEF IsRequest
  <1>10. Arrived(n, k)' = Arrived(n, k) /\ \A u \in Threads : u # t => Served(n, k, u)' = Served(n, k, u)
    BY <1>6, <1>7, <1>8 DEF Arrived, Served
  <1>11. Waiting(n, k)' + Served(n, k, t)' = Waiting(n, k) + Served(n, k, t)
    <2>1. CASE h = Home[k] /\ b = k
      BY <1>1, <1>3, <1>6, <1>7, <1>8, <1>9, <2>1 DEF Waiting, Served
    <2>2. CASE h = Home[k] /\ b # k
      BY <1>1, <1>6, <1>7, <1>8, <1>9, <2>2 DEF Waiting, Served
    <2>3. CASE h # Home[k]
      BY <1>6, <1>7, <1>8, <2>3 DEF Waiting, Served
    <2>4. QED
      BY <2>1, <2>2, <2>3
  <1>12. QED
    BY <1>10, <1>11

\* A waiter that is served becomes the reply to it.
LEMMA ServeWaiterCounts ==
  ASSUME IndInv, Keyed, NEW h \in Nodes, NEW t \in Threads, ServeWaiter(h, t),
         NEW n \in Nodes, NEW k \in Keys, Home[k] # n
  PROVE  /\ \E x \in {0, 1} : /\ Served(n, k, t) = Served(n, k, t)' + x
                              /\ Coming(n, k)' = Coming(n, k) + x
         /\ \A u \in Threads : u # t => Served(n, k, u)' = Served(n, k, u)
         /\ Asked(n, k)' = Asked(n, k)
         /\ UNCHANGED <<pc, aborted>>
  <1>1. /\ TypeOK /\ key[h][t] \in Keys /\ Home[key[h][t]] = h
        /\ todo[h][t] \in Seq(Message) /\ todo[h][t] # <<>>
    <2>1. TypeOK /\ pc[h][t] = "serve" /\ todo[h][t] # <<>>
      BY DEF IndInv, ServeWaiter
    <2>2. key[h][t] \in Keys /\ Home[key[h][t]] = h
      BY <2>1 DEF IndInv, ThreadsHomed
    <2>3. todo[h][t] \in Seq(Message)
      BY <2>1 DEF TypeOK
    <2>4. QED
      BY <2>1, <2>2, <2>3
  <1> DEFINE s == todo[h][t]
  <1>2. PICK m : m = Head(s)
    OBVIOUS
  <1>3. m \in Message /\ m \in Range(s) /\ Tail(s) \in Seq(Message)
    BY <1>1, <1>2, RangeTail
  <1>4. m.kind = "WaitAndGet" /\ m.key = key[h][t] /\ m.from \in Nodes
    BY <1>3 DEF IndInv, TodoHomed, Keyed, Message
  <1>5. PICK r : r = DataMsg("ReplyData", h, key[h][t], kvMap[h][key[h][t]])
    OBVIOUS
  <1>6. /\ r \in Message /\ \A e : IsReply(r, e) <=> e = m.key
    <2>1. kvMap[h][key[h][t]] \in Value \cup {NoValue}
      BY <1>1 DEF TypeOK
    <2>2. r \in Message
      BY <1>1, <1>5, <2>1, MessageTypes DEF MsgKind
    <2>3. QED
      BY <1>4, <1>5, <2>2 DEF IsReply, DataMsg
  <1>7. /\ Send(m.from, r) /\ todo' = [todo EXCEPT ![h][t] = Tail(s)] /\ UNCHANGED <<pc, aborted>>
    <2>1. Head(todo[h][t]).kind = "WaitAndGet"
      BY <1>2, <1>4
    <2>2. QED
      BY <1>1, <1>2, <1>5, <2>1 DEF ServeWaiter
  <1>8. \A a \in Nodes, c \in Threads :
          todo'[a][c] = IF a = h /\ c = t THEN Tail(s) ELSE todo[a][c]
    <2>1. PICK y \in Seq(Message) : y = Tail(s)
      BY <1>3
    <2>2. WaitersBecome(h, t, y)
      BY <1>7, <2>1 DEF WaitersBecome
    <2>3. TypeOK
      BY <1>1
    <2>4. \A a \in Nodes, c \in Threads : todo'[a][c] = IF a = h /\ c = t THEN y ELSE todo[a][c]
      BY ONLY <2>2, <2>3, h \in Nodes, t \in Threads, y \in Seq(Message), OneThread
    <2>5. QED
      BY <2>1, <2>4
  <1>9. ~IsRequest(r, n, k)
    BY <1>5 DEF IsRequest, DataMsg
  <1>10. /\ Asked(n, k)' = Asked(n, k)
         /\ Coming(n, k)' = Coming(n, k) + (IF m.from = n /\ m.key = k THEN 1 ELSE 0)
         /\ Asked(n, k) \in Nat /\ Coming(n, k) \in Nat
    <2>1. PICK a \in Nodes : a = m.from
      BY <1>4
    <2>2. Send(a, r)
      BY <1>7, <2>1
    <2>3. /\ Asked(n, k)' = Asked(n, k) + (IF a = Home[k] /\ IsRequest(r, n, k) THEN 1 ELSE 0)
          /\ Coming(n, k)' = Coming(n, k) + (IF a = n /\ IsReply(r, k) THEN 1 ELSE 0)
      BY <1>1, <1>6, <2>2, SendCounts
    <2>4. Asked(n, k) \in Nat /\ Coming(n, k) \in Nat
      BY <1>1, PlaceTypes
    <2>5. IsReply(r, k) <=> m.key = k
      BY <1>6
    <2>6. QED
      BY <1>9, <2>1, <2>3, <2>4, <2>5
  <1>11. \A u \in Threads : Served(n, k, u)' = Cardinality(RequestsIn(todo'[Home[k]][u], n, k))
    BY DEF Served, RequestsIn
  <1>12. /\ Cardinality(RequestsIn(s, n, k)) =
              Cardinality(RequestsIn(Tail(s), n, k)) + (IF IsRequest(m, n, k) THEN 1 ELSE 0)
         /\ Cardinality(RequestsIn(Tail(s), n, k)) \in Nat
    <2>1. s \in Seq(Message) /\ s # <<>>
      BY <1>1
    <2> HIDE DEF s
    <2>2. Cardinality(RequestsIn(s, n, k)) =
            Cardinality(RequestsIn(Tail(s), n, k)) + (IF IsRequest(m, n, k) THEN 1 ELSE 0)
      BY <1>2, <2>1, PopCounts
    <2>3. Cardinality(RequestsIn(Tail(s), n, k)) \in Nat
      BY <1>3, Counts
    <2>4. QED
      BY <2>2, <2>3
  <1>13. Home[k] \in Nodes /\ (IsRequest(m, n, k) <=> m.from = n /\ m.key = k)
    BY <1>4, KVAssumption DEF IsRequest
  <1>14. \A u \in Threads : u # t => Served(n, k, u)' = Served(n, k, u)
    BY <1>8, <1>11, <1>13 DEF Served
  <1>15. Served(n, k, t) = Served(n, k, t)' + (IF m.from = n /\ m.key = k THEN 1 ELSE 0)
    <2>1. CASE h = Home[k]
      BY <1>8, <1>11, <1>12, <1>13, <2>1 DEF Served
    <2>2. CASE h # Home[k]
      <3>1. m.key # k
        BY <1>1, <1>4, <2>2
      <3>2. Served(n, k, t)' = Served(n, k, t) /\ Served(n, k, t) \in Nat
        BY <1>1, <1>8, <1>11, <1>13, <2>2, PlaceTypes DEF Served
      <3>3. QED
        BY <3>1, <3>2
    <2>3. QED
      BY <2>1, <2>2
  <1>16. PICK x \in {0, 1} : x = IF m.from = n /\ m.key = k THEN 1 ELSE 0
    OBVIOUS
  <1>17. QED
    BY <1>7, <1>10, <1>14, <1>15, <1>16

-----------------------------------------------------------------------------
(* What a step may do to the gets *)

\* The number of messages that should carry on a get of n for k.
Expected(n, k) == IF WaitsFor(n, k) THEN 1 ELSE 0

\* A step moves the messages of a get along and adds none: it takes one away only with the call
\* that it carries on, or with the home of the key.
Balanced(n, k) ==
  /\ Outstanding(n, k)' + Expected(n, k) <= Outstanding(n, k) + Expected(n, k)'
  /\ aborted'[Home[k]] = "no" =>
       Outstanding(n, k)' + Expected(n, k) = Outstanding(n, k) + Expected(n, k)'

\* What the gets of a node, their answers and the waiters under way say of a thread.
Gets   == {"lockCache", "asleep"}
Marked == Gets \cup {"answer", "serve", "aborted"}

\* No thread enters, leaves or changes its part in a get.
Uninvolved ==
  \A a \in Nodes, t \in Threads :
    /\ \/ pc'[a][t] = pc[a][t]
       \/ pc[a][t] \notin Marked /\ pc'[a][t] \notin Marked
       \/ pc[a][t] \in Gets /\ pc'[a][t] \in Gets
    /\ pc[a][t] \in Marked => key'[a][t] = key[a][t]

\* The places are counted after a step, too.
LEMMA PlacesTypedAfter ==
  ASSUME TypeOK', NEW n \in Nodes, NEW k \in Keys
  PROVE  /\ Asked(n, k)' \in Nat /\ Waiting(n, k)' \in Nat /\ Served(n, k, "app")' \in Nat
         /\ Served(n, k, "rt")' \in Nat /\ Coming(n, k)' \in Nat /\ Arrived(n, k)' \in Nat
  <1>1. Home[k] \in Nodes
    BY KVAssumption
  <1>2. \A s \in Seq(Message) :
          Cardinality(RequestsIn(s, n, k)) \in Nat /\ Cardinality(RepliesIn(s, k)) \in Nat
    BY Counts
  <1>3. /\ queue'[Home[k]] \in Seq(Message) /\ queue'[n] \in Seq(Message)
        /\ msgCache'[Home[k]][k] \in Seq(Message) /\ msgCache'[n][k] \in Seq(Message)
        /\ todo'[Home[k]]["app"] \in Seq(Message) /\ todo'[Home[k]]["rt"] \in Seq(Message)
    BY <1>1, LabelTypes DEF TypeOK
  <1>4. /\ Asked(n, k)' = Cardinality(RequestsIn(queue'[Home[k]], n, k))
        /\ Waiting(n, k)' = Cardinality(RequestsIn(msgCache'[Home[k]][k], n, k))
        /\ Served(n, k, "app")' = Cardinality(RequestsIn(todo'[Home[k]]["app"], n, k))
        /\ Served(n, k, "rt")' = Cardinality(RequestsIn(todo'[Home[k]]["rt"], n, k))
        /\ Coming(n, k)' = Cardinality(RepliesIn(queue'[n], k))
        /\ Arrived(n, k)' = Cardinality(RepliesIn(msgCache'[n][k], k))
    BY DEF Asked, Waiting, Served, Coming, Arrived, RequestsIn, RepliesIn
  <1>5. QED
    BY <1>2, <1>3, <1>4

\* Outstanding messages are counted.
LEMMA OutstandingType ==
  ASSUME NEW n \in Nodes, NEW k \in Keys
  PROVE  /\ TypeOK => Outstanding(n, k) \in Nat
         /\ TypeOK' => Outstanding(n, k)' \in Nat
  <1>1. ASSUME NEW a \in Nat, NEW b \in {0, 1}, NEW c \in Nat, NEW d \in Nat, NEW e \in Nat,
               NEW f \in Nat, NEW g \in Nat
        PROVE  a + b + c + d + e + f + g \in Nat
    OBVIOUS
  <1>2. TypeOK => Outstanding(n, k) \in Nat
    <2> SUFFICES ASSUME TypeOK PROVE Outstanding(n, k) \in Nat
      OBVIOUS
    <2>1. (IF Answering(n, k) THEN 1 ELSE 0) \in {0, 1}
      OBVIOUS
    <2>2. QED
      BY <1>1, <2>1, PlaceTypes, LabelTypes
  <1>3. TypeOK' => Outstanding(n, k)' \in Nat
    <2> SUFFICES ASSUME TypeOK' PROVE Outstanding(n, k)' \in Nat
      OBVIOUS
    <2>1. (IF Answering(n, k)' THEN 1 ELSE 0) \in {0, 1}
      OBVIOUS
    <2>2. QED
      BY <1>1, <2>1, PlacesTypedAfter, PlacesAfter
  <1>4. QED
    BY <1>2, <1>3

\* Balanced steps keep one message for each call.
LEMMA BalanceKeeps ==
  ASSUME TypeOK, TypeOK', OneEach,
         \A a \in Nodes : (Leaked(a) => Leaked(a)') /\ (aborted'[a] = "no" => aborted[a] = "no"),
         \A n \in Nodes, k \in Keys :
           Home[k] # n /\ ~Leaked(n)' /\ aborted'[n] = "no" => Balanced(n, k)
  PROVE  OneEach'
  <1> SUFFICES ASSUME NEW n \in Nodes, NEW k \in Keys,
                      Home[k] # n, ~Leaked(n)', aborted'[n] = "no"
               PROVE  /\ Outstanding(n, k)' <= Expected(n, k)'
                      /\ aborted'[Home[k]] = "no" => Outstanding(n, k)' = Expected(n, k)'
    BY DEF OneEach, Expected
  <1>1. ~Leaked(n) /\ aborted[n] = "no" /\ Balanced(n, k) /\ Home[k] \in Nodes
    BY KVAssumption
  <1>2. /\ Outstanding(n, k) <= Expected(n, k)
        /\ aborted[Home[k]] = "no" => Outstanding(n, k) = Expected(n, k)
    BY <1>1 DEF OneEach, Expected
  <1>3. Outstanding(n, k) \in Nat /\ Outstanding(n, k)' \in Nat
    BY OutstandingType
  <1>4. Expected(n, k) \in {0, 1} /\ Expected(n, k)' \in {0, 1}
    BY DEF Expected
  <1>5. aborted'[Home[k]] = "no" => aborted[Home[k]] = "no"
    BY <1>1
  <1>6. QED
    BY <1>1, <1>2, <1>3, <1>4, <1>5 DEF Balanced

\* Who waits and who answers stays the same.
LEMMA UninvolvedSame ==
  ASSUME Uninvolved, NEW n \in Nodes, NEW k \in Keys
  PROVE  /\ Expected(n, k)' = Expected(n, k)
         /\ UNCHANGED request => Answering(n, k)' = Answering(n, k)
  <1>1. Home[k] \in Nodes /\ "app" \in Threads /\ "rt" \in Threads
    BY KVAssumption, LabelTypes
  <1>2. WaitsFor(n, k)' <=> WaitsFor(n, k)
    BY <1>1 DEF Uninvolved, WaitsFor, Gets, Marked
  <1>3. pc'[Home[k]]["rt"] = "answer" <=> pc[Home[k]]["rt"] = "answer"
    BY <1>1 DEF Uninvolved, Gets, Marked
  <1>4. QED
    BY <1>2, <1>3 DEF Expected, Answering

\* The parts of the invariant that are about gets.
GetParts == LockHeld /\ Keyed /\ Failed /\ OneEach

\* A step keeps them, and neither unlocks a lock that was leaked nor revives a node.
Kept ==
  /\ GetParts'
  /\ \A a \in Nodes : (Leaked(a) => Leaked(a)') /\ (aborted'[a] = "no" => aborted[a] = "no")

\* A step that involves no get, and no message of one.
LEMMA UninvolvedKeeps ==
  ASSUME GetInv, TypeOK', Uninvolved, UNCHANGED <<msgCache, lock, todo, request, aborted>>,
         \A n \in Nodes, k \in Keys :
           Home[k] # n => Asked(n, k)' = Asked(n, k) /\ Coming(n, k)' = Coming(n, k)
  PROVE  Kept
  <1>1. \A a \in Nodes, t \in Threads : pc'[a][t] = "serve" <=> pc[a][t] = "serve"
    BY DEF Uninvolved, Marked, Gets
  <1>2. \A a \in Nodes, t \in Threads : pc[a][t] = "aborted" <=> pc'[a][t] = "aborted"
    BY DEF Uninvolved, Marked, Gets
  <1>3. LockHeld'
    BY <1>1, <1>2 DEF GetInv, LockHeld
  <1>4. Keyed'
    <2>1. \A a \in Nodes, t \in Threads : todo[a][t] # <<>> => key'[a][t] = key[a][t]
      BY DEF GetInv, LockHeld, Uninvolved, Marked
    <2>2. \A a \in Nodes, t \in Threads : todo[a][t] = <<>> => Range(todo[a][t]) = {}
      BY RangeEmpty
    <2>3. QED
      BY <2>1, <2>2 DEF GetInv, Keyed
  <1>5. Failed'
    BY <1>2 DEF GetInv, Failed
  <1>6. \A a \in Nodes : Leaked(a) => Leaked(a)'
    BY <1>1, LabelTypes DEF Leaked
  <1>7. OneEach'
    <2>2. ASSUME NEW n \in Nodes, NEW k \in Keys, Home[k] # n
          PROVE  Balanced(n, k)
      <3>1. Outstanding(n, k)' = Outstanding(n, k)
        BY <2>2, PlacesAfter, PlaceTypes, SameCounts, UninvolvedSame, LabelTypes DEF GetInv, IndInv
      <3>2. Outstanding(n, k) \in Nat /\ Expected(n, k) \in {0, 1}
        BY OutstandingType DEF GetInv, IndInv, Expected
      <3>3. QED
        BY <3>1, <3>2, UninvolvedSame DEF Balanced
    <2>3. QED
      BY <1>6, <2>2, BalanceKeeps DEF GetInv, IndInv
  <1>8. QED
    BY <1>3, <1>4, <1>5, <1>6, <1>7 DEF Kept, GetParts

\* A thread that moves on outside any get.
LEMMA GotoUninvolved ==
  ASSUME TypeOK, NEW h \in Nodes, NEW t \in Threads, NEW l \in Labels, Goto(h, t, l),
         \/ pc[h][t] \notin Marked /\ l \notin Marked
         \/ pc[h][t] \in Gets /\ l \in Gets,
         \A a \in Nodes, u \in Threads : pc[a][u] \in Marked => key'[a][u] = key[a][u]
  PROVE  Uninvolved
  <1>1. \A a \in Nodes, u \in Threads : pc'[a][u] = IF a = h /\ u = t THEN l ELSE pc[a][u]
    BY GotoEffect
  <1>2. QED
    BY <1>1 DEF Uninvolved

\* Messages that are neither requests nor replies.
LEMMA OthersSame ==
  ASSUME TypeOK, NEW h \in Nodes, NEW n \in Nodes, NEW k \in Keys,
         \/ \E m \in Message : Send(h, m) /\ m.kind \in {"Put", "Done", "Teardown"}
         \/ \E kinds \in SUBSET {"Put", "Done", "Teardown"} : Receive(h, kinds)
  PROVE  Asked(n, k)' = Asked(n, k) /\ Coming(n, k)' = Coming(n, k)
  <1>1. Asked(n, k) \in Nat /\ Coming(n, k) \in Nat
    BY PlaceTypes
  <1>2. ASSUME NEW m \in Message, Send(h, m), m.kind \in {"Put", "Done", "Teardown"}
        PROVE  Asked(n, k)' = Asked(n, k) /\ Coming(n, k)' = Coming(n, k)
    <2>1. ~IsRequest(m, n, k) /\ ~IsReply(m, k)
      BY <1>2 DEF IsRequest, IsReply
    <2>2. QED
      BY <1>1, <1>2, <2>1, SendCounts
  <1>3. ASSUME NEW kinds \in SUBSET {"Put", "Done", "Teardown"}, Receive(h, kinds)
        PROVE  Asked(n, k)' = Asked(n, k) /\ Coming(n, k)' = Coming(n, k)
    <2>1. ~IsRequest(Head(queue[h]), n, k) /\ ~IsReply(Head(queue[h]), k)
      BY <1>3 DEF IsRequest, IsReply, Receive
    <2>2. QED
      BY <1>1, <1>3, <2>1, ReceiveCounts
  <1>4. QED
    BY <1>2, <1>3

\* Calls of the application, but for a request to another node.
LEMMA AppCallsGets ==
  ASSUME GetInv, TypeOK', NEW h \in Nodes,
         \/ \E k \in Keys : PutRemote(h, k) \/ PutLocal(h, k) \/ GetLocal(h, k) \/ SpinLocal(h, k)
         \/ SendDone(h)
  PROVE  Kept
  <1>1. TypeOK /\ "app" \in Threads
    BY LabelTypes DEF GetInv, IndInv
  <1>2. ASSUME NEW b \in Keys, PutRemote(h, b) PROVE Kept
    <2>1. DataMsg("Put", h, b, NextValue(h)) \in Message
      BY <1>1, <1>2, CallEffect, MessageTypes DEF PutRemote, MsgKind
    <2>2. DataMsg("Put", h, b, NextValue(h)).kind = "Put" /\ Home[b] \in Nodes
      BY KVAssumption DEF DataMsg
    <2>3. \A n \in Nodes, k \in Keys : Asked(n, k)' = Asked(n, k) /\ Coming(n, k)' = Coming(n, k)
      BY <1>1, <1>2, <2>1, <2>2, OthersSame DEF PutRemote
    <2>4. Uninvolved
      BY <1>2 DEF PutRemote, Uninvolved
    <2>5. QED
      BY <1>2, <2>3, <2>4, UninvolvedKeeps DEF PutRemote, store, rtLocal
  <1>3. ASSUME NEW b \in Keys, PutLocal(h, b) PROVE Kept
    <2>1. /\ pc[h]["app"] = "run" /\ Goto(h, "app", "handleCache")
          /\ key' = [key EXCEPT ![h]["app"] = b]
      BY <1>3 DEF PutLocal, Call, StoreValue
    <2>2. \A a \in Nodes, u \in Threads : pc[a][u] \in Marked => key'[a][u] = key[a][u]
      <3>1. \A a \in Nodes, u \in Threads :
              key'[a][u] = IF a = h /\ u = "app" THEN b ELSE key[a][u]
        BY <1>1, <2>1, KeyEffect
      <3>2. QED
        BY <2>1, <3>1 DEF Marked, Gets
    <2>3. Uninvolved
      BY <1>1, <2>1, <2>2, GotoUninvolved, LabelTypes DEF Marked, Gets
    <2>4. QED
      BY <1>3, <2>3, UninvolvedKeeps, SameCounts DEF PutLocal, rtLocal
  <1>4. ASSUME NEW b \in Keys, GetLocal(h, b) PROVE Kept
    <2>1. Uninvolved
      BY <1>4 DEF GetLocal, Uninvolved
    <2>2. QED
      BY <1>4, <2>1, UninvolvedKeeps, SameCounts DEF GetLocal, network, store, rtLocal
  <1>5. ASSUME NEW b \in Keys, SpinLocal(h, b) PROVE Kept
    <2>1. /\ pc[h]["app"] = "run" /\ Goto(h, "app", "spin")
          /\ key' = [key EXCEPT ![h]["app"] = b]
      BY <1>5 DEF SpinLocal, Call
    <2>2. \A a \in Nodes, u \in Threads : pc[a][u] \in Marked => key'[a][u] = key[a][u]
      <3>1. \A a \in Nodes, u \in Threads :
              key'[a][u] = IF a = h /\ u = "app" THEN b ELSE key[a][u]
        BY <1>1, <2>1, KeyEffect
      <3>2. QED
        BY <2>1, <3>1 DEF Marked, Gets
    <2>3. Uninvolved
      BY <1>1, <2>1, <2>2, GotoUninvolved, LabelTypes DEF Marked, Gets
    <2>4. QED
      BY <1>5, <2>3, UninvolvedKeeps, SameCounts DEF SpinLocal, network, store, rtLocal
  <1>6. ASSUME SendDone(h) PROVE Kept
    <2>1. ControlMsg("Done", h) \in Message /\ ControlMsg("Done", h).kind = "Done"
      BY MessageTypes DEF MsgKind, ControlMsg
    <2>2. \A n \in Nodes, k \in Keys : Asked(n, k)' = Asked(n, k) /\ Coming(n, k)' = Coming(n, k)
      BY <1>1, <1>6, <2>1, OthersSame, KVAssumption DEF SendDone
    <2>3. Uninvolved
      BY <1>1, <1>6, GotoUninvolved, LabelTypes DEF SendDone, Marked, Gets
    <2>4. QED
      BY <1>6, <2>2, <2>3, UninvolvedKeeps DEF SendDone, store, rtLocal
  <1>7. QED
    BY <1>2, <1>3, <1>4, <1>5, <1>6

\* Steps inside a call that touch no message of a get.
LEMMA AppMovesGets ==
  ASSUME GetInv, TypeOK', NEW h \in Nodes,
         \/ SpinReads(h) \/ WaitForReply(h) \/ SpuriousWakeup(h) \/ Join(h)
         \/ \E t \in Threads : NoWaiters(h, t)
  PROVE  Kept
  <1>1. TypeOK /\ "app" \in Threads
    BY LabelTypes DEF GetInv, IndInv
  <1>2. ASSUME NEW t \in Threads, NEW l \in Labels, Goto(h, t, l),
               \/ pc[h][t] \notin Marked /\ l \notin Marked
               \/ pc[h][t] \in Gets /\ l \in Gets,
               UNCHANGED <<queue, msgCache, lock, todo, request, aborted, key>>
        PROVE  Kept
    <2>1. Uninvolved
      BY <1>1, <1>2, GotoUninvolved
    <2>2. QED
      BY <1>2, <2>1, UninvolvedKeeps, SameCounts
  <1>3. CASE SpinReads(h)
    BY <1>1, <1>2, <1>3, LabelTypes DEF SpinReads, Marked, Gets, network, store, rtLocal
  <1>4. CASE WaitForReply(h)
    BY <1>1, <1>2, <1>4, LabelTypes DEF WaitForReply, Marked, Gets, network, store, rtLocal
  <1>5. CASE SpuriousWakeup(h)
    BY <1>1, <1>2, <1>5, LabelTypes DEF SpuriousWakeup, Marked, Gets, network, store, rtLocal
  <1>6. CASE Join(h)
    BY <1>1, <1>2, <1>6, LabelTypes DEF Join, Marked, Gets, network, store, rtLocal
  <1>7. ASSUME NEW t \in Threads, NoWaiters(h, t) PROVE Kept
    <2>1. Idle(t) \in Labels /\ Idle(t) \notin Marked
      BY LabelTypes DEF Idle, Marked, Gets
    <2>2. QED
      BY <1>1, <1>2, <1>7, <2>1 DEF NoWaiters, Marked, Gets, network, store, rtLocal
  <1>8. QED
    BY <1>3, <1>4, <1>5, <1>6, <1>7

\* The messages that have nothing to do with gets.
LEMMA ReceiverMovesGets ==
  ASSUME GetInv, TypeOK', NEW h \in Nodes,
         ReceivePut(h) \/ ReceiveDone(h) \/ SendTeardown(h) \/ ReceiveTeardown(h)
  PROVE  Kept
  <1>1. TypeOK /\ "rt" \in Threads
    BY LabelTypes DEF GetInv, IndInv
  <1>2. ASSUME NEW l \in Labels, Goto(h, "rt", l), pc[h]["rt"] \notin Marked, l \notin Marked,
               UNCHANGED <<msgCache, lock, todo, request, aborted, key>>,
               \A n \in Nodes, k \in Keys :
                 Asked(n, k)' = Asked(n, k) /\ Coming(n, k)' = Coming(n, k)
        PROVE  Kept
    <2>1. Uninvolved
      BY <1>1, <1>2, GotoUninvolved
    <2>2. QED
      BY <1>2, <2>1, UninvolvedKeeps
  <1>3. CASE ReceivePut(h)
    <2>1. Receive(h, {"Put"}) /\ pc[h]["rt"] = "receive"
      BY <1>3 DEF ReceivePut, Receive
    <2>2. \A n \in Nodes, k \in Keys : Asked(n, k)' = Asked(n, k) /\ Coming(n, k)' = Coming(n, k)
      BY <1>1, <2>1, OthersSame
    <2>3. PICK m : m = Head(queue[h])
      OBVIOUS
    <2>4. m \in Message /\ m \in Range(queue[h]) /\ m.kind = "Put"
      BY <1>1, <2>1, <2>3, ReceiveEffect DEF Receive
    <2>5. m.key \in Keys /\ Home[m.key] = h
      BY <2>4 DEF GetInv, IndInv, QueueHomed, WellHomed
    <2>6. StoreValue(h, "rt", m.key, m.val) /\ UNCHANGED aborted
      BY <1>3, <2>3, <2>5 DEF ReceivePut
    <2>7. \A a \in Nodes, u \in Threads : pc[a][u] \in Marked => key'[a][u] = key[a][u]
      <3>1. PICK b \in Keys : b = m.key
        BY <2>5
      <3>2. \A a \in Nodes, u \in Threads :
              key'[a][u] = IF a = h /\ u = "rt" THEN b ELSE key[a][u]
        BY <1>1, <2>6, <3>1, KeyEffect DEF StoreValue
      <3>3. QED
        BY <2>1, <3>2 DEF Marked, Gets
    <2>8. Uninvolved
      BY <1>1, <2>1, <2>6, <2>7, GotoUninvolved, LabelTypes DEF StoreValue, Marked, Gets
    <2>9. QED
      BY <1>3, <2>2, <2>6, <2>8, UninvolvedKeeps DEF ReceivePut, rtLocal
  <1>4. CASE ReceiveDone(h)
    <2>1. \A n \in Nodes, k \in Keys : Asked(n, k)' = Asked(n, k) /\ Coming(n, k)' = Coming(n, k)
      BY <1>1, <1>4, OthersSame DEF ReceiveDone
    <2>2. QED
      BY <1>2, <1>4, <2>1, LabelTypes DEF ReceiveDone, Receive, Marked, Gets, store, rtLocal
  <1>5. CASE SendTeardown(h)
    <2>1. ControlMsg("Teardown", h) \in Message /\ ControlMsg("Teardown", h).kind = "Teardown"
      BY MessageTypes DEF MsgKind, ControlMsg
    <2>2. nextTorn \in Nodes
      BY <1>5, KVAssumption DEF SendTeardown, GetInv, IndInv, TeardownLast, TypeOK, Nodes
    <2>3. \A n \in Nodes, k \in Keys : Asked(n, k)' = Asked(n, k) /\ Coming(n, k)' = Coming(n, k)
      BY <1>1, <1>5, <2>1, <2>2, OthersSame DEF SendTeardown
    <2>4. QED
      BY <1>2, <1>5, <2>3, LabelTypes DEF SendTeardown, Marked, Gets, store, rtLocal
  <1>6. CASE ReceiveTeardown(h)
    <2>1. \A n \in Nodes, k \in Keys : Asked(n, k)' = Asked(n, k) /\ Coming(n, k)' = Coming(n, k)
      BY <1>1, <1>6, OthersSame DEF ReceiveTeardown
    <2>2. QED
      BY <1>2, <1>6, <2>1, LabelTypes DEF ReceiveTeardown, Receive, Marked, Gets, store, rtLocal
  <1>7. QED
    BY <1>3, <1>4, <1>5, <1>6

\* Threads that keep their part in the gets keep what the gets wait for and what is answered.
LEMMA RolesSame ==
  ASSUME NEW n \in Nodes, NEW k \in Keys,
         pc'[n]["app"] \in Gets <=> pc[n]["app"] \in Gets,
         pc[n]["app"] \in Gets => key'[n]["app"] = key[n]["app"]
  PROVE  /\ Expected(n, k)' = Expected(n, k)
         /\ UNCHANGED request /\ (pc'[Home[k]]["rt"] = "answer" <=> pc[Home[k]]["rt"] = "answer")
              => Answering(n, k)' = Answering(n, k)
  <1>1. WaitsFor(n, k)' <=> WaitsFor(n, k)
    BY DEF WaitsFor, Gets
  <1>2. QED
    BY <1>1 DEF Expected, Answering

\* What a step leaves as it is when no thread starts or ends serving.
LEMMA PartsKept ==
  ASSUME GetInv, UNCHANGED <<lock, todo, aborted>>,
         \A a \in Nodes, t \in Threads :
           /\ pc'[a][t] = "serve" <=> pc[a][t] = "serve"
           /\ pc[a][t] = "aborted" <=> pc'[a][t] = "aborted"
           /\ pc[a][t] \in {"serve", "aborted"} => key'[a][t] = key[a][t],
         \A a \in Nodes, c \in Keys : \A m \in Range(msgCache'[a][c]) : m.key = c
  PROVE  /\ LockHeld' /\ Keyed' /\ Failed'
         /\ \A a \in Nodes : Leaked(a) => Leaked(a)'
  <1>1. LockHeld'
    BY DEF GetInv, LockHeld
  <1>2. Keyed'
    <2>1. \A a \in Nodes, t \in Threads : todo[a][t] # <<>> => key'[a][t] = key[a][t]
      BY DEF GetInv, LockHeld
    <2>2. \A a \in Nodes, t \in Threads : todo[a][t] = <<>> => Range(todo[a][t]) = {}
      BY RangeEmpty
    <2>3. QED
      BY <2>1, <2>2 DEF GetInv, Keyed
  <1>3. Failed'
    BY DEF GetInv, Failed
  <1>4. \A a \in Nodes : Leaked(a) => Leaked(a)'
    BY LabelTypes DEF Leaked
  <1>5. QED
    BY <1>1, <1>2, <1>3, <1>4

\* A request is a message of the call that sends it.
LEMMA RequestRemoteGets ==
  ASSUME GetInv, TypeOK', NEW h \in Nodes, NEW b \in Keys, NEW block \in BOOLEAN,
         RequestRemote(h, b, block)
  PROVE  Kept
  <1> DEFINE m == DataMsg(IF block THEN "WaitAndGet" ELSE "GetData", h, b, NoValue)
  <1>1. TypeOK /\ "app" \in Threads /\ "rt" \in Threads
    BY LabelTypes DEF GetInv, IndInv
  <1>2. /\ pc[h]["app"] = "run" /\ Send(Home[b], m) /\ Goto(h, "app", "lockCache")
        /\ key' = [key EXCEPT ![h]["app"] = b] /\ Home[b] # h /\ Home[b] \in Nodes
        /\ UNCHANGED <<kvMap, msgCache, lock, todo, request, aborted>>
    BY KVAssumption DEF RequestRemote, Call, store, rtLocal
  <1>3. /\ m \in Message
        /\ \A n, k : ~IsReply(m, k) /\ (IsRequest(m, n, k) <=> n = h /\ k = b)
    BY MessageTypes DEF MsgKind, DataMsg, IsReply, IsRequest
  <1> HIDE DEF m
  <1>4. /\ \A a \in Nodes, u \in Threads :
             pc'[a][u] = IF a = h /\ u = "app" THEN "lockCache" ELSE pc[a][u]
        /\ \A a \in Nodes, u \in Threads :
             key'[a][u] = IF a = h /\ u = "app" THEN b ELSE key[a][u]
    BY <1>1, <1>2, GotoEffect, KeyEffect, LabelTypes
  <1>5. /\ LockHeld' /\ Keyed' /\ Failed'
        /\ \A a \in Nodes : Leaked(a) => Leaked(a)'
    <2>1. \A a \in Nodes, c \in Keys : \A e \in Range(msgCache'[a][c]) : e.key = c
      BY <1>2 DEF GetInv, Keyed
    <2>2. \A a \in Nodes, t \in Threads :
            /\ pc'[a][t] = "serve" <=> pc[a][t] = "serve"
            /\ pc[a][t] = "aborted" <=> pc'[a][t] = "aborted"
            /\ pc[a][t] \in {"serve", "aborted"} => key'[a][t] = key[a][t]
      BY <1>2, <1>4
    <2>3. QED
      BY <1>2, <2>1, <2>2, PartsKept
  <1>6. ASSUME NEW n \in Nodes, NEW k \in Keys, Home[k] # n
        PROVE  Balanced(n, k)
    <2>1. /\ Asked(n, k)' = Asked(n, k) + (IF n = h /\ k = b THEN 1 ELSE 0)
          /\ Coming(n, k)' = Coming(n, k)
      <3>1. /\ Asked(n, k)' = Asked(n, k) + (IF Home[b] = Home[k] /\ IsRequest(m, n, k) THEN 1 ELSE 0)
            /\ Coming(n, k)' = Coming(n, k) + (IF Home[b] = n /\ IsReply(m, k) THEN 1 ELSE 0)
        BY <1>1, <1>2, <1>3, SendCounts
      <3>2. Coming(n, k) \in Nat
        BY <1>1, PlaceTypes
      <3>3. QED
        BY <1>3, <3>1, <3>2
    <2>2. /\ Waiting(n, k)' = Waiting(n, k) /\ Arrived(n, k)' = Arrived(n, k)
          /\ Served(n, k, "app")' = Served(n, k, "app") /\ Served(n, k, "rt")' = Served(n, k, "rt")
      BY <1>1, <1>2, SameCounts
    <2>3. Answering(n, k)' = Answering(n, k)
      <3>1. Home[k] \in Nodes
        BY KVAssumption
      <3>2. QED
        BY <1>1, <1>2, <1>4, <3>1 DEF Answering
    <2>4. Expected(n, k)' = Expected(n, k) + (IF n = h /\ k = b THEN 1 ELSE 0)
      BY <1>1, <1>2, <1>4 DEF Expected, WaitsFor
    <2>5. Outstanding(n, k)' = Outstanding(n, k) + (IF n = h /\ k = b THEN 1 ELSE 0)
      BY <1>1, <2>1, <2>2, <2>3, PlaceTypes, PlacesAfter
    <2>6. Outstanding(n, k) \in Nat /\ Expected(n, k) \in {0, 1}
      BY <1>1, OutstandingType DEF Expected
    <2>7. QED
      BY <2>4, <2>5, <2>6 DEF Balanced
  <1>7. QED
    BY <1>1, <1>2, <1>5, <1>6, BalanceKeeps DEF Kept, GetParts, GetInv

\* A request that is received is the one that is answered.
LEMMA ReceiveRequestGets ==
  ASSUME GetInv, TypeOK', NEW h \in Nodes, ReceiveRequest(h)
  PROVE  Kept
  <1>1. TypeOK /\ "app" \in Threads /\ "rt" \in Threads
    BY LabelTypes DEF GetInv, IndInv
  <1>2. PICK m : m = Head(queue[h])
    OBVIOUS
  <1>3. /\ Receive(h, Requests) /\ pc[h]["rt"] = "receive" /\ Goto(h, "rt", "answer")
        /\ request' = [request EXCEPT ![h] = m] /\ m.kind \in Requests
        /\ UNCHANGED <<kvMap, msgCache, lock, key, todo, aborted>>
    BY <1>2 DEF ReceiveRequest, Receive, Requests, store
  <1>4. m \in Range(queue[h])
    BY <1>1, <1>2, <1>3, ReceiveEffect
  <1>5. m.key \in Keys /\ Home[m.key] = h
    BY <1>3, <1>4 DEF GetInv, IndInv, QueueHomed, WellHomed
  <1>6. \A a \in Nodes, u \in Threads :
          pc'[a][u] = IF a = h /\ u = "rt" THEN "answer" ELSE pc[a][u]
    BY <1>1, <1>3, GotoEffect, LabelTypes
  <1>7. /\ LockHeld' /\ Keyed' /\ Failed'
        /\ \A a \in Nodes : Leaked(a) => Leaked(a)'
    <2>1. \A a \in Nodes, c \in Keys : \A e \in Range(msgCache'[a][c]) : e.key = c
      BY <1>3 DEF GetInv, Keyed
    <2>2. \A a \in Nodes, t \in Threads :
            /\ pc'[a][t] = "serve" <=> pc[a][t] = "serve"
            /\ pc[a][t] = "aborted" <=> pc'[a][t] = "aborted"
            /\ pc[a][t] \in {"serve", "aborted"} => key'[a][t] = key[a][t]
      BY <1>3, <1>6
    <2>3. QED
      BY <1>3, <2>1, <2>2, PartsKept
  <1>8. ASSUME NEW n \in Nodes, NEW k \in Keys, Home[k] # n
        PROVE  Balanced(n, k)
    <2>1. Home[k] \in Nodes
      BY KVAssumption
    <2>2. IsRequest(m, n, k) <=> m.from = n /\ m.key = k
      BY <1>3 DEF IsRequest, Requests
    <2>3. /\ Asked(n, k) = Asked(n, k)' + (IF m.from = n /\ m.key = k THEN 1 ELSE 0)
          /\ Coming(n, k)' = Coming(n, k)
          /\ Asked(n, k)' \in Nat
      <3>1. /\ Asked(n, k) = Asked(n, k)' + (IF h = Home[k] /\ IsRequest(m, n, k) THEN 1 ELSE 0)
            /\ Coming(n, k) = Coming(n, k)' + (IF h = n /\ IsReply(m, k) THEN 1 ELSE 0)
            /\ Asked(n, k)' \in Nat /\ Coming(n, k)' \in Nat
        BY <1>1, <1>2, <1>3, ReceiveCounts
      <3>2. ~IsReply(m, k)
        BY <1>3 DEF IsReply, Requests
      <3>3. QED
        BY <1>5, <2>2, <3>1, <3>2
    <2>4. /\ Waiting(n, k)' = Waiting(n, k) /\ Arrived(n, k)' = Arrived(n, k)
          /\ Served(n, k, "app")' = Served(n, k, "app") /\ Served(n, k, "rt")' = Served(n, k, "rt")
      BY <1>1, <1>3, SameCounts
    <2>5. (IF Answering(n, k)' THEN 1 ELSE 0) =
            (IF Answering(n, k) THEN 1 ELSE 0) + (IF m.from = n /\ m.key = k THEN 1 ELSE 0)
      <3>1. \A a \in Nodes : request'[a] = IF a = h THEN m ELSE request[a]
        BY <1>1, <1>3 DEF TypeOK
      <3>2. CASE Home[k] = h
        BY <1>1, <1>3, <1>6, <2>1, <3>1, <3>2 DEF Answering
      <3>3. CASE Home[k] # h
        BY <1>1, <1>5, <1>6, <2>1, <3>1, <3>3 DEF Answering
      <3>4. QED
        BY <3>2, <3>3
    <2>6. Expected(n, k)' = Expected(n, k)
      BY <1>1, <1>3, <1>6 DEF Expected, WaitsFor
    <2>7. Outstanding(n, k)' = Outstanding(n, k)
      BY <1>1, <2>3, <2>4, <2>5, PlaceTypes, PlacesAfter
    <2>8. Outstanding(n, k) \in Nat /\ Expected(n, k) \in {0, 1}
      BY <1>1, OutstandingType DEF Expected
    <2>9. QED
      BY <2>6, <2>7, <2>8 DEF Balanced
  <1>9. QED
    BY <1>1, <1>7, <1>8, <1>3, BalanceKeeps DEF Kept, GetParts, GetInv

\* An answer is the reply to the request that is answered.
LEMMA AnswerRequestGets ==
  ASSUME GetInv, TypeOK', NEW h \in Nodes, AnswerRequest(h)
  PROVE  Kept
  <1>1. TypeOK /\ "app" \in Threads /\ "rt" \in Threads
    BY LabelTypes DEF GetInv, IndInv
  <1>2. PICK q : q = request[h]
    OBVIOUS
  <1> DEFINE r == DataMsg("ReplyData", h, q.key, found[h])
  <1>3. /\ pc[h]["rt"] = "answer" /\ Send(q.from, r) /\ Goto(h, "rt", "receive")
        /\ UNCHANGED <<kvMap, msgCache, lock, key, todo, request, aborted>>
    BY <1>2 DEF AnswerRequest, store, rtLocal
  <1>4. /\ q \in Message /\ q.from \in Nodes /\ q.key \in Keys /\ Home[q.key] = h
        /\ found[h] \in Value \cup {NoValue}
    <2>1. q \in Message /\ found[h] \in Value \cup {NoValue}
      BY <1>1, <1>2 DEF TypeOK
    <2>2. q.key \in Keys /\ Home[q.key] = h
      BY <1>2, <1>3 DEF GetInv, IndInv, ThreadsHomed
    <2>3. QED
      BY <2>1, <2>2 DEF Message
  <1>5. /\ r \in Message
        /\ \A n, k : ~IsRequest(r, n, k) /\ (IsReply(r, k) <=> k = q.key)
    BY <1>4, MessageTypes DEF MsgKind, DataMsg, IsReply, IsRequest
  <1> HIDE DEF r
  <1>6. \A a \in Nodes, u \in Threads :
          pc'[a][u] = IF a = h /\ u = "rt" THEN "receive" ELSE pc[a][u]
    BY <1>1, <1>3, GotoEffect, LabelTypes
  <1>7. /\ LockHeld' /\ Keyed' /\ Failed'
        /\ \A a \in Nodes : Leaked(a) => Leaked(a)'
    <2>1. \A a \in Nodes, c \in Keys : \A e \in Range(msgCache'[a][c]) : e.key = c
      BY <1>3 DEF GetInv, Keyed
    <2>2. \A a \in Nodes, t \in Threads :
            /\ pc'[a][t] = "serve" <=> pc[a][t] = "serve"
            /\ pc[a][t] = "aborted" <=> pc'[a][t] = "aborted"
            /\ pc[a][t] \in {"serve", "aborted"} => key'[a][t] = key[a][t]
      BY <1>3, <1>6
    <2>3. QED
      BY <1>3, <2>1, <2>2, PartsKept
  <1>8. ASSUME NEW n \in Nodes, NEW k \in Keys, Home[k] # n
        PROVE  Balanced(n, k)
    <2>1. Home[k] \in Nodes
      BY KVAssumption
    <2>2. /\ Asked(n, k)' = Asked(n, k)
          /\ Coming(n, k)' = Coming(n, k) + (IF q.from = n /\ q.key = k THEN 1 ELSE 0)
      <3>1. PICK f \in Nodes : f = q.from
        BY <1>4
      <3>2. Send(f, r)
        BY <1>3, <3>1
      <3>3. /\ Asked(n, k)' = Asked(n, k) + (IF f = Home[k] /\ IsRequest(r, n, k) THEN 1 ELSE 0)
            /\ Coming(n, k)' = Coming(n, k) + (IF f = n /\ IsReply(r, k) THEN 1 ELSE 0)
        BY <1>1, <1>5, <3>2, SendCounts
      <3>4. Asked(n, k) \in Nat
        BY <1>1, PlaceTypes
      <3>5. QED
        BY <1>5, <3>1, <3>3, <3>4
    <2>3. /\ Waiting(n, k)' = Waiting(n, k) /\ Arrived(n, k)' = Arrived(n, k)
          /\ Served(n, k, "app")' = Served(n, k, "app") /\ Served(n, k, "rt")' = Served(n, k, "rt")
      BY <1>1, <1>3, SameCounts
    <2>4. (IF Answering(n, k) THEN 1 ELSE 0) =
            (IF Answering(n, k)' THEN 1 ELSE 0) + (IF q.from = n /\ q.key = k THEN 1 ELSE 0)
      <3>1. CASE Home[k] = h
        BY <1>1, <1>2, <1>3, <1>6, <2>1, <3>1 DEF Answering
      <3>2. CASE Home[k] # h
        BY <1>1, <1>3, <1>4, <1>6, <2>1, <3>2 DEF Answering
      <3>3. QED
        BY <3>1, <3>2
    <2>5. Expected(n, k)' = Expected(n, k)
      BY <1>1, <1>3, <1>6 DEF Expected, WaitsFor
    <2>6. Outstanding(n, k)' = Outstanding(n, k)
      BY <1>1, <2>2, <2>3, <2>4, PlaceTypes, PlacesAfter
    <2>7. Outstanding(n, k) \in Nat /\ Expected(n, k) \in {0, 1}
      BY <1>1, OutstandingType DEF Expected
    <2>8. QED
      BY <2>5, <2>6, <2>7 DEF Balanced
  <1>9. QED
    BY <1>1, <1>7, <1>8, <1>3, BalanceKeeps DEF Kept, GetParts, GetInv

\* A request that cannot be answered waits in the cache.
LEMMA CacheRequestGets ==
  ASSUME GetInv, TypeOK', NEW h \in Nodes, CacheRequest(h)
  PROVE  Kept
  <1>1. TypeOK /\ "app" \in Threads /\ "rt" \in Threads
    BY LabelTypes DEF GetInv, IndInv
  <1>2. PICK q : q = request[h]
    OBVIOUS
  <1>3. /\ pc[h]["rt"] = "answer" /\ AddToCache(h, q.key, q) /\ q.kind = "WaitAndGet"
        /\ UNCHANGED <<queue, kvMap, lock, key, todo, request, aborted>>
    BY <1>2 DEF CacheRequest, network, rtLocal
  <1>4. /\ q \in Message /\ q.key \in Keys /\ Home[q.key] = h
    <2>1. q \in Message
      BY <1>1, <1>2 DEF TypeOK
    <2>2. q.key \in Keys /\ Home[q.key] = h
      BY <1>2, <1>3 DEF GetInv, IndInv, ThreadsHomed
    <2>3. QED
      BY <2>1, <2>2
  <1>5. PICK b \in Keys : b = q.key
    BY <1>4
  <1>6. AddToCache(h, b, q)
    BY <1>3, <1>5
  <1>7. \A a \in Nodes, u \in Threads :
          pc'[a][u] = IF a = h /\ u = "rt" THEN "receive"
                      ELSE IF a = h /\ u = "app" /\ pc[a][u] = "asleep" THEN "lockCache"
                      ELSE pc[a][u]
    BY <1>1, <1>4, <1>6, AddToCacheEffect
  <1>8. /\ LockHeld' /\ Keyed' /\ Failed'
        /\ \A a \in Nodes : Leaked(a) => Leaked(a)'
    <2>1. \A a \in Nodes, c \in Keys : \A e \in Range(msgCache'[a][c]) : e.key = c
      <3>1. \A a \in Nodes, c \in Keys : \A e \in Range(msgCache'[a][c]) :
              e \in Range(msgCache[a][c]) \/ (a = h /\ c = b /\ e = q)
        BY <1>1, <1>4, <1>6, AddToCacheGains
      <3>2. QED
        BY <1>5, <3>1 DEF GetInv, Keyed
    <2>2. \A a \in Nodes, t \in Threads :
            /\ pc'[a][t] = "serve" <=> pc[a][t] = "serve"
            /\ pc[a][t] = "aborted" <=> pc'[a][t] = "aborted"
            /\ pc[a][t] \in {"serve", "aborted"} => key'[a][t] = key[a][t]
      BY <1>3, <1>7
    <2>3. QED
      BY <1>3, <2>1, <2>2, PartsKept
  <1>9. ASSUME NEW n \in Nodes, NEW k \in Keys, Home[k] # n
        PROVE  Balanced(n, k)
    <2>1. Home[k] \in Nodes
      BY KVAssumption
    <2>2. (IsRequest(q, n, k) <=> q.from = n /\ q.key = k) /\ ~IsReply(q, k)
      BY <1>3 DEF IsRequest, IsReply
    <2>3. /\ Waiting(n, k)' = Waiting(n, k) + (IF q.from = n /\ q.key = k THEN 1 ELSE 0)
          /\ Arrived(n, k)' = Arrived(n, k)
      <3>1. /\ Waiting(n, k)' =
                 Waiting(n, k) + (IF h = Home[k] /\ b = k /\ IsRequest(q, n, k) THEN 1 ELSE 0)
            /\ Arrived(n, k)' = Arrived(n, k) + (IF h = n /\ b = k /\ IsReply(q, k) THEN 1 ELSE 0)
        BY <1>1, <1>4, <1>6, CacheCounts
      <3>2. Arrived(n, k) \in Nat
        BY <1>1, PlaceTypes
      <3>3. QED
        BY <1>4, <1>5, <2>2, <3>1, <3>2
    <2>4. /\ Asked(n, k)' = Asked(n, k) /\ Coming(n, k)' = Coming(n, k)
          /\ Served(n, k, "app")' = Served(n, k, "app") /\ Served(n, k, "rt")' = Served(n, k, "rt")
      BY <1>1, <1>3, SameCounts
    <2>5. (IF Answering(n, k) THEN 1 ELSE 0) =
            (IF Answering(n, k)' THEN 1 ELSE 0) + (IF q.from = n /\ q.key = k THEN 1 ELSE 0)
      <3>1. CASE Home[k] = h
        BY <1>1, <1>2, <1>3, <1>7, <2>1, <3>1 DEF Answering
      <3>2. CASE Home[k] # h
        BY <1>1, <1>3, <1>4, <1>7, <2>1, <3>2 DEF Answering
      <3>3. QED
        BY <3>1, <3>2
    <2>6. Expected(n, k)' = Expected(n, k)
      BY <1>1, <1>3, <1>7 DEF Expected, WaitsFor
    <2>7. Outstanding(n, k)' = Outstanding(n, k)
      BY <1>1, <2>3, <2>4, <2>5, PlaceTypes, PlacesAfter
    <2>8. Outstanding(n, k) \in Nat /\ Expected(n, k) \in {0, 1}
      BY <1>1, OutstandingType DEF Expected
    <2>9. QED
      BY <2>6, <2>7, <2>8 DEF Balanced
  <1>10. QED
    BY <1>1, <1>8, <1>9, <1>3, BalanceKeeps DEF Kept, GetParts, GetInv

\* A reply that is received is cached for the application thread.
LEMMA ReceiveReplyGets ==
  ASSUME GetInv, TypeOK', NEW h \in Nodes, ReceiveReply(h)
  PROVE  Kept
  <1>1. TypeOK /\ "app" \in Threads /\ "rt" \in Threads
    BY LabelTypes DEF GetInv, IndInv
  <1>2. PICK m : m = Head(queue[h])
    OBVIOUS
  <1>3. /\ Receive(h, {"ReplyData"}) /\ pc[h]["rt"] = "receive" /\ m.kind = "ReplyData"
        /\ AddToCache(h, m.key, m)
        /\ UNCHANGED <<kvMap, lock, key, todo, request, aborted>>
    BY <1>2 DEF ReceiveReply, Receive, rtLocal
  <1>4. /\ m \in Message /\ m \in Range(queue[h])
    BY <1>1, <1>2, <1>3, ReceiveEffect
  <1>5. m.key \in Keys /\ Home[m.key] # h
    BY <1>3, <1>4 DEF GetInv, IndInv, QueueHomed, WellHomed
  <1>6. PICK b \in Keys : b = m.key
    BY <1>5
  <1>7. AddToCache(h, b, m)
    BY <1>3, <1>6
  <1>8. \A a \in Nodes, u \in Threads :
          pc'[a][u] = IF a = h /\ u = "rt" THEN "receive"
                      ELSE IF a = h /\ u = "app" /\ pc[a][u] = "asleep" THEN "lockCache"
                      ELSE pc[a][u]
    BY <1>1, <1>4, <1>7, AddToCacheEffect
  <1>9. /\ LockHeld' /\ Keyed' /\ Failed'
        /\ \A a \in Nodes : Leaked(a) => Leaked(a)'
    <2>1. \A a \in Nodes, c \in Keys : \A e \in Range(msgCache'[a][c]) : e.key = c
      <3>1. \A a \in Nodes, c \in Keys : \A e \in Range(msgCache'[a][c]) :
              e \in Range(msgCache[a][c]) \/ (a = h /\ c = b /\ e = m)
        BY <1>1, <1>4, <1>7, AddToCacheGains
      <3>2. QED
        BY <1>6, <3>1 DEF GetInv, Keyed
    <2>2. \A a \in Nodes, t \in Threads :
            /\ pc'[a][t] = "serve" <=> pc[a][t] = "serve"
            /\ pc[a][t] = "aborted" <=> pc'[a][t] = "aborted"
            /\ pc[a][t] \in {"serve", "aborted"} => key'[a][t] = key[a][t]
      BY <1>3, <1>8
    <2>3. QED
      BY <1>3, <2>1, <2>2, PartsKept
  <1>10. ASSUME NEW n \in Nodes, NEW k \in Keys, Home[k] # n
         PROVE  Balanced(n, k)
    <2>1. Home[k] \in Nodes
      BY KVAssumption
    <2>2. ~IsRequest(m, n, k) /\ (IsReply(m, k) <=> m.key = k)
      BY <1>3 DEF IsRequest, IsReply
    <2>3. /\ Asked(n, k)' = Asked(n, k)
          /\ Coming(n, k) = Coming(n, k)' + (IF h = n /\ m.key = k THEN 1 ELSE 0)
          /\ Coming(n, k)' \in Nat
      <3>1. /\ Asked(n, k) = Asked(n, k)' + (IF h = Home[k] /\ IsRequest(m, n, k) THEN 1 ELSE 0)
            /\ Coming(n, k) = Coming(n, k)' + (IF h = n /\ IsReply(m, k) THEN 1 ELSE 0)
            /\ Asked(n, k)' \in Nat /\ Coming(n, k)' \in Nat
        BY <1>1, <1>2, <1>3, ReceiveCounts
      <3>2. QED
        BY <2>2, <3>1
    <2>4. /\ Waiting(n, k)' = Waiting(n, k)
          /\ Arrived(n, k)' = Arrived(n, k) + (IF h = n /\ m.key = k THEN 1 ELSE 0)
      <3>1. /\ Waiting(n, k)' =
                 Waiting(n, k) + (IF h = Home[k] /\ b = k /\ IsRequest(m, n, k) THEN 1 ELSE 0)
            /\ Arrived(n, k)' = Arrived(n, k) + (IF h = n /\ b = k /\ IsReply(m, k) THEN 1 ELSE 0)
        BY <1>1, <1>4, <1>7, CacheCounts
      <3>2. Waiting(n, k) \in Nat
        BY <1>1, PlaceTypes
      <3>3. QED
        BY <1>6, <2>2, <3>1, <3>2
    <2>5. Served(n, k, "app")' = Served(n, k, "app") /\ Served(n, k, "rt")' = Served(n, k, "rt")
      BY <1>1, <1>3, SameCounts
    <2>6. Answering(n, k)' = Answering(n, k)
      BY <1>1, <1>3, <1>8, <2>1 DEF Answering
    <2>7. Expected(n, k)' = Expected(n, k)
      BY <1>1, <1>3, <1>8 DEF Expected, WaitsFor
    <2>8. Outstanding(n, k)' = Outstanding(n, k)
      <3>1. Coming(n, k)' + Arrived(n, k)' = Coming(n, k) + Arrived(n, k)
        BY <1>1, <2>3, <2>4, PlaceTypes
      <3>2. /\ Waiting(n, k) \in Nat /\ Served(n, k, "app") \in Nat /\ Served(n, k, "rt") \in Nat
            /\ Asked(n, k) \in Nat /\ Coming(n, k) \in Nat /\ Arrived(n, k) \in Nat
            /\ Arrived(n, k)' \in Nat
        BY <1>1, <2>4, PlaceTypes
      <3>3. (IF Answering(n, k)' THEN 1 ELSE 0) = (IF Answering(n, k) THEN 1 ELSE 0)
        BY <2>6
      <3>4. (IF Answering(n, k) THEN 1 ELSE 0) \in Nat
        OBVIOUS
      <3>5. QED
        BY <1>1, <2>3, <2>4, <2>5, <3>1, <3>2, <3>3, <3>4, PlaceTypes, PlacesAfter
    <2>9. Outstanding(n, k) \in Nat /\ Expected(n, k) \in {0, 1}
      BY <1>1, OutstandingType DEF Expected
    <2>10. QED
      BY <2>7, <2>8, <2>9 DEF Balanced
  <1>11. QED
    BY <1>1, <1>9, <1>10, <1>3, BalanceKeeps DEF Kept, GetParts, GetInv

\* A home that fails over a missing key loses the request that it was answering.
LEMMA ReplyNullGets ==
  ASSUME GetInv, TypeOK', NEW h \in Nodes, ReplyNull(h)
  PROVE  Kept
  <1>1. TypeOK /\ "app" \in Threads /\ "rt" \in Threads
    BY LabelTypes DEF GetInv, IndInv
  <1>2. /\ Abort(h, "nullReply")
        /\ UNCHANGED <<queue, kvMap, msgCache, lock, key, todo, request>>
    BY DEF ReplyNull, network, store, rtLocal
  <1>3. /\ \A a \in Nodes, u \in Threads : pc'[a][u] = IF a = h THEN "aborted" ELSE pc[a][u]
        /\ \A a \in Nodes : aborted'[a] = IF a = h THEN "nullReply" ELSE aborted[a]
    <2>1. "nullReply" \in Failures
      BY DEF Failures
    <2>2. QED
      BY <1>1, <1>2, <2>1, AbortEffect
  <1>4. LockHeld' /\ Keyed' /\ Failed'
    BY <1>2, <1>3 DEF GetInv, LockHeld, Keyed, Failed
  <1>5. \A a \in Nodes : Leaked(a) => Leaked(a)'
    BY <1>1, <1>2, <1>3 DEF Leaked
  <1>6. ASSUME NEW n \in Nodes, NEW k \in Keys, Home[k] # n, aborted'[n] = "no"
        PROVE  Balanced(n, k)
    <2>1. Home[k] \in Nodes /\ n # h
      BY <1>3, <1>6, KVAssumption
    <2>2. Expected(n, k)' = Expected(n, k)
      BY <1>1, <1>2, <1>3, <2>1 DEF Expected, WaitsFor
    <2>3. /\ (IF Answering(n, k)' THEN 1 ELSE 0) <= (IF Answering(n, k) THEN 1 ELSE 0)
          /\ Home[k] # h => Answering(n, k)' = Answering(n, k)
      BY <1>1, <1>2, <1>3, <2>1 DEF Answering
    <2>4. /\ Asked(n, k)' = Asked(n, k) /\ Coming(n, k)' = Coming(n, k)
          /\ Waiting(n, k)' = Waiting(n, k) /\ Arrived(n, k)' = Arrived(n, k)
          /\ Served(n, k, "app")' = Served(n, k, "app") /\ Served(n, k, "rt")' = Served(n, k, "rt")
      BY <1>1, <1>2, SameCounts
    <2>5. /\ Outstanding(n, k)' <= Outstanding(n, k)
          /\ Home[k] # h => Outstanding(n, k)' = Outstanding(n, k)
      BY <1>1, <2>3, <2>4, PlaceTypes, PlacesAfter
    <2>6. /\ Outstanding(n, k) \in Nat /\ Outstanding(n, k)' \in Nat /\ Expected(n, k) \in {0, 1}
      BY <1>1, OutstandingType DEF Expected
    <2>7. aborted'[Home[k]] = "no" => Home[k] # h
      BY <1>3, <2>1
    <2>8. QED
      BY <2>2, <2>5, <2>6, <2>7 DEF Balanced
  <1>7. \A a \in Nodes : aborted'[a] = "no" => aborted[a] = "no"
    BY <1>3
  <1>8. QED
    BY <1>1, <1>4, <1>5, <1>6, <1>7, BalanceKeeps DEF Kept, GetParts, GetInv

\* A thread that put a key serves the requests that wait for it.
LEMMA TakeWaitersGets ==
  ASSUME GetInv, TypeOK', NEW h \in Nodes, NEW t \in Threads, TakeWaiters(h, t)
  PROVE  Kept
  <1>1. TypeOK /\ IndInv /\ LockHeld /\ Keyed /\ "app" \in Threads /\ "rt" \in Threads
    BY LabelTypes DEF GetInv, IndInv
  <1>2. /\ pc[h][t] = "handleCache" /\ Goto(h, t, "serve") /\ lock[h] = "free"
        /\ lock' = [lock EXCEPT ![h] = t] /\ key[h][t] \in Keys
        /\ UNCHANGED <<queue, kvMap, key, request, aborted>>
    BY <1>1 DEF TakeWaiters, network, rtLocal, IndInv, ThreadsHomed
  <1>3. /\ \A a \in Nodes, u \in Threads :
             pc'[a][u] = IF a = h /\ u = t THEN "serve" ELSE pc[a][u]
        /\ \A a \in Nodes : lock'[a] = IF a = h THEN t ELSE lock[a]
    <2>1. \A a \in Nodes, u \in Threads :
            pc'[a][u] = IF a = h /\ u = t THEN "serve" ELSE pc[a][u]
      BY <1>1, <1>2, GotoEffect DEF Labels, AppLabels
    <2>2. \A a \in Nodes : lock'[a] = IF a = h THEN t ELSE lock[a]
      BY <1>1, <1>2 DEF TypeOK
    <2>3. QED
      BY <2>1, <2>2
  <1>4. PICK b \in Keys : b = key[h][t]
    BY <1>2
  <1>5. PICK arr \in Seq(Message) : arr = msgCache[h][b]
    <2>1. msgCache[h][b] \in Seq(Message)
      BY <1>1 DEF TypeOK
    <2>2. QED
      BY <2>1
  <1>6. \A a \in Nodes, u \in Threads : todo'[a][u] = IF a = h /\ u = t THEN arr ELSE todo[a][u]
    <2>1. WaitersBecome(h, t, arr) /\ TypeOK
      BY <1>1, <1>4, <1>5 DEF TakeWaiters, WaitersBecome
    <2>2. QED
      BY ONLY <2>1, h \in Nodes, t \in Threads, arr \in Seq(Message), OneThread
  <1>7. LockHeld'
    BY <1>1, <1>2, <1>3, <1>6 DEF LockHeld, Threads
  <1>8. Keyed'
    <2>1. RemoveArray(h, b)
      BY <1>4 DEF TakeWaiters
    <2>2. \A a \in Nodes, c \in Keys : Range(msgCache'[a][c]) \subseteq Range(msgCache[a][c])
      BY <1>1, <2>1, RemoveArrayEffect
    <2>3. \A m \in Range(arr) : m.key = key[h][t]
      BY <1>1, <1>4, <1>5 DEF Keyed
    <2>4. \A a \in Nodes, c \in Keys : \A m \in Range(msgCache'[a][c]) : m.key = c
      BY <1>1, <2>2 DEF Keyed
    <2>5. \A a \in Nodes, u \in Threads : \A m \in Range(todo'[a][u]) : m.key = key[a][u]
      BY <1>1, <1>6, <2>3 DEF Keyed
    <2>6. QED
      BY <1>2, <2>4, <2>5 DEF Keyed
  <1>9. Failed'
    BY <1>2, <1>3 DEF GetInv, Failed
  <1>10. \A a \in Nodes : Leaked(a) => Leaked(a)'
    BY <1>1, <1>2, <1>3 DEF Leaked, Threads
  <1>11. ASSUME NEW n \in Nodes, NEW k \in Keys, Home[k] # n
         PROVE  Balanced(n, k)
    <2>1. Home[k] \in Nodes
      BY KVAssumption
    <2>2. /\ Waiting(n, k)' + Served(n, k, t)' = Waiting(n, k) + Served(n, k, t)
          /\ \A u \in Threads : u # t => Served(n, k, u)' = Served(n, k, u)
          /\ Arrived(n, k)' = Arrived(n, k)
      BY <1>1, <1>11, TakeWaitersCounts
    <2>3. Asked(n, k)' = Asked(n, k) /\ Coming(n, k)' = Coming(n, k)
      BY <1>2, SameCounts
    <2>4. Answering(n, k)' = Answering(n, k) /\ Expected(n, k)' = Expected(n, k)
      BY <1>1, <1>2, <1>3, <2>1 DEF Answering, Expected, WaitsFor
    <2>5. Outstanding(n, k)' = Outstanding(n, k)
      <3>1. Waiting(n, k)' + Served(n, k, "app")' + Served(n, k, "rt")' =
              Waiting(n, k) + Served(n, k, "app") + Served(n, k, "rt")
        <4>1. /\ Waiting(n, k) \in Nat /\ Served(n, k, "app") \in Nat /\ Served(n, k, "rt") \in Nat
          BY <1>1, PlaceTypes
        <4>2. /\ Waiting(n, k)' \in Nat /\ Served(n, k, "app")' \in Nat
              /\ Served(n, k, "rt")' \in Nat
          BY PlacesTypedAfter
        <4>3. CASE t = "app"
          BY <1>1, <2>2, <4>1, <4>2, <4>3
        <4>4. CASE t = "rt"
          BY <1>1, <2>2, <4>1, <4>2, <4>4
        <4>5. QED
          BY <4>3, <4>4 DEF Threads
      <3>2. (IF Answering(n, k)' THEN 1 ELSE 0) = (IF Answering(n, k) THEN 1 ELSE 0)
        BY <2>4
      <3>3. (IF Answering(n, k) THEN 1 ELSE 0) \in Nat
        OBVIOUS
      <3>5. /\ Waiting(n, k) \in Nat /\ Served(n, k, "app") \in Nat /\ Served(n, k, "rt") \in Nat
            /\ Asked(n, k) \in Nat /\ Coming(n, k) \in Nat /\ Arrived(n, k) \in Nat
        BY <1>1, PlaceTypes
      <3>6. /\ Waiting(n, k)' \in Nat /\ Served(n, k, "app")' \in Nat
            /\ Served(n, k, "rt")' \in Nat
        BY PlacesTypedAfter
      <3>7. Asked(n, k) + (IF Answering(n, k) THEN 1 ELSE 0) + Waiting(n, k)'
              + Served(n, k, "app")' + Served(n, k, "rt")' + Coming(n, k) + Arrived(n, k) =
            Asked(n, k) + (IF Answering(n, k) THEN 1 ELSE 0) + Waiting(n, k)
              + Served(n, k, "app") + Served(n, k, "rt") + Coming(n, k) + Arrived(n, k)
        <4>1. PICK p \in Nat, q \in Nat, u \in Nat, v \in Nat :
                /\ p = Asked(n, k) /\ q = (IF Answering(n, k) THEN 1 ELSE 0)
                /\ u = Coming(n, k) /\ v = Arrived(n, k)
          BY <3>3, <3>5
        <4>2. PICK x \in Nat, y \in Nat, z \in Nat :
                x = Waiting(n, k) /\ y = Served(n, k, "app") /\ z = Served(n, k, "rt")
          BY <3>5
        <4>3. PICK x1 \in Nat, y1 \in Nat, z1 \in Nat :
                x1 = Waiting(n, k)' /\ y1 = Served(n, k, "app")' /\ z1 = Served(n, k, "rt")'
          BY <3>6
        <4>4. x1 + y1 + z1 = x + y + z
          BY <3>1, <4>2, <4>3
        <4>5. p + q + x1 + y1 + z1 + u + v = p + q + x + y + z + u + v
          BY ONLY <4>4, p \in Nat, q \in Nat, u \in Nat, v \in Nat, x \in Nat, y \in Nat,
                  z \in Nat, x1 \in Nat, y1 \in Nat, z1 \in Nat
        <4>6. QED
          BY <4>1, <4>2, <4>3, <4>5
      <3>8. QED
        BY <1>1, <2>2, <2>3, <3>2, <3>7, PlaceTypes, PlacesAfter
    <2>6. Outstanding(n, k) \in Nat /\ Expected(n, k) \in {0, 1}
      BY <1>1, OutstandingType DEF Expected
    <2>7. QED
      BY <2>4, <2>5, <2>6 DEF Balanced
  <1>12. QED
    BY <1>1, <1>2, <1>7, <1>8, <1>9, <1>10, <1>11, BalanceKeeps DEF Kept, GetParts, GetInv

\* A waiter that is served becomes the reply that carries its get on.
LEMMA ServeWaiterGets ==
  ASSUME GetInv, TypeOK', NEW h \in Nodes, NEW t \in Threads, ServeWaiter(h, t)
  PROVE  Kept
  <1>1. TypeOK /\ IndInv /\ Keyed /\ "app" \in Threads /\ "rt" \in Threads
    BY LabelTypes DEF GetInv, IndInv
  <1>2. UNCHANGED <<kvMap, msgCache, lock, key, request>>
    BY DEF ServeWaiter, store, rtLocal
  <1>3. /\ todo[h][t] \in Seq(Message) /\ todo[h][t] # <<>> /\ pc[h][t] = "serve"
    BY <1>1 DEF TypeOK, ServeWaiter
  <1>4. Head(todo[h][t]).kind = "WaitAndGet"
    BY <1>1, <1>3, RangeTail DEF IndInv, TodoHomed
  <1>5. UNCHANGED <<pc, aborted>> /\ todo' = [todo EXCEPT ![h][t] = Tail(todo[h][t])]
    BY <1>4 DEF ServeWaiter
  <1>6. PICK y \in Seq(Message) : y = Tail(todo[h][t]) /\ Range(y) \subseteq Range(todo[h][t])
    BY <1>3, RangeTail
  <1>7. \A a \in Nodes, u \in Threads : todo'[a][u] = IF a = h /\ u = t THEN y ELSE todo[a][u]
    <2>1. WaitersBecome(h, t, y) /\ TypeOK
      BY <1>1, <1>5, <1>6 DEF WaitersBecome
    <2>2. QED
      BY ONLY <2>1, h \in Nodes, t \in Threads, y \in Seq(Message), OneThread
  <1>8. LockHeld'
    BY <1>2, <1>3, <1>5, <1>7 DEF GetInv, LockHeld
  <1>9. Keyed'
    <2>1. \A a \in Nodes, u \in Threads : Range(todo'[a][u]) \subseteq Range(todo[a][u])
      BY <1>6, <1>7
    <2>2. QED
      BY <1>1, <1>2, <2>1 DEF Keyed
  <1>10. Failed' /\ \A a \in Nodes : Leaked(a) => Leaked(a)'
    BY <1>2, <1>5 DEF GetInv, Failed, Leaked
  <1>11. ASSUME NEW n \in Nodes, NEW k \in Keys, Home[k] # n
         PROVE  Balanced(n, k)
    <2>1. /\ \E x \in {0, 1} : /\ Served(n, k, t) = Served(n, k, t)' + x
                               /\ Coming(n, k)' = Coming(n, k) + x
          /\ \A u \in Threads : u # t => Served(n, k, u)' = Served(n, k, u)
          /\ Asked(n, k)' = Asked(n, k)
      BY <1>1, <1>11, ServeWaiterCounts
    <2>2. PICK x \in {0, 1} : /\ Served(n, k, t) = Served(n, k, t)' + x
                              /\ Coming(n, k)' = Coming(n, k) + x
      BY <2>1
    <2>3. Waiting(n, k)' = Waiting(n, k) /\ Arrived(n, k)' = Arrived(n, k)
      BY <1>2, SameCounts
    <2>4. Answering(n, k)' = Answering(n, k) /\ Expected(n, k)' = Expected(n, k)
      BY <1>2, <1>5 DEF Answering, Expected, WaitsFor
    <2>5. Outstanding(n, k)' = Outstanding(n, k)
      <3>1. /\ Served(n, k, "app")' \in Nat /\ Served(n, k, "rt")' \in Nat
            /\ Served(n, k, "app") \in Nat /\ Served(n, k, "rt") \in Nat
            /\ Asked(n, k) \in Nat /\ Waiting(n, k) \in Nat
            /\ Coming(n, k) \in Nat /\ Arrived(n, k) \in Nat
        BY <1>1, PlaceTypes, PlacesTypedAfter
      <3>2. PICK c \in Nat, d \in Nat, c1 \in Nat, d1 \in Nat :
              /\ c = Served(n, k, "app") /\ d = Served(n, k, "rt")
              /\ c1 = Served(n, k, "app")' /\ d1 = Served(n, k, "rt")'
        BY <3>1
      <3>3. PICK a \in Nat, e \in Nat, f \in Nat, g \in Nat, b \in Nat :
              /\ a = Asked(n, k) /\ e = Waiting(n, k) /\ f = Coming(n, k) /\ g = Arrived(n, k)
              /\ b = IF Answering(n, k) THEN 1 ELSE 0
        BY <3>1
      <3>4. Outstanding(n, k) = a + b + e + c + d + f + g
        BY <1>1, <3>2, <3>3, PlaceTypes
      <3>5. Outstanding(n, k)' = a + b + e + c1 + d1 + (f + x) + g
        BY <2>1, <2>2, <2>3, <2>4, <3>2, <3>3, PlacesAfter
      <3>6. c + d = (c1 + d1) + x
        <4>1. CASE t = "app"
          <5>1. c = c1 + x
            BY <2>2, <3>2, <4>1
          <5>2. d = d1
            BY <1>1, <2>1, <3>2, <4>1
          <5>3. QED
            BY <5>1, <5>2
        <4>2. CASE t = "rt"
          <5>1. d = d1 + x
            BY <2>2, <3>2, <4>2
          <5>2. c = c1
            BY <1>1, <2>1, <3>2, <4>2
          <5>3. QED
            BY <5>1, <5>2
        <4>3. QED
          BY <4>1, <4>2 DEF Threads
      <3>7. a + b + e + c1 + d1 + (f + x) + g = a + b + e + c + d + f + g
        BY <3>6
      <3>8. QED
        BY <3>4, <3>5, <3>7
    <2>6. Outstanding(n, k) \in Nat /\ Expected(n, k) \in {0, 1}
      BY <1>1, OutstandingType DEF Expected
    <2>7. QED
      BY <2>4, <2>5, <2>6 DEF Balanced
  <1>12. QED
    BY <1>1, <1>5, <1>8, <1>9, <1>10, <1>11, BalanceKeeps DEF Kept, GetParts, GetInv

\* A thread that has served all waiters gives the lock back.
LEMMA ServedAllGets ==
  ASSUME GetInv, TypeOK', NEW h \in Nodes, NEW t \in Threads, ServedAll(h, t)
  PROVE  Kept
  <1>1. TypeOK /\ LockHeld /\ "app" \in Threads /\ "rt" \in Threads
    BY LabelTypes DEF GetInv, IndInv
  <1>2. /\ pc[h][t] = "serve" /\ todo[h][t] = <<>> /\ Goto(h, t, Idle(t))
        /\ lock' = [lock EXCEPT ![h] = "free"] /\ lock[h] = t
        /\ UNCHANGED <<queue, kvMap, msgCache, key, todo, request, aborted>>
    BY <1>1 DEF ServedAll, network, rtLocal, LockHeld
  <1>3. Idle(t) \in {"run", "receive"} /\ Idle(t) \in Labels
    BY LabelTypes DEF Idle
  <1>4. \A a \in Nodes, u \in Threads : pc'[a][u] = IF a = h /\ u = t THEN Idle(t) ELSE pc[a][u]
    BY <1>1, <1>2, <1>3, GotoEffect
  <1>5. \A a \in Nodes : lock'[a] = IF a = h THEN "free" ELSE lock[a]
    BY <1>1, <1>2 DEF TypeOK
  <1>6. LockHeld'
    BY <1>1, <1>2, <1>3, <1>4, <1>5 DEF LockHeld
  <1>7. Keyed' /\ Failed'
    BY <1>2, <1>3, <1>4 DEF GetInv, Keyed, Failed
  <1>8. \A a \in Nodes : Leaked(a) => Leaked(a)'
    BY <1>1, <1>2, <1>3, <1>4, <1>5 DEF Leaked
  <1>9. ASSUME NEW n \in Nodes, NEW k \in Keys, Home[k] # n
        PROVE  Balanced(n, k)
    <2>1. Home[k] \in Nodes
      BY KVAssumption
    <2>2. /\ Asked(n, k)' = Asked(n, k) /\ Coming(n, k)' = Coming(n, k)
          /\ Waiting(n, k)' = Waiting(n, k) /\ Arrived(n, k)' = Arrived(n, k)
          /\ Served(n, k, "app")' = Served(n, k, "app") /\ Served(n, k, "rt")' = Served(n, k, "rt")
      BY <1>1, <1>2, SameCounts
    <2>3. Answering(n, k)' = Answering(n, k) /\ Expected(n, k)' = Expected(n, k)
      BY <1>1, <1>2, <1>3, <1>4, <2>1 DEF Answering, Expected, WaitsFor
    <2>4. Outstanding(n, k)' = Outstanding(n, k)
      BY <1>1, <2>2, <2>3, PlaceTypes, PlacesAfter
    <2>5. Outstanding(n, k) \in Nat /\ Expected(n, k) \in {0, 1}
      BY <1>1, OutstandingType DEF Expected
    <2>6. QED
      BY <2>3, <2>4, <2>5 DEF Balanced
  <1>10. QED
    BY <1>1, <1>2, <1>6, <1>7, <1>8, <1>9, BalanceKeeps DEF Kept, GetParts, GetInv

\* A get that returns nullptr keeps the lock: its node is leaked.
LEMMA ReturnNullGets ==
  ASSUME GetInv, TypeOK', NEW h \in Nodes, ReturnNull(h)
  PROVE  Kept
  <1>1. TypeOK /\ LockHeld /\ "app" \in Threads /\ "rt" \in Threads
    BY LabelTypes DEF GetInv, IndInv
  <1>2. /\ pc[h]["app"] = "lockCache" /\ lock[h] = "free" /\ Goto(h, "app", "run")
        /\ lock' = [lock EXCEPT ![h] = "app"]
        /\ UNCHANGED <<queue, kvMap, msgCache, key, todo, request, aborted>>
    BY DEF ReturnNull, network, rtLocal
  <1>3. \A a \in Nodes, u \in Threads : pc'[a][u] = IF a = h /\ u = "app" THEN "run" ELSE pc[a][u]
    BY <1>1, <1>2, GotoEffect, LabelTypes
  <1>4. \A a \in Nodes : lock'[a] = IF a = h THEN "app" ELSE lock[a]
    BY <1>1, <1>2 DEF TypeOK
  <1>5. LockHeld'
    BY <1>1, <1>2, <1>3, <1>4 DEF LockHeld, Threads
  <1>6. Keyed' /\ Failed'
    BY <1>2, <1>3 DEF GetInv, Keyed, Failed
  <1>7. Leaked(h)' /\ \A a \in Nodes : Leaked(a) => Leaked(a)'
    BY <1>1, <1>2, <1>3, <1>4 DEF Leaked
  <1>8. ASSUME NEW n \in Nodes, NEW k \in Keys, Home[k] # n, ~Leaked(n)'
        PROVE  Balanced(n, k)
    <2>1. Home[k] \in Nodes /\ n # h
      BY <1>7, <1>8, KVAssumption
    <2>2. /\ Asked(n, k)' = Asked(n, k) /\ Coming(n, k)' = Coming(n, k)
          /\ Waiting(n, k)' = Waiting(n, k) /\ Arrived(n, k)' = Arrived(n, k)
          /\ Served(n, k, "app")' = Served(n, k, "app") /\ Served(n, k, "rt")' = Served(n, k, "rt")
      BY <1>1, <1>2, SameCounts
    <2>3. Answering(n, k)' = Answering(n, k) /\ Expected(n, k)' = Expected(n, k)
      BY <1>1, <1>2, <1>3, <2>1 DEF Answering, Expected, WaitsFor
    <2>4. Outstanding(n, k)' = Outstanding(n, k)
      BY <1>1, <2>2, <2>3, PlaceTypes, PlacesAfter
    <2>5. Outstanding(n, k) \in Nat /\ Expected(n, k) \in {0, 1}
      BY <1>1, OutstandingType DEF Expected
    <2>6. QED
      BY <2>3, <2>4, <2>5 DEF Balanced
  <1>9. QED
    BY <1>1, <1>2, <1>5, <1>6, <1>7, <1>8, BalanceKeeps DEF Kept, GetParts, GetInv

\* All messages of an array of replies are counted.
LEMMA ArrivedAll ==
  ASSUME IndInv, Keyed, NEW n \in Nodes, NEW k \in Keys, Home[k] # n
  PROVE  /\ Len(msgCache[n][k]) \in Nat /\ Arrived(n, k) = Len(msgCache[n][k])
         /\ msgCache[n][k] # <<>> <=> Len(msgCache[n][k]) > 0
  <1>1. PICK arr \in Seq(Message) : arr = msgCache[n][k]
    BY DEF IndInv, TypeOK
  <1>2. \A m \in Range(arr) : m.key = k /\ m.kind = "ReplyData"
    BY <1>1 DEF Keyed, IndInv, CacheHomed
  <1>3. \A i \in DOMAIN arr : arr[i] \in Range(arr)
    BY DEF Range
  <1>4. RepliesIn(arr, k) = 1 .. Len(arr) /\ Len(arr) \in Nat
    BY <1>2, <1>3 DEF RepliesIn
  <1>5. Cardinality(1 .. Len(arr)) = Len(arr)
    BY <1>4, FS_Interval
  <1>6. arr # <<>> <=> Len(arr) > 0
    OBVIOUS
  <1>7. QED
    BY <1>1, <1>4, <1>5, <1>6 DEF Arrived

\* A get takes the one reply to it, and so the assert on the length of the array holds.
LEMMA TakeReplyGets ==
  ASSUME GetInv, TypeOK', NEW h \in Nodes, TakeReply(h)
  PROVE  Kept
  <1>1. TypeOK /\ IndInv /\ LockHeld /\ Keyed /\ Failed /\ "app" \in Threads /\ "rt" \in Threads
    BY LabelTypes DEF GetInv, IndInv
  <1>2. PICK b : b = key[h]["app"]
    OBVIOUS
  <1>3. /\ pc[h]["app"] = "lockCache" /\ lock[h] = "free" /\ msgCache[h][b] # <<>>
        /\ RemoveArray(h, b)
        /\ UNCHANGED <<queue, kvMap, lock, key, todo, request>>
    BY <1>2 DEF TakeReply, network, rtLocal
  <1>4. b \in Keys /\ Home[b] # h /\ Home[b] \in Nodes
    BY <1>1, <1>2, <1>3, KVAssumption DEF IndInv, ThreadsHomed
  <1>5. aborted[h] = "no" /\ ~Leaked(h)
    BY <1>1, <1>3 DEF Failed, Leaked
  <1>6. Outstanding(h, b) <= 1
    BY <1>2, <1>3, <1>4, <1>5 DEF GetInv, OneEach, WaitsFor
  <1>7. Arrived(h, b) <= Outstanding(h, b)
    <2>1. /\ Asked(h, b) \in Nat /\ Waiting(h, b) \in Nat /\ Served(h, b, "app") \in Nat
          /\ Served(h, b, "rt") \in Nat /\ Coming(h, b) \in Nat /\ Arrived(h, b) \in Nat
      BY <1>1, <1>4, PlaceTypes
    <2>2. (IF Answering(h, b) THEN 1 ELSE 0) \in Nat
      OBVIOUS
    <2>3. QED
      BY <1>1, <1>4, <2>1, <2>2, PlaceTypes
  <1>8. Len(msgCache[h][b]) = 1 /\ Arrived(h, b) = 1
    <2>1. /\ Len(msgCache[h][b]) \in Nat /\ Arrived(h, b) = Len(msgCache[h][b])
          /\ msgCache[h][b] # <<>> <=> Len(msgCache[h][b]) > 0
      BY <1>1, <1>4, ArrivedAll
    <2>2. Outstanding(h, b) \in Nat
      BY <1>1, <1>4, OutstandingType
    <2>3. PICK x \in Nat, y \in Nat : x = Arrived(h, b) /\ y = Outstanding(h, b)
      BY <2>1, <2>2
    <2>4. x > 0 /\ x <= y /\ y <= 1
      BY <1>3, <1>6, <1>7, <2>1, <2>3
    <2>5. x = 1
      BY <2>4
    <2>6. QED
      BY <2>1, <2>3, <2>5
  <1>9. msgCache[h][b][1].kind = "ReplyData"
    BY <1>1, <1>2, <1>3, CachedAreReplies
  <1>10. Goto(h, "app", "run") /\ UNCHANGED aborted
    BY <1>2, <1>8, <1>9 DEF TakeReply
  <1>11. \A a \in Nodes, u \in Threads :
           pc'[a][u] = IF a = h /\ u = "app" THEN "run" ELSE pc[a][u]
    BY <1>1, <1>10, GotoEffect, LabelTypes
  <1>12. \A a \in Nodes, c \in Keys :
           msgCache'[a][c] = IF a = h /\ c = b THEN <<>> ELSE msgCache[a][c]
    <2> <<>> \in Seq(Message)
      OBVIOUS
    <2>1. PICK e \in Seq(Message) : e = <<>>
      OBVIOUS
    <2>2. ArrayBecomes(h, b, e) /\ TypeOK
      BY <1>1, <1>3, <2>1 DEF RemoveArray, ArrayBecomes
    <2>3. \A a \in Nodes, c \in Keys :
            msgCache'[a][c] = IF a = h /\ c = b THEN e ELSE msgCache[a][c]
      BY ONLY <2>2, <1>4, h \in Nodes, e \in Seq(Message), OneArray
    <2>4. QED
      BY <2>1, <2>3
  <1>13. /\ LockHeld' /\ Keyed' /\ Failed'
         /\ \A a \in Nodes : Leaked(a) => Leaked(a)'
    <2>1. \A a \in Nodes, c \in Keys : \A m \in Range(msgCache'[a][c]) : m.key = c
      BY <1>1, <1>12, RangeEmpty DEF Keyed
    <2>2. \A a \in Nodes, t \in Threads :
            /\ pc'[a][t] = "serve" <=> pc[a][t] = "serve"
            /\ pc[a][t] = "aborted" <=> pc'[a][t] = "aborted"
            /\ pc[a][t] \in {"serve", "aborted"} => key'[a][t] = key[a][t]
      BY <1>3, <1>11
    <2>3. QED
      BY <1>3, <1>10, <2>1, <2>2, PartsKept
  <1>14. ASSUME NEW n \in Nodes, NEW k \in Keys, Home[k] # n
         PROVE  Balanced(n, k)
    <2>1. Home[k] \in Nodes
      BY KVAssumption
    <2>2. /\ Waiting(n, k)' = Cardinality(RequestsIn(msgCache'[Home[k]][k], n, k))
          /\ Arrived(n, k)' = Cardinality(RepliesIn(msgCache'[n][k], k))
      BY DEF Waiting, Arrived, RequestsIn, RepliesIn
    <2>3. Waiting(n, k)' = Waiting(n, k)
      BY <1>4, <1>12, <2>1, <2>2 DEF Waiting
    <2>4. Arrived(n, k) = Arrived(n, k)' + (IF n = h /\ k = b THEN 1 ELSE 0)
      <3>1. CASE n = h /\ k = b
        <4>1. Cardinality(RepliesIn(<<>>, k)) = 0
          <5>1. <<>> \in Seq(Message)
            OBVIOUS
          <5>2. QED
            BY <5>1, Counts, RangeEmpty
        <4>2. QED
          BY <1>8, <1>12, <2>2, <3>1, <4>1
      <3>2. CASE ~(n = h /\ k = b)
        <4>1. Arrived(n, k)' = Arrived(n, k)
          BY <1>12, <2>2, <3>2 DEF Arrived
        <4>2. Arrived(n, k) \in Nat
          BY <1>1, PlaceTypes
        <4>3. QED
          BY <3>2, <4>1, <4>2
      <3>3. QED
        BY <3>1, <3>2
    <2>5. /\ Asked(n, k)' = Asked(n, k) /\ Coming(n, k)' = Coming(n, k)
          /\ Served(n, k, "app")' = Served(n, k, "app") /\ Served(n, k, "rt")' = Served(n, k, "rt")
      BY <1>1, <1>3, SameCounts
    <2>6. Answering(n, k)' = Answering(n, k)
      BY <1>1, <1>3, <1>11, <2>1 DEF Answering
    <2>7. Expected(n, k) = Expected(n, k)' + (IF n = h /\ k = b THEN 1 ELSE 0)
      BY <1>1, <1>2, <1>3, <1>11 DEF Expected, WaitsFor
    <2>8. Outstanding(n, k) = Outstanding(n, k)' + (IF n = h /\ k = b THEN 1 ELSE 0)
      <3>1. Arrived(n, k)' \in Nat
        BY PlacesTypedAfter
      <3>2. QED
        BY <1>1, <2>3, <2>4, <2>5, <2>6, <3>1, PlaceTypes, PlacesAfter
    <2>9. /\ Outstanding(n, k)' \in Nat /\ Expected(n, k)' \in {0, 1}
      BY <1>1, OutstandingType DEF Expected
    <2>10. QED
      BY <2>7, <2>8, <2>9 DEF Balanced
  <1>15. QED
    BY <1>1, <1>10, <1>13, <1>14, BalanceKeeps DEF Kept, GetParts, GetInv

-----------------------------------------------------------------------------
(* The theorems about gets *)

\* Initially no get is under way.
LEMMA InitGets == Init => GetInv
  <1> SUFFICES ASSUME Init PROVE GetInv
    OBVIOUS
  <1>1. IndInv /\ TypeOK
    BY InitInd DEF IndInv
  <1>2. /\ \A a \in Nodes, t \in Threads : pc[a][t] \in {"run", "receive"} /\ todo[a][t] = <<>>
        /\ \A a \in Nodes : queue[a] = <<>> /\ aborted[a] = "no"
        /\ \A a \in Nodes, c \in Keys : msgCache[a][c] = <<>>
    BY DEF Init
  <1>3. LockHeld /\ Keyed /\ Failed
    BY <1>2, RangeEmpty DEF LockHeld, Keyed, Failed
  <1>4. ASSUME NEW n \in Nodes, NEW k \in Keys
        PROVE  Outstanding(n, k) = 0 /\ ~WaitsFor(n, k)
    <2>1. Home[k] \in Nodes /\ "app" \in Threads /\ "rt" \in Threads
      BY KVAssumption, LabelTypes
    <2>2. Cardinality(RequestsIn(<<>>, n, k)) = 0 /\ Cardinality(RepliesIn(<<>>, k)) = 0
      <3>1. <<>> \in Seq(Message)
        OBVIOUS
      <3>2. QED
        BY <3>1, Counts, RangeEmpty
    <2>3. Outstanding(n, k) = 0
      BY <1>2, <2>1, <2>2 DEF Outstanding
    <2>4. QED
      BY <1>2, <2>1, <2>3 DEF WaitsFor
  <1>5. OneEach
    BY <1>4 DEF OneEach
  <1>6. QED
    BY <1>1, <1>3, <1>5 DEF GetInv

\* Every step keeps one message for each get.
LEMMA NextKept ==
  ASSUME GetInv, [Next]_vars
  PROVE  Kept
  <1>1. IndInv' /\ TypeOK'
    BY NextInd DEF GetInv, IndInv
  <1>2. CASE Next
    <2>1. PICK h \in Nodes : NodeStep(h)
      BY <1>2 DEF Next
    <2>2. ASSUME NEW t \in Threads, TryToHandleCache(h, t) PROVE Kept
      BY <1>1, <2>2, TakeWaitersGets, AppMovesGets, ServeWaiterGets, ServedAllGets
         DEF TryToHandleCache
    <2>3. CASE AppCalls(h)
      <3>1. ASSUME NEW k \in Keys, NEW block \in BOOLEAN, RequestRemote(h, k, block) PROVE Kept
        BY <1>1, <3>1, RequestRemoteGets
      <3>2. ASSUME \/ \E k \in Keys :
                        PutRemote(h, k) \/ PutLocal(h, k) \/ GetLocal(h, k) \/ SpinLocal(h, k)
                   \/ SendDone(h)
            PROVE  Kept
        BY <1>1, <3>2, AppCallsGets
      <3>3. QED
        BY <2>3, <3>1, <3>2 DEF AppCalls
    <2>4. CASE AppContinues(h) \/ SpuriousWakeup(h)
      <3>1. CASE ReturnNull(h)
        BY <1>1, <3>1, ReturnNullGets
      <3>2. CASE TakeReply(h)
        BY <1>1, <3>2, TakeReplyGets
      <3>3. CASE SpinReads(h) \/ WaitForReply(h) \/ SpuriousWakeup(h) \/ Join(h)
        BY <1>1, <3>3, AppMovesGets
      <3>4. QED
        BY <2>2, <2>4, <3>1, <3>2, <3>3, LabelTypes DEF AppContinues
    <2>5. CASE ReceiverStep(h)
      <3>1. CASE ReceivePut(h) \/ ReceiveDone(h) \/ SendTeardown(h) \/ ReceiveTeardown(h)
        BY <1>1, <3>1, ReceiverMovesGets
      <3>2. CASE ReceiveRequest(h)
        BY <1>1, <3>2, ReceiveRequestGets
      <3>3. CASE AnswerRequest(h)
        BY <1>1, <3>3, AnswerRequestGets
      <3>4. CASE CacheRequest(h)
        BY <1>1, <3>4, CacheRequestGets
      <3>5. CASE ReceiveReply(h)
        BY <1>1, <3>5, ReceiveReplyGets
      <3>6. CASE ReplyNull(h)
        BY <1>1, <3>6, ReplyNullGets
      <3>7. QED
        BY <2>2, <2>5, <3>1, <3>2, <3>3, <3>4, <3>5, <3>6, LabelTypes DEF ReceiverStep
    <2>6. QED
      BY <2>1, <2>3, <2>4, <2>5 DEF NodeStep
  <1>3. CASE UNCHANGED vars
    <2>1. Uninvolved
      BY <1>3 DEF vars, Uninvolved
    <2>2. QED
      BY <1>1, <1>3, <2>1, UninvolvedKeeps, SameCounts DEF vars
  <1>4. QED
    BY <1>2, <1>3

\* The invariant is inductive.
LEMMA NextGets ==
  ASSUME GetInv, [Next]_vars
  PROVE  GetInv'
  BY NextInd, NextKept DEF Kept, GetParts, GetInv

\* One message carries on each get of a key that lives elsewhere, wherever the
\* threads of both nodes are (kvstore.h, getFromNetwork_ and tryToHandleCache_).
THEOREM GetInvHolds == Spec => []GetInv
  BY InitGets, NextGets, PTL DEF Spec

\* A get is neither lost nor answered twice, and so the assert of
\* getFromNetwork_ on the number of replies never fails.
THEOREM GetsAnsweredOnce == Spec => []OneReplyPerGet
  <1>1. GetInv => OneReplyPerGet
    BY DEF GetInv, OneEach, Failed, OneReplyPerGet
  <1>2. QED
    BY <1>1, GetInvHolds, PTL

-----------------------------------------------------------------------------
(* The inductive invariant of teardown *)

\* No application leaked its lock and no node failed.
Healthy == \A n \in Nodes : ~Leaked(n) /\ aborted[n] = "no"

\* A Teardown is the last message that its node gets, and was sent by the loop of
\* sendTeardownMsgs_ before nextTorn.
TeardownEnds ==
  \A n \in Nodes : \A i \in DOMAIN queue[n] :
    queue[n][i].kind = "Teardown" => i = Len(queue[n]) /\ n < nextTorn

\* A receiver that has ended got its Teardown, and nothing after it.
EndedEmpty ==
  \A n \in Nodes : pc[n]["rt"] = "exited" => n < nextTorn /\ queue[n] = <<>>

\* The inductive invariant, above GetInv.
TearInv == GetInv /\ (Healthy => TeardownEnds /\ EndedEmpty)

-----------------------------------------------------------------------------
(* When every application has ended, no get is under way *)

\* Nobody waits and nobody answers.
NoGets ==
  /\ \A n \in Nodes : pc[n]["app"] \in Ended /\ pc[n]["rt"] # "answer"
  /\ \A n \in Nodes, t \in Threads : todo[n][t] = <<>>
  /\ \A n \in Nodes, k \in Keys : msgCache[n][k] = <<>>

\* Every message of a get would be one too many.
LEMMA AllDoneNoGets ==
  ASSUME GetInv, Healthy, AllDone(isNodeDone)
  PROVE  NoGets
  <1>1. TypeOK /\ IndInv /\ Keyed /\ LockHeld /\ "app" \in Threads /\ "rt" \in Threads
    BY LabelTypes DEF GetInv, IndInv
  <1>2. \A n \in Nodes : pc[n]["app"] \in Ended
    BY <1>1 DEF AllDone, IndInv, DoneOnce
  <1>3. ASSUME NEW n \in Nodes, NEW k \in Keys, Home[k] # n
        PROVE  /\ Waiting(n, k) = 0 /\ Served(n, k, "app") = 0 /\ Served(n, k, "rt") = 0
               /\ Arrived(n, k) = 0 /\ ~Answering(n, k)
    <2>1. Home[k] \in Nodes
      BY KVAssumption
    <2>2. Outstanding(n, k) = 0
      BY <1>2, <1>3, <2>1 DEF GetInv, OneEach, Healthy, WaitsFor, Ended
    <2>3. PICK a \in Nat, b \in {0, 1}, c \in Nat, d \in Nat, e \in Nat, f \in Nat, g \in Nat :
            /\ a = Asked(n, k) /\ b = (IF Answering(n, k) THEN 1 ELSE 0) /\ c = Waiting(n, k)
            /\ d = Served(n, k, "app") /\ e = Served(n, k, "rt")
            /\ f = Coming(n, k) /\ g = Arrived(n, k)
      BY <1>1, PlaceTypes
    <2>4. a + b + c + d + e + f + g = 0
      BY <1>1, <2>2, <2>3, PlaceTypes
    <2>5. b = 0 /\ c = 0 /\ d = 0 /\ e = 0 /\ g = 0
      BY <2>4
    <2>6. QED
      BY <2>3, <2>5
  <1>4. ASSUME NEW n \in Nodes
        PROVE  pc[n]["rt"] # "answer"
    <2> SUFFICES ASSUME pc[n]["rt"] = "answer" PROVE FALSE
      OBVIOUS
    <2>1. /\ request[n].from # n /\ request[n].key \in Keys /\ Home[request[n].key] = n
          /\ request[n].from \in Nodes
      BY <1>1 DEF IndInv, ThreadsHomed, TypeOK, Message
    <2>2. PICK k \in Keys, c \in Nodes : k = request[n].key /\ c = request[n].from
      BY <2>1
    <2>3. Answering(c, k)
      BY <2>1, <2>2 DEF Answering
    <2>4. QED
      BY <1>3, <2>1, <2>2, <2>3
  <1>5. ASSUME NEW s \in Seq(Message), s # <<>>
        PROVE  \E m \in Message : m \in Range(s)
    BY <1>5, RangeTail
  <1>6. ASSUME NEW n \in Nodes, NEW t \in Threads
        PROVE  todo[n][t] = <<>>
    <2> SUFFICES ASSUME todo[n][t] # <<>> PROVE FALSE
      OBVIOUS
    <2>1. todo[n][t] \in Seq(Message)
      BY <1>1 DEF TypeOK
    <2>2. PICK m \in Message : m \in Range(todo[n][t])
      BY <1>5, <2>1
    <2>3. m.kind = "WaitAndGet" /\ m.from # n /\ m.from \in Nodes /\ m.key = key[n][t]
      BY <1>1, <2>2 DEF IndInv, TodoHomed, Keyed, Message
    <2>4. pc[n][t] = "serve"
      BY <1>1, <1>2 DEF LockHeld, Healthy, GetInv, Failed
    <2>5. key[n][t] \in Keys /\ Home[key[n][t]] = n
      BY <1>1, <2>4 DEF IndInv, ThreadsHomed
    <2>6. PICK k \in Keys, c \in Nodes : k = m.key /\ c = m.from
      BY <2>3, <2>5
    <2>7. Served(c, k, t) # 0
      <3>1. Cardinality(RequestsIn(todo[n][t], c, k)) = 0 <=>
              \A e \in Range(todo[n][t]) : ~IsRequest(e, c, k)
        BY <2>1, Counts
      <3>2. IsRequest(m, c, k)
        BY <2>3, <2>6 DEF IsRequest
      <3>3. QED
        BY <2>2, <2>3, <2>5, <2>6, <3>1, <3>2 DEF Served
    <2>8. Served(c, k, t) = 0
      BY <1>3, <2>3, <2>5, <2>6 DEF Threads
    <2>9. QED
      BY <2>7, <2>8
  <1>7. ASSUME NEW n \in Nodes, NEW k \in Keys
        PROVE  msgCache[n][k] = <<>>
    <2> SUFFICES ASSUME msgCache[n][k] # <<>> PROVE FALSE
      OBVIOUS
    <2>1. msgCache[n][k] \in Seq(Message)
      BY <1>1 DEF TypeOK
    <2>2. CASE Home[k] = n
      <3>1. PICK m \in Message : m \in Range(msgCache[n][k])
        BY <1>5, <2>1
      <3>2. m.kind = "WaitAndGet" /\ m.from # n /\ m.from \in Nodes /\ m.key = k
        BY <1>1, <2>2, <3>1 DEF IndInv, CacheHomed, Keyed, Message
      <3>3. PICK c \in Nodes : c = m.from
        BY <3>2
      <3>4. Cardinality(RequestsIn(msgCache[n][k], c, k)) = 0 <=>
              \A e \in Range(msgCache[n][k]) : ~IsRequest(e, c, k)
        BY <2>1, Counts
      <3>5. Waiting(c, k) # 0
        BY <2>2, <3>1, <3>2, <3>3, <3>4 DEF Waiting, IsRequest
      <3>6. QED
        BY <1>3, <2>2, <3>2, <3>3, <3>5
    <2>3. CASE Home[k] # n
      BY <1>1, <1>3, <2>1, <2>3, ArrivedAll
    <2>4. QED
      BY <2>2, <2>3
  <1>8. QED
    BY <1>2, <1>4, <1>6, <1>7 DEF NoGets

-----------------------------------------------------------------------------
(* What a step does to the inboxes *)

\* A message other than Teardown is pushed by a thread that puts, gets, answers or serves.
OtherSend(h) ==
  /\ \/ pc[h]["app"] \notin Ended
     \/ pc[h]["rt"] = "answer"
     \/ \E t \in Threads : todo[h][t] # <<>>
  /\ \E a \in Nodes, m \in Message : Send(a, m) /\ m.kind # "Teardown"

\* A message is popped, and a Teardown ends its receiver.
Pop(h) ==
  /\ queue[h] # <<>> /\ queue' = [queue EXCEPT ![h] = Tail(queue[h])]
  /\ nextTorn' = nextTorn
  /\ \A a \in Nodes : pc'[a]["rt"] = "exited" /\ pc[a]["rt"] # "exited" =>
       a = h /\ Head(queue[h]).kind = "Teardown"
  /\ pc[h]["rt"] = "receive"

\* No receiver ends.
NoExit == \A a \in Nodes : pc'[a]["rt"] = "exited" => pc[a]["rt"] = "exited"

\* Every step does one of these.
InboxStep(h) ==
  \/ UNCHANGED <<queue, nextTorn>> /\ NoExit
  \/ OtherSend(h) /\ UNCHANGED nextTorn /\ NoExit
  \/ Pop(h)
  \/ SendTeardown(h) /\ NoExit

\* No receiver ends when a thread goes elsewhere.
LEMMA GotoNoExit ==
  ASSUME TypeOK, NEW h \in Nodes, NEW t \in Threads, NEW l \in Labels, Goto(h, t, l),
         t = "app" \/ l # "exited"
  PROVE  NoExit
  <1>1. \A a \in Nodes, u \in Threads : pc'[a][u] = IF a = h /\ u = t THEN l ELSE pc[a][u]
    BY GotoEffect
  <1>2. QED
    BY <1>1, LabelTypes DEF NoExit

\* No receiver ends when a message is cached.
LEMMA CacheNoExit ==
  ASSUME TypeOK, NEW h \in Nodes, NEW b \in Keys, NEW m \in Message, AddToCache(h, b, m)
  PROVE  NoExit
  <1>1. \A a \in Nodes, u \in Threads :
          pc'[a][u] = IF a = h /\ u = "rt" THEN "receive"
                      ELSE IF a = h /\ u = "app" /\ pc[a][u] = "asleep" THEN "lockCache"
                      ELSE pc[a][u]
    BY AddToCacheEffect
  <1>2. QED
    BY <1>1, LabelTypes DEF NoExit

\* Calls of the application.
LEMMA AppCallsInbox ==
  ASSUME IndInv, NEW h \in Nodes, AppCalls(h)
  PROVE  InboxStep(h)
  <1>1. TypeOK /\ "app" \in Threads
    BY LabelTypes DEF IndInv
  <1>2. pc[h]["app"] = "run" /\ pc[h]["app"] \notin Ended
    BY DEF AppCalls, PutRemote, PutLocal, GetLocal, SpinLocal, RequestRemote, SendDone, Call, Ended
  <1>3. ASSUME NEW k \in Keys, PutRemote(h, k) PROVE InboxStep(h)
    <2>1. DataMsg("Put", h, k, NextValue(h)) \in Message
      BY <1>1, <1>3, CallEffect, MessageTypes DEF PutRemote, MsgKind
    <2>2. DataMsg("Put", h, k, NextValue(h)).kind # "Teardown" /\ Home[k] \in Nodes
      BY KVAssumption DEF DataMsg
    <2>3. QED
      BY <1>2, <1>3, <2>1, <2>2 DEF PutRemote, InboxStep, OtherSend, NoExit, done
  <1>4. ASSUME NEW k \in Keys, PutLocal(h, k) PROVE InboxStep(h)
    <2>1. NoExit
      BY <1>1, <1>4, GotoNoExit, LabelTypes DEF PutLocal, StoreValue
    <2>2. QED
      BY <1>4, <2>1 DEF PutLocal, InboxStep, done
  <1>5. ASSUME NEW k \in Keys, GetLocal(h, k) PROVE InboxStep(h)
    BY <1>5 DEF GetLocal, InboxStep, NoExit, network, done
  <1>6. ASSUME NEW k \in Keys, SpinLocal(h, k) PROVE InboxStep(h)
    <2>1. NoExit
      BY <1>1, <1>6, GotoNoExit, LabelTypes DEF SpinLocal
    <2>2. QED
      BY <1>6, <2>1 DEF SpinLocal, InboxStep, network, done
  <1>7. ASSUME NEW k \in Keys, NEW block \in BOOLEAN, RequestRemote(h, k, block) PROVE InboxStep(h)
    <2>1. PICK m : m = DataMsg(IF block THEN "WaitAndGet" ELSE "GetData", h, k, NoValue)
      OBVIOUS
    <2>2. m \in Message /\ m.kind # "Teardown" /\ Home[k] \in Nodes
      BY <2>1, MessageTypes, KVAssumption DEF MsgKind, DataMsg
    <2>3. NoExit
      BY <1>1, <1>7, GotoNoExit, LabelTypes DEF RequestRemote
    <2>4. OtherSend(h)
      BY <1>2, <1>7, <2>1, <2>2 DEF RequestRemote, OtherSend
    <2>5. QED
      BY <1>7, <2>3, <2>4 DEF RequestRemote, InboxStep, done
  <1>8. ASSUME SendDone(h) PROVE InboxStep(h)
    <2>1. ControlMsg("Done", h) \in Message /\ ControlMsg("Done", h).kind # "Teardown"
      BY MessageTypes DEF MsgKind, ControlMsg
    <2>2. NoExit
      BY <1>1, <1>8, GotoNoExit, LabelTypes DEF SendDone
    <2>3. OtherSend(h)
      BY <1>2, <1>8, <2>1, KVAssumption DEF SendDone, OtherSend
    <2>4. QED
      BY <1>8, <2>2, <2>3 DEF SendDone, InboxStep, done
  <1>9. QED
    BY <1>3, <1>4, <1>5, <1>6, <1>7, <1>8 DEF AppCalls

\* tryToHandleCache_.
LEMMA TryToHandleCacheInbox ==
  ASSUME IndInv, NEW h \in Nodes, NEW t \in Threads, TryToHandleCache(h, t)
  PROVE  InboxStep(h)
  <1>1. TypeOK /\ Idle(t) \in Labels /\ Idle(t) # "exited"
    BY LabelTypes DEF IndInv, Idle
  <1>2. CASE TakeWaiters(h, t)
    <2>1. NoExit
      BY <1>1, <1>2, GotoNoExit DEF TakeWaiters, Labels, AppLabels
    <2>2. QED
      BY <1>2, <2>1 DEF TakeWaiters, InboxStep, network, done
  <1>3. CASE NoWaiters(h, t)
    <2>1. NoExit
      BY <1>1, <1>3, GotoNoExit DEF NoWaiters
    <2>2. QED
      BY <1>3, <2>1 DEF NoWaiters, InboxStep, network, done
  <1>4. CASE ServedAll(h, t)
    <2>1. NoExit
      BY <1>1, <1>4, GotoNoExit DEF ServedAll
    <2>2. QED
      BY <1>4, <2>1 DEF ServedAll, InboxStep, network, done
  <1>5. CASE ServeWaiter(h, t)
    <2>1. /\ pc[h][t] = "serve" /\ todo[h][t] # <<>> /\ todo[h][t] \in Seq(Message)
          /\ UNCHANGED nextTorn
      BY <1>1, <1>5 DEF ServeWaiter, TypeOK, done
    <2>2. PICK w \in Message : w = Head(todo[h][t]) /\ w \in Range(todo[h][t])
      BY <2>1, RangeTail
    <2>3. w.kind = "WaitAndGet" /\ w.from \in Nodes
      BY <2>2 DEF IndInv, TodoHomed, Message
    <2>4. key[h][t] \in Keys
      BY <2>1 DEF IndInv, ThreadsHomed
    <2>5. PICK r : r = DataMsg("ReplyData", h, key[h][t], kvMap[h][key[h][t]])
      OBVIOUS
    <2>6. r \in Message /\ r.kind # "Teardown"
      <3>1. kvMap[h][key[h][t]] \in Value \cup {NoValue}
        BY <1>1, <2>4 DEF TypeOK
      <3>2. QED
        BY <2>4, <2>5, <3>1, MessageTypes DEF MsgKind, DataMsg
    <2>7. Send(w.from, r) /\ UNCHANGED pc
      BY <1>5, <2>2, <2>3, <2>5 DEF ServeWaiter
    <2>8. OtherSend(h)
      BY <2>1, <2>3, <2>6, <2>7 DEF OtherSend
    <2>9. QED
      BY <2>1, <2>7, <2>8 DEF InboxStep, NoExit
  <1>6. QED
    BY <1>2, <1>3, <1>4, <1>5 DEF TryToHandleCache

\* What the application thread does until a call returns.
LEMMA AppContinuesInbox ==
  ASSUME IndInv, NEW h \in Nodes, AppContinues(h) \/ SpuriousWakeup(h)
  PROVE  InboxStep(h)
  <1>1. TypeOK /\ "app" \in Threads
    BY LabelTypes DEF IndInv
  <1>2. ASSUME NEW l \in Labels, Goto(h, "app", l), UNCHANGED <<queue, nextTorn>>
        PROVE  InboxStep(h)
    BY <1>1, <1>2, GotoNoExit DEF InboxStep
  <1>3. CASE SpinReads(h)
    BY <1>2, <1>3, LabelTypes DEF SpinReads, network, done
  <1>4. CASE WaitForReply(h)
    BY <1>2, <1>4, LabelTypes DEF WaitForReply, network, done
  <1>5. CASE ReturnNull(h)
    BY <1>2, <1>5, LabelTypes DEF ReturnNull, network, done
  <1>6. CASE Join(h)
    BY <1>2, <1>6, LabelTypes DEF Join, network, done
  <1>7. CASE SpuriousWakeup(h)
    BY <1>2, <1>7, LabelTypes DEF SpuriousWakeup, network, done
  <1>8. CASE TakeReply(h)
    <2>1. UNCHANGED <<queue, nextTorn>>
      BY <1>8 DEF TakeReply, network, done
    <2>2. CASE Goto(h, "app", "run")
      BY <1>2, <2>1, <2>2, LabelTypes
    <2>3. ASSUME NEW why \in Failures, Abort(h, why) PROVE InboxStep(h)
      <3>1. NoExit
        BY <1>1, <2>3, AbortEffect, LabelTypes DEF NoExit
      <3>2. QED
        BY <2>1, <3>1 DEF InboxStep
    <2>4. QED
      BY <1>8, <2>2, <2>3 DEF TakeReply, Failures
  <1>9. QED
    BY <1>1, <1>3, <1>4, <1>5, <1>6, <1>7, <1>8, TryToHandleCacheInbox DEF AppContinues

\* What the ReceiverThread does.
LEMMA ReceiverStepInbox ==
  ASSUME IndInv, NEW h \in Nodes, ReceiverStep(h)
  PROVE  InboxStep(h)
  <1>1. TypeOK /\ "rt" \in Threads
    BY LabelTypes DEF IndInv
  <1>2. ASSUME NEW kinds, Receive(h, kinds), UNCHANGED nextTorn,
               \A a \in Nodes : pc'[a]["rt"] = "exited" /\ pc[a]["rt"] # "exited" =>
                 a = h /\ Head(queue[h]).kind = "Teardown"
        PROVE  InboxStep(h)
    BY <1>2 DEF Receive, Pop, InboxStep
  <1>3. CASE ReceiveRequest(h)
    <2>1. NoExit
      BY <1>1, <1>3, GotoNoExit, LabelTypes DEF ReceiveRequest
    <2>2. QED
      BY <1>2, <1>3, <2>1 DEF ReceiveRequest, NoExit, done
  <1>4. CASE AnswerRequest(h)
    <2>1. NoExit
      BY <1>1, <1>4, GotoNoExit, LabelTypes DEF AnswerRequest
    <2>2. PICK q \in Message : q = request[h]
      BY <1>1 DEF TypeOK
    <2>3. PICK r : r = DataMsg("ReplyData", h, q.key, found[h])
      OBVIOUS
    <2>4. q.key \in Keys /\ q.from \in Nodes /\ found[h] \in Value \cup {NoValue}
      BY <1>1, <1>4, <2>2 DEF AnswerRequest, IndInv, ThreadsHomed, TypeOK, Message
    <2>5. r \in Message /\ r.kind # "Teardown"
      BY <2>3, <2>4, MessageTypes DEF MsgKind, DataMsg
    <2>6. Send(q.from, r) /\ pc[h]["rt"] = "answer"
      BY <1>4, <2>2, <2>3 DEF AnswerRequest
    <2>7. OtherSend(h)
      BY <2>4, <2>5, <2>6 DEF OtherSend
    <2>8. QED
      BY <1>4, <2>1, <2>7 DEF AnswerRequest, InboxStep, done
  <1>5. CASE CacheRequest(h)
    <2>1. request[h] \in Message /\ request[h].key \in Keys
      BY <1>1, <1>5 DEF CacheRequest, IndInv, ThreadsHomed, TypeOK
    <2>2. NoExit
      BY <1>1, <1>5, <2>1, CacheNoExit DEF CacheRequest
    <2>3. QED
      BY <1>5, <2>2 DEF CacheRequest, InboxStep, network, done
  <1>6. CASE ReplyNull(h)
    <2>1. NoExit
      <3>1. Abort(h, "nullReply") /\ "nullReply" \in Failures
        BY <1>6 DEF ReplyNull, Failures
      <3>2. QED
        BY <1>1, <3>1, AbortEffect, LabelTypes DEF NoExit
    <2>2. QED
      BY <1>6, <2>1 DEF ReplyNull, InboxStep, network, done
  <1>7. CASE ReceiveReply(h)
    <2>1. Receive(h, {"ReplyData"})
      BY <1>7 DEF ReceiveReply
    <2>2. PICK m \in Message : m = Head(queue[h]) /\ m \in Range(queue[h])
      BY <1>1, <2>1, ReceiveEffect
    <2>3. m.key \in Keys
      BY <2>1, <2>2 DEF Receive, IndInv, QueueHomed, WellHomed
    <2>4. NoExit
      BY <1>1, <1>7, <2>2, <2>3, CacheNoExit DEF ReceiveReply
    <2>5. QED
      BY <1>2, <1>7, <2>1, <2>4 DEF ReceiveReply, NoExit, done
  <1>8. CASE ReceivePut(h)
    <2>1. Receive(h, {"Put"}) /\ UNCHANGED nextTorn
      BY <1>8 DEF ReceivePut, done
    <2>2. CASE Goto(h, "rt", "handleCache")
      BY <1>1, <1>2, <2>1, <2>2, GotoNoExit, LabelTypes DEF NoExit
    <2>3. CASE Abort(h, "wrongHome")
      <3>1. NoExit
        BY <1>1, <2>3, AbortEffect, LabelTypes DEF NoExit, Failures
      <3>2. QED
        BY <1>2, <2>1, <3>1 DEF NoExit
    <2>4. QED
      BY <1>8, <2>2, <2>3 DEF ReceivePut, StoreValue
  <1>9. CASE ReceiveDone(h)
    <2>1. NoExit
      BY <1>1, <1>9, GotoNoExit, LabelTypes DEF ReceiveDone
    <2>2. QED
      BY <1>2, <1>9, <2>1 DEF ReceiveDone, NoExit
  <1>10. CASE SendTeardown(h)
    <2>1. NoExit
      BY <1>1, <1>10, GotoNoExit, LabelTypes DEF SendTeardown
    <2>2. QED
      BY <1>10, <2>1 DEF InboxStep
  <1>11. CASE ReceiveTeardown(h)
    <2>1. Receive(h, {"Teardown"}) /\ Goto(h, "rt", "exited") /\ UNCHANGED nextTorn
      BY <1>11 DEF ReceiveTeardown, done
    <2>2. \A a \in Nodes, u \in Threads :
            pc'[a][u] = IF a = h /\ u = "rt" THEN "exited" ELSE pc[a][u]
      BY <1>1, <2>1, GotoEffect, LabelTypes
    <2>3. QED
      BY <1>1, <1>2, <2>1, <2>2 DEF Receive
  <1>12. QED
    BY <1>1, <1>3, <1>4, <1>5, <1>6, <1>7, <1>8, <1>9, <1>10, <1>11, TryToHandleCacheInbox
       DEF ReceiverStep

-----------------------------------------------------------------------------
(* The invariant is inductive *)

\* Before every application has ended, no Teardown is under way and nobody got one.
LEMMA NoTeardownYet ==
  ASSUME IndInv, ~AllDone(isNodeDone)
  PROVE  /\ \A a \in Nodes : \A i \in DOMAIN queue[a] : queue[a][i].kind # "Teardown"
         /\ \A a \in Nodes : pc[a]["rt"] \notin {"teardown", "exited"}
  BY DEF IndInv, TeardownLast, Range

\* Other messages are no Teardown.
LEMMA OtherSendEnds ==
  ASSUME IndInv, ~AllDone(isNodeDone), NEW a \in Nodes, NEW m \in Message, Send(a, m),
         m.kind # "Teardown"
  PROVE  TeardownEnds'
  <1> SUFFICES ASSUME NEW n \in Nodes, NEW i \in DOMAIN queue'[n]
               PROVE  queue'[n][i].kind # "Teardown"
    BY DEF TeardownEnds
  <1>1. /\ \A e \in Range(queue[n]) : e.kind # "Teardown"
        /\ Range(queue'[n]) = IF n = a THEN Range(queue[n]) \cup {m} ELSE Range(queue[n])
    BY NoTeardownYet, SendEffect DEF IndInv, Range
  <1>2. queue'[n][i] \in Range(queue'[n])
    BY DEF Range
  <1>3. QED
    BY <1>1, <1>2

\* A pop keeps a Teardown last.
LEMMA PopEnds ==
  ASSUME TypeOK, TeardownEnds, NEW h \in Nodes, Pop(h)
  PROVE  /\ TeardownEnds'
         /\ Head(queue[h]).kind = "Teardown" => queue'[h] = <<>> /\ h < nextTorn'
  <1>1. PICK s \in Seq(Message) : s = queue[h] /\ s # <<>>
    BY DEF TypeOK, Pop
  <1>2. /\ DOMAIN s = 1 .. Len(s) /\ Len(s) \in Nat \ {0} /\ Head(s) = s[1]
        /\ DOMAIN Tail(s) = 1 .. Len(s) - 1 /\ Len(Tail(s)) = Len(s) - 1
        /\ \A i \in 1 .. Len(s) - 1 : Tail(s)[i] = s[i + 1]
        /\ Len(s) = 1 => Tail(s) = <<>>
    BY <1>1, TailFacts
  <1>3. \A n \in Nodes : queue'[n] = IF n = h THEN Tail(s) ELSE queue[n]
    BY <1>1 DEF Pop, TypeOK
  <1>4. nextTorn' = nextTorn
    BY DEF Pop
  <1>5. \A i \in DOMAIN s : s[i].kind = "Teardown" => i = Len(s) /\ h < nextTorn
    BY <1>1 DEF TeardownEnds
  <1>6. \A i \in DOMAIN Tail(s) : Tail(s)[i].kind = "Teardown" => i = Len(Tail(s)) /\ h < nextTorn
    <2> SUFFICES ASSUME NEW i \in 1 .. Len(s) - 1, Tail(s)[i].kind = "Teardown"
                 PROVE  i = Len(s) - 1 /\ h < nextTorn
      BY <1>2
    <2>1. Tail(s)[i] = s[i + 1] /\ i + 1 \in DOMAIN s
      BY <1>2
    <2>2. PICK j \in DOMAIN s : j = i + 1
      BY <2>1
    <2>3. s[j].kind = "Teardown"
      BY <2>1, <2>2
    <2>4. j = Len(s) /\ h < nextTorn
      BY <1>5, <2>3
    <2>5. Len(s) \in Int /\ i \in Int
      BY <1>2
    <2>6. i = Len(s) - 1
      BY <2>2, <2>4, <2>5
    <2>7. QED
      BY <2>4, <2>6
  <1>7. TeardownEnds'
    BY <1>3, <1>4, <1>6 DEF TeardownEnds
  <1>8. Head(queue[h]).kind = "Teardown" => queue'[h] = <<>> /\ h < nextTorn'
    <2>1. 1 \in DOMAIN s
      BY <1>2
    <2>2. QED
      BY <1>1, <1>2, <1>3, <1>4, <1>5, <2>1
  <1>9. QED
    BY <1>7, <1>8

\* The Teardown that the loop sends is the last message of an inbox that is still read.
LEMMA SendTeardownEnds ==
  ASSUME IndInv, TeardownEnds, EndedEmpty, NEW h \in Nodes, SendTeardown(h), NoExit
  PROVE  TeardownEnds' /\ EndedEmpty'
  <1>1. TypeOK /\ nextTorn \in Nodes /\ nextTorn \in Nat
    <2>1. TypeOK
      BY DEF IndInv
    <2>2. nextTorn \in 0 .. NumNodes
      BY <2>1 DEF TypeOK
    <2>3. nextTorn # NumNodes
      BY KVAssumption, <2>2 DEF SendTeardown, IndInv, TeardownLast
    <2>4. QED
      BY <2>1, <2>2, <2>3, KVAssumption DEF Nodes
  <1>2. PICK d \in Nodes : d = nextTorn
    BY <1>1
  <1>3. PICK m : m = ControlMsg("Teardown", h)
    OBVIOUS
  <1>4. /\ m \in Message /\ queue' = [queue EXCEPT ![d] = Append(queue[d], m)]
        /\ nextTorn' = nextTorn + 1
    BY <1>2, <1>3, MessageTypes DEF SendTeardown, Send, MsgKind
  <1>5. PICK s \in Seq(Message) : s = queue[d]
    BY <1>1 DEF TypeOK
  <1>6. \A n \in Nodes : queue'[n] = IF n = d THEN Append(s, m) ELSE queue[n]
    BY <1>1, <1>4, <1>5 DEF TypeOK
  <1>7. \A n \in Nodes : n \in Int
    BY KVAssumption DEF Nodes
  <1>8. \A i \in DOMAIN s : s[i].kind # "Teardown"
    BY <1>1, <1>2, <1>5 DEF TeardownEnds
  <1>9. /\ DOMAIN Append(s, m) = 1 .. Len(s) + 1 /\ Len(Append(s, m)) = Len(s) + 1
        /\ Len(s) \in Nat /\ DOMAIN s = 1 .. Len(s)
        /\ \A i \in 1 .. Len(s) : Append(s, m)[i] = s[i]
    BY <1>4
  <1>10. \A i \in DOMAIN Append(s, m) : Append(s, m)[i].kind = "Teardown" => i = Len(Append(s, m))
    BY <1>8, <1>9
  <1>11. \A n \in Nodes : n < nextTorn => n < nextTorn'
    BY <1>1, <1>4, <1>7
  <1>12. d < nextTorn'
    BY <1>1, <1>2, <1>4
  <1>13. TeardownEnds'
    BY <1>6, <1>10, <1>11, <1>12 DEF TeardownEnds
  <1>14. EndedEmpty'
    <2>1. pc[d]["rt"] # "exited"
      BY <1>1, <1>2 DEF EndedEmpty
    <2>2. QED
      BY <1>6, <1>11, <2>1 DEF EndedEmpty, NoExit
  <1>15. QED
    BY <1>13, <1>14

\* Every step preserves the invariant.
LEMMA NextTear ==
  ASSUME TearInv, [Next]_vars
  PROVE  TearInv'
  <1>1. IndInv /\ TypeOK /\ GetInv
    BY DEF TearInv, GetInv, IndInv
  <1>2. GetInv'
    BY <1>1, NextGets
  <1>3. Healthy' => Healthy
    BY <1>1, NextKept DEF Kept, Healthy
  <1> SUFFICES ASSUME Healthy, TeardownEnds, EndedEmpty
               PROVE  TeardownEnds' /\ EndedEmpty'
    BY <1>2, <1>3 DEF TearInv
  <1>4. CASE UNCHANGED vars
    BY <1>4 DEF vars, TeardownEnds, EndedEmpty
  <1>5. CASE Next
    <2>1. PICK h \in Nodes : NodeStep(h)
      BY <1>5 DEF Next
    <2>2. InboxStep(h)
      BY <1>1, <2>1, AppCallsInbox, AppContinuesInbox, ReceiverStepInbox DEF NodeStep
    <2>3. CASE UNCHANGED <<queue, nextTorn>> /\ NoExit
      BY <2>3 DEF TeardownEnds, EndedEmpty, NoExit
    <2>4. CASE OtherSend(h) /\ UNCHANGED nextTorn /\ NoExit
      <3>1. ~AllDone(isNodeDone)
        BY <1>1, <2>4, AllDoneNoGets DEF OtherSend, NoGets
      <3>2. PICK a \in Nodes, m \in Message : Send(a, m) /\ m.kind # "Teardown"
        BY <2>4 DEF OtherSend
      <3>3. TeardownEnds'
        BY <1>1, <3>1, <3>2, OtherSendEnds
      <3>4. EndedEmpty'
        BY <1>1, <2>4, <3>1, NoTeardownYet DEF EndedEmpty, NoExit
      <3>5. QED
        BY <3>3, <3>4
    <2>5. CASE Pop(h)
      <3>1. /\ TeardownEnds'
            /\ Head(queue[h]).kind = "Teardown" => queue'[h] = <<>> /\ h < nextTorn'
        BY <1>1, <2>5, PopEnds
      <3>2. \A n \in Nodes : n # h => queue'[n] = queue[n]
        BY <1>1, <2>5 DEF Pop, TypeOK
      <3>3. EndedEmpty'
        BY <2>5, <3>1, <3>2 DEF Pop, EndedEmpty
      <3>4. QED
        BY <3>1, <3>3
    <2>6. CASE SendTeardown(h) /\ NoExit
      BY <1>1, <2>6, SendTeardownEnds
    <2>7. QED
      BY <2>2, <2>3, <2>4, <2>5, <2>6 DEF InboxStep
  <1>6. QED
    BY <1>4, <1>5

\* Initially no message is under way and nobody has ended.
LEMMA InitTear == Init => TearInv
  <1> SUFFICES ASSUME Init PROVE TearInv
    OBVIOUS
  <1>1. \A n \in Nodes : DOMAIN queue[n] = {} /\ pc[n]["rt"] = "receive"
    BY LabelTypes DEF Init
  <1>2. QED
    BY <1>1, InitGets DEF TearInv, TeardownEnds, EndedEmpty

\* A Teardown is the last message of its inbox, and a ReceiverThread that ended leaves
\* no message behind, unless an application leaked its lock or a node failed.
THEOREM TearInvHolds == Spec => []TearInv
  BY InitTear, NextTear, PTL DEF Spec

\* Teardown loses nothing: when a ReceiverThread ends (receiverthread.h, run), its
\* inbox is empty and no request or reply is left in its cache.
THEOREM TeardownLosesNothing == Spec => []TeardownClean
  <1>1. TearInv => TeardownClean
    <2> SUFFICES ASSUME TearInv, Healthy, NEW n \in Nodes, pc[n]["rt"] = "exited"
                 PROVE  queue[n] = <<>> /\ \A k \in Keys : msgCache[n][k] = <<>>
      BY DEF TeardownClean, Healthy
    <2>1. AllDone(isNodeDone) /\ GetInv
      BY DEF TearInv, GetInv, IndInv, TeardownLast
    <2>2. QED
      BY <2>1, AllDoneNoGets DEF NoGets, TearInv, EndedEmpty
  <1>2. QED
    BY <1>1, TearInvHolds, PTL
=============================================================================
