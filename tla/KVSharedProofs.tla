---------------------------- MODULE KVSharedProofs ----------------------------
(***************************************************************************)
(* Proofs, for any number of nodes, keys and calls, that gets respect the  *)
(* order of a session, and that the stores of applications that only block *)
(* implement SharedStore.                                                  *)
(***************************************************************************)
EXTENDS KVStoreProofs

-----------------------------------------------------------------------------
(* The inductive invariant *)

\* The value that call s of the application of n puts.
PutBy(n, s) == [by |-> n, seq |-> s]

\* The puts of one node are in an inbox in the order of its calls.
InOrder(s) ==
  \A i, j \in DOMAIN s :
    i < j /\ s[i].kind = "Put" /\ s[j].kind = "Put" /\ s[i].from = s[j].from =>
      s[i].val.seq < s[j].val.seq

\* The puts on their way are from other nodes, of the calls that these made, and in order.
PutsOrdered ==
  \A h \in Nodes :
    /\ InOrder(queue[h])
    /\ \A m \in Range(queue[h]) : m.kind = "Put" =>
         m.from # h /\ m.val.by = m.from /\ m.val.seq <= ops[m.from]

\* What a store took is from a call that was made, and older than what its node still sends.
LogBehind ==
  \A k \in Keys : \A v \in Range(log[k]) :
    /\ v.seq <= ops[v.by]
    /\ \A m \in Range(queue[Home[k]]) :
         m.kind = "Put" /\ m.from = v.by /\ m.key = k => v.seq < m.val.seq

\* A store takes no value twice.
LogDistinct ==
  \A k \in Keys : \A i, j \in DOMAIN log[k] : i # j => log[k][i] # log[k][j]

\* The value of a key is the last one its store took.
LogLast ==
  \A k \in Keys :
    kvMap[Home[k]][k] = IF log[k] = <<>> THEN NoValue ELSE log[k][Len(log[k])]

\* The last put of a node was taken or is on its way.
LastPutKnown ==
  \A n \in Nodes, k \in Keys : lastPut[n][k] > 0 =>
    \/ PutBy(n, lastPut[n][k]) \in Range(log[k])
    \/ \E m \in Range(queue[Home[k]]) :
         m.kind = "Put" /\ m.from = n /\ m.key = k /\ m.val = PutBy(n, lastPut[n][k])

\* The part of the invariant that is about puts and the values that the stores took.
PutsInv == PutsOrdered /\ LogBehind /\ LogDistinct /\ LogLast /\ LastPutKnown

-----------------------------------------------------------------------------
(* The order of an inbox *)

\* A push keeps the order if no earlier put of the same node is of the same call or a later one.
LEMMA PushInOrder ==
  ASSUME NEW s \in Seq(Message), NEW m \in Message, InOrder(s),
         m.kind = "Put" => \A e \in Range(s) :
           e.kind = "Put" /\ e.from = m.from => e.val.seq < m.val.seq
  PROVE  InOrder(Append(s, m))
  <1> DEFINE q == Append(s, m)
  <1>1. /\ DOMAIN q = 1 .. Len(s) + 1 /\ DOMAIN s = 1 .. Len(s) /\ Len(s) \in Nat
        /\ \A i \in 1 .. Len(s) : q[i] = s[i]
        /\ q[Len(s) + 1] = m
    OBVIOUS
  <1> HIDE DEF q
  <1> SUFFICES ASSUME NEW i \in DOMAIN q, NEW j \in DOMAIN q, i < j,
                      q[i].kind = "Put", q[j].kind = "Put", q[i].from = q[j].from
               PROVE  q[i].val.seq < q[j].val.seq
    BY DEF InOrder, q
  <1>2. i \in DOMAIN s /\ q[i] = s[i]
    BY <1>1
  <1>3. CASE j \in DOMAIN s
    BY <1>1, <1>2, <1>3 DEF InOrder
  <1>4. CASE j \notin DOMAIN s
    <2>1. q[j] = m
      BY <1>1, <1>4
    <2>2. s[i] \in Range(s)
      BY <1>2 DEF Range
    <2>3. QED
      BY <1>2, <2>1, <2>2
  <1>5. QED
    BY <1>3, <1>4

\* A pop keeps the order, and a put that is popped is older than the others of its node.
LEMMA PopInOrder ==
  ASSUME NEW s \in Seq(Message), s # <<>>, InOrder(s)
  PROVE  /\ InOrder(Tail(s))
         /\ Head(s).kind = "Put" =>
              \A e \in Range(Tail(s)) :
                e.kind = "Put" /\ e.from = Head(s).from => Head(s).val.seq < e.val.seq
  <1> DEFINE q == Tail(s)
             m == Head(s)
  <1>1. /\ DOMAIN q = 1 .. Len(s) - 1 /\ DOMAIN s = 1 .. Len(s) /\ Len(s) \in Nat \ {0}
        /\ \A i \in 1 .. Len(s) - 1 : q[i] = s[i + 1]
        /\ m = s[1]
    BY TailFacts
  <1> HIDE DEF q, m
  <1>2. \A i \in DOMAIN q : i + 1 \in DOMAIN s /\ 1 < i + 1 /\ q[i] = s[i + 1] /\ i \in Int
    BY <1>1
  <1>3. ASSUME NEW i \in DOMAIN q, NEW j \in DOMAIN q, i < j,
               q[i].kind = "Put", q[j].kind = "Put", q[i].from = q[j].from
        PROVE  q[i].val.seq < q[j].val.seq
    <2>1. i + 1 < j + 1
      BY <1>2, <1>3
    <2>2. QED
      BY <1>2, <1>3, <2>1 DEF InOrder
  <1>4. ASSUME m.kind = "Put", NEW e \in Range(q), e.kind = "Put", e.from = m.from
        PROVE  m.val.seq < e.val.seq
    <2>1. PICK i \in DOMAIN q : e = q[i]
      BY DEF Range
    <2>2. 1 \in DOMAIN s
      BY <1>1
    <2>3. QED
      BY <1>1, <1>2, <1>4, <2>1, <2>2 DEF InOrder
  <1>5. QED
    BY <1>3, <1>4 DEF InOrder, q, m

\* What is in an inbox is its head or stays when that is popped.
LEMMA RangeHeadTail ==
  ASSUME NEW s \in Seq(Message), s # <<>>
  PROVE  \A e \in Range(s) : e = Head(s) \/ e \in Range(Tail(s))
  <1> DEFINE q == Tail(s)
             m == Head(s)
  <1>1. /\ DOMAIN q = 1 .. Len(s) - 1 /\ DOMAIN s = 1 .. Len(s) /\ Len(s) \in Nat \ {0}
        /\ \A i \in 1 .. Len(s) - 1 : q[i] = s[i + 1]
        /\ m = s[1]
    BY TailFacts
  <1> HIDE DEF q, m
  <1>2. \A i \in DOMAIN s : i = 1 \/ (i - 1 \in DOMAIN q /\ q[i - 1] = s[(i - 1) + 1] /\ (i - 1) + 1 = i)
    BY <1>1
  <1>3. ASSUME NEW e \in Range(s)
        PROVE  e = m \/ e \in Range(q)
    <2>1. PICK i \in DOMAIN s : e = s[i]
      BY DEF Range
    <2>2. CASE i = 1
      BY <1>1, <2>1, <2>2
    <2>3. CASE i - 1 \in DOMAIN q /\ q[i - 1] = s[(i - 1) + 1] /\ (i - 1) + 1 = i
      BY <2>1, <2>3 DEF Range
    <2>4. QED
      BY <1>2, <2>2, <2>3
  <1>4. QED
    BY <1>3 DEF q, m

\* The puts of n in an inbox are followed by its request for k.
Followed(s, n, k) ==
  \A i \in DOMAIN s : s[i].kind = "Put" /\ s[i].from = n =>
    \E j \in DOMAIN s : i < j /\ IsRequest(s[j], n, k)

\* A push leaves them so, unless it is another put of n; the request makes them so.
LEMMA PushFollowed ==
  ASSUME NEW s \in Seq(Message), NEW m \in Message, NEW n, NEW k,
         \/ Followed(s, n, k) /\ ~(m.kind = "Put" /\ m.from = n)
         \/ IsRequest(m, n, k)
  PROVE  Followed(Append(s, m), n, k)
  <1> DEFINE q == Append(s, m)
  <1>1. /\ DOMAIN q = 1 .. Len(s) + 1 /\ DOMAIN s = 1 .. Len(s) /\ Len(s) \in Nat
        /\ \A i \in 1 .. Len(s) : q[i] = s[i]
        /\ q[Len(s) + 1] = m
    OBVIOUS
  <1> HIDE DEF q
  <1> SUFFICES ASSUME NEW i \in DOMAIN q, q[i].kind = "Put", q[i].from = n
               PROVE  \E j \in DOMAIN q : i < j /\ IsRequest(q[j], n, k)
    BY DEF Followed, q
  <1>2. CASE IsRequest(m, n, k)
    <2>1. m.kind # "Put"
      BY <1>2 DEF IsRequest
    <2>2. i \in 1 .. Len(s)
      BY <1>1, <2>1
    <2>3. Len(s) + 1 \in DOMAIN q /\ i < Len(s) + 1
      BY <1>1, <2>2
    <2>4. QED
      BY <1>1, <1>2, <2>3
  <1>3. CASE Followed(s, n, k) /\ ~(m.kind = "Put" /\ m.from = n)
    <2>1. i \in DOMAIN s /\ q[i] = s[i]
      BY <1>1, <1>3
    <2>2. PICK j \in DOMAIN s : i < j /\ IsRequest(s[j], n, k)
      BY <1>3, <2>1 DEF Followed
    <2>3. j \in DOMAIN q /\ q[j] = s[j]
      BY <1>1
    <2>4. QED
      BY <2>2, <2>3
  <1>4. QED
    BY <1>2, <1>3

\* A pop leaves them so.
LEMMA PopFollowed ==
  ASSUME NEW s \in Seq(Message), s # <<>>, NEW n, NEW k, Followed(s, n, k)
  PROVE  Followed(Tail(s), n, k)
  <1> DEFINE q == Tail(s)
  <1>1. /\ DOMAIN q = 1 .. Len(s) - 1 /\ DOMAIN s = 1 .. Len(s) /\ Len(s) \in Nat \ {0}
        /\ \A i \in 1 .. Len(s) - 1 : q[i] = s[i + 1]
    BY TailFacts
  <1> HIDE DEF q
  <1> SUFFICES ASSUME NEW i \in DOMAIN q, q[i].kind = "Put", q[i].from = n
               PROVE  \E j \in DOMAIN q : i < j /\ IsRequest(q[j], n, k)
    BY DEF Followed, q
  <1>2. i + 1 \in DOMAIN s /\ s[i + 1] = q[i]
    BY <1>1
  <1>3. PICK j \in DOMAIN s : i + 1 < j /\ IsRequest(s[j], n, k)
    BY <1>2 DEF Followed
  <1>4. j - 1 \in DOMAIN q /\ i < j - 1 /\ q[j - 1] = s[(j - 1) + 1] /\ (j - 1) + 1 = j
    BY <1>1, <1>3
  <1>5. QED
    BY <1>3, <1>4

\* When the request has left the inbox, so have the puts.
LEMMA NoRequestNoPut ==
  ASSUME NEW s \in Seq(Message), NEW n, NEW k, Followed(s, n, k),
         \A e \in Range(s) : ~IsRequest(e, n, k)
  PROVE  \A e \in Range(s) : ~(e.kind = "Put" /\ e.from = n)
  BY DEF Followed, Range

\* A push or a pop of a message that is no put, or nothing, makes q of inbox s.
QuietMove(s, q) ==
  \/ q = s
  \/ \E m \in Message : m.kind # "Put" /\ q = Append(s, m)
  \/ s # <<>> /\ Head(s).kind # "Put" /\ q = Tail(s)

\* The puts of the inbox and their order are as before.
LEMMA QuietMoveKeeps ==
  ASSUME NEW s \in Seq(Message), NEW q, QuietMove(s, q)
  PROVE  /\ q \in Seq(Message)
         /\ InOrder(s) => InOrder(q)
         /\ \A e : e \in Range(q) /\ e.kind = "Put" <=> e \in Range(s) /\ e.kind = "Put"
         /\ \A n, k : Followed(s, n, k) => Followed(q, n, k)
  <1>1. CASE q = s
    BY <1>1
  <1>2. ASSUME NEW m \in Message, m.kind # "Put", q = Append(s, m)
        PROVE  /\ q \in Seq(Message)
               /\ InOrder(s) => InOrder(q)
               /\ \A e : e \in Range(q) /\ e.kind = "Put" <=> e \in Range(s) /\ e.kind = "Put"
               /\ \A n, k : Followed(s, n, k) => Followed(q, n, k)
    <2>1. q \in Seq(Message) /\ Range(q) = Range(s) \cup {m}
      BY <1>2, RangeAppend
    <2>2. InOrder(s) => InOrder(q)
      BY <1>2, PushInOrder
    <2>3. \A n, k : Followed(s, n, k) => Followed(q, n, k)
      BY <1>2, PushFollowed
    <2>4. QED
      BY <1>2, <2>1, <2>2, <2>3
  <1>3. CASE s # <<>> /\ Head(s).kind # "Put" /\ q = Tail(s)
    <2>1. q \in Seq(Message) /\ Range(q) \subseteq Range(s)
      BY <1>3, RangeTail
    <2>2. InOrder(s) => InOrder(q)
      BY <1>3, PopInOrder
    <2>3. \A n, k : Followed(s, n, k) => Followed(q, n, k)
      BY <1>3, PopFollowed
    <2>4. \A e \in Range(s) : e = Head(s) \/ e \in Range(q)
      BY <1>3, RangeHeadTail
    <2>5. QED
      BY <1>3, <2>1, <2>2, <2>3, <2>4
  <1>4. QED
    BY <1>1, <1>2, <1>3 DEF QuietMove

-----------------------------------------------------------------------------
(* Puts and the values that the stores took *)

\* What the type invariant says of the values that a store took, and of the puts on their way.
LEMMA ValueTypes ==
  ASSUME TypeOK
  PROVE  /\ \A k \in Keys : log[k] \in Seq(Value) /\ Home[k] \in Nodes
         /\ \A k \in Keys : \A v \in Range(log[k]) : v \in Value /\ v.by \in Nodes /\ v.seq \in Nat
         /\ \A n \in Nodes : ops[n] \in Nat /\ queue[n] \in Seq(Message)
         /\ \A n \in Nodes, k \in Keys : lastPut[n][k] \in Nat
  <1>1. \A k \in Keys : log[k] \in Seq(Value) /\ Home[k] \in Nodes
    BY KVAssumption DEF TypeOK
  <1>2. \A v \in Value : v.by \in Nodes /\ v.seq \in Nat
    BY KVAssumption DEF Value
  <1>3. \A k \in Keys : \A v \in Range(log[k]) : v \in Value
    BY <1>1 DEF Range
  <1>4. \A n \in Nodes : ops[n] \in Nat /\ queue[n] \in Seq(Message)
    BY KVAssumption DEF TypeOK
  <1>5. \A n \in Nodes, k \in Keys : lastPut[n][k] \in Nat
    BY KVAssumption DEF TypeOK
  <1>6. QED
    BY <1>1, <1>2, <1>3, <1>4, <1>5

\* The fields of a value.
LEMMA ValueFields ==
  ASSUME NEW v \in Value
  PROVE  v.by \in Nodes /\ v.seq \in Nat /\ v = PutBy(v.by, v.seq)
  BY KVAssumption DEF Value, PutBy

\* A step that puts nothing, and takes no put.
QuietPuts ==
  /\ \A a \in Nodes : QuietMove(queue[a], queue'[a])
  /\ UNCHANGED <<log, kvMap, lastPut>>
  /\ \A a \in Nodes : ops[a] <= ops'[a]

\* It leaves the puts and the stores as they were.
LEMMA QuietKeepsPuts ==
  ASSUME IndInv, TypeOK', PutsInv, QuietPuts
  PROVE  PutsInv'
  <1> TypeOK
    BY DEF IndInv
  <1>1. \A a \in Nodes : \A e : e \in Range(queue'[a]) /\ e.kind = "Put" <=>
                                e \in Range(queue[a]) /\ e.kind = "Put"
    BY ValueTypes, QuietMoveKeeps DEF QuietPuts
  <1>2. \A a \in Nodes : /\ ops[a] \in Nat /\ ops'[a] \in Nat /\ ops[a] <= ops'[a]
                         /\ queue[a] \in Seq(Message)
    BY KVAssumption, ValueTypes DEF QuietPuts, TypeOK
  <1>3. \A a \in Nodes : \A m \in Range(queue[a]) : m \in Message /\ m.from \in Nodes
    BY InboxTypes
  <1>4. PutsOrdered'
    <2>1. ASSUME NEW h \in Nodes
          PROVE  InOrder(queue'[h])
      BY <1>2, QuietMoveKeeps DEF QuietPuts, PutsInv, PutsOrdered
    <2>2. ASSUME NEW h \in Nodes, NEW m \in Range(queue'[h]), m.kind = "Put"
          PROVE  m.from # h /\ m.val.by = m.from /\ m.val.seq <= ops'[m.from]
      <3>1. m \in Range(queue[h]) /\ m.from \in Nodes
        BY <1>1, <1>3, <2>2
      <3>2. m.from # h /\ m.val.by = m.from /\ m.val.seq <= ops[m.from]
        BY <2>2, <3>1 DEF PutsInv, PutsOrdered
      <3>3. m.val \in Value
        BY <2>2, <3>1 DEF IndInv, QueueHomed, WellHomed
      <3>4. QED
        BY <1>2, <3>1, <3>2, <3>3, ValueFields
    <2>3. QED
      BY <2>1, <2>2 DEF PutsOrdered
  <1>5. LogBehind'
    <2> SUFFICES ASSUME NEW k \in Keys, NEW v \in Range(log[k])
                 PROVE  /\ v.seq <= ops'[v.by]
                        /\ \A m \in Range(queue'[Home[k]]) :
                             m.kind = "Put" /\ m.from = v.by /\ m.key = k => v.seq < m.val.seq
      BY DEF QuietPuts, LogBehind
    <2>1. v.by \in Nodes /\ v.seq \in Nat /\ v.seq <= ops[v.by] /\ Home[k] \in Nodes
      BY ValueTypes DEF PutsInv, LogBehind
    <2>2. v.seq <= ops'[v.by]
      BY <1>2, <2>1
    <2>3. QED
      BY <1>1, <2>1, <2>2 DEF PutsInv, LogBehind
  <1>6. LogDistinct' /\ LogLast'
    BY DEF QuietPuts, PutsInv, LogDistinct, LogLast
  <1>7. LastPutKnown'
    <2>1. \A k \in Keys : Home[k] \in Nodes
      BY ValueTypes
    <2>2. QED
      BY <1>1, <2>1 DEF QuietPuts, PutsInv, LastPutKnown
  <1>8. QED
    BY <1>4, <1>5, <1>6, <1>7 DEF PutsInv

\* A value joins the log of one key.
LogGains(k, v) == log' = [log EXCEPT ![k] = Append(log[k], v)]

\* What that does to the values that were taken.
LEMMA LogGainsEffect ==
  ASSUME TypeOK, NEW k \in Keys, NEW v \in Value, LogGains(k, v)
  PROVE  /\ \A c \in Keys : log'[c] = IF c = k THEN Append(log[k], v) ELSE log[c]
         /\ \A c \in Keys : Range(log'[c]) = IF c = k THEN Range(log[k]) \cup {v} ELSE Range(log[c])
         /\ log'[k] # <<>> /\ log'[k][Len(log'[k])] = v
  <1>1. \A c \in Keys : log'[c] = IF c = k THEN Append(log[k], v) ELSE log[c]
    BY DEF LogGains, TypeOK
  <1>2. PICK l \in Seq(Value) : l = log[k]
    BY ValueTypes
  <1>3. Range(Append(l, v)) = Range(l) \cup {v}
    BY RangeAppend
  <1>4. Append(l, v) # <<>> /\ Append(l, v)[Len(Append(l, v))] = v
    OBVIOUS
  <1>5. QED
    BY <1>1, <1>2, <1>3, <1>4

\* A store takes a value that is newer than those it took from the same node.
LEMMA StoreTakes ==
  ASSUME TypeOK, LogDistinct, LogLast, NEW k \in Keys, NEW v \in Value, LogGains(k, v),
         kvMap' = [kvMap EXCEPT ![Home[k]][k] = v],
         \A u \in Range(log[k]) : u.by = v.by => u.seq < v.seq
  PROVE  LogDistinct' /\ LogLast'
  <1>1. PICK l \in Seq(Value) : l = log[k]
    BY ValueTypes
  <1>2. \A c \in Keys : log'[c] = IF c = k THEN Append(l, v) ELSE log[c]
    BY <1>1, LogGainsEffect
  <1>3. v.seq \in Nat
    BY ValueFields
  <1>4. \A u \in Range(l) : u # v
    BY <1>1, <1>3
  <1>5. LogDistinct'
    <2>1. ASSUME NEW i \in DOMAIN Append(l, v), NEW j \in DOMAIN Append(l, v), i # j
          PROVE  Append(l, v)[i] # Append(l, v)[j]
      <3> DEFINE q == Append(l, v)
      <3>1. /\ DOMAIN q = 1 .. Len(l) + 1 /\ DOMAIN l = 1 .. Len(l) /\ Len(l) \in Nat
            /\ \A e \in 1 .. Len(l) : q[e] = l[e]
            /\ q[Len(l) + 1] = v
        OBVIOUS
      <3>2. \A e \in DOMAIN l : l[e] \in Range(l)
        BY DEF Range
      <3> HIDE DEF q
      <3>3. CASE i \in DOMAIN l /\ j \in DOMAIN l
        BY <1>1, <2>1, <3>1, <3>3 DEF LogDistinct, q
      <3>4. CASE i \in DOMAIN l /\ j \notin DOMAIN l
        <4>1. q[j] = v /\ q[i] = l[i] /\ l[i] # v
          BY <1>4, <3>1, <3>2, <3>4 DEF q
        <4>2. QED
          BY <4>1 DEF q
      <3>5. CASE i \notin DOMAIN l
        <4>1. q[i] = v /\ j \in DOMAIN l
          BY <2>1, <3>1, <3>5 DEF q
        <4>2. q[j] = l[j] /\ l[j] # v
          BY <1>4, <3>1, <3>2, <4>1
        <4>3. QED
          BY <4>1, <4>2 DEF q
      <3>6. QED
        BY <3>3, <3>4, <3>5
    <2>2. ASSUME NEW c \in Keys
          PROVE  \A i, j \in DOMAIN log'[c] : i # j => log'[c][i] # log'[c][j]
      <3> DEFINE q == Append(l, v)
      <3>1. \A i, j \in DOMAIN q : i # j => q[i] # q[j]
        BY <2>1
      <3> HIDE DEF q
      <3>2. log'[c] = IF c = k THEN q ELSE log[c]
        BY <1>2 DEF q
      <3>3. CASE c = k
        BY <3>1, <3>2, <3>3
      <3>4. CASE c # k
        BY <3>2, <3>4 DEF LogDistinct
      <3>5. QED
        BY <3>3, <3>4
    <2>3. QED
      BY <2>2 DEF LogDistinct
  <1>6. LogLast'
    <2>1. \A c \in Keys : kvMap'[Home[c]][c] = IF c = k THEN v ELSE kvMap[Home[c]][c]
      BY ValueTypes DEF TypeOK
    <2>2. log'[k] # <<>> /\ log'[k][Len(log'[k])] = v
      BY LogGainsEffect
    <2>3. \A c \in Keys : c # k => log'[c] = log[c]
      BY <1>2
    <2>4. QED
      BY <2>1, <2>2, <2>3 DEF LogLast
  <1>7. QED
    BY <1>5, <1>6

\* The last put of one key by one node is from its present call.
LEMMA LastPutBecomes ==
  ASSUME TypeOK, NEW n \in Nodes, NEW b \in Keys, Call(n),
         lastPut' = [lastPut EXCEPT ![n][b] = ops[n] + 1]
  PROVE  \A a \in Nodes, k \in Keys :
           lastPut'[a][k] = IF a = n /\ k = b THEN ops[n] + 1 ELSE lastPut[a][k]
  <1>1. lastPut \in [Nodes -> [Keys -> 0 .. MaxOps]] /\ ops[n] + 1 \in 0 .. MaxOps
    BY CallEffect DEF TypeOK
  <1>2. PICK x \in 0 .. MaxOps : x = ops[n] + 1
    BY <1>1
  <1>3. \A a \in Nodes, k \in Keys :
          [lastPut EXCEPT ![n][b] = x][a][k] = IF a = n /\ k = b THEN x ELSE lastPut[a][k]
    BY <1>1, Except2Type
  <1>4. QED
    BY <1>2, <1>3

\* A put of a key that lives elsewhere.
LEMMA PutRemotePuts ==
  ASSUME IndInv, TypeOK', PutsInv, NEW n \in Nodes, NEW b \in Keys, PutRemote(n, b)
  PROVE  PutsInv'
  <1> TypeOK
    BY DEF IndInv
  <1>1. PICK h \in Nodes : h = Home[b] /\ h # n
    BY ValueTypes DEF PutRemote
  <1>2. PICK v \in Value : v = NextValue(n)
    BY CallEffect DEF PutRemote
  <1>3. v.by = n /\ v.seq = ops[n] + 1 /\ v = PutBy(n, ops[n] + 1)
    BY <1>2 DEF NextValue, PutBy
  <1>4. PICK m : m = DataMsg("Put", n, b, v)
    OBVIOUS
  <1>5. m \in Message /\ m.kind = "Put" /\ m.from = n /\ m.key = b /\ m.val = v
    BY <1>4, MessageTypes DEF MsgKind, DataMsg
  <1>6. Send(h, m) /\ UNCHANGED <<log, kvMap>>
    BY <1>1, <1>2, <1>4 DEF PutRemote, store
  <1>7. \A a \in Nodes :
          Range(queue'[a]) = IF a = h THEN Range(queue[a]) \cup {m} ELSE Range(queue[a])
    BY <1>5, <1>6, SendEffect
  <1>8. \A a \in Nodes : /\ ops[a] \in Nat /\ queue[a] \in Seq(Message)
                         /\ ops'[a] = IF a = n THEN ops[a] + 1 ELSE ops[a]
    BY ValueTypes DEF PutRemote, Call, TypeOK
  <1>9. \A a \in Nodes : \A e \in Range(queue[a]) : e.kind = "Put" =>
          e.from # a /\ e.from \in Nodes /\ e.val.by = e.from /\ e.val.seq <= ops[e.from] /\ e.val.seq \in Nat
    <2> SUFFICES ASSUME NEW a \in Nodes, NEW e \in Range(queue[a]), e.kind = "Put"
                 PROVE  e.from # a /\ e.from \in Nodes /\ e.val.by = e.from /\ e.val.seq <= ops[e.from] /\ e.val.seq \in Nat
      OBVIOUS
    <2>1. e.from \in Nodes
      BY InboxTypes
    <2>2. e.val \in Value
      BY DEF IndInv, QueueHomed, WellHomed
    <2>3. QED
      BY <2>1, <2>2, ValueFields DEF PutsInv, PutsOrdered
  <1>10. PutsOrdered'
    <2>1. ASSUME NEW a \in Nodes PROVE InOrder(queue'[a])
      <3>1. CASE a = h
        <4>1. queue'[h] = Append(queue[h], m)
          BY <1>6 DEF Send, TypeOK
        <4>2. \A e \in Range(queue[h]) : e.kind = "Put" /\ e.from = m.from => e.val.seq < m.val.seq
          BY <1>3, <1>5, <1>8, <1>9
        <4>3. QED
          BY <1>5, <1>8, <3>1, <4>1, <4>2, PushInOrder DEF PutsInv, PutsOrdered
      <3>2. CASE a # h
        BY <1>6, <3>2 DEF Send, TypeOK, PutsInv, PutsOrdered
      <3>3. QED
        BY <3>1, <3>2
    <2>2. ASSUME NEW a \in Nodes, NEW e \in Range(queue'[a]), e.kind = "Put"
          PROVE  e.from # a /\ e.val.by = e.from /\ e.val.seq <= ops'[e.from]
      <3>1. CASE e \in Range(queue[a])
        BY <1>8, <1>9, <2>2, <3>1
      <3>2. CASE e = m /\ a = h
        BY <1>1, <1>3, <1>5, <1>8, <3>2
      <3>3. QED
        BY <1>7, <3>1, <3>2
    <2>3. QED
      BY <2>1, <2>2 DEF PutsOrdered
  <1>11. LogBehind'
    <2> SUFFICES ASSUME NEW k \in Keys, NEW u \in Range(log[k])
                 PROVE  /\ u.seq <= ops'[u.by]
                        /\ \A e \in Range(queue'[Home[k]]) :
                             e.kind = "Put" /\ e.from = u.by /\ e.key = k => u.seq < e.val.seq
      BY <1>6 DEF LogBehind
    <2>1. u.by \in Nodes /\ u.seq \in Nat /\ u.seq <= ops[u.by] /\ Home[k] \in Nodes
      BY ValueTypes DEF PutsInv, LogBehind
    <2>2. u.seq <= ops'[u.by]
      BY <1>8, <2>1
    <2>3. u.by = n => u.seq < v.seq
      BY <1>3, <1>8, <2>1
    <2>4. QED
      BY <1>5, <1>7, <2>1, <2>2, <2>3 DEF PutsInv, LogBehind
  <1>12. LogDistinct' /\ LogLast'
    BY <1>6 DEF PutsInv, LogDistinct, LogLast
  <1>13. LastPutKnown'
    <2>1. \A a \in Nodes, k \in Keys :
            lastPut'[a][k] = IF a = n /\ k = b THEN ops[n] + 1 ELSE lastPut[a][k]
      BY LastPutBecomes DEF PutRemote
    <2>2. ASSUME NEW a \in Nodes, NEW k \in Keys, lastPut'[a][k] > 0
          PROVE  \/ PutBy(a, lastPut'[a][k]) \in Range(log[k])
                 \/ \E e \in Range(queue'[Home[k]]) :
                      e.kind = "Put" /\ e.from = a /\ e.key = k /\ e.val = PutBy(a, lastPut'[a][k])
      <3>1. CASE a = n /\ k = b
        <4>1. m \in Range(queue'[Home[k]])
          BY <1>1, <1>7, <3>1
        <4>2. QED
          BY <1>3, <1>5, <2>1, <3>1, <4>1
      <3>2. CASE ~(a = n /\ k = b)
        <4>1. Range(queue[Home[k]]) \subseteq Range(queue'[Home[k]])
          BY <1>7, ValueTypes
        <4>2. QED
          BY <2>1, <2>2, <3>2, <4>1 DEF PutsInv, LastPutKnown
      <3>3. QED
        BY <3>1, <3>2
    <2>3. QED
      BY <1>6, <2>2 DEF LastPutKnown
  <1>14. QED
    BY <1>10, <1>11, <1>12, <1>13 DEF PutsInv

\* A put by the home of the key.
LEMMA PutLocalPuts ==
  ASSUME IndInv, TypeOK', PutsInv, NEW n \in Nodes, NEW b \in Keys, PutLocal(n, b)
  PROVE  PutsInv' /\ \E v \in Value : LogGains(b, v) /\ kvMap' = [kvMap EXCEPT ![n][b] = v]
  <1> TypeOK
    BY DEF IndInv
  <1>1. PICK v \in Value : v = NextValue(n)
    BY CallEffect DEF PutLocal
  <1>2. v.by = n /\ v.seq = ops[n] + 1 /\ v = PutBy(n, ops[n] + 1)
    BY <1>1 DEF NextValue, PutBy
  <1>3. /\ LogGains(b, v) /\ kvMap' = [kvMap EXCEPT ![Home[b]][b] = v]
        /\ Home[b] = n /\ UNCHANGED queue
    BY <1>1 DEF PutLocal, StoreValue, LogGains
  <1>4. \A a \in Nodes : /\ ops[a] \in Nat
                         /\ ops'[a] = IF a = n THEN ops[a] + 1 ELSE ops[a]
    BY ValueTypes DEF PutLocal, Call, TypeOK
  <1>5. \A k \in Keys : \A u \in Range(log[k]) : u.by \in Nodes /\ u.seq \in Nat /\ u.seq <= ops[u.by]
    BY ValueTypes DEF PutsInv, LogBehind
  <1>6. \A u \in Range(log[b]) : u.by = v.by => u.seq < v.seq
    BY <1>2, <1>4, <1>5
  <1>7. LogDistinct' /\ LogLast'
    BY <1>3, <1>6, StoreTakes DEF PutsInv
  <1>8. \A k \in Keys : Range(log'[k]) = IF k = b THEN Range(log[b]) \cup {v} ELSE Range(log[k])
    BY <1>3, LogGainsEffect
  <1>9. PutsOrdered'
    <2>1. ASSUME NEW a \in Nodes, NEW e \in Range(queue[a]), e.kind = "Put"
          PROVE  e.from # a /\ e.val.by = e.from /\ e.val.seq <= ops'[e.from]
      <3>1. e.from \in Nodes
        BY InboxTypes
      <3>2. e.val \in Value
        BY <2>1 DEF IndInv, QueueHomed, WellHomed
      <3>3. e.from # a /\ e.val.by = e.from /\ e.val.seq <= ops[e.from] /\ e.val.seq \in Nat
        BY <2>1, <3>2, ValueFields DEF PutsInv, PutsOrdered
      <3>4. QED
        BY <1>4, <3>1, <3>3
    <2>2. QED
      BY <1>3, <2>1 DEF PutsInv, PutsOrdered
  <1>10. LogBehind'
    <2> SUFFICES ASSUME NEW k \in Keys, NEW u \in Range(log'[k])
                 PROVE  /\ u.seq <= ops'[u.by]
                        /\ \A e \in Range(queue[Home[k]]) :
                             e.kind = "Put" /\ e.from = u.by /\ e.key = k => u.seq < e.val.seq
      BY <1>3 DEF LogBehind
    <2>1. CASE u \in Range(log[k])
      <3>1. u.seq <= ops'[u.by]
        BY <1>4, <1>5, <2>1
      <3>2. QED
        BY <2>1, <3>1 DEF PutsInv, LogBehind
    <2>2. CASE u = v /\ k = b
      <3>1. \A e \in Range(queue[n]) : e.kind = "Put" => e.from # n
        BY DEF PutsInv, PutsOrdered
      <3>2. u.seq <= ops'[u.by]
        BY <1>2, <1>4, <2>2
      <3>3. QED
        BY <1>2, <1>3, <2>2, <3>1, <3>2
    <2>3. QED
      BY <1>8, <2>1, <2>2
  <1>11. LastPutKnown'
    <2>1. \A a \in Nodes, k \in Keys :
            lastPut'[a][k] = IF a = n /\ k = b THEN ops[n] + 1 ELSE lastPut[a][k]
      BY LastPutBecomes DEF PutLocal
    <2>2. v \in Range(log'[b])
      BY <1>8
    <2>3. \A k \in Keys : Range(log[k]) \subseteq Range(log'[k])
      BY <1>8
    <2>4. QED
      BY <1>2, <1>3, <2>1, <2>2, <2>3 DEF PutsInv, LastPutKnown
  <1>12. QED
    BY <1>3, <1>7, <1>9, <1>10, <1>11 DEF PutsInv

\* A put that reaches the home of its key: it is the oldest on its way from its node.
LEMMA ReceivePutPuts ==
  ASSUME IndInv, TypeOK', PutsInv, NEW h \in Nodes, ReceivePut(h)
  PROVE  /\ PutsInv'
         /\ \E m \in Range(queue[h]) :
              /\ m = Head(queue[h]) /\ m.kind = "Put" /\ m.key \in Keys /\ Home[m.key] = h
              /\ m.val \in Value /\ m.from \in Nodes
              /\ StoreValue(h, "rt", m.key, m.val) /\ LogGains(m.key, m.val) /\ UNCHANGED aborted
              /\ \A e \in Range(Tail(queue[h])) :
                   e.kind = "Put" /\ e.from = m.from => m.val.seq < e.val.seq
  <1> TypeOK
    BY DEF IndInv
  <1>1. PICK s \in Seq(Message) : s = queue[h] /\ s # <<>>
    BY ValueTypes DEF ReceivePut, Receive
  <1>2. PICK m : m = Head(s)
    OBVIOUS
  <1>3. m \in Range(s) /\ m \in Message /\ m.kind = "Put" /\ m.from \in Nodes
    <2>1. m \in Range(s)
      BY <1>1, <1>2, RangeTail
    <2>2. QED
      BY <1>1, <1>2, <2>1, InboxTypes DEF ReceivePut, Receive
  <1>4. m.key \in Keys /\ Home[m.key] = h /\ m.val \in Value
    BY <1>1, <1>3 DEF IndInv, QueueHomed, WellHomed
  <1>5. PICK k \in Keys, v \in Value : k = m.key /\ v = m.val
    BY <1>4
  <1>6. StoreValue(h, "rt", k, v) /\ UNCHANGED aborted
    BY <1>1, <1>2, <1>4, <1>5 DEF ReceivePut
  <1>7. LogGains(k, v) /\ kvMap' = [kvMap EXCEPT ![Home[k]][k] = v]
    BY <1>4, <1>5, <1>6 DEF StoreValue, LogGains
  <1>8. \A a \in Nodes : queue'[a] = IF a = h THEN Tail(s) ELSE queue[a]
    BY <1>1 DEF ReceivePut, Receive, TypeOK
  <1>9. v.by = m.from /\ v.seq \in Nat
    BY <1>1, <1>3, <1>5, ValueFields DEF PutsInv, PutsOrdered
  <1>10. InOrder(s)
    BY <1>1 DEF PutsInv, PutsOrdered
  <1>11. InOrder(Tail(s)) /\ \A e \in Range(Tail(s)) :
           e.kind = "Put" /\ e.from = m.from => v.seq < e.val.seq
    BY <1>1, <1>2, <1>3, <1>5, <1>10, PopInOrder
  <1>12. \A u \in Range(log[k]) : u.by = v.by => u.seq < v.seq
    BY <1>1, <1>3, <1>4, <1>5, <1>9 DEF PutsInv, LogBehind
  <1>13. LogDistinct' /\ LogLast'
    BY <1>7, <1>12, StoreTakes DEF PutsInv
  <1>14. \A c \in Keys : Range(log'[c]) = IF c = k THEN Range(log[k]) \cup {v} ELSE Range(log[c])
    BY <1>7, LogGainsEffect
  <1>15. UNCHANGED <<ops, lastPut>>
    BY DEF ReceivePut
  <1>16. Range(Tail(s)) \subseteq Range(s) /\ \A e \in Range(s) : e = m \/ e \in Range(Tail(s))
    BY <1>1, <1>2, RangeTail, RangeHeadTail
  <1>17. PutsOrdered'
    BY <1>1, <1>8, <1>11, <1>15, <1>16 DEF PutsInv, PutsOrdered
  <1>18. LogBehind'
    <2> SUFFICES ASSUME NEW c \in Keys, NEW u \in Range(log'[c])
                 PROVE  /\ u.seq <= ops[u.by]
                        /\ \A e \in Range(queue'[Home[c]]) :
                             e.kind = "Put" /\ e.from = u.by /\ e.key = c => u.seq < e.val.seq
      BY <1>15 DEF LogBehind
    <2>1. Range(queue'[Home[c]]) \subseteq Range(queue[Home[c]])
      BY <1>1, <1>8, <1>16, ValueTypes
    <2>2. CASE u \in Range(log[c])
      BY <2>1, <2>2 DEF PutsInv, LogBehind
    <2>3. CASE u = v /\ c = k
      <3>1. v.seq <= ops[v.by]
        BY <1>1, <1>3, <1>5, <1>9 DEF PutsInv, PutsOrdered
      <3>2. Range(queue'[Home[c]]) = Range(Tail(s))
        BY <1>4, <1>5, <1>8, <2>3
      <3>3. QED
        BY <1>9, <1>11, <2>3, <3>1, <3>2
    <2>4. QED
      BY <1>14, <2>2, <2>3
  <1>19. LastPutKnown'
    <2> SUFFICES ASSUME NEW a \in Nodes, NEW c \in Keys, lastPut[a][c] > 0
                 PROVE  \/ PutBy(a, lastPut[a][c]) \in Range(log'[c])
                        \/ \E e \in Range(queue'[Home[c]]) :
                             e.kind = "Put" /\ e.from = a /\ e.key = c /\ e.val = PutBy(a, lastPut[a][c])
      BY <1>15 DEF LastPutKnown
    <2>1. CASE PutBy(a, lastPut[a][c]) \in Range(log[c])
      BY <1>14, <2>1
    <2>2. ASSUME NEW e \in Range(queue[Home[c]]),
                 e.kind = "Put", e.from = a, e.key = c, e.val = PutBy(a, lastPut[a][c])
          PROVE  \/ PutBy(a, lastPut[a][c]) \in Range(log'[c])
                 \/ e \in Range(queue'[Home[c]])
      <3>1. CASE e = m
        BY <1>5, <1>14, <2>2, <3>1
      <3>2. CASE e # m
        BY <1>1, <1>8, <1>16, <2>2, <3>2, ValueTypes
      <3>3. QED
        BY <3>1, <3>2
    <2>3. QED
      BY <2>1, <2>2 DEF PutsInv, LastPutKnown
  <1>20. PutsInv'
    BY <1>13, <1>17, <1>18, <1>19 DEF PutsInv
  <1>21. QED
    BY <1>1, <1>2, <1>3, <1>4, <1>5, <1>6, <1>7, <1>11, <1>20

-----------------------------------------------------------------------------
(* What gets return *)

\* Among the values l that a store took, u is v or older.
Precedes(l, u, v) == \E i, j \in DOMAIN l : i <= j /\ l[i] = u /\ l[j] = v

\* Among them is v, not older than call owes of n, if there is one, nor than prev, if there is one.
FreshIn(l, n, owes, prev, v) ==
  /\ v \in Range(l)
  /\ owes > 0 => Precedes(l, PutBy(n, owes), v)
  /\ prev # NoValue => Precedes(l, prev, v)

\* A get of k by n may return v.
FreshFor(n, k, v) == FreshIn(log[k], n, lastPut[n][k], lastRead[n][k], v)

\* What a node got was taken before.
LastReadKnown ==
  \A n \in Nodes, k \in Keys : lastRead[n][k] # NoValue => lastRead[n][k] \in Range(log[k])

\* A thread that is inside put, after kvMap_->put.
Putting == {"handleCache", "serve"}

\* Its key has a value.
Stored == \A n \in Nodes, t \in Threads : pc[n][t] \in Putting => log[key[n][t]] # <<>>

\* The puts of a node reach a home before the request of its get.
PutsFirst == \A n \in Nodes, k \in Keys : WaitsFor(n, k) => Followed(queue[Home[k]], n, k)

\* What comes back to a get may be returned by it.
RepliesFresh ==
  \A n \in Nodes, k \in Keys : WaitsFor(n, k) /\ ~Leaked(n) =>
    /\ \A m \in Range(queue[n]) \cup Range(msgCache[n][k]) :
         IsReply(m, k) => FreshFor(n, k, m.val)
    /\ Answering(n, k) /\ found[Home[k]] # NoValue => FreshFor(n, k, found[Home[k]])

\* What the last get returned was such a value.
ResultsFresh ==
  \A n \in Nodes : result[n].val # NoValue =>
    /\ result[n].key \in Keys
    /\ FreshIn(log[result[n].key], n, result[n].owes, result[n].prev, result[n].val)

\* The inductive invariant, above GetInv.
SessionInv ==
  PutsInv /\ LastReadKnown /\ Stored /\ PutsFirst /\ RepliesFresh /\ ResultsFresh

\* What a step may do to the values that the stores took.
Grows ==
  \A k \in Keys : log'[k] = log[k] \/ \E v \in Value : log'[k] = Append(log[k], v)

\* The order of the values does not change when the store takes another one.
LEMMA PrecedesGrows ==
  ASSUME NEW l \in Seq(Value), NEW x \in Value, NEW u, NEW v, Precedes(l, u, v)
  PROVE  Precedes(Append(l, x), u, v)
  <1>1. \A i \in DOMAIN l : i \in DOMAIN Append(l, x) /\ Append(l, x)[i] = l[i]
    OBVIOUS
  <1>2. QED
    BY <1>1 DEF Precedes

\* The last value is the newest.
LEMMA LastNewest ==
  ASSUME NEW l \in Seq(Value), NEW u \in Range(l)
  PROVE  l # <<>> /\ l[Len(l)] \in Range(l) /\ Precedes(l, u, l[Len(l)])
  <1>1. PICK i \in DOMAIN l : l[i] = u
    BY DEF Range
  <1>2. i \in 1 .. Len(l) /\ Len(l) \in DOMAIN l /\ i <= Len(l)
    BY <1>1
  <1>3. l # <<>>
    BY <1>2
  <1>4. QED
    BY <1>1, <1>2, <1>3 DEF Range, Precedes

\* A value that may be returned stays one.
LEMMA FreshGrows ==
  ASSUME NEW l \in Seq(Value), NEW q, q = l \/ \E x \in Value : q = Append(l, x),
         NEW n, NEW owes, NEW prev, NEW v, FreshIn(l, n, owes, prev, v)
  PROVE  FreshIn(q, n, owes, prev, v)
  <1>1. ASSUME NEW x \in Value, q = Append(l, x)
        PROVE  FreshIn(q, n, owes, prev, v)
    <2>1. Range(q) = Range(l) \cup {x}
      BY <1>1, RangeAppend
    <2>2. QED
      BY <1>1, <2>1, PrecedesGrows DEF FreshIn
  <1>2. QED
    BY <1>1

\* A step that takes no value, or one, lets the logs grow.
LEMMA GrowsIf ==
  ASSUME TypeOK, UNCHANGED log \/ \E k \in Keys, v \in Value : LogGains(k, v)
  PROVE  Grows
  BY LogGainsEffect DEF Grows

\* What was taken remains.
LEMMA RangeGrows ==
  ASSUME TypeOK, Grows, NEW k \in Keys
  PROVE  /\ Range(log[k]) \subseteq Range(log'[k])
         /\ log[k] # <<>> => log'[k] # <<>>
  <1>1. PICK l \in Seq(Value) : l = log[k]
    BY ValueTypes
  <1>2. ASSUME NEW v \in Value
        PROVE  Range(l) \subseteq Range(Append(l, v)) /\ Append(l, v) # <<>>
    <2>1. Range(Append(l, v)) = Range(l) \cup {v}
      BY RangeAppend
    <2>2. Len(Append(l, v)) = Len(l) + 1 /\ Len(l) \in Nat
      OBVIOUS
    <2>3. Append(l, v) # <<>>
      BY <2>2
    <2>4. QED
      BY <2>1, <2>3
  <1>3. QED
    BY <1>1, <1>2 DEF Grows

\* The parts of the invariant, as steps keep them.
LEMMA LastReadKept ==
  ASSUME TypeOK, LastReadKnown, Grows,
         \A n \in Nodes, k \in Keys :
           lastRead'[n][k] = lastRead[n][k] \/ lastRead'[n][k] \in Range(log[k])
  PROVE  LastReadKnown'
  BY RangeGrows DEF LastReadKnown

\* A thread that puts stores first.
LEMMA StoredKept ==
  ASSUME IndInv, Stored, Grows,
         \A n \in Nodes, t \in Threads : pc'[n][t] \in Putting =>
           \/ pc[n][t] \in Putting /\ key'[n][t] = key[n][t]
           \/ log'[key'[n][t]] # <<>>
  PROVE  Stored'
  <1> SUFFICES ASSUME NEW n \in Nodes, NEW t \in Threads, pc'[n][t] \in Putting,
                      pc[n][t] \in Putting, key'[n][t] = key[n][t]
               PROVE  log'[key[n][t]] # <<>>
    BY DEF Stored
  <1>1. key[n][t] \in Keys /\ log[key[n][t]] # <<>>
    BY DEF IndInv, ThreadsHomed, Stored, Putting
  <1>2. QED
    BY <1>1, RangeGrows DEF IndInv

\* A get goes on where it was.
LEMMA PutsFirstKept ==
  ASSUME TypeOK, PutsFirst,
         \A n \in Nodes, k \in Keys : WaitsFor(n, k)' => WaitsFor(n, k),
         \A a \in Nodes : QuietMove(queue[a], queue'[a])
  PROVE  PutsFirst'
  <1> SUFFICES ASSUME NEW n \in Nodes, NEW k \in Keys, WaitsFor(n, k)'
               PROVE  Followed(queue'[Home[k]], n, k)
    BY DEF PutsFirst, Followed, IsRequest
  <1>1. Home[k] \in Nodes /\ queue[Home[k]] \in Seq(Message)
    BY ValueTypes
  <1>2. Followed(queue[Home[k]], n, k)
    BY DEF PutsFirst
  <1>3. QED
    BY <1>1, <1>2, QuietMoveKeeps

\* What comes back was on its way before, or is new and may be returned.
LEMMA RepliesKept ==
  ASSUME TypeOK, RepliesFresh, Grows,
         \A n \in Nodes, k \in Keys : WaitsFor(n, k)' /\ ~Leaked(n)' =>
           /\ WaitsFor(n, k) /\ ~Leaked(n)
           /\ lastPut'[n][k] = lastPut[n][k] /\ lastRead'[n][k] = lastRead[n][k]
           /\ \A m \in Range(queue'[n]) \cup Range(msgCache'[n][k]) : IsReply(m, k) =>
                \/ m \in Range(queue[n]) \cup Range(msgCache[n][k])
                \/ FreshFor(n, k, m.val)
           /\ Answering(n, k)' /\ found'[Home[k]] # NoValue =>
                \/ Answering(n, k) /\ found'[Home[k]] = found[Home[k]]
                \/ FreshFor(n, k, found'[Home[k]])
  PROVE  RepliesFresh'
  <1> SUFFICES ASSUME NEW n \in Nodes, NEW k \in Keys, WaitsFor(n, k)', ~Leaked(n)'
               PROVE  /\ \A m \in Range(queue'[n]) \cup Range(msgCache'[n][k]) :
                           IsReply(m, k) => FreshFor(n, k, m.val)'
                      /\ Answering(n, k)' /\ found'[Home[k]] # NoValue =>
                           FreshFor(n, k, found[Home[k]])'
    BY DEF RepliesFresh, IsReply
  <1>1. WaitsFor(n, k) /\ ~Leaked(n) /\ log[k] \in Seq(Value)
    BY ValueTypes
  <1>2. ASSUME NEW v, FreshFor(n, k, v)
        PROVE  FreshIn(log'[k], n, lastPut'[n][k], lastRead'[n][k], v)
    <2>1. FreshIn(log[k], n, lastPut'[n][k], lastRead'[n][k], v)
      BY <1>2 DEF FreshFor
    <2>2. log'[k] = log[k] \/ \E x \in Value : log'[k] = Append(log[k], x)
      BY DEF Grows
    <2>3. QED
      BY <1>1, <2>1, <2>2, FreshGrows
  <1>3. ASSUME NEW m \in Range(queue'[n]) \cup Range(msgCache'[n][k]), IsReply(m, k)
        PROVE  FreshFor(n, k, m.val)'
    <2>1. FreshFor(n, k, m.val)
      BY <1>1, <1>3 DEF RepliesFresh
    <2>2. QED
      BY <1>2, <2>1 DEF FreshFor
  <1>4. ASSUME Answering(n, k)', found'[Home[k]] # NoValue
        PROVE  FreshFor(n, k, found[Home[k]])'
    <2>1. FreshFor(n, k, found'[Home[k]])
      BY <1>1, <1>4 DEF RepliesFresh
    <2>2. QED
      BY <1>2, <2>1 DEF FreshFor
  <1>5. QED
    BY <1>3, <1>4

\* What a get returned stays, until another returns.
LEMMA ResultsKept ==
  ASSUME TypeOK, ResultsFresh, Grows,
         \A n \in Nodes :
           \/ result'[n] = result[n]
           \/ result'[n].val = NoValue
           \/ /\ result'[n].key \in Keys
              /\ FreshIn(log[result'[n].key], n, result'[n].owes, result'[n].prev, result'[n].val)
  PROVE  ResultsFresh'
  <1> SUFFICES ASSUME NEW n \in Nodes, result'[n].val # NoValue
               PROVE  /\ result'[n].key \in Keys
                      /\ FreshIn(log'[result'[n].key], n, result'[n].owes, result'[n].prev,
                                 result'[n].val)
    BY DEF ResultsFresh, FreshIn, Precedes, PutBy
  <1>1. PICK r : r = result'[n]
    OBVIOUS
  <1>2. r.key \in Keys /\ FreshIn(log[r.key], n, r.owes, r.prev, r.val)
    BY <1>1 DEF ResultsFresh
  <1>3. log[r.key] \in Seq(Value)
    BY <1>2, ValueTypes
  <1>4. log'[r.key] = log[r.key] \/ \E x \in Value : log'[r.key] = Append(log[r.key], x)
    BY <1>2 DEF Grows
  <1>5. FreshIn(log'[r.key], n, r.owes, r.prev, r.val)
    BY <1>2, <1>3, <1>4, FreshGrows
  <1>6. QED
    BY <1>1, <1>2, <1>5

-----------------------------------------------------------------------------
(* Steps that neither put a value nor return one *)

\* No thread begins to put, to get or to answer.
NoneBegins ==
  \A a \in Nodes, u \in Threads :
    /\ pc'[a][u] \in Putting => pc[a][u] \in Putting /\ key'[a][u] = key[a][u]
    /\ pc'[a][u] \in Gets => pc[a][u] \in Gets /\ key'[a][u] = key[a][u]
    /\ pc'[a][u] = "answer" => pc[a][u] = "answer"

\* No node gets a reply that was not on its way to it.
NoNewReply ==
  \A n \in Nodes, k \in Keys : \A m \in Range(queue'[n]) \cup Range(msgCache'[n][k]) :
    IsReply(m, k) => m \in Range(queue[n]) \cup Range(msgCache[n][k])

\* Such a step keeps the invariant.
LEMMA IdleKeeps ==
  ASSUME GetInv, TypeOK', Kept, PutsInv, SessionInv, NoneBegins, NoNewReply,
         \A a \in Nodes : QuietMove(queue[a], queue'[a]),
         \A a \in Nodes : ops[a] <= ops'[a],
         UNCHANGED <<kvMap, request, found, result, log, lastPut, lastRead>>
  PROVE  SessionInv'
  <1>1. IndInv /\ TypeOK
    BY DEF GetInv, IndInv
  <1>2. PutsInv'
    BY <1>1, QuietKeepsPuts DEF QuietPuts
  <1>3. Grows
    BY <1>1, GrowsIf
  <1>4. LastReadKnown'
    BY <1>1, <1>3, LastReadKept DEF SessionInv
  <1>5. Stored'
    BY <1>1, <1>3, StoredKept DEF SessionInv, NoneBegins
  <1>6. \A n \in Nodes, k \in Keys : WaitsFor(n, k)' => WaitsFor(n, k)
    BY LabelTypes DEF NoneBegins, WaitsFor, Gets
  <1>7. PutsFirst'
    BY <1>1, <1>6, PutsFirstKept DEF SessionInv
  <1>8. RepliesFresh'
    <2>1. \A n \in Nodes : ~Leaked(n)' => ~Leaked(n)
      BY DEF Kept
    <2>2. \A n \in Nodes, k \in Keys : Answering(n, k)' => Answering(n, k)
      BY ValueTypes, LabelTypes, <1>1 DEF NoneBegins, Answering
    <2>3. QED
      BY <1>1, <1>3, <1>6, <2>1, <2>2, RepliesKept DEF SessionInv, NoNewReply
  <1>9. ResultsFresh'
    BY <1>1, <1>3, ResultsKept DEF SessionInv
  <1>10. QED
    BY <1>2, <1>4, <1>5, <1>7, <1>8, <1>9 DEF SessionInv

\* A thread that goes on, in its role or outside all of them.
LEMMA GotoBeginsNone ==
  ASSUME TypeOK, NEW h \in Nodes, NEW t \in Threads, NEW l \in Labels, Goto(h, t, l),
         \/ l \notin Putting \cup Gets \cup {"answer"}
         \/ l \in Putting /\ pc[h][t] \in Putting
         \/ l \in Gets /\ pc[h][t] \in Gets,
         \A a \in Nodes, u \in Threads :
           pc'[a][u] \in Putting \cup Gets => key'[a][u] = key[a][u]
  PROVE  NoneBegins
  <1>1. \A a \in Nodes, u \in Threads : pc'[a][u] = IF a = h /\ u = t THEN l ELSE pc[a][u]
    BY GotoEffect
  <1>2. QED
    BY <1>1 DEF NoneBegins, Putting, Gets

\* A push of a message that is no put moves quietly, and a push of no reply brings none.
LEMMA SendMovesQuietly ==
  ASSUME TypeOK, NEW h \in Nodes, NEW m \in Message, Send(h, m), m.kind # "Put"
  PROVE  /\ \A a \in Nodes : QuietMove(queue[a], queue'[a])
         /\ m.kind # "ReplyData" /\ UNCHANGED msgCache => NoNewReply
  <1>1. \A a \in Nodes : queue'[a] = IF a = h THEN Append(queue[a], m) ELSE queue[a]
    BY DEF Send, TypeOK
  <1>2. \A a \in Nodes : Range(queue'[a]) \subseteq Range(queue[a]) \cup {m}
    BY SendEffect
  <1>3. QED
    BY <1>1, <1>2 DEF QuietMove, NoNewReply, IsReply

\* So does a pop of a message that is no put.
LEMMA ReceiveMovesQuietly ==
  ASSUME TypeOK, NEW h \in Nodes, NEW kinds, Receive(h, kinds), "Put" \notin kinds
  PROVE  /\ \A a \in Nodes : QuietMove(queue[a], queue'[a])
         /\ UNCHANGED msgCache => NoNewReply
  <1>1. \A a \in Nodes : queue'[a] = IF a = h THEN Tail(queue[a]) ELSE queue[a]
    BY DEF Receive, TypeOK
  <1>2. \A a \in Nodes : Range(queue'[a]) \subseteq Range(queue[a])
    BY ReceiveEffect
  <1>3. queue[h] # <<>> /\ Head(queue[h]).kind # "Put"
    BY DEF Receive
  <1>4. QED
    BY <1>1, <1>2, <1>3 DEF QuietMove, NoNewReply

\* So does a step that leaves the inboxes alone.
LEMMA StayMovesQuietly ==
  ASSUME UNCHANGED queue
  PROVE  /\ \A a \in Nodes : QuietMove(queue[a], queue'[a])
         /\ (\A a \in Nodes, c \in Keys : Range(msgCache'[a][c]) \subseteq Range(msgCache[a][c]))
              => NoNewReply
  BY DEF QuietMove, NoNewReply

\* Steps of the application thread, and of tryToHandleCache_, that are such.
LEMMA AppIdles ==
  ASSUME GetInv, TypeOK', Kept, PutsInv, SessionInv, NEW h \in Nodes,
         \/ \E k \in Keys : SpinLocal(h, k)
         \/ WaitForReply(h) \/ SpuriousWakeup(h) \/ Join(h) \/ SendDone(h)
         \/ \E t \in Threads : TakeWaiters(h, t) \/ NoWaiters(h, t) \/ ServedAll(h, t)
  PROVE  SessionInv' /\ NoneBegins /\ NoNewReply /\ \A a \in Nodes : QuietMove(queue[a], queue'[a])
  <1>1. IndInv /\ TypeOK /\ "app" \in Threads /\ \A a \in Nodes : ops[a] \in Nat
    BY LabelTypes, ValueTypes DEF GetInv, IndInv
  <1>2. ASSUME NEW t \in Threads, NEW l \in Labels, Goto(h, t, l),
               \/ l \notin Putting \cup Gets \cup {"answer"}
               \/ l \in Putting /\ pc[h][t] \in Putting
               \/ l \in Gets /\ pc[h][t] \in Gets,
               UNCHANGED <<queue, key, ops, kvMap, request, found, result, log, lastPut, lastRead>>,
               \A a \in Nodes, c \in Keys : Range(msgCache'[a][c]) \subseteq Range(msgCache[a][c])
        PROVE  SessionInv' /\ NoneBegins /\ NoNewReply /\ \A a \in Nodes : QuietMove(queue[a], queue'[a])
    <2>1. NoneBegins
      BY <1>1, <1>2, GotoBeginsNone
    <2>2. NoNewReply /\ \A a \in Nodes : QuietMove(queue[a], queue'[a])
      BY <1>2, StayMovesQuietly
    <2>3. QED
      BY <1>1, <1>2, <2>1, <2>2, IdleKeeps
  <1>3. ASSUME NEW b \in Keys, SpinLocal(h, b)
        PROVE  SessionInv' /\ NoneBegins /\ NoNewReply /\ \A a \in Nodes : QuietMove(queue[a], queue'[a])
    <2>1. /\ Goto(h, "app", "spin") /\ key' = [key EXCEPT ![h]["app"] = b]
          /\ ops' = [ops EXCEPT ![h] = @ + 1] /\ pc[h]["app"] = "run"
          /\ UNCHANGED <<queue, kvMap, msgCache, request, found, result, log, lastPut, lastRead>>
      BY <1>3 DEF SpinLocal, Call, network, store, rtLocal, history
    <2>2. \A a \in Nodes, u \in Threads :
            key'[a][u] = IF a = h /\ u = "app" THEN b ELSE key[a][u]
      BY <1>1, <2>1, KeyEffect
    <2>3. \A a \in Nodes, u \in Threads :
            pc'[a][u] = IF a = h /\ u = "app" THEN "spin" ELSE pc[a][u]
      BY <1>1, <2>1, GotoEffect, LabelTypes
    <2>4. NoneBegins
      BY <2>2, <2>3 DEF NoneBegins, Putting, Gets
    <2>5. NoNewReply /\ \A a \in Nodes : QuietMove(queue[a], queue'[a])
      BY <2>1, StayMovesQuietly
    <2>6. \A a \in Nodes : ops[a] <= ops'[a]
      <3>1. \A a \in Nodes : ops'[a] = IF a = h THEN ops[a] + 1 ELSE ops[a]
        BY <1>1, <2>1 DEF TypeOK
      <3>2. QED
        BY <1>1, <3>1
    <2>7. QED
      BY <2>1, <2>4, <2>5, <2>6, IdleKeeps
  <1>4. CASE WaitForReply(h)
    BY <1>1, <1>2, <1>4, LabelTypes DEF WaitForReply, Gets, network, store, rtLocal, history
  <1>5. CASE SpuriousWakeup(h)
    BY <1>1, <1>2, <1>5, LabelTypes DEF SpuriousWakeup, Gets, network, store, rtLocal, history
  <1>6. CASE Join(h)
    <2>1. "exited" \in Labels /\ "exited" \notin Putting \cup Gets \cup {"answer"}
      BY LabelTypes DEF Putting, Gets
    <2>2. QED
      BY <1>1, <1>2, <1>6, <2>1 DEF Join, network, store, rtLocal, history
  <1>7. CASE SendDone(h)
    <2>1. PICK m : m = ControlMsg("Done", h)
      OBVIOUS
    <2>2. m \in Message /\ m.kind = "Done"
      BY <2>1, MessageTypes DEF MsgKind, ControlMsg
    <2>3. /\ Send(Server, m) /\ Goto(h, "app", "join")
          /\ UNCHANGED <<kvMap, msgCache, key, ops, request, found, result, log, lastPut, lastRead>>
      BY <1>7, <2>1 DEF SendDone, store, rtLocal, history
    <2>4. NoNewReply /\ \A a \in Nodes : QuietMove(queue[a], queue'[a])
      BY <1>1, <2>2, <2>3, KVAssumption, SendMovesQuietly
    <2>5. NoneBegins
      BY <1>1, <2>3, GotoBeginsNone, LabelTypes DEF Putting, Gets
    <2>6. \A a \in Nodes : ops[a] <= ops'[a]
      BY <1>1, <2>3
    <2>7. QED
      BY <2>3, <2>4, <2>5, <2>6, IdleKeeps
  <1>8. ASSUME NEW t \in Threads, TakeWaiters(h, t)
        PROVE  SessionInv' /\ NoneBegins /\ NoNewReply /\ \A a \in Nodes : QuietMove(queue[a], queue'[a])
    <2>1. key[h][t] \in Keys
      BY <1>1, <1>8 DEF TakeWaiters, IndInv, ThreadsHomed
    <2>2. RemoveArray(h, key[h][t])
      BY <1>8 DEF TakeWaiters
    <2>3. \A a \in Nodes, c \in Keys : Range(msgCache'[a][c]) \subseteq Range(msgCache[a][c])
      BY <1>1, <2>1, <2>2, RemoveArrayEffect
    <2>4. "serve" \in Labels /\ "serve" \in Putting /\ "handleCache" \in Putting
      BY LabelTypes DEF Putting
    <2>5. QED
      BY <1>2, <1>8, <2>3, <2>4 DEF TakeWaiters, network, rtLocal, history
  <1>9. ASSUME NEW t \in Threads, NoWaiters(h, t) \/ ServedAll(h, t)
        PROVE  SessionInv' /\ NoneBegins /\ NoNewReply /\ \A a \in Nodes : QuietMove(queue[a], queue'[a])
    <2>1. Idle(t) \in Labels /\ Idle(t) \notin Putting \cup Gets \cup {"answer"}
      BY LabelTypes DEF Idle, Putting, Gets
    <2>2. QED
      BY <1>2, <1>9, <2>1 DEF NoWaiters, ServedAll, network, store, rtLocal, history
  <1>10. QED
    BY <1>3, <1>4, <1>5, <1>6, <1>7, <1>8, <1>9

\* Steps of the receiver that are such.
LEMMA ReceiverIdles ==
  ASSUME GetInv, TypeOK', Kept, PutsInv, SessionInv, NEW h \in Nodes,
         \/ CacheRequest(h) \/ ReplyNull(h) \/ ReceiveReply(h)
         \/ ReceiveDone(h) \/ SendTeardown(h) \/ ReceiveTeardown(h)
  PROVE  SessionInv' /\ NoneBegins /\ NoNewReply /\ \A a \in Nodes : QuietMove(queue[a], queue'[a])
  <1>1. IndInv /\ TypeOK /\ "rt" \in Threads /\ \A a \in Nodes : ops[a] \in Nat
    BY LabelTypes, ValueTypes DEF GetInv, IndInv
  <1>2. ASSUME NoneBegins, NoNewReply, \A a \in Nodes : QuietMove(queue[a], queue'[a]),
               UNCHANGED <<ops, kvMap, request, found, result, log, lastPut, lastRead>>
        PROVE  SessionInv' /\ NoneBegins /\ NoNewReply /\ \A a \in Nodes : QuietMove(queue[a], queue'[a])
    BY <1>1, <1>2, IdleKeeps
  <1>3. ASSUME NEW c \in Keys, NEW m \in Message, AddToCache(h, c, m), UNCHANGED key
        PROVE  NoneBegins
    <2>1. \A a \in Nodes, u \in Threads :
            pc'[a][u] = IF a = h /\ u = "rt" THEN "receive"
                        ELSE IF a = h /\ u = "app" /\ pc[a][u] = "asleep" THEN "lockCache"
                        ELSE pc[a][u]
      BY <1>1, <1>3, AddToCacheEffect
    <2>2. QED
      BY <1>3, <2>1 DEF NoneBegins, Putting, Gets
  <1>4. CASE CacheRequest(h)
    <2>1. PICK m \in Message, b \in Keys : m = request[h] /\ b = m.key /\ m.kind = "WaitAndGet"
      BY <1>1, <1>4 DEF CacheRequest, IndInv, ThreadsHomed, TypeOK
    <2>2. /\ AddToCache(h, b, m)
          /\ UNCHANGED <<queue, key, ops, kvMap, request, found, result, log, lastPut, lastRead>>
      BY <1>4, <2>1 DEF CacheRequest, network, rtLocal, history
    <2>3. \A a \in Nodes, c \in Keys : \A e \in Range(msgCache'[a][c]) :
            e \in Range(msgCache[a][c]) \/ (a = h /\ c = b /\ e = m)
      BY <1>1, <2>2, AddToCacheGains
    <2>4. NoNewReply
      BY <2>1, <2>2, <2>3 DEF NoNewReply, IsReply
    <2>5. \A a \in Nodes : QuietMove(queue[a], queue'[a])
      BY <2>2, StayMovesQuietly
    <2>6. QED
      BY <1>2, <1>3, <2>2, <2>4, <2>5
  <1>5. CASE ReplyNull(h)
    <2>1. /\ Abort(h, "nullReply") /\ "nullReply" \in Failures
          /\ UNCHANGED <<queue, msgCache, key, ops, kvMap, request, found, result, log, lastPut, lastRead>>
      BY <1>5 DEF ReplyNull, network, store, rtLocal, history, Failures
    <2>2. \A a \in Nodes, u \in Threads : pc'[a][u] = IF a = h THEN "aborted" ELSE pc[a][u]
      BY <1>1, <2>1, AbortEffect
    <2>3. NoneBegins
      BY <2>1, <2>2 DEF NoneBegins, Putting, Gets
    <2>4. NoNewReply /\ \A a \in Nodes : QuietMove(queue[a], queue'[a])
      BY <2>1, StayMovesQuietly
    <2>5. QED
      BY <1>2, <2>1, <2>3, <2>4
  <1>6. CASE ReceiveReply(h)
    <2>1. Receive(h, {"ReplyData"}) /\ "Put" \notin {"ReplyData"}
      BY <1>6 DEF ReceiveReply
    <2>2. PICK m : m = Head(queue[h])
      OBVIOUS
    <2>3. m \in Message /\ m \in Range(queue[h]) /\ m.kind = "ReplyData"
      BY <1>1, <2>1, <2>2, ReceiveEffect DEF Receive
    <2>4. m.key \in Keys
      BY <1>1, <2>3 DEF IndInv, QueueHomed, WellHomed
    <2>5. /\ AddToCache(h, m.key, m)
          /\ UNCHANGED <<key, ops, kvMap, request, found, result, log, lastPut, lastRead>>
      BY <1>6, <2>2 DEF ReceiveReply, rtLocal, history
    <2>6. \A a \in Nodes : Range(queue'[a]) \subseteq Range(queue[a])
      BY <1>1, <2>1, ReceiveEffect
    <2>7. \A a \in Nodes, c \in Keys : \A e \in Range(msgCache'[a][c]) :
            e \in Range(msgCache[a][c]) \/ (a = h /\ c = m.key /\ e = m)
      BY <1>1, <2>3, <2>4, <2>5, AddToCacheGains
    <2>8. NoNewReply
      BY <2>3, <2>6, <2>7 DEF NoNewReply
    <2>9. \A a \in Nodes : QuietMove(queue[a], queue'[a])
      BY <1>1, <2>1, ReceiveMovesQuietly
    <2>10. NoneBegins
      BY <1>3, <2>3, <2>4, <2>5
    <2>11. QED
      BY <1>2, <2>5, <2>8, <2>9, <2>10
  <1>7. ASSUME NEW kinds, Receive(h, kinds), "Put" \notin kinds,
               NEW l \in Labels, Goto(h, "rt", l), l \notin Putting \cup Gets \cup {"answer"},
               UNCHANGED <<key, msgCache, ops, kvMap, request, found, result, log, lastPut, lastRead>>
        PROVE  SessionInv' /\ NoneBegins /\ NoNewReply /\ \A a \in Nodes : QuietMove(queue[a], queue'[a])
    <2>1. NoNewReply /\ \A a \in Nodes : QuietMove(queue[a], queue'[a])
      BY <1>1, <1>7, ReceiveMovesQuietly
    <2>2. NoneBegins
      BY <1>1, <1>7, GotoBeginsNone
    <2>3. QED
      BY <1>2, <1>7, <2>1, <2>2
  <1>8. CASE ReceiveDone(h)
    <2>1. PICK l \in {"teardown", "receive"} : Goto(h, "rt", l)
      BY <1>8 DEF ReceiveDone
    <2>2. l \in Labels /\ l \notin Putting \cup Gets \cup {"answer"}
      BY LabelTypes DEF Putting, Gets
    <2>3. /\ Receive(h, {"Done"}) /\ "Put" \notin {"Done"}
          /\ UNCHANGED <<key, msgCache, ops, kvMap, request, found, result, log, lastPut, lastRead>>
      BY <1>8 DEF ReceiveDone, store, rtLocal, history
    <2>4. QED
      BY <1>7, <2>1, <2>2, <2>3
  <1>9. CASE SendTeardown(h)
    <2>1. PICK m : m = ControlMsg("Teardown", h)
      OBVIOUS
    <2>2. m \in Message /\ m.kind = "Teardown"
      BY <2>1, MessageTypes DEF MsgKind, ControlMsg
    <2>3. nextTorn \in Nodes
      BY <1>9, KVAssumption DEF SendTeardown, GetInv, IndInv, TeardownLast, TypeOK, Nodes
    <2>4. /\ Send(nextTorn, m)
          /\ UNCHANGED <<kvMap, msgCache, key, ops, request, found, result, log, lastPut, lastRead>>
      BY <1>9, <2>1 DEF SendTeardown, store, rtLocal, history
    <2>5. NoNewReply /\ \A a \in Nodes : QuietMove(queue[a], queue'[a])
      BY <1>1, <2>2, <2>3, <2>4, SendMovesQuietly
    <2>6. PICK l \in {"teardown", "receive"} : Goto(h, "rt", l)
      BY <1>9 DEF SendTeardown
    <2>7. NoneBegins
      BY <1>1, <2>4, <2>6, GotoBeginsNone, LabelTypes DEF Putting, Gets
    <2>8. QED
      BY <1>2, <2>4, <2>5, <2>7
  <1>10. CASE ReceiveTeardown(h)
    <2>1. "exited" \in Labels /\ "exited" \notin Putting \cup Gets \cup {"answer"}
      BY LabelTypes DEF Putting, Gets
    <2>2. /\ Receive(h, {"Teardown"}) /\ "Put" \notin {"Teardown"} /\ Goto(h, "rt", "exited")
          /\ UNCHANGED <<key, msgCache, ops, kvMap, request, found, result, log, lastPut, lastRead>>
      BY <1>10 DEF ReceiveTeardown, store, rtLocal, history
    <2>3. QED
      BY <1>7, <2>1, <2>2
  <1>11. QED
    BY <1>4, <1>5, <1>6, <1>8, <1>9, <1>10

-----------------------------------------------------------------------------
(* A get is at one place *)

\* The request is in the inbox of the home.
HasAsked(n, k) == \E e \in Range(queue[Home[k]]) : IsRequest(e, n, k)
\* A thread of the home has it in hand.
HasServed(n, k) == \E t \in Threads : \E e \in Range(todo[Home[k]][t]) : IsRequest(e, n, k)
\* The reply is in the inbox or the cache of the node that asked.
HasReply(n, k) == \E m \in Range(queue[n]) \cup Range(msgCache[n][k]) : IsReply(m, k)

\* A sum that is at most one has one positive part.
LEMMA SumOfOne ==
  ASSUME NEW a \in Nat, NEW b \in {0, 1}, NEW c \in Nat, NEW d \in Nat, NEW e \in Nat,
         NEW f \in Nat, NEW g \in Nat, NEW w \in {0, 1}, a + b + c + d + e + f + g <= w
  PROVE  /\ w = 0 => a = 0 /\ b = 0 /\ d = 0 /\ e = 0 /\ f = 0 /\ g = 0
         /\ a > 0 => b = 0 /\ d = 0 /\ e = 0 /\ f = 0 /\ g = 0
         /\ b = 1 => d = 0 /\ e = 0 /\ f = 0 /\ g = 0
         /\ d > 0 \/ e > 0 => f = 0 /\ g = 0
         /\ f + g <= 1 /\ a <= 1
  OBVIOUS

\* The parts of Outstanding are positive where there is such a message.
LEMMA PlacesFilled ==
  ASSUME TypeOK, NEW n \in Nodes, NEW k \in Keys
  PROVE  /\ HasAsked(n, k) <=> Asked(n, k) > 0
         /\ HasServed(n, k) <=> Served(n, k, "app") > 0 \/ Served(n, k, "rt") > 0
         /\ HasReply(n, k) <=> Coming(n, k) > 0 \/ Arrived(n, k) > 0
  <1>1. /\ Home[k] \in Nodes /\ Asked(n, k) \in Nat /\ Coming(n, k) \in Nat /\ Arrived(n, k) \in Nat
        /\ \A t \in Threads : Served(n, k, t) \in Nat
    BY PlaceTypes
  <1>2. /\ queue[Home[k]] \in Seq(Message) /\ queue[n] \in Seq(Message)
        /\ msgCache[n][k] \in Seq(Message)
        /\ \A t \in Threads : todo[Home[k]][t] \in Seq(Message)
    BY <1>1 DEF TypeOK
  <1>3. Asked(n, k) = 0 <=> \A e \in Range(queue[Home[k]]) : ~IsRequest(e, n, k)
    BY <1>2, Counts DEF Asked
  <1>4. \A t \in Threads :
          Served(n, k, t) = 0 <=> \A e \in Range(todo[Home[k]][t]) : ~IsRequest(e, n, k)
    BY <1>2, Counts DEF Served
  <1>5. /\ Coming(n, k) = 0 <=> \A e \in Range(queue[n]) : ~IsReply(e, k)
        /\ Arrived(n, k) = 0 <=> \A e \in Range(msgCache[n][k]) : ~IsReply(e, k)
    BY <1>2, Counts DEF Coming, Arrived
  <1>6. HasAsked(n, k) <=> Asked(n, k) > 0
    BY <1>1, <1>3 DEF HasAsked
  <1>7. HasServed(n, k) <=> \E t \in Threads : Served(n, k, t) > 0
    BY <1>1, <1>4 DEF HasServed
  <1>8. HasReply(n, k) <=> Coming(n, k) > 0 \/ Arrived(n, k) > 0
    BY <1>1, <1>5 DEF HasReply
  <1>9. QED
    BY <1>6, <1>7, <1>8 DEF Threads

\* A get that n is inside of is at one of these places, and outside there is none.
LEMMA OnePlace ==
  ASSUME GetInv, NEW n \in Nodes, NEW k \in Keys, Home[k] # n, ~Leaked(n), aborted[n] = "no"
  PROVE  /\ HasAsked(n, k) \/ Answering(n, k) \/ HasServed(n, k) \/ HasReply(n, k) => WaitsFor(n, k)
         /\ HasAsked(n, k) => ~Answering(n, k) /\ ~HasServed(n, k) /\ ~HasReply(n, k)
         /\ Answering(n, k) => ~HasServed(n, k) /\ ~HasReply(n, k)
         /\ HasServed(n, k) => ~HasReply(n, k)
         /\ Coming(n, k) + Arrived(n, k) <= 1 /\ Asked(n, k) <= 1
  <1>1. TypeOK
    BY DEF GetInv, IndInv
  <1>2. PICK a \in Nat, c \in Nat, d \in Nat, e \in Nat, f \in Nat, g \in Nat :
          /\ a = Asked(n, k) /\ c = Waiting(n, k) /\ d = Served(n, k, "app")
          /\ e = Served(n, k, "rt") /\ f = Coming(n, k) /\ g = Arrived(n, k)
    BY <1>1, PlaceTypes, LabelTypes
  <1>3. PICK b \in {0, 1} : b = 1 <=> Answering(n, k)
    OBVIOUS
  <1>4. PICK w \in {0, 1} : w = 1 <=> WaitsFor(n, k)
    OBVIOUS
  <1>5. Outstanding(n, k) = a + b + c + d + e + f + g
    <2>1. (IF Answering(n, k) THEN 1 ELSE 0) = b
      BY <1>3
    <2>2. QED
      BY <1>1, <1>2, <2>1, PlaceTypes
  <1>6. Outstanding(n, k) <= w
    BY <1>4 DEF GetInv, OneEach
  <1>7. a + b + c + d + e + f + g <= w
    BY <1>5, <1>6
  <1>8. /\ w = 0 => a = 0 /\ b = 0 /\ d = 0 /\ e = 0 /\ f = 0 /\ g = 0
        /\ a > 0 => b = 0 /\ d = 0 /\ e = 0 /\ f = 0 /\ g = 0
        /\ b = 1 => d = 0 /\ e = 0 /\ f = 0 /\ g = 0
        /\ d > 0 \/ e > 0 => f = 0 /\ g = 0
        /\ f + g <= 1 /\ a <= 1
    BY <1>7, SumOfOne
  <1>9. /\ HasAsked(n, k) <=> a > 0
        /\ HasServed(n, k) <=> d > 0 \/ e > 0
        /\ HasReply(n, k) <=> f > 0 \/ g > 0
    BY <1>1, <1>2, PlacesFilled
  <1>10. Answering(n, k) => ~HasServed(n, k) /\ ~HasReply(n, k)
    BY <1>2, <1>3, <1>8, <1>9
  <1>11. HasAsked(n, k) => ~Answering(n, k) /\ ~HasServed(n, k) /\ ~HasReply(n, k)
    BY <1>2, <1>3, <1>8, <1>9
  <1>12. ASSUME HasServed(n, k) PROVE ~HasReply(n, k)
    <2>1. d > 0 \/ e > 0
      BY <1>9, <1>12
    <2>2. f = 0 /\ g = 0
      BY <1>8, <2>1
    <2>3. QED
      BY <1>9, <2>2
  <1>13. HasAsked(n, k) \/ Answering(n, k) \/ HasServed(n, k) \/ HasReply(n, k) => w = 1
    BY <1>2, <1>3, <1>8, <1>9
  <1>14. Coming(n, k) + Arrived(n, k) <= 1 /\ Asked(n, k) <= 1
    BY <1>2, <1>8
  <1>15. QED
    BY <1>4, <1>10, <1>11, <1>12, <1>13, <1>14

\* The home reads for n, when no put of n is on its way to it, what a get of n may return.
LEMMA ReadIsFresh ==
  ASSUME TypeOK, PutsInv, LastReadKnown, NEW n \in Nodes, NEW k \in Keys,
         kvMap[Home[k]][k] # NoValue,
         \A e \in Range(queue[Home[k]]) : ~(e.kind = "Put" /\ e.from = n)
  PROVE  FreshFor(n, k, kvMap[Home[k]][k])
  <1>1. PICK l \in Seq(Value) : l = log[k]
    BY ValueTypes
  <1>2. l # <<>> /\ kvMap[Home[k]][k] = l[Len(l)]
    BY <1>1 DEF PutsInv, LogLast
  <1>3. l[Len(l)] \in Range(l)
    BY <1>2 DEF Range
  <1>4. lastPut[n][k] > 0 => PutBy(n, lastPut[n][k]) \in Range(l)
    BY <1>1 DEF PutsInv, LastPutKnown
  <1>5. lastRead[n][k] # NoValue => lastRead[n][k] \in Range(l)
    BY <1>1 DEF LastReadKnown
  <1>6. QED
    BY <1>1, <1>2, <1>3, <1>4, <1>5, LastNewest DEF FreshFor, FreshIn

\* That is so when the request of n has left the inbox.
LEMMA NoPutLeft ==
  ASSUME TypeOK, PutsFirst, NEW n \in Nodes, NEW k \in Keys, WaitsFor(n, k), ~HasAsked(n, k)
  PROVE  \A e \in Range(queue[Home[k]]) : ~(e.kind = "Put" /\ e.from = n)
  <1>1. queue[Home[k]] \in Seq(Message) /\ Followed(queue[Home[k]], n, k)
    BY ValueTypes DEF PutsFirst
  <1>2. QED
    BY <1>1, NoRequestNoPut DEF HasAsked

-----------------------------------------------------------------------------
(* Steps that put a value *)

\* A step that lets no get begin or return, and brings no reply.
LEMMA PutKeeps ==
  ASSUME GetInv, Kept, PutsInv', SessionInv, Grows, NoNewReply,
         \A n \in Nodes, t \in Threads : pc'[n][t] \in Putting =>
           \/ pc[n][t] \in Putting /\ key'[n][t] = key[n][t]
           \/ log'[key'[n][t]] # <<>>,
         \A n \in Nodes, k \in Keys : WaitsFor(n, k)' =>
           /\ WaitsFor(n, k) /\ lastPut'[n][k] = lastPut[n][k]
           /\ Followed(queue'[Home[k]], n, k),
         \A n \in Nodes, k \in Keys : Answering(n, k)' => Answering(n, k),
         UNCHANGED <<found, result, lastRead>>
  PROVE  SessionInv'
  <1>1. IndInv /\ TypeOK
    BY DEF GetInv, IndInv
  <1>2. LastReadKnown'
    BY <1>1, LastReadKept DEF SessionInv
  <1>3. Stored'
    BY <1>1, StoredKept DEF SessionInv
  <1>4. PutsFirst'
    BY DEF PutsFirst, Followed, IsRequest
  <1>5. \A n \in Nodes : ~Leaked(n)' => ~Leaked(n)
    BY DEF Kept
  <1>6. RepliesFresh'
    BY <1>1, <1>5, RepliesKept DEF SessionInv, NoNewReply
  <1>7. ResultsFresh'
    BY <1>1, ResultsKept DEF SessionInv
  <1>8. QED
    BY <1>2, <1>3, <1>4, <1>6, <1>7 DEF SessionInv

\* A put of a key that lives elsewhere.
LEMMA PutRemoteKeeps ==
  ASSUME GetInv, TypeOK', Kept, SessionInv, NEW h \in Nodes, NEW b \in Keys, PutRemote(h, b)
  PROVE  SessionInv'
  <1>1. IndInv /\ TypeOK /\ PutsInv
    BY DEF GetInv, IndInv, SessionInv
  <1>2. PutsInv'
    BY <1>1, PutRemotePuts
  <1>3. PICK m : m = DataMsg("Put", h, b, NextValue(h))
    OBVIOUS
  <1>4. NextValue(h) \in Value /\ pc[h]["app"] = "run"
    BY <1>1, CallEffect DEF PutRemote
  <1>5. m \in Message /\ m.kind = "Put" /\ m.from = h
    BY <1>3, <1>4, MessageTypes DEF MsgKind, DataMsg
  <1>6. /\ Send(Home[b], m) /\ lastPut' = [lastPut EXCEPT ![h][b] = ops[h] + 1] /\ Call(h)
        /\ UNCHANGED <<pc, key, msgCache, request, found, result, log, lastRead>>
    BY <1>3 DEF PutRemote, store, rtLocal
  <1>7. Home[b] \in Nodes /\ \A a \in Nodes : queue[a] \in Seq(Message)
    BY <1>1, ValueTypes
  <1>8. \A a \in Nodes : queue'[a] = IF a = Home[b] THEN Append(queue[a], m) ELSE queue[a]
    BY <1>1, <1>6, <1>7 DEF Send, TypeOK
  <1>9. \A a \in Nodes : Range(queue'[a]) \subseteq Range(queue[a]) \cup {m}
    BY <1>1, <1>5, <1>6, <1>7, SendEffect
  <1>10. NoNewReply
    BY <1>5, <1>6, <1>9 DEF NoNewReply, IsReply
  <1>11. \A a \in Nodes, k \in Keys : a # h => lastPut'[a][k] = lastPut[a][k]
    BY <1>1, <1>6, LastPutBecomes
  <1>12. ASSUME NEW a \in Nodes, NEW k \in Keys, WaitsFor(a, k)'
         PROVE  /\ WaitsFor(a, k) /\ lastPut'[a][k] = lastPut[a][k]
                /\ Followed(queue'[Home[k]], a, k)
    <2>1. WaitsFor(a, k) /\ a # h
      BY <1>4, <1>6, <1>12 DEF WaitsFor
    <2>2. Followed(queue[Home[k]], a, k) /\ Home[k] \in Nodes
      BY <2>1, KVAssumption DEF SessionInv, PutsFirst
    <2>3. ~(m.kind = "Put" /\ m.from = a)
      BY <1>5, <2>1
    <2>4. Followed(queue'[Home[k]], a, k)
      BY <1>5, <1>7, <1>8, <2>2, <2>3, PushFollowed
    <2>5. QED
      BY <1>11, <2>1, <2>4
  <1>13. Grows
    BY <1>1, <1>6, GrowsIf
  <1>14. \A a \in Nodes, k \in Keys : Answering(a, k)' => Answering(a, k)
    BY <1>6 DEF Answering
  <1>15. QED
    BY <1>2, <1>6, <1>10, <1>12, <1>13, <1>14, PutKeeps

\* A put by the home of the key.
LEMMA PutLocalKeeps ==
  ASSUME GetInv, TypeOK', Kept, SessionInv, NEW h \in Nodes, NEW b \in Keys, PutLocal(h, b)
  PROVE  SessionInv'
  <1>1. IndInv /\ TypeOK /\ PutsInv
    BY DEF GetInv, IndInv, SessionInv
  <1>2. PutsInv' /\ \E v \in Value : LogGains(b, v)
    BY <1>1, PutLocalPuts
  <1>3. NextValue(h) \in Value /\ pc[h]["app"] = "run"
    BY <1>1, CallEffect DEF PutLocal
  <1>4. /\ StoreValue(h, "app", b, NextValue(h)) /\ Call(h)
        /\ lastPut' = [lastPut EXCEPT ![h][b] = ops[h] + 1]
        /\ UNCHANGED <<queue, msgCache, request, found, result, lastRead>>
    BY DEF PutLocal, rtLocal
  <1>5. /\ \A a \in Nodes, u \in Threads :
             key'[a][u] = IF a = h /\ u = "app" THEN b ELSE key[a][u]
        /\ \A a \in Nodes, u \in Threads :
             pc'[a][u] = IF a = h /\ u = "app" THEN "handleCache" ELSE pc[a][u]
    BY <1>1, <1>3, <1>4, StoreValueEffect, LabelTypes
  <1>6. log'[b] # <<>>
    BY <1>1, <1>2, LogGainsEffect
  <1>7. \A a \in Nodes, k \in Keys : a # h => lastPut'[a][k] = lastPut[a][k]
    BY <1>1, <1>4, LastPutBecomes
  <1>8. \A a \in Nodes, k \in Keys : WaitsFor(a, k)' => WaitsFor(a, k) /\ a # h
    BY <1>5, LabelTypes DEF WaitsFor
  <1>9. \A a \in Nodes, k \in Keys : WaitsFor(a, k)' =>
          /\ WaitsFor(a, k) /\ lastPut'[a][k] = lastPut[a][k]
          /\ Followed(queue'[Home[k]], a, k)
    BY <1>4, <1>7, <1>8 DEF SessionInv, PutsFirst
  <1>10. Grows
    BY <1>1, <1>2, GrowsIf
  <1>11. NoNewReply
    BY <1>4 DEF NoNewReply
  <1>12. \A a \in Nodes, k \in Keys : Answering(a, k)' => Answering(a, k)
    BY <1>4, <1>5, KVAssumption, LabelTypes DEF Answering
  <1>13. \A a \in Nodes, t \in Threads : pc'[a][t] \in Putting =>
           \/ pc[a][t] \in Putting /\ key'[a][t] = key[a][t]
           \/ log'[key'[a][t]] # <<>>
    BY <1>5, <1>6
  <1>14. QED
    BY <1>2, <1>4, <1>9, <1>10, <1>11, <1>12, <1>13, PutKeeps

\* A put that reaches the home of its key.
LEMMA ReceivePutKeeps ==
  ASSUME GetInv, TypeOK', Kept, SessionInv, NEW h \in Nodes, ReceivePut(h)
  PROVE  SessionInv'
  <1>1. IndInv /\ TypeOK /\ PutsInv
    BY DEF GetInv, IndInv, SessionInv
  <1>2. PutsInv'
    BY <1>1, ReceivePutPuts
  <1>3. PICK b \in Keys, v \in Value : StoreValue(h, "rt", b, v) /\ LogGains(b, v)
    BY <1>1, ReceivePutPuts
  <1>4. /\ Receive(h, {"Put"})
        /\ UNCHANGED <<msgCache, request, found, result, lastPut, lastRead>>
    BY DEF ReceivePut, rtLocal
  <1>5. /\ \A a \in Nodes, u \in Threads :
             key'[a][u] = IF a = h /\ u = "rt" THEN b ELSE key[a][u]
        /\ \A a \in Nodes, u \in Threads :
             pc'[a][u] = IF a = h /\ u = "rt" THEN "handleCache" ELSE pc[a][u]
    BY <1>1, <1>3, StoreValueEffect, LabelTypes
  <1>6. log'[b] # <<>>
    BY <1>1, <1>3, LogGainsEffect
  <1>7. \A a \in Nodes : /\ queue[a] \in Seq(Message)
                         /\ queue'[a] = IF a = h THEN Tail(queue[a]) ELSE queue[a]
                         /\ Range(queue'[a]) \subseteq Range(queue[a])
    BY <1>1, <1>4, ReceiveEffect DEF Receive, TypeOK
  <1>8. \A a \in Nodes, k \in Keys : WaitsFor(a, k)' => WaitsFor(a, k)
    BY <1>5, LabelTypes DEF WaitsFor
  <1>9. ASSUME NEW a \in Nodes, NEW k \in Keys, WaitsFor(a, k)'
        PROVE  Followed(queue'[Home[k]], a, k)
    <2>1. Followed(queue[Home[k]], a, k) /\ Home[k] \in Nodes
      BY <1>8, <1>9, KVAssumption DEF SessionInv, PutsFirst
    <2>2. queue[h] # <<>>
      BY <1>4 DEF Receive
    <2>3. QED
      BY <1>7, <2>1, <2>2, PopFollowed
  <1>10. Grows
    BY <1>1, <1>3, GrowsIf
  <1>11. NoNewReply
    BY <1>4, <1>7 DEF NoNewReply
  <1>12. \A a \in Nodes, k \in Keys : Answering(a, k)' => Answering(a, k)
    BY <1>4, <1>5, KVAssumption, LabelTypes DEF Answering
  <1>13. \A a \in Nodes, t \in Threads : pc'[a][t] \in Putting =>
           \/ pc[a][t] \in Putting /\ key'[a][t] = key[a][t]
           \/ log'[key'[a][t]] # <<>>
    BY <1>5, <1>6
  <1>14. QED
    BY <1>2, <1>4, <1>8, <1>9, <1>10, <1>11, <1>12, <1>13, PutKeeps

-----------------------------------------------------------------------------
(* Steps that return a value *)

\* What a get returns is recorded for its node only.
LEMMA ReturnMarks ==
  ASSUME TypeOK, NEW n \in Nodes, NEW k \in Keys, NEW v \in Value \cup {NoValue}, Return(n, k, v)
  PROVE  /\ \A a \in Nodes : a # n => result'[a] = result[a]
         /\ result'[n] = [key |-> k, val |-> v, owes |-> lastPut[n][k], prev |-> lastRead[n][k]]
         /\ \A a \in Nodes, c \in Keys :
              lastRead'[a][c] = IF a = n /\ c = k /\ v # NoValue THEN v ELSE lastRead[a][c]
  <1>1. /\ \A a \in Nodes : a # n => result'[a] = result[a]
        /\ result'[n] = [key |-> k, val |-> v, owes |-> lastPut[n][k], prev |-> lastRead[n][k]]
    BY DEF Return, TypeOK
  <1>2. /\ lastRead \in [Nodes -> [Keys -> Value \cup {NoValue}]]
        /\ lastRead[n][k] \in Value \cup {NoValue}
    BY DEF TypeOK
  <1>3. PICK x \in Value \cup {NoValue} : x = IF v = NoValue THEN lastRead[n][k] ELSE v
    BY <1>2
  <1>4. lastRead' = [lastRead EXCEPT ![n][k] = x]
    BY <1>3 DEF Return
  <1>5. \A a \in Nodes, c \in Keys :
          [lastRead EXCEPT ![n][k] = x][a][c] = IF a = n /\ c = k THEN x ELSE lastRead[a][c]
    BY <1>2, Except2Type
  <1>6. QED
    BY <1>1, <1>3, <1>4, <1>5

\* A get that returns nothing, or a value that it may return.
LEMMA ReturnKeeps ==
  ASSUME GetInv, TypeOK', Kept, SessionInv, NEW h \in Nodes, NEW b \in Keys,
         NEW v \in Value \cup {NoValue}, Return(h, b, v), v # NoValue => FreshFor(h, b, v),
         NoneBegins, pc'[h]["app"] = "run", \A a \in Nodes : ops[a] <= ops'[a],
         \A a \in Nodes, c \in Keys : Range(msgCache'[a][c]) \subseteq Range(msgCache[a][c]),
         UNCHANGED <<queue, kvMap, request, found, log, lastPut>>
  PROVE  SessionInv'
  <1>1. IndInv /\ TypeOK /\ PutsInv
    BY DEF GetInv, IndInv, SessionInv
  <1>2. NoNewReply /\ \A a \in Nodes : QuietMove(queue[a], queue'[a])
    BY StayMovesQuietly
  <1>3. PutsInv'
    BY <1>1, <1>2, QuietKeepsPuts DEF QuietPuts
  <1>4. Grows
    BY <1>1, GrowsIf
  <1>5. /\ \A a \in Nodes : a # h => result'[a] = result[a]
        /\ result'[h] = [key |-> b, val |-> v, owes |-> lastPut[h][b], prev |-> lastRead[h][b]]
        /\ \A a \in Nodes, c \in Keys :
             lastRead'[a][c] = IF a = h /\ c = b /\ v # NoValue THEN v ELSE lastRead[a][c]
    BY <1>1, ReturnMarks
  <1>6. v # NoValue => v \in Range(log[b])
    BY DEF FreshFor, FreshIn
  <1>7. LastReadKnown'
    BY <1>1, <1>4, <1>5, <1>6, LastReadKept DEF SessionInv
  <1>8. Stored'
    BY <1>1, <1>4, StoredKept DEF SessionInv, NoneBegins
  <1>9. \A n \in Nodes, k \in Keys : WaitsFor(n, k)' => WaitsFor(n, k) /\ n # h
    BY LabelTypes DEF NoneBegins, WaitsFor, Gets
  <1>10. PutsFirst'
    BY <1>1, <1>2, <1>9, PutsFirstKept DEF SessionInv
  <1>11. RepliesFresh'
    <2>1. \A n \in Nodes : ~Leaked(n)' => ~Leaked(n)
      BY DEF Kept
    <2>2. \A n \in Nodes, k \in Keys : Answering(n, k)' => Answering(n, k)
      BY KVAssumption, LabelTypes DEF NoneBegins, Answering
    <2>3. QED
      BY <1>1, <1>2, <1>4, <1>5, <1>9, <2>1, <2>2, RepliesKept DEF SessionInv, NoNewReply
  <1>12. ResultsFresh'
    <2>1. v # NoValue =>
            /\ result'[h].key \in Keys
            /\ FreshIn(log[result'[h].key], h, result'[h].owes, result'[h].prev, result'[h].val)
      BY <1>5 DEF FreshFor
    <2>2. \A n \in Nodes :
            \/ result'[n] = result[n]
            \/ result'[n].val = NoValue
            \/ /\ result'[n].key \in Keys
               /\ FreshIn(log[result'[n].key], n, result'[n].owes, result'[n].prev, result'[n].val)
      BY <1>5, <2>1
    <2>3. QED
      BY <1>1, <1>4, <2>2, ResultsKept DEF SessionInv
  <1>13. QED
    BY <1>3, <1>7, <1>8, <1>10, <1>11, <1>12 DEF SessionInv

\* The gets of keys that live here.
LEMMA LocalReturnKeeps ==
  ASSUME GetInv, TypeOK', Kept, SessionInv, NEW h \in Nodes,
         (\E k \in Keys : GetLocal(h, k)) \/ SpinReads(h)
  PROVE  SessionInv'
  <1>1. IndInv /\ TypeOK /\ PutsInv /\ LastReadKnown
    BY DEF GetInv, IndInv, SessionInv
  <1>2. ASSUME NEW b \in Keys, Home[b] = h, kvMap[h][b] # NoValue
        PROVE  FreshFor(h, b, kvMap[h][b])
    <2>1. \A e \in Range(queue[h]) : ~(e.kind = "Put" /\ e.from = h)
      BY <1>1 DEF PutsInv, PutsOrdered
    <2>2. QED
      BY <1>1, <1>2, <2>1, ReadIsFresh
  <1>3. \A b \in Keys : kvMap[h][b] \in Value \cup {NoValue}
    BY <1>1 DEF TypeOK
  <1>4. ASSUME NEW b \in Keys, GetLocal(h, b)
        PROVE  SessionInv'
    <2>1. /\ Return(h, b, kvMap[h][b]) /\ Home[b] = h /\ Call(h)
          /\ UNCHANGED <<queue, msgCache, kvMap, pc, key, request, found, log, lastPut>>
      BY <1>4 DEF GetLocal, network, store, rtLocal
    <2>2. NoneBegins
      BY <2>1 DEF NoneBegins
    <2>3. \A a \in Nodes : ops[a] <= ops'[a]
      <3>1. ops \in [Nodes -> Nat] /\ ops' = [ops EXCEPT ![h] = @ + 1]
        BY <1>1, <2>1 DEF Call, TypeOK
      <3>2. QED
        BY <3>1
    <2>4. pc'[h]["app"] = "run"
      BY <2>1 DEF Call
    <2>5. QED
      BY <1>2, <1>3, <2>1, <2>2, <2>3, <2>4, ReturnKeeps
  <1>5. CASE SpinReads(h)
    <2>1. PICK b \in Keys : b = key[h]["app"] /\ Home[b] = h
      BY <1>1, <1>5 DEF SpinReads, IndInv, ThreadsHomed
    <2>2. /\ Return(h, b, kvMap[h][b]) /\ Goto(h, "app", "run")
          /\ UNCHANGED <<queue, msgCache, kvMap, key, request, found, ops, log, lastPut>>
      BY <1>5, <2>1 DEF SpinReads, network, store, rtLocal
    <2>3. NoneBegins
      BY <1>1, <2>2, GotoBeginsNone, LabelTypes DEF Putting, Gets
    <2>4. pc'[h]["app"] = "run"
      BY <1>1, <2>2, GotoEffect, LabelTypes
    <2>5. \A a \in Nodes : ops[a] <= ops'[a]
      BY <1>1, <2>2, ValueTypes
    <2>6. QED
      BY <1>2, <1>3, <2>1, <2>2, <2>3, <2>4, <2>5, ReturnKeeps
  <1>6. QED
    BY <1>4, <1>5

\* The gets of keys that live elsewhere: nothing, or the value of the reply.
LEMMA RemoteReturnKeeps ==
  ASSUME GetInv, TypeOK', Kept, SessionInv, NEW h \in Nodes, ReturnNull(h) \/ TakeReply(h)
  PROVE  SessionInv'
  <1>1. IndInv /\ TypeOK /\ PutsInv /\ \A a \in Nodes : ops[a] \in Nat
    BY ValueTypes DEF GetInv, IndInv, SessionInv
  <1>2. PICK b \in Keys : b = key[h]["app"] /\ pc[h]["app"] = "lockCache" /\ lock[h] = "free"
    BY <1>1 DEF ReturnNull, TakeReply, IndInv, ThreadsHomed
  <1>3. WaitsFor(h, b) /\ ~Leaked(h)
    BY <1>2 DEF WaitsFor, Leaked
  <1>4. ASSUME Goto(h, "app", "run"), UNCHANGED key
        PROVE  NoneBegins /\ pc'[h]["app"] = "run"
    BY <1>1, <1>4, GotoBeginsNone, GotoEffect, LabelTypes DEF Putting, Gets
  <1>5. CASE ReturnNull(h)
    <2>1. /\ Return(h, b, NoValue) /\ Goto(h, "app", "run")
          /\ UNCHANGED <<queue, msgCache, kvMap, key, request, found, ops, log, lastPut>>
      BY <1>2, <1>5 DEF ReturnNull, network, rtLocal
    <2>2. NoneBegins /\ pc'[h]["app"] = "run"
      BY <1>4, <2>1
    <2>3. QED
      BY <1>1, <2>1, <2>2, ReturnKeeps
  <1>6. CASE TakeReply(h)
    <2>1. PICK arr \in Seq(Message) : arr = msgCache[h][b]
      BY <1>1 DEF TypeOK
    <2>2. arr # <<>> /\ arr[1].kind = "ReplyData" /\ arr[1].val \in Value \cup {NoValue}
      BY <1>1, <1>2, <1>6, <2>1, CachedAreReplies DEF TakeReply
    <2>3. /\ RemoveArray(h, b)
          /\ UNCHANGED <<queue, kvMap, key, request, found, ops, log, lastPut>>
      BY <1>2, <1>6 DEF TakeReply, network, rtLocal
    <2>4. \A a \in Nodes, c \in Keys : Range(msgCache'[a][c]) \subseteq Range(msgCache[a][c])
      BY <1>1, <2>3, RemoveArrayEffect
    <2>5. CASE Len(arr) = 1
      <3>1. PICK m : m = arr[1]
        OBVIOUS
      <3>2. /\ Return(h, b, m.val) /\ Goto(h, "app", "run")
        BY <1>2, <1>6, <2>1, <2>2, <2>5, <3>1 DEF TakeReply
      <3>3. m \in Range(msgCache[h][b])
        BY <2>1, <2>5, <3>1 DEF Range
      <3>4. IsReply(m, b)
        BY <2>2, <3>1, <3>3 DEF GetInv, Keyed, IsReply
      <3>5. FreshFor(h, b, m.val)
        BY <1>3, <3>3, <3>4 DEF SessionInv, RepliesFresh
      <3>6. NoneBegins /\ pc'[h]["app"] = "run"
        BY <1>4, <2>3, <3>2
      <3>7. m.val \in Value \cup {NoValue}
        BY <2>2, <3>1
      <3>8. \A a \in Nodes : ops[a] <= ops'[a]
        BY <1>1, <2>3
      <3>9. QED
        BY <2>3, <2>4, <3>2, <3>5, <3>6, <3>7, <3>8, ReturnKeeps
    <2>6. CASE Len(arr) # 1
      <3>1. aborted'[h] = "replyCount"
        BY <1>1, <1>2, <1>6, <2>1, <2>6 DEF TakeReply, Abort, TypeOK
      <3>2. aborted'[h] # "replyCount"
        BY DEF Kept, GetParts, Failed
      <3>3. QED
        BY <3>1, <3>2
    <2>7. QED
      BY <2>5, <2>6
  <1>7. QED
    BY <1>5, <1>6

-----------------------------------------------------------------------------
(* Steps that carry a get on *)

\* A node that waits for a reply has not failed, and did not leak its lock if it has not now.
LEMMA StillWaits ==
  ASSUME Kept, NEW n \in Nodes, NEW k \in Keys, WaitsFor(n, k)', ~Leaked(n)'
  PROVE  ~Leaked(n) /\ aborted[n] = "no"
  <1>1. pc'[n]["app"] # "aborted"
    BY DEF WaitsFor
  <1>2. aborted'[n] = "no"
    BY <1>1, LabelTypes DEF Kept, GetParts, Failed
  <1>3. QED
    BY <1>2 DEF Kept

\* A step in which no get begins or returns; a new reply, or a new value to reply with, may be
\* returned.
LEMMA AnswerKeeps ==
  ASSUME GetInv, TypeOK', Kept, SessionInv,
         \A a \in Nodes : QuietMove(queue[a], queue'[a]),
         UNCHANGED <<ops, kvMap, result, log, lastPut, lastRead>>,
         \A n \in Nodes, t \in Threads : pc'[n][t] \in Putting =>
           pc[n][t] \in Putting /\ key'[n][t] = key[n][t],
         \A n \in Nodes, k \in Keys : WaitsFor(n, k)' => WaitsFor(n, k),
         \A n \in Nodes, k \in Keys :
           WaitsFor(n, k) /\ WaitsFor(n, k)' /\ ~Leaked(n) /\ aborted[n] = "no" =>
             /\ \A m \in Range(queue'[n]) \cup Range(msgCache'[n][k]) : IsReply(m, k) =>
                  \/ m \in Range(queue[n]) \cup Range(msgCache[n][k])
                  \/ FreshFor(n, k, m.val)
             /\ Answering(n, k)' /\ found'[Home[k]] # NoValue =>
                  \/ Answering(n, k) /\ found'[Home[k]] = found[Home[k]]
                  \/ FreshFor(n, k, found'[Home[k]])
  PROVE  SessionInv'
  <1>1. IndInv /\ TypeOK /\ PutsInv /\ \A a \in Nodes : ops[a] \in Nat
    BY ValueTypes DEF GetInv, IndInv, SessionInv
  <1>2. PutsInv'
    <2>1. \A a \in Nodes : ops[a] <= ops'[a]
      BY <1>1
    <2>2. QED
      BY <1>1, <2>1, QuietKeepsPuts DEF QuietPuts
  <1>3. Grows
    BY <1>1, GrowsIf
  <1>4. LastReadKnown'
    BY <1>1, <1>3, LastReadKept DEF SessionInv
  <1>5. Stored'
    BY <1>1, <1>3, StoredKept DEF SessionInv
  <1>6. PutsFirst'
    BY <1>1, PutsFirstKept DEF SessionInv
  <1>7. RepliesFresh'
    BY <1>1, <1>3, StillWaits, RepliesKept DEF SessionInv
  <1>8. ResultsFresh'
    BY <1>1, <1>3, ResultsKept DEF SessionInv
  <1>9. QED
    BY <1>2, <1>4, <1>5, <1>6, <1>7, <1>8 DEF SessionInv

\* A get of a key that lives elsewhere begins: its request follows the puts of its node.
LEMMA RequestRemoteKeeps ==
  ASSUME GetInv, TypeOK', Kept, SessionInv, NEW h \in Nodes, NEW b \in Keys, NEW block \in BOOLEAN,
         RequestRemote(h, b, block)
  PROVE  SessionInv'
  <1>1. IndInv /\ TypeOK /\ PutsInv /\ "app" \in Threads /\ "rt" \in Threads
    BY LabelTypes DEF GetInv, IndInv, SessionInv
  <1>2. PICK m : m = DataMsg(IF block THEN "WaitAndGet" ELSE "GetData", h, b, NoValue)
    OBVIOUS
  <1>3. m \in Message /\ m.kind \in {"GetData", "WaitAndGet"} /\ IsRequest(m, h, b)
    BY <1>2, MessageTypes DEF MsgKind, DataMsg, IsRequest
  <1>4. /\ pc[h]["app"] = "run" /\ Send(Home[b], m) /\ Goto(h, "app", "lockCache")
        /\ key' = [key EXCEPT ![h]["app"] = b] /\ Home[b] # h /\ Home[b] \in Nodes
        /\ ops' = [ops EXCEPT ![h] = @ + 1]
        /\ UNCHANGED <<kvMap, msgCache, lock, request, found, aborted, result, log, lastPut, lastRead>>
    BY <1>2, KVAssumption DEF RequestRemote, Call, store, rtLocal, history
  <1>5. /\ \A a \in Nodes, u \in Threads :
             key'[a][u] = IF a = h /\ u = "app" THEN b ELSE key[a][u]
        /\ \A a \in Nodes, u \in Threads :
             pc'[a][u] = IF a = h /\ u = "app" THEN "lockCache" ELSE pc[a][u]
    BY <1>1, <1>4, KeyEffect, GotoEffect, LabelTypes
  <1>6. \A a \in Nodes : QuietMove(queue[a], queue'[a])
    BY <1>1, <1>3, <1>4, SendMovesQuietly
  <1>7. NoNewReply
    BY <1>1, <1>3, <1>4, SendMovesQuietly
  <1>8. \A a \in Nodes : ops[a] <= ops'[a]
    <2>1. \A a \in Nodes : ops[a] \in Nat /\ ops'[a] = IF a = h THEN ops[a] + 1 ELSE ops[a]
      BY <1>1, <1>4, ValueTypes DEF TypeOK
    <2>2. QED
      BY <2>1
  <1>9. PutsInv'
    BY <1>1, <1>4, <1>6, <1>8, QuietKeepsPuts DEF QuietPuts
  <1>10. LastReadKnown' /\ ResultsFresh'
    <2>1. Grows
      BY <1>1, <1>4, GrowsIf
    <2>2. QED
      BY <1>1, <1>4, <2>1, LastReadKept, ResultsKept DEF SessionInv
  <1>11. Stored'
    <2>1. Grows
      BY <1>1, <1>4, GrowsIf
    <2>2. \A n \in Nodes, t \in Threads : pc'[n][t] \in Putting =>
            pc[n][t] \in Putting /\ key'[n][t] = key[n][t]
      BY <1>5 DEF Putting
    <2>3. QED
      BY <1>1, <2>1, <2>2, StoredKept DEF SessionInv
  <1>12. \A n \in Nodes, k \in Keys : WaitsFor(n, k)' => WaitsFor(n, k) \/ (n = h /\ k = b)
    BY <1>1, <1>5 DEF WaitsFor
  <1>13. PutsFirst'
    <2> SUFFICES ASSUME NEW n \in Nodes, NEW k \in Keys, WaitsFor(n, k)'
                 PROVE  Followed(queue'[Home[k]], n, k)
      BY DEF PutsFirst, Followed, IsRequest
    <2>1. Home[k] \in Nodes /\ queue[Home[k]] \in Seq(Message)
      BY <1>1, ValueTypes
    <2>2. CASE WaitsFor(n, k)
      <3>1. Followed(queue[Home[k]], n, k)
        BY <2>2 DEF SessionInv, PutsFirst
      <3>2. QED
        BY <1>6, <2>1, <3>1, QuietMoveKeeps
    <2>3. CASE n = h /\ k = b
      <3>1. queue'[Home[b]] = Append(queue[Home[b]], m)
        BY <1>1, <1>4 DEF Send, TypeOK
      <3>2. QED
        BY <1>3, <2>1, <2>3, <3>1, PushFollowed
    <2>4. QED
      BY <1>12, <2>2, <2>3
  <1>14. RepliesFresh'
    <2> SUFFICES ASSUME NEW n \in Nodes, NEW k \in Keys, WaitsFor(n, k)', ~Leaked(n)'
                 PROVE  /\ \A e \in Range(queue'[n]) \cup Range(msgCache'[n][k]) :
                             IsReply(e, k) => FreshFor(n, k, e.val)'
                        /\ Answering(n, k)' /\ found'[Home[k]] # NoValue =>
                             FreshFor(n, k, found[Home[k]])'
      BY DEF RepliesFresh, IsReply
    <2>1. \A v : FreshFor(n, k, v) =>
                   FreshIn(log'[k], n, lastPut'[n][k], lastRead'[n][k], v)
      BY <1>4 DEF FreshFor
    <2>2. Answering(n, k)' <=> Answering(n, k)
      BY <1>1, <1>4, <1>5, KVAssumption DEF Answering
    <2>3. ~Leaked(n) /\ aborted[n] = "no"
      BY StillWaits
    <2>4. CASE WaitsFor(n, k)
      <3>1. \A e \in Range(queue'[n]) \cup Range(msgCache'[n][k]) :
              IsReply(e, k) => FreshFor(n, k, e.val)
        BY <1>7, <2>3, <2>4 DEF NoNewReply, SessionInv, RepliesFresh
      <3>2. Answering(n, k) /\ found[Home[k]] # NoValue => FreshFor(n, k, found[Home[k]])
        BY <2>3, <2>4 DEF SessionInv, RepliesFresh
      <3>3. \A e \in Range(queue'[n]) \cup Range(msgCache'[n][k]) :
              IsReply(e, k) => FreshFor(n, k, e.val)'
        BY <2>1, <3>1 DEF FreshFor
      <3>4. Answering(n, k)' /\ found'[Home[k]] # NoValue => FreshFor(n, k, found[Home[k]])'
        BY <1>4, <2>1, <2>2, <3>2 DEF FreshFor
      <3>5. QED
        BY <3>3, <3>4
    <2>5. CASE ~WaitsFor(n, k)
      <3>1. n = h /\ k = b
        BY <1>12, <2>5
      <3>2. ~Answering(n, k) /\ ~HasReply(n, k)
        BY <1>4, <2>3, <2>5, <3>1, OnePlace
      <3>3. \A e \in Range(queue'[n]) \cup Range(msgCache'[n][k]) : ~IsReply(e, k)
        BY <1>7, <3>2 DEF NoNewReply, HasReply
      <3>4. QED
        BY <2>2, <3>2, <3>3
    <2>6. QED
      BY <2>4, <2>5
  <1>15. QED
    BY <1>9, <1>10, <1>11, <1>13, <1>14 DEF SessionInv

\* When the head of the home's inbox is the request of a get, no put of its node is left in it.
LEMMA RequestLast ==
  ASSUME GetInv, PutsFirst, NEW h \in Nodes, NEW kinds, Receive(h, kinds),
         NEW n \in Nodes, NEW k \in Keys, Home[k] = h, h # n, IsRequest(Head(queue[h]), n, k),
         WaitsFor(n, k), ~Leaked(n), aborted[n] = "no"
  PROVE  \A e \in Range(queue[h]) : ~(e.kind = "Put" /\ e.from = n)
  <1>1. TypeOK /\ queue[h] # <<>> /\ queue[h] \in Seq(Message)
    BY DEF GetInv, IndInv, TypeOK, Receive
  <1>2. PICK s \in Seq(Message) : s = queue[h] /\ s # <<>>
    BY <1>1
  <1>3. queue'[h] = Tail(s) /\ Tail(s) \in Seq(Message)
    BY <1>1, <1>2, RangeTail DEF Receive, TypeOK
  <1>4. Cardinality(RequestsIn(s, n, k)) <= 1
    BY <1>2, OnePlace DEF Asked
  <1>5. PICK c \in Nat : c = Cardinality(RequestsIn(Tail(s), n, k))
    BY <1>3, Counts
  <1>6. Cardinality(RequestsIn(s, n, k)) = c + 1
    <2>1. PICK m : m = Head(s)
      OBVIOUS
    <2>2. IsRequest(m, n, k)
      BY <1>2, <2>1
    <2>3. Cardinality(RequestsIn(s, n, k)) =
            Cardinality(RequestsIn(Tail(s), n, k)) + (IF IsRequest(m, n, k) THEN 1 ELSE 0)
      BY <1>2, <2>1, PopCounts
    <2>4. QED
      BY <1>5, <2>2, <2>3
  <1>7. c = 0
    BY <1>4, <1>6
  <1>8. \A e \in Range(Tail(s)) : ~IsRequest(e, n, k)
    BY <1>3, <1>5, <1>7, Counts
  <1>9. Followed(Tail(s), n, k)
    BY <1>2, PopFollowed DEF PutsFirst
  <1>10. \A e \in Range(Tail(s)) : ~(e.kind = "Put" /\ e.from = n)
    BY <1>3, <1>8, <1>9, NoRequestNoPut
  <1>11. \A e \in Range(s) : e = Head(s) \/ e \in Range(Tail(s))
    BY <1>2, RangeHeadTail
  <1>12. Head(s).kind # "Put"
    BY <1>2 DEF IsRequest
  <1>13. QED
    BY <1>2, <1>10, <1>11, <1>12

\* The home of the key reads its value for a get.
LEMMA ReceiveRequestKeeps ==
  ASSUME GetInv, TypeOK', Kept, SessionInv, NEW h \in Nodes, ReceiveRequest(h)
  PROVE  SessionInv'
  <1>1. IndInv /\ TypeOK /\ PutsInv /\ LastReadKnown /\ "app" \in Threads /\ "rt" \in Threads
    BY LabelTypes DEF GetInv, IndInv, SessionInv
  <1>2. PICK m : m = Head(queue[h])
    OBVIOUS
  <1>3. /\ Receive(h, {"GetData", "WaitAndGet"}) /\ Goto(h, "rt", "answer")
        /\ request' = [request EXCEPT ![h] = m] /\ found' = [found EXCEPT ![h] = kvMap[h][m.key]]
        /\ m.kind \in {"GetData", "WaitAndGet"}
        /\ UNCHANGED <<kvMap, msgCache, key, ops, result, log, lastPut, lastRead>>
    BY <1>2 DEF ReceiveRequest, Receive, store, history
  <1>4. NoNewReply /\ \A a \in Nodes : QuietMove(queue[a], queue'[a])
    BY <1>1, <1>3, ReceiveMovesQuietly
  <1>5. \A a \in Nodes, u \in Threads :
          pc'[a][u] = IF a = h /\ u = "rt" THEN "answer" ELSE pc[a][u]
    BY <1>1, <1>3, GotoEffect, LabelTypes
  <1>6. /\ request'[h] = m /\ found'[h] = kvMap[h][m.key]
        /\ \A a \in Nodes : a # h => request'[a] = request[a] /\ found'[a] = found[a]
    BY <1>1, <1>3 DEF TypeOK
  <1>7. m \in Range(queue[h])
    BY <1>1, <1>2, <1>3, ReceiveEffect
  <1>8. m.key \in Keys /\ Home[m.key] = h /\ m.from # h
    BY <1>1, <1>3, <1>7 DEF IndInv, QueueHomed, WellHomed, Requests
  <1>9. \A n \in Nodes, k \in Keys : WaitsFor(n, k)' => WaitsFor(n, k)
    BY <1>1, <1>3, <1>5 DEF WaitsFor
  <1>10. \A n \in Nodes, t \in Threads : pc'[n][t] \in Putting =>
           pc[n][t] \in Putting /\ key'[n][t] = key[n][t]
    BY <1>3, <1>5 DEF Putting
  <1>11. ASSUME NEW n \in Nodes, NEW k \in Keys, WaitsFor(n, k), ~Leaked(n), aborted[n] = "no",
                Answering(n, k)', found'[Home[k]] # NoValue
         PROVE  \/ Answering(n, k) /\ found'[Home[k]] = found[Home[k]]
                \/ FreshFor(n, k, found'[Home[k]])
    <2>1. Home[k] \in Nodes
      BY KVAssumption
    <2>2. CASE Home[k] # h
      BY <1>1, <1>5, <1>6, <1>11, <2>1, <2>2 DEF Answering
    <2>3. CASE Home[k] = h
      <3>1. m.from = n /\ m.key = k
        BY <1>6, <1>11, <2>3 DEF Answering
      <3>2. IsRequest(Head(queue[h]), n, k)
        BY <1>2, <1>3, <3>1 DEF IsRequest
      <3>3. \A e \in Range(queue[h]) : ~(e.kind = "Put" /\ e.from = n)
        BY <1>3, <1>8, <1>11, <2>3, <3>1, <3>2, RequestLast DEF SessionInv
      <3>4. found'[Home[k]] = kvMap[Home[k]][k]
        BY <1>6, <2>3, <3>1
      <3>5. QED
        BY <1>1, <1>11, <2>3, <3>3, <3>4, ReadIsFresh
    <2>4. QED
      BY <2>2, <2>3
  <1>12. QED
    BY <1>3, <1>4, <1>9, <1>10, <1>11, AnswerKeeps DEF NoNewReply

\* It sends what it read.
LEMMA AnswerRequestKeeps ==
  ASSUME GetInv, TypeOK', Kept, SessionInv, NEW h \in Nodes, AnswerRequest(h)
  PROVE  SessionInv'
  <1>1. IndInv /\ TypeOK /\ PutsInv /\ "app" \in Threads /\ "rt" \in Threads
    BY LabelTypes DEF GetInv, IndInv, SessionInv
  <1>2. PICK q \in Message : q = request[h]
    BY <1>1 DEF TypeOK
  <1>3. q.from \in Nodes /\ q.key \in Keys /\ Home[q.key] = h
    BY <1>1, <1>2 DEF AnswerRequest, IndInv, ThreadsHomed, Message
  <1>4. PICK r : r = DataMsg("ReplyData", h, q.key, found[h])
    OBVIOUS
  <1>5. r \in Message /\ r.kind = "ReplyData" /\ r.key = q.key /\ r.val = found[h]
    BY <1>1, <1>3, <1>4, MessageTypes DEF MsgKind, DataMsg, TypeOK
  <1>6. /\ pc[h]["rt"] = "answer" /\ found[h] # NoValue
        /\ Send(q.from, r) /\ Goto(h, "rt", "receive")
        /\ UNCHANGED <<kvMap, msgCache, key, ops, request, found, result, log, lastPut, lastRead>>
    BY <1>2, <1>4 DEF AnswerRequest, store, rtLocal, history
  <1>7. \A a \in Nodes : QuietMove(queue[a], queue'[a])
    BY <1>1, <1>3, <1>5, <1>6, SendMovesQuietly
  <1>8. \A a \in Nodes, u \in Threads :
          pc'[a][u] = IF a = h /\ u = "rt" THEN "receive" ELSE pc[a][u]
    BY <1>1, <1>6, GotoEffect, LabelTypes
  <1>9. \A a \in Nodes :
          Range(queue'[a]) = IF a = q.from THEN Range(queue[a]) \cup {r} ELSE Range(queue[a])
    BY <1>1, <1>3, <1>5, <1>6, SendEffect
  <1>10. \A n \in Nodes, k \in Keys : WaitsFor(n, k)' => WaitsFor(n, k)
    BY <1>1, <1>6, <1>8 DEF WaitsFor
  <1>11. \A n \in Nodes, t \in Threads : pc'[n][t] \in Putting =>
           pc[n][t] \in Putting /\ key'[n][t] = key[n][t]
    BY <1>6, <1>8 DEF Putting
  <1>12. \A n \in Nodes, k \in Keys : Answering(n, k)' => Answering(n, k)
    BY <1>1, <1>6, <1>8, KVAssumption DEF Answering
  <1>13. ASSUME NEW n \in Nodes, NEW k \in Keys, WaitsFor(n, k), ~Leaked(n),
                NEW m \in Range(queue'[n]) \cup Range(msgCache'[n][k]), IsReply(m, k)
         PROVE  \/ m \in Range(queue[n]) \cup Range(msgCache[n][k])
                \/ FreshFor(n, k, m.val)
    <2>1. CASE m = r /\ n = q.from
      <3>1. k = q.key
        BY <1>5, <1>13, <2>1 DEF IsReply
      <3>2. Answering(n, k) /\ found[Home[k]] # NoValue
        BY <1>2, <1>3, <1>6, <2>1, <3>1 DEF Answering
      <3>3. FreshFor(n, k, found[Home[k]])
        BY <1>13, <3>2 DEF SessionInv, RepliesFresh
      <3>4. QED
        BY <1>3, <1>5, <2>1, <3>1, <3>3
    <2>2. QED
      BY <1>6, <1>9, <1>13, <2>1
  <1>14. QED
    BY <1>6, <1>7, <1>10, <1>11, <1>12, <1>13, AnswerKeeps

\* The thread that put the key answers a request that waited for it.
LEMMA ServeWaiterKeeps ==
  ASSUME GetInv, TypeOK', Kept, SessionInv, NEW h \in Nodes, NEW t \in Threads, ServeWaiter(h, t)
  PROVE  SessionInv'
  <1>1. IndInv /\ TypeOK /\ PutsInv /\ LastReadKnown
    BY DEF GetInv, IndInv, SessionInv
  <1>2. PICK b \in Keys : b = key[h][t] /\ Home[b] = h /\ pc[h][t] = "serve"
    BY <1>1 DEF ServeWaiter, IndInv, ThreadsHomed
  <1>3. todo[h][t] \in Seq(Message) /\ todo[h][t] # <<>>
    BY <1>1 DEF ServeWaiter, TypeOK
  <1>4. PICK w : w = Head(todo[h][t])
    OBVIOUS
  <1>5. w \in Message /\ w \in Range(todo[h][t])
    BY <1>3, <1>4, RangeTail
  <1>6. w.kind = "WaitAndGet" /\ w.from # h /\ w.key = b /\ w.from \in Nodes
    BY <1>1, <1>2, <1>5 DEF IndInv, TodoHomed, GetInv, Keyed, Message
  <1>7. PICK r : r = DataMsg("ReplyData", h, b, kvMap[h][b])
    OBVIOUS
  <1>8. r \in Message /\ r.kind = "ReplyData" /\ r.key = b /\ r.val = kvMap[h][b]
    BY <1>1, <1>7, MessageTypes DEF MsgKind, DataMsg, TypeOK
  <1>9. /\ Send(w.from, r)
        /\ UNCHANGED <<pc, key, kvMap, msgCache, ops, request, found, result, log, lastPut, lastRead>>
    BY <1>2, <1>4, <1>6, <1>7 DEF ServeWaiter, store, rtLocal, history
  <1>10. \A a \in Nodes : QuietMove(queue[a], queue'[a])
    BY <1>1, <1>6, <1>8, <1>9, SendMovesQuietly
  <1>11. \A a \in Nodes :
           Range(queue'[a]) = IF a = w.from THEN Range(queue[a]) \cup {r} ELSE Range(queue[a])
    BY <1>1, <1>6, <1>8, <1>9, SendEffect
  <1>12. kvMap[h][b] # NoValue
    <2>1. log[b] # <<>> /\ log[b] \in Seq(Value)
      BY <1>1, <1>2, ValueTypes DEF SessionInv, Stored, Putting
    <2>2. log[b][Len(log[b])] \in Value
      BY <2>1
    <2>3. QED
      BY <1>1, <1>2, <2>1, <2>2, NoValueAssumption DEF PutsInv, LogLast
  <1>13. ASSUME NEW n \in Nodes, NEW k \in Keys, WaitsFor(n, k), ~Leaked(n), aborted[n] = "no",
                NEW m \in Range(queue'[n]) \cup Range(msgCache'[n][k]), IsReply(m, k)
         PROVE  \/ m \in Range(queue[n]) \cup Range(msgCache[n][k])
                \/ FreshFor(n, k, m.val)
    <2>1. CASE m = r /\ n = w.from
      <3>1. k = b
        BY <1>8, <1>13, <2>1 DEF IsReply
      <3>2. HasServed(n, k)
        BY <1>2, <1>5, <1>6, <2>1, <3>1 DEF HasServed, IsRequest
      <3>3. Home[k] # n
        BY <1>2, <1>6, <2>1, <3>1
      <3>4. ~HasAsked(n, k)
        BY <1>13, <3>2, <3>3, OnePlace
      <3>5. \A e \in Range(queue[Home[k]]) : ~(e.kind = "Put" /\ e.from = n)
        BY <1>1, <1>13, <3>4, NoPutLeft DEF SessionInv
      <3>6. FreshFor(n, k, kvMap[Home[k]][k])
        BY <1>1, <1>2, <1>12, <3>1, <3>5, ReadIsFresh
      <3>7. QED
        BY <1>2, <1>8, <2>1, <3>1, <3>6
    <2>2. QED
      BY <1>9, <1>11, <1>13, <2>1
  <1>14. \A n \in Nodes, k \in Keys :
           /\ WaitsFor(n, k)' => WaitsFor(n, k)
           /\ Answering(n, k)' => Answering(n, k)
    BY <1>9 DEF WaitsFor, Answering
  <1>15. QED
    BY <1>9, <1>10, <1>13, <1>14, AnswerKeeps

-----------------------------------------------------------------------------
(* The theorems about sessions *)

\* Initially nothing was put.
LEMMA InitSession == Init => SessionInv
  <1> SUFFICES ASSUME Init PROVE SessionInv
    OBVIOUS
  <1>1. /\ \A a \in Nodes, t \in Threads : pc[a][t] \in {"run", "receive"}
        /\ \A a \in Nodes : queue[a] = <<>> /\ result[a] = NoResult
        /\ \A k \in Keys : log[k] = <<>> /\ kvMap[Home[k]][k] = NoValue /\ Home[k] \in Nodes
        /\ \A a \in Nodes, k \in Keys : lastPut[a][k] = 0 /\ lastRead[a][k] = NoValue
    BY KVAssumption DEF Init
  <1>2. Range(<<>>) = {} /\ DOMAIN <<>> = {}
    BY RangeEmpty
  <1>3. PutsOrdered
    BY <1>1, <1>2 DEF PutsOrdered, InOrder
  <1>4. LogBehind /\ LogDistinct /\ LogLast /\ LastPutKnown
    BY <1>1, <1>2 DEF LogBehind, LogDistinct, LogLast, LastPutKnown
  <1>5. LastReadKnown /\ ResultsFresh
    BY <1>1 DEF LastReadKnown, ResultsFresh, NoResult
  <1>6. Stored /\ PutsFirst /\ RepliesFresh
    BY <1>1, LabelTypes DEF Stored, Putting, PutsFirst, RepliesFresh, WaitsFor
  <1>7. QED
    BY <1>3, <1>4, <1>5, <1>6 DEF SessionInv, PutsInv

\* Every step keeps the order of the sessions.
LEMMA NextSession ==
  ASSUME GetInv, SessionInv, [Next]_vars
  PROVE  SessionInv'
  <1>1. TypeOK' /\ Kept /\ PutsInv
    BY NextInd, NextKept DEF GetInv, IndInv, SessionInv
  <1>2. CASE Next
    <2>1. PICK h \in Nodes : NodeStep(h)
      BY <1>2 DEF Next
    <2>2. ASSUME NEW t \in Threads, TryToHandleCache(h, t) PROVE SessionInv'
      BY <1>1, <2>2, AppIdles, ServeWaiterKeeps DEF TryToHandleCache
    <2>3. CASE AppCalls(h)
      <3>1. ASSUME NEW k \in Keys, NEW block \in BOOLEAN, RequestRemote(h, k, block)
            PROVE  SessionInv'
        BY <1>1, <3>1, RequestRemoteKeeps
      <3>2. ASSUME NEW k \in Keys, PutRemote(h, k) PROVE SessionInv'
        BY <1>1, <3>2, PutRemoteKeeps
      <3>3. ASSUME NEW k \in Keys, PutLocal(h, k) PROVE SessionInv'
        BY <1>1, <3>3, PutLocalKeeps
      <3>4. ASSUME NEW k \in Keys, GetLocal(h, k) PROVE SessionInv'
        BY <1>1, <3>4, LocalReturnKeeps
      <3>5. CASE (\E k \in Keys : SpinLocal(h, k)) \/ SendDone(h)
        BY <1>1, <3>5, AppIdles
      <3>6. QED
        BY <2>3, <3>1, <3>2, <3>3, <3>4, <3>5 DEF AppCalls
    <2>4. CASE AppContinues(h) \/ SpuriousWakeup(h)
      <3>1. CASE WaitForReply(h) \/ SpuriousWakeup(h) \/ Join(h)
        BY <1>1, <3>1, AppIdles
      <3>2. CASE SpinReads(h)
        BY <1>1, <3>2, LocalReturnKeeps
      <3>3. CASE ReturnNull(h) \/ TakeReply(h)
        BY <1>1, <3>3, RemoteReturnKeeps
      <3>4. QED
        BY <2>2, <2>4, <3>1, <3>2, <3>3, LabelTypes DEF AppContinues
    <2>5. CASE ReceiverStep(h)
      <3>1. CASE \/ CacheRequest(h) \/ ReplyNull(h) \/ ReceiveReply(h)
                 \/ ReceiveDone(h) \/ SendTeardown(h) \/ ReceiveTeardown(h)
        BY <1>1, <3>1, ReceiverIdles
      <3>2. CASE ReceivePut(h)
        BY <1>1, <3>2, ReceivePutKeeps
      <3>3. CASE ReceiveRequest(h)
        BY <1>1, <3>3, ReceiveRequestKeeps
      <3>4. CASE AnswerRequest(h)
        BY <1>1, <3>4, AnswerRequestKeeps
      <3>5. QED
        BY <2>2, <2>5, <3>1, <3>2, <3>3, <3>4, LabelTypes DEF ReceiverStep
    <2>6. QED
      BY <2>1, <2>3, <2>4, <2>5 DEF NodeStep
  <1>3. CASE UNCHANGED vars
    <2>1. NoneBegins /\ NoNewReply /\ \A a \in Nodes : QuietMove(queue[a], queue'[a])
      BY <1>3 DEF vars, NoneBegins, NoNewReply, QuietMove
    <2>2. \A a \in Nodes : ops[a] <= ops'[a]
      BY <1>3, ValueTypes DEF vars, GetInv, IndInv
    <2>3. UNCHANGED <<kvMap, request, found, result, log, lastPut, lastRead>>
      BY <1>3 DEF vars
    <2>4. QED
      BY <1>1, <2>1, <2>2, <2>3, IdleKeeps
  <1>4. QED
    BY <1>2, <1>3

\* What was put and read is where the invariant says, wherever the threads are (kvstore.h, put,
\* getValue and tryToHandleCache_).
THEOREM SessionInvHolds == Spec => [](GetInv /\ SessionInv)
  <1>1. Init => GetInv /\ SessionInv
    BY InitGets, InitSession
  <1>2. GetInv /\ SessionInv /\ [Next]_vars => (GetInv /\ SessionInv)'
    BY NextGets, NextSession
  <1>3. QED
    BY <1>1, <1>2, PTL DEF Spec

\* A store takes a value once, so the order of two values is the order of their positions.
LEMMA PositionsOrdered ==
  ASSUME TypeOK, LogDistinct, NEW k \in Keys, NEW u, NEW v, Precedes(log[k], u, v)
  PROVE  Position(k, u) <= Position(k, v)
  <1>1. DOMAIN log[k] = 1 .. Len(log[k]) /\ Len(log[k]) \in Nat
    BY ValueTypes
  <1>2. PICK i \in 1 .. Len(log[k]), j \in 1 .. Len(log[k]) :
          i <= j /\ log[k][i] = u /\ log[k][j] = v
    BY <1>1 DEF Precedes
  <1>3. \A a, c \in 1 .. Len(log[k]) : log[k][a] = log[k][c] => a = c
    BY <1>1 DEF LogDistinct
  <1>4. Position(k, u) \in 1 .. Len(log[k]) /\ log[k][Position(k, u)] = u
    BY <1>2 DEF Position
  <1>5. Position(k, v) \in 1 .. Len(log[k]) /\ log[k][Position(k, v)] = v
    BY <1>2 DEF Position
  <1>6. Position(k, u) = i /\ Position(k, v) = j
    BY <1>2, <1>3, <1>4, <1>5
  <1>7. QED
    BY <1>2, <1>6

\* Session order: a get returns a value that the home of its key took, not older than the last
\* put of the caller nor than what it got before (kvstore.h, put is not acknowledged).
THEOREM GetsInSessionOrder == Spec => []SessionOrder
  <1>1. ASSUME GetInv, SessionInv
        PROVE  SessionOrder
    <2> SUFFICES ASSUME NEW n \in Nodes, result[n].val # NoValue
                 PROVE  LET r == result[n]
                            taken(v) == \E i \in 1 .. Len(log[r.key]) : log[r.key][i] = v
                            own == [by |-> n, seq |-> r.owes]
                        IN  /\ taken(r.val)
                            /\ r.owes > 0 => taken(own) /\ Position(r.key, own) <= Position(r.key, r.val)
                            /\ r.prev # NoValue => Position(r.key, r.prev) <= Position(r.key, r.val)
      BY DEF SessionOrder
    <2>1. TypeOK /\ LogDistinct
      BY <1>1 DEF GetInv, IndInv, SessionInv, PutsInv
    <2>2. PICK k \in Keys : k = result[n].key
      BY <1>1 DEF SessionInv, ResultsFresh
    <2>3. FreshIn(log[k], n, result[n].owes, result[n].prev, result[n].val)
      BY <1>1, <2>2 DEF SessionInv, ResultsFresh
    <2>4. DOMAIN log[k] = 1 .. Len(log[k])
      BY <2>1, ValueTypes
    <2>5. \E i \in 1 .. Len(log[k]) : log[k][i] = result[n].val
      BY <2>3, <2>4 DEF FreshIn, Range
    <2>6. ASSUME result[n].owes > 0
          PROVE  /\ \E i \in 1 .. Len(log[k]) : log[k][i] = PutBy(n, result[n].owes)
                 /\ Position(k, PutBy(n, result[n].owes)) <= Position(k, result[n].val)
      <3>1. Precedes(log[k], PutBy(n, result[n].owes), result[n].val)
        BY <2>3, <2>6 DEF FreshIn
      <3>2. \E i \in 1 .. Len(log[k]) : log[k][i] = PutBy(n, result[n].owes)
        BY <2>4, <3>1 DEF Precedes
      <3>3. QED
        BY <2>1, <3>1, <3>2, PositionsOrdered
    <2>7. result[n].prev # NoValue =>
            Position(k, result[n].prev) <= Position(k, result[n].val)
      BY <2>1, <2>3, PositionsOrdered DEF FreshIn
    <2>8. QED
      BY <2>2, <2>5, <2>6, <2>7 DEF PutBy
  <1>2. QED
    BY <1>1, SessionInvHolds, PTL

-----------------------------------------------------------------------------
(* Applications that only block *)

\* Every get blocks.
Blocks == GetModes \subseteq {TRUE}

\* Then no node fails or leaks its lock, and no GetData is under way.
Blocking ==
  /\ \A n \in Nodes : aborted[n] = "no" /\ ~Leaked(n)
  /\ \A n \in Nodes : pc[n]["app"] \in Gets => shouldBlock[n]
  /\ \A n \in Nodes : \A m \in Range(queue[n]) : m.kind # "GetData"
  /\ \A n \in Nodes : pc[n]["rt"] = "answer" => request[n].kind # "GetData"

\* Nobody fails.
LEMMA NobodyFails ==
  ASSUME IndInv, GetInv', Blocking, NEW h \in Nodes, NodeStep(h)
  PROVE  UNCHANGED aborted
  <1>1. TypeOK
    BY DEF IndInv
  <1>2. aborted'[h] \notin {"waiterCast", "replyCast", "wrongHome", "replyCount"}
    BY DEF GetInv, IndInv, CastsHold, Failed
  <1>3. ASSUME NEW why, Abort(h, why)
        PROVE  aborted'[h] = why
    BY <1>1, <1>3 DEF Abort, TypeOK
  <1>4. ASSUME NEW t \in Threads, TryToHandleCache(h, t)
        PROVE  UNCHANGED aborted
    BY <1>2, <1>3, <1>4 DEF TryToHandleCache, TakeWaiters, NoWaiters, ServeWaiter, ServedAll
  <1>5. CASE AppCalls(h)
    BY <1>5 DEF AppCalls, PutRemote, PutLocal, GetLocal, SpinLocal, RequestRemote, SendDone
  <1>6. CASE TakeReply(h)
    <2>1. PICK why \in {"replyCount", "replyCast"} : Abort(h, why) \/ UNCHANGED aborted
      BY <1>6 DEF TakeReply
    <2>2. QED
      BY <1>2, <1>3, <2>1
  <1>7. CASE SpinReads(h) \/ WaitForReply(h) \/ ReturnNull(h) \/ Join(h) \/ SpuriousWakeup(h)
    BY <1>7 DEF SpinReads, WaitForReply, ReturnNull, Join, SpuriousWakeup
  <1>8. CASE ReceivePut(h)
    BY <1>2, <1>3, <1>8 DEF ReceivePut
  <1>9. ~ReplyNull(h)
    BY DEF ReplyNull, Blocking
  <1>10. CASE \/ ReceiveRequest(h) \/ AnswerRequest(h) \/ CacheRequest(h) \/ ReceiveReply(h)
              \/ ReceiveDone(h) \/ SendTeardown(h) \/ ReceiveTeardown(h)
    BY <1>10 DEF ReceiveRequest, AnswerRequest, CacheRequest, ReceiveReply, ReceiveDone,
                 SendTeardown, ReceiveTeardown
  <1>11. QED
    BY <1>4, <1>5, <1>6, <1>7, <1>8, <1>9, <1>10, LabelTypes
       DEF NodeStep, AppContinues, ReceiverStep

\* Nor does a node leave getFromNetwork_ with the lock.
LEMMA NobodyLeaks ==
  ASSUME GetInv, GetInv', Blocking, NEW h \in Nodes, NodeStep(h)
  PROVE  \A n \in Nodes : ~Leaked(n)'
  <1>1. IndInv /\ TypeOK /\ "app" \in Threads /\ "rt" \in Threads
    BY LabelTypes DEF GetInv, IndInv
  <1>2. UNCHANGED aborted
    BY <1>1, NobodyFails
  <1>3. \A n \in Nodes : lock[n] = "app" => pc[n]["app"] = "serve"
    BY DEF Blocking, Leaked
  <1>4. ASSUME UNCHANGED lock,
               \A n \in Nodes : pc'[n]["app"] = pc[n]["app"] \/ pc[n]["app"] # "serve"
        PROVE  \A n \in Nodes : ~Leaked(n)'
    BY <1>3, <1>4 DEF Leaked
  <1>5. ASSUME NEW t \in Threads, NEW l \in Labels, Goto(h, t, l)
        PROVE  \A a \in Nodes : pc'[a]["app"] = IF a = h /\ t = "app" THEN l ELSE pc[a]["app"]
    BY <1>1, <1>5, GotoEffect
  <1>6. ASSUME NEW t \in Threads, NEW l \in Labels, Goto(h, t, l), UNCHANGED lock, pc[h][t] # "serve"
        PROVE  \A n \in Nodes : ~Leaked(n)'
    BY <1>4, <1>5, <1>6
  <1>7. ASSUME NEW t \in Threads, TryToHandleCache(h, t)
        PROVE  \A n \in Nodes : ~Leaked(n)'
    <2>1. CASE TakeWaiters(h, t)
      <3>1. lock' = [lock EXCEPT ![h] = t] /\ Goto(h, t, "serve")
        BY <2>1 DEF TakeWaiters
      <3>2. \A a \in Nodes : pc'[a]["app"] = IF a = h /\ t = "app" THEN "serve" ELSE pc[a]["app"]
        BY <1>5, <3>1, LabelTypes
      <3>3. \A a \in Nodes : lock'[a] = IF a = h THEN t ELSE lock[a]
        BY <1>1, <3>1 DEF TypeOK
      <3>4. QED
        BY <1>3, <3>2, <3>3 DEF Leaked
    <2>2. CASE NoWaiters(h, t)
      BY <1>6, <2>2, LabelTypes DEF NoWaiters, store
    <2>3. CASE ServeWaiter(h, t)
      <3>1. todo[h][t] \in Seq(Message) /\ todo[h][t] # <<>>
        BY <1>1, <2>3 DEF ServeWaiter, TypeOK
      <3>2. Head(todo[h][t]) \in Range(todo[h][t])
        BY <3>1, RangeTail
      <3>3. UNCHANGED pc
        BY <1>1, <2>3, <3>2 DEF ServeWaiter, IndInv, TodoHomed
      <3>4. QED
        BY <1>4, <2>3, <3>3 DEF ServeWaiter, store
    <2>4. CASE ServedAll(h, t)
      <3>1. lock' = [lock EXCEPT ![h] = "free"] /\ Goto(h, t, Idle(t))
        BY <2>4 DEF ServedAll
      <3>2. \A a \in Nodes : a # h => pc'[a]["app"] = pc[a]["app"]
        BY <1>5, <3>1, LabelTypes
      <3>3. \A a \in Nodes : lock'[a] = IF a = h THEN "free" ELSE lock[a]
        BY <1>1, <3>1 DEF TypeOK
      <3>4. QED
        BY <1>3, <3>2, <3>3 DEF Leaked
    <2>5. QED
      BY <1>7, <2>1, <2>2, <2>3, <2>4 DEF TryToHandleCache
  <1>8. CASE AppCalls(h)
    <2>1. ASSUME NEW b \in Keys, PutRemote(h, b) \/ GetLocal(h, b)
          PROVE  \A n \in Nodes : ~Leaked(n)'
      BY <1>4, <2>1 DEF PutRemote, GetLocal, store
    <2>2. ASSUME NEW b \in Keys, PutLocal(h, b) \/ SpinLocal(h, b)
          PROVE  \A n \in Nodes : ~Leaked(n)'
      BY <1>1, <1>6, <2>2, LabelTypes DEF PutLocal, StoreValue, SpinLocal, Call, store
    <2>3. ASSUME NEW b \in Keys, NEW block \in BOOLEAN, RequestRemote(h, b, block)
          PROVE  \A n \in Nodes : ~Leaked(n)'
      BY <1>1, <1>6, <2>3, LabelTypes DEF RequestRemote, Call, store
    <2>4. CASE SendDone(h)
      BY <1>1, <1>6, <2>4, LabelTypes DEF SendDone, store
    <2>5. QED
      BY <1>8, <2>1, <2>2, <2>3, <2>4 DEF AppCalls
  <1>9. CASE SpinReads(h) \/ WaitForReply(h) \/ Join(h) \/ SpuriousWakeup(h)
    <2>1. PICK l \in {"run", "asleep", "exited", "lockCache"} :
            Goto(h, "app", l) /\ UNCHANGED lock /\ pc[h]["app"] # "serve"
      BY <1>9 DEF SpinReads, WaitForReply, Join, SpuriousWakeup, store
    <2>2. QED
      BY <1>1, <1>6, <2>1, LabelTypes
  <1>10. ~ReturnNull(h)
    BY DEF ReturnNull, Blocking, Gets
  <1>11. CASE TakeReply(h)
    <2>1. UNCHANGED lock /\ pc[h]["app"] = "lockCache"
      BY <1>11 DEF TakeReply
    <2>2. \A a \in Nodes : a # h => pc'[a]["app"] = pc[a]["app"]
      BY <1>1, <1>11 DEF TakeReply, Abort, Goto, TypeOK
    <2>3. QED
      BY <1>4, <2>1, <2>2
  <1>12. CASE ReceiverStep(h) /\ ~TryToHandleCache(h, "rt")
    <2>1. ASSUME NEW l \in Labels, Goto(h, "rt", l), UNCHANGED lock
          PROVE  \A n \in Nodes : ~Leaked(n)'
      BY <1>1, <1>4, <1>5, <2>1
    <2>2. CASE ReceiveRequest(h) \/ AnswerRequest(h) \/ ReceiveTeardown(h)
      BY <2>1, <2>2, LabelTypes DEF ReceiveRequest, AnswerRequest, ReceiveTeardown, store
    <2>3. CASE ReceivePut(h)
      <3>1. Home[Head(queue[h]).key] = h
        <4>1. Head(queue[h]) \in Range(queue[h]) /\ Head(queue[h]).kind = "Put"
          BY <1>1, <2>3, ReceiveEffect DEF ReceivePut, Receive
        <4>2. QED
          BY <1>1, <4>1 DEF IndInv, QueueHomed, WellHomed
      <3>2. QED
        BY <2>1, <2>3, <3>1, LabelTypes DEF ReceivePut, StoreValue
    <2>4. CASE ReceiveDone(h) \/ SendTeardown(h)
      <3>1. PICK l \in {"teardown", "receive"} : Goto(h, "rt", l) /\ UNCHANGED lock
        BY <2>4 DEF ReceiveDone, SendTeardown, store
      <3>2. QED
        BY <2>1, <3>1, LabelTypes
    <2>5. CASE CacheRequest(h) \/ ReceiveReply(h)
      <3>1. /\ UNCHANGED lock
            /\ pc' = [pc EXCEPT ![h]["rt"] = "receive",
                                ![h]["app"] = IF @ = "asleep" THEN "lockCache" ELSE @]
        BY <2>5 DEF CacheRequest, ReceiveReply, AddToCache
      <3>2. \A a \in Nodes : pc'[a]["app"] = pc[a]["app"] \/ pc[a]["app"] = "asleep"
        BY <1>1, <3>1 DEF TypeOK
      <3>3. QED
        BY <1>4, <3>1, <3>2
    <2>6. ~ReplyNull(h)
      BY DEF ReplyNull, Blocking
    <2>7. QED
      BY <1>12, <2>2, <2>3, <2>4, <2>5, <2>6 DEF ReceiverStep
  <1>13. QED
    BY <1>7, <1>8, <1>9, <1>10, <1>11, <1>12, LabelTypes DEF NodeStep, AppContinues

\* No get without blocking is under way.
Asking ==
  /\ \A n \in Nodes : pc[n]["app"] \in Gets => shouldBlock[n]
  /\ \A n \in Nodes : \A m \in Range(queue[n]) : m.kind # "GetData"
  /\ \A n \in Nodes : pc[n]["rt"] = "answer" => request[n].kind # "GetData"

\* A step that starts none.
LEMMA AskingKept ==
  ASSUME Blocking,
         \A n \in Nodes : \A m \in Range(queue'[n]) : m \in Range(queue[n]) \/ m.kind # "GetData",
         UNCHANGED <<shouldBlock, request>>,
         \A n \in Nodes : /\ pc'[n]["app"] \in Gets => pc[n]["app"] \in Gets
                          /\ pc'[n]["rt"] = "answer" => pc[n]["rt"] = "answer"
  PROVE  Asking'
  BY DEF Blocking, Asking

\* Steps of the application thread, and of tryToHandleCache_.
LEMMA AppAsking ==
  ASSUME Blocks, GetInv, GetInv', Blocking, NEW h \in Nodes,
         \/ AppCalls(h) \/ AppContinues(h) \/ SpuriousWakeup(h)
         \/ TryToHandleCache(h, "rt")
  PROVE  Asking'
  <1>1. IndInv /\ TypeOK /\ "app" \in Threads /\ "rt" \in Threads
    BY LabelTypes DEF GetInv, IndInv
  <1>2. ASSUME NEW x \in Nodes, NEW m \in Message, Send(x, m), m.kind # "GetData"
        PROVE  \A n \in Nodes : \A e \in Range(queue'[n]) : e \in Range(queue[n]) \/ e.kind # "GetData"
    BY <1>1, <1>2, SendEffect
  <1>3. ASSUME NEW t \in Threads, NEW l \in Labels, Goto(h, t, l),
               l \notin Gets \cup {"answer"} \/ (l \in Gets /\ pc[h][t] \in Gets)
        PROVE  \A n \in Nodes : /\ pc'[n]["app"] \in Gets => pc[n]["app"] \in Gets
                                /\ pc'[n]["rt"] = "answer" => pc[n]["rt"] = "answer"
    BY <1>1, <1>3, GotoEffect DEF Gets
  <1>4. ASSUME NEW t \in Threads, NEW l \in Labels, Goto(h, t, l),
               l \notin Gets \cup {"answer"} \/ (l \in Gets /\ pc[h][t] \in Gets),
               UNCHANGED <<queue, shouldBlock, request>>
        PROVE  Asking'
    BY <1>3, <1>4, AskingKept
  <1>5. ASSUME UNCHANGED <<queue, pc, shouldBlock, request>>
        PROVE  Asking'
    BY <1>5, AskingKept
  <1>6. ASSUME NEW t \in Threads, TryToHandleCache(h, t)
        PROVE  Asking'
    <2>1. CASE TakeWaiters(h, t)
      BY <1>4, <2>1, LabelTypes DEF TakeWaiters, network, rtLocal, Gets
    <2>2. CASE NoWaiters(h, t) \/ ServedAll(h, t)
      <3>1. Idle(t) \in Labels /\ Idle(t) \notin Gets \cup {"answer"}
        BY LabelTypes DEF Idle, Gets
      <3>2. QED
        BY <1>4, <2>2, <3>1 DEF NoWaiters, ServedAll, network, rtLocal
    <2>3. CASE ServeWaiter(h, t)
      <3>1. todo[h][t] \in Seq(Message) /\ todo[h][t] # <<>> /\ key[h][t] \in Keys
        BY <1>1, <2>3 DEF ServeWaiter, TypeOK, IndInv, ThreadsHomed
      <3>2. PICK w \in Message : w = Head(todo[h][t]) /\ w \in Range(todo[h][t])
        BY <3>1, RangeTail
      <3>3. PICK r : r = DataMsg("ReplyData", h, key[h][t], kvMap[h][key[h][t]])
        OBVIOUS
      <3>4. r \in Message /\ r.kind = "ReplyData" /\ w.from \in Nodes
        <4>1. kvMap[h][key[h][t]] \in Value \cup {NoValue}
          BY <1>1, <3>1 DEF TypeOK
        <4>2. w.from \in Nodes
          BY <3>2 DEF Message
        <4>3. r \in Message /\ r.kind = "ReplyData"
          BY <3>1, <3>3, <4>1, MessageTypes DEF MsgKind, DataMsg
        <4>4. QED
          BY <4>2, <4>3
      <3>5. Send(w.from, r) /\ UNCHANGED <<pc, shouldBlock, request>>
        BY <1>1, <2>3, <3>2, <3>3 DEF ServeWaiter, IndInv, TodoHomed, rtLocal
      <3>6. QED
        BY <1>2, <3>4, <3>5, AskingKept
    <2>4. QED
      BY <1>6, <2>1, <2>2, <2>3 DEF TryToHandleCache
  <1>7. CASE AppCalls(h)
    <2>1. ASSUME NEW b \in Keys, PutRemote(h, b)
          PROVE  Asking'
      <3>1. PICK m : m = DataMsg("Put", h, b, NextValue(h))
        OBVIOUS
      <3>2. m \in Message /\ m.kind = "Put" /\ Home[b] \in Nodes
        BY <1>1, <2>1, <3>1, CallEffect, MessageTypes, KVAssumption DEF PutRemote, MsgKind, DataMsg
      <3>3. Send(Home[b], m) /\ UNCHANGED <<pc, shouldBlock, request>>
        BY <2>1, <3>1 DEF PutRemote, rtLocal
      <3>4. QED
        BY <1>2, <3>2, <3>3, AskingKept
    <2>2. ASSUME NEW b \in Keys, GetLocal(h, b)
          PROVE  Asking'
      BY <1>5, <2>2 DEF GetLocal, network, rtLocal
    <2>3. ASSUME NEW b \in Keys, PutLocal(h, b) \/ SpinLocal(h, b)
          PROVE  Asking'
      BY <1>1, <1>4, <2>3, LabelTypes DEF PutLocal, StoreValue, SpinLocal, network, rtLocal, Gets
    <2>4. ASSUME NEW b \in Keys, NEW block \in BOOLEAN, RequestRemote(h, b, block)
          PROVE  Asking'
      <3>1. block = TRUE
        BY <2>4 DEF RequestRemote, Blocks
      <3>2. PICK m : m = DataMsg("WaitAndGet", h, b, NoValue)
        OBVIOUS
      <3>3. m \in Message /\ m.kind = "WaitAndGet" /\ Home[b] \in Nodes
        BY <3>2, MessageTypes, KVAssumption DEF MsgKind, DataMsg
      <3>4. /\ Send(Home[b], m) /\ Goto(h, "app", "lockCache")
            /\ shouldBlock' = [shouldBlock EXCEPT ![h] = TRUE] /\ UNCHANGED request
        BY <2>4, <3>1, <3>2 DEF RequestRemote, rtLocal
      <3>5. \A n \in Nodes : \A e \in Range(queue'[n]) : e \in Range(queue[n]) \/ e.kind # "GetData"
        BY <1>2, <3>3, <3>4
      <3>6. \A a \in Nodes, u \in Threads :
              pc'[a][u] = IF a = h /\ u = "app" THEN "lockCache" ELSE pc[a][u]
        BY <1>1, <3>4, GotoEffect, LabelTypes
      <3>7. \A a \in Nodes : shouldBlock'[a] = IF a = h THEN TRUE ELSE shouldBlock[a]
        BY <1>1, <3>4 DEF TypeOK
      <3>8. QED
        BY <1>1, <3>4, <3>5, <3>6, <3>7 DEF Asking, Blocking
    <2>5. CASE SendDone(h)
      <3>1. PICK m : m = ControlMsg("Done", h)
        OBVIOUS
      <3>2. m \in Message /\ m.kind = "Done"
        BY <3>1, MessageTypes DEF MsgKind, ControlMsg
      <3>3. Send(Server, m) /\ Goto(h, "app", "join") /\ UNCHANGED <<shouldBlock, request>>
        BY <2>5, <3>1 DEF SendDone, rtLocal
      <3>4. \A n \in Nodes : \A e \in Range(queue'[n]) : e \in Range(queue[n]) \/ e.kind # "GetData"
        BY <1>2, <3>2, <3>3, KVAssumption
      <3>5. \A n \in Nodes : /\ pc'[n]["app"] \in Gets => pc[n]["app"] \in Gets
                             /\ pc'[n]["rt"] = "answer" => pc[n]["rt"] = "answer"
        BY <1>1, <1>3, <3>3, LabelTypes DEF Gets
      <3>6. QED
        BY <3>3, <3>4, <3>5, AskingKept
    <2>6. QED
      BY <1>7, <2>1, <2>2, <2>3, <2>4, <2>5 DEF AppCalls
  <1>8. CASE SpinReads(h) \/ WaitForReply(h) \/ Join(h) \/ SpuriousWakeup(h) \/ TakeReply(h)
    <2>1. PICK l \in {"run", "asleep", "exited", "lockCache"} :
            /\ Goto(h, "app", l) \/ TakeReply(h)
            /\ l \in Gets => pc[h]["app"] \in Gets
            /\ UNCHANGED <<queue, shouldBlock, request>>
      BY <1>8 DEF SpinReads, WaitForReply, Join, SpuriousWakeup, TakeReply, network, rtLocal, Gets
    <2>2. CASE Goto(h, "app", l)
      BY <1>1, <1>4, <2>1, <2>2, LabelTypes DEF Gets
    <2>3. CASE TakeReply(h)
      <3>1. \A a \in Nodes : /\ a # h => pc'[a] = pc[a]
                             /\ pc'[h]["app"] \in {"run", "aborted"}
                             /\ pc'[h]["rt"] \in {pc[h]["rt"], "aborted"}
        BY <1>1, <2>3 DEF TakeReply, Abort, Goto, TypeOK
      <3>2. QED
        BY <2>1, <3>1, AskingKept DEF Gets
    <2>4. QED
      BY <2>1, <2>2, <2>3
  <1>9. ~ReturnNull(h)
    BY DEF ReturnNull, Blocking, Gets
  <1>10. QED
    BY <1>1, <1>6, <1>7, <1>8, <1>9 DEF AppContinues

\* Other steps of the receiver.
LEMMA ReceiverAsking ==
  ASSUME GetInv, Blocking, NEW h \in Nodes, ReceiverStep(h), ~TryToHandleCache(h, "rt")
  PROVE  Asking'
  <1>1. IndInv /\ TypeOK /\ "app" \in Threads /\ "rt" \in Threads
    BY LabelTypes DEF GetInv, IndInv
  <1>2. ASSUME NEW l \in Labels, Goto(h, "rt", l), l # "answer", UNCHANGED <<shouldBlock, request>>,
               \A n \in Nodes : \A m \in Range(queue'[n]) : m \in Range(queue[n]) \/ m.kind # "GetData"
        PROVE  Asking'
    <2>1. \A n \in Nodes : /\ pc'[n]["app"] \in Gets => pc[n]["app"] \in Gets
                           /\ pc'[n]["rt"] = "answer" => pc[n]["rt"] = "answer"
      BY <1>1, <1>2, GotoEffect
    <2>2. QED
      BY <1>2, <2>1, AskingKept
  <1>3. ASSUME NEW kinds, Receive(h, kinds)
        PROVE  /\ \A n \in Nodes : Range(queue'[n]) \subseteq Range(queue[n])
               /\ Head(queue[h]) \in Range(queue[h])
    BY <1>1, <1>3, ReceiveEffect
  <1>4. CASE ReceiveRequest(h)
    <2>1. PICK m : m = Head(queue[h])
      OBVIOUS
    <2>2. /\ Receive(h, {"GetData", "WaitAndGet"}) /\ Goto(h, "rt", "answer")
          /\ request' = [request EXCEPT ![h] = m] /\ UNCHANGED shouldBlock
      BY <1>4, <2>1 DEF ReceiveRequest
    <2>3. m \in Range(queue[h])
      BY <1>3, <2>1, <2>2
    <2>4. \A a \in Nodes, u \in Threads :
            pc'[a][u] = IF a = h /\ u = "rt" THEN "answer" ELSE pc[a][u]
      BY <1>1, <2>2, GotoEffect, LabelTypes
    <2>5. \A a \in Nodes : request'[a] = IF a = h THEN m ELSE request[a]
      BY <1>1, <2>2 DEF TypeOK
    <2>6. \A n \in Nodes : Range(queue'[n]) \subseteq Range(queue[n])
      BY <1>3, <2>2
    <2>7. \A n \in Nodes : pc'[n]["app"] \in Gets => shouldBlock'[n]
      BY <1>1, <2>2, <2>4 DEF Blocking
    <2>8. \A n \in Nodes : \A e \in Range(queue'[n]) : e.kind # "GetData"
      BY <2>6 DEF Blocking
    <2>9. \A n \in Nodes : pc'[n]["rt"] = "answer" => request'[n].kind # "GetData"
      <3>1. m.kind # "GetData"
        BY <2>3 DEF Blocking
      <3>2. \A n \in Nodes : n # h => pc'[n]["rt"] = pc[n]["rt"] /\ request'[n] = request[n]
        BY <1>1, <2>4, <2>5
      <3>3. request'[h] = m
        BY <2>5
      <3>4. QED
        BY <3>1, <3>2, <3>3 DEF Blocking
    <2>10. QED
      BY <2>7, <2>8, <2>9 DEF Asking
  <1>5. CASE AnswerRequest(h)
    <2>1. PICK q \in Message : q = request[h] /\ q.from \in Nodes /\ q.key \in Keys
      BY <1>1, <1>5 DEF AnswerRequest, IndInv, ThreadsHomed, TypeOK, Message
    <2>2. PICK r : r = DataMsg("ReplyData", h, q.key, found[h])
      OBVIOUS
    <2>3. r \in Message /\ r.kind = "ReplyData"
      BY <1>1, <2>1, <2>2, MessageTypes DEF MsgKind, DataMsg, TypeOK
    <2>4. Send(q.from, r) /\ Goto(h, "rt", "receive") /\ UNCHANGED <<shouldBlock, request>>
      BY <1>5, <2>1, <2>2 DEF AnswerRequest, rtLocal
    <2>5. \A n \in Nodes :
            Range(queue'[n]) = IF n = q.from THEN Range(queue[n]) \cup {r} ELSE Range(queue[n])
      BY <1>1, <2>1, <2>3, <2>4, SendEffect
    <2>6. \A n \in Nodes : \A m \in Range(queue'[n]) : m \in Range(queue[n]) \/ m.kind # "GetData"
      BY <2>3, <2>5
    <2>7. QED
      BY <1>2, <2>4, <2>6, LabelTypes
  <1>6. CASE CacheRequest(h) \/ ReceiveReply(h)
    <2>1. /\ pc' = [pc EXCEPT ![h]["rt"] = "receive",
                              ![h]["app"] = IF @ = "asleep" THEN "lockCache" ELSE @]
          /\ UNCHANGED <<shouldBlock, request>>
          /\ UNCHANGED queue \/ Receive(h, {"ReplyData"})
      BY <1>6 DEF CacheRequest, ReceiveReply, AddToCache, network, rtLocal
    <2>2. \A n \in Nodes : Range(queue'[n]) \subseteq Range(queue[n])
      BY <1>3, <2>1
    <2>3. \A n \in Nodes : /\ pc'[n]["app"] \in Gets => pc[n]["app"] \in Gets
                           /\ pc'[n]["rt"] = "answer" => pc[n]["rt"] = "answer"
      BY <1>1, <2>1 DEF TypeOK, Gets
    <2>4. QED
      BY <2>1, <2>2, <2>3, AskingKept
  <1>7. CASE ReceivePut(h)
    <2>1. Receive(h, {"Put"}) /\ UNCHANGED <<shouldBlock, request>>
      BY <1>7 DEF ReceivePut, rtLocal
    <2>2. Head(queue[h]).key \in Keys /\ Home[Head(queue[h]).key] = h
      BY <1>1, <1>3, <2>1 DEF Receive, IndInv, QueueHomed, WellHomed
    <2>3. Goto(h, "rt", "handleCache")
      BY <1>7, <2>2 DEF ReceivePut, StoreValue
    <2>4. QED
      BY <1>2, <1>3, <2>1, <2>3, LabelTypes
  <1>8. CASE ReceiveDone(h)
    <2>1. PICK l \in {"teardown", "receive"} : Goto(h, "rt", l)
      BY <1>8 DEF ReceiveDone
    <2>2. Receive(h, {"Done"}) /\ UNCHANGED <<shouldBlock, request>>
      BY <1>8 DEF ReceiveDone, rtLocal
    <2>3. QED
      BY <1>2, <1>3, <2>1, <2>2, LabelTypes
  <1>9. CASE SendTeardown(h)
    <2>1. PICK l \in {"teardown", "receive"} : Goto(h, "rt", l)
      BY <1>9 DEF SendTeardown
    <2>2. PICK m : m = ControlMsg("Teardown", h)
      OBVIOUS
    <2>3. m \in Message /\ m.kind = "Teardown"
      BY <2>2, MessageTypes DEF MsgKind, ControlMsg
    <2>4. PICK x \in Nodes : x = nextTorn
      BY <1>1, <1>9, KVAssumption DEF SendTeardown, IndInv, TeardownLast, TypeOK, Nodes
    <2>5. Send(x, m) /\ UNCHANGED <<shouldBlock, request>>
      BY <1>9, <2>2, <2>4 DEF SendTeardown, rtLocal
    <2>6. \A n \in Nodes : \A e \in Range(queue'[n]) : e \in Range(queue[n]) \/ e.kind # "GetData"
      <3>1. \A a \in Nodes :
              Range(queue'[a]) = IF a = x THEN Range(queue[a]) \cup {m} ELSE Range(queue[a])
        BY <1>1, <2>3, <2>5, SendEffect
      <3>2. QED
        BY <2>3, <3>1
    <2>7. QED
      BY <1>2, <2>1, <2>5, <2>6, LabelTypes
  <1>10. CASE ReceiveTeardown(h)
    <2>1. /\ Receive(h, {"Teardown"}) /\ Goto(h, "rt", "exited")
          /\ UNCHANGED <<shouldBlock, request>>
      BY <1>10 DEF ReceiveTeardown, rtLocal
    <2>2. QED
      BY <1>2, <1>3, <2>1, LabelTypes
  <1>11. ~ReplyNull(h)
    BY DEF ReplyNull, Blocking
  <1>12. QED
    BY <1>4, <1>5, <1>6, <1>7, <1>8, <1>9, <1>10, <1>11 DEF ReceiverStep

\* Applications that only block keep to it.
LEMMA NextBlocking ==
  ASSUME Blocks, GetInv, Blocking, [Next]_vars
  PROVE  Blocking'
  <1>1. GetInv' /\ IndInv
    BY NextGets DEF GetInv
  <1>2. ASSUME NEW h \in Nodes, NodeStep(h)
        PROVE  Blocking'
    <2>1. UNCHANGED aborted /\ \A n \in Nodes : ~Leaked(n)'
      BY <1>1, <1>2, NobodyFails, NobodyLeaks
    <2>2. Asking'
      BY <1>1, <1>2, AppAsking, ReceiverAsking DEF NodeStep
    <2>3. QED
      BY <2>1, <2>2 DEF Blocking, Asking
  <1>3. CASE UNCHANGED vars
    BY <1>3 DEF vars, Blocking, Leaked
  <1>4. QED
    BY <1>2, <1>3 DEF Next

-----------------------------------------------------------------------------
(* The value on its way to a get *)

\* What OnItsWay is: the value of the reply, or what the home read, or nothing.
Ways ==
  \A n \in Nodes, k \in Keys : WaitsFor(n, k) =>
    /\ \A m \in Range(queue[n]) \cup Range(msgCache[n][k]) :
         IsReply(m, k) => OnItsWay(n) = m.val
    /\ ~HasReply(n, k) => OnItsWay(n) = IF Answering(n, k) THEN found[Home[k]] ELSE NoValue

\* A set of at most one position.
LEMMA AtMostOne ==
  ASSUME NEW S, IsFiniteSet(S), Cardinality(S) <= 1, NEW i \in S, NEW j \in S
  PROVE  i = j
  <1>1. Cardinality(S) \in Nat
    BY FS_CardinalityType
  <1>2. Cardinality(S) # 0
    BY FS_EmptySet
  <1>3. Cardinality(S) = 1
    BY <1>1, <1>2
  <1>4. QED
    BY <1>3, FS_Singleton

\* If there is at most one reply for a key, in the inbox or the cache, any two are the same.
LEMMA UniqueReply ==
  ASSUME NEW s \in Seq(Message), NEW c \in Seq(Message), NEW k,
         Cardinality(RepliesIn(s, k)) + Cardinality(RepliesIn(c, k)) <= 1,
         NEW a \in Range(s) \cup Range(c), NEW b \in Range(s) \cup Range(c),
         IsReply(a, k), IsReply(b, k)
  PROVE  a = b
  <1>1. /\ Cardinality(RepliesIn(s, k)) \in Nat /\ Cardinality(RepliesIn(c, k)) \in Nat
        /\ \A e \in Range(s) : IsReply(e, k) => Cardinality(RepliesIn(s, k)) # 0
        /\ \A e \in Range(c) : IsReply(e, k) => Cardinality(RepliesIn(c, k)) # 0
    BY Counts
  <1>2. ASSUME NEW q \in Seq(Message), Cardinality(RepliesIn(q, k)) <= 1,
               a \in Range(q), b \in Range(q)
        PROVE  a = b
    <2>1. PICK i \in DOMAIN q : a = q[i]
      BY <1>2 DEF Range
    <2>2. PICK j \in DOMAIN q : b = q[j]
      BY <1>2 DEF Range
    <2>3. i \in RepliesIn(q, k) /\ j \in RepliesIn(q, k)
      BY <2>1, <2>2 DEF RepliesIn, IsReply
    <2>4. IsFiniteSet(RepliesIn(q, k))
      <3>1. RepliesIn(q, k) = At(q, {e \in Message : IsReply(e, k)})
        BY CountedMessages
      <3>2. QED
        BY <3>1, CountAt
    <2>5. i = j
      BY <1>2, <2>3, <2>4, AtMostOne
    <2>6. QED
      BY <2>1, <2>2, <2>5
  <1>3. CASE a \in Range(s) /\ b \in Range(s)
    BY <1>1, <1>2, <1>3
  <1>4. CASE a \in Range(c) /\ b \in Range(c)
    BY <1>1, <1>2, <1>4
  <1>5. ~(a \in Range(s) /\ b \in Range(c))
    BY <1>1
  <1>6. ~(a \in Range(c) /\ b \in Range(s))
    BY <1>1
  <1>7. QED
    BY <1>3, <1>4, <1>5, <1>6

\* A receiver that answers a node answers the get that this node is in.
LEMMA WaysKnown ==
  ASSUME GetInv, Blocking
  PROVE  Ways
  <1>1. IndInv /\ TypeOK
    BY DEF GetInv, IndInv
  <1> SUFFICES ASSUME NEW n \in Nodes, NEW k \in Keys, WaitsFor(n, k)
               PROVE  /\ \A m \in Range(queue[n]) \cup Range(msgCache[n][k]) :
                           IsReply(m, k) => OnItsWay(n) = m.val
                      /\ ~HasReply(n, k) =>
                           OnItsWay(n) = IF Answering(n, k) THEN found[Home[k]] ELSE NoValue
    BY DEF Ways
  <1>2. k = key[n]["app"] /\ Home[k] # n /\ Home[k] \in Nodes
    BY <1>1, KVAssumption DEF WaitsFor, IndInv, ThreadsHomed
  <1>3. queue[n] \in Seq(Message) /\ msgCache[n][k] \in Seq(Message)
    BY <1>1 DEF TypeOK
  <1>4. Coming(n, k) + Arrived(n, k) <= 1
    BY <1>2, OnePlace DEF Blocking
  <1> DEFINE replies == {m \in Range(queue[n]) \cup Range(msgCache[n][k]) :
                           m.kind = "ReplyData" /\ m.key = k}
  <1>5. OnItsWay(n) = IF replies # {}
                      THEN (CHOOSE m \in replies : TRUE).val
                      ELSE IF pc[Home[k]]["rt"] = "answer" /\ request[Home[k]].from = n
                           THEN found[Home[k]] ELSE NoValue
    BY <1>2 DEF OnItsWay
  <1>6. \A m \in Range(queue[n]) \cup Range(msgCache[n][k]) : IsReply(m, k) <=> m \in replies
    BY DEF IsReply
  <1> HIDE DEF replies
  <1>7. ASSUME NEW m \in Range(queue[n]) \cup Range(msgCache[n][k]), IsReply(m, k)
        PROVE  OnItsWay(n) = m.val
    <2>1. m \in replies
      BY <1>6, <1>7
    <2>2. PICK e : e = CHOOSE x \in replies : TRUE
      OBVIOUS
    <2>3. e \in replies
      BY <2>1, <2>2
    <2>4. e \in Range(queue[n]) \cup Range(msgCache[n][k]) /\ IsReply(e, k)
      BY <1>6, <2>3 DEF replies
    <2>5. e = m
      BY <1>3, <1>4, <1>7, <2>4, UniqueReply DEF Coming, Arrived
    <2>6. QED
      BY <1>5, <2>1, <2>2, <2>5
  <1>8. ASSUME ~HasReply(n, k)
        PROVE  OnItsWay(n) = IF Answering(n, k) THEN found[Home[k]] ELSE NoValue
    <2>1. replies = {}
      BY <1>6, <1>8 DEF HasReply, replies
    <2>2. pc[Home[k]]["rt"] = "answer" /\ request[Home[k]].from = n <=> Answering(n, k)
      <3>1. ASSUME pc[Home[k]]["rt"] = "answer", request[Home[k]].from = n
            PROVE  request[Home[k]].key = k
        <4>1. PICK c \in Keys : c = request[Home[k]].key /\ Home[c] = Home[k]
          BY <1>1, <1>2, <3>1 DEF IndInv, ThreadsHomed
        <4>2. Answering(n, c)
          BY <3>1, <4>1 DEF Answering
        <4>3. WaitsFor(n, c)
          BY <1>2, <4>1, <4>2, OnePlace DEF Blocking
        <4>4. QED
          BY <1>2, <4>1, <4>3 DEF WaitsFor
      <3>2. QED
        BY <3>1 DEF Answering
    <2>3. QED
      BY <1>5, <2>1, <2>2
  <1>9. QED
    BY <1>7, <1>8

-----------------------------------------------------------------------------
(* What a step does to the variables of SharedStore *)

\* Two tables that differ at one place.
LEMMA OnePlaceDiffers ==
  ASSUME NEW S, NEW T, NEW f \in [S -> [S -> T]], NEW g \in [S -> [S -> T]],
         NEW x \in S, NEW r \in S, NEW y \in T,
         \A a \in S, c \in S : g[a][c] = IF a = x /\ c = r THEN y ELSE f[a][c]
  PROVE  g = [f EXCEPT ![x][r] = y]
  <1> DEFINE e == [f EXCEPT ![x][r] = y]
  <1>1. /\ e \in [S -> [S -> T]]
        /\ \A a \in S, c \in S : e[a][c] = IF a = x /\ c = r THEN y ELSE f[a][c]
    <2>1. [f EXCEPT ![x][r] = y] \in [S -> [S -> T]]
      BY Except2Type
    <2>2. \A a \in S, c \in S :
            [f EXCEPT ![x][r] = y][a][c] = IF a = x /\ c = r THEN y ELSE f[a][c]
      OBVIOUS
    <2>3. QED
      BY <2>1, <2>2
  <1> HIDE DEF e
  <1>2. \A a \in S : g[a] = e[a]
    <2> SUFFICES ASSUME NEW a \in S PROVE g[a] = e[a]
      OBVIOUS
    <2>1. g[a] \in [S -> T] /\ e[a] \in [S -> T] /\ \A c \in S : g[a][c] = e[a][c]
      BY <1>1
    <2>2. QED
      BY <2>1
  <1>3. g = e
    BY <1>1, <1>2
  <1>4. QED
    BY <1>3 DEF e

\* A put on its way, as SharedStore records it.
PutOf(m) == [num |-> m.val.seq, key |-> m.key, val |-> m.val]

\* The puts of n that are in an inbox, before a step and after it.
LEMMA PutsAt ==
  /\ \A n \in Nodes, h \in Nodes : PutsNow[n][h] = {PutOf(m) : m \in PutsIn(queue[h], n)}
  /\ \A n \in Nodes, h \in Nodes : PutsNow'[n][h] = {PutOf(m) : m \in PutsIn(queue'[h], n)}
  <1>1. \A n \in Nodes, h \in Nodes : PutsNow[n][h] = {PutOf(m) : m \in PutsIn(queue[h], n)}
    BY DEF PutsNow, PutOf
  <1>2. \A n \in Nodes, h \in Nodes : PutsNow'[n][h] = {PutOf(m) : m \in PutsIn(queue'[h], n)}
    BY DEF PutsNow, PutOf, PutsIn
  <1>3. QED
    BY <1>1, <1>2

\* A step that changes the puts of one node to one home.
LEMMA PutsBecome ==
  ASSUME NEW n \in Nodes, NEW h \in Nodes, NEW y,
         \A a \in Nodes, c \in Nodes : PutsNow'[a][c] = IF a = n /\ c = h THEN y ELSE PutsNow[a][c]
  PROVE  PutsNow' = [PutsNow EXCEPT ![n][h] = y]
  <1>1. PICK f : f = PutsNow
    OBVIOUS
  <1>2. PICK g : g = PutsNow'
    OBVIOUS
  <1>3. /\ f = [a \in Nodes |-> [c \in Nodes |-> f[a][c]]]
        /\ g = [a \in Nodes |-> [c \in Nodes |-> g[a][c]]]
    <2>1. PutsNow = [a \in Nodes |-> [c \in Nodes |-> PutsNow[a][c]]]
      BY DEF PutsNow
    <2>2. PutsNow' = [a \in Nodes |-> [c \in Nodes |-> PutsNow'[a][c]]]
      BY DEF PutsNow
    <2>3. QED
      BY <1>1, <1>2, <2>1, <2>2
  <1>4. \A a \in Nodes, c \in Nodes : g[a][c] = IF a = n /\ c = h THEN y ELSE f[a][c]
    BY <1>1, <1>2
  <1> DEFINE T == {f[a][c] : a \in Nodes, c \in Nodes} \cup {y}
  <1>5. \A a \in Nodes, c \in Nodes : f[a][c] \in T /\ g[a][c] \in T
    BY <1>4
  <1> HIDE DEF T
  <1>6. f \in [Nodes -> [Nodes -> T]] /\ g \in [Nodes -> [Nodes -> T]]
    BY <1>3, <1>5
  <1>7. y \in T
    BY DEF T
  <1>8. g = [f EXCEPT ![n][h] = y]
    BY <1>4, <1>6, <1>7, OnePlaceDiffers
  <1>9. QED
    BY <1>1, <1>2, <1>8

\* A quiet step leaves them.
LEMMA PutsStay ==
  ASSUME TypeOK, \A a \in Nodes : QuietMove(queue[a], queue'[a])
  PROVE  PutsNow' = PutsNow
  <1>1. \A h \in Nodes : \A n : PutsIn(queue'[h], n) = PutsIn(queue[h], n)
    <2> SUFFICES ASSUME NEW h \in Nodes, NEW n
                 PROVE  PutsIn(queue'[h], n) = PutsIn(queue[h], n)
      OBVIOUS
    <2>1. \A e : e \in Range(queue'[h]) /\ e.kind = "Put" <=> e \in Range(queue[h]) /\ e.kind = "Put"
      BY ValueTypes, QuietMoveKeeps
    <2>2. QED
      BY <2>1 DEF PutsIn
  <1>2. QED
    BY <1>1 DEF PutsNow, PutsIn

\* A step that changes no value.
LEMMA MapStays ==
  ASSUME UNCHANGED kvMap
  PROVE  MapNow' = MapNow
  BY DEF MapNow

\* A step that stores one.
LEMMA MapBecomes ==
  ASSUME TypeOK, NEW b \in Keys, NEW v \in Value, kvMap' = [kvMap EXCEPT ![Home[b]][b] = v]
  PROVE  MapNow' = [MapNow EXCEPT ![b] = v]
  <1>1. \A k \in Keys : kvMap'[Home[k]][k] = IF k = b THEN v ELSE kvMap[Home[k]][k]
    BY ValueTypes DEF TypeOK
  <1>2. MapNow' = [k \in Keys |-> kvMap'[Home[k]][k]]
    BY DEF MapNow
  <1>3. QED
    BY <1>1, <1>2 DEF MapNow

\* The application of a goes on in its get, or outside gets.
RolesStay(a) ==
  /\ pc'[a]["app"] = "spin" <=> pc[a]["app"] = "spin"
  /\ pc'[a]["app"] \in Gets <=> pc[a]["app"] \in Gets
  /\ pc[a]["app"] \in Gets \cup {"spin"} => key'[a]["app"] = key[a]["app"]

\* What is on its way to a get stays on its way.
WayStays(a) ==
  \A k \in Keys : WaitsFor(a, k) =>
    /\ \A m \in Range(queue[a]) \cup Range(msgCache[a][k]) : IsReply(m, k) =>
         m \in Range(queue'[a]) \cup Range(msgCache'[a][k])
    /\ \A m \in Range(queue'[a]) \cup Range(msgCache'[a][k]) : IsReply(m, k) =>
         m \in Range(queue[a]) \cup Range(msgCache[a][k])
    /\ (IF Answering(a, k) THEN found[Home[k]] ELSE NoValue)' =
       (IF Answering(a, k) THEN found[Home[k]] ELSE NoValue)

\* Then so do the get of a and the value it has taken.
LEMMA GetStays ==
  ASSUME IndInv, Ways, Ways', NEW a \in Nodes, RolesStay(a), WayStays(a)
  PROVE  GettingNow'[a] = GettingNow[a] /\ TakenNow'[a] = TakenNow[a]
  <1>1. GettingNow'[a] = GettingNow[a]
    BY DEF GettingNow, InGet, RolesStay, Gets
  <1>2. CASE pc[a]["app"] \notin Gets
    BY <1>1, <1>2 DEF TakenNow, RolesStay, Gets
  <1>3. CASE pc[a]["app"] \in Gets
    <2>1. PICK k \in Keys : k = key[a]["app"]
      BY <1>3 DEF IndInv, ThreadsHomed, Gets
    <2>2. WaitsFor(a, k) /\ WaitsFor(a, k)'
      BY <1>3, <2>1 DEF WaitsFor, RolesStay, Gets
    <2>3. OnItsWay(a)' = OnItsWay(a)
      <3>1. CASE HasReply(a, k)
        <4>1. PICK m \in Range(queue[a]) \cup Range(msgCache[a][k]) : IsReply(m, k)
          BY <3>1 DEF HasReply
        <4>2. OnItsWay(a) = m.val
          BY <2>2, <4>1 DEF Ways
        <4>3. m \in Range(queue'[a]) \cup Range(msgCache'[a][k])
          BY <2>2, <4>1 DEF WayStays
        <4>4. OnItsWay(a)' = m.val
          BY <2>2, <4>1, <4>3 DEF Ways, IsReply
        <4>5. QED
          BY <4>2, <4>4
      <3>2. CASE ~HasReply(a, k)
        <4>1. ~HasReply(a, k)'
          BY <2>2, <3>2 DEF WayStays, HasReply, IsReply
        <4>2. OnItsWay(a) = IF Answering(a, k) THEN found[Home[k]] ELSE NoValue
          BY <2>2, <3>2 DEF Ways
        <4>3. OnItsWay(a)' = (IF Answering(a, k) THEN found[Home[k]] ELSE NoValue)'
          BY <2>2, <4>1 DEF Ways
        <4>4. QED
          BY <2>2, <4>2, <4>3 DEF WayStays
      <3>3. QED
        BY <3>1, <3>2
    <2>4. TakenNow[a] = OnItsWay(a) /\ TakenNow'[a] = OnItsWay(a)'
      BY <1>3 DEF TakenNow, RolesStay, Gets
    <2>5. QED
      BY <1>1, <2>3, <2>4
  <1>4. QED
    BY <1>2, <1>3

\* Of all nodes.
LEMMA GetsStay ==
  ASSUME IndInv, Ways, Ways', \A a \in Nodes : RolesStay(a) /\ WayStays(a)
  PROVE  GettingNow' = GettingNow /\ TakenNow' = TakenNow
  <1>1. \A a \in Nodes : GettingNow'[a] = GettingNow[a] /\ TakenNow'[a] = TakenNow[a]
    BY GetStays
  <1>2. /\ GettingNow = [a \in Nodes |-> GettingNow[a]] /\ GettingNow' = [a \in Nodes |-> GettingNow'[a]]
        /\ TakenNow = [a \in Nodes |-> TakenNow[a]] /\ TakenNow' = [a \in Nodes |-> TakenNow'[a]]
    BY DEF GettingNow, TakenNow
  <1>3. QED
    BY <1>1, <1>2

\* What the last get returned.
LEMMA ReturnedStays ==
  ASSUME UNCHANGED result
  PROVE  ReturnedNow' = ReturnedNow
  BY DEF ReturnedNow

-----------------------------------------------------------------------------
(* Steps that SharedStore does not see *)

\* No reply for a key that lives elsewhere comes to a node, or leaves it.
RepliesStay ==
  \A n \in Nodes, k \in Keys : Home[k] # n => \A m :
    m \in Range(queue'[n]) \cup Range(msgCache'[n][k]) /\ IsReply(m, k) <=>
    m \in Range(queue[n]) \cup Range(msgCache[n][k]) /\ IsReply(m, k)

\* A push of another message brings none, ...
LEMMA SendNoReply ==
  ASSUME TypeOK, NEW h \in Nodes, NEW m \in Message, Send(h, m), m.kind # "ReplyData",
         UNCHANGED msgCache
  PROVE  RepliesStay
  <1>1. \A a \in Nodes :
          Range(queue'[a]) = IF a = h THEN Range(queue[a]) \cup {m} ELSE Range(queue[a])
    BY SendEffect
  <1>2. \A a \in Nodes : \A e : e.kind = "ReplyData" => (e \in Range(queue'[a]) <=> e \in Range(queue[a]))
    BY <1>1
  <1>3. QED
    BY <1>2 DEF RepliesStay, IsReply

\* ... and a pop of another message takes none.
LEMMA ReceiveNoReply ==
  ASSUME TypeOK, NEW h \in Nodes, NEW kinds, Receive(h, kinds), "ReplyData" \notin kinds,
         UNCHANGED msgCache
  PROVE  RepliesStay
  <1>1. PICK s \in Seq(Message) : s = queue[h] /\ s # <<>> /\ Head(s).kind # "ReplyData"
    BY ValueTypes DEF Receive
  <1>2. \A a \in Nodes : queue'[a] = IF a = h THEN Tail(s) ELSE queue[a]
    BY <1>1 DEF Receive, TypeOK
  <1>3. Range(Tail(s)) \subseteq Range(s) /\ \A e \in Range(s) : e = Head(s) \/ e \in Range(Tail(s))
    BY <1>1, RangeTail, RangeHeadTail
  <1>4. \A a \in Nodes : \A m : m.kind = "ReplyData" => (m \in Range(queue'[a]) <=> m \in Range(queue[a]))
    BY <1>1, <1>2, <1>3
  <1>5. QED
    BY <1>4 DEF RepliesStay, IsReply

\* What the receiver of the home has read for the get of n of k.
ReadFor(n, k) == IF Answering(n, k) THEN found[Home[k]] ELSE NoValue

\* A step that leaves the gets alone.
LEMMA GetsUntouched ==
  ASSUME IndInv, Ways, Ways', RepliesStay, \A a \in Nodes : RolesStay(a),
         \A n \in Nodes, k \in Keys : ReadFor(n, k)' = ReadFor(n, k)
  PROVE  GettingNow' = GettingNow /\ TakenNow' = TakenNow
  <1>1. \A a \in Nodes : WayStays(a)
    <2> SUFFICES ASSUME NEW a \in Nodes, NEW k \in Keys, WaitsFor(a, k)
                 PROVE  /\ \A m \in Range(queue[a]) \cup Range(msgCache[a][k]) : IsReply(m, k) =>
                             m \in Range(queue'[a]) \cup Range(msgCache'[a][k])
                        /\ \A m \in Range(queue'[a]) \cup Range(msgCache'[a][k]) : IsReply(m, k) =>
                             m \in Range(queue[a]) \cup Range(msgCache[a][k])
                        /\ (IF Answering(a, k) THEN found[Home[k]] ELSE NoValue)' =
                           (IF Answering(a, k) THEN found[Home[k]] ELSE NoValue)
      BY DEF WayStays
    <2>1. Home[k] # a
      BY DEF WaitsFor, IndInv, ThreadsHomed
    <2>2. QED
      BY <2>1 DEF RepliesStay, ReadFor
  <1>2. QED
    BY <1>1, GetsStay

\* A step that leaves the map and the puts on their way alone, too.
LEMMA Stutters ==
  ASSUME IndInv, Ways, Ways', RepliesStay, \A a \in Nodes : RolesStay(a),
         \A a \in Nodes : QuietMove(queue[a], queue'[a]),
         \A n \in Nodes, k \in Keys : ReadFor(n, k)' = ReadFor(n, k),
         UNCHANGED <<kvMap, result>>
  PROVE  UNCHANGED Shared!svars
  <1>1. GettingNow' = GettingNow /\ TakenNow' = TakenNow
    BY GetsUntouched
  <1>2. PutsNow' = PutsNow
    BY PutsStay DEF IndInv
  <1>3. MapNow' = MapNow /\ ReturnedNow' = ReturnedNow
    BY MapStays, ReturnedStays
  <1>4. QED
    BY <1>1, <1>2, <1>3 DEF Shared!svars

\* A thread moves on, outside gets or inside its get, and the receiver to or from no answer.
LEMMA GotoStutters ==
  ASSUME IndInv, Ways, Ways', NEW h \in Nodes, NEW t \in Threads, NEW l \in Labels, Goto(h, t, l),
         pc[h][t] # "answer", l # "answer",
         \/ pc[h][t] \in Gets /\ l \in Gets
         \/ pc[h][t] \notin Gets \cup {"spin"} /\ l \notin Gets \cup {"spin"},
         RepliesStay, \A a \in Nodes : QuietMove(queue[a], queue'[a]),
         UNCHANGED <<key, request, found, kvMap, result>>
  PROVE  UNCHANGED Shared!svars
  <1>1. TypeOK
    BY DEF IndInv
  <1>2. \A a \in Nodes, u \in Threads : pc'[a][u] = IF a = h /\ u = t THEN l ELSE pc[a][u]
    BY <1>1, GotoEffect
  <1>3. \A a \in Nodes : RolesStay(a)
    BY <1>2, LabelTypes DEF RolesStay, Gets
  <1>4. \A n \in Nodes, k \in Keys : ReadFor(n, k)' = ReadFor(n, k)
    <2>1. \A n \in Nodes, k \in Keys : Answering(n, k)' <=> Answering(n, k)
      BY <1>2, KVAssumption, LabelTypes DEF Answering
    <2>2. QED
      BY <2>1 DEF ReadFor
  <1>5. QED
    BY <1>3, <1>4, Stutters

\* Steps of the application, and of tryToHandleCache_, that change none of this.
LEMMA AppStutters ==
  ASSUME GetInv, Ways, Ways', NEW h \in Nodes,
         \/ WaitForReply(h) \/ SpuriousWakeup(h) \/ Join(h) \/ SendDone(h)
         \/ \E t \in Threads : TakeWaiters(h, t) \/ NoWaiters(h, t) \/ ServedAll(h, t)
  PROVE  UNCHANGED Shared!svars
  <1>1. IndInv /\ TypeOK /\ "app" \in Threads /\ "rt" \in Threads
    BY LabelTypes DEF GetInv, IndInv
  <1>2. ASSUME UNCHANGED <<queue, msgCache>>
        PROVE  RepliesStay /\ \A a \in Nodes : QuietMove(queue[a], queue'[a])
    BY <1>2 DEF RepliesStay, QuietMove
  <1>3. CASE WaitForReply(h) \/ SpuriousWakeup(h)
    <2>1. PICK l \in {"asleep", "lockCache"} :
            /\ Goto(h, "app", l) /\ pc[h]["app"] \in Gets
            /\ UNCHANGED <<queue, msgCache, key, request, found, kvMap, result>>
      BY <1>3 DEF WaitForReply, SpuriousWakeup, Gets, network, store, rtLocal
    <2>2. l \in Labels /\ l \in Gets /\ l # "answer" /\ pc[h]["app"] # "answer"
      BY <2>1, LabelTypes DEF Gets
    <2>3. QED
      BY <1>1, <1>2, <2>1, <2>2, GotoStutters
  <1>4. CASE Join(h)
    <2>1. /\ Goto(h, "app", "exited") /\ pc[h]["app"] = "join"
          /\ UNCHANGED <<queue, msgCache, key, request, found, kvMap, result>>
      BY <1>4 DEF Join, network, store, rtLocal
    <2>2. QED
      BY <1>1, <1>2, <2>1, GotoStutters, LabelTypes DEF Gets
  <1>5. CASE SendDone(h)
    <2>1. PICK m : m = ControlMsg("Done", h)
      OBVIOUS
    <2>2. m \in Message /\ m.kind = "Done"
      BY <2>1, MessageTypes DEF MsgKind, ControlMsg
    <2>3. /\ Send(Server, m) /\ Goto(h, "app", "join") /\ pc[h]["app"] = "run"
          /\ UNCHANGED <<msgCache, key, request, found, kvMap, result>>
      BY <1>5, <2>1 DEF SendDone, store, rtLocal
    <2>4. RepliesStay /\ \A a \in Nodes : QuietMove(queue[a], queue'[a])
      BY <1>1, <2>2, <2>3, KVAssumption, SendMovesQuietly, SendNoReply
    <2>5. QED
      BY <1>1, <2>3, <2>4, GotoStutters, LabelTypes DEF Gets
  <1>6. ASSUME NEW t \in Threads, NoWaiters(h, t) \/ ServedAll(h, t)
        PROVE  UNCHANGED Shared!svars
    <2>1. /\ Goto(h, t, Idle(t)) /\ pc[h][t] \in {"handleCache", "serve"}
          /\ UNCHANGED <<queue, msgCache, key, request, found, kvMap, result>>
      BY <1>6 DEF NoWaiters, ServedAll, network, store, rtLocal
    <2>2. Idle(t) \in Labels /\ Idle(t) \notin Gets \cup {"spin", "answer"}
      BY LabelTypes DEF Idle, Gets
    <2>3. pc[h][t] \notin Gets \cup {"spin", "answer"}
      BY <2>1 DEF Gets
    <2>4. QED
      BY <1>1, <1>2, <2>1, <2>2, <2>3, GotoStutters
  <1>7. ASSUME NEW t \in Threads, TakeWaiters(h, t)
        PROVE  UNCHANGED Shared!svars
    <2>1. key[h][t] \in Keys /\ Home[key[h][t]] = h
      BY <1>1, <1>7 DEF TakeWaiters, IndInv, ThreadsHomed
    <2>2. PICK b \in Keys : b = key[h][t] /\ Home[b] = h
      BY <2>1
    <2>3. /\ msgCache' = [msgCache EXCEPT ![h][b] = <<>>]
          /\ Goto(h, t, "serve") /\ pc[h][t] = "handleCache"
          /\ UNCHANGED <<queue, key, request, found, kvMap, result>>
      BY <1>7, <2>2 DEF TakeWaiters, RemoveArray, network, rtLocal
    <2>4. \A n \in Nodes, k \in Keys : Home[k] # n => msgCache'[n][k] = msgCache[n][k]
      BY <1>1, <2>2, <2>3 DEF TypeOK
    <2>5. RepliesStay /\ \A a \in Nodes : QuietMove(queue[a], queue'[a])
      BY <2>3, <2>4 DEF RepliesStay, QuietMove
    <2>6. "serve" \in Labels /\ "serve" \notin Gets \cup {"spin"}
      BY LabelTypes DEF Gets
    <2>7. QED
      BY <1>1, <2>3, <2>5, <2>6, GotoStutters DEF Gets
  <1>8. QED
    BY <1>3, <1>4, <1>5, <1>6, <1>7

\* Steps of the receiver that change none of this.
LEMMA ReceiverStutters ==
  ASSUME GetInv, Ways, Ways', NEW h \in Nodes,
         ReceiveDone(h) \/ SendTeardown(h) \/ ReceiveTeardown(h)
  PROVE  UNCHANGED Shared!svars
  <1>1. IndInv /\ TypeOK /\ "app" \in Threads /\ "rt" \in Threads
    BY LabelTypes DEF GetInv, IndInv
  <1>2. CASE ReceiveDone(h) \/ ReceiveTeardown(h)
    <2>1. PICK l \in {"teardown", "receive", "exited"} : Goto(h, "rt", l)
      BY <1>2 DEF ReceiveDone, ReceiveTeardown
    <2>2. PICK kinds \in {{"Done"}, {"Teardown"}} : Receive(h, kinds)
      BY <1>2 DEF ReceiveDone, ReceiveTeardown
    <2>3. UNCHANGED <<msgCache, key, request, found, kvMap, result>>
      BY <1>2 DEF ReceiveDone, ReceiveTeardown, store, rtLocal
    <2>4. RepliesStay /\ \A a \in Nodes : QuietMove(queue[a], queue'[a])
      BY <1>1, <2>2, <2>3, ReceiveMovesQuietly, ReceiveNoReply
    <2>5. pc[h]["rt"] = "receive"
      BY <2>2 DEF Receive
    <2>6. l \in Labels /\ l \notin Gets \cup {"spin", "answer"}
      BY LabelTypes DEF Gets
    <2>7. QED
      BY <1>1, <2>1, <2>3, <2>4, <2>5, <2>6, GotoStutters DEF Gets
  <1>3. CASE SendTeardown(h)
    <2>1. PICK m : m = ControlMsg("Teardown", h)
      OBVIOUS
    <2>2. m \in Message /\ m.kind = "Teardown"
      BY <2>1, MessageTypes DEF MsgKind, ControlMsg
    <2>3. PICK x \in Nodes : x = nextTorn
      BY <1>1, <1>3, KVAssumption DEF SendTeardown, IndInv, TeardownLast, TypeOK, Nodes
    <2>4. Send(x, m) /\ UNCHANGED <<msgCache, key, request, found, kvMap, result>>
      BY <1>3, <2>1, <2>3 DEF SendTeardown, store, rtLocal
    <2>5. RepliesStay /\ \A a \in Nodes : QuietMove(queue[a], queue'[a])
      BY <1>1, <2>2, <2>4, SendMovesQuietly, SendNoReply
    <2>6. PICK l \in {"teardown", "receive"} : Goto(h, "rt", l)
      BY <1>3 DEF SendTeardown
    <2>7. l \in Labels /\ l \notin Gets \cup {"spin", "answer"}
      BY LabelTypes DEF Gets
    <2>8. pc[h]["rt"] = "teardown"
      BY <1>3 DEF SendTeardown
    <2>9. QED
      BY <1>1, <2>4, <2>5, <2>6, <2>7, <2>8, GotoStutters DEF Gets
  <1>4. QED
    BY <1>2, <1>3

\* A message is cached: a reply comes out of the inbox, and a request for a key that had no
\* value was none to answer.
LEMMA CacheStutters ==
  ASSUME GetInv, Ways, Ways', NEW h \in Nodes, CacheRequest(h) \/ ReceiveReply(h)
  PROVE  UNCHANGED Shared!svars
  <1>1. IndInv /\ TypeOK /\ "app" \in Threads /\ "rt" \in Threads
    BY LabelTypes DEF GetInv, IndInv
  <1>2. ASSUME NEW b \in Keys, NEW m \in Message, AddToCache(h, b, m), UNCHANGED key
        PROVE  \A a \in Nodes : RolesStay(a)
    <2>1. \A a \in Nodes, u \in Threads :
            pc'[a][u] = IF a = h /\ u = "rt" THEN "receive"
                        ELSE IF a = h /\ u = "app" /\ pc[a][u] = "asleep" THEN "lockCache"
                        ELSE pc[a][u]
      BY <1>1, <1>2, AddToCacheEffect
    <2>2. \A a \in Nodes : pc'[a]["app"] = IF a = h /\ pc[a]["app"] = "asleep" THEN "lockCache"
                                           ELSE pc[a]["app"]
      BY <1>1, <2>1
    <2>3. QED
      BY <1>2, <2>2 DEF RolesStay, Gets
  <1>3. ASSUME NEW b \in Keys, NEW m \in Message, AddToCache(h, b, m)
        PROVE  /\ \A a \in Nodes : pc'[a]["rt"] = IF a = h THEN "receive" ELSE pc[a]["rt"]
               /\ \A a \in Nodes, k \in Keys : Range(msgCache'[a][k]) =
                    IF a = h /\ k = b THEN Range(msgCache[a][k]) \cup {m} ELSE Range(msgCache[a][k])
    <2>1. \A a \in Nodes : pc'[a]["rt"] = IF a = h THEN "receive" ELSE pc[a]["rt"]
      BY <1>1, <1>3, AddToCacheEffect
    <2>2. msgCache' = [msgCache EXCEPT ![h][b] = Append(msgCache[h][b], m)]
      BY <1>3 DEF AddToCache
    <2>3. \A a \in Nodes, k \in Keys :
            msgCache'[a][k] = IF a = h /\ k = b THEN Append(msgCache[a][k], m) ELSE msgCache[a][k]
      BY <1>1, <2>2 DEF TypeOK
    <2>4. Range(Append(msgCache[h][b], m)) = Range(msgCache[h][b]) \cup {m}
      BY <1>1, RangeAppend DEF TypeOK
    <2>5. QED
      BY <2>1, <2>3, <2>4
  <1>4. CASE CacheRequest(h)
    <2>1. PICK m \in Message, b \in Keys : m = request[h] /\ b = m.key /\ Home[b] = h
      BY <1>1, <1>4 DEF CacheRequest, IndInv, ThreadsHomed, TypeOK
    <2>2. /\ AddToCache(h, b, m) /\ pc[h]["rt"] = "answer" /\ found[h] = NoValue
          /\ UNCHANGED <<queue, key, request, found, kvMap, result>>
      BY <1>4, <2>1 DEF CacheRequest, network, rtLocal
    <2>3. RepliesStay /\ \A a \in Nodes : QuietMove(queue[a], queue'[a])
      <3>1. \A a \in Nodes, k \in Keys : Range(msgCache'[a][k]) =
              IF a = h /\ k = b THEN Range(msgCache[a][k]) \cup {m} ELSE Range(msgCache[a][k])
        BY <1>3, <2>2
      <3>2. \A n \in Nodes, k \in Keys : Home[k] # n => Range(msgCache'[n][k]) = Range(msgCache[n][k])
        BY <2>1, <3>1
      <3>3. QED
        BY <2>2, <3>2 DEF RepliesStay, QuietMove
    <2>4. \A n \in Nodes, k \in Keys : ReadFor(n, k)' = ReadFor(n, k)
      BY <1>3, <2>1, <2>2, KVAssumption DEF ReadFor, Answering
    <2>5. QED
      BY <1>1, <1>2, <2>1, <2>2, <2>3, <2>4, Stutters
  <1>5. CASE ReceiveReply(h)
    <2>1. PICK s \in Seq(Message) : s = queue[h] /\ s # <<>>
      BY <1>1, <1>5, ValueTypes DEF ReceiveReply, Receive
    <2>2. PICK m : m = Head(s)
      OBVIOUS
    <2>3. m \in Message /\ m \in Range(s) /\ m.kind = "ReplyData"
      BY <1>5, <2>1, <2>2, RangeTail DEF ReceiveReply, Receive
    <2>4. PICK b \in Keys : b = m.key
      BY <1>1, <2>1, <2>3 DEF IndInv, QueueHomed, WellHomed
    <2>5. /\ Receive(h, {"ReplyData"}) /\ AddToCache(h, b, m) /\ pc[h]["rt"] = "receive"
          /\ UNCHANGED <<key, request, found, kvMap, result>>
      BY <1>5, <2>1, <2>2, <2>4 DEF ReceiveReply, Receive, rtLocal
    <2>6. \A a \in Nodes : QuietMove(queue[a], queue'[a])
      BY <1>1, <2>5, ReceiveMovesQuietly
    <2>7. \A a \in Nodes : queue'[a] = IF a = h THEN Tail(s) ELSE queue[a]
      BY <1>1, <2>1, <2>5 DEF Receive, TypeOK
    <2>8. Range(Tail(s)) \subseteq Range(s) /\ \A e \in Range(s) : e = m \/ e \in Range(Tail(s))
      BY <2>1, <2>2, RangeTail, RangeHeadTail
    <2>9. RepliesStay
      <3> SUFFICES ASSUME NEW n \in Nodes, NEW k \in Keys, NEW e, IsReply(e, k)
                   PROVE  e \in Range(queue'[n]) \cup Range(msgCache'[n][k]) <=>
                          e \in Range(queue[n]) \cup Range(msgCache[n][k])
        BY DEF RepliesStay
      <3>1. Range(msgCache'[n][k]) = IF n = h /\ k = b THEN Range(msgCache[n][k]) \cup {m}
                                     ELSE Range(msgCache[n][k])
        <4>1. \A a \in Nodes, c \in Keys : Range(msgCache'[a][c]) =
                IF a = h /\ c = b THEN Range(msgCache[a][c]) \cup {m} ELSE Range(msgCache[a][c])
          BY <1>3, <2>3, <2>5
        <4>2. QED
          BY <4>1
      <3>2. e = m => k = b
        BY <2>4 DEF IsReply
      <3>3. CASE n # h
        BY <2>7, <3>1, <3>3
      <3>4. CASE n = h
        BY <2>1, <2>3, <2>7, <2>8, <3>1, <3>2, <3>4
      <3>5. QED
        BY <3>3, <3>4
    <2>10. \A n \in Nodes, k \in Keys : ReadFor(n, k)' = ReadFor(n, k)
      <3>1. \A n \in Nodes, k \in Keys : Answering(n, k)' <=> Answering(n, k)
        BY <1>3, <2>3, <2>5, KVAssumption DEF Answering
      <3>2. QED
        BY <2>5, <3>1 DEF ReadFor
    <2>11. QED
      BY <1>1, <1>2, <2>3, <2>5, <2>6, <2>9, <2>10, Stutters
  <1>6. QED
    BY <1>4, <1>5

-----------------------------------------------------------------------------
(* Puts, as SharedStore sees them *)

\* A put of a key that lives elsewhere.
LEMMA PutRemoteShared ==
  ASSUME GetInv, SessionInv, Ways, Ways', NEW h \in Nodes, NEW b \in Keys, PutRemote(h, b)
  PROVE  Shared!SNext
  <1>1. IndInv /\ TypeOK /\ "app" \in Threads
    BY LabelTypes DEF GetInv, IndInv
  <1>2. PICK r \in Nodes : r = Home[b] /\ r # h
    BY <1>1, ValueTypes DEF PutRemote
  <1>3. PICK v \in Value : v = NextValue(h)
    BY <1>1, CallEffect DEF PutRemote
  <1>4. v.seq = ops[h] + 1 /\ v.seq \in 1 .. MaxOps
    BY <1>3 DEF NextValue, Value
  <1>5. PICK m : m = DataMsg("Put", h, b, v)
    OBVIOUS
  <1>6. m \in Message /\ m.kind = "Put" /\ m.from = h /\ m.key = b /\ m.val = v
    BY <1>5, MessageTypes DEF MsgKind, DataMsg
  <1>7. /\ Send(r, m) /\ pc[h]["app"] = "run"
        /\ UNCHANGED <<kvMap, msgCache, pc, key, request, found, result>>
    BY <1>2, <1>3, <1>5 DEF PutRemote, Call, store, rtLocal
  <1>8. \A a \in Nodes :
          Range(queue'[a]) = IF a = r THEN Range(queue[a]) \cup {m} ELSE Range(queue[a])
    BY <1>1, <1>6, <1>7, SendEffect
  <1>9. GettingNow[h] = NoKey
    BY <1>7 DEF GettingNow, InGet
  <1>10. \A q \in PutsNow[h][r] : q.num < v.seq
    <2> SUFFICES ASSUME NEW e \in PutsIn(queue[r], h) PROVE PutOf(e).num < v.seq
      BY PutsAt
    <2>1. e \in Range(queue[r]) /\ e.kind = "Put" /\ e.from = h
      BY DEF PutsIn
    <2>2. e.val \in Value
      BY <1>1, <2>1 DEF IndInv, QueueHomed, WellHomed
    <2>3. e.val.seq <= ops[h] /\ e.val.seq \in Nat /\ ops[h] \in Nat
      BY <1>1, <2>1, <2>2, ValueFields, ValueTypes DEF SessionInv, PutsInv, PutsOrdered
    <2>4. QED
      BY <1>4, <2>3 DEF PutOf
  <1>11. PutsNow' = [PutsNow EXCEPT ![h][r] = PutsNow[h][r] \cup {PutOf(m)}]
    <2>1. \A a \in Nodes, c \in Nodes :
            PutsIn(queue'[c], a) = IF a = h /\ c = r THEN PutsIn(queue[c], a) \cup {m}
                                   ELSE PutsIn(queue[c], a)
      BY <1>6, <1>8 DEF PutsIn
    <2>2. ASSUME NEW a \in Nodes, NEW c \in Nodes
          PROVE  PutsNow'[a][c] = IF a = h /\ c = r THEN PutsNow[h][r] \cup {PutOf(m)}
                                  ELSE PutsNow[a][c]
      <3>1. PICK A : A = PutsIn(queue[c], a)
        OBVIOUS
      <3>2. PutsIn(queue'[c], a) = IF a = h /\ c = r THEN A \cup {m} ELSE A
        BY <2>1, <3>1
      <3>3. PutsNow[a][c] = {PutOf(e) : e \in A}
        BY <3>1, PutsAt
      <3>4. PutsNow'[a][c] = {PutOf(e) : e \in IF a = h /\ c = r THEN A \cup {m} ELSE A}
        BY <3>2, PutsAt
      <3>5. {PutOf(e) : e \in A \cup {m}} = {PutOf(e) : e \in A} \cup {PutOf(m)}
        OBVIOUS
      <3>6. QED
        BY <3>3, <3>4, <3>5
    <2>3. QED
      BY <2>2, PutsBecome
  <1>12. GettingNow' = GettingNow /\ TakenNow' = TakenNow
    <2>1. RepliesStay
      BY <1>1, <1>6, <1>7, SendNoReply
    <2>2. \A a \in Nodes : RolesStay(a)
      BY <1>7 DEF RolesStay
    <2>3. \A n \in Nodes, k \in Keys : ReadFor(n, k)' = ReadFor(n, k)
      BY <1>7 DEF ReadFor, Answering
    <2>4. QED
      BY <1>1, <2>1, <2>2, <2>3, GetsUntouched
  <1>13. MapNow' = MapNow /\ ReturnedNow' = ReturnedNow
    BY <1>7, MapStays, ReturnedStays
  <1>14. Shared!PutThere(h, [key |-> b, val |-> v])
    BY <1>2, <1>4, <1>6, <1>9, <1>10, <1>11, <1>12, <1>13 DEF Shared!PutThere, PutOf
  <1>15. [key |-> b, val |-> v] \in Shared!Pair
    BY DEF Shared!Pair
  <1>16. QED
    BY <1>14, <1>15 DEF Shared!SNext

\* A put by the home of the key.
LEMMA PutLocalShared ==
  ASSUME GetInv, Ways, Ways', NEW h \in Nodes, NEW b \in Keys, PutLocal(h, b)
  PROVE  Shared!SNext
  <1>1. IndInv /\ TypeOK /\ "app" \in Threads
    BY LabelTypes DEF GetInv, IndInv
  <1>2. PICK v \in Value : v = NextValue(h)
    BY <1>1, CallEffect DEF PutLocal
  <1>3. /\ StoreValue(h, "app", b, v) /\ pc[h]["app"] = "run" /\ Home[b] = h
        /\ UNCHANGED <<queue, msgCache, request, found, result>>
    BY <1>2 DEF PutLocal, Call, rtLocal
  <1>4. /\ \A a \in Nodes, u \in Threads :
             key'[a][u] = IF a = h /\ u = "app" THEN b ELSE key[a][u]
        /\ \A a \in Nodes, u \in Threads :
             pc'[a][u] = IF a = h /\ u = "app" THEN "handleCache" ELSE pc[a][u]
    BY <1>1, <1>3, StoreValueEffect
  <1>5. GettingNow[h] = NoKey
    BY <1>3 DEF GettingNow, InGet
  <1>6. MapNow' = [MapNow EXCEPT ![b] = v]
    <2>1. kvMap' = [kvMap EXCEPT ![Home[b]][b] = v]
      BY <1>3 DEF StoreValue
    <2>2. QED
      BY <1>1, <2>1, MapBecomes
  <1>7. PutsNow' = PutsNow
    BY <1>1, <1>3, PutsStay DEF QuietMove
  <1>8. GettingNow' = GettingNow /\ TakenNow' = TakenNow
    <2>1. RepliesStay
      BY <1>3 DEF RepliesStay
    <2>2. \A a \in Nodes : RolesStay(a)
      BY <1>1, <1>3, <1>4 DEF RolesStay, Gets
    <2>3. \A n \in Nodes, k \in Keys : ReadFor(n, k)' = ReadFor(n, k)
      BY <1>3, <1>4, KVAssumption, LabelTypes DEF ReadFor, Answering
    <2>4. QED
      BY <1>1, <2>1, <2>2, <2>3, GetsUntouched
  <1>9. ReturnedNow' = ReturnedNow
    BY <1>3, ReturnedStays
  <1>10. Shared!PutHere(h, [key |-> b, val |-> v])
    BY <1>3, <1>5, <1>6, <1>7, <1>8, <1>9 DEF Shared!PutHere
  <1>11. [key |-> b, val |-> v] \in Shared!Pair
    BY DEF Shared!Pair
  <1>12. QED
    BY <1>10, <1>11 DEF Shared!SNext

\* A put that reaches the home of its key.
LEMMA ReceivePutShared ==
  ASSUME GetInv, TypeOK', SessionInv, Ways, Ways', NEW h \in Nodes, ReceivePut(h)
  PROVE  Shared!SNext
  <1>1. IndInv /\ TypeOK /\ PutsInv /\ "rt" \in Threads
    BY LabelTypes DEF GetInv, IndInv, SessionInv
  <1>2. PICK m \in Range(queue[h]) :
          /\ m = Head(queue[h]) /\ m.kind = "Put" /\ m.key \in Keys /\ Home[m.key] = h
          /\ m.val \in Value /\ m.from \in Nodes
          /\ StoreValue(h, "rt", m.key, m.val)
          /\ \A e \in Range(Tail(queue[h])) :
               e.kind = "Put" /\ e.from = m.from => m.val.seq < e.val.seq
    BY <1>1, ReceivePutPuts
  <1>3. PICK s \in Seq(Message) : s = queue[h] /\ s # <<>>
    BY <1>1, ValueTypes DEF ReceivePut, Receive
  <1>4. PICK b \in Keys, v \in Value, n \in Nodes : b = m.key /\ v = m.val /\ n = m.from
    BY <1>2
  <1>5. /\ Receive(h, {"Put"}) /\ pc[h]["rt"] = "receive"
        /\ UNCHANGED <<msgCache, request, found, result>>
    BY DEF ReceivePut, Receive, rtLocal
  <1>6. \A a \in Nodes : queue'[a] = IF a = h THEN Tail(s) ELSE queue[a]
    BY <1>1, <1>3, <1>5 DEF Receive, TypeOK
  <1>7. Range(Tail(s)) \subseteq Range(s) /\ \A e \in Range(s) : e = m \/ e \in Range(Tail(s))
    BY <1>2, <1>3, RangeTail, RangeHeadTail
  <1>8. m.val.seq \in Nat /\ \A e \in PutsIn(s, n) : e.val.seq \in Nat
    <2>1. \A e \in Range(s) : e.kind = "Put" => e.val \in Value
      BY <1>1, <1>3 DEF IndInv, QueueHomed, WellHomed
    <2>2. QED
      BY <1>2, <2>1, ValueFields DEF PutsIn
  <1>9. /\ \A e \in PutsIn(Tail(s), n) : m.val.seq < e.val.seq
        /\ \A e \in PutsIn(s, n) : e = m \/ e \in PutsIn(Tail(s), n)
        /\ PutsIn(Tail(s), n) \subseteq PutsIn(s, n) /\ m \in PutsIn(s, n)
    BY <1>2, <1>3, <1>4, <1>7 DEF PutsIn
  <1>10. PutOf(m) \in PutsNow[n][h] /\ \A q \in PutsNow[n][h] : PutOf(m).num <= q.num
    <2>1. PutsNow[n][h] = {PutOf(e) : e \in PutsIn(s, n)}
      BY <1>3, PutsAt
    <2>2. \A e \in PutsIn(s, n) : PutOf(m).num <= PutOf(e).num
      BY <1>8, <1>9 DEF PutOf
    <2>3. QED
      BY <1>9, <2>1, <2>2
  <1>11. PutsNow' = [PutsNow EXCEPT ![n][h] = PutsNow[n][h] \ {PutOf(m)}]
    <2>1. {PutOf(e) : e \in PutsIn(Tail(s), n)} = {PutOf(e) : e \in PutsIn(s, n)} \ {PutOf(m)}
      <3>1. \A e \in PutsIn(Tail(s), n) : PutOf(e) # PutOf(m)
        BY <1>8, <1>9 DEF PutOf
      <3>2. QED
        BY <1>9, <3>1
    <2>2. \A a \in Nodes : a # n => PutsIn(Tail(s), a) = PutsIn(s, a)
      BY <1>4, <1>7 DEF PutsIn
    <2>3. PutsNow'[n][h] = PutsNow[n][h] \ {PutOf(m)}
      BY <1>3, <1>6, <2>1, PutsAt
    <2>4. \A a \in Nodes, c \in Nodes : ~(a = n /\ c = h) => PutsIn(queue'[c], a) = PutsIn(queue[c], a)
      BY <1>3, <1>6, <2>2
    <2>5. ASSUME NEW a \in Nodes, NEW c \in Nodes, ~(a = n /\ c = h)
          PROVE  PutsNow'[a][c] = PutsNow[a][c]
      <3>1. PICK A : A = PutsIn(queue[c], a)
        OBVIOUS
      <3>2. PutsIn(queue'[c], a) = A
        BY <2>4, <2>5, <3>1
      <3>3. PutsNow[a][c] = {PutOf(e) : e \in A} /\ PutsNow'[a][c] = {PutOf(e) : e \in A}
        BY <3>1, <3>2, PutsAt
      <3>4. QED
        BY <3>3
    <2>6. \A a \in Nodes, c \in Nodes :
            PutsNow'[a][c] = IF a = n /\ c = h THEN PutsNow[n][h] \ {PutOf(m)} ELSE PutsNow[a][c]
      BY <2>3, <2>5
    <2>7. QED
      BY <2>6, PutsBecome
  <1>12. MapNow' = [MapNow EXCEPT ![b] = v]
    <2>1. kvMap' = [kvMap EXCEPT ![Home[b]][b] = v]
      BY <1>2, <1>4 DEF StoreValue
    <2>2. QED
      BY <1>1, <2>1, MapBecomes
  <1>13. GettingNow' = GettingNow /\ TakenNow' = TakenNow
    <2>1. /\ \A a \in Nodes, u \in Threads :
               key'[a][u] = IF a = h /\ u = "rt" THEN b ELSE key[a][u]
          /\ \A a \in Nodes, u \in Threads :
               pc'[a][u] = IF a = h /\ u = "rt" THEN "handleCache" ELSE pc[a][u]
      BY <1>1, <1>2, <1>4, StoreValueEffect
    <2>2. RepliesStay
      BY <1>1, <1>5, ReceiveNoReply
    <2>3. \A a \in Nodes : RolesStay(a)
      BY <2>1, LabelTypes DEF RolesStay
    <2>4. \A x \in Nodes, k \in Keys : ReadFor(x, k)' = ReadFor(x, k)
      <3>1. \A x \in Nodes, k \in Keys : Answering(x, k)' <=> Answering(x, k)
        BY <1>1, <1>5, <2>1, KVAssumption DEF Answering
      <3>2. QED
        BY <1>5, <3>1 DEF ReadFor
    <2>5. QED
      BY <1>1, <2>2, <2>3, <2>4, GetsUntouched
  <1>14. ReturnedNow' = ReturnedNow
    BY <1>5, ReturnedStays
  <1>15. PutOf(m).key = b /\ PutOf(m).val = v
    BY <1>4 DEF PutOf
  <1>16. Shared!PutArrives(n, h)
    BY <1>10, <1>11, <1>12, <1>13, <1>14, <1>15 DEF Shared!PutArrives
  <1>17. QED
    BY <1>16 DEF Shared!SNext

-----------------------------------------------------------------------------
(* Gets, as SharedStore sees them *)

\* What the get of n has taken: the value of the reply, or what the home read for it.
LEMMA TakenAt ==
  ASSUME Ways, NEW n \in Nodes, NEW k \in Keys, WaitsFor(n, k)
  PROVE  /\ GettingNow[n] = k
         /\ ~HasReply(n, k) => TakenNow[n] = ReadFor(n, k)
         /\ \A m \in Range(queue[n]) \cup Range(msgCache[n][k]) : IsReply(m, k) => TakenNow[n] = m.val
  <1>1. pc[n]["app"] \in {"lockCache", "asleep"} /\ key[n]["app"] = k
    BY DEF WaitsFor
  <1>2. GettingNow[n] = k /\ TakenNow[n] = OnItsWay(n)
    BY <1>1 DEF GettingNow, TakenNow, InGet
  <1>3. QED
    BY <1>2 DEF Ways, ReadFor

\* The same after a step.
LEMMA TakenAfter ==
  ASSUME Ways', NEW n \in Nodes, NEW k \in Keys, WaitsFor(n, k)'
  PROVE  /\ GettingNow'[n] = k
         /\ ~HasReply(n, k)' => TakenNow'[n] = ReadFor(n, k)'
         /\ \A m \in Range(queue'[n]) \cup Range(msgCache'[n][k]) : IsReply(m, k) => TakenNow'[n] = m.val
  <1>1. pc'[n]["app"] \in {"lockCache", "asleep"} /\ key'[n]["app"] = k
    BY DEF WaitsFor
  <1>2. GettingNow'[n] = k /\ TakenNow'[n] = OnItsWay(n)'
    BY <1>1 DEF GettingNow, TakenNow, InGet
  <1>3. ~HasReply(n, k)' => OnItsWay(n)' = ReadFor(n, k)'
    BY DEF Ways, ReadFor
  <1>4. \A m \in Range(queue'[n]) \cup Range(msgCache'[n][k]) : IsReply(m, k) => OnItsWay(n)' = m.val
    BY DEF Ways, IsReply
  <1>5. QED
    BY <1>2, <1>3, <1>4

\* A step that does not touch a node leaves its get alone.
LEMMA NodeUntouched ==
  ASSUME IndInv, Ways, Ways', NEW a \in Nodes,
         pc'[a]["app"] = pc[a]["app"], key'[a]["app"] = key[a]["app"],
         queue'[a] = queue[a], msgCache'[a] = msgCache[a],
         \A k \in Keys : ReadFor(a, k)' = ReadFor(a, k)
  PROVE  GettingNow'[a] = GettingNow[a] /\ TakenNow'[a] = TakenNow[a]
  <1>1. RolesStay(a)
    BY DEF RolesStay
  <1>2. WayStays(a)
    BY DEF WayStays, ReadFor
  <1>3. QED
    BY <1>1, <1>2, GetStays

\* A step that touches the get of one node.
LEMMA GetsBecome ==
  ASSUME NEW n \in Nodes, NEW x, NEW y,
         \A a \in Nodes : a # n => GettingNow'[a] = GettingNow[a] /\ TakenNow'[a] = TakenNow[a],
         GettingNow'[n] = x, TakenNow'[n] = y
  PROVE  /\ GettingNow' = [GettingNow EXCEPT ![n] = x]
         /\ TakenNow' = [TakenNow EXCEPT ![n] = y]
         /\ x = GettingNow[n] => GettingNow' = GettingNow
         /\ y = TakenNow[n] => TakenNow' = TakenNow
  <1>1. /\ GettingNow = [a \in Nodes |-> GettingNow[a]] /\ GettingNow' = [a \in Nodes |-> GettingNow'[a]]
        /\ TakenNow = [a \in Nodes |-> TakenNow[a]] /\ TakenNow' = [a \in Nodes |-> TakenNow'[a]]
    BY DEF GettingNow, TakenNow
  <1>2. PICK f : f = GettingNow
    OBVIOUS
  <1>3. PICK g : g = GettingNow'
    OBVIOUS
  <1>4. PICK s : s = TakenNow
    OBVIOUS
  <1>5. PICK t : t = TakenNow'
    OBVIOUS
  <1>6. /\ f = [a \in Nodes |-> f[a]] /\ g = [a \in Nodes |-> g[a]]
        /\ s = [a \in Nodes |-> s[a]] /\ t = [a \in Nodes |-> t[a]]
        /\ \A a \in Nodes : g[a] = IF a = n THEN x ELSE f[a]
        /\ \A a \in Nodes : t[a] = IF a = n THEN y ELSE s[a]
    BY <1>1, <1>2, <1>3, <1>4, <1>5
  <1>7. g = [f EXCEPT ![n] = x] /\ (x = f[n] => g = f)
    BY <1>6
  <1>8. t = [s EXCEPT ![n] = y] /\ (y = s[n] => t = s)
    BY <1>6
  <1>9. QED
    BY <1>2, <1>3, <1>4, <1>5, <1>7, <1>8

\* A get returns.
LEMMA ReturnedBecomes ==
  ASSUME TypeOK, NEW n \in Nodes, NEW k \in Keys, NEW v \in Value \cup {NoValue}, Return(n, k, v)
  PROVE  ReturnedNow' = [ReturnedNow EXCEPT ![n] = [key |-> k, val |-> v]]
  <1>1. /\ \A a \in Nodes : a # n => result'[a] = result[a]
        /\ result'[n].key = k /\ result'[n].val = v
    <2>1. /\ \A a \in Nodes : a # n => result'[a] = result[a]
          /\ result'[n] = [key |-> k, val |-> v, owes |-> lastPut[n][k], prev |-> lastRead[n][k]]
      BY ReturnMarks
    <2>2. QED
      BY <2>1
  <1>2. ReturnedNow' = [a \in Nodes |-> [key |-> result'[a].key, val |-> result'[a].val]]
    BY DEF ReturnedNow
  <1>3. QED
    BY <1>1, <1>2 DEF ReturnedNow

\* The key of a thread that puts has a value.
LEMMA StoredHasValue ==
  ASSUME TypeOK, PutsInv, Stored, NEW h \in Nodes, NEW t \in Threads, pc[h][t] \in Putting,
         NEW b \in Keys, b = key[h][t], Home[b] = h
  PROVE  kvMap[h][b] # NoValue
  <1>1. log[b] # <<>> /\ log[b] \in Seq(Value)
    BY ValueTypes DEF Stored
  <1>2. log[b][Len(log[b])] \in Value
    BY <1>1
  <1>3. QED
    BY <1>1, <1>2, NoValueAssumption DEF PutsInv, LogLast

\* A get of a key that lives here begins.
LEMMA SpinLocalShared ==
  ASSUME GetInv, Ways, Ways', NEW h \in Nodes, NEW b \in Keys, SpinLocal(h, b)
  PROVE  Shared!SNext
  <1>1. IndInv /\ TypeOK /\ "app" \in Threads /\ "rt" \in Threads
    BY LabelTypes DEF GetInv, IndInv
  <1>2. /\ Goto(h, "app", "spin") /\ key' = [key EXCEPT ![h]["app"] = b] /\ pc[h]["app"] = "run"
        /\ UNCHANGED <<queue, msgCache, request, found, kvMap, result>>
    BY DEF SpinLocal, Call, network, store, rtLocal
  <1>3. /\ \A a \in Nodes, u \in Threads :
             key'[a][u] = IF a = h /\ u = "app" THEN b ELSE key[a][u]
        /\ \A a \in Nodes, u \in Threads :
             pc'[a][u] = IF a = h /\ u = "app" THEN "spin" ELSE pc[a][u]
    BY <1>1, <1>2, KeyEffect, GotoEffect, LabelTypes
  <1>4. \A a \in Nodes, k \in Keys : ReadFor(a, k)' = ReadFor(a, k)
    BY <1>1, <1>2, <1>3, KVAssumption DEF ReadFor, Answering
  <1>5. \A a \in Nodes : a # h => GettingNow'[a] = GettingNow[a] /\ TakenNow'[a] = TakenNow[a]
    BY <1>1, <1>2, <1>3, <1>4, NodeUntouched
  <1>6. /\ GettingNow[h] = NoKey /\ TakenNow[h] = NoValue
        /\ GettingNow'[h] = b /\ TakenNow'[h] = NoValue
    <2>1. pc'[h]["app"] = "spin" /\ key'[h]["app"] = b
      BY <1>1, <1>3
    <2>2. QED
      BY <1>2, <2>1 DEF GettingNow, TakenNow, InGet
  <1>7. GettingNow' = [GettingNow EXCEPT ![h] = b] /\ TakenNow' = TakenNow
    BY <1>5, <1>6, GetsBecome
  <1>8. MapNow' = MapNow /\ PutsNow' = PutsNow /\ ReturnedNow' = ReturnedNow
    BY <1>1, <1>2, MapStays, PutsStay, ReturnedStays DEF QuietMove
  <1>9. Shared!GetCalled(h, b)
    BY <1>6, <1>7, <1>8 DEF Shared!GetCalled
  <1>10. QED
    BY <1>9 DEF Shared!SNext

\* A get of a key that lives elsewhere begins: nothing is on its way to it.
LEMMA RequestRemoteShared ==
  ASSUME GetInv, Blocking, Ways, Ways', NEW h \in Nodes, NEW b \in Keys, NEW block \in BOOLEAN,
         RequestRemote(h, b, block)
  PROVE  Shared!SNext
  <1>1. IndInv /\ TypeOK /\ "app" \in Threads /\ "rt" \in Threads
    BY LabelTypes DEF GetInv, IndInv
  <1>2. PICK m : m = DataMsg(IF block THEN "WaitAndGet" ELSE "GetData", h, b, NoValue)
    OBVIOUS
  <1>3. m \in Message /\ m.kind \in {"GetData", "WaitAndGet"}
    BY <1>2, MessageTypes DEF MsgKind, DataMsg
  <1>4. PICK r \in Nodes : r = Home[b] /\ r # h
    BY <1>1, ValueTypes DEF RequestRemote
  <1>5. /\ pc[h]["app"] = "run" /\ Send(r, m) /\ Goto(h, "app", "lockCache")
        /\ key' = [key EXCEPT ![h]["app"] = b]
        /\ UNCHANGED <<kvMap, msgCache, request, found, result>>
    BY <1>2, <1>4 DEF RequestRemote, Call, store, rtLocal
  <1>6. /\ \A a \in Nodes, u \in Threads :
             key'[a][u] = IF a = h /\ u = "app" THEN b ELSE key[a][u]
        /\ \A a \in Nodes, u \in Threads :
             pc'[a][u] = IF a = h /\ u = "app" THEN "lockCache" ELSE pc[a][u]
    BY <1>1, <1>5, KeyEffect, GotoEffect, LabelTypes
  <1>7. RepliesStay /\ \A a \in Nodes : QuietMove(queue[a], queue'[a])
    BY <1>1, <1>3, <1>5, SendMovesQuietly, SendNoReply
  <1>8. \A a \in Nodes, k \in Keys : ReadFor(a, k)' = ReadFor(a, k)
    BY <1>1, <1>5, <1>6, KVAssumption DEF ReadFor, Answering
  <1>9. ASSUME NEW a \in Nodes, a # h
        PROVE  GettingNow'[a] = GettingNow[a] /\ TakenNow'[a] = TakenNow[a]
    <2>1. RolesStay(a)
      BY <1>1, <1>6, <1>9 DEF RolesStay
    <2>2. \A k \in Keys : WaitsFor(a, k) => Home[k] # a
      BY <1>1 DEF WaitsFor, IndInv, ThreadsHomed
    <2>3. WayStays(a)
      BY <1>7, <1>8, <2>2 DEF WayStays, RepliesStay, ReadFor
    <2>4. QED
      BY <1>1, <2>1, <2>3, GetStays
  <1>10. GettingNow[h] = NoKey /\ TakenNow[h] = NoValue
    BY <1>5 DEF GettingNow, TakenNow, InGet
  <1>11. GettingNow'[h] = b /\ TakenNow'[h] = NoValue
    <2>1. ~WaitsFor(h, b)
      BY <1>5 DEF WaitsFor
    <2>2. ~Leaked(h) /\ aborted[h] = "no"
      BY DEF Blocking
    <2>3. ~HasReply(h, b) /\ ~Answering(h, b)
      BY <1>4, <2>1, <2>2, OnePlace
    <2>4. ~HasReply(h, b)'
      BY <1>4, <1>7, <2>3 DEF RepliesStay, HasReply, IsReply
    <2>5. ReadFor(h, b)' = NoValue
      BY <1>8, <2>3 DEF ReadFor
    <2>6. WaitsFor(h, b)'
      BY <1>1, <1>6 DEF WaitsFor
    <2>7. QED
      BY <2>4, <2>5, <2>6, TakenAfter
  <1>12. GettingNow' = [GettingNow EXCEPT ![h] = b] /\ TakenNow' = TakenNow
    BY <1>9, <1>10, <1>11, GetsBecome
  <1>13. MapNow' = MapNow /\ PutsNow' = PutsNow /\ ReturnedNow' = ReturnedNow
    BY <1>1, <1>5, <1>7, MapStays, PutsStay, ReturnedStays
  <1>14. Shared!GetCalled(h, b)
    BY <1>10, <1>12, <1>13 DEF Shared!GetCalled
  <1>15. QED
    BY <1>14 DEF Shared!SNext

\* The moment at which a get reads the map: the home reads it for a node whose puts have all
\* arrived and that has nothing yet.
LEMMA GetTakesShared ==
  ASSUME GetInv, Ways, Ways', NEW n \in Nodes, NEW k \in Keys, WaitsFor(n, k),
         ~HasReply(n, k), ~Answering(n, k),
         \A e \in Range(queue[Home[k]]) : ~(e.kind = "Put" /\ e.from = n),
         kvMap[Home[k]][k] # NoValue,
         GettingNow'[n] = k, TakenNow'[n] = kvMap[Home[k]][k],
         \A a \in Nodes : a # n => GettingNow'[a] = GettingNow[a] /\ TakenNow'[a] = TakenNow[a],
         \A a \in Nodes : QuietMove(queue[a], queue'[a]), UNCHANGED <<kvMap, result>>
  PROVE  Shared!SNext
  <1>1. TypeOK /\ Home[k] \in Nodes
    BY KVAssumption DEF GetInv, IndInv
  <1>2. GettingNow[n] = k /\ TakenNow[n] = NoValue
    BY TakenAt DEF ReadFor
  <1>3. /\ GettingNow' = GettingNow
        /\ TakenNow' = [TakenNow EXCEPT ![n] = kvMap[Home[k]][k]]
    BY <1>2, GetsBecome
  <1>4. MapNow[k] = kvMap[Home[k]][k]
    BY DEF MapNow
  <1>5. PutsNow[n][Home[k]] = {}
    <2>1. PutsIn(queue[Home[k]], n) = {}
      BY DEF PutsIn
    <2>2. QED
      BY <1>1, <2>1, PutsAt
  <1>6. MapNow' = MapNow /\ PutsNow' = PutsNow /\ ReturnedNow' = ReturnedNow
    BY <1>1, MapStays, PutsStay, ReturnedStays
  <1>7. Shared!GetTakes(n)
    BY <1>2, <1>3, <1>4, <1>5, <1>6, KVAssumption DEF Shared!GetTakes
  <1>8. QED
    BY <1>7 DEF Shared!SNext

\* The home of the key reads its value for a get, or finds none.
LEMMA ReceiveRequestShared ==
  ASSUME GetInv, SessionInv, Blocking, Ways, Ways', NEW h \in Nodes, ReceiveRequest(h)
  PROVE  Shared!SNext \/ UNCHANGED Shared!svars
  <1>1. IndInv /\ TypeOK /\ "app" \in Threads /\ "rt" \in Threads
    BY LabelTypes DEF GetInv, IndInv
  <1>2. PICK m : m = Head(queue[h])
    OBVIOUS
  <1>3. /\ Receive(h, {"GetData", "WaitAndGet"}) /\ Goto(h, "rt", "answer")
        /\ request' = [request EXCEPT ![h] = m] /\ found' = [found EXCEPT ![h] = kvMap[h][m.key]]
        /\ m.kind \in {"GetData", "WaitAndGet"} /\ pc[h]["rt"] = "receive"
        /\ UNCHANGED <<kvMap, msgCache, key, result>>
    BY <1>2 DEF ReceiveRequest, Receive, store
  <1>4. m \in Range(queue[h]) /\ m \in Message
    BY <1>1, <1>2, <1>3, ReceiveEffect
  <1>5. PICK n \in Nodes, k \in Keys : n = m.from /\ k = m.key /\ Home[k] = h /\ n # h
    <2>1. m.key \in Keys /\ Home[m.key] = h /\ m.from # h
      BY <1>1, <1>3, <1>4 DEF IndInv, QueueHomed, WellHomed, Requests
    <2>2. m.from \in Nodes
      BY <1>4 DEF Message
    <2>3. QED
      BY <2>1, <2>2
  <1>6. IsRequest(m, n, k) /\ HasAsked(n, k)
    BY <1>3, <1>4, <1>5 DEF IsRequest, HasAsked
  <1>7. WaitsFor(n, k) /\ ~HasReply(n, k) /\ ~Answering(n, k) /\ ~Leaked(n) /\ aborted[n] = "no"
    BY <1>5, <1>6, OnePlace DEF Blocking
  <1>8. RepliesStay /\ \A a \in Nodes : QuietMove(queue[a], queue'[a])
    BY <1>1, <1>3, ReceiveMovesQuietly, ReceiveNoReply
  <1>9. /\ \A a \in Nodes, u \in Threads :
             pc'[a][u] = IF a = h /\ u = "rt" THEN "answer" ELSE pc[a][u]
        /\ request'[h] = m /\ found'[h] = kvMap[h][k]
        /\ \A a \in Nodes : a # h => request'[a] = request[a] /\ found'[a] = found[a]
    <2>1. \A a \in Nodes, u \in Threads :
            pc'[a][u] = IF a = h /\ u = "rt" THEN "answer" ELSE pc[a][u]
      BY <1>1, <1>3, GotoEffect, LabelTypes
    <2>2. /\ request'[h] = m /\ found'[h] = kvMap[h][k]
          /\ \A a \in Nodes : a # h => request'[a] = request[a] /\ found'[a] = found[a]
      BY <1>1, <1>3, <1>5 DEF TypeOK
    <2>3. QED
      BY <2>1, <2>2
  <1>10. \A a \in Nodes, c \in Keys :
           ReadFor(a, c)' = IF a = n /\ c = k THEN kvMap[h][k] ELSE ReadFor(a, c)
    BY <1>1, <1>3, <1>5, <1>9, KVAssumption DEF ReadFor, Answering
  <1>11. \A a \in Nodes : RolesStay(a)
    BY <1>1, <1>3, <1>9 DEF RolesStay
  <1>12. CASE kvMap[h][k] = NoValue
    <2>1. \A a \in Nodes, c \in Keys : ReadFor(a, c)' = ReadFor(a, c)
      BY <1>7, <1>10, <1>12 DEF ReadFor
    <2>2. QED
      BY <1>1, <1>3, <1>8, <1>11, <2>1, Stutters
  <1>13. CASE kvMap[h][k] # NoValue
    <2>1. \A e \in Range(queue[h]) : ~(e.kind = "Put" /\ e.from = n)
      BY <1>2, <1>3, <1>5, <1>6, <1>7, RequestLast DEF SessionInv
    <2>2. ASSUME NEW a \in Nodes, a # n
          PROVE  GettingNow'[a] = GettingNow[a] /\ TakenNow'[a] = TakenNow[a]
      <3>1. \A c \in Keys : WaitsFor(a, c) => Home[c] # a
        BY <1>1 DEF WaitsFor, IndInv, ThreadsHomed
      <3>2. WayStays(a)
        BY <1>8, <1>10, <2>2, <3>1 DEF WayStays, RepliesStay, ReadFor
      <3>3. QED
        BY <1>1, <1>11, <3>2, GetStays
    <2>3. WaitsFor(n, k)'
      BY <1>1, <1>3, <1>7, <1>9 DEF WaitsFor
    <2>4. ~HasReply(n, k)'
      BY <1>5, <1>7, <1>8 DEF RepliesStay, HasReply, IsReply
    <2>5. GettingNow'[n] = k /\ TakenNow'[n] = kvMap[h][k]
      BY <1>10, <2>3, <2>4, TakenAfter
    <2>6. QED
      BY <1>3, <1>5, <1>7, <1>8, <1>13, <2>1, <2>2, <2>5, GetTakesShared
  <1>14. QED
    BY <1>12, <1>13

\* It sends what it read: the get had taken that already.
LEMMA AnswerRequestStutters ==
  ASSUME GetInv, Blocking, Ways, Ways', NEW h \in Nodes, AnswerRequest(h)
  PROVE  UNCHANGED Shared!svars
  <1>1. IndInv /\ TypeOK /\ "app" \in Threads /\ "rt" \in Threads
    BY LabelTypes DEF GetInv, IndInv
  <1>2. PICK q \in Message : q = request[h]
    BY <1>1 DEF TypeOK
  <1>3. PICK n \in Nodes, k \in Keys : n = q.from /\ k = q.key /\ Home[k] = h /\ n # h
    BY <1>1, <1>2 DEF AnswerRequest, IndInv, ThreadsHomed, Message
  <1>4. PICK r : r = DataMsg("ReplyData", h, k, found[h])
    OBVIOUS
  <1>5. r \in Message /\ r.kind = "ReplyData" /\ r.key = k /\ r.val = found[h]
    BY <1>1, <1>4, MessageTypes DEF MsgKind, DataMsg, TypeOK
  <1>6. /\ pc[h]["rt"] = "answer" /\ Send(n, r) /\ Goto(h, "rt", "receive")
        /\ UNCHANGED <<kvMap, msgCache, key, request, found, result>>
    BY <1>2, <1>3, <1>4 DEF AnswerRequest, store, rtLocal
  <1>7. Answering(n, k)
    BY <1>2, <1>3, <1>6 DEF Answering
  <1>8. WaitsFor(n, k) /\ ~HasReply(n, k)
    BY <1>3, <1>7, OnePlace DEF Blocking
  <1>9. \A a \in Nodes, u \in Threads :
          pc'[a][u] = IF a = h /\ u = "rt" THEN "receive" ELSE pc[a][u]
    BY <1>1, <1>6, GotoEffect, LabelTypes
  <1>10. \A a \in Nodes : queue'[a] = IF a = n THEN Append(queue[a], r) ELSE queue[a]
    BY <1>1, <1>6 DEF Send, TypeOK
  <1>11. ASSUME NEW a \in Nodes, a # n
         PROVE  GettingNow'[a] = GettingNow[a] /\ TakenNow'[a] = TakenNow[a]
    <2>1. pc'[a]["app"] = pc[a]["app"]
      BY <1>1, <1>9
    <2>2. \A c \in Keys : Answering(a, c)' <=> Answering(a, c)
      BY <1>1, <1>2, <1>3, <1>6, <1>9, <1>11, KVAssumption DEF Answering
    <2>3. \A c \in Keys : ReadFor(a, c)' = ReadFor(a, c)
      BY <1>6, <2>2 DEF ReadFor
    <2>4. QED
      BY <1>1, <1>6, <1>10, <1>11, <2>1, <2>3, NodeUntouched
  <1>12. GettingNow'[n] = GettingNow[n] /\ TakenNow'[n] = TakenNow[n]
    <2>1. GettingNow[n] = k /\ TakenNow[n] = found[h]
      BY <1>3, <1>7, <1>8, TakenAt DEF ReadFor
    <2>2. r \in Range(queue'[n])
      <3>1. Range(queue'[n]) = Range(queue[n]) \cup {r}
        BY <1>1, <1>5, <1>6, SendEffect
      <3>2. QED
        BY <3>1
    <2>3. WaitsFor(n, k)'
      BY <1>1, <1>6, <1>8, <1>9 DEF WaitsFor
    <2>4. GettingNow'[n] = k /\ TakenNow'[n] = r.val
      BY <1>5, <2>2, <2>3, TakenAfter DEF IsReply
    <2>5. QED
      BY <1>5, <2>1, <2>4
  <1>13. GettingNow' = GettingNow /\ TakenNow' = TakenNow
    BY <1>11, <1>12, GetsBecome
  <1>14. MapNow' = MapNow /\ PutsNow' = PutsNow /\ ReturnedNow' = ReturnedNow
    BY <1>1, <1>5, <1>6, SendMovesQuietly, MapStays, PutsStay, ReturnedStays
  <1>15. QED
    BY <1>13, <1>14 DEF Shared!svars

\* The thread that put the key reads its value for a get that waited.
LEMMA ServeWaiterShared ==
  ASSUME GetInv, SessionInv, Blocking, Ways, Ways', NEW h \in Nodes, NEW t \in Threads,
         ServeWaiter(h, t)
  PROVE  Shared!SNext
  <1>1. IndInv /\ TypeOK /\ PutsInv /\ "app" \in Threads /\ "rt" \in Threads
    BY LabelTypes DEF GetInv, IndInv, SessionInv
  <1>2. PICK b \in Keys : b = key[h][t] /\ Home[b] = h /\ pc[h][t] = "serve"
    BY <1>1 DEF ServeWaiter, IndInv, ThreadsHomed
  <1>3. todo[h][t] \in Seq(Message) /\ todo[h][t] # <<>>
    BY <1>1 DEF ServeWaiter, TypeOK
  <1>4. PICK w : w = Head(todo[h][t])
    OBVIOUS
  <1>5. w \in Message /\ w \in Range(todo[h][t])
    BY <1>3, <1>4, RangeTail
  <1>6. w.kind = "WaitAndGet" /\ w.from # h /\ w.key = b /\ w.from \in Nodes
    BY <1>1, <1>2, <1>5 DEF IndInv, TodoHomed, GetInv, Keyed, Message
  <1>7. PICK n \in Nodes : n = w.from /\ n # h
    BY <1>6
  <1>8. PICK r : r = DataMsg("ReplyData", h, b, kvMap[h][b])
    OBVIOUS
  <1>9. r \in Message /\ r.kind = "ReplyData" /\ r.key = b /\ r.val = kvMap[h][b]
    BY <1>1, <1>8, MessageTypes DEF MsgKind, DataMsg, TypeOK
  <1>10. /\ Send(n, r) /\ UNCHANGED <<pc, key, kvMap, msgCache, request, found, result>>
    BY <1>2, <1>4, <1>6, <1>7, <1>8 DEF ServeWaiter, store, rtLocal
  <1>11. HasServed(n, b)
    BY <1>2, <1>5, <1>6, <1>7 DEF HasServed, IsRequest
  <1>12. WaitsFor(n, b) /\ ~HasReply(n, b) /\ ~Answering(n, b) /\ ~HasAsked(n, b)
    BY <1>2, <1>7, <1>11, OnePlace DEF Blocking
  <1>13. \A e \in Range(queue[h]) : ~(e.kind = "Put" /\ e.from = n)
    BY <1>1, <1>2, <1>12, NoPutLeft DEF SessionInv
  <1>14. kvMap[h][b] # NoValue
    BY <1>1, <1>2, StoredHasValue DEF SessionInv, Putting
  <1>15. \A a \in Nodes : queue'[a] = IF a = n THEN Append(queue[a], r) ELSE queue[a]
    BY <1>1, <1>10 DEF Send, TypeOK
  <1>16. ASSUME NEW a \in Nodes, a # n
         PROVE  GettingNow'[a] = GettingNow[a] /\ TakenNow'[a] = TakenNow[a]
    <2>1. \A c \in Keys : ReadFor(a, c)' = ReadFor(a, c)
      BY <1>10 DEF ReadFor, Answering
    <2>2. QED
      BY <1>1, <1>10, <1>15, <1>16, <2>1, NodeUntouched
  <1>17. GettingNow'[n] = b /\ TakenNow'[n] = kvMap[h][b]
    <2>1. r \in Range(queue'[n])
      <3>1. Range(queue'[n]) = Range(queue[n]) \cup {r}
        BY <1>1, <1>9, <1>10, SendEffect
      <3>2. QED
        BY <3>1
    <2>2. WaitsFor(n, b)'
      BY <1>10, <1>12 DEF WaitsFor
    <2>3. QED
      BY <1>9, <2>1, <2>2, TakenAfter DEF IsReply
  <1>18. \A a \in Nodes : QuietMove(queue[a], queue'[a])
    BY <1>1, <1>9, <1>10, SendMovesQuietly
  <1>19. QED
    BY <1>2, <1>10, <1>12, <1>13, <1>14, <1>16, <1>17, <1>18, GetTakesShared

\* A get returns the value that it has taken.
LEMMA TakeReplyShared ==
  ASSUME GetInv, GetInv', SessionInv, Blocking, Ways, Ways', NEW h \in Nodes, TakeReply(h)
  PROVE  Shared!SNext
  <1>1. IndInv /\ TypeOK /\ "app" \in Threads /\ "rt" \in Threads
    BY LabelTypes DEF GetInv, IndInv
  <1>2. PICK b \in Keys : b = key[h]["app"]
    BY <1>1 DEF TakeReply, IndInv, ThreadsHomed
  <1>3. WaitsFor(h, b) /\ ~Leaked(h) /\ Home[b] # h
    BY <1>1, <1>2 DEF TakeReply, WaitsFor, Blocking, IndInv, ThreadsHomed
  <1>4. PICK arr \in Seq(Message) : arr = msgCache[h][b] /\ arr # <<>>
    BY <1>1, <1>2 DEF TakeReply, TypeOK
  <1>5. ~\E why \in {"replyCount", "replyCast"} : Abort(h, why)
    <2>1. UNCHANGED aborted /\ aborted[h] = "no"
      BY <1>1, NobodyFails DEF Blocking, NodeStep, AppContinues
    <2>2. QED
      BY <1>1, <2>1 DEF Abort, TypeOK
  <1>6. PICK e : e = arr[1]
    OBVIOUS
  <1>7. /\ e.kind = "ReplyData" /\ Return(h, b, e.val) /\ Goto(h, "app", "run")
        /\ msgCache' = [msgCache EXCEPT ![h][b] = <<>>]
        /\ UNCHANGED <<queue, kvMap, key, request, found>>
    BY <1>2, <1>4, <1>5, <1>6 DEF TakeReply, RemoveArray, network, rtLocal
  <1>8. e \in Range(arr) /\ IsReply(e, b)
    <2>1. e \in Range(arr)
      BY <1>4, <1>6, RangeTail
    <2>2. e.key = b
      BY <1>4, <2>1 DEF GetInv, Keyed
    <2>3. QED
      BY <1>7, <2>1, <2>2 DEF IsReply
  <1>9. PICK v : v = e.val
    OBVIOUS
  <1>10. GettingNow[h] = b /\ TakenNow[h] = v
    BY <1>3, <1>4, <1>8, <1>9, TakenAt
  <1>11. v \in Value /\ v # NoValue
    <2>1. FreshFor(h, b, v)
      BY <1>3, <1>4, <1>8, <1>9 DEF SessionInv, RepliesFresh
    <2>2. v \in Range(log[b])
      BY <2>1 DEF FreshFor, FreshIn
    <2>3. QED
      BY <1>1, <2>2, ValueTypes, NoValueAssumption
  <1>12. \A a \in Nodes, u \in Threads :
           pc'[a][u] = IF a = h /\ u = "app" THEN "run" ELSE pc[a][u]
    BY <1>1, <1>7, GotoEffect, LabelTypes
  <1>13. \A a \in Nodes, k \in Keys : ReadFor(a, k)' = ReadFor(a, k)
    BY <1>1, <1>7, <1>12, KVAssumption DEF ReadFor, Answering
  <1>14. ASSUME NEW a \in Nodes, a # h
         PROVE  GettingNow'[a] = GettingNow[a] /\ TakenNow'[a] = TakenNow[a]
    <2>1. msgCache'[a] = msgCache[a]
      BY <1>1, <1>7, <1>14 DEF TypeOK
    <2>2. QED
      BY <1>1, <1>7, <1>12, <1>13, <1>14, <2>1, NodeUntouched
  <1>15. GettingNow'[h] = NoKey /\ TakenNow'[h] = NoValue
    <2>1. pc'[h]["app"] = "run"
      BY <1>1, <1>12
    <2>2. QED
      BY <2>1 DEF GettingNow, TakenNow, InGet
  <1>16. /\ GettingNow' = [GettingNow EXCEPT ![h] = NoKey]
         /\ TakenNow' = [TakenNow EXCEPT ![h] = NoValue]
    BY <1>14, <1>15, GetsBecome
  <1>17. ReturnedNow' = [ReturnedNow EXCEPT ![h] = [key |-> b, val |-> v]]
    BY <1>1, <1>7, <1>9, <1>11, ReturnedBecomes
  <1>18. MapNow' = MapNow /\ PutsNow' = PutsNow
    BY <1>1, <1>7, MapStays, PutsStay DEF QuietMove
  <1>19. Shared!GetReturns(h)
    BY <1>10, <1>11, <1>16, <1>17, <1>18 DEF Shared!GetReturns
  <1>20. QED
    BY <1>19 DEF Shared!SNext

\* A get of a key that lives here reads the map and returns.
LEMMA SpinReadsShared ==
  ASSUME GetInv, Ways, Ways', NEW h \in Nodes, SpinReads(h)
  PROVE  Shared!SNext
  <1>1. IndInv /\ TypeOK /\ "app" \in Threads /\ "rt" \in Threads
    BY LabelTypes DEF GetInv, IndInv
  <1>2. PICK b \in Keys : b = key[h]["app"] /\ Home[b] = h /\ pc[h]["app"] = "spin"
    BY <1>1 DEF SpinReads, IndInv, ThreadsHomed
  <1>3. PICK v \in Value : v = kvMap[h][b]
    BY <1>1, <1>2 DEF SpinReads, TypeOK
  <1>4. /\ Return(h, b, v) /\ Goto(h, "app", "run")
        /\ UNCHANGED <<queue, msgCache, kvMap, key, request, found>>
    BY <1>2, <1>3 DEF SpinReads, network, store, rtLocal
  <1>5. \A a \in Nodes, u \in Threads :
          pc'[a][u] = IF a = h /\ u = "app" THEN "run" ELSE pc[a][u]
    BY <1>1, <1>4, GotoEffect, LabelTypes
  <1>6. \A a \in Nodes, k \in Keys : ReadFor(a, k)' = ReadFor(a, k)
    BY <1>1, <1>4, <1>5, KVAssumption DEF ReadFor, Answering
  <1>7. \A a \in Nodes : a # h => GettingNow'[a] = GettingNow[a] /\ TakenNow'[a] = TakenNow[a]
    BY <1>1, <1>4, <1>5, <1>6, NodeUntouched
  <1>8. /\ GettingNow[h] = b /\ TakenNow[h] = NoValue
        /\ GettingNow'[h] = NoKey /\ TakenNow'[h] = NoValue
    <2>1. pc'[h]["app"] = "run"
      BY <1>1, <1>5
    <2>2. QED
      BY <1>2, <2>1 DEF GettingNow, TakenNow, InGet
  <1>9. GettingNow' = [GettingNow EXCEPT ![h] = NoKey] /\ TakenNow' = TakenNow
    BY <1>7, <1>8, GetsBecome
  <1>10. ReturnedNow' = [ReturnedNow EXCEPT ![h] = [key |-> b, val |-> v]]
    BY <1>1, <1>4, ReturnedBecomes
  <1>11. MapNow' = MapNow /\ PutsNow' = PutsNow
    BY <1>1, <1>4, MapStays, PutsStay DEF QuietMove
  <1>12. MapNow[b] = v /\ v # NoValue /\ b # NoKey
    BY <1>2, <1>3, NoValueAssumption, KVAssumption DEF MapNow
  <1>13. Shared!GetHere(h)
    BY <1>2, <1>8, <1>9, <1>10, <1>11, <1>12 DEF Shared!GetHere
  <1>14. QED
    BY <1>13 DEF Shared!SNext

-----------------------------------------------------------------------------
(* The refinement *)

\* What the proof needs of every state.
RefInv == GetInv /\ SessionInv /\ Blocking /\ Ways

\* Initially the shared map is empty and nobody calls it.
LEMMA InitRef ==
  ASSUME Init
  PROVE  Blocking /\ Shared!SInit
  <1>1. /\ \A a \in Nodes : pc[a]["app"] = "run" /\ pc[a]["rt"] = "receive"
        /\ \A a \in Nodes : queue[a] = <<>> /\ result[a] = NoResult
        /\ \A a \in Nodes : lock[a] = "free" /\ aborted[a] = "no"
        /\ \A k \in Keys : kvMap[Home[k]][k] = NoValue
    BY KVAssumption, LabelTypes DEF Init
  <1>2. Range(<<>>) = {}
    BY RangeEmpty
  <1>3. Blocking
    BY <1>1, <1>2 DEF Blocking, Leaked, Gets
  <1>4. MapNow = [k \in Keys |-> NoValue]
    BY <1>1 DEF MapNow
  <1>5. PutsNow = [n \in Nodes |-> [h \in Nodes |-> {}]]
    <2>1. \A n \in Nodes, h \in Nodes : PutsIn(queue[h], n) = {}
      BY <1>1, <1>2 DEF PutsIn
    <2>2. QED
      BY <2>1 DEF PutsNow
  <1>6. GettingNow = [n \in Nodes |-> NoKey] /\ TakenNow = [n \in Nodes |-> NoValue]
    BY <1>1 DEF GettingNow, TakenNow, InGet
  <1>7. ReturnedNow = [n \in Nodes |-> [key |-> NoKey, val |-> NoValue]]
    BY <1>1 DEF ReturnedNow, NoResult
  <1>8. QED
    BY <1>3, <1>4, <1>5, <1>6, <1>7 DEF Shared!SInit

\* Every step of a node is a step of SharedStore, or none.
LEMMA NodeStepShared ==
  ASSUME Blocks, RefInv, RefInv', NEW h \in Nodes, NodeStep(h)
  PROVE  Shared!SNext \/ UNCHANGED Shared!svars
  <1>1. GetInv /\ GetInv' /\ TypeOK' /\ SessionInv /\ Blocking /\ Ways /\ Ways'
    BY DEF RefInv, GetInv, IndInv
  <1>2. ASSUME NEW t \in Threads, TryToHandleCache(h, t)
        PROVE  Shared!SNext \/ UNCHANGED Shared!svars
    BY <1>1, <1>2, AppStutters, ServeWaiterShared DEF TryToHandleCache
  <1>3. CASE AppCalls(h)
    <2>1. ASSUME NEW k \in Keys, NEW block \in BOOLEAN, RequestRemote(h, k, block)
          PROVE  Shared!SNext
      BY <1>1, <2>1, RequestRemoteShared
    <2>2. ASSUME NEW k \in Keys, PutRemote(h, k) PROVE Shared!SNext
      BY <1>1, <2>2, PutRemoteShared
    <2>3. ASSUME NEW k \in Keys, PutLocal(h, k) PROVE Shared!SNext
      BY <1>1, <2>3, PutLocalShared
    <2>4. ASSUME NEW k \in Keys, SpinLocal(h, k) PROVE Shared!SNext
      BY <1>1, <2>4, SpinLocalShared
    <2>5. \A k \in Keys : ~GetLocal(h, k)
      BY DEF GetLocal, Blocks
    <2>6. CASE SendDone(h)
      BY <1>1, <2>6, AppStutters
    <2>7. QED
      BY <1>3, <2>1, <2>2, <2>3, <2>4, <2>5, <2>6 DEF AppCalls
  <1>4. CASE AppContinues(h) \/ SpuriousWakeup(h)
    <2>1. CASE WaitForReply(h) \/ SpuriousWakeup(h) \/ Join(h)
      BY <1>1, <2>1, AppStutters
    <2>2. CASE SpinReads(h)
      BY <1>1, <2>2, SpinReadsShared
    <2>3. CASE TakeReply(h)
      BY <1>1, <2>3, TakeReplyShared
    <2>4. ~ReturnNull(h)
      BY <1>1 DEF ReturnNull, Blocking, Gets
    <2>5. QED
      BY <1>2, <1>4, <2>1, <2>2, <2>3, <2>4, LabelTypes DEF AppContinues
  <1>5. CASE ReceiverStep(h)
    <2>1. CASE CacheRequest(h) \/ ReceiveReply(h)
      BY <1>1, <2>1, CacheStutters
    <2>2. CASE ReceiveDone(h) \/ SendTeardown(h) \/ ReceiveTeardown(h)
      BY <1>1, <2>2, ReceiverStutters
    <2>3. CASE ReceivePut(h)
      BY <1>1, <2>3, ReceivePutShared
    <2>4. CASE ReceiveRequest(h)
      BY <1>1, <2>4, ReceiveRequestShared
    <2>5. CASE AnswerRequest(h)
      BY <1>1, <2>5, AnswerRequestStutters
    <2>6. ~ReplyNull(h)
      BY <1>1 DEF ReplyNull, Blocking
    <2>7. QED
      BY <1>2, <1>5, <2>1, <2>2, <2>3, <2>4, <2>5, <2>6, LabelTypes DEF ReceiverStep
  <1>6. QED
    BY <1>3, <1>4, <1>5 DEF NodeStep

\* Every step maps to a step of SharedStore, or to none.
LEMMA NextShared ==
  ASSUME Blocks, RefInv, RefInv', [Next]_vars
  PROVE  [Shared!SNext]_(Shared!svars)
  <1>1. CASE Next
    BY <1>1, NodeStepShared DEF Next
  <1>2. CASE UNCHANGED vars
    <2>1. MapNow' = MapNow /\ ReturnedNow' = ReturnedNow
      BY <1>2, MapStays, ReturnedStays DEF vars
    <2>2. PutsNow' = PutsNow
      BY <1>2, PutsStay DEF vars, QuietMove, RefInv, GetInv, IndInv
    <2>3. GettingNow' = GettingNow /\ TakenNow' = TakenNow
      BY <1>2 DEF vars, GettingNow, TakenNow, InGet, OnItsWay
    <2>4. QED
      BY <2>1, <2>2, <2>3 DEF Shared!svars
  <1>3. QED
    BY <1>1, <1>2

\* Every state of applications that only block is such a state.
LEMMA RefInvHolds ==
  ASSUME Blocks
  PROVE  Spec => []RefInv
  <1>1. Init => Blocking
    BY InitRef
  <1>2. GetInv /\ Blocking /\ [Next]_vars => Blocking'
    BY NextBlocking
  <1>3. GetInv /\ SessionInv /\ Blocking => RefInv
    BY WaysKnown DEF RefInv
  <1>4. Spec => []GetInv
    BY GetInvHolds
  <1>5. Spec => [](GetInv /\ SessionInv)
    BY SessionInvHolds
  <1>6. QED
    BY <1>1, <1>2, <1>3, <1>4, <1>5, PTL DEF Spec

\* The stores, their messages and their two threads per node are one shared map, as long as
\* every get blocks: a put takes effect where its home stores it, a get where its home reads the
\* value for it (kvstore.h, put, getValue, tryToHandleCache_ and getFromNetwork_).
THEOREM StoresShared ==
  ASSUME Blocks
  PROVE  Spec => ImplementsSharedStore
  <1>1. Init => Shared!SInit
    BY InitRef
  <1>2. RefInv /\ RefInv' /\ [Next]_vars => [Shared!SNext]_(Shared!svars)
    BY NextShared
  <1>3. Spec => []RefInv
    BY RefInvHolds
  <1>4. QED
    BY <1>1, <1>2, <1>3, PTL DEF Spec, ImplementsSharedStore, Shared!SSpec
=============================================================================
