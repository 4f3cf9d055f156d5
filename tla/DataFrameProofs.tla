--------------------------- MODULE DataFrameProofs ---------------------------
(***************************************************************************)
(* Proofs, for any number of nodes, sizes of blocks and caches and scripts  *)
(* of operations, that the caches hold what the stores hold, that every row *)
(* is visited once, and where; and for a dataframe that is filled once,     *)
(* that what is read back at a position is what was appended there.         *)
(***************************************************************************)
EXTENDS DataFrame, FiniteSetTheorems, FunctionTheorems, SequenceTheorems, TLAPS

-----------------------------------------------------------------------------
(* The invariant of the builder and the stores *)

\* The keys of the blocks and of the dataframe, and what can be under them.
Keys   == (Nat \X Nat) \cup {DfKey}
Blocks == Seq(Nat \X Nat)
Values == Blocks \cup [nrows : Nat, width : Nat]

\* The types of the variables.
Types ==
  /\ script \in Seq(Operation)
  /\ columns \in Seq([size : Nat, blocks : Nat])
  /\ nrows \in Nat /\ width \in Nat /\ left \in Nat
  /\ adding \in [col : Nat, len : Nat, added : Nat, before : Nat]
  /\ building \in {"op", "chunk", "add", "publish", "built", "exit"}
  /\ net \in [Nodes -> Seq(Keys \X Values)]
  /\ at \in [Nodes -> {"wait", "read", "done", "exit"}]
  /\ mode \in [Nodes -> Modes]
  /\ copy \in [Nodes -> [nrows : Nat, width : Nat]]
  /\ rowIdx \in [Nodes -> Nat]
  /\ cells \in [Nodes -> Seq(Nat \X Nat)]
  /\ visited \in [Nodes -> Seq([idx : Nat, row : Seq(Nat \X Nat)])]

\* The builder fills, or has filled in vain, a column that the schema does not count.
NewCol == building = "exit" \/ (building = "add" /\ Head(script).op # "visit")

\* Where the builder is in its script and in add_all.
Building ==
  /\ building \in {"op", "chunk", "add"} => script # <<>>
  /\ building = "chunk" => Head(script).op = "visit"
  /\ adding.added <= adding.len
  /\ width = IF NewCol THEN Len(columns) - 1 ELSE Len(columns)
  /\ building \in {"op", "chunk", "add"} /\ Head(script).op = "visit" => 0 < width
  /\ building = "add" =>
       /\ adding.col < Len(columns) /\ (NewCol => adding.col = Len(columns) - 1)
       /\ Head(script).op = "visit" => adding.len <= left
       /\ adding.added < adding.len =>
            /\ adding.before <= columns[adding.col + 1].blocks
            /\ adding.added = BlockSize * (columns[adding.col + 1].blocks - adding.before)

\* A key that was put, with its value: one of a block that its column counts, or that of the
\* dataframe, once it is built.
KeyOk(k, v) ==
  IF k = DfKey
  THEN building = "built" /\ v = [nrows |-> nrows, width |-> width]
  ELSE k[1] < Len(columns) /\ k[2] < columns[k[1] + 1].blocks /\ v \in Blocks

\* The node that is the home of a key.
HomeOf(k) == IF k = DfKey THEN DfHome ELSE Home(k[2])

\* Every key is put once, at its home.
Stores ==
  /\ DOMAIN store \subseteq Keys /\ \A k \in DOMAIN store : KeyOk(k, store[k])
  /\ \A n \in Nodes : \A i \in DOMAIN net[n] :
       /\ KeyOk(net[n][i][1], net[n][i][2])
       /\ HomeOf(net[n][i][1]) = n
       /\ net[n][i][1] \notin DOMAIN store
  /\ \A n \in Nodes : \A i, j \in DOMAIN net[n] : net[n][i][1] = net[n][j][1] => i = j

-----------------------------------------------------------------------------
(* The invariant of the readers *)

\* A function with this domain.
IsFun(f, S) == f = [x \in S |-> f[x]]

\* The keys in the queue of a cache.
Queued(q) == {q[i] : i \in DOMAIN q}

\* The cache of column c holds the blocks in its queue, as they are in the store.
CacheOk(n, c) ==
  /\ order[n][c] \in Seq(Nat) /\ Len(order[n][c]) <= CacheSize
  /\ \A i, j \in DOMAIN order[n][c] : order[n][c][i] = order[n][c][j] => i = j
  /\ DOMAIN data[n][c] = Queued(order[n][c])
  /\ \A b \in DOMAIN data[n][c] :
       /\ BlockKey(c, b) \in DOMAIN store
       /\ data[n][c][b] = store[BlockKey(c, b)]
       /\ mode[n] = "local_map" => Home(b) = n

\* The rows that the loop of n visits.
Mine(n, r) == mode[n] = "local_map" => Home(Chunk(r)) = n

\* A node that waits has not begun.
Waits(n) ==
  /\ order[n] = <<>> /\ data[n] = <<>> /\ cells[n] = <<>> /\ visited[n] = <<>>
  /\ rowIdx[n] = 0

\* A node that has the dataframe has visited its rows up to the one that it is at, and at
\* the first row of a block when it goes past that block.
HasRead(n) ==
  /\ building = "built" /\ copy[n] = [nrows |-> nrows, width |-> width]
  /\ IsFun(order[n], 0 .. width - 1) /\ IsFun(data[n], 0 .. width - 1)
  /\ \A c \in 0 .. width - 1 : CacheOk(n, c)
  /\ Len(cells[n]) <= width
  /\ ~Mine(n, rowIdx[n]) => cells[n] = <<>> \/ nrows <= rowIdx[n]
  /\ ~Mine(n, rowIdx[n]) => rowIdx[n] % BlockSize = 0
  /\ Rows(n) = {r \in 0 .. nrows - 1 : r < rowIdx[n] /\ Mine(n, r)}
  /\ at[n] = "done" => nrows <= rowIdx[n]

\* Every node waits for the dataframe or reads it.
Readers ==
  /\ IsFun(order, Nodes) /\ IsFun(data, Nodes)
  /\ \A n \in Nodes : IF at[n] = "wait" THEN Waits(n) ELSE HasRead(n)

\* The inductive invariant of every script.
IndInv == Types /\ Building /\ Stores /\ Readers

-----------------------------------------------------------------------------
(* The invariant of what is in the columns *)

\* The elements of column c that are in blocks.
Total(c) ==
  columns[c + 1].size + (IF building = "add" /\ adding.col = c THEN adding.added ELSE 0)

\* Block b of column c.
BlockOf(c, b) ==
  [i \in 1 .. Min2(BlockSize, Total(c) - BlockSize * b) |-> <<c, BlockSize * b + i - 1>>]

\* The value of the key of a block has the elements of its rows.
ValueOk(k, v) == k # DfKey => v = BlockOf(k[1], k[2])

\* So have all blocks that were put.
Contents ==
  /\ \A k \in DOMAIN store : ValueOk(k, store[k])
  /\ \A n \in Nodes : \A i \in DOMAIN net[n] : ValueOk(net[n][i][1], net[n][i][2])

\* All columns are as long as the dataframe has rows, and their blocks are full.
Even == \A i \in DOMAIN columns : columns[i].size = nrows
Full == \A i \in DOMAIN columns : BlockSize * columns[i].blocks = nrows

\* The columns while a chunk of the rows of a Writer is added: the first ones have it.
ChunkAdded ==
  /\ 0 < adding.len /\ adding.len = Min2(left, BlockSize)
  /\ adding.added \in {0, adding.len}
  /\ \A i \in DOMAIN columns :
       /\ columns[i].size = nrows + (IF i <= adding.col THEN adding.len ELSE 0)
       /\ IF i <= adding.col \/ (i = adding.col + 1 /\ 0 < adding.added)
          THEN adding.len < left => BlockSize * columns[i].blocks = nrows + adding.len
          ELSE BlockSize * columns[i].blocks = nrows

\* Where the builder is while a dataframe is filled once.
Filling ==
  /\ \A i \in 2 .. Len(script) : script[i].op = "column"
  /\ building \in {"op", "chunk", "publish", "built"} => Even
  /\ building = "op" /\ Head(script).op # "column" => nrows = 0 /\ Full
  /\ building \in {"op", "add"} /\ Head(script).op = "array" => width = 0 /\ nrows = 0
  /\ building = "chunk" /\ 0 < left => Full
  /\ building = "add" /\ Head(script).op = "visit" => ChunkAdded
  /\ building = "add" /\ Head(script).op # "visit" =>
       \A i \in 1 .. Len(columns) - 1 : columns[i].size = nrows
  /\ building = "add" /\ adding.added < adding.len =>
       BlockSize * adding.before = columns[adding.col + 1].size
  /\ building = "add" /\ NewCol => columns[Len(columns)].size = 0

\* What was read of a row, and the rows that were visited.
ReadRight(n) ==
  /\ at[n] # "exit"
  /\ cells[n] = [c \in 1 .. Len(cells[n]) |-> <<c - 1, rowIdx[n]>>]
  /\ \A i \in DOMAIN visited[n] :
       visited[n][i].row = [c \in 1 .. copy[n].width |-> <<c - 1, visited[n][i].idx>>]
  /\ \A i \in DOMAIN visited[n] :
       /\ visited[n][i].idx < rowIdx[n]
       /\ i > 1 => visited[n][i - 1].idx < visited[n][i].idx

\* The invariant, above IndInv, of a dataframe that is filled once.
FillInv == Filling /\ Contents /\ \A n \in Nodes : ReadRight(n)

-----------------------------------------------------------------------------
(* Blocks and rows *)

\* A row is in one place of one block.
LEMMA DivMod ==
  ASSUME NEW d \in Nat \ {0}, NEW r \in Nat
  PROVE  /\ r \div d \in Nat /\ r % d \in 0 .. d - 1
         /\ r = d * (r \div d) + (r % d)
  OBVIOUS

\* No other place of no other block has it.
LEMMA DivModUnique ==
  ASSUME NEW d \in Nat \ {0}, NEW q \in Nat, NEW i \in 0 .. d - 1
  PROVE  (d * q + i) \div d = q /\ (d * q + i) % d = i
  <1> DEFINE r == d * q + i
             p == r \div d
             j == r % d
  <1>1. r \in Nat
    OBVIOUS
  <1>2. p \in Nat /\ j \in 0 .. d - 1 /\ r = d * p + j
    BY <1>1, DivMod
  <1> HIDE DEF p, j
  <1>3. d * p + j = d * q + i
    BY <1>2
  <1>4. ~(p < q)
    <2> SUFFICES ASSUME p < q PROVE FALSE
      OBVIOUS
    <2>1. d * (p + 1) <= d * q
      BY <1>2
    <2>2. d * (p + 1) = d * p + d
      BY <1>2
    <2>3. QED
      BY <1>2, <1>3, <2>1, <2>2
  <1>5. ~(q < p)
    <2> SUFFICES ASSUME q < p PROVE FALSE
      OBVIOUS
    <2>1. d * (q + 1) <= d * p
      BY <1>2
    <2>2. d * (q + 1) = d * q + d
      OBVIOUS
    <2>3. QED
      BY <1>2, <1>3, <2>1, <2>2
  <1>6. p = q
    BY <1>2, <1>4, <1>5
  <1>7. j = i
    BY <1>2, <1>3, <1>6
  <1>8. QED
    BY <1>6, <1>7 DEF p, j

-----------------------------------------------------------------------------
(* The parameters, keys and columns *)

\* What the assumption says of the nodes and sizes.
LEMMA Facts ==
  /\ NumNodes \in Nat \ {0} /\ BlockSize \in Nat \ {0} /\ CacheSize \in Nat \ {0}
  /\ Builder \in Nodes /\ DfHome \in Nodes /\ Width \in Nat \ {0}
  /\ Modes \subseteq {"map", "local_map"}
  BY DataFrameAssumption

\* Every block is homed at a node.
LEMMA HomeNode ==
  ASSUME NEW b \in Nat
  PROVE  Home(b) \in Nodes
  <1>1. NumNodes \in Nat \ {0}
    BY Facts
  <1>2. b % NumNodes \in 0 .. NumNodes - 1
    BY <1>1, DivMod
  <1>3. QED
    BY <1>2 DEF Home, Nodes

\* The key of the dataframe is none of a block.
LEMMA KeyFacts ==
  /\ DfKey \notin Nat \X Nat
  /\ \A k \in Keys : k # DfKey => k[1] \in Nat /\ k[2] \in Nat /\ k = BlockKey(k[1], k[2])
  /\ \A c, b \in Nat : /\ BlockKey(c, b) \in Keys /\ BlockKey(c, b) # DfKey
                       /\ BlockKey(c, b)[1] = c /\ BlockKey(c, b)[2] = b
  <1>1. DfKey \notin Nat \X Nat
    <2>1. Len(DfKey) = 1
      BY DEF DfKey
    <2>2. \A c, b : Len(<<c, b>>) = 2
      OBVIOUS
    <2>3. \A k \in Nat \X Nat : k = <<k[1], k[2]>>
      OBVIOUS
    <2>4. QED
      BY <2>1, <2>2, <2>3
  <1>2. \A k \in Nat \X Nat : k[1] \in Nat /\ k[2] \in Nat /\ k = <<k[1], k[2]>>
    OBVIOUS
  <1>3. QED
    BY <1>1, <1>2 DEF Keys, BlockKey

\* A column is its size and the number of its blocks.
Column == [size : Nat, blocks : Nat]

\* A new column is the last one, and no other changes.
LEMMA ColumnAppended ==
  ASSUME NEW s \in Seq(Column), NEW e \in Column
  PROVE  /\ Append(s, e) \in Seq(Column) /\ Len(Append(s, e)) = Len(s) + 1
         /\ DOMAIN Append(s, e) = 1 .. Len(s) + 1
         /\ Append(s, e)[Len(s) + 1] = e
         /\ \A i \in 1 .. Len(s) : Append(s, e)[i] = s[i]
  OBVIOUS

\* A column that is filled stays where it is, and the others as they are.
LEMMA ColumnChanged ==
  ASSUME NEW s \in Seq(Column), NEW i \in 1 .. Len(s), NEW e \in Column
  PROVE  /\ [s EXCEPT ![i] = e] \in Seq(Column) /\ Len([s EXCEPT ![i] = e]) = Len(s)
         /\ DOMAIN [s EXCEPT ![i] = e] = 1 .. Len(s)
         /\ \A j \in 1 .. Len(s) : [s EXCEPT ![i] = e][j] = IF j = i THEN e ELSE s[j]
  OBVIOUS

\* The rest of a sequence.
LEMMA TailFacts ==
  ASSUME NEW S, NEW s \in Seq(S), s # <<>>
  PROVE  /\ Tail(s) \in Seq(S) /\ Len(Tail(s)) = Len(s) - 1 /\ DOMAIN Tail(s) = 1 .. Len(s) - 1
         /\ \A i \in 1 .. Len(s) - 1 : Tail(s)[i] = s[i + 1]
         /\ Head(s) = s[1] /\ s[1] \in S /\ Len(s) \in Nat \ {0} /\ DOMAIN s = 1 .. Len(s)
         /\ Len(s) # 1 => Tail(s) # <<>>
  <1>1. Len(s) \in Nat \ {0} /\ DOMAIN s = 1 .. Len(s)
    OBVIOUS
  <1>2. Tail(s) \in Seq(S) /\ Len(Tail(s)) = Len(s) - 1 /\ DOMAIN Tail(s) = 1 .. Len(s) - 1
    OBVIOUS
  <1>3. \A i \in 1 .. Len(s) - 1 : Tail(s)[i] = s[i + 1]
    OBVIOUS
  <1>4. Head(s) = s[1] /\ s[1] \in S
    BY <1>1
  <1>5. Len(s) # 1 => Tail(s) # <<>>
    <2> DEFINE t == Tail(s)
    <2>1. t \in Seq(S) /\ Len(t) = Len(s) - 1
      BY <1>2
    <2> HIDE DEF t
    <2>2. t = <<>> => Len(t) = 0
      BY <2>1
    <2>3. Len(s) # 1 => t # <<>>
      BY <1>1, <2>1, <2>2
    <2>4. QED
      BY <2>3 DEF t
  <1>6. QED
    BY <1>1, <1>2, <1>3, <1>4, <1>5

\* A column is a record of its size and the number of its blocks.
LEMMA ColumnFacts ==
  ASSUME Types
  PROVE  /\ columns \in Seq(Column) /\ Len(columns) \in Nat /\ DOMAIN columns = 1 .. Len(columns)
         /\ \A i \in 1 .. Len(columns) :
              columns[i] \in Column /\ columns[i].size \in Nat /\ columns[i].blocks \in Nat
  <1>1. columns \in Seq(Column)
    BY DEF Types, Column
  <1>2. Len(columns) \in Nat /\ DOMAIN columns = 1 .. Len(columns)
        /\ \A i \in 1 .. Len(columns) : columns[i] \in Column
    BY <1>1
  <1>3. QED
    BY <1>1, <1>2 DEF Column

-----------------------------------------------------------------------------
(* The stores *)

\* A put on its way is of a key and a value.
LEMMA NetFacts ==
  ASSUME Types, NEW n \in Nodes
  PROVE  /\ net[n] \in Seq(Keys \X Values) /\ Len(net[n]) \in Nat
         /\ DOMAIN net[n] = 1 .. Len(net[n])
         /\ \A i \in DOMAIN net[n] : net[n][i][1] \in Keys /\ net[n][i][2] \in Values
  <1> DEFINE s == net[n]
  <1>1. s \in Seq(Keys \X Values)
    BY DEF Types
  <1> HIDE DEF s
  <1>2. Len(s) \in Nat /\ DOMAIN s = 1 .. Len(s) /\ \A i \in 1 .. Len(s) : s[i] \in Keys \X Values
    BY <1>1
  <1>3. \A e \in Keys \X Values : e[1] \in Keys /\ e[2] \in Values
    OBVIOUS
  <1>4. QED
    BY <1>1, <1>2, <1>3 DEF s

\* Keys that were put stay so while the columns grow.
Grows ==
  /\ building # "built"
  /\ columns' \in Seq(Column) /\ Len(columns) <= Len(columns')
  /\ \A i \in 1 .. Len(columns) : columns[i].blocks <= columns'[i].blocks

\* This is what makes them stay.
LEMMA KeyOkKept ==
  ASSUME Types, Grows
  PROVE  \A k \in Keys : \A v : KeyOk(k, v) => KeyOk(k, v)'
  <1> SUFFICES ASSUME NEW k \in Keys, NEW v, KeyOk(k, v)
               PROVE  KeyOk(k, v)'
    OBVIOUS
  <1>1. k # DfKey
    BY DEF KeyOk, Grows
  <1>2. k[1] \in Nat /\ k[2] \in Nat /\ k[1] < Len(columns) /\ k[2] < columns[k[1] + 1].blocks /\ v \in Blocks
    BY <1>1, KeyFacts DEF KeyOk
  <1>3. k[1] + 1 \in 1 .. Len(columns) /\ columns' \in Seq(Column)
    BY <1>2, ColumnFacts DEF Grows
  <1>4. Len(columns') \in Nat /\ \A i \in 1 .. Len(columns') : columns'[i].blocks \in Nat
    <2>1. \A s \in Seq(Column) : Len(s) \in Nat /\ \A i \in 1 .. Len(s) : s[i] \in Column
      OBVIOUS
    <2>2. \A e \in Column : e.blocks \in Nat
      BY DEF Column
    <2>3. QED
      BY <1>3, <2>1, <2>2
  <1>5. k[1] < Len(columns') /\ columns[k[1] + 1].blocks <= columns'[k[1] + 1].blocks
    BY <1>2, <1>3, <1>4, ColumnFacts DEF Grows
  <1>6. k[2] < columns'[k[1] + 1].blocks
    <2>1. k[1] + 1 \in 1 .. Len(columns')
      BY <1>2, <1>4, <1>5
    <2>2. QED
      BY <1>2, <1>3, <1>4, <1>5, <2>1, ColumnFacts
  <1>7. QED
    BY <1>1, <1>2, <1>5, <1>6 DEF KeyOk

\* A step of the builder that puts nothing.
LEMMA StoresKept ==
  ASSUME Types, Stores, UNCHANGED <<net, store>>,
         \A k \in Keys : \A v : KeyOk(k, v) => KeyOk(k, v)'
  PROVE  Stores'
  <1>1. \A k \in DOMAIN store : KeyOk(k, store[k])'
    <2> SUFFICES ASSUME NEW k \in DOMAIN store PROVE KeyOk(k, store[k])'
      OBVIOUS
    <2>1. k \in Keys /\ KeyOk(k, store[k])
      BY DEF Stores
    <2>2. \A v : v = store[k] /\ KeyOk(k, v)' => KeyOk(k, store[k])'
      BY DEF KeyOk
    <2>3. QED
      BY <2>1, <2>2
  <1>2. \A n \in Nodes : \A i \in DOMAIN net[n] : KeyOk(net[n][i][1], net[n][i][2])'
    <2> SUFFICES ASSUME NEW n \in Nodes, NEW i \in DOMAIN net[n] PROVE KeyOk(net[n][i][1], net[n][i][2])'
      OBVIOUS
    <2>1. net[n][i][1] \in Keys /\ KeyOk(net[n][i][1], net[n][i][2])
      BY NetFacts DEF Stores
    <2>2. \A k, v : k = net[n][i][1] /\ v = net[n][i][2] /\ KeyOk(k, v)' => KeyOk(net[n][i][1], net[n][i][2])'
      BY DEF KeyOk
    <2>3. QED
      BY <2>1, <2>2
  <1>3. QED
    BY <1>1, <1>2 DEF Stores, HomeOf

\* A new key is put at its home.
LEMMA PutKeeps ==
  ASSUME Types, Stores, NEW k \in Keys, NEW v \in Values, NEW home \in Nodes, Put(k, v, home),
         HomeOf(k) = home, \A w : ~KeyOk(k, w),
         \A x \in Keys : \A y : KeyOk(x, y) => KeyOk(x, y)', KeyOk(k, v)'
  PROVE  Stores' /\ net' \in [Nodes -> Seq(Keys \X Values)]
  <1>1. k \notin DOMAIN store /\ \A n \in Nodes : \A i \in DOMAIN net[n] : net[n][i][1] # k
    BY DEF Stores
  <1>2. CASE home = Builder
    <2>1. /\ net' = net /\ DOMAIN store' = DOMAIN store \cup {k} /\ store'[k] = v
          /\ \A x \in DOMAIN store : store'[x] = store[x]
      BY <1>1, <1>2 DEF Put, Stored
    <2>2. \A x \in DOMAIN store' : KeyOk(x, store[x])'
      <3> SUFFICES ASSUME NEW x \in DOMAIN store' PROVE KeyOk(x, store[x])'
        OBVIOUS
      <3>1. \A y : y = store'[x] /\ KeyOk(x, y)' => KeyOk(x, store[x])'
        BY DEF KeyOk
      <3>2. CASE x = k
        BY <2>1, <3>1, <3>2
      <3>3. CASE x \in DOMAIN store
        BY <1>1, <2>1, <3>1, <3>3 DEF Stores
      <3>4. QED
        BY <2>1, <3>2, <3>3
    <2>3. \A n \in Nodes : \A i \in DOMAIN net[n] : KeyOk(net[n][i][1], net[n][i][2])'
      <3> SUFFICES ASSUME NEW n \in Nodes, NEW i \in DOMAIN net[n] PROVE KeyOk(net[n][i][1], net[n][i][2])'
        OBVIOUS
      <3>1. net[n][i][1] \in Keys /\ KeyOk(net[n][i][1], net[n][i][2])
        BY NetFacts DEF Stores
      <3>2. \A x, y : x = net'[n][i][1] /\ y = net'[n][i][2] /\ KeyOk(x, y)' => KeyOk(net[n][i][1], net[n][i][2])'
        BY DEF KeyOk
      <3>3. QED
        BY <2>1, <3>1, <3>2
    <2>4. /\ DOMAIN store' \subseteq Keys
          /\ \A n \in Nodes : \A i \in DOMAIN net[n] :
               HomeOf(net[n][i][1]) = n /\ net[n][i][1] \notin DOMAIN store'
          /\ \A n \in Nodes : \A i, j \in DOMAIN net[n] : net[n][i][1] = net[n][j][1] => i = j
      BY <1>1, <2>1 DEF Stores
    <2>5. \A x : HomeOf(x)' = HomeOf(x)
      BY DEF HomeOf
    <2>6. Stores'
      BY <2>1, <2>2, <2>3, <2>4, <2>5 DEF Stores, HomeOf
    <2>7. QED
      BY <2>1, <2>6 DEF Types
  <1>3. CASE home # Builder
    <2> DEFINE e == <<k, v>>
               s == net[home]
    <2>1. net' = [net EXCEPT ![home] = Append(s, e)] /\ store' = store
      BY <1>3 DEF Put
    <2>2. e \in Keys \X Values /\ s \in Seq(Keys \X Values) /\ e[1] = k /\ e[2] = v
      BY NetFacts
    <2> HIDE DEF e, s
    <2>3. /\ Append(s, e) \in Seq(Keys \X Values) /\ DOMAIN Append(s, e) = 1 .. Len(s) + 1
          /\ Append(s, e)[Len(s) + 1] = e /\ \A i \in 1 .. Len(s) : Append(s, e)[i] = s[i]
          /\ DOMAIN s = 1 .. Len(s) /\ Len(s) \in Nat
      BY <2>2
    <2>4. net' \in [Nodes -> Seq(Keys \X Values)]
      BY <2>1, <2>3 DEF Types
    <2>5. /\ net'[home] = Append(s, e) /\ \A n \in Nodes : n # home => net'[n] = net[n]
      BY <2>1, <2>3 DEF Types
    <2>6. ASSUME NEW n \in Nodes, NEW i \in DOMAIN net'[n]
          PROVE  \/ i \in DOMAIN net[n] /\ net'[n][i] = net[n][i]
                 \/ n = home /\ i = Len(s) + 1 /\ net'[n][i] = e
      <3>1. CASE n # home
        BY <2>5, <3>1
      <3>2. CASE n = home
        <4>1. i = Len(s) + 1 \/ i \in 1 .. Len(s)
          BY <2>3, <2>5, <3>2
        <4>2. QED
          BY <2>3, <2>5, <3>2, <4>1 DEF s
      <3>3. QED
        BY <3>1, <3>2
    <2>7. \A x \in DOMAIN store : KeyOk(x, store[x])'
      <3> SUFFICES ASSUME NEW x \in DOMAIN store PROVE KeyOk(x, store[x])'
        OBVIOUS
      <3>1. \A y : y = store'[x] /\ KeyOk(x, y)' => KeyOk(x, store[x])'
        BY DEF KeyOk
      <3>2. QED
        BY <2>1, <3>1 DEF Stores
    <2>8. \A n \in Nodes : \A i \in DOMAIN net'[n] :
            /\ KeyOk(net[n][i][1], net[n][i][2])' /\ HomeOf(net'[n][i][1]) = n
            /\ net'[n][i][1] \notin DOMAIN store
      <3> SUFFICES ASSUME NEW n \in Nodes, NEW i \in DOMAIN net'[n]
                   PROVE  /\ KeyOk(net[n][i][1], net[n][i][2])' /\ HomeOf(net'[n][i][1]) = n
                          /\ net'[n][i][1] \notin DOMAIN store
        OBVIOUS
      <3>1. \A x, y : x = net'[n][i][1] /\ y = net'[n][i][2] /\ KeyOk(x, y)' => KeyOk(net[n][i][1], net[n][i][2])'
        BY DEF KeyOk
      <3>2. CASE i \in DOMAIN net[n] /\ net'[n][i] = net[n][i]
        <4>1. net[n][i][1] \in Keys /\ KeyOk(net[n][i][1], net[n][i][2])
          BY <3>2, NetFacts DEF Stores
        <4>2. KeyOk(net[n][i][1], net[n][i][2])'
          BY <3>1, <3>2, <4>1
        <4>3. QED
          BY <3>2, <4>2 DEF Stores
      <3>3. CASE n = home /\ net'[n][i] = e
        BY <1>1, <2>2, <3>1, <3>3
      <3>4. QED
        BY <2>6, <3>2, <3>3
    <2>9. \A n \in Nodes : \A i, j \in DOMAIN net'[n] : net'[n][i][1] = net'[n][j][1] => i = j
      <3> SUFFICES ASSUME NEW n \in Nodes, NEW i \in DOMAIN net'[n], NEW j \in DOMAIN net'[n],
                          net'[n][i][1] = net'[n][j][1]
                   PROVE  i = j
        OBVIOUS
      <3>1. /\ \/ i \in DOMAIN net[n] /\ net'[n][i] = net[n][i]
               \/ n = home /\ i = Len(s) + 1 /\ net'[n][i] = e
            /\ \/ j \in DOMAIN net[n] /\ net'[n][j] = net[n][j]
               \/ n = home /\ j = Len(s) + 1 /\ net'[n][j] = e
        BY <2>6
      <3>2. QED
        BY <1>1, <2>2, <3>1 DEF Stores
    <2>10. QED
      BY <2>1, <2>4, <2>7, <2>8, <2>9 DEF Stores, HomeOf
  <1>4. QED
    BY <1>2, <1>3

-----------------------------------------------------------------------------
(* The steps of the builder *)

\* The operation that the builder is at, and the ones after it.
LEMMA ScriptFacts ==
  ASSUME Types, script # <<>>
  PROVE  /\ Head(script) = script[1] /\ Head(script) \in Operation
         /\ Head(script).op \in {"visit", "array", "column"} /\ Head(script).len \in Nat
         /\ Tail(script) \in Seq(Operation) /\ (Len(script) # 1 => Tail(script) # <<>>)
         /\ Len(Tail(script)) = Len(script) - 1 /\ Len(script) \in Nat \ {0}
         /\ DOMAIN script = 1 .. Len(script)
         /\ \A i \in 1 .. Len(script) - 1 : Tail(script)[i] = script[i + 1]
  <1>1. script \in Seq(Operation)
    BY DEF Types
  <1>2. Head(script) \in Operation
    BY <1>1, TailFacts
  <1>3. \A o \in Operation : o.op \in {"visit", "array", "column"} /\ o.len \in Nat
    BY DEF Operation
  <1>4. QED
    BY <1>1, <1>2, <1>3, TailFacts

\* Nobody reads before the dataframe is built.
LEMMA AllWait ==
  ASSUME Readers, building # "built"
  PROVE  \A n \in Nodes : at[n] = "wait"
  BY DEF Readers, HasRead

\* A step of the builder leaves the readers waiting.
LEMMA ReadersKept ==
  ASSUME Readers, building # "built", UNCHANGED readVars
  PROVE  Readers'
  <1>1. \A n \in Nodes : at[n] = "wait" /\ Waits(n)
    BY AllWait DEF Readers
  <1>2. \A n \in Nodes : at'[n] = "wait" /\ Waits(n)'
    BY <1>1 DEF Waits, readVars
  <1>3. QED
    BY <1>2 DEF Readers, readVars, IsFun

\* A step of the builder that puts nothing keeps the stores and the readers.
LEMMA BuildKeeps ==
  ASSUME IndInv, Grows, UNCHANGED <<net, store, readVars>>
  PROVE  Stores' /\ Readers'
  <1>1. Types /\ Stores /\ Readers
    BY DEF IndInv
  <1>2. Stores'
    BY <1>1, KeyOkKept, StoresKept
  <1>3. Readers'
    BY <1>1, ReadersKept DEF Grows
  <1>4. QED
    BY <1>2, <1>3

\* The variables of the readers and the messages keep their types.
LEMMA TypesOfRest ==
  ASSUME Types, UNCHANGED readVars,
         script' \in Seq(Operation), columns' \in Seq(Column),
         nrows' \in Nat, width' \in Nat, left' \in Nat,
         adding' \in [col : Nat, len : Nat, added : Nat, before : Nat],
         building' \in {"op", "chunk", "add", "publish", "built", "exit"},
         net' \in [Nodes -> Seq(Keys \X Values)]
  PROVE  Types'
  BY DEF Types, readVars, Column

\* add_all starts at a column.
LEMMA AddAllStarts ==
  ASSUME NEW cols \in Seq(Column), NEW c \in Nat, c < Len(cols), NEW len \in Nat, AddAll(c, len, cols)
  PROVE  /\ building' = "add" /\ adding' \in [col : Nat, len : Nat, added : Nat, before : Nat]
         /\ adding'.col = c /\ adding'.len = len /\ adding'.added = 0
         /\ adding'.before = cols[c + 1].blocks /\ cols[c + 1].blocks \in Nat
  <1>1. cols[c + 1] \in Column
    <2>1. c + 1 \in 1 .. Len(cols)
      OBVIOUS
    <2>2. QED
      BY <2>1
  <1>2. cols[c + 1].blocks \in Nat
    BY <1>1 DEF Column
  <1>3. QED
    BY <1>2 DEF AddAll

\* After an operation the builder takes the next one, or puts the dataframe.
LEMMA OpDoneFacts ==
  ASSUME Types, script # <<>>, OpDone
  PROVE  /\ script' \in Seq(Operation) /\ script' = Tail(script)
         /\ building' \in {"publish", "op"} /\ (building' = "op" => script' # <<>>)
  BY ScriptFacts DEF OpDone

\* A column that is appended, and columns that stay.
LEMMA NewColumnKeeps ==
  ASSUME IndInv, NewColumn
  PROVE  IndInv'
  <1> DEFINE e == [size |-> 0, blocks |-> 0]
  <1>1. /\ Types /\ Building /\ building = "op" /\ script # <<>> /\ Head(script).op # "visit"
        /\ Head(script).len \in Nat
    BY ScriptFacts DEF IndInv, NewColumn, Building
  <1>2. columns \in Seq(Column) /\ Len(columns) \in Nat /\ e \in Column /\ columns' = Append(columns, e)
    BY <1>1, ColumnFacts DEF NewColumn, Column
  <1> HIDE DEF e
  <1>3. /\ columns' \in Seq(Column) /\ Len(columns') = Len(columns) + 1
        /\ columns'[Len(columns) + 1] = e
        /\ \A i \in 1 .. Len(columns) : columns'[i] = columns[i]
    BY <1>2, ColumnAppended
  <1>4. /\ building' = "add" /\ adding' \in [col : Nat, len : Nat, added : Nat, before : Nat]
        /\ adding'.col = Len(columns) /\ adding'.added = 0 /\ adding'.len \in Nat
        /\ adding'.before = columns'[Len(columns) + 1].blocks
        /\ columns'[Len(columns) + 1].blocks \in Nat
    <2>1. AddAll(Len(columns), Head(script).len, columns')
      BY DEF NewColumn
    <2>2. columns'[Len(columns) + 1].blocks \in Nat
      BY <1>2, <1>3 DEF Column
    <2>3. QED
      BY <1>1, <1>2, <2>1, <2>2 DEF AddAll
  <1>5. Types'
    BY <1>1, <1>3, <1>4, TypesOfRest DEF NewColumn, Types
  <1>6. Grows
    <2>1. \A i \in 1 .. Len(columns) : columns[i].blocks <= columns'[i].blocks
      BY <1>1, <1>3, ColumnFacts
    <2>2. QED
      BY <1>1, <1>2, <1>3, <2>1 DEF Grows
  <1>7. Stores' /\ Readers'
    BY <1>6, BuildKeeps DEF NewColumn
  <1>8. Building'
    <2>1. NewCol' /\ ~NewCol /\ width' = width /\ script' = script
      BY <1>1, <1>4 DEF NewCol, NewColumn
    <2>2. width' = Len(columns')  - 1
      BY <1>1, <1>2, <1>3, <2>1 DEF Building
    <2>3. adding'.added = BlockSize * (columns'[adding'.col + 1].blocks - adding'.before)
      BY <1>4, Facts
    <2>4. QED
      BY <1>1, <1>2, <1>3, <1>4, <2>1, <2>2, <2>3 DEF Building
  <1>9. QED
    BY <1>5, <1>7, <1>8 DEF IndInv

\* visit takes the rows.
LEMMA VisitKeeps ==
  ASSUME IndInv, Visit
  PROVE  IndInv'
  <1>1. /\ Types /\ Building /\ building = "op" /\ script # <<>> /\ Head(script).op = "visit"
        /\ Head(script).len \in Nat
    BY ScriptFacts DEF IndInv, Visit, Building
  <1>2. Types'
    BY <1>1, TypesOfRest, ColumnFacts DEF Visit, Types
  <1>3. Grows
    BY <1>1, ColumnFacts DEF Grows, Visit
  <1>4. Stores' /\ Readers'
    BY <1>3, BuildKeeps DEF Visit
  <1>5. Building'
    BY <1>1 DEF Building, NewCol, Visit
  <1>6. QED
    BY <1>2, <1>4, <1>5 DEF IndInv

\* addRowChunk_ starts.
LEMMA NextChunkKeeps ==
  ASSUME IndInv, NextChunk
  PROVE  IndInv'
  <1>1. /\ Types /\ Building /\ building = "chunk" /\ script # <<>> /\ Head(script).op = "visit"
        /\ 0 < width /\ left \in Nat
    BY DEF IndInv, NextChunk, Building, Types
  <1>2. /\ Len(columns) = width /\ columns \in Seq(Column)
        /\ Min2(left, BlockSize) \in Nat /\ Min2(left, BlockSize) <= left
    BY <1>1, ColumnFacts, Facts DEF Building, NewCol, Min2
  <1>3. /\ building' = "add" /\ adding' \in [col : Nat, len : Nat, added : Nat, before : Nat]
        /\ adding'.col = 0 /\ adding'.added = 0 /\ adding'.len = Min2(left, BlockSize)
        /\ adding'.before = columns[1].blocks
        /\ columns[1].blocks \in Nat
    BY <1>1, <1>2, AddAllStarts DEF NextChunk
  <1>4. Types'
    BY <1>1, <1>2, <1>3, TypesOfRest DEF NextChunk, Types
  <1>5. Grows
    BY <1>1, ColumnFacts DEF Grows, NextChunk
  <1>6. Stores' /\ Readers'
    BY <1>5, BuildKeeps DEF NextChunk
  <1>7. Building'
    <2>1. /\ ~NewCol /\ ~NewCol' /\ columns' = columns /\ width' = width /\ script' = script
          /\ left' = left
      BY <1>1, <1>3 DEF NewCol, NextChunk
    <2>2. adding'.added = BlockSize * (columns'[adding'.col + 1].blocks - adding'.before)
      BY <1>3, <2>1, Facts
    <2>3. QED
      BY <1>1, <1>2, <1>3, <2>1, <2>2 DEF Building
  <1>8. QED
    BY <1>4, <1>6, <1>7 DEF IndInv

\* visit is over.
LEMMA VisitDoneKeeps ==
  ASSUME IndInv, VisitDone
  PROVE  IndInv'
  <1>1. /\ Types /\ Building /\ building = "chunk" /\ script # <<>> /\ 0 < width
    BY DEF IndInv, VisitDone, Building
  <1>2. /\ script' \in Seq(Operation) /\ building' \in {"publish", "op"}
        /\ (building' = "op" => script' # <<>>)
    BY <1>1, OpDoneFacts DEF VisitDone
  <1>3. Types'
    BY <1>1, <1>2, TypesOfRest, ColumnFacts DEF VisitDone, Types
  <1>4. Grows
    BY <1>1, ColumnFacts DEF Grows, VisitDone
  <1>5. Stores' /\ Readers'
    BY <1>4, BuildKeeps DEF VisitDone
  <1>6. Building'
    BY <1>1, <1>2 DEF Building, NewCol, VisitDone
  <1>7. QED
    BY <1>3, <1>5, <1>6 DEF IndInv

\* The call of add_all is at a column that is there.
LEMMA AddingFacts ==
  ASSUME Types, Building, building = "add"
  PROVE  /\ adding.col \in Nat /\ adding.len \in Nat /\ adding.added \in Nat /\ adding.before \in Nat
         /\ adding.added <= adding.len /\ script # <<>>
         /\ adding.col + 1 \in 1 .. Len(columns)
         /\ columns[adding.col + 1] \in Column
         /\ columns[adding.col + 1].size \in Nat /\ columns[adding.col + 1].blocks \in Nat
  <1>1. /\ adding.col \in Nat /\ adding.len \in Nat /\ adding.added \in Nat /\ adding.before \in Nat
    BY DEF Types
  <1>2. adding.added <= adding.len /\ script # <<>> /\ adding.col < Len(columns)
    BY DEF Building
  <1>3. adding.col + 1 \in 1 .. Len(columns)
    BY <1>1, <1>2, ColumnFacts
  <1>4. QED
    BY <1>1, <1>2, <1>3, ColumnFacts

\* The next block is the one after those of its column.
LEMMA NextBlock ==
  ASSUME Types, Building, building = "add", adding.added < adding.len
  PROVE  /\ Number = columns[adding.col + 1].blocks
         /\ Amount \in 1 .. BlockSize
         /\ adding.added + Amount <= adding.len
         /\ adding.added + Amount < adding.len => Amount = BlockSize
         /\ Elements \in Blocks
  <1> DEFINE c  == columns[adding.col + 1]
             d  == c.blocks - adding.before
  <1>1. /\ adding.len \in Nat /\ adding.added \in Nat /\ adding.before \in Nat
        /\ c.size \in Nat /\ c.blocks \in Nat /\ BlockSize \in Nat \ {0} /\ adding.col \in Nat
    BY AddingFacts, Facts
  <1>2. d \in Nat /\ adding.added = BlockSize * d
    BY <1>1 DEF Building
  <1>3. adding.before + d = c.blocks
    BY <1>1
  <1> HIDE DEF d
  <1>4. adding.added \div BlockSize = d
    <2>1. (BlockSize * d + 0) \div BlockSize = d
      BY <1>1, <1>2, DivModUnique
    <2>2. QED
      BY <1>1, <1>2, <2>1
  <1>5. Number = c.blocks
    BY <1>3, <1>4 DEF Number
  <1>6. /\ Amount \in 1 .. BlockSize /\ adding.added + Amount <= adding.len
        /\ adding.added + Amount < adding.len => Amount = BlockSize
    BY <1>1 DEF Amount, Min2
  <1>7. Elements \in Blocks
    <2>1. \A i \in 1 .. Amount : <<adding.col, c.size + adding.added + i - 1>> \in Nat \X Nat
      BY <1>1, <1>6
    <2>2. Amount \in Nat
      BY <1>1, <1>6
    <2>3. QED
      BY <2>1, <2>2 DEF Elements, Blocks
  <1>8. QED
    BY <1>5, <1>6, <1>7

\* A block is put.
LEMMA AddBlockKeeps ==
  ASSUME IndInv, AddBlock
  PROVE  IndInv'
  <1> DEFINE i == adding.col + 1
             e == [columns[i] EXCEPT !.blocks = @ + 1]
  <1>1. /\ Types /\ Building /\ Stores /\ Readers /\ building = "add" /\ script # <<>>
        /\ adding.added < adding.len
    BY DEF IndInv, AddBlock, Building
  <1>2. /\ columns \in Seq(Column) /\ i \in 1 .. Len(columns) /\ columns[i] \in Column
        /\ columns[i].blocks \in Nat /\ adding.col \in Nat
        /\ Number = columns[i].blocks
    BY <1>1, AddingFacts, ColumnFacts, NextBlock
  <1>3. /\ columns' = [columns EXCEPT ![i] = e] /\ e \in Column
        /\ e.blocks = columns[i].blocks + 1 /\ e.size = columns[i].size
    <2>1. columns' = [columns EXCEPT ![i] = e]
      BY DEF AddBlock
    <2>2. \A x \in Column : /\ [x EXCEPT !.blocks = @ + 1] \in Column
                            /\ [x EXCEPT !.blocks = @ + 1].blocks = x.blocks + 1
                            /\ [x EXCEPT !.blocks = @ + 1].size = x.size
      BY DEF Column
    <2>3. QED
      BY <1>2, <2>1, <2>2
  <1> HIDE DEF i, e
  <1>4. /\ columns' \in Seq(Column) /\ Len(columns') = Len(columns)
        /\ columns'[i] = e /\ \A j \in 1 .. Len(columns) : j # i => columns'[j] = columns[j]
    BY <1>2, <1>3, ColumnChanged
  <1>5. Grows
    <2>1. \A j \in 1 .. Len(columns) : columns[j].blocks <= columns'[j].blocks
      <3> SUFFICES ASSUME NEW j \in 1 .. Len(columns) PROVE columns[j].blocks <= columns'[j].blocks
        OBVIOUS
      <3>1. columns[j].blocks \in Nat
        BY <1>1, ColumnFacts
      <3>2. columns'[j].blocks = columns[j].blocks \/ columns'[j].blocks = columns[j].blocks + 1
        BY <1>3, <1>4
      <3>3. QED
        BY <3>1, <3>2
    <2>2. QED
      BY <1>1, <1>4, <2>1, ColumnFacts DEF Grows
  <1>51. PICK k, v : k = BlockKey(adding.col, Number) /\ v = Elements
    OBVIOUS
  <1>6. k \in Keys /\ k # DfKey /\ k[1] = adding.col /\ k[2] = columns[i].blocks
    BY <1>51, <1>2, KeyFacts
  <1>7. HomeOf(k) = Home(Number) /\ Home(Number) \in Nodes
    BY <1>2, <1>6, HomeNode DEF HomeOf
  <1>8. \A w : ~KeyOk(k, w)
    <2>1. k[2] = columns[k[1] + 1].blocks /\ ~(k[2] < k[2])
      BY <1>2, <1>6 DEF i
    <2>2. QED
      BY <1>6, <2>1 DEF KeyOk
  <1>9. v \in Blocks /\ v \in Values
    BY <1>1, <1>51, NextBlock DEF Values
  <1>10. KeyOk(k, v)'
    <2>1. k[1] < Len(columns') /\ k[2] < columns'[k[1] + 1].blocks
      BY <1>1, <1>2, <1>3, <1>4, <1>6, ColumnFacts DEF i
    <2>2. QED
      BY <1>6, <1>9, <2>1 DEF KeyOk
  <1>11. Stores' /\ net' \in [Nodes -> Seq(Keys \X Values)]
    <2>1. Put(k, v, Home(Number))
      BY <1>51 DEF AddBlock
    <2>2. \A x \in Keys : \A y : KeyOk(x, y) => KeyOk(x, y)'
      BY <1>1, <1>5, KeyOkKept
    <2>3. QED
      BY <1>1, <1>6, <1>7, <1>8, <1>9, <1>10, <2>1, <2>2, PutKeeps
  <1>12. /\ adding' \in [col : Nat, len : Nat, added : Nat, before : Nat]
         /\ adding'.col = adding.col /\ adding'.len = adding.len
         /\ adding'.before = adding.before /\ adding'.added = adding.added + Amount
    <2>1. adding.added + Amount \in Nat
      BY <1>1, AddingFacts, NextBlock, Facts
    <2>2. QED
      BY <2>1 DEF AddBlock, Types, IndInv
  <1>13. Types'
    BY <1>1, <1>4, <1>11, <1>12, TypesOfRest DEF AddBlock, Types
  <1>14. Readers'
    BY <1>1, ReadersKept DEF AddBlock
  <1>15. Building'
    <2>1. /\ building' = building /\ script' = script /\ (NewCol' <=> NewCol) /\ width' = width
          /\ left' = left
      BY DEF AddBlock, NewCol
    <2>2. adding'.added <= adding'.len
      BY <1>1, <1>12, NextBlock
    <2>3. adding'.added < adding'.len =>
            /\ adding'.before <= columns'[adding'.col + 1].blocks
            /\ adding'.added = BlockSize * (columns'[adding'.col + 1].blocks - adding'.before)
      <3>1. /\ adding.added = BlockSize * (columns[i].blocks - adding.before)
            /\ adding.before <= columns[i].blocks
        BY <1>1 DEF Building, i
      <3>2. adding'.added < adding'.len => Amount = BlockSize
        BY <1>1, <1>12, NextBlock
      <3>3. columns'[adding'.col + 1].blocks = columns[i].blocks + 1
        BY <1>3, <1>4, <1>12 DEF i
      <3>4. /\ adding.before \in Nat /\ columns[i].blocks \in Nat /\ BlockSize \in Nat
        BY <1>1, <1>2, AddingFacts, Facts
      <3>5. ASSUME NEW d \in Nat, NEW a \in Nat, NEW b \in Nat
            PROVE  d * (b - a) + d = d * ((b + 1) - a)
        OBVIOUS
      <3>6. columns[i].blocks + 1 \in Nat /\ adding.before <= columns[i].blocks + 1
        BY <3>1, <3>4
      <3>7. BlockSize * (columns[i].blocks - adding.before) + BlockSize
              = BlockSize * ((columns[i].blocks + 1) - adding.before)
        BY <3>4, <3>5
      <3>8. adding'.added < adding'.len =>
              adding'.added = BlockSize * (columns[i].blocks - adding.before) + BlockSize
        BY <1>12, <3>1, <3>2
      <3>9. adding'.added < adding'.len =>
              adding'.added = BlockSize * ((columns[i].blocks + 1) - adding.before)
        BY <3>7, <3>8
      <3>10. adding'.before = adding.before
        BY <1>12
      <3>11. QED
        BY <3>3, <3>6, <3>9, <3>10
    <2>4. QED
      BY <1>1, <1>4, <1>12, <2>1, <2>2, <2>3 DEF Building
  <1>16. QED
    BY <1>11, <1>13, <1>14, <1>15 DEF IndInv

\* The end of add_all counts elements, and no block more.
LEMMA FilledFacts ==
  ASSUME Types, Building, Filled
  PROVE  /\ columns' \in Seq(Column) /\ Len(columns') = Len(columns)
         /\ columns'[adding.col + 1].size = columns[adding.col + 1].size + adding.len
         /\ \A i \in 1 .. Len(columns) : i # adding.col + 1 => columns'[i] = columns[i]
         /\ \A i \in 1 .. Len(columns) : columns'[i].blocks = columns[i].blocks
         /\ Grows
  <1> DEFINE i == adding.col + 1
             e == [columns[i] EXCEPT !.size = @ + adding.len]
  <1>1. building = "add"
    BY DEF Filled
  <1>2. /\ columns \in Seq(Column) /\ i \in 1 .. Len(columns) /\ columns[i] \in Column
        /\ adding.len \in Nat
    BY <1>1, AddingFacts, ColumnFacts
  <1>3. /\ columns' = [columns EXCEPT ![i] = e] /\ e \in Column
        /\ e.blocks = columns[i].blocks /\ e.size = columns[i].size + adding.len
    <2>1. columns' = [columns EXCEPT ![i] = e]
      BY DEF Filled
    <2>2. \A x \in Column : \A l \in Nat :
            /\ [x EXCEPT !.size = @ + l] \in Column
            /\ [x EXCEPT !.size = @ + l].blocks = x.blocks
            /\ [x EXCEPT !.size = @ + l].size = x.size + l
      BY DEF Column
    <2>3. QED
      BY <1>2, <2>1, <2>2
  <1> HIDE DEF i, e
  <1>4. /\ columns' \in Seq(Column) /\ Len(columns') = Len(columns)
        /\ columns'[i] = e /\ \A j \in 1 .. Len(columns) : j # i => columns'[j] = columns[j]
    BY <1>2, <1>3, ColumnChanged
  <1>5. \A j \in 1 .. Len(columns) : columns'[j].blocks = columns[j].blocks
    BY <1>3, <1>4
  <1>6. Grows
    BY <1>1, <1>4, <1>5, ColumnFacts DEF Grows
  <1>7. QED
    BY <1>2, <1>3, <1>4, <1>5, <1>6 DEF i

\* The next column of the chunk, or the next chunk.
LEMMA ChunkColumnFilledKeeps ==
  ASSUME IndInv, ChunkColumnFilled
  PROVE  IndInv'
  <1>1. /\ Types /\ Building /\ building = "add" /\ script # <<>> /\ Head(script).op = "visit"
        /\ Filled
    BY DEF IndInv, ChunkColumnFilled, Building, Filled
  <1>2. /\ Len(columns) = width /\ columns \in Seq(Column) /\ Len(columns) \in Nat
        /\ adding.col \in Nat /\ adding.len \in Nat /\ left \in Nat /\ adding.len <= left
    BY <1>1, ColumnFacts, AddingFacts DEF Building, NewCol, Types
  <1>3. /\ columns' \in Seq(Column) /\ Len(columns') = Len(columns)
        /\ \A i \in 1 .. Len(columns) : columns'[i].blocks = columns[i].blocks
        /\ Grows
    BY <1>1, FilledFacts
  <1>4. Stores' /\ Readers'
    BY <1>3, BuildKeeps DEF ChunkColumnFilled
  <1>5. CASE adding.col + 1 < width
    <2>1. AddAll(adding.col + 1, adding.len, columns) /\ UNCHANGED <<nrows, left>>
      BY <1>5 DEF ChunkColumnFilled
    <2>2. PICK a, l : a = adding.col + 1 /\ l = adding.len
      OBVIOUS
    <2>3. /\ building' = "add" /\ adding' \in [col : Nat, len : Nat, added : Nat, before : Nat]
          /\ adding'.col = a /\ adding'.added = 0 /\ adding'.len = adding.len
          /\ adding'.before = columns[a + 1].blocks
          /\ columns[a + 1].blocks \in Nat
      <3>1. a \in Nat /\ a < Len(columns) /\ l \in Nat
        BY <1>2, <1>5, <2>2
      <3>2. AddAll(a, l, columns)
        BY <2>1, <2>2
      <3>3. columns \in Seq(Column)
        BY <1>2
      <3>4. QED
        BY ONLY <2>2, <3>1, <3>2, <3>3, AddAllStarts
    <2>4. Types'
      BY <1>1, <1>3, <2>1, <2>3, TypesOfRest DEF ChunkColumnFilled, Types
    <2>5. Building'
      <3>1. ~NewCol /\ ~NewCol' /\ width' = width /\ script' = script /\ left' = left
        BY <1>1, <2>1, <2>3 DEF NewCol, ChunkColumnFilled
      <3>2. columns'[adding'.col + 1].blocks = adding'.before
        BY <1>2, <1>3, <1>5, <2>2, <2>3
      <3>3. adding'.added = BlockSize * (columns'[adding'.col + 1].blocks - adding'.before)
        BY <2>3, <3>2, Facts
      <3>4. adding'.col < Len(columns')
        BY <1>2, <1>3, <1>5, <2>2, <2>3
      <3>5. adding'.added <= adding'.len /\ adding'.before <= columns'[adding'.col + 1].blocks
        BY <1>2, <2>3, <3>2
      <3>6. QED
        BY <1>1, <1>2, <1>3, <2>3, <3>1, <3>3, <3>4, <3>5 DEF Building
    <2>6. QED
      BY <1>4, <2>4, <2>5 DEF IndInv
  <1>6. CASE ~(adding.col + 1 < width)
    <2>1. /\ nrows' = nrows + adding.len /\ left' = left - adding.len /\ building' = "chunk"
          /\ UNCHANGED adding
      BY <1>6 DEF ChunkColumnFilled
    <2>2. nrows \in Nat /\ nrows' \in Nat /\ left' \in Nat
      BY <1>1, <1>2, <2>1 DEF Types
    <2>3. Types'
      BY <1>1, <1>3, <2>1, <2>2, TypesOfRest DEF ChunkColumnFilled, Types
    <2>4. Building'
      BY <1>1, <1>2, <1>3, <2>1 DEF Building, NewCol, ChunkColumnFilled
    <2>5. QED
      BY <1>4, <2>3, <2>4 DEF IndInv
  <1>7. QED
    BY <1>5, <1>6

\* An array is a column of the schema now.
LEMMA ArrayFilledKeeps ==
  ASSUME IndInv, ArrayFilled
  PROVE  IndInv'
  <1>1. /\ Types /\ Building /\ building = "add" /\ script # <<>> /\ Head(script).op # "visit"
        /\ Filled /\ NewCol
    BY DEF IndInv, ArrayFilled, Building, Filled, NewCol
  <1>2. /\ width = Len(columns) - 1 /\ Len(columns) \in Nat /\ width \in Nat /\ adding.len \in Nat
    BY <1>1, ColumnFacts, AddingFacts DEF Building, Types
  <1>3. columns' \in Seq(Column) /\ Len(columns') = Len(columns) /\ Grows
    BY <1>1, FilledFacts
  <1>4. /\ script' \in Seq(Operation) /\ building' \in {"publish", "op"}
        /\ (building' = "op" => script' # <<>>)
    BY <1>1, OpDoneFacts DEF ArrayFilled
  <1>5. Stores' /\ Readers'
    BY <1>3, BuildKeeps DEF ArrayFilled
  <1>6. width' = width + 1 /\ width' \in Nat /\ nrows' \in Nat
    BY <1>1, <1>2 DEF ArrayFilled, Types
  <1>7. Types'
    BY <1>1, <1>3, <1>4, <1>6, TypesOfRest DEF ArrayFilled, Types
  <1>8. Building'
    BY <1>1, <1>2, <1>3, <1>4, <1>6 DEF Building, NewCol, ArrayFilled
  <1>9. QED
    BY <1>5, <1>7, <1>8 DEF IndInv

\* A column of the right length is one of the schema now; another one ends the program.
LEMMA ColumnFilledKeeps ==
  ASSUME IndInv, ColumnFilled
  PROVE  IndInv'
  <1>1. /\ Types /\ Building /\ building = "add" /\ script # <<>> /\ Head(script).op # "visit"
        /\ Filled /\ NewCol
    BY DEF IndInv, ColumnFilled, Building, Filled, NewCol
  <1>2. /\ width = Len(columns) - 1 /\ Len(columns) \in Nat /\ width \in Nat /\ adding.len \in Nat
    BY <1>1, ColumnFacts, AddingFacts DEF Building, Types
  <1>3. columns' \in Seq(Column) /\ Len(columns') = Len(columns) /\ Grows
    BY <1>1, FilledFacts
  <1>4. Stores' /\ Readers'
    BY <1>3, BuildKeeps DEF ColumnFilled
  <1>5. CASE adding.len = nrows
    <2>1. /\ script' \in Seq(Operation) /\ building' \in {"publish", "op"}
          /\ (building' = "op" => script' # <<>>) /\ width' = width + 1 /\ width' \in Nat
      BY <1>1, <1>2, <1>5, OpDoneFacts DEF ColumnFilled
    <2>2. Types'
      BY <1>1, <1>3, <2>1, TypesOfRest DEF ColumnFilled, Types
    <2>3. Building'
      BY <1>1, <1>2, <1>3, <2>1 DEF Building, NewCol, ColumnFilled
    <2>4. QED
      BY <1>4, <2>2, <2>3 DEF IndInv
  <1>6. CASE adding.len # nrows
    <2>1. building' = "exit" /\ UNCHANGED <<script, width>>
      BY <1>6 DEF ColumnFilled
    <2>2. Types'
      BY <1>1, <1>2, <1>3, <2>1, TypesOfRest DEF ColumnFilled, Types
    <2>3. Building'
      BY <1>1, <1>2, <1>3, <2>1 DEF Building, NewCol, ColumnFilled
    <2>4. QED
      BY <1>4, <2>2, <2>3 DEF IndInv
  <1>7. QED
    BY <1>5, <1>6

\* The dataframe is put.
LEMMA PublishKeeps ==
  ASSUME IndInv, Publish
  PROVE  IndInv'
  <1>1. Types /\ Building /\ Stores /\ Readers /\ building = "publish" /\ building' = "built"
    BY DEF IndInv, Publish
  <1>2. PICK v : v = [nrows |-> nrows, width |-> width]
    OBVIOUS
  <1>3. DfKey \in Keys /\ v \in Values /\ HomeOf(DfKey) = DfHome /\ DfHome \in Nodes
    BY <1>1, <1>2, Facts DEF Keys, Values, HomeOf, Types
  <1>4. Grows
    BY <1>1, ColumnFacts DEF Grows, Publish
  <1>5. \A w : ~KeyOk(DfKey, w)
    BY <1>1 DEF KeyOk
  <1>6. KeyOk(DfKey, v)'
    <2>1. DfKey' = DfKey /\ nrows' = nrows /\ width' = width
      BY DEF Publish, DfKey
    <2>2. QED
      BY <1>1, <1>2, <2>1 DEF KeyOk
  <1>7. Stores' /\ net' \in [Nodes -> Seq(Keys \X Values)]
    <2>1. Put(DfKey, v, DfHome)
      BY <1>2 DEF Publish
    <2>2. \A x \in Keys : \A y : KeyOk(x, y) => KeyOk(x, y)'
      BY <1>1, <1>4, KeyOkKept
    <2>3. QED
      BY <1>1, <1>3, <1>5, <1>6, <2>1, <2>2, PutKeeps
  <1>8. Types'
    BY <1>1, <1>7, TypesOfRest, ColumnFacts DEF Publish, Types
  <1>9. Readers'
    BY <1>1, ReadersKept DEF Publish
  <1>10. Building'
    BY <1>1 DEF Building, NewCol, Publish
  <1>11. QED
    BY <1>7, <1>8, <1>9, <1>10 DEF IndInv

-----------------------------------------------------------------------------
(* A put arrives *)

\* What a cache has is still what the store has.
LEMMA StoreGrows ==
  ASSUME Readers, UNCHANGED <<buildVars, readVars>>,
         \A k \in DOMAIN store : k \in DOMAIN store' /\ store'[k] = store[k]
  PROVE  Readers'
  <1>1. /\ script' = script /\ columns' = columns /\ nrows' = nrows /\ width' = width
        /\ building' = building /\ at' = at /\ mode' = mode /\ copy' = copy /\ rowIdx' = rowIdx
        /\ cells' = cells /\ order' = order /\ data' = data /\ visited' = visited
    BY DEF buildVars, readVars
  <1>2. \A n \in Nodes : Waits(n) => Waits(n)'
    BY <1>1 DEF Waits
  <1>3. \A n \in Nodes : \A c : CacheOk(n, c) => CacheOk(n, c)'
    BY <1>1 DEF CacheOk, BlockKey, Queued, Home
  <1>4. \A n \in Nodes : HasRead(n) => HasRead(n)'
    BY <1>1, <1>3 DEF HasRead, IsFun, Rows, Mine
  <1>5. QED
    BY <1>1, <1>2, <1>4 DEF Readers, IsFun

\* The first put on its way to a node arrives, and its key is in no other put.
LEMMA DeliverKeeps ==
  ASSUME IndInv, NEW n \in Nodes, Deliver(n)
  PROVE  IndInv'
  <1> DEFINE q == net[n]
  <1>1. /\ Types /\ Building /\ Stores /\ Readers /\ UNCHANGED <<buildVars, readVars>>
        /\ q # <<>> /\ net' = [net EXCEPT ![n] = Tail(q)]
    BY DEF IndInv, Deliver
  <1>2. q \in Seq(Keys \X Values)
    BY <1>1, NetFacts
  <1> HIDE DEF q
  <1>3. /\ Tail(q) \in Seq(Keys \X Values) /\ DOMAIN Tail(q) = 1 .. Len(q) - 1
        /\ \A i \in 1 .. Len(q) - 1 : Tail(q)[i] = q[i + 1]
        /\ q[1] \in Keys \X Values /\ Len(q) \in Nat \ {0} /\ DOMAIN q = 1 .. Len(q)
    BY <1>1, <1>2, TailFacts
  <1>4. PICK k \in Keys, v \in Values : k = q[1][1] /\ v = q[1][2]
    BY <1>3
  <1>5. /\ k \notin DOMAIN store /\ KeyOk(k, v) /\ HomeOf(k) = n
        /\ \A m \in Nodes : \A i \in DOMAIN net[m] : net[m][i][1] = k => m = n /\ i = 1
    BY <1>1, <1>3, <1>4 DEF Stores, q
  <1>6. /\ store' = Stored(k, v) /\ DOMAIN store' = DOMAIN store \cup {k} /\ store'[k] = v
        /\ \A x \in DOMAIN store : store'[x] = store[x]
    BY <1>4, <1>5 DEF Deliver, Stored, q
  <1>7. ASSUME NEW m \in Nodes, NEW i \in DOMAIN net'[m]
        PROVE  \E j \in DOMAIN net[m] :
                 /\ net'[m][i] = net[m][j]
                 /\ IF m = n THEN j = i + 1 ELSE j = i
    <2>1. CASE m = n
      <3>1. net'[m] = Tail(q)
        BY <1>1, <2>1 DEF Types
      <3>2. i \in 1 .. Len(q) - 1 /\ i + 1 \in 1 .. Len(q) /\ net'[m][i] = q[i + 1]
        BY <1>3, <3>1
      <3>3. QED
        BY <1>3, <2>1, <3>2 DEF q
    <2>2. CASE m # n
      BY <1>1, <2>2 DEF Types
    <2>3. QED
      BY <2>1, <2>2
  <1>8. net' \in [Nodes -> Seq(Keys \X Values)]
    BY <1>1, <1>3 DEF Types
  <1>9. Types'
    BY <1>1, <1>8, TypesOfRest, ColumnFacts DEF buildVars, Types
  <1>10. Building'
    BY <1>1 DEF Building, NewCol, buildVars
  <1>11. \A x \in Keys : \A y : KeyOk(x, y) => KeyOk(x, y)'
    BY <1>1 DEF KeyOk, buildVars, DfKey
  <1>12. \A x \in DOMAIN store' : x \in Keys /\ KeyOk(x, store[x])'
    <2> SUFFICES ASSUME NEW x \in DOMAIN store' PROVE x \in Keys /\ KeyOk(x, store[x])'
      OBVIOUS
    <2>1. \A y : y = store'[x] /\ KeyOk(x, y)' => KeyOk(x, store[x])'
      BY DEF KeyOk
    <2>2. CASE x = k
      BY <1>5, <1>6, <1>11, <2>1, <2>2
    <2>3. CASE x \in DOMAIN store
      BY <1>1, <1>6, <1>11, <2>1, <2>3 DEF Stores
    <2>4. QED
      BY <1>6, <2>2, <2>3
  <1>13. \A m \in Nodes : \A i \in DOMAIN net'[m] :
           /\ KeyOk(net[m][i][1], net[m][i][2])' /\ HomeOf(net'[m][i][1]) = m
           /\ net'[m][i][1] \notin DOMAIN store'
    <2> SUFFICES ASSUME NEW m \in Nodes, NEW i \in DOMAIN net'[m]
                 PROVE  /\ KeyOk(net[m][i][1], net[m][i][2])' /\ HomeOf(net'[m][i][1]) = m
                        /\ net'[m][i][1] \notin DOMAIN store'
      OBVIOUS
    <2>1. PICK j \in DOMAIN net[m] : /\ net'[m][i] = net[m][j]
                                     /\ IF m = n THEN j = i + 1 ELSE j = i
      BY <1>7
    <2>2. i \in Nat \ {0}
      BY <1>8 
    <2>3. net[m][j][1] # k
      BY <1>5, <2>1, <2>2
    <2>4. \A x, y : x = net'[m][i][1] /\ y = net'[m][i][2] /\ KeyOk(x, y)' => KeyOk(net[m][i][1], net[m][i][2])'
      BY DEF KeyOk
    <2>5. net[m][j][1] \in Keys /\ KeyOk(net[m][j][1], net[m][j][2])
      BY <1>1, NetFacts DEF Stores
    <2>6. KeyOk(net[m][i][1], net[m][i][2])'
      BY <1>11, <2>1, <2>4, <2>5
    <2>7. HomeOf(net[m][j][1]) = m /\ net[m][j][1] \notin DOMAIN store
      BY <1>1 DEF Stores
    <2>8. QED
      BY <1>6, <2>1, <2>3, <2>6, <2>7
  <1>14. \A m \in Nodes : \A i, j \in DOMAIN net'[m] : net'[m][i][1] = net'[m][j][1] => i = j
    <2> SUFFICES ASSUME NEW m \in Nodes, NEW i \in DOMAIN net'[m], NEW j \in DOMAIN net'[m],
                        net'[m][i][1] = net'[m][j][1]
                 PROVE  i = j
      OBVIOUS
    <2>1. PICK a \in DOMAIN net[m] : /\ net'[m][i] = net[m][a]
                                     /\ IF m = n THEN a = i + 1 ELSE a = i
      BY <1>7
    <2>2. PICK b \in DOMAIN net[m] : /\ net'[m][j] = net[m][b]
                                     /\ IF m = n THEN b = j + 1 ELSE b = j
      BY <1>7
    <2>3. a = b
      BY <1>1, <2>1, <2>2 DEF Stores
    <2>4. i \in Nat /\ j \in Nat
      BY <1>8
    <2>5. QED
      BY <2>1, <2>2, <2>3, <2>4
  <1>15. Stores'
    BY <1>12, <1>13, <1>14 DEF Stores, HomeOf
  <1>16. Readers'
    BY <1>1, <1>6, StoreGrows
  <1>17. QED
    BY <1>9, <1>10, <1>15, <1>16 DEF IndInv

-----------------------------------------------------------------------------
(* The caches *)

\* A queue that has every key once is as long as the set of its keys.
LEMMA QueueLength ==
  ASSUME NEW q \in Seq(Nat), \A i, j \in DOMAIN q : q[i] = q[j] => i = j
  PROVE  Cardinality(Queued(q)) = Len(q)
  <1>1. DOMAIN q = 1 .. Len(q) /\ Len(q) \in Nat /\ q \in [1 .. Len(q) -> Nat]
    OBVIOUS
  <1>2. q \in [1 .. Len(q) -> Queued(q)]
    BY <1>1 DEF Queued
  <1>3. \A t \in Queued(q) : \E s \in 1 .. Len(q) : q[s] = t
    BY <1>1 DEF Queued
  <1>4. q \in Bijection(1 .. Len(q), Queued(q))
    BY <1>1, <1>2, <1>3, Fun_IsBij
  <1>5. ExistsBijection(1 .. Len(q), Queued(q))
    BY <1>4, Fun_ExistsBij
  <1>6. QED
    BY <1>1, <1>5, FS_CountingElements

\* A key that is not in the queue goes to its end, and the first one leaves a full queue.
LEMMA QueuePut ==
  ASSUME NEW q \in Seq(Nat), \A i, j \in DOMAIN q : q[i] = q[j] => i = j,
         NEW b \in Nat, b \notin Queued(q), NEW k \in Seq(Nat), NEW old, 
         \/ k = q /\ old = {}
         \/ q # <<>> /\ k = Tail(q) /\ old = {Head(q)}
  PROVE  /\ Append(k, b) \in Seq(Nat) /\ Len(Append(k, b)) = Len(k) + 1
         /\ \A i, j \in DOMAIN Append(k, b) : Append(k, b)[i] = Append(k, b)[j] => i = j
         /\ Queued(Append(k, b)) = (Queued(q) \ old) \cup {b}
         /\ Len(k) \in Nat /\ (k = Tail(q) /\ q # <<>> => Len(k) = Len(q) - 1)
  <1>1. /\ Append(k, b) \in Seq(Nat) /\ Len(Append(k, b)) = Len(k) + 1 /\ Len(k) \in Nat
        /\ DOMAIN Append(k, b) = 1 .. Len(k) + 1 /\ DOMAIN k = 1 .. Len(k)
        /\ \A i \in 1 .. Len(k) : Append(k, b)[i] = k[i]
        /\ Append(k, b)[Len(k) + 1] = b
    OBVIOUS
  <1>2. /\ \A i, j \in DOMAIN k : k[i] = k[j] => i = j
        /\ Queued(k) = Queued(q) \ old
        /\ (k = Tail(q) /\ q # <<>> => Len(k) = Len(q) - 1)
    <2>1. CASE k = q /\ old = {}
      <3>1. q # <<>> => Len(Tail(q)) = Len(q) - 1
        BY TailFacts
      <3>2. QED
        BY <2>1, <3>1
    <2>2. CASE q # <<>> /\ k = Tail(q) /\ old = {Head(q)}
      <3>1. /\ Len(k) = Len(q) - 1 /\ DOMAIN k = 1 .. Len(q) - 1
            /\ \A i \in 1 .. Len(q) - 1 : k[i] = q[i + 1]
            /\ old = {q[1]} /\ Len(q) \in Nat \ {0} /\ DOMAIN q = 1 .. Len(q)
        BY <2>2, TailFacts
      <3>2. \A i \in 1 .. Len(q) - 1 : i + 1 \in 1 .. Len(q) /\ i + 1 # 1
        BY <3>1
      <3>3. \A i, j \in DOMAIN k : k[i] = k[j] => i = j
        <4>1. \A i, j \in 1 .. Len(q) - 1 : i + 1 = j + 1 => i = j
          OBVIOUS
        <4>2. QED
          BY <3>1, <3>2, <4>1
      <3>4. Queued(k) \subseteq Queued(q) \ old
        <4> SUFFICES ASSUME NEW x \in Queued(k) PROVE x \in Queued(q) \ old
          OBVIOUS
        <4>0. PICK i \in DOMAIN k : x = k[i]
          BY DEF Queued
        <4>1. k[i] = q[i + 1] /\ i + 1 \in DOMAIN q /\ 1 \in DOMAIN q /\ i + 1 # 1
          BY <3>1, <3>2
        <4>2. k[i] # q[1]
          BY <4>1
        <4>3. QED
          BY <3>1, <4>0, <4>1, <4>2 DEF Queued
      <3>5. Queued(q) \ old \subseteq Queued(k)
        <4> SUFFICES ASSUME NEW x \in Queued(q), x # q[1] PROVE x \in Queued(k)
          BY <3>1
        <4>0. PICK i \in DOMAIN q : x = q[i]
          BY DEF Queued
        <4>1. i - 1 \in 1 .. Len(q) - 1 /\ (i - 1) + 1 = i
          BY <3>1, <4>0
        <4>2. k[i - 1] = q[i] /\ i - 1 \in DOMAIN k
          BY <3>1, <4>1
        <4>3. QED
          BY <4>0, <4>2 DEF Queued
      <3>6. QED
        BY <3>1, <3>3, <3>4, <3>5
    <2>3. QED
      BY <2>1, <2>2
  <1>3. \A i \in DOMAIN k : k[i] # b
    BY <1>2 DEF Queued
  <1>4. \A i \in DOMAIN Append(k, b) : i \in DOMAIN k \/ i = Len(k) + 1
    BY <1>1
  <1>5. \A i, j \in DOMAIN Append(k, b) : Append(k, b)[i] = Append(k, b)[j] => i = j
    BY <1>1, <1>2, <1>3, <1>4
  <1>6. Queued(Append(k, b)) = Queued(k) \cup {b}
    <2> DEFINE a == Append(k, b)
    <2>1. /\ DOMAIN a = DOMAIN k \cup {Len(k) + 1} /\ a[Len(k) + 1] = b
          /\ \A i \in DOMAIN k : a[i] = k[i]
      BY <1>1
    <2> HIDE DEF a
    <2>2. Queued(a) = Queued(k) \cup {b}
      BY <2>1 DEF Queued
    <2>3. QED
      BY <2>2 DEF a
  <1>7. QED
    BY <1>1, <1>2, <1>5, <1>6

-----------------------------------------------------------------------------
(* The steps of a reader *)

\* A step of node n in reading: the builder, the stores and the other nodes stay as they are.
OnlyAt(n) ==
  /\ UNCHANGED <<buildVars, net, store, mode>>
  /\ IsFun(order', Nodes) /\ IsFun(data', Nodes)
  /\ \A m \in Nodes \ {n} :
       /\ at'[m] = at[m] /\ copy'[m] = copy[m] /\ rowIdx'[m] = rowIdx[m]
       /\ cells'[m] = cells[m] /\ order'[m] = order[m] /\ data'[m] = data[m]
       /\ visited'[m] = visited[m]

\* The types of what a reader changes.
ReadTypes ==
  /\ at \in [Nodes -> {"wait", "read", "done", "exit"}]
  /\ copy \in [Nodes -> [nrows : Nat, width : Nat]]
  /\ rowIdx \in [Nodes -> Nat]
  /\ cells \in [Nodes -> Seq(Nat \X Nat)]
  /\ visited \in [Nodes -> Seq([idx : Nat, row : Seq(Nat \X Nat)])]

\* Such a step keeps the invariant, if that node has its part of it afterwards.
LEMMA ReaderStep ==
  ASSUME IndInv, NEW n \in Nodes, OnlyAt(n), ReadTypes', at'[n] # "wait", HasRead(n)'
  PROVE  IndInv'
  <1>1. /\ Types /\ Building /\ Stores /\ Readers
        /\ script' = script /\ columns' = columns /\ nrows' = nrows /\ width' = width /\ left' = left
        /\ adding' = adding /\ building' = building /\ net' = net /\ store' = store /\ mode' = mode
    BY DEF IndInv, OnlyAt, buildVars
  <1>2. Types'
    BY <1>1 DEF Types, ReadTypes
  <1>3. Building'
    BY <1>1 DEF Building, NewCol
  <1>4. Stores'
    <2>1. \A x \in Keys : \A y : KeyOk(x, y) => KeyOk(x, y)'
      BY <1>1 DEF KeyOk, DfKey
    <2>2. QED
      BY <1>1, <2>1, StoresKept
  <1>5. ASSUME NEW m \in Nodes, m # n
        PROVE  IF at'[m] = "wait" THEN Waits(m)' ELSE HasRead(m)'
    <2>1. /\ at'[m] = at[m] /\ copy'[m] = copy[m] /\ rowIdx'[m] = rowIdx[m]
          /\ cells'[m] = cells[m] /\ order'[m] = order[m] /\ data'[m] = data[m]
          /\ visited'[m] = visited[m]
      BY <1>5 DEF OnlyAt
    <2>2. Waits(m) => Waits(m)'
      BY <2>1 DEF Waits
    <2>3. \A c : CacheOk(m, c) => CacheOk(m, c)'
      BY <1>1, <2>1 DEF CacheOk, BlockKey, Queued, Home
    <2>4. HasRead(m) => HasRead(m)'
      BY <1>1, <2>1, <2>3 DEF HasRead, IsFun, Rows, Mine
    <2>5. QED
      BY <1>1, <2>1, <2>2, <2>4 DEF Readers
  <1>6. Readers'
    BY <1>5 DEF Readers, OnlyAt
  <1>7. QED
    BY <1>2, <1>3, <1>4, <1>6 DEF IndInv

\* What a node that has the dataframe knows.
LEMMA ReadingFacts ==
  ASSUME IndInv, NEW n \in Nodes, at[n] # "wait"
  PROVE  /\ HasRead(n) /\ IsFun(order, Nodes) /\ IsFun(data, Nodes)
         /\ copy[n].nrows = nrows /\ copy[n].width = width /\ nrows \in Nat /\ width \in Nat
         /\ rowIdx[n] \in Nat /\ Chunk(rowIdx[n]) \in Nat
         /\ cells[n] \in Seq(Nat \X Nat) /\ Len(cells[n]) \in Nat
         /\ Visits(n) <=> at[n] = "read" /\ rowIdx[n] < nrows /\ Mine(n, rowIdx[n])
  <1>1. Types /\ Readers
    BY DEF IndInv
  <1>2. /\ HasRead(n) /\ IsFun(order, Nodes) /\ IsFun(data, Nodes)
        /\ copy[n] = [nrows |-> nrows, width |-> width]
    BY <1>1 DEF Readers, HasRead
  <1>3. nrows \in Nat /\ width \in Nat /\ rowIdx[n] \in Nat
    BY <1>1 DEF Types
  <1>4. cells[n] \in Seq(Nat \X Nat)
    BY <1>1 DEF Types
  <1>5. Chunk(rowIdx[n]) \in Nat
    BY <1>3, Facts, DivMod DEF Chunk
  <1>6. Len(cells[n]) \in Nat
    BY <1>4
  <1>7. QED
    BY <1>2, <1>3, <1>4, <1>5, <1>6 DEF Visits, Mine

\* A node gets the dataframe, and all caches are empty.
LEMMA OpenKeeps ==
  ASSUME IndInv, NEW n \in Nodes, Open(n)
  PROVE  IndInv'
  <1> DEFINE d == [nrows |-> nrows, width |-> width]
             e == [c \in 0 .. width - 1 |-> <<>>]
  <1>1. Types /\ Stores /\ Readers /\ at[n] = "wait" /\ Waits(n)
    BY DEF IndInv, Open, Readers
  <1>2. building = "built" /\ copy' = [copy EXCEPT ![n] = d]
    <2>1. CASE n = Builder /\ building = "built"
               /\ copy' = [copy EXCEPT ![n] = [nrows |-> nrows, width |-> width]]
      BY <2>1
    <2>2. CASE n # Builder /\ DfKey \in DOMAIN store /\ copy' = [copy EXCEPT ![n] = store[DfKey]]
      <3>1. KeyOk(DfKey, store[DfKey])
        BY <1>1, <2>2 DEF Stores
      <3>2. QED
        BY <2>2, <3>1 DEF KeyOk
    <2>3. QED
      BY <2>1, <2>2 DEF Open
  <1>3. d \in [nrows : Nat, width : Nat] /\ width \in Nat /\ nrows \in Nat
    BY <1>1 DEF Types
  <1>4. copy'[n] = d /\ copy'[n].width = width /\ copy' \in [Nodes -> [nrows : Nat, width : Nat]]
    BY <1>1, <1>2, <1>3 DEF Types
  <1>5. /\ order' = [order EXCEPT ![n] = e] /\ data' = [data EXCEPT ![n] = e]
        /\ at' = [at EXCEPT ![n] = "read"]
        /\ UNCHANGED <<buildVars, net, store, mode, rowIdx, cells, visited>>
    BY <1>4 DEF Open
  <1> HIDE DEF e, d
  <1>6. /\ order'[n] = e /\ data'[n] = e /\ IsFun(order', Nodes) /\ IsFun(data', Nodes)
        /\ \A m \in Nodes : m # n => order'[m] = order[m] /\ data'[m] = data[m]
    BY <1>1, <1>5 DEF Readers, IsFun
  <1>7. at'[n] = "read" /\ at' \in [Nodes -> {"wait", "read", "done", "exit"}]
    BY <1>1, <1>5 DEF Types
  <1>8. OnlyAt(n)
    <2>1. \A m \in Nodes \ {n} : copy'[m] = copy[m] /\ at'[m] = at[m]
      BY <1>1, <1>2, <1>5 DEF Types
    <2>2. QED
      BY <1>5, <1>6, <2>1 DEF OnlyAt
  <1>9. ReadTypes'
    BY <1>1, <1>4, <1>5, <1>7 DEF Types, ReadTypes
  <1>10. HasRead(n)'
    <2>1. building' = "built" /\ nrows' = nrows /\ width' = width /\ copy'[n] = d
      BY <1>2, <1>4, <1>5 DEF buildVars
    <2>2. IsFun(e, 0 .. width - 1) /\ \A c \in 0 .. width - 1 : e[c] = <<>>
      BY DEF e, IsFun
    <2>3. \A c \in 0 .. width - 1 : CacheOk(n, c)'
      <3> SUFFICES ASSUME NEW c \in 0 .. width - 1 PROVE CacheOk(n, c)'
        OBVIOUS
      <3>1. order'[n][c] = <<>> /\ data'[n][c] = <<>>
        BY <1>6, <2>2
      <3>2. DOMAIN <<>> = {} /\ <<>> \in Seq(Nat) /\ Len(<<>>) = 0 /\ Queued(<<>>) = {}
        BY DEF Queued
      <3>3. QED
        BY <3>1, <3>2, Facts DEF CacheOk, Queued
    <2>4. cells'[n] = <<>> /\ rowIdx'[n] = 0 /\ visited'[n] = <<>> /\ Len(cells'[n]) = 0
      BY <1>1, <1>5 DEF Waits
    <2>5. 0 % BlockSize = 0
      BY Facts
    <2>6. Rows(n)' = {}
      BY <2>4 DEF Rows
    <2>7. {r \in 0 .. nrows - 1 : r < 0 /\ Mine(n, r)'} = {}
      BY <1>3
    <2>8. /\ Len(cells'[n]) <= width'
          /\ ~Mine(n, rowIdx[n])' => cells'[n] = <<>> \/ nrows' <= rowIdx'[n]
          /\ ~Mine(n, rowIdx[n])' => rowIdx'[n] % BlockSize = 0
          /\ at'[n] = "done" => nrows' <= rowIdx'[n]
      BY <1>3, <1>7, <2>1, <2>4, <2>5
    <2>9. Rows(n)' = {r \in 0 .. nrows' - 1 : r < rowIdx'[n] /\ Mine(n, r)'}
      BY <2>1, <2>4, <2>6, <2>7
    <2>10. IsFun(order'[n], 0 .. width' - 1) /\ IsFun(data'[n], 0 .. width' - 1)
      BY <1>6, <2>1, <2>2
    <2>11. QED
      BY <2>1, <2>3, <2>8, <2>9, <2>10 DEF HasRead, d
  <1>11. QED
    BY <1>7, <1>8, <1>9, <1>10, ReaderStep

\* A block in a store is a sequence of elements.
LEMMA BlockStored ==
  ASSUME Stores, NEW c \in Nat, NEW b \in Nat, BlockKey(c, b) \in DOMAIN store
  PROVE  store[BlockKey(c, b)] \in Blocks
  <1>1. BlockKey(c, b) # DfKey /\ KeyOk(BlockKey(c, b), store[BlockKey(c, b)])
    BY KeyFacts DEF Stores
  <1>2. QED
    BY <1>1 DEF KeyOk

\* A block is cached, and the oldest one leaves a full cache.
LEMMA FetchKeeps ==
  ASSUME IndInv, NEW n \in Nodes, Fetch(n)
  PROVE  IndInv'
  <1> DEFINE c == Col(n)
             b == Block(n)
             q == order[n][c]
             f == CacheSize <= Cardinality(DOMAIN data[n][c])
             k == IF f THEN Tail(q) ELSE q
             o == IF f THEN {Head(q)} ELSE {}
             v == store[BlockKey(c, b)]
             g == [x \in (DOMAIN data[n][c] \ o) \cup {b} |-> IF x = b THEN v ELSE data[n][c][x]]
  <1>1. /\ Types /\ Stores /\ Visits(n) /\ c < copy[n].width /\ b \notin DOMAIN data[n][c]
        /\ BlockKey(c, b) \in DOMAIN store /\ at[n] = "read"
        /\ order' = [order EXCEPT ![n][c] = Append(k, b)] /\ data' = [data EXCEPT ![n][c] = g]
        /\ UNCHANGED <<buildVars, net, store, at, mode, copy, rowIdx, cells, visited>>
    BY DEF IndInv, Fetch, CachePut, Visits
  <1>2. /\ HasRead(n) /\ IsFun(order, Nodes) /\ IsFun(data, Nodes) /\ width \in Nat
        /\ c \in 0 .. width - 1 /\ b \in Nat /\ Mine(n, rowIdx[n])
    BY <1>1, ReadingFacts DEF Col, Block
  <1>3. /\ CacheOk(n, c) /\ q \in Seq(Nat) /\ Len(q) <= CacheSize
        /\ \A i, j \in DOMAIN q : q[i] = q[j] => i = j
        /\ DOMAIN data[n][c] = Queued(q)
    BY <1>2 DEF HasRead, CacheOk
  <1>4. b \notin Queued(q) /\ (f <=> CacheSize <= Len(q)) /\ Len(q) \in Nat /\ CacheSize \in Nat \ {0}
    BY <1>1, <1>3, QueueLength, Facts
  <1> HIDE DEF q, f
  <1>5. /\ k \in Seq(Nat) /\ \/ k = q /\ o = {}
                             \/ q # <<>> /\ k = Tail(q) /\ o = {Head(q)}
    <2>1. f => q # <<>>
      BY <1>3, <1>4
    <2>2. QED
      BY <1>3, <2>1, TailFacts
  <1>6. IF f THEN k = Tail(q) /\ q # <<>> ELSE k = q
    BY <1>3, <1>4
  <1> HIDE DEF k, o
  <1>7. /\ Append(k, b) \in Seq(Nat) /\ Len(Append(k, b)) = Len(k) + 1
        /\ \A i, j \in DOMAIN Append(k, b) : Append(k, b)[i] = Append(k, b)[j] => i = j
        /\ Queued(Append(k, b)) = (Queued(q) \ o) \cup {b}
        /\ Len(k) \in Nat /\ (k = Tail(q) /\ q # <<>> => Len(k) = Len(q) - 1)
    <2>1. b \in Nat
      BY <1>2
    <2>2. QED
      BY <1>3, <1>4, <1>5, <2>1, QueuePut
  <1>8. Len(Append(k, b)) <= CacheSize
    BY <1>3, <1>4, <1>6, <1>7
  <1> HIDE DEF c, b, v
  <1>9. DOMAIN g = Queued(Append(k, b)) /\ g[b] = v /\ \A x \in DOMAIN g : x # b => x \in DOMAIN data[n][c] /\ g[x] = data[n][c][x]
    BY <1>3, <1>7
  <1> HIDE DEF g
  <1>10. /\ IsFun(order', Nodes) /\ IsFun(data', Nodes)
         /\ \A m \in Nodes : m # n => order'[m] = order[m] /\ data'[m] = data[m]
         /\ order'[n] = [order[n] EXCEPT ![c] = Append(k, b)]
         /\ data'[n] = [data[n] EXCEPT ![c] = g]
    BY <1>1, <1>2 DEF IsFun
  <1>11. /\ IsFun(order'[n], 0 .. width - 1) /\ IsFun(data'[n], 0 .. width - 1)
         /\ order'[n][c] = Append(k, b) /\ data'[n][c] = g
         /\ \A d \in 0 .. width - 1 : d # c => order'[n][d] = order[n][d] /\ data'[n][d] = data[n][d]
    <2>1. IsFun(order[n], 0 .. width - 1) /\ IsFun(data[n], 0 .. width - 1)
      BY <1>2 DEF HasRead
    <2>2. QED
      BY <1>2, <1>10, <2>1 DEF IsFun
  <1>12. OnlyAt(n)
    BY <1>1, <1>10 DEF OnlyAt
  <1>13. ReadTypes'
    BY <1>1 DEF Types, ReadTypes
  <1>14. mode[n] = "local_map" => Home(b) = n
    BY <1>2 DEF Mine, b, Block
  <1>15. PICK d0 \in 0 .. width - 1 : d0 = c
    BY <1>2
  <1>16. PICK b0 \in Nat : b0 = b
    BY <1>2
  <1>17. CacheOk(n, d0)'
    <2>1. BlockKey(d0, b0) \in DOMAIN store /\ store[BlockKey(d0, b0)] = v
      BY <1>1, <1>15, <1>16 DEF v
    <2>2. \A x \in DOMAIN g :
            /\ BlockKey(d0, x) \in DOMAIN store /\ g[x] = store[BlockKey(d0, x)]
            /\ mode[n] = "local_map" => Home(x) = n
      <3> SUFFICES ASSUME NEW x \in DOMAIN g
                   PROVE  /\ BlockKey(d0, x) \in DOMAIN store /\ g[x] = store[BlockKey(d0, x)]
                          /\ mode[n] = "local_map" => Home(x) = n
        OBVIOUS
      <3>1. CASE x = b
        BY <1>9, <1>14, <1>16, <2>1, <3>1
      <3>2. CASE x # b
        BY <1>3, <1>9, <1>15, <3>2 DEF CacheOk
      <3>3. QED
        BY <3>1, <3>2
    <2>3. order'[n][d0] = Append(k, b) /\ data'[n][d0] = g /\ store' = store /\ mode' = mode
      BY <1>1, <1>11, <1>15
    <2>4. \A s \in Seq(Nat) : \A h :
            /\ s = order'[n][d0] /\ h = data'[n][d0] /\ Len(s) <= CacheSize
            /\ \A i, j \in DOMAIN s : s[i] = s[j] => i = j
            /\ DOMAIN h = Queued(s)
            /\ \A x \in DOMAIN h : /\ BlockKey(d0, x) \in DOMAIN store /\ h[x] = store[BlockKey(d0, x)]
                                   /\ mode[n] = "local_map" => Home(x) = n
            => CacheOk(n, d0)'
      BY <2>3 DEF CacheOk, Queued, BlockKey, Home
    <2>5. QED
      BY <1>7, <1>8, <1>9, <2>2, <2>3, <2>4
  <1>18. \A d \in 0 .. width - 1 : d # d0 => CacheOk(n, d)'
    <2> SUFFICES ASSUME NEW d \in 0 .. width - 1, d # d0 PROVE CacheOk(n, d)'
      OBVIOUS
    <2>1. order'[n][d] = order[n][d] /\ data'[n][d] = data[n][d] /\ store' = store /\ mode' = mode
      BY <1>1, <1>11, <1>15
    <2>2. CacheOk(n, d)
      BY <1>2 DEF HasRead
    <2>3. QED
      BY <2>1, <2>2 DEF CacheOk, BlockKey, Queued, Home
  <1>19. HasRead(n)'
    <2>1. /\ building' = building /\ nrows' = nrows /\ width' = width /\ copy' = copy
          /\ cells' = cells /\ rowIdx' = rowIdx /\ visited' = visited /\ at' = at /\ mode' = mode
      BY <1>1 DEF buildVars
    <2>2. \A d \in 0 .. width' - 1 : CacheOk(n, d)'
      BY <1>17, <1>18, <2>1
    <2>3. QED
      BY <1>2, <1>11, <2>1, <2>2 DEF HasRead, Rows, Mine
  <1>20. QED
    BY <1>1, <1>12, <1>13, <1>19, ReaderStep

\* The cache of a column has blocks, which are sequences of elements.
LEMMA CachedBlock ==
  ASSUME IndInv, NEW n \in Nodes, at[n] # "wait", NEW c \in 0 .. width - 1,
         NEW b \in Nat, b \in DOMAIN data[n][c]
  PROVE  /\ data[n][c][b] \in Blocks /\ BlockKey(c, b) \in DOMAIN store
         /\ data[n][c][b] = store[BlockKey(c, b)]
  <1>1. Stores /\ CacheOk(n, c) /\ c \in Nat
    BY ReadingFacts DEF HasRead, IndInv
  <1>2. BlockKey(c, b) \in DOMAIN store /\ data[n][c][b] = store[BlockKey(c, b)]
    BY <1>1 DEF CacheOk
  <1>3. QED
    BY <1>1, <1>2, BlockStored

\* Caches that are not used stay as they are.
LEMMA CachesKept ==
  ASSUME NEW n \in Nodes, HasRead(n), UNCHANGED <<order, data, store, mode, width>>
  PROVE  \A c \in 0 .. width' - 1 : CacheOk(n, c)'
  <1>1. \A c : CacheOk(n, c) => CacheOk(n, c)'
    BY DEF CacheOk, BlockKey, Queued, Home
  <1>2. QED
    BY <1>1 DEF HasRead

\* An element is read, or is not there.
LEMMA ReadCellKeeps ==
  ASSUME IndInv, NEW n \in Nodes, ReadCell(n)
  PROVE  IndInv'
  <1> DEFINE c == Col(n)
             b == Block(n)
             block == data[n][c][b]
             i == IdxInChunk(rowIdx[n])
  <1>1. /\ Types /\ Visits(n) /\ c < copy[n].width /\ b \in DOMAIN data[n][c] /\ at[n] = "read"
        /\ UNCHANGED <<buildVars, net, store, mode, copy, rowIdx, order, data, visited>>
        /\ IF i < Len(block)
           THEN cells' = [cells EXCEPT ![n] = Append(@, block[i + 1])] /\ UNCHANGED at
           ELSE at' = [at EXCEPT ![n] = "exit"] /\ UNCHANGED cells
    BY DEF IndInv, ReadCell, Visits
  <1>2. /\ HasRead(n) /\ IsFun(order, Nodes) /\ IsFun(data, Nodes) /\ width \in Nat
        /\ c \in 0 .. width - 1 /\ b \in Nat /\ Mine(n, rowIdx[n]) /\ rowIdx[n] < nrows
        /\ rowIdx[n] \in Nat /\ nrows \in Nat /\ cells[n] \in Seq(Nat \X Nat)
    <2>1. /\ HasRead(n) /\ IsFun(order, Nodes) /\ IsFun(data, Nodes) /\ width \in Nat
          /\ rowIdx[n] \in Nat /\ nrows \in Nat /\ cells[n] \in Seq(Nat \X Nat)
          /\ Len(cells[n]) \in Nat /\ Chunk(rowIdx[n]) \in Nat /\ copy[n].width = width
      BY <1>1, ReadingFacts
    <2>2. Mine(n, rowIdx[n]) /\ rowIdx[n] < nrows
      BY <1>1, ReadingFacts
    <2>3. c \in 0 .. width - 1 /\ b \in Nat
      BY <1>1, <2>1 DEF Col, Block
    <2>4. QED
      BY <2>1, <2>2, <2>3
  <1>3. block \in Blocks
    BY <1>1, <1>2, CachedBlock
  <1>4. i \in Nat
    <2>1. \A x \in Nat : x % BlockSize \in Nat
      BY Facts
    <2>2. QED
      BY <1>2, <2>1 DEF IdxInChunk
  <1>5. Len(cells[n]) < width
    BY <1>2 DEF Col
  <1> HIDE DEF block, i, c, b
  <1>6. i < Len(block) => block[i + 1] \in Nat \X Nat
    <2>1. \A s \in Seq(Nat \X Nat) : i < Len(s) => s[i + 1] \in Nat \X Nat
      BY <1>4
    <2>2. QED
      BY <1>3, <2>1 DEF Blocks
  <1>7. /\ cells' \in [Nodes -> Seq(Nat \X Nat)] /\ Len(cells'[n]) <= width
        /\ \A m \in Nodes : m # n => cells'[m] = cells[m]
    <2>1. CASE i < Len(block)
      <3> DEFINE e == block[i + 1]
                 s == cells[n]
      <3>1. e \in Nat \X Nat /\ s \in Seq(Nat \X Nat) /\ cells' = [cells EXCEPT ![n] = Append(s, e)]
        BY <1>1, <1>2, <1>6, <2>1
      <3> HIDE DEF e
      <3>2. Append(s, e) \in Seq(Nat \X Nat) /\ Len(Append(s, e)) = Len(s) + 1 /\ Len(s) \in Nat
        BY <3>1
      <3>3. /\ cells'[n] = Append(s, e) /\ cells' \in [Nodes -> Seq(Nat \X Nat)]
            /\ \A m \in Nodes : m # n => cells'[m] = cells[m]
        BY <1>1, <3>1, <3>2 DEF Types
      <3>4. Len(cells'[n]) <= width
        BY <1>2, <1>5, <3>2, <3>3
      <3>5. QED
        BY <3>3, <3>4
    <2>2. CASE ~(i < Len(block))
      BY <1>1, <1>2, <1>5, <2>2 DEF Types, HasRead
    <2>3. QED
      BY <2>1, <2>2
  <1>8. /\ at' \in [Nodes -> {"wait", "read", "done", "exit"}]
        /\ at'[n] \in {"read", "exit"} /\ \A m \in Nodes : m # n => at'[m] = at[m]
    BY <1>1 DEF Types
  <1>9. OnlyAt(n)
    BY <1>1, <1>2, <1>7, <1>8 DEF OnlyAt, IsFun
  <1>10. ReadTypes'
    BY <1>1, <1>7, <1>8 DEF Types, ReadTypes
  <1>11. HasRead(n)'
    <2>1. /\ building' = building /\ nrows' = nrows /\ width' = width /\ copy' = copy
          /\ order' = order /\ data' = data /\ rowIdx' = rowIdx /\ visited' = visited /\ mode' = mode
          /\ store' = store
      BY <1>1 DEF buildVars
    <2>2. \A d \in 0 .. width' - 1 : CacheOk(n, d)'
      BY <1>2, <2>1, CachesKept
    <2>3. Mine(n, rowIdx[n])'
      BY <1>2, <2>1 DEF Mine
    <2>4. Rows(n)' = {r \in 0 .. nrows' - 1 : r < rowIdx'[n] /\ Mine(n, r)'}
      BY <1>2, <2>1 DEF HasRead, Rows, Mine
    <2>5. QED
      BY <1>2, <1>7, <1>8, <2>1, <2>2, <2>3, <2>4 DEF HasRead, IsFun
  <1>12. QED
    BY <1>8, <1>9, <1>10, <1>11, ReaderStep

\* The row after a row is in the same block, or the first of a block.
LEMMA NextRow ==
  ASSUME NEW r \in Nat
  PROVE  Chunk(r + 1) = Chunk(r) \/ (r + 1) % BlockSize = 0
  <1> DEFINE d == BlockSize
             q == r \div d
             i == r % d
  <1>1. d \in Nat \ {0}
    BY Facts
  <1> HIDE DEF d
  <1>2. q \in Nat /\ i \in 0 .. d - 1 /\ r = d * q + i
    BY <1>1, DivMod
  <1> HIDE DEF q, i
  <1>3. CASE i + 1 < d
    <2>1. i + 1 \in 0 .. d - 1
      BY <1>1, <1>2, <1>3
    <2>2. (d * q + (i + 1)) \div d = q
      BY <1>1, <1>2, <2>1, DivModUnique
    <2>3. r + 1 = d * q + (i + 1)
      BY <1>1, <1>2
    <2>4. QED
      BY <2>2, <2>3 DEF Chunk, q, d
  <1>4. CASE i + 1 = d
    <2>1. (d * (q + 1) + 0) % d = 0 /\ q + 1 \in Nat
      BY <1>1, <1>2, DivModUnique
    <2>2. d * (q + 1) + 0 = d * q + d
      BY <1>1, <1>2
    <2>3. r + 1 = d * (q + 1) + 0
      BY <1>1, <1>2, <1>4, <2>2
    <2>4. QED
      BY <2>1, <2>3 DEF d
  <1>5. QED
    BY <1>1, <1>2, <1>3, <1>4

\* The rows after the first one of a block, as many as it has, are in the block.
LEMMA RowsOfBlock ==
  ASSUME NEW r \in Nat, r % BlockSize = 0, NEW s \in Nat, r <= s, s < r + BlockSize
  PROVE  Chunk(s) = Chunk(r) /\ (r + BlockSize) % BlockSize = 0
  <1> DEFINE d == BlockSize
             q == r \div d
             i == s - r
  <1>1. d \in Nat \ {0}
    BY Facts
  <1> HIDE DEF d
  <1>2. q \in Nat /\ r = d * q
    <2>1. q \in Nat /\ r = d * q + (r % d)
      BY <1>1, DivMod
    <2>2. r % d = 0
      BY DEF d
    <2>3. d * q \in Nat
      BY <1>1, <2>1
    <2>4. QED
      BY <2>1, <2>2, <2>3
  <1>3. i \in 0 .. d - 1 /\ s = r + i
    BY <1>1 DEF d
  <1> HIDE DEF i
  <1>4. s \div d = q
    <2>1. (d * q + i) \div d = q
      BY <1>1, <1>2, <1>3, DivModUnique
    <2>2. QED
      BY <1>2, <1>3, <2>1
  <1>5. (r + d) % d = 0
    <2>1. (d * (q + 1) + 0) % d = 0
      BY <1>1, <1>2, DivModUnique
    <2>2. d * (q + 1) + 0 = d * q + d
      BY <1>1, <1>2
    <2>3. QED
      BY <1>2, <2>1, <2>2
  <1>6. QED
    BY <1>4, <1>5 DEF Chunk, q, d

\* A row is visited.
LEMMA VisitRowKeeps ==
  ASSUME IndInv, NEW n \in Nodes, VisitRow(n)
  PROVE  IndInv'
  <1> DEFINE r == rowIdx[n]
             e == [idx |-> r, row |-> cells[n]]
             s == visited[n]
  <1>1. /\ Types /\ Visits(n) /\ at[n] = "read"
        /\ visited' = [visited EXCEPT ![n] = Append(s, e)]
        /\ cells' = [cells EXCEPT ![n] = <<>>]
        /\ rowIdx' = [rowIdx EXCEPT ![n] = r + 1]
        /\ UNCHANGED <<buildVars, net, store, at, mode, copy, order, data>>
    BY DEF IndInv, VisitRow, Visits
  <1>2. /\ HasRead(n) /\ IsFun(order, Nodes) /\ IsFun(data, Nodes) /\ width \in Nat
        /\ Mine(n, r) /\ r < nrows /\ r \in Nat /\ nrows \in Nat /\ cells[n] \in Seq(Nat \X Nat)
    BY <1>1, ReadingFacts
  <1>3. s \in Seq([idx : Nat, row : Seq(Nat \X Nat)]) /\ e \in [idx : Nat, row : Seq(Nat \X Nat)]
    BY <1>1, <1>2 DEF Types
  <1>4. e.idx = r
    OBVIOUS
  <1> HIDE DEF r, e, s
  <1>5. /\ Append(s, e) \in Seq([idx : Nat, row : Seq(Nat \X Nat)])
        /\ DOMAIN Append(s, e) = DOMAIN s \cup {Len(s) + 1}
        /\ \A i \in DOMAIN s : Append(s, e)[i] = s[i]
        /\ Append(s, e)[Len(s) + 1] = e
    BY <1>3
  <1>6. /\ visited' \in [Nodes -> Seq([idx : Nat, row : Seq(Nat \X Nat)])]
        /\ cells' \in [Nodes -> Seq(Nat \X Nat)] /\ rowIdx' \in [Nodes -> Nat]
        /\ visited'[n] = Append(s, e) /\ cells'[n] = <<>> /\ rowIdx'[n] = r + 1
        /\ \A m \in Nodes : m # n =>
             visited'[m] = visited[m] /\ cells'[m] = cells[m] /\ rowIdx'[m] = rowIdx[m]
    <2>1. /\ visited' \in [Nodes -> Seq([idx : Nat, row : Seq(Nat \X Nat)])]
          /\ visited'[n] = Append(s, e)
          /\ \A m \in Nodes : m # n => visited'[m] = visited[m]
      BY <1>1, <1>5 DEF Types
    <2>2. /\ cells' \in [Nodes -> Seq(Nat \X Nat)] /\ cells'[n] = <<>>
          /\ \A m \in Nodes : m # n => cells'[m] = cells[m]
      <3>1. <<>> \in Seq(Nat \X Nat)
        OBVIOUS
      <3>2. QED
        BY <1>1, <3>1 DEF Types
    <2>3. /\ rowIdx' \in [Nodes -> Nat] /\ rowIdx'[n] = r + 1
          /\ \A m \in Nodes : m # n => rowIdx'[m] = rowIdx[m]
      BY <1>1, <1>2 DEF Types
    <2>4. QED
      BY <2>1, <2>2, <2>3
  <1>7. OnlyAt(n)
    BY <1>1, <1>2, <1>6 DEF OnlyAt, IsFun
  <1>8. ReadTypes'
    BY <1>1, <1>6 DEF Types, ReadTypes
  <1>9. HasRead(n)'
    <2>1. /\ building' = building /\ nrows' = nrows /\ width' = width /\ copy' = copy
          /\ order' = order /\ data' = data /\ mode' = mode /\ store' = store /\ at' = at
      BY <1>1 DEF buildVars
    <2>2. \A d \in 0 .. width' - 1 : CacheOk(n, d)'
      BY <1>2, <2>1, CachesKept
    <2>3. ~Mine(n, r + 1) => (r + 1) % BlockSize = 0
      BY <1>2, NextRow DEF Mine
    <2>4. Rows(n) = {x \in 0 .. nrows - 1 : x < r /\ Mine(n, x)}
      BY <1>2 DEF HasRead, r
    <2>5. Rows(n)' = Rows(n) \cup {r}
      <3>1. Rows(n) = {s[i].idx : i \in DOMAIN s}
        BY DEF Rows, s
      <3>2. Rows(n)' = {Append(s, e)[i].idx : i \in DOMAIN Append(s, e)}
        BY <1>6 DEF Rows
      <3>3. QED
        BY <1>4, <1>5, <3>1, <3>2
    <2>6. {x \in 0 .. nrows - 1 : x < r + 1 /\ Mine(n, x)}
            = {x \in 0 .. nrows - 1 : x < r /\ Mine(n, x)} \cup {r}
      BY <1>2
    <2>7. \A x : Mine(n, x)' <=> Mine(n, x)
      BY <2>1 DEF Mine, Home, Chunk
    <2>8. Rows(n)' = {x \in 0 .. nrows' - 1 : x < rowIdx'[n] /\ Mine(n, x)'}
      BY <1>6, <2>1, <2>4, <2>5, <2>6, <2>7
    <2>9. /\ ~Mine(n, rowIdx[n])' => rowIdx'[n] % BlockSize = 0
          /\ ~Mine(n, rowIdx[n])' => cells'[n] = <<>> \/ nrows' <= rowIdx'[n]
      BY <1>6, <2>1, <2>3 DEF Mine, Home, Chunk
    <2>10. Len(cells'[n]) <= width' /\ at'[n] # "done"
      BY <1>1, <1>2, <1>6, <2>1
    <2>11. QED
      BY <1>2, <2>1, <2>2, <2>8, <2>9, <2>10 DEF HasRead, IsFun
  <1>10. QED
    BY <1>1, <1>7, <1>8, <1>9, ReaderStep

\* The rows of a block of another node are passed by.
LEMMA SkipBlockKeeps ==
  ASSUME IndInv, NEW n \in Nodes, SkipBlock(n)
  PROVE  IndInv'
  <1> DEFINE r == rowIdx[n]
  <1>1. /\ Types /\ ~Visits(n) /\ at[n] = "read" /\ r < copy[n].nrows
        /\ rowIdx' = [rowIdx EXCEPT ![n] = r + (BlockSize - 1) + 1]
        /\ UNCHANGED <<buildVars, net, store, at, mode, copy, cells, order, data, visited>>
    BY DEF IndInv, SkipBlock
  <1>2. /\ HasRead(n) /\ IsFun(order, Nodes) /\ IsFun(data, Nodes) /\ width \in Nat
        /\ ~Mine(n, r) /\ r < nrows /\ r \in Nat /\ nrows \in Nat
    BY <1>1, ReadingFacts
  <1>3. r % BlockSize = 0 /\ cells[n] = <<>> /\ BlockSize \in Nat \ {0}
    BY <1>2, Facts DEF HasRead
  <1>4. Rows(n) = {x \in 0 .. nrows - 1 : x < r /\ Mine(n, x)}
    BY <1>2 DEF HasRead
  <1> HIDE DEF r
  <1>5. r + (BlockSize - 1) + 1 = r + BlockSize
    BY <1>2, <1>3
  <1>6. /\ rowIdx' \in [Nodes -> Nat] /\ rowIdx'[n] = r + BlockSize
        /\ \A m \in Nodes : m # n => rowIdx'[m] = rowIdx[m]
    BY <1>1, <1>2, <1>3, <1>5 DEF Types
  <1>7. OnlyAt(n)
    BY <1>1, <1>2, <1>6 DEF OnlyAt, IsFun
  <1>8. ReadTypes'
    BY <1>1, <1>6 DEF Types, ReadTypes
  <1>9. \A x \in Nat : r <= x /\ x < r + BlockSize => ~Mine(n, x)
    BY <1>2, <1>3, RowsOfBlock DEF Mine
  <1>10. (r + BlockSize) % BlockSize = 0
    BY <1>2, <1>3, RowsOfBlock
  <1>11. HasRead(n)'
    <2>1. /\ building' = building /\ nrows' = nrows /\ width' = width /\ copy' = copy
          /\ order' = order /\ data' = data /\ mode' = mode /\ store' = store /\ at' = at
          /\ cells' = cells /\ visited' = visited
      BY <1>1 DEF buildVars
    <2>2. \A d \in 0 .. width' - 1 : CacheOk(n, d)'
      BY <1>2, <2>1, CachesKept
    <2>3. Rows(n)' = Rows(n)
      BY <2>1 DEF Rows
    <2>4. {x \in 0 .. nrows - 1 : x < r + BlockSize /\ Mine(n, x)}
            = {x \in 0 .. nrows - 1 : x < r /\ Mine(n, x)}
      BY <1>2, <1>3, <1>9
    <2>5. \A x : Mine(n, x)' <=> Mine(n, x)
      BY <2>1 DEF Mine, Home, Chunk
    <2>6. Rows(n)' = {x \in 0 .. nrows' - 1 : x < rowIdx'[n] /\ Mine(n, x)'}
      BY <1>4, <1>6, <2>1, <2>3, <2>4, <2>5
    <2>7. rowIdx'[n] % BlockSize = 0 /\ cells'[n] = <<>> /\ at'[n] # "done"
      BY <1>1, <1>3, <1>6, <1>10, <2>1
    <2>8. Len(cells'[n]) <= width'
      BY <1>2, <1>3, <2>1
    <2>9. QED
      BY <1>2, <2>1, <2>2, <2>6, <2>7, <2>8 DEF HasRead, IsFun
  <1>12. QED
    BY <1>1, <1>7, <1>8, <1>11, ReaderStep

\* The loop is over.
LEMMA FinishKeeps ==
  ASSUME IndInv, NEW n \in Nodes, Finish(n)
  PROVE  IndInv'
  <1>1. /\ Types /\ at[n] = "read" /\ rowIdx[n] >= copy[n].nrows
        /\ at' = [at EXCEPT ![n] = "done"]
        /\ UNCHANGED <<buildVars, net, store, mode, copy, rowIdx, cells, order, data, visited>>
    BY DEF IndInv, Finish
  <1>2. /\ HasRead(n) /\ IsFun(order, Nodes) /\ IsFun(data, Nodes) /\ nrows <= rowIdx[n]
    BY <1>1, ReadingFacts
  <1>3. /\ at' \in [Nodes -> {"wait", "read", "done", "exit"}]
        /\ at'[n] = "done" /\ \A m \in Nodes : m # n => at'[m] = at[m]
    BY <1>1 DEF Types
  <1>4. OnlyAt(n)
    BY <1>1, <1>2, <1>3 DEF OnlyAt, IsFun
  <1>5. ReadTypes'
    BY <1>1, <1>3 DEF Types, ReadTypes
  <1>6. HasRead(n)'
    <2>1. /\ building' = building /\ nrows' = nrows /\ width' = width /\ copy' = copy
          /\ order' = order /\ data' = data /\ mode' = mode /\ store' = store
          /\ cells' = cells /\ visited' = visited /\ rowIdx' = rowIdx
      BY <1>1 DEF buildVars
    <2>2. \A d \in 0 .. width' - 1 : CacheOk(n, d)'
      BY <1>2, <2>1, CachesKept
    <2>3. QED
      BY <1>2, <2>1, <2>2 DEF HasRead, IsFun, Rows, Mine
  <1>7. QED
    BY <1>3, <1>4, <1>5, <1>6, ReaderStep

-----------------------------------------------------------------------------
(* The theorems that hold for any script *)

\* The program starts in it.
LEMMA InitHas ==
  ASSUME Init
  PROVE  IndInv
  <1>1. script \in Seq(Operation) /\ script # <<>>
    BY DataFrameAssumption DEF Init
  <1>2. /\ width \in Nat /\ (script[1].op = "visit" => 0 < width)
        /\ columns = [i \in 1 .. width |-> [size |-> 0, blocks |-> 0]]
    BY Facts DEF Init
  <1>3. columns \in Seq([size : Nat, blocks : Nat]) /\ Len(columns) = width
    BY <1>2
  <1>4. Head(script) = script[1]
    BY <1>1, TailFacts
  <1>5. net = [n \in Nodes |-> <<>>] /\ store = <<>> /\ DOMAIN store = {}
    BY DEF Init
  <1>6. /\ order = [n \in Nodes |-> <<>>] /\ data = [n \in Nodes |-> <<>>]
        /\ cells = [n \in Nodes |-> <<>>] /\ visited = [n \in Nodes |-> <<>>]
        /\ at = [n \in Nodes |-> "wait"] /\ rowIdx = [n \in Nodes |-> 0]
        /\ copy = [n \in Nodes |-> [nrows |-> 0, width |-> 0]] /\ mode \in [Nodes -> Modes]
    BY DEF Init
  <1>7. /\ nrows = 0 /\ left = 0 /\ building = "op"
        /\ adding = [col |-> 0, len |-> 0, added |-> 0, before |-> 0]
    BY DEF Init
  <1>8. Types
    <2>1. \A X : <<>> \in Seq(X)
      OBVIOUS
    <2>2. net \in [Nodes -> Seq(Keys \X Values)] /\ cells \in [Nodes -> Seq(Nat \X Nat)]
      BY <1>5, <1>6, <2>1
    <2>3. visited \in [Nodes -> Seq([idx : Nat, row : Seq(Nat \X Nat)])]
      BY <1>6, <2>1
    <2>4. /\ copy \in [Nodes -> [nrows : Nat, width : Nat]] /\ rowIdx \in [Nodes -> Nat]
          /\ at \in [Nodes -> {"wait", "read", "done", "exit"}]
      BY <1>6
    <2>5. adding \in [col : Nat, len : Nat, added : Nat, before : Nat] /\ nrows \in Nat /\ left \in Nat
      BY <1>7
    <2>6. QED
      BY <1>1, <1>2, <1>3, <1>6, <1>7, <2>2, <2>3, <2>4, <2>5 DEF Types
  <1>9. Building
    BY <1>1, <1>2, <1>3, <1>4, <1>7 DEF Building, NewCol
  <1>10. Stores
    <2>1. \A n \in Nodes : DOMAIN net[n] = {}
      BY <1>5
    <2>2. QED
      BY <1>5, <2>1 DEF Stores
  <1>11. Readers
    BY <1>6 DEF Readers, Waits, IsFun
  <1>12. QED
    BY <1>8, <1>9, <1>10, <1>11 DEF IndInv

\* A step that changes nothing keeps it.
LEMMA StutterKeeps ==
  ASSUME IndInv, UNCHANGED vars
  PROVE  IndInv'
  <1>1. /\ Types /\ Building /\ Stores /\ Readers
        /\ UNCHANGED <<script, columns, nrows, width, left, adding, building, net, store, at, mode,
                       copy, rowIdx, cells, order, data, visited>>
    BY DEF IndInv, vars, buildVars, readVars
  <1>2. Types' /\ Building'
    BY <1>1 DEF Types, Building, NewCol
  <1>3. Stores'
    <2>1. \A x \in Keys : \A y : KeyOk(x, y) => KeyOk(x, y)'
      BY <1>1 DEF KeyOk, DfKey
    <2>2. QED
      BY <1>1, <2>1, StoresKept
  <1>4. Readers'
    BY <1>1, StoreGrows DEF buildVars, readVars
  <1>5. QED
    BY <1>2, <1>3, <1>4 DEF IndInv

\* Every step of the builder keeps it.
LEMMA BuildStepKeeps ==
  ASSUME IndInv, Build
  PROVE  IndInv'
  <1>1. CASE NewColumn
    BY <1>1, NewColumnKeeps
  <1>2. CASE Visit
    BY <1>2, VisitKeeps
  <1>3. CASE NextChunk
    BY <1>3, NextChunkKeeps
  <1>4. CASE VisitDone
    BY <1>4, VisitDoneKeeps
  <1>5. CASE AddBlock
    BY <1>5, AddBlockKeeps
  <1>6. CASE ChunkColumnFilled
    BY <1>6, ChunkColumnFilledKeeps
  <1>7. CASE ArrayFilled
    BY <1>7, ArrayFilledKeeps
  <1>8. CASE ColumnFilled
    BY <1>8, ColumnFilledKeeps
  <1>9. CASE Publish
    BY <1>9, PublishKeeps
  <1>10. QED
    BY <1>1, <1>2, <1>3, <1>4, <1>5, <1>6, <1>7, <1>8, <1>9 DEF Build

\* Every step of a reader keeps it.
LEMMA ReadStepKeeps ==
  ASSUME IndInv, NEW n \in Nodes, Reads(n)
  PROVE  IndInv'
  <1>1. CASE Open(n)
    BY <1>1, OpenKeeps
  <1>2. CASE Fetch(n)
    BY <1>2, FetchKeeps
  <1>3. CASE ReadCell(n)
    BY <1>3, ReadCellKeeps
  <1>4. CASE VisitRow(n)
    BY <1>4, VisitRowKeeps
  <1>5. CASE SkipBlock(n)
    BY <1>5, SkipBlockKeeps
  <1>6. CASE Finish(n)
    BY <1>6, FinishKeeps
  <1>7. QED
    BY <1>1, <1>2, <1>3, <1>4, <1>5, <1>6 DEF Reads

\* Every step keeps it.
LEMMA NextKeeps ==
  ASSUME IndInv, [Next]_vars
  PROVE  IndInv'
  <1>1. CASE Build
    BY <1>1, BuildStepKeeps
  <1>2. ASSUME NEW n \in Nodes, Deliver(n) PROVE IndInv'
    BY <1>2, DeliverKeeps
  <1>3. ASSUME NEW n \in Nodes, Reads(n) PROVE IndInv'
    BY <1>3, ReadStepKeeps
  <1>4. CASE UNCHANGED vars
    BY <1>4, StutterKeeps
  <1>5. QED
    BY <1>1, <1>2, <1>3, <1>4 DEF Next

\* At every time each key was put at most once and only at the node of its key, the builder
\* numbers the blocks of a column without gaps, and every reader is at a row of the table that
\* was published and has visited all its rows before that one (dataframe.h, column.h add_all,
\* cache.h).
THEOREM Inductive == Spec => []IndInv
  <1>1. Init => IndInv
    BY InitHas
  <1>2. IndInv /\ [Next]_vars => IndInv'
    BY NextKeeps
  <1>3. QED
    BY <1>1, <1>2, PTL DEF Spec

\* A cache never has more blocks than it may, its queue has each of their keys once, and the
\* blocks are those of the stores (cache.h put).
THEOREM CachesAreSound == Spec => []CacheSound
  <1>1. IndInv => CacheSound
    <2> SUFFICES ASSUME IndInv, NEW n \in Nodes, NEW c \in DOMAIN data[n]
                 PROVE  LET keys == Queued(order[n][c]) IN
                          /\ DOMAIN data[n][c] = keys
                          /\ Len(order[n][c]) = Cardinality(keys)
                          /\ Cardinality(keys) <= CacheSize
                          /\ \A b \in keys : data[n][c][b] = store[BlockKey(c, b)]
      BY DEF CacheSound, Queued
    <2>1. CASE at[n] = "wait"
      <3>1. data[n] = <<>>
        BY <2>1 DEF IndInv, Readers, Waits
      <3>2. QED
        BY <3>1
    <2>2. CASE at[n] # "wait"
      <3>1. CacheOk(n, c)
        <4>1. HasRead(n)
          BY <2>2, ReadingFacts
        <4>2. DOMAIN data[n] = 0 .. width - 1
          BY <4>1 DEF HasRead, IsFun
        <4>3. QED
          BY <4>1, <4>2 DEF HasRead
      <3>2. Len(order[n][c]) = Cardinality(Queued(order[n][c]))
        BY <3>1, QueueLength DEF CacheOk
      <3>3. QED
        BY <3>1, <3>2 DEF CacheOk
    <2>3. QED
      BY <2>1, <2>2
  <1>2. QED
    BY <1>1, Inductive, PTL

\* The caches of a node that calls local_map have only blocks that are homed at it, and that
\* its own store has (dataframe.h local_map, column.h genKey_).
THEOREM LocalMapIsLocal == Spec => []LocalMapStaysLocal
  <1>1. IndInv => LocalMapStaysLocal
    <2> SUFFICES ASSUME IndInv, NEW n \in Nodes, mode[n] = "local_map",
                        NEW c \in DOMAIN data[n], NEW b \in DOMAIN data[n][c]
                 PROVE  Home(b) = n /\ BlockKey(c, b) \in DOMAIN store
      BY DEF LocalMapStaysLocal
    <2>1. CASE at[n] = "wait"
      BY <2>1 DEF IndInv, Readers, Waits
    <2>2. CASE at[n] # "wait"
      <3>1. HasRead(n)
        BY <2>2, ReadingFacts
      <3>2. DOMAIN data[n] = 0 .. width - 1
        BY <3>1 DEF HasRead, IsFun
      <3>3. QED
        BY <3>1, <3>2 DEF HasRead, CacheOk
    <2>3. QED
      BY <2>1, <2>2
  <1>2. QED
    BY <1>1, Inductive, PTL

\* The rows a node has visited are below the row it is at and its own.
LEMMA RowsVisited ==
  ASSUME IndInv, NEW n \in Nodes
  PROVE  /\ Rows(n) \subseteq Nat /\ \A r \in Rows(n) : Mine(n, r)
         /\ at[n] = "done" => Rows(n) = {r \in 0 .. nrows - 1 : Mine(n, r)}
  <1>1. CASE at[n] = "wait"
    <2>1. visited[n] = <<>>
      BY <1>1 DEF IndInv, Readers, Waits
    <2>2. Rows(n) = {}
      BY <2>1 DEF Rows
    <2>3. QED
      BY <1>1, <2>2
  <1>2. CASE at[n] # "wait"
    <2>1. /\ Rows(n) = {r \in 0 .. nrows - 1 : r < rowIdx[n] /\ Mine(n, r)}
          /\ at[n] = "done" => nrows <= rowIdx[n]
          /\ nrows \in Nat /\ rowIdx[n] \in Nat
      BY <1>2, ReadingFacts DEF HasRead
    <2>2. at[n] = "done" => \A r \in 0 .. nrows - 1 : r < rowIdx[n]
      BY <2>1
    <2>3. QED
      BY <2>1, <2>2
  <1>3. QED
    BY <1>1, <1>2

\* No row is visited at two nodes that call local_map, and together they visit every row; a
\* map visits all rows (dataframe.h map, local_map).
THEOREM RowsAreShared == Spec => []EachRowOnce
  <1>1. IndInv => EachRowOnce
    <2> SUFFICES ASSUME IndInv PROVE EachRowOnce
      OBVIOUS
    <2>1. ASSUME NEW n \in Nodes, NEW m \in Nodes, n # m, mode[n] = "local_map", mode[m] = "local_map"
          PROVE  Rows(n) \cap Rows(m) = {}
      BY <2>1, RowsVisited DEF Mine
    <2>2. ASSUME NEW n \in Nodes, at[n] = "done", mode[n] = "map"
          PROVE  Rows(n) = 0 .. copy[n].nrows - 1
      <3>1. copy[n].nrows = nrows
        BY <2>2, ReadingFacts
      <3>2. Rows(n) = {r \in 0 .. nrows - 1 : Mine(n, r)}
        BY <2>2, RowsVisited
      <3>3. QED
        BY <2>2, <3>1, <3>2 DEF Mine
    <2>3. ASSUME \A n \in Nodes : at[n] = "done" /\ mode[n] = "local_map"
          PROVE  UNION {Rows(n) : n \in Nodes} = 0 .. nrows - 1
      <3>1. \A n \in Nodes : Rows(n) = {r \in 0 .. nrows - 1 : Home(Chunk(r)) = n}
        BY <2>3, RowsVisited DEF Mine
      <3>2. \A r \in 0 .. nrows - 1 : Home(Chunk(r)) \in Nodes
        <4> SUFFICES ASSUME NEW r \in 0 .. nrows - 1 PROVE Home(Chunk(r)) \in Nodes
          OBVIOUS
        <4>1. r \in Nat
          BY DEF IndInv, Types
        <4>2. Chunk(r) \in Nat
          BY <4>1, Facts, DivMod DEF Chunk
        <4>3. QED
          BY <4>2, HomeNode
      <3>3. QED
        BY <3>1, <3>2
    <2>4. QED
      BY <2>1, <2>2, <2>3 DEF EachRowOnce
  <1>2. QED
    BY <1>1, Inductive, PTL

-----------------------------------------------------------------------------
(* What the blocks have in them *)

\* Values that were put stay right.
ValuesStay == \A k \in Keys : \A v : KeyOk(k, v) /\ ValueOk(k, v) => ValueOk(k, v)'

\* So they do if no column loses or gains an element that is in a block.
LEMMA TotalsKept ==
  ASSUME \A c \in Nat : c < Len(columns) => Total(c)' = Total(c)
  PROVE  ValuesStay
  <1> SUFFICES ASSUME NEW k \in Keys, NEW v, KeyOk(k, v), ValueOk(k, v), k # DfKey
               PROVE  ValueOk(k, v)'
    BY DEF ValuesStay, ValueOk, DfKey
  <1>1. k[1] \in Nat /\ k[1] < Len(columns) /\ v = BlockOf(k[1], k[2])
    BY KeyFacts DEF KeyOk, ValueOk
  <1>2. Total(k[1])' = Total(k[1])
    BY <1>1
  <1>3. BlockOf(k[1], k[2])' = BlockOf(k[1], k[2])
    BY <1>2 DEF BlockOf, Min2
  <1>4. QED
    BY <1>1, <1>3 DEF ValueOk

\* The stores keep what they have.
LEMMA StoredStay ==
  ASSUME Stores, Contents, ValuesStay, NEW k \in DOMAIN store, NEW v, v = store[k]
  PROVE  ValueOk(k, v)'
  <1>1. k \in Keys /\ KeyOk(k, v) /\ ValueOk(k, v)
    BY DEF Stores, Contents
  <1>2. QED
    BY <1>1 DEF ValuesStay

\* So do the messages.
LEMMA SentStay ==
  ASSUME Types, Stores, Contents, ValuesStay, NEW n \in Nodes, NEW i \in DOMAIN net[n],
         NEW k, NEW v, k = net[n][i][1], v = net[n][i][2]
  PROVE  ValueOk(k, v)'
  <1>1. k \in Keys
    BY NetFacts
  <1>2. KeyOk(k, v)
    BY DEF Stores
  <1>3. ValueOk(k, v)
    BY DEF Contents
  <1>4. QED
    BY <1>1, <1>2, <1>3 DEF ValuesStay

\* Nothing is put.
LEMMA ContentsKept ==
  ASSUME Types, Stores, Contents, ValuesStay, UNCHANGED <<net, store>>
  PROVE  Contents'
  <1>1. ASSUME NEW k \in DOMAIN store PROVE ValueOk(k, store[k])'
    <2>1. PICK v : v = store[k]
      OBVIOUS
    <2>2. \A y : y = store'[k] /\ ValueOk(k, y)' => ValueOk(k, store[k])'
      BY DEF ValueOk
    <2>3. QED
      BY <2>1, <2>2, StoredStay
  <1>2. ASSUME NEW n \in Nodes, NEW i \in DOMAIN net[n] PROVE ValueOk(net[n][i][1], net[n][i][2])'
    <2>1. PICK k, v : k = net[n][i][1] /\ v = net[n][i][2]
      OBVIOUS
    <2>2. \A x, y : x = net'[n][i][1] /\ y = net'[n][i][2] /\ ValueOk(x, y)'
                      => ValueOk(net[n][i][1], net[n][i][2])'
      BY DEF ValueOk
    <2>3. ValueOk(k, v)'
      BY <2>1, SentStay
    <2>4. QED
      BY <2>1, <2>2, <2>3
  <1>3. QED
    BY <1>1, <1>2 DEF Contents

\* A value is put that is right.
LEMMA ContentsPut ==
  ASSUME Types, Stores, Contents, ValuesStay, NEW k, NEW v, NEW home \in Nodes, Put(k, v, home),
         \A w : ~KeyOk(k, w), ValueOk(k, v)'
  PROVE  Contents'
  <1>1. k \notin DOMAIN store
    BY DEF Stores
  <1>2. CASE home = Builder
    <2>1. /\ net' = net /\ DOMAIN store' = DOMAIN store \cup {k} /\ store'[k] = v
          /\ \A x \in DOMAIN store : store'[x] = store[x]
      BY <1>1, <1>2 DEF Put, Stored
    <2>2. ASSUME NEW x \in DOMAIN store' PROVE ValueOk(x, store[x])'
      <3>1. \A y : y = store'[x] /\ ValueOk(x, y)' => ValueOk(x, store[x])'
        BY DEF ValueOk
      <3>2. CASE x = k
        BY <2>1, <3>1, <3>2
      <3>3. CASE x \in DOMAIN store
        <4>1. PICK w : w = store[x]
          OBVIOUS
        <4>2. ValueOk(x, w)'
          BY <3>3, <4>1, StoredStay
        <4>3. QED
          BY <2>1, <3>1, <3>3, <4>1, <4>2
      <3>4. QED
        BY <2>1, <3>2, <3>3
    <2>3. ASSUME NEW n \in Nodes, NEW i \in DOMAIN net'[n] PROVE ValueOk(net[n][i][1], net[n][i][2])'
      <3>1. PICK x, y : x = net[n][i][1] /\ y = net[n][i][2]
        OBVIOUS
      <3>2. \A a, b : a = net'[n][i][1] /\ b = net'[n][i][2] /\ ValueOk(a, b)'
                        => ValueOk(net[n][i][1], net[n][i][2])'
        BY DEF ValueOk
      <3>3. ValueOk(x, y)'
        BY <2>1, <3>1, SentStay
      <3>4. QED
        BY <2>1, <3>1, <3>2, <3>3
    <2>4. QED
      BY <2>2, <2>3 DEF Contents
  <1>3. CASE home # Builder
    <2> DEFINE e == <<k, v>>
               s == net[home]
    <2>1. net' = [net EXCEPT ![home] = Append(s, e)] /\ store' = store
      BY <1>3 DEF Put
    <2>2. s \in Seq(Keys \X Values) /\ e[1] = k /\ e[2] = v
      BY NetFacts
    <2> HIDE DEF e, s
    <2>3. /\ DOMAIN Append(s, e) = 1 .. Len(s) + 1 /\ Append(s, e)[Len(s) + 1] = e
          /\ \A i \in 1 .. Len(s) : Append(s, e)[i] = s[i]
          /\ DOMAIN s = 1 .. Len(s) /\ Len(s) \in Nat
      BY <2>2
    <2>4. /\ net'[home] = Append(s, e) /\ \A n \in Nodes : n # home => net'[n] = net[n]
      BY <2>1 DEF Types
    <2>5. ASSUME NEW x \in DOMAIN store' PROVE ValueOk(x, store[x])'
      <3>1. \A y : y = store'[x] /\ ValueOk(x, y)' => ValueOk(x, store[x])'
        BY DEF ValueOk
      <3>2. PICK w : w = store[x]
        OBVIOUS
      <3>3. ValueOk(x, w)'
        BY <2>1, <3>2, StoredStay
      <3>4. QED
        BY <2>1, <3>1, <3>2, <3>3
    <2>6. ASSUME NEW n \in Nodes, NEW i \in DOMAIN net'[n] PROVE ValueOk(net[n][i][1], net[n][i][2])'
      <3>1. \A a, b : a = net'[n][i][1] /\ b = net'[n][i][2] /\ ValueOk(a, b)'
                        => ValueOk(net[n][i][1], net[n][i][2])'
        BY DEF ValueOk
      <3>2. CASE i \in DOMAIN net[n] /\ net'[n][i] = net[n][i]
        <4>1. PICK x, y : x = net[n][i][1] /\ y = net[n][i][2]
          OBVIOUS
        <4>2. ValueOk(x, y)'
          BY <3>2, <4>1, SentStay
        <4>3. QED
          BY <3>1, <3>2, <4>1, <4>2
      <3>3. CASE net'[n][i] = e
        BY <2>2, <3>1, <3>3
      <3>4. (i \in DOMAIN net[n] /\ net'[n][i] = net[n][i]) \/ net'[n][i] = e
        <4>1. CASE n # home
          BY <2>4, <4>1
        <4>2. CASE n = home
          <5>1. i = Len(s) + 1 \/ i \in 1 .. Len(s)
            BY <2>3, <2>4, <4>2
          <5>2. QED
            BY <2>3, <2>4, <4>2, <5>1 DEF s
        <4>3. QED
          BY <4>1, <4>2
      <3>5. QED
        BY <3>2, <3>3, <3>4
    <2>7. QED
      BY <2>5, <2>6 DEF Contents
  <1>4. QED
    BY <1>2, <1>3

\* A put arrives.
LEMMA ContentsDelivered ==
  ASSUME Types, Stores, Contents, ValuesStay, NEW n \in Nodes, Deliver(n)
  PROVE  Contents'
  <1> DEFINE q == net[n]
  <1>1. q # <<>> /\ net' = [net EXCEPT ![n] = Tail(q)]
    BY DEF Deliver
  <1>2. q \in Seq(Keys \X Values)
    BY NetFacts
  <1> HIDE DEF q
  <1>3. /\ DOMAIN Tail(q) = 1 .. Len(q) - 1 /\ \A i \in 1 .. Len(q) - 1 : Tail(q)[i] = q[i + 1]
        /\ Len(q) \in Nat \ {0} /\ DOMAIN q = 1 .. Len(q)
    BY <1>1, <1>2, TailFacts
  <1>4. PICK k, v : k = q[1][1] /\ v = q[1][2]
    OBVIOUS
  <1>5. ValueOk(k, v)'
    <2>1. 1 \in DOMAIN net[n]
      BY <1>3 DEF q
    <2>2. QED
      BY <1>4, <2>1, SentStay DEF q
  <1>6. /\ DOMAIN store' = DOMAIN store \cup {k} /\ store'[k] = v
        /\ \A x \in DOMAIN store : x # k => store'[x] = store[x]
    BY <1>4 DEF Deliver, Stored, q
  <1>7. ASSUME NEW x \in DOMAIN store' PROVE ValueOk(x, store[x])'
    <2>1. \A y : y = store'[x] /\ ValueOk(x, y)' => ValueOk(x, store[x])'
      BY DEF ValueOk
    <2>2. CASE x = k
      BY <1>5, <1>6, <2>1, <2>2
    <2>3. CASE x \in DOMAIN store /\ x # k
      <3>1. PICK w : w = store[x]
        OBVIOUS
      <3>2. ValueOk(x, w)'
        BY <2>3, <3>1, StoredStay
      <3>3. QED
        BY <1>6, <2>1, <2>3, <3>1, <3>2
    <2>4. QED
      BY <1>6, <2>2, <2>3
  <1>8. ASSUME NEW m \in Nodes, NEW i \in DOMAIN net'[m] PROVE ValueOk(net[m][i][1], net[m][i][2])'
    <2>1. PICK j \in DOMAIN net[m] : net'[m][i] = net[m][j]
      <3>1. CASE m = n
        <4>1. net'[m] = Tail(q)
          BY <1>1, <3>1 DEF Types
        <4>2. i \in 1 .. Len(q) - 1 /\ i + 1 \in 1 .. Len(q) /\ net'[m][i] = q[i + 1]
          BY <1>3, <4>1
        <4>3. QED
          BY <1>3, <3>1, <4>2 DEF q
      <3>2. CASE m # n
        BY <1>1, <3>2 DEF Types
      <3>3. QED
        BY <3>1, <3>2
    <2>2. PICK x, y : x = net[m][j][1] /\ y = net[m][j][2]
      OBVIOUS
    <2>3. ValueOk(x, y)'
      BY <2>2, SentStay
    <2>4. \A a, b : a = net'[m][i][1] /\ b = net'[m][i][2] /\ ValueOk(a, b)'
                      => ValueOk(net[m][i][1], net[m][i][2])'
      BY DEF ValueOk
    <2>5. QED
      BY <2>1, <2>2, <2>3, <2>4
  <1>9. QED
    BY <1>7, <1>8 DEF Contents

-----------------------------------------------------------------------------
(* The steps of the builder fill the columns *)

\* A column that is appended is empty.
LEMMA NewColumnFills ==
  ASSUME IndInv, Filling, Contents, NewColumn
  PROVE  Filling' /\ Contents'
  <1> DEFINE e == [size |-> 0, blocks |-> 0]
  <1>1. /\ Types /\ Building /\ Stores /\ building = "op" /\ script # <<>> /\ Head(script).op # "visit"
        /\ building' = "add" /\ script' = script /\ nrows' = nrows /\ width' = width
        /\ UNCHANGED <<net, store>>
    BY DEF IndInv, NewColumn, Building, AddAll
  <1>2. columns \in Seq(Column) /\ Len(columns) \in Nat /\ e \in Column /\ columns' = Append(columns, e)
        /\ DOMAIN columns = 1 .. Len(columns)
    BY <1>1, ColumnFacts DEF NewColumn, Column
  <1>3. e.size = 0 /\ e.blocks = 0
    OBVIOUS
  <1> HIDE DEF e
  <1>4. /\ columns' \in Seq(Column) /\ Len(columns') = Len(columns) + 1
        /\ columns'[Len(columns) + 1] = e
        /\ \A i \in 1 .. Len(columns) : columns'[i] = columns[i]
    BY <1>2, ColumnAppended
  <1>5. adding'.col = Len(columns) /\ adding'.added = 0 /\ adding'.before = 0
    BY <1>3, <1>4 DEF NewColumn, AddAll
  <1>6. Even /\ NewCol' /\ Head(script') = Head(script)
    BY <1>1 DEF Filling, NewCol
  <1>7. BlockSize * 0 = 0
    BY Facts
  <1>8. Filling'
    <2>1. \A i \in 2 .. Len(script') : script'[i].op = "column"
      BY <1>1 DEF Filling
    <2>2. \A i \in 1 .. Len(columns') - 1 : columns'[i].size = nrows'
      BY <1>1, <1>2, <1>4, <1>6 DEF Even
    <2>3. BlockSize * adding'.before = columns'[adding'.col + 1].size /\ columns'[Len(columns')].size = 0
      BY <1>3, <1>4, <1>5, <1>7
    <2>4. Head(script').op = "array" => width' = 0 /\ nrows' = 0
      BY <1>1 DEF Filling
    <2>5. QED
      BY <1>1, <1>6, <2>1, <2>2, <2>3, <2>4 DEF Filling
  <1>9. Contents'
    <2>1. ASSUME NEW c \in Nat, c < Len(columns) PROVE Total(c)' = Total(c)
      <3>1. columns'[c + 1] = columns[c + 1]
        BY <1>2, <1>4, <2>1
      <3>2. QED
        BY <1>1, <1>5, <2>1, <3>1 DEF Total
    <2>2. QED
      BY <1>1, <2>1, TotalsKept, ContentsKept DEF IndInv
  <1>10. QED
    BY <1>8, <1>9

\* Outside of add_all the elements in blocks are the sizes of the columns.
LEMMA TotalsOutside ==
  ASSUME Types, Stores, Contents, building # "add", building' # "add", UNCHANGED <<columns, net, store>>
  PROVE  Contents'
  <1>1. \A c \in Nat : c < Len(columns) => Total(c)' = Total(c)
    BY DEF Total
  <1>2. QED
    BY <1>1, TotalsKept, ContentsKept

\* A dataframe that a Writer fills is empty before.
LEMMA VisitFills ==
  ASSUME IndInv, Filling, Contents, Visit
  PROVE  Filling' /\ Contents'
  <1>1. /\ Types /\ Stores /\ building = "op" /\ Head(script).op = "visit"
        /\ building' = "chunk" /\ UNCHANGED <<script, columns, nrows, width, adding, net, store>>
    BY DEF IndInv, Visit
  <1>2. Even /\ Full
    BY <1>1 DEF Filling
  <1>3. Even' /\ Full'
    BY <1>1, <1>2 DEF Even, Full
  <1>4. \A i \in 2 .. Len(script') : script'[i].op = "column"
    BY <1>1 DEF Filling
  <1>5. Filling'
    BY <1>1, <1>3, <1>4 DEF Filling, NewCol
  <1>6. QED
    BY <1>1, <1>5, TotalsOutside

\* The blocks of all columns are full when a chunk is added.
LEMMA NextChunkFills ==
  ASSUME IndInv, Filling, Contents, NextChunk
  PROVE  Filling' /\ Contents'
  <1>1. /\ Types /\ Building /\ Stores /\ building = "chunk" /\ 0 < left /\ left \in Nat
        /\ Head(script).op = "visit"
        /\ building' = "add" /\ UNCHANGED <<script, columns, nrows, width, left, net, store>>
        /\ adding' = [col |-> 0, len |-> Min2(left, BlockSize), added |-> 0, before |-> columns[1].blocks]
    <2>1. Types /\ Building /\ Stores /\ building = "chunk" /\ Head(script).op = "visit"
      BY DEF IndInv, NextChunk, Building
    <2>2. left \in Nat /\ 0 < left
      BY <2>1 DEF NextChunk, Types
    <2>3. AddAll(0, Min2(left, BlockSize), columns)
      BY DEF NextChunk
    <2>4. 0 + 1 = 1
      OBVIOUS
    <2>5. /\ building' = "add"
          /\ adding' = [col |-> 0, len |-> Min2(left, BlockSize), added |-> 0, before |-> columns[1].blocks]
      BY <2>3, <2>4 DEF AddAll
    <2>6. QED
      BY <2>1, <2>2, <2>5 DEF NextChunk
  <1>2. /\ Even /\ Full /\ 0 < width /\ width = Len(columns) /\ Len(columns) \in Nat
        /\ DOMAIN columns = 1 .. Len(columns)
    BY <1>1, ColumnFacts DEF Filling, Building, NewCol
  <1>3. /\ adding'.col = 0 /\ adding'.len = Min2(left, BlockSize) /\ adding'.added = 0
        /\ adding'.before = columns[1].blocks /\ ~NewCol'
    BY <1>1 DEF NewCol
  <1>4. 0 < Min2(left, BlockSize)
    BY <1>1, Facts DEF Min2
  <1>5. \A i \in 1 .. Len(columns) : columns[i].size = nrows /\ BlockSize * columns[i].blocks = nrows
    BY <1>2 DEF Even, Full
  <1>6. ChunkAdded'
    <2>1. \A i \in 1 .. Len(columns) : ~(i <= 0) /\ nrows + 0 = nrows
      BY <1>1 DEF Types
    <2>2. \A i \in DOMAIN columns' :
            /\ columns'[i].size = nrows' + (IF i <= adding'.col THEN adding'.len ELSE 0)
            /\ IF i <= adding'.col \/ (i = adding'.col + 1 /\ 0 < adding'.added)
               THEN adding'.len < left' => BlockSize * columns'[i].blocks = nrows' + adding'.len
               ELSE BlockSize * columns'[i].blocks = nrows'
      BY <1>1, <1>2, <1>3, <1>5, <2>1
    <2>3. 0 < adding'.len /\ adding'.len = Min2(left', BlockSize) /\ adding'.added \in {0, adding'.len}
      BY <1>1, <1>3, <1>4
    <2>4. QED
      BY <2>2, <2>3 DEF ChunkAdded, Min2
  <1>7. Filling'
    <2>1. \A i \in 2 .. Len(script') : script'[i].op = "column"
      BY <1>1 DEF Filling
    <2>2. BlockSize * adding'.before = columns'[adding'.col + 1].size
      BY <1>1, <1>2, <1>3, <1>5
    <2>3. QED
      BY <1>1, <1>3, <1>6, <2>1, <2>2 DEF Filling
  <1>8. Contents'
    <2>1. ASSUME NEW c \in Nat, c < Len(columns) PROVE Total(c)' = Total(c)
      BY <1>1, <1>3 DEF Total
    <2>2. QED
      BY <1>1, <2>1, TotalsKept, ContentsKept
  <1>9. QED
    BY <1>7, <1>8

\* The next operation adds a column.
LEMMA ScriptAfter ==
  ASSUME Types, Filling, script # <<>>, OpDone
  PROVE  /\ \A i \in 2 .. Len(script') : script'[i].op = "column"
         /\ building' = "op" => Head(script').op = "column"
         /\ building' \in {"op", "publish"}
  <1>1. /\ script' = Tail(script) /\ script' \in Seq(Operation) /\ building' \in {"publish", "op"}
        /\ building' = "op" => script' # <<>>
    BY OpDoneFacts
  <1>2. /\ Len(script') = Len(script) - 1 /\ Len(script) \in Nat \ {0}
        /\ \A i \in 1 .. Len(script) - 1 : script'[i] = script[i + 1]
    BY <1>1, ScriptFacts
  <1>3. \A i \in 2 .. Len(script) : script[i].op = "column"
    BY DEF Filling
  <1>4. \A i \in 1 .. Len(script') : script'[i].op = "column"
    <2> SUFFICES ASSUME NEW i \in 1 .. Len(script') PROVE script'[i].op = "column"
      OBVIOUS
    <2>1. i + 1 \in 2 .. Len(script) /\ i \in 1 .. Len(script) - 1
      BY <1>2
    <2>2. QED
      BY <1>2, <1>3, <2>1
  <1>5. building' = "op" => Head(script').op = "column"
    <2> SUFFICES ASSUME building' = "op" PROVE Head(script').op = "column"
      OBVIOUS
    <2>1. PICK s \in Seq(Operation) : s = script'
      BY <1>1
    <2>2. Head(s) = s[1] /\ Len(s) \in Nat \ {0}
      BY <1>1, <2>1, TailFacts
    <2>3. Head(script').op = "column"
      <3>1. 1 \in 1 .. Len(s)
        BY <2>2
      <3>2. s[1].op = "column"
        BY <1>4, <2>1, <3>1
      <3>3. QED
        BY <2>1, <2>2, <3>2
    <2>4. QED
      BY <2>3
  <1>6. \A i \in 2 .. Len(script') : script'[i].op = "column"
    <2>1. \A i \in 2 .. Len(script') : i \in 1 .. Len(script')
      BY <1>2
    <2>2. QED
      BY <1>4, <2>1
  <1>7. QED
    BY <1>1, <1>5, <1>6

\* All rows of the Writer are in all columns.
LEMMA VisitDoneFills ==
  ASSUME IndInv, Filling, Contents, VisitDone
  PROVE  Filling' /\ Contents'
  <1>1. /\ Types /\ Stores /\ building = "chunk" /\ script # <<>> /\ OpDone
        /\ UNCHANGED <<columns, nrows, width, left, adding, net, store>>
    BY DEF IndInv, VisitDone, Building
  <1>2. /\ \A i \in 2 .. Len(script') : script'[i].op = "column"
        /\ building' = "op" => Head(script').op = "column"
        /\ building' \in {"op", "publish"}
    BY <1>1, ScriptAfter
  <1>3. Even'
    BY <1>1 DEF Filling, Even
  <1>4. Filling'
    BY <1>2, <1>3 DEF Filling
  <1>5. QED
    BY <1>1, <1>2, <1>4, TotalsOutside

\* A column has one more block, and its size stays.
LEMMA BlockAdded ==
  ASSUME IndInv, AddBlock
  PROVE  /\ columns' \in Seq(Column) /\ Len(columns') = Len(columns)
         /\ DOMAIN columns = 1 .. Len(columns) /\ DOMAIN columns' = 1 .. Len(columns)
         /\ \A i \in 1 .. Len(columns) :
              /\ columns'[i].size = columns[i].size
              /\ columns'[i].blocks = columns[i].blocks + (IF i = adding.col + 1 THEN 1 ELSE 0)
  <1> DEFINE i == adding.col + 1
             e == [columns[i] EXCEPT !.blocks = @ + 1]
  <1>1. /\ Types /\ building = "add" /\ columns \in Seq(Column) /\ i \in 1 .. Len(columns)
        /\ columns[i] \in Column
        /\ columns' = [columns EXCEPT ![i] = e]
    BY AddingFacts, ColumnFacts DEF IndInv, AddBlock
  <1>2. e \in Column /\ e.size = columns[i].size /\ e.blocks = columns[i].blocks + 1
    <2>1. \A x \in Column : /\ [x EXCEPT !.blocks = @ + 1] \in Column
                            /\ [x EXCEPT !.blocks = @ + 1].blocks = x.blocks + 1
                            /\ [x EXCEPT !.blocks = @ + 1].size = x.size
      BY DEF Column
    <2>2. QED
      BY <1>1, <2>1
  <1> HIDE DEF i, e
  <1>3. /\ columns' \in Seq(Column) /\ Len(columns') = Len(columns)
        /\ DOMAIN columns' = 1 .. Len(columns) /\ DOMAIN columns = 1 .. Len(columns)
        /\ \A j \in 1 .. Len(columns) : columns'[j] = IF j = i THEN e ELSE columns[j]
    BY <1>1, <1>2, ColumnChanged, ColumnFacts
  <1>4. \A j \in 1 .. Len(columns) : columns[j].blocks \in Nat
    BY <1>1, ColumnFacts
  <1>5. QED
    BY <1>1, <1>2, <1>3, <1>4 DEF i

\* The blocks of the column that add_all is at are all full.
LEMMA FullBefore ==
  ASSUME IndInv, Filling, building = "add", adding.added < adding.len
  PROVE  BlockSize * columns[adding.col + 1].blocks = columns[adding.col + 1].size + adding.added
  <1> DEFINE B == columns[adding.col + 1].blocks
             S == columns[adding.col + 1].size
             F == adding.before
             A == adding.added
  <1>1. B \in Nat /\ S \in Nat /\ F \in Nat /\ A \in Nat /\ BlockSize \in Nat
    BY AddingFacts, Facts DEF IndInv
  <1>2. F <= B /\ A = BlockSize * (B - F)
    BY DEF IndInv, Building
  <1>3. BlockSize * F = S
    BY DEF Filling
  <1> HIDE DEF B, S, F, A
  <1>4. BlockSize * (B - F) + BlockSize * F = BlockSize * B
    BY <1>1, <1>2
  <1>5. QED
    BY <1>1, <1>2, <1>3, <1>4 DEF B, S, F, A

\* A full block stays as it is when its column grows.
LEMMA FullBlockStays ==
  ASSUME NEW c, NEW b \in Nat, Total(c) \in Nat, Total(c)' \in Nat, Total(c) <= Total(c)',
         BlockSize * (b + 1) <= Total(c)
  PROVE  BlockOf(c, b)' = BlockOf(c, b)
  <1>1. BlockSize \in Nat \ {0} /\ BlockSize * b \in Nat
    BY Facts
  <1>2. BlockSize * (b + 1) = BlockSize * b + BlockSize
    BY <1>1
  <1>3. ASSUME NEW t \in Nat, BlockSize * (b + 1) <= t
        PROVE  Min2(BlockSize, t - BlockSize * b) = BlockSize
    <2> DEFINE x == BlockSize * b
    <2>1. x \in Nat /\ x + BlockSize <= t
      BY <1>1, <1>2, <1>3
    <2> HIDE DEF x
    <2>2. Min2(BlockSize, t - x) = BlockSize
      BY <1>1, <2>1 DEF Min2
    <2>3. QED
      BY <2>2 DEF x
  <1>4. BlockSize * (b + 1) <= Total(c)'
    <2>1. BlockSize * (b + 1) \in Nat
      BY <1>1
    <2>2. QED
      BY <2>1
  <1>5. /\ Min2(BlockSize, Total(c) - BlockSize * b) = BlockSize
        /\ Min2(BlockSize, Total(c)' - BlockSize * b) = BlockSize
    BY <1>3, <1>4
  <1>6. BlockOf(c, b) = [i \in 1 .. BlockSize |-> <<c, BlockSize * b + i - 1>>]
    BY <1>5 DEF BlockOf
  <1>7. BlockOf(c, b)' = [i \in 1 .. BlockSize |-> <<c, BlockSize * b + i - 1>>]
    <2>1. BlockOf(c, b)' = [i \in 1 .. Min2(BlockSize, Total(c)' - BlockSize * b) |->
                              <<c, BlockSize * b + i - 1>>]
      BY DEF BlockOf, Min2
    <2>2. QED
      BY <1>5, <2>1
  <1>8. QED
    BY <1>6, <1>7

\* The elements that are put next are those of the next block, and the blocks before stay.
LEMMA AddBlockFills ==
  ASSUME IndInv, Filling, Contents, AddBlock
  PROVE  Filling' /\ Contents'
  <1> DEFINE c == adding.col
             B == columns[c + 1].blocks
             S == columns[c + 1].size
             A == adding.added
             L == adding.len
  <1>1. /\ Types /\ Building /\ Stores /\ building = "add" /\ A < L /\ building' = "add"
        /\ UNCHANGED <<script, nrows, width, left>>
        /\ Put(BlockKey(c, Number), Elements, Home(Number))
    BY DEF IndInv, AddBlock
  <1>2. /\ c \in Nat /\ c + 1 \in 1 .. Len(columns) /\ A \in Nat /\ L \in Nat
        /\ B \in Nat /\ S \in Nat /\ adding.before \in Nat /\ Len(columns) \in Nat
        /\ \A i \in 1 .. Len(columns) : columns[i].size \in Nat /\ columns[i].blocks \in Nat
    BY <1>1, AddingFacts, ColumnFacts
  <1>3. /\ Len(columns') = Len(columns)
        /\ DOMAIN columns = 1 .. Len(columns) /\ DOMAIN columns' = 1 .. Len(columns)
        /\ \A i \in 1 .. Len(columns) :
             /\ columns'[i].size = columns[i].size
             /\ columns'[i].blocks = columns[i].blocks + (IF i = c + 1 THEN 1 ELSE 0)
    BY BlockAdded
  <1>4. /\ Number = B /\ Amount \in 1 .. BlockSize /\ A + Amount <= L
        /\ Elements \in Blocks /\ BlockSize \in Nat \ {0}
    BY <1>1, NextBlock, Facts
  <1>5. /\ adding'.col = c /\ adding'.len = L /\ adding'.before = adding.before
        /\ adding'.added = A + Amount
    BY <1>1 DEF AddBlock, Types
  <1>6. BlockSize * B = S + A
    BY <1>1, FullBefore
  <1>7. Total(c) = S + A /\ \A d : d = c => Total(d)' = S + A + Amount
    <2>1. Total(c) = S + A
      BY <1>1 DEF Total
    <2>2. ASSUME NEW d, d = c PROVE Total(d)' = S + A + Amount
      <3>1. Total(d)' = columns'[d + 1].size + adding'.added
        BY <1>1, <1>5, <2>2 DEF Total
      <3>2. columns'[d + 1].size = S
        BY <1>2, <1>3, <2>2
      <3>3. QED
        BY <1>2, <1>4, <1>5, <3>1, <3>2
    <2>3. QED
      BY <2>1, <2>2
  <1>8. ValuesStay
    <2> SUFFICES ASSUME NEW k \in Keys, NEW v, KeyOk(k, v), ValueOk(k, v), k # DfKey
                 PROVE  ValueOk(k, v)'
      BY DEF ValuesStay, ValueOk, DfKey
    <2>1. /\ k[1] \in Nat /\ k[1] < Len(columns) /\ v = BlockOf(k[1], k[2])
          /\ k[2] \in Nat /\ k[2] < columns[k[1] + 1].blocks
      BY KeyFacts DEF KeyOk, ValueOk
    <2>2. CASE k[1] # c
      <3>1. columns'[k[1] + 1].size = columns[k[1] + 1].size
        <4>1. k[1] + 1 \in 1 .. Len(columns)
          BY <1>2, <2>1
        <4>2. QED
          BY <1>3, <4>1
      <3>2. Total(k[1])' = Total(k[1])
        BY <1>1, <1>5, <2>2, <3>1 DEF Total
      <3>3. BlockOf(k[1], k[2])' = BlockOf(k[1], k[2])
        BY <3>2 DEF BlockOf, Min2
      <3>4. QED
        BY <2>1, <3>3 DEF ValueOk
    <2>3. CASE k[1] = c
      <3>1. Total(k[1]) = S + A /\ Total(k[1])' = S + A + Amount
        BY <1>7, <2>3
      <3>2. k[2] + 1 <= B
        BY <1>2, <2>1, <2>3
      <3>3. BlockSize * (k[2] + 1) <= BlockSize * B
        <4>1. ASSUME NEW d \in Nat, NEW x \in Nat, NEW y \in Nat, x <= y PROVE d * x <= d * y
          BY <4>1
        <4>2. k[2] + 1 \in Nat
          BY <2>1
        <4>3. QED
          BY <1>2, <1>4, <3>2, <4>1, <4>2
      <3>4. BlockSize * (k[2] + 1) <= Total(k[1])
        BY <1>6, <3>1, <3>3
      <3>5. Total(k[1]) \in Nat /\ Total(k[1])' \in Nat /\ Total(k[1]) <= Total(k[1])'
        <4>1. PICK t, u : t = Total(k[1]) /\ u = Total(k[1])'
          OBVIOUS
        <4>2. t = S + A /\ u = S + A + Amount
          BY <3>1, <4>1
        <4>3. S \in Nat /\ A \in Nat /\ Amount \in Nat
          BY <1>2, <1>4
        <4>4. t \in Nat /\ u \in Nat /\ t <= u
          BY ONLY <4>2, <4>3
        <4>5. QED
          BY <4>1, <4>4
      <3>6. BlockOf(k[1], k[2])' = BlockOf(k[1], k[2])
        BY <2>1, <3>4, <3>5, FullBlockStays
      <3>7. QED
        BY <2>1, <3>6 DEF ValueOk
    <2>4. QED
      BY <2>2, <2>3
  <1>9. PICK k, v : k = BlockKey(c, Number) /\ v = Elements
    OBVIOUS
  <1>10. k # DfKey /\ k[1] = c /\ k[2] = B /\ \A w : ~KeyOk(k, w)
    <2>1. k # DfKey /\ k[1] = c /\ k[2] = B
      BY <1>2, <1>4, <1>9, KeyFacts
    <2>2. ~(B < B)
      BY <1>2
    <2>3. QED
      BY <2>1, <2>2 DEF KeyOk
  <1>11. ValueOk(k, v)'
    <2>1. PICK t : t = BlockOf(k[1], k[2])'
      OBVIOUS
    <2>2. Total(k[1])' = S + A + Amount
      BY <1>7, <1>10
    <2>3. t = [i \in 1 .. Min2(BlockSize, (S + A + Amount) - BlockSize * k[2]) |->
                 <<k[1], BlockSize * k[2] + i - 1>>]
      BY <2>1, <2>2 DEF BlockOf, Min2
    <2>4. BlockSize * k[2] = S + A
      BY <1>6, <1>10
    <2>5. Min2(BlockSize, (S + A + Amount) - BlockSize * k[2]) = Amount
      <3>1. (S + A + Amount) - (S + A) = Amount
        BY <1>2, <1>4
      <3>2. QED
        BY <1>4, <2>4, <3>1 DEF Min2
    <2>6. t = [i \in 1 .. Amount |-> <<c, S + A + i - 1>>]
      BY <1>10, <2>3, <2>4, <2>5
    <2>7. v = t
      BY <1>9, <2>6 DEF Elements
    <2>8. QED
      BY <2>1, <2>7 DEF ValueOk
  <1>12. Contents'
    <2>1. Home(Number) \in Nodes
      BY <1>2, <1>4, HomeNode
    <2>2. QED
      BY <1>1, <1>8, <1>9, <1>10, <1>11, <2>1, ContentsPut
  <1>13. ASSUME Head(script).op = "visit" PROVE ChunkAdded'
    <2>1. ChunkAdded /\ left \in Nat /\ nrows \in Nat
      BY <1>1, <1>13 DEF Filling, Types
    <2>2. A = 0 /\ L = Min2(left, BlockSize) /\ 0 < L /\ L <= BlockSize /\ (L < left => L = BlockSize)
      BY <1>1, <1>2, <1>4, <2>1 DEF ChunkAdded, Min2
    <2>3. Amount = L /\ adding'.added = L
      BY <1>2, <1>4, <1>5, <2>2 DEF Amount, Min2
    <2>4. BlockSize * (B + 1) = BlockSize * B + BlockSize
      BY <1>2, <1>4
    <2>5. ASSUME NEW i \in 1 .. Len(columns)
          PROVE  /\ columns'[i].size = nrows + (IF i <= c THEN L ELSE 0)
                 /\ IF i <= c \/ (i = c + 1 /\ 0 < L)
                    THEN L < left => BlockSize * columns'[i].blocks = nrows + L
                    ELSE BlockSize * columns'[i].blocks = nrows
      <3>1. /\ columns[i].size = nrows + (IF i <= c THEN L ELSE 0)
            /\ IF i <= c \/ (i = c + 1 /\ 0 < A)
               THEN L < left => BlockSize * columns[i].blocks = nrows + L
               ELSE BlockSize * columns[i].blocks = nrows
        BY <1>3, <2>1 DEF ChunkAdded
      <3>2. CASE i = c + 1
        <4>1. BlockSize * B = nrows
          BY <1>2, <2>2, <3>1, <3>2
        <4>2. columns'[i].blocks = B + 1
          BY <1>3, <3>2
        <4>3. QED
          BY <1>3, <2>2, <2>4, <3>1, <3>2, <4>1, <4>2
      <3>3. CASE i # c + 1
        <4>1. columns'[i].size = columns[i].size /\ columns'[i].blocks = columns[i].blocks
          BY <1>2, <1>3, <3>3
        <4>2. QED
          BY <3>1, <3>3, <4>1
      <3>4. QED
        BY <3>2, <3>3
    <2>6. QED
      BY <1>1, <1>3, <1>5, <2>2, <2>3, <2>5 DEF ChunkAdded, Min2
  <1>14. Filling'
    <2>1. NewCol' <=> NewCol
      BY <1>1 DEF NewCol
    <2>2. \A i \in 2 .. Len(script') : script'[i].op = "column"
      BY <1>1 DEF Filling
    <2>3. Head(script').op = "array" => width' = 0 /\ nrows' = 0
      BY <1>1 DEF Filling
    <2>4. Head(script').op # "visit" => \A i \in 1 .. Len(columns') - 1 : columns'[i].size = nrows'
      <3>1. \A i \in 1 .. Len(columns) - 1 : i \in 1 .. Len(columns)
        BY <1>2
      <3>2. QED
        BY <1>1, <1>3, <3>1 DEF Filling
    <2>5. BlockSize * adding'.before = columns'[adding'.col + 1].size
      BY <1>1, <1>2, <1>3, <1>5 DEF Filling
    <2>6. NewCol' => columns'[Len(columns')].size = 0
      <3>1. Len(columns) \in 1 .. Len(columns)
        BY <1>2
      <3>2. QED
        BY <1>1, <1>3, <2>1, <3>1 DEF Filling
    <2>7. QED
      BY <1>1, <1>13, <2>2, <2>3, <2>4, <2>5, <2>6 DEF Filling
  <1>15. QED
    BY <1>12, <1>14

\* When add_all ends its elements count in the size of the column instead.
LEMMA FilledTotals ==
  ASSUME IndInv, Contents, Filled, UNCHANGED <<net, store>>,
         building' = "add" => adding'.added = 0
  PROVE  Contents'
  <1>1. /\ Types /\ Building /\ Stores /\ building = "add" /\ adding.added = adding.len
    BY DEF IndInv, Filled
  <1>2. /\ adding.col \in Nat /\ adding.len \in Nat
        /\ \A i \in 1 .. Len(columns) : columns[i].size \in Nat
        /\ Len(columns) \in Nat /\ adding.col + 1 \in 1 .. Len(columns)
    BY <1>1, AddingFacts, ColumnFacts
  <1>3. /\ columns'[adding.col + 1].size = columns[adding.col + 1].size + adding.len
        /\ \A i \in 1 .. Len(columns) : i # adding.col + 1 => columns'[i] = columns[i]
    BY <1>1, FilledFacts
  <1>4. ASSUME NEW c \in Nat, c < Len(columns) PROVE Total(c)' = Total(c)
    <2>1. c + 1 \in 1 .. Len(columns)
      BY <1>2, <1>4
    <2>2. Total(c)' = columns'[c + 1].size + 0
      BY DEF Total
    <2>3. CASE c = adding.col
      <3>1. Total(c) = columns[c + 1].size + adding.len
        BY <1>1, <2>3 DEF Total
      <3>2. columns'[c + 1].size = columns[c + 1].size + adding.len
        BY <1>3, <2>3
      <3>3. columns'[c + 1].size \in Nat
        BY <1>2, <2>1, <3>2
      <3>4. QED
        BY <2>2, <3>1, <3>2, <3>3
    <2>4. CASE c # adding.col
      <3>1. Total(c) = columns[c + 1].size + 0
        BY <2>4 DEF Total
      <3>2. columns'[c + 1] = columns[c + 1]
        BY <1>2, <1>3, <2>1, <2>4
      <3>3. QED
        BY <2>2, <3>1, <3>2
    <2>5. QED
      BY <2>3, <2>4
  <1>5. QED
    BY <1>1, <1>4, TotalsKept, ContentsKept

\* The chunk is in one more column, or in all of them.
LEMMA ChunkColumnFilledFills ==
  ASSUME IndInv, Filling, Contents, ChunkColumnFilled
  PROVE  Filling' /\ Contents'
  <1> DEFINE c == adding.col
             L == adding.len
  <1>1. /\ Types /\ Building /\ building = "add" /\ Head(script).op = "visit" /\ Filled
        /\ script' = script /\ width' = width /\ UNCHANGED <<net, store>> /\ adding.added = L
    BY DEF IndInv, ChunkColumnFilled, Filled
  <1>2. /\ c \in Nat /\ L \in Nat /\ Len(columns) \in Nat /\ c + 1 \in 1 .. Len(columns)
        /\ \A i \in 1 .. Len(columns) : columns[i].size \in Nat /\ columns[i].blocks \in Nat
        /\ width = Len(columns) /\ nrows \in Nat /\ left \in Nat
        /\ DOMAIN columns = 1 .. Len(columns)
    BY <1>1, AddingFacts, ColumnFacts DEF Building, NewCol, Types
  <1>3. /\ columns' \in Seq(Column) /\ Len(columns') = Len(columns) /\ columns'[c + 1].size = columns[c + 1].size + L
        /\ \A i \in 1 .. Len(columns) : i # c + 1 => columns'[i] = columns[i]
        /\ \A i \in 1 .. Len(columns) : columns'[i].blocks = columns[i].blocks
    BY <1>1, FilledFacts
  <1>4. DOMAIN columns' = 1 .. Len(columns)
    BY <1>3
  <1>5. /\ 0 < L /\ L = Min2(left, BlockSize)
        /\ \A i \in 1 .. Len(columns) :
             /\ columns[i].size = nrows + (IF i <= c THEN L ELSE 0)
             /\ IF i <= c \/ (i = c + 1 /\ 0 < L)
                THEN L < left => BlockSize * columns[i].blocks = nrows + L
                ELSE BlockSize * columns[i].blocks = nrows
    BY <1>1, <1>2 DEF Filling, ChunkAdded
  <1>6. \A i \in 1 .. Len(columns) :
          /\ columns'[i].size = nrows + (IF i <= c + 1 THEN L ELSE 0)
          /\ IF i <= c + 1
             THEN L < left => BlockSize * columns'[i].blocks = nrows + L
             ELSE BlockSize * columns'[i].blocks = nrows
    <2> SUFFICES ASSUME NEW i \in 1 .. Len(columns)
                 PROVE  /\ columns'[i].size = nrows + (IF i <= c + 1 THEN L ELSE 0)
                        /\ IF i <= c + 1
                           THEN L < left => BlockSize * columns'[i].blocks = nrows + L
                           ELSE BlockSize * columns'[i].blocks = nrows
      OBVIOUS
    <2>1. /\ columns[i].size = nrows + (IF i <= c THEN L ELSE 0)
          /\ IF i <= c \/ (i = c + 1 /\ 0 < L)
             THEN L < left => BlockSize * columns[i].blocks = nrows + L
             ELSE BlockSize * columns[i].blocks = nrows
          /\ columns'[i].blocks = columns[i].blocks
      BY <1>3, <1>5
    <2>2. CASE i = c + 1
      BY <1>2, <1>3, <1>5, <2>1, <2>2
    <2>3. CASE i # c + 1
      <3>1. columns'[i].size = columns[i].size /\ (i <= c <=> i <= c + 1)
        BY <1>2, <1>3, <2>3
      <3>2. QED
        BY <2>1, <2>3, <3>1
    <2>4. QED
      BY <2>2, <2>3
  <1>7. \A i \in 2 .. Len(script') : script'[i].op = "column"
    BY <1>1 DEF Filling
  <1>8. CASE c + 1 < width
    <2>1. AddAll(c + 1, L, columns) /\ UNCHANGED <<nrows, left>>
      BY <1>8 DEF ChunkColumnFilled
    <2>2. /\ building' = "add" /\ adding'.col = c + 1 /\ adding'.len = L /\ adding'.added = 0
          /\ adding'.before = columns[(c + 1) + 1].blocks /\ ~NewCol'
      BY <1>1, <2>1 DEF AddAll, NewCol
    <2>3. ChunkAdded'
      <3>1. \A i \in DOMAIN columns' :
              /\ columns'[i].size = nrows' + (IF i <= adding'.col THEN adding'.len ELSE 0)
              /\ IF i <= adding'.col \/ (i = adding'.col + 1 /\ 0 < adding'.added)
                 THEN adding'.len < left' => BlockSize * columns'[i].blocks = nrows' + adding'.len
                 ELSE BlockSize * columns'[i].blocks = nrows'
        BY <1>4, <1>6, <2>1, <2>2
      <3>2. 0 < adding'.len /\ adding'.len = Min2(left', BlockSize) /\ adding'.added \in {0, adding'.len}
        BY <1>5, <2>1, <2>2
      <3>3. QED
        BY <3>1, <3>2 DEF ChunkAdded, Min2
    <2>4. BlockSize * adding'.before = columns'[adding'.col + 1].size
      <3>1. (c + 1) + 1 \in 1 .. Len(columns) /\ ~((c + 1) + 1 <= c + 1) /\ nrows + 0 = nrows
        BY <1>2, <1>8
      <3>2. columns'[(c + 1) + 1].size = nrows /\ BlockSize * columns'[(c + 1) + 1].blocks = nrows
        BY <1>6, <3>1
      <3>3. QED
        BY <1>3, <2>2, <3>1, <3>2
    <2>5. Filling'
      BY <1>1, <1>7, <2>2, <2>3, <2>4 DEF Filling
    <2>6. Contents'
      BY <1>1, <2>2, FilledTotals
    <2>7. QED
      BY <2>5, <2>6
  <1>9. CASE ~(c + 1 < width)
    <2>1. nrows' = nrows + L /\ left' = left - L /\ building' = "chunk"
      BY <1>9 DEF ChunkColumnFilled
    <2>2. \A i \in 1 .. Len(columns) : i <= c + 1
      BY <1>2, <1>9
    <2>3. Even'
      BY <1>4, <1>6, <2>1, <2>2 DEF Even
    <2>4. 0 < left' => Full'
      <3>1. 0 < left' => L < left
        BY <1>2, <2>1
      <3>2. QED
        BY <1>4, <1>6, <2>1, <2>2, <3>1 DEF Full
    <2>5. Filling'
      BY <1>1, <1>7, <2>1, <2>3, <2>4 DEF Filling
    <2>6. Contents'
      BY <1>1, <2>1, FilledTotals
    <2>7. QED
      BY <2>5, <2>6
  <1>10. QED
    BY <1>8, <1>9

\* The array is the first column, and the dataframe has its rows.
LEMMA ArrayFilledFills ==
  ASSUME IndInv, Filling, Contents, ArrayFilled
  PROVE  Filling' /\ Contents'
  <1>1. /\ Types /\ Building /\ building = "add" /\ Head(script).op = "array" /\ Filled
        /\ script # <<>> /\ OpDone /\ nrows' = nrows + adding.len /\ UNCHANGED <<net, store>>
        /\ NewCol
    BY DEF IndInv, ArrayFilled, Filled, Building, NewCol
  <1>2. width = 0 /\ nrows = 0 /\ columns[Len(columns)].size = 0
    BY <1>1 DEF Filling
  <1>3. /\ Len(columns) = 1 /\ adding.col = 0 /\ adding.len \in Nat
        /\ DOMAIN columns = 1 .. Len(columns)
    BY <1>1, <1>2, AddingFacts, ColumnFacts DEF Building
  <1>4. /\ columns' \in Seq(Column) /\ Len(columns') = Len(columns)
        /\ columns'[adding.col + 1].size = columns[adding.col + 1].size + adding.len
    BY <1>1, FilledFacts
  <1>5. /\ \A i \in 2 .. Len(script') : script'[i].op = "column"
        /\ building' = "op" => Head(script').op = "column"
        /\ building' \in {"op", "publish"}
    BY <1>1, ScriptAfter
  <1>6. Even'
    <2>1. DOMAIN columns' = {1}
      BY <1>3, <1>4
    <2>2. columns'[1].size = nrows'
      BY <1>1, <1>2, <1>3, <1>4
    <2>3. QED
      BY <2>1, <2>2 DEF Even
  <1>7. Filling'
    BY <1>5, <1>6 DEF Filling
  <1>8. Contents'
    BY <1>1, <1>5, FilledTotals
  <1>9. QED
    BY <1>7, <1>8

\* A column that is added is as long as the others.
LEMMA ColumnFilledFills ==
  ASSUME IndInv, Filling, Contents, ColumnFilled
  PROVE  Filling' /\ Contents'
  <1>1. /\ Types /\ Building /\ building = "add" /\ Head(script).op = "column" /\ Filled
        /\ script # <<>> /\ nrows' = nrows /\ UNCHANGED <<net, store>> /\ NewCol
    BY DEF IndInv, ColumnFilled, Filled, Building, NewCol
  <1>2. columns[Len(columns)].size = 0 /\ \A i \in 1 .. Len(columns) - 1 : columns[i].size = nrows
    BY <1>1 DEF Filling
  <1>3. /\ adding.col = Len(columns) - 1 /\ adding.len \in Nat /\ Len(columns) \in Nat
        /\ adding.col + 1 = Len(columns) /\ DOMAIN columns = 1 .. Len(columns)
    BY <1>1, AddingFacts, ColumnFacts DEF Building
  <1>4. /\ columns' \in Seq(Column) /\ Len(columns') = Len(columns)
        /\ columns'[Len(columns)].size = columns[Len(columns)].size + adding.len
        /\ \A i \in 1 .. Len(columns) : i # Len(columns) => columns'[i] = columns[i]
    BY <1>1, <1>3, FilledFacts
  <1>5. CASE adding.len = nrows
    <2>1. OpDone
      BY <1>5 DEF ColumnFilled
    <2>2. /\ \A i \in 2 .. Len(script') : script'[i].op = "column"
          /\ building' = "op" => Head(script').op = "column"
          /\ building' \in {"op", "publish"}
      BY <1>1, <2>1, ScriptAfter
    <2>3. Even'
      <3> SUFFICES ASSUME NEW i \in 1 .. Len(columns) PROVE columns'[i].size = nrows
        BY <1>1, <1>4 DEF Even
      <3>1. CASE i = Len(columns)
        <4>1. columns'[Len(columns)].size = 0 + adding.len
          BY <1>2, <1>4
        <4>2. QED
          BY <1>3, <1>5, <3>1, <4>1
      <3>2. CASE i # Len(columns)
        <4>1. \A m \in Nat : \A j \in 1 .. m : j # m => j \in 1 .. m - 1
          OBVIOUS
        <4>2. i \in 1 .. Len(columns) - 1
          BY <1>3, <3>2, <4>1
        <4>3. QED
          BY <1>2, <1>4, <3>2, <4>2
      <3>3. QED
        BY <3>1, <3>2
    <2>4. Filling'
      BY <2>2, <2>3 DEF Filling
    <2>5. Contents'
      BY <1>1, <2>2, FilledTotals
    <2>6. QED
      BY <2>4, <2>5
  <1>6. CASE adding.len # nrows
    <2>1. building' = "exit" /\ script' = script
      BY <1>6 DEF ColumnFilled
    <2>2. \A i \in 2 .. Len(script') : script'[i].op = "column"
      BY <2>1 DEF Filling
    <2>3. Filling'
      BY <2>1, <2>2 DEF Filling
    <2>4. Contents'
      BY <1>1, <2>1, FilledTotals
    <2>5. QED
      BY <2>3, <2>4
  <1>7. QED
    BY <1>5, <1>6

\* The dataframe itself is no block.
LEMMA PublishFills ==
  ASSUME IndInv, Filling, Contents, Publish
  PROVE  Filling' /\ Contents'
  <1>1. /\ Types /\ Stores /\ building = "publish" /\ building' = "built"
        /\ UNCHANGED <<script, columns, nrows, width, left, adding>>
    BY DEF IndInv, Publish
  <1>2. Even'
    BY <1>1 DEF Filling, Even
  <1>3. \A i \in 2 .. Len(script') : script'[i].op = "column"
    BY <1>1 DEF Filling
  <1>4. Filling'
    BY <1>1, <1>2, <1>3 DEF Filling
  <1>5. ValuesStay
    <2>1. \A c \in Nat : c < Len(columns) => Total(c)' = Total(c)
      BY <1>1 DEF Total
    <2>2. QED
      BY <2>1, TotalsKept
  <1>6. Contents'
    <2>1. PICK k, v : k = DfKey /\ v = [nrows |-> nrows, width |-> width]
      OBVIOUS
    <2>2. Put(k, v, DfHome) /\ DfHome \in Nodes
      BY <2>1, Facts DEF Publish
    <2>3. \A w : ~KeyOk(k, w)
      BY <1>1, <2>1 DEF KeyOk
    <2>4. ValueOk(k, v)'
      BY <2>1 DEF ValueOk, DfKey
    <2>5. QED
      BY <1>1, <1>5, <2>2, <2>3, <2>4, ContentsPut
  <1>7. QED
    BY <1>4, <1>6

-----------------------------------------------------------------------------
(* What the readers read *)

\* The readers change nothing in the columns and the stores.
LEMMA FillKept ==
  ASSUME IndInv, Filling, Contents, UNCHANGED <<buildVars, net, store>>
  PROVE  Filling' /\ Contents'
  <1>1. /\ Types /\ Stores
        /\ UNCHANGED <<script, columns, nrows, width, left, adding, building, net, store>>
    BY DEF IndInv, buildVars
  <1>2. Filling'
    <2>1. (Even' <=> Even) /\ (Full' <=> Full) /\ (ChunkAdded' <=> ChunkAdded) /\ (NewCol' <=> NewCol)
      BY <1>1 DEF Even, Full, ChunkAdded, NewCol, Min2
    <2>2. QED
      BY <1>1, <2>1 DEF Filling
  <1>3. \A c \in Nat : c < Len(columns) => Total(c)' = Total(c)
    BY <1>1 DEF Total
  <1>4. Contents'
    BY <1>1, <1>3, TotalsKept, ContentsKept
  <1>5. QED
    BY <1>2, <1>4

\* The cached block of a row has the element of the row in its place.
LEMMA ElementRead ==
  ASSUME IndInv, Filling, Contents, NEW n \in Nodes, Visits(n), Col(n) < copy[n].width,
         Block(n) \in DOMAIN data[n][Col(n)]
  PROVE  /\ IdxInChunk(rowIdx[n]) \in Nat
         /\ IdxInChunk(rowIdx[n]) < Len(data[n][Col(n)][Block(n)])
         /\ data[n][Col(n)][Block(n)][IdxInChunk(rowIdx[n]) + 1] = <<Col(n), rowIdx[n]>>
  <1> DEFINE c == Col(n)
             r == rowIdx[n]
             b == r \div BlockSize
             i == r % BlockSize
             m == Min2(BlockSize, nrows - BlockSize * b)
             block == data[n][c][b]
  <1>1. at[n] # "wait" /\ Types /\ Stores
    BY DEF Visits, IndInv
  <1>2. /\ HasRead(n) /\ c \in 0 .. width - 1 /\ c \in Nat /\ r \in Nat /\ r < nrows /\ nrows \in Nat
        /\ building = "built" /\ BlockSize \in Nat \ {0}
    BY <1>1, ReadingFacts, Facts DEF Col, HasRead
  <1>3. b \in Nat /\ i \in 0 .. BlockSize - 1 /\ r = BlockSize * b + i
    BY <1>2, DivMod
  <1>4. block = store[BlockKey(c, b)] /\ BlockKey(c, b) \in DOMAIN store
    BY <1>1, <1>2, <1>3, CachedBlock DEF Block, Chunk
  <1>5. /\ BlockKey(c, b) # DfKey /\ BlockKey(c, b)[1] = c /\ BlockKey(c, b)[2] = b
    BY <1>2, <1>3, KeyFacts
  <1>6. block = BlockOf(c, b) /\ c < Len(columns)
    <2>1. ValueOk(BlockKey(c, b), store[BlockKey(c, b)])
      BY <1>4 DEF Contents
    <2>2. KeyOk(BlockKey(c, b), store[BlockKey(c, b)])
      BY <1>1, <1>4 DEF Stores
    <2>3. QED
      BY <1>4, <1>5, <2>1, <2>2 DEF ValueOk, KeyOk
  <1>7. Total(c) = nrows
    <2>1. Even /\ c + 1 \in 1 .. Len(columns) /\ DOMAIN columns = 1 .. Len(columns)
      BY <1>1, <1>2, <1>6, ColumnFacts DEF Filling
    <2>2. columns[c + 1].size = nrows
      BY <2>1 DEF Even
    <2>3. Total(c) = columns[c + 1].size + 0
      BY <1>2 DEF Total
    <2>4. QED
      BY <1>2, <2>2, <2>3
  <1>8. block = [j \in 1 .. m |-> <<c, BlockSize * b + j - 1>>]
    BY <1>6, <1>7 DEF BlockOf
  <1> HIDE DEF block, b, i, c, r
  <1>9. BlockSize * b \in Nat
    BY <1>2, <1>3
  <1>10. m \in Nat /\ i < m
    BY <1>2, <1>3, <1>9 DEF Min2
  <1> HIDE DEF m
  <1>11. Len(block) = m /\ block[i + 1] = <<c, BlockSize * b + (i + 1) - 1>>
    <2>1. i + 1 \in 1 .. m
      BY <1>3, <1>10
    <2>2. block[i + 1] = <<c, BlockSize * b + (i + 1) - 1>>
      BY <1>8, <2>1
    <2>3. Len(block) = m
      BY <1>8, <1>10
    <2>4. QED
      BY <2>2, <2>3
  <1>12. BlockSize * b + (i + 1) - 1 = r
    BY <1>3, <1>9
  <1>13. i \in Nat /\ i < Len(block) /\ block[i + 1] = <<c, r>>
    BY <1>3, <1>10, <1>11, <1>12
  <1>14. QED
    BY <1>13 DEF block, b, i, c, r, Block, Chunk, IdxInChunk

\* What one node does changes nothing of what another one has read.
LEMMA ReadRightKept ==
  ASSUME NEW m \in Nodes, ReadRight(m), at'[m] # "exit", copy'[m] = copy[m], rowIdx'[m] = rowIdx[m],
         cells'[m] = cells[m], visited'[m] = visited[m]
  PROVE  ReadRight(m)'
  BY DEF ReadRight

\* An element is appended to those of the row.
LEMMA ReadCellRight ==
  ASSUME IndInv, FillInv, NEW n \in Nodes, ReadCell(n)
  PROVE  \A m \in Nodes : ReadRight(m)'
  <1> DEFINE s == cells[n]
             r == rowIdx[n]
             e == <<Len(s), r>>
  <1>1. /\ Filling /\ Contents /\ Types /\ Visits(n) /\ \A m \in Nodes : ReadRight(m)
        /\ UNCHANGED <<copy, rowIdx, visited>> /\ at[n] = "read"
    BY DEF FillInv, ReadCell, IndInv, Visits
  <1>2. cells' = [cells EXCEPT ![n] = Append(s, e)] /\ at' = at
    BY <1>1, ElementRead DEF ReadCell, Col
  <1>3. s \in Seq(Nat \X Nat) /\ r \in Nat /\ s = [c \in 1 .. Len(s) |-> <<c - 1, r>>]
    BY <1>1 DEF Types, ReadRight
  <1>4. cells'[n] = Append(s, e) /\ \A m \in Nodes : m # n => cells'[m] = cells[m]
    BY <1>1, <1>2 DEF Types
  <1> HIDE DEF s, r
  <1>5. Append(s, e) = [c \in 1 .. Len(Append(s, e)) |-> <<c - 1, r>>]
    <2>1. e \in Nat \X Nat /\ Len(s) \in Nat
      BY <1>3
    <2>2. /\ Append(s, e) \in Seq(Nat \X Nat) /\ Len(Append(s, e)) = Len(s) + 1
          /\ DOMAIN Append(s, e) = 1 .. Len(s) + 1
          /\ \A c \in 1 .. Len(s) : Append(s, e)[c] = s[c]
          /\ Append(s, e)[Len(s) + 1] = e
      BY <1>3, <2>1
    <2>3. \A c \in 1 .. Len(s) + 1 : Append(s, e)[c] = <<c - 1, r>>
      <3> SUFFICES ASSUME NEW c \in 1 .. Len(s) + 1 PROVE Append(s, e)[c] = <<c - 1, r>>
        OBVIOUS
      <3>1. CASE c = Len(s) + 1
        BY <2>1, <2>2, <3>1
      <3>2. CASE c \in 1 .. Len(s)
        <4>1. s[c] = <<c - 1, r>>
          BY <1>3, <3>2
        <4>2. QED
          BY <2>2, <3>2, <4>1
      <3>3. QED
        BY <2>1, <3>1, <3>2
    <2>4. QED
      <3> DEFINE a == Append(s, e)
      <3>1. a = [c \in DOMAIN a |-> a[c]]
        BY <2>2
      <3>2. DOMAIN a = 1 .. Len(a) /\ \A c \in DOMAIN a : a[c] = <<c - 1, r>>
        BY <2>2, <2>3
      <3> HIDE DEF a
      <3>3. a = [c \in 1 .. Len(a) |-> <<c - 1, r>>]
        BY <3>1, <3>2
      <3>4. QED
        BY <3>3 DEF a
  <1>6. ReadRight(n)'
    <2>1. cells'[n] = [c \in 1 .. Len(cells'[n]) |-> <<c - 1, rowIdx'[n]>>]
      BY <1>1, <1>4, <1>5 DEF r
    <2>2. at'[n] # "exit"
      BY <1>1, <1>2
    <2>3. ReadRight(n)
      BY <1>1
    <2>4. QED
      BY <1>1, <2>1, <2>2, <2>3 DEF ReadRight
  <1>7. ASSUME NEW m \in Nodes, m # n PROVE ReadRight(m)'
    <2>1. ReadRight(m) /\ at'[m] # "exit"
      BY <1>1, <1>2 DEF ReadRight
    <2>2. QED
      BY <1>1, <1>4, <1>7, <2>1, ReadRightKept
  <1>8. QED
    BY <1>6, <1>7

\* The row that is visited is the next one, and whole.
LEMMA VisitRowRight ==
  ASSUME IndInv, FillInv, NEW n \in Nodes, VisitRow(n)
  PROVE  \A m \in Nodes : ReadRight(m)'
  <1> DEFINE r == rowIdx[n]
             e == [idx |-> r, row |-> cells[n]]
             s == visited[n]
             X == [idx : Nat, row : Seq(Nat \X Nat)]
             a == Append(s, e)
  <1>1. /\ Types /\ Visits(n) /\ at[n] = "read" /\ Col(n) = copy[n].width
        /\ \A m \in Nodes : ReadRight(m)
        /\ visited' = [visited EXCEPT ![n] = Append(s, e)]
        /\ cells' = [cells EXCEPT ![n] = <<>>]
        /\ rowIdx' = [rowIdx EXCEPT ![n] = r + 1]
        /\ UNCHANGED <<at, copy>>
    BY DEF FillInv, IndInv, VisitRow, Visits
  <1>2. /\ r \in Nat /\ cells[n] \in Seq(Nat \X Nat) /\ s \in Seq(X) /\ e \in X
        /\ e.idx = r /\ e.row = cells[n]
    BY <1>1 DEF Types
  <1>3. e.row = [c \in 1 .. copy[n].width |-> <<c - 1, e.idx>>]
    <2>1. cells[n] = [c \in 1 .. Len(cells[n]) |-> <<c - 1, rowIdx[n]>>]
      BY <1>1 DEF ReadRight
    <2>2. QED
      BY <1>1, <1>2, <2>1 DEF Col
  <1>4. /\ visited'[n] = a /\ cells'[n] = <<>> /\ rowIdx'[n] = r + 1
        /\ \A m \in Nodes : m # n =>
             visited'[m] = visited[m] /\ cells'[m] = cells[m] /\ rowIdx'[m] = rowIdx[m]
    BY <1>1 DEF Types
  <1>5. /\ \A i \in DOMAIN s : s[i].row = [c \in 1 .. copy[n].width |-> <<c - 1, s[i].idx>>]
        /\ \A i \in DOMAIN s : s[i].idx < r /\ (i > 1 => s[i - 1].idx < s[i].idx)
    BY <1>1 DEF ReadRight
  <1> HIDE DEF s, e, r, X
  <1>6. /\ DOMAIN a = 1 .. Len(s) + 1 /\ DOMAIN s = 1 .. Len(s) /\ Len(s) \in Nat
        /\ \A i \in 1 .. Len(s) : a[i] = s[i] /\ s[i] \in X
        /\ a[Len(s) + 1] = e
    BY <1>2
  <1> HIDE DEF a
  <1>7. ASSUME NEW i \in DOMAIN a
        PROVE  /\ a[i].row = [c \in 1 .. copy[n].width |-> <<c - 1, a[i].idx>>]
               /\ a[i].idx < r + 1 /\ (i > 1 => a[i - 1].idx < a[i].idx)
    <2>1. CASE i = Len(s) + 1
      <3>1. a[i] = e
        BY <1>6, <2>1
      <3>2. i > 1 => i - 1 \in 1 .. Len(s)
        BY <1>6, <2>1
      <3>3. i > 1 => a[i - 1].idx < r
        BY <1>5, <1>6, <3>2
      <3>4. a[i].row = [c \in 1 .. copy[n].width |-> <<c - 1, a[i].idx>>]
        BY <1>3, <3>1
      <3>5. a[i].idx = r /\ r < r + 1
        BY <1>2, <3>1
      <3>6. QED
        BY <3>3, <3>4, <3>5
    <2>2. CASE i \in 1 .. Len(s)
      <3>1. a[i] = s[i] /\ s[i] \in X
        BY <1>6, <2>2
      <3>2. i > 1 => i - 1 \in 1 .. Len(s)
        BY <1>6, <2>2
      <3>3. i > 1 => a[i - 1].idx < s[i].idx
        BY <1>5, <1>6, <2>2, <3>2
      <3>4. s[i].idx < r + 1
        <4>1. s[i].idx \in Nat
          BY <3>1 DEF X
        <4>2. QED
          BY <1>2, <1>5, <1>6, <2>2, <4>1
      <3>5. s[i].row = [c \in 1 .. copy[n].width |-> <<c - 1, s[i].idx>>]
        BY <1>5, <1>6, <2>2
      <3>6. QED
        BY <3>1, <3>3, <3>4, <3>5
    <2>3. QED
      BY <1>6, <2>1, <2>2
  <1>8. ReadRight(n)'
    <2>1. cells'[n] = [c \in 1 .. Len(cells'[n]) |-> <<c - 1, rowIdx'[n]>>]
      <3>1. cells'[n] = <<>> /\ Len(cells'[n]) = 0
        BY <1>4
      <3>2. <<>> = [c \in 1 .. 0 |-> <<c - 1, rowIdx'[n]>>]
        OBVIOUS
      <3>3. QED
        BY <3>1, <3>2
    <2>2. at'[n] # "exit" /\ copy'[n] = copy[n]
      BY <1>1
    <2>3. \A i \in DOMAIN visited'[n] :
            visited'[n][i].row = [c \in 1 .. copy'[n].width |-> <<c - 1, visited'[n][i].idx>>]
      BY <1>4, <1>7, <2>2
    <2>4. \A i \in DOMAIN visited'[n] :
            /\ visited'[n][i].idx < rowIdx'[n]
            /\ i > 1 => visited'[n][i - 1].idx < visited'[n][i].idx
      BY <1>4, <1>7
    <2>5. QED
      BY <2>1, <2>2, <2>3, <2>4 DEF ReadRight
  <1>9. ASSUME NEW m \in Nodes, m # n PROVE ReadRight(m)'
    <2>1. ReadRight(m) /\ at'[m] # "exit"
      BY <1>1 DEF ReadRight
    <2>2. QED
      BY <1>1, <1>4, <1>9, <2>1, ReadRightKept
  <1>10. QED
    BY <1>8, <1>9

\* No other step of node n reads anything.
LEMMA OtherStepsRight ==
  ASSUME IndInv, FillInv, UNCHANGED <<cells, visited>>,
         \A m \in Nodes : copy'[m] = copy[m] \/ at[m] = "wait",
         \A m \in Nodes : rowIdx'[m] = rowIdx[m]
                          \/ (cells[m] = <<>> /\ rowIdx[m] <= rowIdx'[m] /\ rowIdx'[m] \in Nat),
         \A m \in Nodes : at'[m] = "exit" => at[m] = "exit"
  PROVE  \A m \in Nodes : ReadRight(m)'
  <1> SUFFICES ASSUME NEW m \in Nodes PROVE ReadRight(m)'
    OBVIOUS
  <1>1. /\ Types /\ Readers /\ ReadRight(m) /\ cells' = cells /\ visited' = visited
        /\ at'[m] # "exit"
    BY DEF IndInv, FillInv, ReadRight
  <1>2. cells[m] = [c \in 1 .. Len(cells[m]) |-> <<c - 1, rowIdx'[m]>>]
    <2>1. CASE rowIdx'[m] = rowIdx[m]
      BY <1>1, <2>1 DEF ReadRight
    <2>2. CASE cells[m] = <<>>
      <3>1. Len(<<>>) = 0 /\ <<>> = [c \in 1 .. 0 |-> <<c - 1, rowIdx'[m]>>]
        OBVIOUS
      <3>2. QED
        BY <2>2, <3>1
    <2>3. QED
      BY <2>1, <2>2
  <1>3. \A i \in DOMAIN visited[m] :
          visited[m][i].row = [c \in 1 .. copy'[m].width |-> <<c - 1, visited[m][i].idx>>]
    <2>1. CASE copy'[m] = copy[m]
      BY <1>1, <2>1 DEF ReadRight
    <2>2. CASE at[m] = "wait"
      <3>1. visited[m] = <<>>
        BY <1>1, <2>2 DEF Readers, Waits
      <3>2. QED
        BY <3>1
    <2>3. QED
      BY <2>1, <2>2
  <1>4. \A i \in DOMAIN visited[m] : visited[m][i].idx < rowIdx'[m]
    <2> SUFFICES ASSUME NEW i \in DOMAIN visited[m] PROVE visited[m][i].idx < rowIdx'[m]
      OBVIOUS
    <2>1. visited[m][i].idx < rowIdx[m] /\ rowIdx[m] \in Nat
      BY <1>1 DEF ReadRight, Types
    <2>2. visited[m][i].idx \in Nat
      <3>1. visited[m] \in Seq([idx : Nat, row : Seq(Nat \X Nat)])
        BY <1>1 DEF Types
      <3>2. \A X : \A s \in Seq(X) : \A j \in DOMAIN s : s[j] \in X
        OBVIOUS
      <3>3. visited[m][i] \in [idx : Nat, row : Seq(Nat \X Nat)]
        BY <3>1, <3>2
      <3>4. QED
        BY <3>3
    <2>3. rowIdx[m] <= rowIdx'[m] /\ rowIdx'[m] \in Nat
      <3>1. CASE rowIdx'[m] = rowIdx[m]
        BY <2>1, <3>1
      <3>2. CASE rowIdx[m] <= rowIdx'[m] /\ rowIdx'[m] \in Nat
        BY <3>2
      <3>3. QED
        BY <3>1, <3>2
    <2>4. QED
      BY <2>1, <2>2, <2>3
  <1>5. cells'[m] = [c \in 1 .. Len(cells'[m]) |-> <<c - 1, rowIdx'[m]>>]
    BY <1>1, <1>2
  <1>6. \A i \in DOMAIN visited'[m] :
          visited'[m][i].row = [c \in 1 .. copy'[m].width |-> <<c - 1, visited'[m][i].idx>>]
    BY <1>1, <1>3
  <1>7. \A i \in DOMAIN visited'[m] :
          /\ visited'[m][i].idx < rowIdx'[m]
          /\ i > 1 => visited'[m][i - 1].idx < visited'[m][i].idx
    BY <1>1, <1>4 DEF ReadRight
  <1>8. QED
    BY <1>1, <1>5, <1>6, <1>7 DEF ReadRight

-----------------------------------------------------------------------------
(* The theorems of a dataframe that is filled once *)

\* The program starts with empty columns.
LEMMA InitFills ==
  ASSUME Init, FilledOnce
  PROVE  FillInv
  <1>1. IndInv
    BY InitHas
  <1>2. script \in Scripts /\ script \in Seq(Operation) /\ script # <<>> /\ building = "op" /\ nrows = 0
    BY DataFrameAssumption DEF Init
  <1>3. columns = [i \in 1 .. width |-> [size |-> 0, blocks |-> 0]] /\ width \in Nat
    BY Facts DEF Init
  <1>4. Head(script) = script[1] /\ (script[1].op # "visit" => width = 0)
    BY <1>2, TailFacts DEF Init
  <1>5. Even /\ Full
    <2>1. \A i \in DOMAIN columns : columns[i].size = 0 /\ columns[i].blocks = 0
      BY <1>3
    <2>2. BlockSize * 0 = 0
      BY Facts
    <2>3. QED
      BY <1>2, <2>1, <2>2 DEF Even, Full
  <1>6. \A i \in 2 .. Len(script) : script[i].op = "column"
    BY <1>2 DEF FilledOnce
  <1>7. Filling
    BY <1>2, <1>4, <1>5, <1>6 DEF Filling
  <1>8. DOMAIN store = {} /\ \A n \in Nodes : DOMAIN net[n] = {}
    BY DEF Init
  <1>9. Contents
    BY <1>8 DEF Contents
  <1>10. ASSUME NEW n \in Nodes PROVE ReadRight(n)
    <2>1. at[n] = "wait" /\ cells[n] = <<>> /\ visited[n] = <<>> /\ rowIdx[n] = 0
      BY DEF Init
    <2>2. <<>> = [c \in 1 .. 0 |-> <<c - 1, rowIdx[n]>>] /\ Len(<<>>) = 0
      OBVIOUS
    <2>3. QED
      BY <2>1, <2>2 DEF ReadRight
  <1>11. QED
    BY <1>7, <1>9, <1>10 DEF FillInv

\* The steps of the builder read nothing.
LEMMA BuildStepFills ==
  ASSUME IndInv, FillInv, Build
  PROVE  FillInv'
  <1>1. Filling /\ Contents
    BY DEF FillInv
  <1>2. Filling' /\ Contents'
    <2>1. CASE NewColumn
      BY <1>1, <2>1, NewColumnFills
    <2>2. CASE Visit
      BY <1>1, <2>2, VisitFills
    <2>3. CASE NextChunk
      BY <1>1, <2>3, NextChunkFills
    <2>4. CASE VisitDone
      BY <1>1, <2>4, VisitDoneFills
    <2>5. CASE AddBlock
      BY <1>1, <2>5, AddBlockFills
    <2>6. CASE ChunkColumnFilled
      BY <1>1, <2>6, ChunkColumnFilledFills
    <2>7. CASE ArrayFilled
      BY <1>1, <2>7, ArrayFilledFills
    <2>8. CASE ColumnFilled
      BY <1>1, <2>8, ColumnFilledFills
    <2>9. CASE Publish
      BY <1>1, <2>9, PublishFills
    <2>10. QED
      BY <2>1, <2>2, <2>3, <2>4, <2>5, <2>6, <2>7, <2>8, <2>9 DEF Build
  <1>3. UNCHANGED readVars
    BY DEF Build, NewColumn, Visit, NextChunk, VisitDone, AddBlock, ChunkColumnFilled, ArrayFilled,
           ColumnFilled, Publish
  <1>4. \A m \in Nodes : ReadRight(m)'
    BY <1>3, OtherStepsRight DEF readVars
  <1>5. QED
    BY <1>2, <1>4 DEF FillInv

\* The steps of the readers put nothing.
LEMMA ReadStepFills ==
  ASSUME IndInv, FillInv, NEW n \in Nodes, Reads(n)
  PROVE  FillInv'
  <1>1. Types /\ Readers /\ Filling /\ Contents
    BY DEF FillInv, IndInv
  <1>2. UNCHANGED <<buildVars, net, store>>
    BY DEF Reads, Open, Fetch, ReadCell, VisitRow, SkipBlock, Finish
  <1>3. Filling' /\ Contents'
    BY <1>1, <1>2, FillKept
  <1>4. \A m \in Nodes : ReadRight(m)'
    <2>1. CASE Open(n)
      <3>1. at[n] = "wait" /\ UNCHANGED <<rowIdx, cells, visited>> /\ at' = [at EXCEPT ![n] = "read"]
        BY <2>1 DEF Open
      <3>2. \A m \in Nodes : m # n => copy'[m] = copy[m]
        BY <1>1, <2>1 DEF Open, Types
      <3>3. \A m \in Nodes : at'[m] = "exit" => at[m] = "exit"
        BY <1>1, <3>1 DEF Types
      <3>4. QED
        BY <3>1, <3>2, <3>3, OtherStepsRight
    <2>2. CASE Fetch(n)
      BY <2>2, OtherStepsRight DEF Fetch
    <2>3. CASE ReadCell(n)
      BY <2>3, ReadCellRight
    <2>4. CASE VisitRow(n)
      BY <2>4, VisitRowRight
    <2>5. CASE SkipBlock(n)
      <3>1. /\ at[n] = "read" /\ rowIdx[n] < copy[n].nrows /\ ~Visits(n)
            /\ rowIdx' = [rowIdx EXCEPT ![n] = @ + (BlockSize - 1) + 1]
            /\ UNCHANGED <<at, copy, cells, visited>>
        BY <2>5 DEF SkipBlock
      <3>2. cells[n] = <<>> /\ rowIdx[n] \in Nat /\ BlockSize \in Nat \ {0}
        BY <3>1, ReadingFacts, Facts DEF HasRead
      <3>3. rowIdx[n] + (BlockSize - 1) + 1 = rowIdx[n] + BlockSize
        BY <3>2
      <3>4. /\ rowIdx'[n] = rowIdx[n] + BlockSize
            /\ \A m \in Nodes : m # n => rowIdx'[m] = rowIdx[m]
        BY <1>1, <3>1, <3>3 DEF Types
      <3>5. rowIdx[n] <= rowIdx'[n] /\ rowIdx'[n] \in Nat
        BY <3>2, <3>4
      <3>6. QED
        BY <3>1, <3>2, <3>4, <3>5, OtherStepsRight
    <2>6. CASE Finish(n)
      <3>1. /\ at' = [at EXCEPT ![n] = "done"] /\ UNCHANGED <<copy, rowIdx, cells, visited>>
        BY <2>6 DEF Finish
      <3>2. \A m \in Nodes : at'[m] = "exit" => at[m] = "exit"
        BY <1>1, <3>1 DEF Types
      <3>3. QED
        BY <3>1, <3>2, OtherStepsRight
    <2>7. QED
      BY <2>1, <2>2, <2>3, <2>4, <2>5, <2>6 DEF Reads
  <1>5. QED
    BY <1>3, <1>4 DEF FillInv

\* A put that arrives has the right value, too.
LEMMA DeliverFills ==
  ASSUME IndInv, FillInv, NEW n \in Nodes, Deliver(n)
  PROVE  FillInv'
  <1>1. /\ Types /\ Stores /\ Filling /\ Contents /\ UNCHANGED <<buildVars, readVars>>
        /\ UNCHANGED <<script, columns, nrows, width, left, adding, building>>
    BY DEF FillInv, IndInv, Deliver, buildVars
  <1>2. Filling'
    <2>1. (Even' <=> Even) /\ (Full' <=> Full) /\ (ChunkAdded' <=> ChunkAdded) /\ (NewCol' <=> NewCol)
      BY <1>1 DEF Even, Full, ChunkAdded, NewCol, Min2
    <2>2. QED
      BY <1>1, <2>1 DEF Filling
  <1>3. ValuesStay
    <2>1. \A c \in Nat : c < Len(columns) => Total(c)' = Total(c)
      BY <1>1 DEF Total
    <2>2. QED
      BY <2>1, TotalsKept
  <1>4. Contents'
    BY <1>1, <1>3, ContentsDelivered
  <1>5. \A m \in Nodes : ReadRight(m)'
    BY <1>1, OtherStepsRight DEF readVars
  <1>6. QED
    BY <1>2, <1>4, <1>5 DEF FillInv

\* Every step keeps what the columns have.
LEMMA NextFills ==
  ASSUME IndInv, FillInv, [Next]_vars
  PROVE  FillInv'
  <1>1. CASE Build
    BY <1>1, BuildStepFills
  <1>2. ASSUME NEW n \in Nodes, Deliver(n) PROVE FillInv'
    BY <1>2, DeliverFills
  <1>3. ASSUME NEW n \in Nodes, Reads(n) PROVE FillInv'
    BY <1>3, ReadStepFills
  <1>4. CASE UNCHANGED vars
    <2>1. Filling' /\ Contents'
      BY <1>4, FillKept DEF FillInv, vars
    <2>2. \A m \in Nodes : ReadRight(m)'
      BY <1>4, OtherStepsRight DEF vars, readVars
    <2>3. QED
      BY <2>1, <2>2 DEF FillInv
  <1>5. QED
    BY <1>1, <1>2, <1>3, <1>4 DEF Next

\* Every block that was put, in a store or on its way, has exactly the elements of its rows,
\* however many calls of add_all have cut the column (column.h add_all, dataframe.h visit).
THEOREM BlocksAreRight == ASSUME FilledOnce PROVE Spec => []FillInv
  <1>1. Init => FillInv
    BY InitFills
  <1>2. IndInv /\ FillInv /\ [Next]_vars => FillInv'
    BY NextFills
  <1>3. QED
    BY <1>1, <1>2, Inductive, PTL DEF Spec

\* The types, and the keys in the stores.
LEMMA TypesHold ==
  ASSUME IndInv
  PROVE  TypeOK
  <1>1. Types /\ Building /\ Stores
    BY DEF IndInv
  <1>2. width \in 0 .. Len(columns)
    <2>1. Len(columns) \in Nat /\ width \in Nat
      BY <1>1, ColumnFacts DEF Types
    <2>2. width = Len(columns) - 1 \/ width = Len(columns)
      BY <1>1 DEF Building
    <2>3. QED
      BY <2>1, <2>2
  <1>3. \A k \in DOMAIN store \ {DfKey} : k[1] < Len(columns) /\ k[2] < columns[k[1] + 1].blocks
    BY <1>1 DEF Stores, KeyOk
  <1>4. ASSUME NEW n \in Nodes PROVE Len(cells[n]) <= copy[n].width
    <2>1. CASE at[n] = "wait"
      <3>1. cells[n] = <<>> /\ copy[n].width \in Nat
        BY <1>1, <2>1 DEF IndInv, Readers, Waits, Types
      <3>2. Len(<<>>) = 0
        OBVIOUS
      <3>3. QED
        BY <3>1, <3>2
    <2>2. CASE at[n] # "wait"
      BY <2>2, ReadingFacts DEF HasRead
    <2>3. QED
      BY <2>1, <2>2
  <1>5. adding.added <= adding.len
    BY <1>1 DEF Building
  <1>6. QED
    BY <1>1, <1>2, <1>3, <1>4, <1>5 DEF Types, TypeOK

\* A dataframe that is published has as many elements in each column as rows in its schema
\* (dataframe.h add_array, add_column, addRowChunk_).
THEOREM PublishedIsTable == ASSUME FilledOnce PROVE Spec => []RowCount
  <1>1. IndInv /\ FillInv => RowCount
    <2> SUFFICES ASSUME IndInv, FillInv PROVE RowCount
      OBVIOUS
    <2>1. TypeOK
      BY TypesHold
    <2>2. building = "built" => Even
      BY DEF FillInv, Filling
    <2>3. building = "built" => width = Len(columns)
      BY DEF IndInv, Building, NewCol
    <2>4. QED
      BY <2>1, <2>2, <2>3 DEF RowCount, Even
  <1>2. QED
    BY <1>1, Inductive, BlocksAreRight, PTL

\* A Reader is given its rows in order, each with the elements that were appended at its place,
\* and no read is beyond the end of a block (dataframe.h map, local_map, column.h get).
THEOREM ReadsBackRight == ASSUME FilledOnce PROVE Spec => []ReadsBack
  <1>1. FillInv => ReadsBack
    BY DEF FillInv, ReadRight, ReadsBack
  <1>2. QED
    BY <1>1, BlocksAreRight, PTL
=============================================================================
