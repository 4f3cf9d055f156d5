------------------------------ MODULE DataFrame ------------------------------
(***************************************************************************)
(* A distributed dataframe: one node builds it, its columns are cut into   *)
(* blocks that are put into the stores of all nodes, the dataframe itself  *)
(* (sizes and keys, no data) is put last, and every node reads it back     *)
(* through caches, all rows (map) or the rows of its own blocks            *)
(* (local_map).                                                            *)
(*                                                                         *)
(* The stores are those of module KVStore, by what they promise: a put     *)
(* arrives at the home node of its key some time after it was sent, puts   *)
(* of one node at another arrive in order, and a blocking get waits for    *)
(* its key.  The four types of columns and blocks differ in nothing that   *)
(* is modelled, and the i-th element appended to column c is <<c, i>>.     *)
(***************************************************************************)
EXTENDS Integers, Sequences, FiniteSets

CONSTANTS
  NumNodes,   \* args.numNodes
  BlockSize,  \* args.blockSize
  CacheSize,  \* maxSize_ of a cache
  Builder,    \* the node that builds the dataframe
  DfHome,     \* the node of the key of the dataframe
  Width,      \* the columns of the schema that a Writer fills
  Scripts,    \* the sequences of operations that build a dataframe
  Modes       \* how the nodes read it

Nodes == 0 .. NumNodes - 1

\* An operation visits a Writer of so many rows, adds an array of that length, or adds
\* a column that was filled with as many elements.
Operation == [op : {"visit", "array", "column"}, len : Nat]

ASSUME DataFrameAssumption ==
  /\ NumNodes \in Nat \ {0}
  /\ BlockSize \in Nat \ {0}
  /\ CacheSize \in Nat \ {0}
  /\ Builder \in Nodes /\ DfHome \in Nodes
  /\ Width \in Nat \ {0}
  /\ Scripts \subseteq Seq(Operation) \ {<<>>}
  /\ Modes \subseteq {"map", "local_map"}

VARIABLES
  script,   \* the operations that the builder has not finished
  columns,  \* columns_: the size_ of every column, and how many keys blocks_ has
  nrows,    \* the number of rows in schema_
  width,    \* the number of columns in schema_
  left,     \* the rows of the Writer that are not in the columns yet
  adding,   \* the call of add_all: its column (from 0), len, len_added, blockCountBefore
  building, \* where the builder is
  net,      \* net[n]: the puts on their way to node n
  store,    \* store[k]: the value that the home of key k has for it
  at,       \* at[n]: where node n is in reading the dataframe
  mode,     \* mode[n]: whether it calls map or local_map
  copy,     \* copy[n]: the rows and columns of the dataframe that node n reads
  rowIdx,   \* rowIdx[n]: the loop counter of map and local_map
  cells,    \* cells[n]: the elements of the row that were read so far
  order,    \* order[n][c]: keyOrder_ of the cache of column c at node n
  data,     \* data[n][c]: data_ of that cache, from block numbers to blocks
  visited   \* visited[n]: the rows that the Reader of node n has visited

buildVars == <<script, columns, nrows, width, left, adding, building>>
readVars  == <<at, mode, copy, rowIdx, cells, order, data, visited>>
vars      == <<buildVars, net, store, readVars>>

-----------------------------------------------------------------------------

Min2(a, b) == IF a < b THEN a ELSE b

\* The block that holds a row, and the place of the row in it.
Chunk(r)      == r \div BlockSize
IdxInChunk(r) == r % BlockSize

\* The node that the key of block b is homed at, in every column.
Home(b) == b % NumNodes

\* genKey_, and the key of the dataframe itself.
BlockKey(c, b) == <<c, b>>
DfKey          == <<"df">>

\* The stores once key k has value v.
Stored(k, v) == [x \in DOMAIN store \cup {k} |-> IF x = k THEN v ELSE store[x]]

\* Key k gets value v in the store of its home, now if that is the builder itself.
Put(k, v, home) ==
  IF home = Builder
  THEN store' = Stored(k, v) /\ UNCHANGED net
  ELSE net' = [net EXCEPT ![home] = Append(@, <<k, v>>)] /\ UNCHANGED store

Init ==
  /\ script \in Scripts
  /\ width = IF script[1].op = "visit" THEN Width ELSE 0
  /\ columns = [i \in 1 .. width |-> [size |-> 0, blocks |-> 0]]
  /\ nrows = 0
  /\ left = 0
  /\ adding = [col |-> 0, len |-> 0, added |-> 0, before |-> 0]
  /\ building = "op"
  /\ net = [n \in Nodes |-> <<>>]
  /\ store = <<>>
  /\ at = [n \in Nodes |-> "wait"]
  /\ mode \in [Nodes -> Modes]
  /\ copy = [n \in Nodes |-> [nrows |-> 0, width |-> 0]]
  /\ rowIdx = [n \in Nodes |-> 0]
  /\ cells = [n \in Nodes |-> <<>>]
  /\ order = [n \in Nodes |-> <<>>]
  /\ data = [n \in Nodes |-> <<>>]
  /\ visited = [n \in Nodes |-> <<>>]

-----------------------------------------------------------------------------
(***************************************************************************)
(* The builder.                                                            *)
(***************************************************************************)

\* The call of add_all for column c (from 0) with len elements.
AddAll(c, len, cols) ==
  /\ adding' = [col |-> c, len |-> len, added |-> 0, before |-> cols[c + 1].blocks]
  /\ building' = "add"

\* The operation is over; after the last one the dataframe is put.
OpDone ==
  /\ script' = Tail(script)
  /\ building' = IF Len(script) = 1 THEN "publish" ELSE "op"

\* A new column, which add_all fills before the dataframe gets it.
NewColumn ==
  /\ building = "op"
  /\ Head(script).op \in {"array", "column"}
  /\ columns' = Append(columns, [size |-> 0, blocks |-> 0])
  /\ AddAll(Len(columns), Head(script).len, columns')
  /\ UNCHANGED <<script, nrows, width, left, net, store, readVars>>

\* visit takes the rows of the Writer.
Visit ==
  /\ building = "op"
  /\ Head(script).op = "visit"
  /\ left' = Head(script).len
  /\ building' = "chunk"
  /\ UNCHANGED <<script, columns, nrows, width, adding, net, store, readVars>>

\* A chunk of at most blockSize rows is full, or the Writer is done: addRowChunk_
\* starts with the first column.
NextChunk ==
  /\ building = "chunk"
  /\ left > 0
  /\ AddAll(0, Min2(left, BlockSize), columns)
  /\ UNCHANGED <<script, columns, nrows, width, left, net, store, readVars>>

VisitDone ==
  /\ building = "chunk"
  /\ left = 0
  /\ OpDone
  /\ UNCHANGED <<columns, nrows, width, left, adding, net, store, readVars>>

\* Mutants: the number of a block without the blocks of earlier calls, and by elements.
NumberFromZero  == adding.added \div BlockSize
\* The number of the next block of the column, and the elements it takes.
Number   == adding.before + adding.added \div BlockSize
Amount   == Min2(adding.len - adding.added, BlockSize)
Elements == [i \in 1 .. Amount |->
               <<adding.col, columns[adding.col + 1].size + adding.added + i - 1>>]

\* A mutant: a block that is not full is not put.
AddFullBlock ==
  /\ building = "add"
  /\ adding.added < adding.len
  /\ IF Amount = BlockSize
     THEN Put(BlockKey(adding.col, Number), Elements, Home(Number))
     ELSE UNCHANGED <<net, store>>
  /\ columns' = [columns EXCEPT ![adding.col + 1].blocks = @ + 1]
  /\ adding' = [adding EXCEPT !.added = @ + Amount]
  /\ UNCHANGED <<script, nrows, width, left, building, readVars>>

\* One turn of the loop of add_all: the next elements are serialized as a block that
\* is put under the next key.
AddBlock ==
  /\ building = "add"
  /\ adding.added < adding.len
  /\ Put(BlockKey(adding.col, Number), Elements, Home(Number))
  /\ columns' = [columns EXCEPT ![adding.col + 1].blocks = @ + 1]
  /\ adding' = [adding EXCEPT !.added = @ + Amount]
  /\ UNCHANGED <<script, nrows, width, left, building, readVars>>

\* The end of add_all, after which size_ counts the elements.
Filled ==
  /\ building = "add"
  /\ adding.added = adding.len
  /\ columns' = [columns EXCEPT ![adding.col + 1].size = @ + adding.len]

\* A mutant: the rows of a chunk are counted for each of its columns.
ChunkColumnCounted ==
  /\ Filled
  /\ Head(script).op = "visit"
  /\ nrows' = nrows + adding.len
  /\ IF adding.col + 1 < width
     THEN AddAll(adding.col + 1, adding.len, columns) /\ UNCHANGED left
     ELSE left' = left - adding.len /\ building' = "chunk" /\ UNCHANGED adding
  /\ UNCHANGED <<script, width, net, store, readVars>>

\* addRowChunk_ goes on with the next column, or is done with the chunk.
ChunkColumnFilled ==
  /\ Filled
  /\ Head(script).op = "visit"
  /\ IF adding.col + 1 < width
     THEN /\ AddAll(adding.col + 1, adding.len, columns)
          /\ UNCHANGED <<nrows, left>>
     ELSE /\ nrows' = nrows + adding.len
          /\ left' = left - adding.len
          /\ building' = "chunk"
          /\ UNCHANGED adding
  /\ UNCHANGED <<script, width, net, store, readVars>>

\* add_array counts the column and its elements.
ArrayFilled ==
  /\ Filled
  /\ Head(script).op = "array"
  /\ width' = width + 1
  /\ nrows' = nrows + adding.len
  /\ OpDone
  /\ UNCHANGED <<left, adding, net, store, readVars>>

\* add_column counts the column, if it is as long as the dataframe has rows.
ColumnFilled ==
  /\ Filled
  /\ Head(script).op = "column"
  /\ IF adding.len = nrows
     THEN width' = width + 1 /\ OpDone
     ELSE building' = "exit" /\ UNCHANGED <<script, width>>
  /\ UNCHANGED <<nrows, left, adding, net, store, readVars>>

\* addDFToStore_: the dataframe is serialized and put.
Publish ==
  /\ building = "publish"
  /\ Put(DfKey, [nrows |-> nrows, width |-> width], DfHome)
  /\ building' = "built"
  /\ UNCHANGED <<script, columns, nrows, width, left, adding, readVars>>

\* A node receives a put.
Deliver(n) ==
  /\ net[n] # <<>>
  /\ store' = Stored(net[n][1][1], net[n][1][2])
  /\ net' = [net EXCEPT ![n] = Tail(@)]
  /\ UNCHANGED <<buildVars, readVars>>

-----------------------------------------------------------------------------
(***************************************************************************)
(* The readers.                                                            *)
(***************************************************************************)

\* Node n has the dataframe: it has built it, or its waitAndGet returns.
Open(n) ==
  /\ at[n] = "wait"
  /\ \/ n = Builder /\ building = "built"
        /\ copy' = [copy EXCEPT ![n] = [nrows |-> nrows, width |-> width]]
     \/ n # Builder /\ DfKey \in DOMAIN store
        /\ copy' = [copy EXCEPT ![n] = store[DfKey]]
  /\ order' = [order EXCEPT ![n] = [c \in 0 .. copy'[n].width - 1 |-> <<>>]]
  /\ data' = [data EXCEPT ![n] = [c \in 0 .. copy'[n].width - 1 |-> <<>>]]
  /\ at' = [at EXCEPT ![n] = "read"]
  /\ UNCHANGED <<buildVars, net, store, mode, rowIdx, cells, visited>>

\* A mutant: the rows are dealt out one by one.
VisitsByRow(n) ==
  /\ at[n] = "read"
  /\ rowIdx[n] < copy[n].nrows
  /\ mode[n] = "local_map" => rowIdx[n] % NumNodes = n

\* The row at rowIdx is one that the loop visits.
Visits(n) ==
  /\ at[n] = "read"
  /\ rowIdx[n] < copy[n].nrows
  /\ mode[n] = "local_map" => Home(Chunk(rowIdx[n])) = n

\* The column that the row is at, and the block that has the element.
Col(n)   == Len(cells[n])
Block(n) == Chunk(rowIdx[n])

\* A mutant: the cache is full one block too late.
CachePutLate(n, c, b, block) ==
  LET full == CacheSize < Cardinality(DOMAIN data[n][c])
      kept == IF full THEN Tail(order[n][c]) ELSE order[n][c]
      old  == IF full THEN {Head(order[n][c])} ELSE {}
  IN  /\ order' = [order EXCEPT ![n][c] = Append(kept, b)]
      /\ data' = [data EXCEPT ![n][c] =
                    [x \in (DOMAIN @ \ old) \cup {b} |-> IF x = b THEN block ELSE @[x]]]

\* The cache with another block in it; a full one loses the oldest.
CachePut(n, c, b, block) ==
  LET full == CacheSize <= Cardinality(DOMAIN data[n][c])
      kept == IF full THEN Tail(order[n][c]) ELSE order[n][c]
      old  == IF full THEN {Head(order[n][c])} ELSE {}
  IN  /\ order' = [order EXCEPT ![n][c] = Append(kept, b)]
      /\ data' = [data EXCEPT ![n][c] =
                    [x \in (DOMAIN @ \ old) \cup {b} |-> IF x = b THEN block ELSE @[x]]]

\* The block is not cached: a blocking getValue, which takes until it is in the store.
Fetch(n) ==
  /\ Visits(n)
  /\ Col(n) < copy[n].width
  /\ Block(n) \notin DOMAIN data[n][Col(n)]
  /\ BlockKey(Col(n), Block(n)) \in DOMAIN store
  /\ CachePut(n, Col(n), Block(n), store[BlockKey(Col(n), Block(n))])
  /\ UNCHANGED <<buildVars, net, store, at, mode, copy, rowIdx, cells, visited>>

\* The element is read from the cached block.  A block that is too short ends the
\* program.
ReadCell(n) ==
  /\ Visits(n)
  /\ Col(n) < copy[n].width
  /\ Block(n) \in DOMAIN data[n][Col(n)]
  /\ LET block == data[n][Col(n)][Block(n)]
         i     == IdxInChunk(rowIdx[n])
     IN  IF i < Len(block)
         THEN cells' = [cells EXCEPT ![n] = Append(@, block[i + 1])] /\ UNCHANGED at
         ELSE at' = [at EXCEPT ![n] = "exit"] /\ UNCHANGED cells
  /\ UNCHANGED <<buildVars, net, store, mode, copy, rowIdx, order, data, visited>>

\* The Reader visits the row, and the loop goes on.
VisitRow(n) ==
  /\ Visits(n)
  /\ Col(n) = copy[n].width
  /\ visited' = [visited EXCEPT ![n] = Append(@, [idx |-> rowIdx[n], row |-> cells[n]])]
  /\ cells' = [cells EXCEPT ![n] = <<>>]
  /\ rowIdx' = [rowIdx EXCEPT ![n] = @ + 1]
  /\ UNCHANGED <<buildVars, net, store, at, mode, copy, order, data>>

\* A mutant: the increment of the loop comes on top of the whole block.
SkipTooFar(n) ==
  /\ at[n] = "read"
  /\ rowIdx[n] < copy[n].nrows
  /\ ~Visits(n)
  /\ rowIdx' = [rowIdx EXCEPT ![n] = @ + BlockSize + 1]
  /\ UNCHANGED <<buildVars, net, store, at, mode, copy, cells, order, data, visited>>

\* local_map goes past a block of another node, with the increment of the loop.
SkipBlock(n) ==
  /\ at[n] = "read"
  /\ rowIdx[n] < copy[n].nrows
  /\ ~Visits(n)
  /\ rowIdx' = [rowIdx EXCEPT ![n] = @ + (BlockSize - 1) + 1]
  /\ UNCHANGED <<buildVars, net, store, at, mode, copy, cells, order, data, visited>>

Finish(n) ==
  /\ at[n] = "read"
  /\ rowIdx[n] >= copy[n].nrows
  /\ at' = [at EXCEPT ![n] = "done"]
  /\ UNCHANGED <<buildVars, net, store, mode, copy, rowIdx, cells, order, data, visited>>

-----------------------------------------------------------------------------

Build ==
  \/ NewColumn \/ Visit \/ NextChunk \/ VisitDone \/ AddBlock
  \/ ChunkColumnFilled \/ ArrayFilled \/ ColumnFilled \/ Publish

Reads(n) ==
  Open(n) \/ Fetch(n) \/ ReadCell(n) \/ VisitRow(n) \/ SkipBlock(n) \/ Finish(n)

Next ==
  \/ Build
  \/ \E n \in Nodes : Deliver(n) \/ Reads(n)

Spec == Init /\ [][Next]_vars

\* Every thread is scheduled, and every message arrives.
FairSpec ==
  /\ Spec
  /\ WF_vars(Build)
  /\ \A n \in Nodes : WF_vars(Deliver(n)) /\ WF_vars(Reads(n))

-----------------------------------------------------------------------------
\* What the programs of the repository do (DataToDf, WordCount): a dataframe is filled once,
\* by a Writer or from an array, and may get whole columns afterwards.
FilledOnce == \A s \in Scripts : \A i \in 2 .. Len(s) : s[i].op = "column"

-----------------------------------------------------------------------------
(***************************************************************************)
(* Properties.                                                             *)
(***************************************************************************)

TypeOK ==
  /\ script \in Seq(Operation)
  /\ columns \in Seq([size : Nat, blocks : Nat])
  /\ nrows \in Nat /\ width \in 0 .. Len(columns) /\ left \in Nat
  /\ adding \in [col : Nat, len : Nat, added : Nat, before : Nat]
  /\ adding.added <= adding.len
  /\ building \in {"op", "chunk", "add", "publish", "built", "exit"}
  /\ \A k \in DOMAIN store \ {DfKey} :
       k[1] < Len(columns) /\ k[2] < columns[k[1] + 1].blocks
  /\ at \in [Nodes -> {"wait", "read", "done", "exit"}]
  /\ mode \in [Nodes -> Modes]
  /\ copy \in [Nodes -> [nrows : Nat, width : Nat]]
  /\ rowIdx \in [Nodes -> Nat]
  /\ \A n \in Nodes : Len(cells[n]) <= copy[n].width

\* What is published is a table: every column has as many elements as the schema has
\* rows (dataframe.h add_array, add_column, addRowChunk_).
RowCount ==
  /\ TypeOK
  /\ building = "built" =>
       width = Len(columns) /\ \A i \in DOMAIN columns : columns[i].size = nrows

\* A Reader visits the rows in order, and every row it visits has the elements that
\* were appended to the columns at that position; no read is out of bounds.  This
\* relates how add_all cuts a column to how get_int finds an element of it.
ReadsBack ==
  \A n \in Nodes :
    /\ at[n] # "exit"
    /\ \A i \in DOMAIN visited[n] :
         LET v == visited[n][i] IN
           /\ v.row = [c \in 1 .. copy[n].width |-> <<c - 1, v.idx>>]
           /\ i > 1 => visited[n][i - 1].idx < v.idx

Rows(n) == {visited[n][i].idx : i \in DOMAIN visited[n]}

\* The local_maps of the nodes share out the rows: no two nodes visit the same row, and
\* when all are done, every row was visited by one.  A map visits them all.  The
\* report suspects otherwise (report/doc.md:480-484): Linus finds other sets with other
\* numbers of nodes, and local_map (dataframe.h:291-318) is taken for the cause.  That
\* local_map loses or repeats rows, with any number of nodes, is what this property
\* excludes; the report's observation needs another cause.
EachRowOnce ==
  /\ \A n, m \in Nodes :
       (n # m /\ mode[n] = "local_map" /\ mode[m] = "local_map") => Rows(n) \cap Rows(m) = {}
  /\ \A n \in Nodes :
       (at[n] = "done" /\ mode[n] = "map") => Rows(n) = 0 .. copy[n].nrows - 1
  /\ (\A n \in Nodes : at[n] = "done" /\ mode[n] = "local_map")
       => UNION {Rows(n) : n \in Nodes} = 0 .. nrows - 1

\* A node that calls local_map asks no other node for a block: what it has cached is
\* homed at itself (genKey_ and local_map compute the node of a row each on its own).
LocalMapStaysLocal ==
  \A n \in Nodes : mode[n] = "local_map" =>
    \A c \in DOMAIN data[n] : \A b \in DOMAIN data[n][c] :
      Home(b) = n /\ BlockKey(c, b) \in DOMAIN store

\* A cache has at most maxSize_ blocks, its queue has each of their keys once, and each
\* block is what the store has (cache.h put asserts that the sizes agree).
CacheSound ==
  \A n \in Nodes : \A c \in DOMAIN data[n] :
    LET keys == {order[n][c][i] : i \in DOMAIN order[n][c]} IN
      /\ DOMAIN data[n][c] = keys
      /\ Len(order[n][c]) = Cardinality(keys)
      /\ Cardinality(keys) <= CacheSize
      /\ \A b \in keys : data[n][c][b] = store[BlockKey(c, b)]

\* Every node is through with the dataframe in the end, although the blocks arrive
\* after, and in another order than, the dataframe that refers to them.  Only a column
\* of the wrong length, which ends the builder, keeps the others waiting.
AllFinish == <>(building = "exit" \/ \A n \in Nodes : at[n] = "done")

=============================================================================
