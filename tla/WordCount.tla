------------------------------- MODULE WordCount -------------------------------
(***************************************************************************)
(* The WordCount application: node 0 reads the words of a file into a       *)
(* dataframe, every node counts those in its own rows, and node 0 merges    *)
(* the dataframes of the nodes.  A map of words is its buckets, each the    *)
(* sequence of its entries; Summer walks over them.                          *)
(*                                                                           *)
(* Of the store the application uses what SharedStore promises: a dataframe  *)
(* that was put can be waited for.                                           *)
(***************************************************************************)
EXTENDS FileReader, FiniteSetsExt

CONSTANTS
  NumNodes,   \* args.numNodes
  BlockSize,  \* args.blockSize
  Capacity,   \* capacity_ of a map
  Hash(_)     \* hash of a word

ASSUME WordCountAssumption ==
  NumNodes \in Nat \ {0} /\ BlockSize \in Nat \ {0} /\ Capacity \in Nat \ {0}

Nodes == 0 .. NumNodes - 1

VARIABLES
  pc,     \* pc[n]: where node n is in run_
  ready,  \* whether the dataframe of the words was put, with key data
  map,    \* map[n]: the map of local_count, and on node 0 later that of reduce
  row,    \* row[n]: the next row that its Adder visits
  sum,    \* sum[n]: the position of its Summer, and the rows that it wrote
  local,  \* local[n]: the rows [word, count] of the dataframe wc-m<n>
  put,    \* the nodes whose dataframe was put
  from    \* the node whose dataframe node 0 merges

countVars == <<pc, ready, map, row, sum, local, put, from>>
vars == <<readerVars, countVars>>

Empty == [b \in 0 .. Capacity - 1 |-> <<>>]
Start == [i |-> 0, j |-> 0, seen |-> 0, rows |-> <<>>]

Init ==
  /\ InitReader
  /\ pc = [n \in Nodes |-> IF n = 0 THEN "read" ELSE "wait"]
  /\ ready = FALSE
  /\ map = [n \in Nodes |-> Empty]
  /\ row = [n \in Nodes |-> 1]
  /\ sum = [n \in Nodes |-> Start]
  /\ local = [n \in Nodes |-> <<>>]
  /\ put = {} /\ from = 0

-----------------------------------------------------------------------------
(* Adder and Summer *)

\* Adder: a word that the map has not is put with 1, any other gets one more.
Add(m, word) ==
  LET b   == Hash(word) % Capacity
      pos == {k \in DOMAIN m[b] : m[b][k].word = word}
  IN  IF pos = {} THEN [m EXCEPT ![b] = Append(@, [word |-> word, count |-> 1])]
      ELSE [m EXCEPT ![b] = [k \in DOMAIN m[b] |->
             IF k \in pos THEN [word |-> word, count |-> m[b][k].count + 1] ELSE m[b][k]]]

\* Where the entries of a map are, and their number.
Positions(m) == UNION {{b} \X DOMAIN m[b] : b \in DOMAIN m}
Size(m)      == Cardinality(Positions(m))

\* The next bucket that was ever used.
NextBucket(m, s) ==
  LET after == {b \in DOMAIN m : b > s.i /\ m[b] # <<>>}
  IN  [s EXCEPT !.i = IF after = {} THEN Capacity ELSE Min(after), !.j = 0]

\* Summer::k is an entry; j counts from 0.
AtEntry(m, s) == s.i < Capacity /\ s.j < Len(m[s.i])

\* Summer::next
NextEntry(m, s) ==
  IF s.i = Capacity THEN s
  ELSE IF AtEntry(m, s) THEN [s EXCEPT !.j = @ + 1, !.seen = @ + 1]
  ELSE NextBucket(m, s)

\* Summer::visit: the row of the entry at the position, or else of the next one.
VisitEntry(m, s) ==
  LET found == IF AtEntry(m, s) THEN s ELSE NextEntry(m, s)
  IN  NextEntry(m, [found EXCEPT !.rows = Append(@, m[found.i][found.j + 1])])

-----------------------------------------------------------------------------
(* run_ and local_count *)

Goto(n, label) == pc' = [pc EXCEPT ![n] = label]

\* Node 0 visits the FileReader,
ReadWord ==
  /\ pc[0] = "read"
  /\ ReaderStep
  /\ UNCHANGED countVars

\* and puts the dataframe of the words.
PutWords ==
  /\ pc[0] = "read" /\ at = "closed"
  /\ ready' = TRUE
  /\ Goto(0, "wait")
  /\ UNCHANGED <<readerVars, map, row, sum, local, put, from>>

StartCount(n) ==
  /\ pc[n] = "wait" /\ ready
  /\ Goto(n, "count")
  /\ UNCHANGED <<readerVars, ready, map, row, sum, local, put, from>>

\* A mutant: a node has one block and no more.
IsLocalOnce(n, r) == (r - 1) \div BlockSize = n

\* local_map shows row r to node n.
IsLocal(n, r) == ((r - 1) \div BlockSize) % NumNodes = n

CountRow(n) ==
  /\ pc[n] = "count" /\ row[n] <= Len(words)
  /\ map' = [map EXCEPT ![n] = IF IsLocal(n, row[n]) THEN Add(@, words[row[n]]) ELSE @]
  /\ row' = [row EXCEPT ![n] = @ + 1]
  /\ UNCHANGED <<readerVars, pc, ready, sum, local, put, from>>

StartSum(n) ==
  /\ pc[n] = "count" /\ row[n] > Len(words)
  /\ Goto(n, "sum")
  /\ UNCHANGED <<readerVars, ready, map, row, sum, local, put, from>>

\* Summer::done
SumDone(n) == sum[n].seen = Size(map[n])

SumEntry(n) ==
  /\ pc[n] = "sum" /\ ~SumDone(n)
  /\ sum' = [sum EXCEPT ![n] = VisitEntry(map[n], @)]
  /\ UNCHANGED <<readerVars, pc, ready, map, row, local, put, from>>

\* The counts are put; reduce, on node 0, starts with a map of its own.
PutCounts(n) ==
  /\ pc[n] = "sum" /\ SumDone(n)
  /\ local' = [local EXCEPT ![n] = sum[n].rows]
  /\ put' = put \cup {n}
  /\ map' = [map EXCEPT ![n] = Empty]
  /\ row' = [row EXCEPT ![n] = 1]
  /\ Goto(n, IF n = 0 THEN "reduce" ELSE "done")
  /\ UNCHANGED <<readerVars, ready, sum, from>>

-----------------------------------------------------------------------------
(* reduce *)

\* The Adder visits a row of the dataframe of node from, once that was put.
MergeRow ==
  /\ pc[0] = "reduce" /\ from \in put
  /\ row[0] <= Len(local[from])
  /\ map' = [map EXCEPT ![0] = Add(@, local[from][row[0]].word)]
  /\ row' = [row EXCEPT ![0] = @ + 1]
  /\ UNCHANGED <<readerVars, pc, ready, sum, local, put, from>>

\* A mutant: the rows of the next node are not started from the first.
MergeNextKeeping ==
  /\ pc[0] = "reduce" /\ from \in put
  /\ row[0] > Len(local[from])
  /\ from' = from + 1
  /\ UNCHANGED <<readerVars, pc, ready, map, row, sum, local, put>>

MergeNext ==
  /\ pc[0] = "reduce" /\ from \in put
  /\ row[0] > Len(local[from])
  /\ from' = from + 1
  /\ row' = [row EXCEPT ![0] = 1]
  /\ UNCHANGED <<readerVars, pc, ready, map, sum, local, put>>

\* A mutant: one more node is waited for.
ReducedBeyond == from > NumNodes

Reduced == from = NumNodes

\* "Different words" is the size of the map.
Finish ==
  /\ pc[0] = "reduce" /\ Reduced
  /\ Goto(0, "done")
  /\ UNCHANGED <<readerVars, ready, map, row, sum, local, put, from>>

Node0   == ReadWord \/ PutWords \/ MergeRow \/ MergeNext \/ Finish
Node(n) == StartCount(n) \/ CountRow(n) \/ StartSum(n) \/ SumEntry(n) \/ PutCounts(n)
Next    == Node0 \/ \E n \in Nodes : Node(n)

Spec == Init /\ [][Next]_vars

\* Every node runs run_ in a thread of its own.
FairSpec == Spec /\ WF_vars(Node0) /\ \A n \in Nodes : WF_vars(Node(n))

-----------------------------------------------------------------------------
(* Properties *)

Labels == {"open", "skip", "space", "between", "word", "char", "closed"}
MapRow == [word : Seq(Chars \cup {Nul, Junk}), count : Nat \ {0}]

\* Every variable holds what the code's declarations allow.
TypeOK ==
  /\ file \in Files /\ rest \in Seq(Chars) /\ eof \in BOOLEAN
  /\ buf \in [0 .. BufSize -> Chars \cup {Nul}]
  /\ i \in Nat /\ end \in 0 .. BufSize /\ wStart \in 0 .. BufSize
  /\ at \in Labels
  /\ words \in Seq(Seq(Chars \cup {Nul, Junk}))
  /\ pc \in [Nodes -> {"read", "wait", "count", "sum", "reduce", "done"}]
  /\ ready \in BOOLEAN /\ put \subseteq Nodes /\ from \in 0 .. NumNodes
  /\ map \in [Nodes -> [0 .. Capacity - 1 -> Seq(MapRow)]]
  /\ row \in [Nodes -> Nat]
  /\ \A n \in Nodes : sum[n].i \in 0 .. Capacity /\ sum[n].seen <= Len(words)
  /\ local \in [Nodes -> Seq(MapRow)]

Occurrences(word) == Cardinality({r \in DOMAIN words : words[r] = word})

\* The count of a word in the dataframe of node n, whose words differ.
CountIn(n, word) ==
  LET rows == {r \in Range(local[n]) : r.word = word}
  IN  IF rows = {} THEN 0 ELSE (CHOOSE r \in rows : TRUE).count

\* The sum of the counts of a word: as many as there are pairs of a node and one of its counts.
Total(word) == Cardinality(UNION {{n} \X (1 .. CountIn(n, word)) : n \in Nodes})

\* The counts of all nodes are the occurrences: no row is counted by two nodes or by
\* none, and Summer writes every entry of a map once (wordcount.h:19 "produce word counts
\* per homed chunks").
CountsAddUp ==
  /\ TypeOK
  /\ (\A n \in Nodes : n \in put) =>
       /\ \A n \in Nodes : IsInjective([k \in DOMAIN local[n] |-> local[n][k].word])
       /\ \A word \in Range(words) : Total(word) = Occurrences(word)

Reduction == UNION {Range(map[0][b]) : b \in DOMAIN map[0]}

\* The merged map has every word of the file once, so that what node 0 prints is the
\* number of different words (wordcount.h:86).
DifferentWords ==
  pc[0] = "done" =>
    /\ {entry.word : entry \in Reduction} = Range(words)
    /\ Size(map[0]) = Cardinality(Range(words))

\* The file is read to its end and every node comes to the end of run_.
Termination == <>(\A n \in Nodes : pc[n] = "done")
=============================================================================
