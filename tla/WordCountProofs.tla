---------------------------- MODULE WordCountProofs ----------------------------
(***************************************************************************)
(* Proofs, for any number of nodes, sizes of blocks, maps and buffers, and  *)
(* any files whose words and runs of spaces fit the buffer, that the reader *)
(* of the WordCount application reads the words of the file, that the       *)
(* counts of the nodes add up, and that the merged map has every word once. *)
(***************************************************************************)
EXTENDS WordCount, FiniteSetTheorems, SequenceTheorems, NaturalsInduction,
        WellFoundedInduction, TLAPS

-----------------------------------------------------------------------------
(* The inductive invariant of the reader *)

\* How many characters of the file were read, how many of those are before the buffer,
\* and how many are before index i_.
HaveRead == Len(file) - Len(rest)
Base     == HaveRead - end
Pos      == Base + i

\* Some rows are the words of a file that begin at p or before.
AreWords(rows, f, p) ==
  /\ Len(rows) = Cardinality({s \in Starts(f) : s <= p})
  /\ \A j \in 1 .. Len(rows) : \E s \in Starts(f) :
       s <= p /\ Rank(f, s) = j /\ rows[j] = WordAt(f, s)

\* Some rows are all words of a file, but the last may be longer.
AlmostAll(rows, f) ==
  /\ Len(rows) = Cardinality(Starts(f)) /\ Len(rows) > 0
  /\ \A j \in 1 .. Len(rows) : \E s \in Starts(f) :
       /\ Rank(f, s) = j
       /\ IF j = Len(rows) THEN IsPrefix(WordAt(f, s), rows[j]) ELSE rows[j] = WordAt(f, s)

\* The buffer holds the file from index first on.
Holds(first) == \A k \in first .. end - 1 : buf[k] = file[Base + k + 1]

\* fread has read the file up to a place behind which is rest; while there may be more,
\* the buffer is full, and terminators stand for characters of words only.
ReadTo ==
  /\ HaveRead \in Nat /\ Base \in Nat
  /\ rest = SubSeq(file, HaveRead + 1, Len(file))
ReadOn ==
  /\ ReadTo
  /\ eof => rest = <<>>
  /\ ~eof => /\ end = BufSize
             /\ \A k \in 0 .. end - 1 : file[Base + k + 1] \notin Spaces => buf[k] \notin Spaces

\* Between words: the file was taken up to i_, behind a space.
InBuffer ==
  /\ i <= end /\ Holds(i)
  /\ Pos = 0 \/ file[Pos] \in Spaces
  /\ AreWords(words, file, Pos)
  /\ at = "space" => i < end
  /\ at = "between" => (i = end /\ eof) \/ (i < end /\ buf[i] \notin Spaces)
  /\ at = "closed" => i = end /\ eof

\* The last refill has read nothing, and skipWhitespace_ goes on in what was there before,
\* until it finds something that is not a space.
InOldBuffer ==
  /\ eof /\ end = 0 /\ Ended(file)
  /\ AreWords(words, file, Len(file))
  /\ \E k \in i .. BufSize - 1 : buf[k] \notin Spaces

\* The last word ended with the file, and i_ is behind the end.
Behind ==
  /\ eof /\ i > end /\ ~Ended(file)
  /\ AlmostAll(words, file)

\* In a word, which begins at index wStart.
InWord ==
  LET s == Base + wStart + 1 IN
  /\ wStart < end /\ wStart <= i /\ Holds(wStart)
  /\ s \in Starts(file)
  /\ \A m \in s .. Pos : m <= Len(file) => file[m] \notin Spaces
  /\ AreWords(words, file, s - 1)
  /\ i > end => eof
  /\ at = "char" => i < end \/ eof

ReaderType ==
  /\ file \in Files /\ rest \in Seq(Chars) /\ eof \in BOOLEAN
  /\ buf \in [0 .. BufSize -> Chars \cup {Nul}]
  /\ i \in Nat /\ end \in 0 .. BufSize /\ wStart \in 0 .. BufSize
  /\ at \in Labels
  /\ words \in Seq(Seq(Chars \cup {Nul, Junk}))

ReaderInv ==
  /\ ReaderType
  /\ at = "open" => rest = file /\ eof = FALSE /\ i = 0 /\ end = 0 /\ words = <<>>
  /\ at # "open" => ReadOn
  /\ at \in {"skip", "space", "between", "closed"} => InBuffer \/ InOldBuffer \/ Behind
  /\ at \in {"word", "char"} => InWord

-----------------------------------------------------------------------------
(* The inductive invariant of the counting *)

\* All files fit the buffer, and every word has a hash (hash of a String, string.h).
FilesFit  == \A f \in Files : Fits(f)
WordType  == Seq(Chars \cup {Nul, Junk})
HashIsNat == \A word \in WordType : Hash(word) \in Nat

\* No two of some rows have the same word.
Differ(rows) == \A k, l \in DOMAIN rows : rows[k].word = rows[l].word => k = l

\* The map has every word once, in its bucket.
IsBucket(b, rows) ==
  (\A k \in DOMAIN rows : Hash(rows[k].word) % Capacity = b) /\ Differ(rows)
Buckets == 0 .. Capacity - 1
IsMap(m) ==
  /\ m \in [Buckets -> Seq(MapRow)]
  /\ \A b \in Buckets : IsBucket(b, m[b])

\* Its entries, and the words of some entries or rows.
Entries(m)  == UNION {Range(m[b]) : b \in Buckets}
Words(rows) == {e.word : e \in rows}

\* What node n has to count in the words before row r: its own rows, those of a word, and
\* an entry for every word in them.
OwnRows(n, r)          == {q \in 1 .. r - 1 : IsLocal(n, q)}
RowsOf(ws, n, r, word) == {q \in OwnRows(n, r) : ws[q] = word}
Counted(ws, n, r) ==
  {[word |-> ws[q], count |-> Cardinality(RowsOf(ws, n, r, ws[q]))] : q \in OwnRows(n, r)}

\* Where Summer has been: its rows are the entries there, each once.
SumType == [i : 0 .. Capacity, j : Nat, seen : Nat, rows : Seq(MapRow)]
Passed(m, s) == {p \in Positions(m) : p[1] < s.i \/ (p[1] = s.i /\ p[2] <= s.j)}
AtPosition(m, p) == m[p[1]][p[2]]
SumInv(m, s) ==
  /\ s \in SumType
  /\ s.i < Capacity => s.j <= Len(m[s.i])
  /\ s.seen = Cardinality(Passed(m, s))
  /\ Range(s.rows) = {AtPosition(m, p) : p \in Passed(m, s)}
  /\ Differ(s.rows)

\* A node that is at label has the map m, is at row r, sums with s and has put rows: it
\* counts the words ws, sums the counts up, and has put them.
NodeInv(ws, n, label, m, r, s, rows) ==
  /\ label \in {"read", "wait"} => m = Empty /\ r = 1
  /\ label \in {"read", "wait", "count"} => s = Start
  /\ label = "count" =>
       r \in 1 .. Len(ws) + 1 /\ IsMap(m) /\ Entries(m) = Counted(ws, n, r)
  /\ label = "sum" =>
       IsMap(m) /\ Entries(m) = Counted(ws, n, Len(ws) + 1) /\ SumInv(m, s)
  /\ label \notin {"reduce", "done"} => rows = <<>>
  /\ label \in {"reduce", "done"} =>
       Range(rows) = Counted(ws, n, Len(ws) + 1) /\ Differ(rows)
CountInv(n) == NodeInv(words, n, pc[n], map[n], row[n], sum[n], local[n])

\* The words were read before any node counts, and who has put its counts goes on to merge
\* them or is done.
Phases ==
  /\ \A n \in Nodes : n # 0 => pc[n] \notin {"read", "reduce"}
  /\ ready <=> pc[0] # "read"
  /\ \A n \in Nodes : pc[n] \notin {"read", "wait"} => ready
  /\ put = {n \in Nodes : pc[n] \in {"reduce", "done"}}

\* The words in the dataframes before that of node f, and in the rows before r of that one.
WordsTo(rows, f)        == UNION {Words(Range(rows[n])) : n \in 0 .. f - 1}
Visited(rows, f, r)     == {rows[f][k].word : k \in 1 .. r - 1}
WordsBefore(rows, f, r) ==
  WordsTo(rows, f) \cup IF f \in Nodes THEN Visited(rows, f, r) ELSE {}
MergeInv ==
  /\ pc[0] \notin {"reduce", "done"} => from = 0
  /\ 0 .. from - 1 \subseteq put
  /\ pc[0] = "reduce" => /\ row[0] >= 1
                         /\ from \in Nodes => row[0] <= Len(local[from]) + 1
  /\ pc[0] \in {"reduce", "done"} =>
       IsMap(map[0]) /\ Words(Entries(map[0])) = WordsBefore(local, from, row[0])
  /\ pc[0] = "done" => from = NumNodes

\* The types of the variables of the counting; Summer has seen no more rows than there are.
CountType ==
  /\ pc \in [Nodes -> {"read", "wait", "count", "sum", "reduce", "done"}]
  /\ ready \in BOOLEAN /\ put \subseteq Nodes /\ from \in 0 .. NumNodes
  /\ map \in [Nodes -> [Buckets -> Seq(MapRow)]]
  /\ row \in [Nodes -> Nat]
  /\ sum \in [Nodes -> SumType]
  /\ local \in [Nodes -> Seq(MapRow)]
SeenInv == \A n \in Nodes : sum[n].seen <= Len(words)

IndInv ==
  /\ ReaderInv /\ CountType /\ SeenInv /\ Phases
  /\ \A n \in Nodes : CountInv(n)
  /\ MergeInv

-----------------------------------------------------------------------------
(* Sequences and the words of a file *)

\* A part of a sequence is the elements from a place on.
LEMMA PartOf ==
  ASSUME NEW S, NEW f \in Seq(S), NEW a \in Nat, NEW b \in Nat, a >= 1, b <= Len(f)
  PROVE  /\ SubSeq(f, a, b) \in Seq(S)
         /\ Len(SubSeq(f, a, b)) = IF a <= b THEN b - a + 1 ELSE 0
         /\ \A k \in 1 .. b - a + 1 : SubSeq(f, a, b)[k] = f[a + k - 1]
  <1>1. \A k \in a .. b : f[k] \in S
    OBVIOUS
  <1>2. QED
    BY <1>1, SubSeqProperties

\* What is left of what is left is left.
LEMMA RestOfRest ==
  ASSUME NEW S, NEW f \in Seq(S), NEW h \in Nat, NEW c \in Nat, h + c <= Len(f)
  PROVE  SubSeq(SubSeq(f, h + 1, Len(f)), c + 1, Len(f) - h) = SubSeq(f, h + c + 1, Len(f))
  <1> DEFINE r == SubSeq(f, h + 1, Len(f))
             x == SubSeq(r, c + 1, Len(f) - h)
             y == SubSeq(f, h + c + 1, Len(f))
  <1>1. Len(f) \in Nat /\ h <= Len(f)
    OBVIOUS
  <1>2. /\ r \in Seq(S) /\ Len(r) = Len(f) - h
        /\ \A k \in 1 .. Len(f) - h : r[k] = f[h + k]
    <2>1. /\ r \in Seq(S) /\ Len(r) = IF h + 1 <= Len(f) THEN Len(f) - (h + 1) + 1 ELSE 0
          /\ \A k \in 1 .. Len(f) - (h + 1) + 1 : r[k] = f[(h + 1) + k - 1]
      BY <1>1, PartOf
    <2> HIDE DEF r
    <2>2. QED
      BY <1>1, <2>1
  <1> HIDE DEF r
  <1>3. /\ x \in Seq(S) /\ Len(x) = Len(f) - h - c
        /\ \A k \in 1 .. Len(f) - h - c : x[k] = f[h + c + k]
    <2>1. /\ x \in Seq(S) /\ Len(x) = IF c + 1 <= Len(f) - h THEN (Len(f) - h) - (c + 1) + 1 ELSE 0
          /\ \A k \in 1 .. (Len(f) - h) - (c + 1) + 1 : x[k] = r[(c + 1) + k - 1]
      BY <1>1, <1>2, PartOf
    <2> HIDE DEF x
    <2>2. QED
      BY <1>1, <1>2, <2>1
  <1>4. /\ y \in Seq(S) /\ Len(y) = Len(f) - h - c
        /\ \A k \in 1 .. Len(f) - h - c : y[k] = f[h + c + k]
    <2>1. /\ y \in Seq(S) /\ Len(y) = IF h + c + 1 <= Len(f) THEN Len(f) - (h + c + 1) + 1 ELSE 0
          /\ \A k \in 1 .. Len(f) - (h + c + 1) + 1 : y[k] = f[(h + c + 1) + k - 1]
      BY <1>1, PartOf
    <2> HIDE DEF y
    <2>2. QED
      BY <1>1, <2>1
  <1> HIDE DEF x, y
  <1>5. x = y
    BY <1>3, <1>4, SeqEqual
  <1>6. QED
    BY <1>5 DEF x, y, r

\* The words of a file are finitely many.
LEMMA StartsFinite ==
  ASSUME NEW f \in Seq(Chars)
  PROVE  /\ Starts(f) \subseteq 1 .. Len(f)
         /\ \A T \in SUBSET Starts(f) : IsFiniteSet(T) /\ Cardinality(T) \in Nat
  <1>1. Starts(f) \subseteq 1 .. Len(f) /\ Len(f) \in Nat
    BY DEF Starts
  <1>2. IsFiniteSet(1 .. Len(f))
    BY <1>1, FS_Interval
  <1>3. ASSUME NEW T \in SUBSET Starts(f)
        PROVE  IsFiniteSet(T) /\ Cardinality(T) \in Nat
    <2>1. T \in SUBSET (1 .. Len(f))
      BY <1>1
    <2>2. QED
      BY <1>2, <2>1, FS_Subset, FS_CardinalityType
  <1>4. QED
    BY <1>1, <1>3

\* Rows are the words up to a place still when no word begins behind it.
LEMMA SameWords ==
  ASSUME NEW f \in Seq(Chars), NEW rows, NEW p \in Nat, NEW q \in Nat, p <= q,
         \A m \in p + 1 .. q : m \notin Starts(f), AreWords(rows, f, p)
  PROVE  AreWords(rows, f, q)
  <1>1. Starts(f) \subseteq Nat
    BY StartsFinite
  <1>2. {s \in Starts(f) : s <= p} = {s \in Starts(f) : s <= q}
    BY <1>1
  <1>3. QED
    BY <1>1, <1>2 DEF AreWords

\* The first words that begin before s, and the one that begins at s.
LEMMA RankNext ==
  ASSUME NEW f \in Seq(Chars), NEW s \in Starts(f), NEW q \in Nat, s <= q,
         \A m \in s + 1 .. q : m \notin Starts(f)
  PROVE  /\ Cardinality({t \in Starts(f) : t <= s - 1}) \in Nat
         /\ Rank(f, s) = Cardinality({t \in Starts(f) : t <= s - 1}) + 1
         /\ Cardinality({t \in Starts(f) : t <= q}) = Rank(f, s)
  <1> DEFINE B == {t \in Starts(f) : t <= s - 1}
  <1>1. Starts(f) \subseteq Nat /\ s \in Nat /\ s \notin B
    BY StartsFinite
  <1>2. IsFiniteSet(B) /\ Cardinality(B) \in Nat
    BY StartsFinite
  <1>3. {t \in Starts(f) : t <= s} = B \cup {s} /\ {t \in Starts(f) : t <= q} = B \cup {s}
    BY <1>1
  <1> HIDE DEF B
  <1>4. Cardinality(B \cup {s}) = Cardinality(B) + 1
    BY <1>1, <1>2, FS_AddElement
  <1>5. QED
    BY <1>2, <1>3, <1>4 DEF Rank, B

\* The word that begins at s is added.
LEMMA WordAdded ==
  ASSUME NEW f \in Seq(Chars), NEW s \in Starts(f), NEW q \in Nat, s <= q,
         \A m \in s + 1 .. q : m \notin Starts(f),
         NEW S, NEW rows \in Seq(S), NEW word \in S, AreWords(rows, f, s - 1)
  PROVE  /\ word = WordAt(f, s) => AreWords(Append(rows, word), f, q)
         /\ q = Len(f) /\ IsPrefix(WordAt(f, s), word) => AlmostAll(Append(rows, word), f)
  <1> DEFINE new == Append(rows, word)
  <1>1. /\ Len(rows) \in Nat /\ Len(new) = Len(rows) + 1 /\ new[Len(rows) + 1] = word
        /\ \A j \in 1 .. Len(rows) : new[j] = rows[j]
    OBVIOUS
  <1>2. Len(new) = Cardinality({t \in Starts(f) : t <= q}) /\ Rank(f, s) = Len(rows) + 1
    BY <1>1, RankNext DEF AreWords
  <1>3. Starts(f) \subseteq 1 .. Len(f) /\ s \in Nat
    BY StartsFinite
  <1>4. \A j \in 1 .. Len(rows) : \E t \in Starts(f) :
          t <= s - 1 /\ Rank(f, t) = j /\ new[j] = WordAt(f, t)
    BY <1>1 DEF AreWords
  <1>5. \A j \in 1 .. Len(new) : j \in 1 .. Len(rows) \/ j = Len(rows) + 1
    BY <1>1
  <1> HIDE DEF new
  <1>6. ASSUME word = WordAt(f, s)
        PROVE  AreWords(new, f, q)
    <2>1. \A j \in 1 .. Len(new) : \E t \in Starts(f) :
            t <= q /\ Rank(f, t) = j /\ new[j] = WordAt(f, t)
      <3> SUFFICES ASSUME NEW j \in 1 .. Len(new)
                   PROVE  \E t \in Starts(f) : t <= q /\ Rank(f, t) = j /\ new[j] = WordAt(f, t)
        OBVIOUS
      <3>1. CASE j \in 1 .. Len(rows)
        <4>1. PICK t \in Starts(f) : t <= s - 1 /\ Rank(f, t) = j /\ new[j] = WordAt(f, t)
          BY <1>4, <3>1
        <4>2. t <= q
          BY <1>3, <4>1
        <4>3. QED
          BY <4>1, <4>2
      <3>2. CASE j = Len(rows) + 1
        BY <1>1, <1>2, <1>6, <3>2
      <3>3. QED
        BY <1>5, <3>1, <3>2
    <2>2. QED
      BY <1>2, <2>1 DEF AreWords
  <1>7. ASSUME q = Len(f), IsPrefix(WordAt(f, s), word)
        PROVE  AlmostAll(new, f)
    <2>1. {t \in Starts(f) : t <= q} = Starts(f)
      BY <1>3, <1>7
    <2>2. ASSUME NEW j \in 1 .. Len(new)
          PROVE  \E t \in Starts(f) :
                   /\ Rank(f, t) = j
                   /\ IF j = Len(new) THEN IsPrefix(WordAt(f, t), new[j]) ELSE new[j] = WordAt(f, t)
      <3>1. CASE j \in 1 .. Len(rows)
        <4>1. j # Len(new)
          BY <1>1, <3>1
        <4>2. QED
          BY <1>4, <3>1, <4>1
      <3>2. CASE j = Len(rows) + 1
        <4>1. j = Len(new) /\ new[j] = word /\ Rank(f, s) = j
          BY <1>1, <1>2, <3>2
        <4>2. QED
          BY <1>7, <4>1
      <3>3. QED
        BY <1>5, <2>2, <3>1, <3>2
    <2>3. Len(new) = Cardinality(Starts(f))
      BY <1>2, <2>1
    <2>4. Len(new) > 0
      BY <1>1
    <2>5. QED
      BY <2>2, <2>3, <2>4 DEF AlmostAll
  <1>8. QED
    BY <1>6, <1>7 DEF new

\* A word ends before the next space, or with the file.
LEMMA WordIs ==
  ASSUME NEW f \in Seq(Chars), NEW s \in Starts(f), NEW l \in s .. Len(f),
         \A m \in s .. l : f[m] \notin Spaces, l = Len(f) \/ f[l + 1] \in Spaces
  PROVE  WordAt(f, s) = SubSeq(f, s, l)
  <1> DEFINE IsLast(x) == /\ \A m \in s .. x : f[m] \notin Spaces
                          /\ x = Len(f) \/ f[x + 1] \in Spaces
  <1>1. s \in Nat /\ Len(f) \in Nat
    BY StartsFinite
  <1>2. ASSUME NEW x \in s .. Len(f), IsLast(x)
        PROVE  x = l
    <2>1. CASE x < l
      <3>1. x + 1 \in s .. l /\ x # Len(f)
        BY <1>1, <2>1
      <3>2. QED
        BY <1>2, <3>1
    <2>2. CASE x > l
      <3>1. l + 1 \in s .. x /\ l # Len(f)
        BY <1>1, <2>2
      <3>2. QED
        BY <1>2, <3>1
    <2>3. QED
      BY <1>1, <2>1, <2>2
  <1>3. IsLast(l)
    OBVIOUS
  <1> HIDE DEF IsLast
  <1>4. (CHOOSE x \in s .. Len(f) : IsLast(x)) = l
    BY <1>2, <1>3
  <1>5. QED
    BY <1>4 DEF WordAt, IsLast

-----------------------------------------------------------------------------
(* The buffer *)

\* What the types say.
LEMMA ReaderFacts ==
  ASSUME ReaderType
  PROVE  /\ file \in Seq(Chars) /\ Len(file) \in Nat /\ Len(rest) \in Nat
         /\ BufSize \in Nat /\ BufSize > 0 /\ end \in Nat /\ end <= BufSize /\ i \in Nat
         /\ \A m \in 1 .. Len(file) : file[m] \in Chars
         /\ Spaces \subseteq Chars /\ Nul \notin Spaces
         /\ HaveRead \in Int /\ Base \in Int /\ Pos \in Int
  BY FileReaderAssumption DEF ReaderType, HaveRead, Base, Pos

\* The rest is what was not read.
LEMMA RestFacts ==
  ASSUME ReaderType, ReadTo
  PROVE  /\ HaveRead <= Len(file) /\ Len(rest) = Len(file) - HaveRead
         /\ \A k \in 1 .. Len(rest) : rest[k] = file[HaveRead + k]
         /\ Base + end = HaveRead
         /\ rest = <<>> <=> HaveRead = Len(file)
  <1>1. /\ file \in Seq(Chars) /\ Len(file) \in Nat /\ Len(rest) \in Nat /\ rest \in Seq(Chars)
        /\ end \in Nat /\ HaveRead \in Nat
    BY ReaderFacts DEF ReaderType, ReadTo
  <1>2. HaveRead <= Len(file) /\ Len(rest) = Len(file) - HaveRead
    BY <1>1 DEF HaveRead
  <1>3. \A k \in 1 .. Len(file) - (HaveRead + 1) + 1 :
          SubSeq(file, HaveRead + 1, Len(file))[k] = file[(HaveRead + 1) + k - 1]
    BY <1>1, PartOf
  <1>4. \A k \in 1 .. Len(rest) : rest[k] = file[HaveRead + k]
    BY <1>1, <1>2, <1>3 DEF ReadTo
  <1>5. Base + end = HaveRead
    BY <1>1 DEF Base
  <1>6. rest = <<>> <=> HaveRead = Len(file)
    BY <1>1, <1>2, EmptySeq
  <1>7. QED
    BY <1>2, <1>4, <1>5, <1>6

\* fillBuffer_ goes on in the file, with what is left at the start of the buffer.
LEMMA FillEffect ==
  ASSUME ReaderType, ReadTo, ~eof, file' = file,
         NEW first \in Nat, first <= end, end - first < BufSize, Holds(first), Fill(first)
  PROVE  /\ rest' \in Seq(Chars) /\ eof' \in BOOLEAN /\ end' \in 0 .. BufSize
         /\ buf' \in [0 .. BufSize -> Chars \cup {Nul}]
         /\ ReadOn' /\ Holds(0)' /\ Base' = Base + first /\ i' = end - first
         /\ \/ i' < end'
            \/ /\ i' = end' /\ rest = <<>> /\ eof'
               /\ first = end => buf' = buf
  <1>1. /\ file \in Seq(Chars) /\ Len(file) \in Nat /\ Len(rest) \in Nat /\ rest \in Seq(Chars)
        /\ BufSize \in Nat /\ end \in Nat /\ HaveRead \in Nat /\ Base \in Nat
        /\ buf \in [0 .. BufSize -> Chars \cup {Nul}] /\ end <= BufSize
    BY ReaderFacts DEF ReaderType, ReadTo
  <1>19. /\ end - first \in Nat /\ BufSize - (end - first) \in Nat
         /\ \A r \in Nat : (IF r < Len(rest) THEN r ELSE Len(rest)) \in Nat
    BY <1>1
  <1>2. PICK start \in Nat : start = end - first
    BY <1>19
  <1>20. PICK room \in Nat : room = BufSize - start /\ room > 0
    BY <1>1, <1>2, <1>19
  <1>21. PICK count \in Nat : count = IF room < Len(rest) THEN room ELSE Len(rest)
    BY <1>19
  <1>18. /\ count <= room /\ count <= Len(rest) /\ start + count <= BufSize
         /\ count < room => count = Len(rest)
         /\ ~(count < room) => start + count = BufSize
         /\ count = 0 => Len(rest) = 0
    <2>1. start + room = BufSize /\ room > 0 /\ Len(rest) \in Nat /\ BufSize \in Nat
      BY <1>1, <1>2, <1>20
    <2>2. QED
      BY <2>1, <1>21
  <1>3. /\ buf' = [k \in 0 .. BufSize |->
                     IF k < start THEN buf[first + k]
                     ELSE IF k < start + count THEN rest[k - start + 1] ELSE buf[k]]
        /\ rest' = SubSeq(rest, count + 1, Len(rest))
        /\ eof' = (eof \/ count < room) /\ end' = start + count /\ i' = start
    BY <1>2, <1>20, <1>21 DEF Fill
  <1>16. end' = start + count /\ i' = start /\ eof' = (eof \/ count < room)
    BY <1>3
  <1>4. HaveRead <= Len(file) /\ Len(rest) = Len(file) - HaveRead /\ Base + end = HaveRead
    BY RestFacts
  <1>17. \A k \in 1 .. Len(rest) : rest[k] = file[HaveRead + k]
    BY RestFacts
  <1>5. rest' = SubSeq(file, HaveRead + count + 1, Len(file))
    <2>1. HaveRead + count <= Len(file)
      BY <1>1, <1>2, <1>18, <1>4
    <2>2. SubSeq(SubSeq(file, HaveRead + 1, Len(file)), count + 1, Len(file) - HaveRead)
            = SubSeq(file, HaveRead + count + 1, Len(file))
      BY <1>1, <1>2, <1>18, <2>1, RestOfRest
    <2>3. QED
      BY <1>3, <1>4, <2>2 DEF ReadTo
  <1>6. rest' \in Seq(Chars) /\ Len(rest') = Len(file) - HaveRead - count
    <2>1. /\ rest' \in Seq(Chars)
          /\ Len(rest') = IF HaveRead + count + 1 <= Len(file)
                          THEN Len(file) - (HaveRead + count + 1) + 1 ELSE 0
      <3>1. HaveRead + count + 1 \in Nat /\ HaveRead + count + 1 >= 1
        BY <1>1
      <3>2. QED
        BY <1>1, <1>5, <3>1, PartOf
    <2>2. HaveRead + count <= Len(file)
      BY <1>1, <1>18, <1>4
    <2>3. QED
      BY <1>1, <2>1, <2>2
  <1>7. HaveRead' = HaveRead + count /\ Base' = Base + first
    <2>1. HaveRead' = HaveRead + count
      BY <1>1, <1>2, <1>18, <1>6 DEF HaveRead
    <2>2. Base' = (HaveRead + count) - (start + count)
      BY <1>3, <2>1 DEF Base
    <2>3. QED
      BY <1>1, <1>2, <1>18, <1>4, <2>1, <2>2
  <1>8. buf' \in [0 .. BufSize -> Chars \cup {Nul}]
    <2>1. ASSUME NEW k \in 0 .. BufSize
          PROVE  (IF k < start THEN buf[first + k]
                  ELSE IF k < start + count THEN rest[k - start + 1] ELSE buf[k]) \in Chars \cup {Nul}
      <3>1. CASE k < start
        <4>1. first + k \in 0 .. BufSize
          BY <1>1, <1>2, <1>18, <3>1
        <4>2. QED
          BY <1>1, <3>1, <4>1
      <3>2. CASE k >= start /\ k < start + count
        <4>1. k - start + 1 \in 1 .. Len(rest) /\ ~(k < start)
          BY <1>1, <1>2, <1>18, <3>2
        <4>2. rest[k - start + 1] \in Chars
          BY <1>1, <4>1, ElementOfSeq
        <4>3. QED
          BY <3>2, <4>1, <4>2
      <3>3. CASE k >= start + count
        <4>1. ~(k < start) /\ ~(k < start + count)
          BY <1>1, <1>2, <1>18, <3>3
        <4>2. QED
          BY <1>1, <4>1
      <3>4. QED
        BY <1>2, <1>18, <3>1, <3>2, <3>3
    <2>2. QED
      BY <1>3, <2>1
  <1>9. \A k \in 0 .. end' - 1 : buf'[k] = file[Base' + k + 1]
    <2> SUFFICES ASSUME NEW k \in 0 .. start + count - 1
                 PROVE  buf'[k] = file[Base + first + k + 1]
      BY <1>7, <1>16
    <2>1. k \in 0 .. BufSize
      BY <1>1, <1>2, <1>18
    <2>2. CASE k < start
      <3>1. first + k \in first .. end - 1
        BY <1>1, <1>2, <1>18, <2>2
      <3>2. buf[first + k] = file[Base + (first + k) + 1]
        BY <3>1 DEF Holds
      <3>3. Base + (first + k) + 1 = Base + first + k + 1
        BY <1>1, <2>1
      <3>4. QED
        BY <1>3, <2>1, <2>2, <3>2, <3>3
    <2>3. CASE k >= start
      <3>1. k - start + 1 \in 1 .. Len(rest) /\ ~(k < start) /\ k < start + count
        BY <1>1, <1>2, <1>18, <2>3
      <3>2. buf'[k] = rest[k - start + 1]
        BY <1>3, <2>1, <3>1
      <3>3. HaveRead + (k - start + 1) = Base + first + k + 1
        <4>1. /\ k \in Int /\ end \in Int /\ Base \in Int /\ HaveRead = Base + end
              /\ start = end - first
          BY <1>1, <1>2, <1>4, <2>1
        <4>2. QED
          BY <4>1
      <3>4. QED
        BY <1>17, <3>1, <3>2, <3>3
    <2>4. QED
      BY <1>2, <1>18, <2>1, <2>2, <2>3
  <1>10. ReadTo'
    <2>1. HaveRead' \in Nat /\ Base' \in Nat
      BY <1>1, <1>2, <1>18, <1>7
    <2>2. rest' = SubSeq(file', HaveRead' + 1, Len(file'))
      BY <1>5, <1>7
    <2>3. QED
      BY <2>1, <2>2 DEF ReadTo
  <1>11. ReadOn'
    <2>1. eof' => rest' = <<>>
      <3>1. ASSUME eof' PROVE Len(rest') = 0
        <4>1. count < room
          BY <1>16, <3>1
        <4>2. QED
          BY <1>1, <1>2, <1>18, <1>4, <1>6, <4>1
      <3>2. QED
        BY <1>6, <3>1, EmptySeq
    <2>2. ~eof' => end' = BufSize
      BY <1>2, <1>18, <1>3
    <2>3. ASSUME NEW k \in 0 .. end' - 1, file'[Base' + k + 1] \notin Spaces
          PROVE  buf'[k] \notin Spaces
      BY <1>9, <2>3
    <2>4. QED
      BY <1>10, <2>1, <2>2, <2>3 DEF ReadOn
  <1>12. \/ i' < end'
         \/ /\ i' = end' /\ rest = <<>> /\ eof'
            /\ first = end => buf' = buf
    <2>1. CASE count > 0
      BY <1>2, <1>18, <1>16, <2>1
    <2>2. CASE count = 0
      <3>1. i' = end' /\ eof' /\ rest = <<>>
        <4>1. i' = end' /\ count < room
          BY <1>16, <1>20, <2>2
        <4>2. Len(rest) = 0
          BY <1>2, <1>18, <2>2
        <4>3. eof'
          BY <1>16, <4>1, Zenon
        <4>4. QED
          BY <1>1, <4>1, <4>2, <4>3, EmptySeq
      <3>2. ASSUME first = end
            PROVE  buf' = buf
        <4>1. start = 0
          BY <1>1, <3>2
        <4>2. \A k \in 0 .. BufSize : ~(k < start) /\ ~(k < start + count)
          BY <2>2, <4>1
        <4>3. buf' = [k \in 0 .. BufSize |-> buf[k]]
          BY <1>3, <4>2
        <4>4. QED
          BY <1>1, <4>3
      <3>3. QED
        BY <3>1, <3>2
    <2>3. QED
      BY <1>2, <1>18, <2>1, <2>2
  <1>13. /\ eof' \in BOOLEAN /\ end' \in 0 .. BufSize /\ i' = end - first
    BY <1>1, <1>2, <1>18, <1>3 DEF ReaderType
  <1>14. Holds(0)'
    BY <1>9 DEF Holds
  <1>15. QED
    BY <1>6, <1>7, <1>8, <1>11, <1>12, <1>13, <1>14

\* Of as many characters as the buffer has some are spaces and some are not.
LEMMA Window ==
  ASSUME ReaderType, Fits(file), NEW p \in Nat, p + BufSize <= Len(file)
  PROVE  /\ \E j \in 1 .. BufSize : file[p + j] \in Spaces
         /\ \E j \in 1 .. BufSize : file[p + j] \notin Spaces
  <1>1. p \in 0 .. Len(file) - BufSize
    BY ReaderFacts
  <1>2. BOOLEAN = {(file[p + j] \in Spaces) : j \in 1 .. BufSize}
    BY <1>1 DEF Fits
  <1>3. PICK j \in 1 .. BufSize : TRUE = (file[p + j] \in Spaces)
    <2>1. TRUE \in {(file[p + j] \in Spaces) : j \in 1 .. BufSize}
      BY <1>2, Zenon
    <2>2. QED
      BY <2>1, Zenon
  <1>4. PICK k \in 1 .. BufSize : FALSE = (file[p + k] \in Spaces)
    <2>1. FALSE \in {(file[p + k] \in Spaces) : k \in 1 .. BufSize}
      BY <1>2, Zenon
    <2>2. QED
      BY <2>1, Zenon
  <1>5. QED
    BY <1>3, <1>4

-----------------------------------------------------------------------------
(* Every step of the reader keeps its invariant *)

\* The first buffer.
LEMMA OpenKeeps ==
  ASSUME Fits(file), ReaderInv, Open
  PROVE  ReaderInv'
  <1>1. /\ ReaderType /\ rest = file /\ ~eof /\ i = 0 /\ end = 0 /\ words = <<>>
        /\ Fill(0) /\ at' = "skip" /\ file' = file /\ wStart' = wStart /\ words' = words
    BY DEF Open, ReaderInv
  <1>2. /\ file \in Seq(Chars) /\ Len(file) \in Nat /\ BufSize \in Nat /\ BufSize > 0
    BY <1>1, ReaderFacts
  <1>3. HaveRead = 0 /\ Base = 0
    BY <1>1, <1>2 DEF HaveRead, Base
  <1>4. ReadTo
    <2>1. SubSeq(file, 1, Len(file)) = file
      BY <1>2, SubSeqFull
    <2>2. QED
      BY <1>1, <1>3, <2>1 DEF ReadTo
  <1>5. Holds(0)
    BY <1>1 DEF Holds
  <1>6. /\ rest' \in Seq(Chars) /\ eof' \in BOOLEAN /\ end' \in 0 .. BufSize
        /\ buf' \in [0 .. BufSize -> Chars \cup {Nul}]
        /\ ReadOn' /\ Holds(0)' /\ Base' = 0 /\ i' = 0 /\ i' <= end'
    <2>1. /\ 0 \in Nat /\ 0 <= end /\ end - 0 < BufSize /\ end - 0 = 0 /\ Base + 0 = 0
      BY <1>1, <1>2, <1>3
    <2>2. /\ rest' \in Seq(Chars) /\ eof' \in BOOLEAN /\ end' \in 0 .. BufSize
          /\ buf' \in [0 .. BufSize -> Chars \cup {Nul}]
          /\ ReadOn' /\ Holds(0)' /\ Base' = Base + 0 /\ i' = end - 0
          /\ i' < end' \/ i' = end'
      BY <1>1, <1>4, <1>5, <2>1, FillEffect
    <2>3. i' <= end'
      BY <1>2, <2>1, <2>2
    <2>4. QED
      BY <2>1, <2>2, <2>3
  <1>7. ReaderType'
    BY <1>1, <1>6 DEF ReaderType, Labels
  <1>8. AreWords(words', file', 0)
    <2>1. {s \in Starts(file) : s <= 0} = {}
      BY <1>2, StartsFinite
    <2>2. Cardinality({s \in Starts(file) : s <= 0}) = 0
      BY <2>1, FS_EmptySet
    <2>3. QED
      BY <1>1, <2>2 DEF AreWords
  <1>9. InBuffer'
    <2>1. Pos' = 0
      BY <1>6 DEF Pos
    <2>2. QED
      BY <1>1, <1>6, <1>8, <2>1 DEF InBuffer, Holds
  <1>10. QED
    BY <1>1, <1>6, <1>7, <1>9 DEF ReaderInv

\* skipWhitespace_ refills: it goes on in the new buffer, or in the old one when the file
\* had ended.
LEMMA SkipRefillKeeps ==
  ASSUME Fits(file), ReaderInv, SkipRefill
  PROVE  ReaderInv'
  <1>1. /\ ReaderType /\ ReadOn /\ at = "skip" /\ i = end /\ ~eof /\ Fill(i)
        /\ at' = "space" /\ file' = file /\ wStart' = wStart /\ words' = words
    BY DEF SkipRefill, ReaderInv
  <1>2. /\ file \in Seq(Chars) /\ Len(file) \in Nat /\ BufSize \in Nat /\ BufSize > 0
        /\ end = BufSize /\ i \in Nat /\ ReadTo /\ Base \in Nat
    BY <1>1, ReaderFacts DEF ReadOn, ReadTo
  <1>3. /\ Pos = 0 \/ file[Pos] \in Spaces
        /\ AreWords(words, file, Pos)
    BY <1>1 DEF ReaderInv, InBuffer, InOldBuffer, Behind
  <1>4. Holds(i)
    BY <1>1, <1>2 DEF Holds
  <1>5. /\ rest' \in Seq(Chars) /\ eof' \in BOOLEAN /\ end' \in 0 .. BufSize
        /\ buf' \in [0 .. BufSize -> Chars \cup {Nul}]
        /\ ReadOn' /\ Holds(0)' /\ Base' = Base + i /\ i' = 0
        /\ \/ i' < end'
           \/ i' = end' /\ rest = <<>> /\ eof' /\ buf' = buf
    <2>1. i <= end /\ end - i < BufSize /\ end - i = 0
      BY <1>1, <1>2
    <2>2. /\ rest' \in Seq(Chars) /\ eof' \in BOOLEAN /\ end' \in 0 .. BufSize
          /\ buf' \in [0 .. BufSize -> Chars \cup {Nul}]
          /\ ReadOn' /\ Holds(0)' /\ Base' = Base + i /\ i' = end - i
          /\ \/ i' < end'
             \/ /\ i' = end' /\ rest = <<>> /\ eof'
                /\ i = end => buf' = buf
      BY <1>1, <1>2, <1>4, <2>1, FillEffect
    <2>3. QED
      BY <1>1, <2>1, <2>2
  <1>6. ReaderType'
    BY <1>1, <1>5 DEF ReaderType, Labels
  <1>7. CASE i' < end'
    <2>1. Pos' = Pos
      BY <1>2, <1>5 DEF Pos
    <2>2. InBuffer'
      BY <1>1, <1>3, <1>5, <1>7, <2>1 DEF InBuffer
    <2>3. QED
      BY <1>1, <1>5, <1>6, <2>2 DEF ReaderInv
  <1>8. CASE i' = end' /\ rest = <<>> /\ eof' /\ buf' = buf
    <2>1. Base + BufSize = Len(file) /\ Pos = Len(file)
      BY <1>1, <1>2, <1>8, RestFacts DEF Pos
    <2>2. Ended(file)
      BY <1>2, <1>3, <2>1 DEF Ended
    <2>3. PICK j \in 1 .. BufSize : file[Base + j] \notin Spaces
      <3>1. Base + BufSize <= Len(file)
        BY <1>2, <2>1
      <3>2. QED
        BY <1>1, <1>2, <3>1, Window
    <2>4. buf[j - 1] \notin Spaces
      <3>1. j - 1 \in 0 .. end - 1 /\ Base + (j - 1) + 1 = Base + j
        BY <1>2
      <3>2. file[Base + (j - 1) + 1] \notin Spaces
        BY <2>3, <3>1
      <3>3. QED
        BY <1>1, <3>1, <3>2 DEF ReadOn
    <2>5. InOldBuffer'
      <3>1. j - 1 \in 0 .. BufSize - 1
        BY <1>2
      <3>2. AreWords(words', file', Len(file'))
        BY <1>1, <1>3, <2>1
      <3>3. QED
        BY <1>1, <1>5, <1>8, <2>2, <2>4, <3>1, <3>2 DEF InOldBuffer
    <2>6. QED
      BY <1>1, <1>5, <1>6, <2>5 DEF ReaderInv
  <1>9. QED
    BY <1>5, <1>7, <1>8

\* What isspace yields for an index in the buffer.
LEMMA InsideSpace ==
  ASSUME ReaderType, i <= BufSize, NEW while \in BOOLEAN
  PROVE  /\ TRUE \in IsSpace(i, while) <=> buf[i] \in Spaces
         /\ FALSE \in IsSpace(i, while) <=> buf[i] \notin Spaces
  <1>1. IsSpace(i, while) = {buf[i] \in Spaces}
    BY DEF IsSpace
  <1>2. CASE buf[i] \in Spaces
    <2>1. (buf[i] \in Spaces) = TRUE
      BY <1>2
    <2>2. IsSpace(i, while) = {TRUE}
      BY <1>1, <2>1
    <2>3. QED
      BY <1>2, <2>2
  <1>3. CASE buf[i] \notin Spaces
    <2>1. (buf[i] \in Spaces) = FALSE
      BY <1>3
    <2>2. IsSpace(i, while) = {FALSE}
      BY <1>1, <2>1
    <2>3. QED
      BY <1>3, <2>2
  <1>4. QED
    BY <1>2, <1>3

\* skipWhitespace_ ends.
LEMMA SkipEndsKeeps ==
  ASSUME ReaderInv, SkipEnds
  PROVE  ReaderInv'
  <1>1. /\ ReaderType /\ ReadOn /\ at \in {"skip", "space"} /\ at' = "between"
        /\ file' = file /\ rest' = rest /\ eof' = eof /\ buf' = buf /\ i' = i /\ end' = end
        /\ wStart' = wStart /\ words' = words
    BY DEF SkipEnds, AtTest, ReaderInv
  <1>2. /\ end \in Nat /\ i \in Nat /\ BufSize \in Nat /\ end <= BufSize
    BY <1>1, ReaderFacts
  <1>3. ReaderType'
    BY <1>1 DEF ReaderType, Labels
  <1>4. Base' = Base /\ Pos' = Pos /\ HaveRead' = HaveRead
    BY <1>1 DEF Base, Pos, HaveRead
  <1>5. ReadOn'
    BY <1>1, <1>4 DEF ReadOn, ReadTo
  <1>6. CASE InBuffer
    <2>1. (i = end /\ eof) \/ (i < end /\ buf[i] \notin Spaces)
      <3>1. CASE at = "skip" /\ i = end /\ eof
        BY <3>1
      <3>2. CASE AtTest("skip", "space") /\ FALSE \in IsSpace(i, TRUE)
        <4>1. i < end /\ i <= BufSize
          BY <1>2, <1>6, <3>2 DEF InBuffer, AtTest
        <4>2. QED
          BY <1>1, <3>2, <4>1, InsideSpace
      <3>3. QED
        BY <3>1, <3>2 DEF SkipEnds
    <2>2. InBuffer'
      BY <1>1, <1>4, <1>6, <2>1 DEF InBuffer, Holds
    <2>3. QED
      BY <1>1, <1>3, <1>5, <2>2 DEF ReaderInv
  <1>7. CASE InOldBuffer
    <2>1. InOldBuffer'
      BY <1>1, <1>7 DEF InOldBuffer
    <2>2. QED
      BY <1>1, <1>3, <1>5, <2>1 DEF ReaderInv
  <1>8. CASE Behind
    <2>1. Behind'
      BY <1>1, <1>8 DEF Behind
    <2>2. QED
      BY <1>1, <1>3, <1>5, <2>1 DEF ReaderInv
  <1>9. QED
    BY <1>1, <1>6, <1>7, <1>8 DEF ReaderInv

\* skipWhitespace_ skips a space.
LEMMA SkipSpaceKeeps ==
  ASSUME ReaderInv, SkipSpace
  PROVE  ReaderInv'
  <1>1. /\ ReaderType /\ ReadOn /\ at \in {"skip", "space"} /\ at' = "skip"
        /\ at = "space" \/ i # end
        /\ file' = file /\ rest' = rest /\ eof' = eof /\ buf' = buf /\ i' = i + 1 /\ end' = end
        /\ wStart' = wStart /\ words' = words /\ TRUE \in IsSpace(i, TRUE)
    BY DEF SkipSpace, AtTest, ReaderInv
  <1>2. /\ end \in Nat /\ i \in Nat /\ BufSize \in Nat /\ end <= BufSize /\ Base \in Nat
        /\ file \in Seq(Chars) /\ HaveRead <= Len(file) /\ Base + end = HaveRead
        /\ Len(file) \in Nat
    BY <1>1, ReaderFacts, RestFacts DEF ReadOn, ReadTo
  <1>3. ReaderType'
    BY <1>1, <1>2 DEF ReaderType, Labels
  <1>4. Base' = Base /\ Pos' = Pos + 1 /\ HaveRead' = HaveRead /\ Pos = Base + i
    BY <1>1, <1>2 DEF Base, Pos, HaveRead
  <1>5. ReadOn'
    BY <1>1, <1>4 DEF ReadOn, ReadTo
  <1>6. CASE InBuffer
    <2>1. i < end /\ i <= BufSize
      BY <1>1, <1>2, <1>6 DEF InBuffer
    <2>2. file[Pos + 1] \in Spaces
      <3>1. buf[i] \in Spaces
        BY <1>1, <2>1, InsideSpace
      <3>2. i \in i .. end - 1
        BY <1>2, <2>1
      <3>3. QED
        BY <1>4, <1>6, <3>1, <3>2 DEF InBuffer, Holds
    <2>3. AreWords(words, file, Pos + 1)
      <3>1. \A m \in Pos + 1 .. Pos + 1 : m \notin Starts(file)
        BY <1>2, <1>4, <2>2 DEF Starts
      <3>2. Pos \in Nat /\ Pos + 1 \in Nat /\ Pos <= Pos + 1
        BY <1>2, <1>4
      <3>3. QED
        BY <1>2, <1>6, <3>1, <3>2, SameWords DEF InBuffer
    <2>4. Holds(i)
      BY <1>6 DEF InBuffer
    <2>5. i' <= end' /\ Holds(i)'
      BY <1>1, <1>2, <1>4, <2>1, <2>4 DEF Holds
    <2>6. InBuffer'
      BY <1>1, <1>4, <2>2, <2>3, <2>5 DEF InBuffer
    <2>7. QED
      BY <1>1, <1>3, <1>5, <2>6 DEF ReaderInv
  <1>7. CASE InOldBuffer
    <2>1. PICK k \in i .. BufSize - 1 : buf[k] \notin Spaces
      BY <1>7 DEF InOldBuffer
    <2>2. buf[i] \in Spaces
      <3>1. i <= BufSize
        BY <1>2, <2>1
      <3>2. QED
        BY <1>1, <3>1, InsideSpace
    <2>3. k \in i + 1 .. BufSize - 1
      BY <1>2, <2>1, <2>2
    <2>4. InOldBuffer'
      BY <1>1, <1>7, <2>1, <2>3 DEF InOldBuffer
    <2>5. QED
      BY <1>1, <1>3, <1>5, <2>4 DEF ReaderInv
  <1>8. CASE Behind
    <2>1. Behind'
      BY <1>1, <1>2, <1>8 DEF Behind
    <2>2. QED
      BY <1>1, <1>3, <1>5, <2>1 DEF ReaderInv
  <1>9. QED
    BY <1>1, <1>6, <1>7, <1>8 DEF ReaderInv

\* visit begins at the first character of a word.
LEMMA VisitKeeps ==
  ASSUME ReaderInv, Visit
  PROVE  ReaderInv'
  <1>1. /\ ReaderType /\ ReadOn /\ at = "between" /\ ~Done /\ at' = "word" /\ wStart' = i
        /\ file' = file /\ rest' = rest /\ eof' = eof /\ buf' = buf /\ i' = i /\ end' = end
        /\ words' = words
    BY DEF Visit, ReaderInv
  <1>2. /\ end \in Nat /\ i \in Nat /\ BufSize \in Nat /\ end <= BufSize /\ Base \in Nat
        /\ file \in Seq(Chars) /\ HaveRead <= Len(file) /\ Base + end = HaveRead
        /\ Len(file) \in Nat
    BY <1>1, ReaderFacts, RestFacts DEF ReadOn, ReadTo
  <1>3. ~InOldBuffer /\ ~Behind
    BY <1>1, <1>2 DEF InOldBuffer, Behind, Done
  <1>4. InBuffer /\ i < end /\ buf[i] \notin Spaces
    BY <1>1, <1>2, <1>3 DEF ReaderInv, InBuffer, Done
  <1>5. ReaderType'
    BY <1>1, <1>2, <1>4 DEF ReaderType, Labels
  <1>6. Base' = Base /\ Pos' = Pos /\ HaveRead' = HaveRead /\ Pos = Base + i
    BY <1>1 DEF Base, Pos, HaveRead
  <1>7. ReadOn'
    BY <1>1, <1>6 DEF ReadOn, ReadTo
  <1> DEFINE s == Base + i + 1
  <1>8. s \in Starts(file)
    <2>1. i \in i .. end - 1
      BY <1>2, <1>4
    <2>2. file[s] \notin Spaces
      BY <1>4, <2>1 DEF InBuffer, Holds
    <2>3. s \in 1 .. Len(file) /\ (Pos = 0 => s = 1) /\ s - 1 = Pos
      BY <1>2, <1>4, <1>6
    <2>4. QED
      BY <1>2, <1>4, <2>2, <2>3 DEF Starts, InBuffer
  <1>9. Holds(i)'
    BY <1>1, <1>4, <1>6 DEF Holds, InBuffer
  <1>10. s - 1 = Pos /\ \A m \in s .. Pos : FALSE
    BY <1>2, <1>6
  <1>11. InWord'
    <2>1. Base' + wStart' + 1 = s
      BY <1>1, <1>6
    <2> HIDE DEF s
    <2>2. wStart' < end' /\ wStart' <= i' /\ Holds(wStart)' /\ ~(i' > end') /\ at' # "char"
      BY <1>1, <1>2, <1>4, <1>9 DEF Holds
    <2>3. AreWords(words', file', s - 1)
      BY <1>1, <1>4, <1>10 DEF InBuffer
    <2>4. QED
      BY <1>1, <1>6, <1>8, <1>10, <2>1, <2>2, <2>3 DEF InWord
  <1>12. QED
    BY <1>1, <1>5, <1>7, <1>11 DEF ReaderInv

\* The visits end.
LEMMA CloseKeeps ==
  ASSUME ReaderInv, Close
  PROVE  ReaderInv'
  <1>1. /\ ReaderType /\ ReadOn /\ at = "between" /\ Done /\ at' = "closed"
        /\ file' = file /\ rest' = rest /\ eof' = eof /\ buf' = buf /\ i' = i /\ end' = end
        /\ wStart' = wStart /\ words' = words
    BY DEF Close, ReaderInv
  <1>2. end \in Nat /\ i \in Nat
    BY <1>1, ReaderFacts
  <1>3. ReaderType'
    BY <1>1 DEF ReaderType, Labels
  <1>4. Base' = Base /\ Pos' = Pos /\ HaveRead' = HaveRead
    BY <1>1 DEF Base, Pos, HaveRead
  <1>5. ReadOn'
    BY <1>1, <1>4 DEF ReadOn, ReadTo
  <1>6. InBuffer => InBuffer'
    BY <1>1, <1>2, <1>4 DEF InBuffer, Holds, Done
  <1>7. InOldBuffer => InOldBuffer'
    BY <1>1 DEF InOldBuffer
  <1>8. Behind => Behind'
    BY <1>1 DEF Behind
  <1>9. QED
    BY <1>1, <1>3, <1>5, <1>6, <1>7, <1>8 DEF ReaderInv

\* The word is moved to the start of the buffer, where it leaves room.
LEMMA WordRefillKeeps ==
  ASSUME Fits(file), ReaderInv, WordRefill
  PROVE  ReaderInv'
  <1>1. /\ ReaderType /\ ReadOn /\ InWord /\ at = "word" /\ i = end /\ ~eof /\ Fill(wStart)
        /\ at' = "char" /\ file' = file /\ wStart' = 0 /\ words' = words
    BY DEF WordRefill, ReaderInv
  <1>2. /\ file \in Seq(Chars) /\ Len(file) \in Nat /\ BufSize \in Nat /\ BufSize > 0
        /\ end = BufSize /\ i \in Nat /\ ReadTo /\ Base \in Nat /\ wStart \in Nat
        /\ Base + end = HaveRead /\ HaveRead <= Len(file) /\ Pos = Base + i
    BY <1>1, ReaderFacts, RestFacts DEF ReadOn, ReadTo, ReaderType, Pos
  <1> DEFINE s == Base + wStart + 1
  <1>3. /\ wStart < end /\ Holds(wStart) /\ s \in Starts(file)
        /\ \A m \in s .. Pos : m <= Len(file) => file[m] \notin Spaces
        /\ AreWords(words, file, s - 1)
    BY <1>1 DEF InWord
  <1>4. wStart > 0
    <2> SUFFICES ASSUME wStart = 0 PROVE FALSE
      BY <1>2
    <2>1. Base + BufSize <= Len(file)
      BY <1>2
    <2>2. PICK j \in 1 .. BufSize : file[Base + j] \in Spaces
      BY <1>1, <1>2, <2>1, Window
    <2>3. Base + j \in s .. Pos /\ Base + j <= Len(file)
      BY <1>1, <1>2, <2>1
    <2>4. QED
      BY <1>3, <2>2, <2>3
  <1>5. /\ rest' \in Seq(Chars) /\ eof' \in BOOLEAN /\ end' \in 0 .. BufSize
        /\ buf' \in [0 .. BufSize -> Chars \cup {Nul}]
        /\ ReadOn' /\ Holds(0)' /\ Base' = Base + wStart /\ i' = end - wStart
        /\ i' < end' \/ (i' = end' /\ eof')
    <2>1. wStart <= end /\ end - wStart < BufSize
      BY <1>2, <1>3, <1>4
    <2>2. QED
      BY <1>1, <1>2, <1>3, <2>1, FillEffect
  <1>6. ReaderType'
    <2>1. end - wStart \in Nat /\ 0 \in 0 .. BufSize
      BY <1>1, <1>2, <1>3
    <2>2. QED
      BY <1>1, <1>5, <2>1 DEF ReaderType, Labels
  <1>7. Base' + wStart' + 1 = s /\ Pos' = Pos
    BY <1>1, <1>2, <1>5 DEF Pos
  <1>8. wStart' < end' /\ wStart' <= i' /\ ~(i' > end') /\ (i' < end' \/ eof')
    <2>1. end - wStart \in Nat /\ end - wStart > 0 /\ end' \in Nat
      BY <1>1, <1>2, <1>3, <1>5
    <2>2. QED
      BY <1>1, <1>5, <2>1
  <1>9. Holds(wStart)'
    BY <1>1, <1>5 DEF Holds
  <1> HIDE DEF s
  <1>10. InWord'
    BY <1>1, <1>3, <1>7, <1>8, <1>9 DEF InWord
  <1>11. QED
    BY <1>1, <1>5, <1>6, <1>10 DEF ReaderInv

\* What is known in a word.
LEMMA WordFacts ==
  ASSUME ReaderInv, at \in {"word", "char"}
  PROVE  /\ ReaderType /\ ReadOn /\ InWord /\ ReadTo
         /\ file \in Seq(Chars) /\ Len(file) \in Nat /\ BufSize \in Nat
         /\ end \in Nat /\ end <= BufSize /\ i \in Nat /\ Base \in Nat /\ wStart \in Nat
         /\ Base + end = HaveRead /\ HaveRead <= Len(file) /\ Pos = Base + i
         /\ eof => HaveRead = Len(file)
         /\ wStart < end /\ wStart <= i /\ Holds(wStart) /\ (i > end => eof)
         /\ Base + wStart + 1 \in Starts(file)
         /\ \A m \in Base + wStart + 1 .. Pos : m <= Len(file) => file[m] \notin Spaces
         /\ AreWords(words, file, Base + wStart + 1 - 1)
  <1>1. ReaderType /\ ReadOn /\ InWord /\ ReadTo
    BY DEF ReaderInv, ReadOn
  <1>2. QED
    BY <1>1, ReaderFacts, RestFacts DEF ReadOn, ReadTo, ReaderType, Pos, InWord

\* One more character of the word.
LEMMA WordCharKeeps ==
  ASSUME ReaderInv, WordChar
  PROVE  ReaderInv'
  <1>1. /\ at \in {"word", "char"} /\ (at = "char" \/ i # end)
        /\ FALSE \in IsSpace(i, FALSE) /\ at' = "word"
        /\ file' = file /\ rest' = rest /\ eof' = eof /\ buf' = buf /\ i' = i + 1 /\ end' = end
        /\ wStart' = wStart /\ words' = words
    BY DEF WordChar, AtTest
  <1>2. /\ ReaderType /\ ReadOn /\ InWord
        /\ file \in Seq(Chars) /\ Len(file) \in Nat /\ BufSize \in Nat
        /\ end \in Nat /\ end <= BufSize /\ i \in Nat /\ Base \in Nat /\ wStart \in Nat
        /\ Base + end = HaveRead /\ HaveRead <= Len(file) /\ Pos = Base + i
        /\ eof => HaveRead = Len(file)
        /\ wStart < end /\ wStart <= i /\ Holds(wStart) /\ (i > end => eof)
    BY <1>1, WordFacts
  <1>3. i < end \/ (eof /\ i >= end)
    <2>1. at = "char" => i < end \/ eof
      BY <1>2 DEF InWord
    <2>2. QED
      BY <1>1, <1>2, <2>1
  <1>4. ReaderType'
    BY <1>1, <1>2 DEF ReaderType, Labels
  <1>5. Base' = Base /\ Pos' = Pos + 1 /\ HaveRead' = HaveRead
    <2>1. Base' = Base /\ HaveRead' = HaveRead /\ Pos' = Base + (i + 1)
      BY <1>1 DEF Base, Pos, HaveRead
    <2>2. QED
      BY <1>2, <2>1
  <1>6. ReadOn'
    BY <1>1, <1>2, <1>5 DEF ReadOn, ReadTo
  <1> DEFINE s == Base + wStart + 1
  <1>7. \A m \in s .. Pos + 1 : m <= Len(file) => file[m] \notin Spaces
    <2> SUFFICES ASSUME NEW m \in s .. Pos + 1, m <= Len(file)
                 PROVE  file[m] \notin Spaces
      OBVIOUS
    <2>1. CASE m = Pos + 1
      <3>1. i < end /\ i <= BufSize
        BY <1>2, <1>3, <2>1
      <3>2. buf[i] \notin Spaces
        BY <1>1, <1>2, <3>1, InsideSpace
      <3>3. buf[i] = file[Base + i + 1]
        BY <1>2, <3>1 DEF Holds
      <3>4. QED
        BY <1>2, <2>1, <3>2, <3>3
    <2>2. CASE m # Pos + 1
      <3>1. m \in s .. Pos
        BY <1>2, <2>2
      <3>2. QED
        BY <1>2, <3>1 DEF InWord
    <2>3. QED
      BY <2>1, <2>2
  <1>8. s \in Starts(file) /\ AreWords(words, file, s - 1)
    BY <1>2 DEF InWord
  <1>9. Base' + wStart' + 1 = s
    BY <1>1, <1>5
  <1>10. wStart' < end' /\ wStart' <= i' /\ (i' > end' => eof')
    BY <1>1, <1>2, <1>3
  <1>11. Holds(wStart)'
    BY <1>1, <1>2, <1>5 DEF Holds
  <1> HIDE DEF s
  <1>12. InWord'
    BY <1>1, <1>5, <1>7, <1>8, <1>9, <1>10, <1>11 DEF InWord
  <1>13. QED
    BY <1>1, <1>4, <1>6, <1>12 DEF ReaderInv

\* The characters of the buffer.
LEMMA ContentFacts ==
  ASSUME ReaderType, NEW k \in Nat, NEW l \in Nat, l <= k
  PROVE  /\ Content(l, k) \in Seq(Chars \cup {Nul, Junk}) /\ Len(Content(l, k)) = k - l
         /\ \A j \in 1 .. k - l : l + j - 1 <= BufSize => Content(l, k)[j] = buf[l + j - 1]
  <1> DEFINE e(j) == IF l + j - 1 <= BufSize THEN buf[l + j - 1] ELSE Junk
  <1>1. BufSize \in Nat /\ buf \in [0 .. BufSize -> Chars \cup {Nul}] /\ k - l \in Nat
    BY ReaderFacts DEF ReaderType
  <1>2. ASSUME NEW j \in 1 .. k - l
        PROVE  e(j) \in Chars \cup {Nul, Junk}
    <2>1. CASE l + j - 1 <= BufSize
      <3>1. l + j - 1 \in 0 .. BufSize
        BY <1>1, <2>1
      <3>2. buf[l + j - 1] \in Chars \cup {Nul}
        BY <1>1, <3>1
      <3>3. QED
        BY <2>1, <3>2
    <2>2. CASE ~(l + j - 1 <= BufSize)
      BY <2>2
    <2>3. QED
      BY <2>1, <2>2
  <1>3. Content(l, k) = [j \in 1 .. k - l |-> e(j)]
    BY DEF Content
  <1> HIDE DEF e
  <1>4. Content(l, k) \in Seq(Chars \cup {Nul, Junk}) /\ Len(Content(l, k)) = k - l
    BY <1>1, <1>2, <1>3
  <1>5. \A j \in 1 .. k - l : Content(l, k)[j] = e(j)
    BY <1>3
  <1>6. QED
    BY <1>4, <1>5 DEF e

\* In the word no other begins.
LEMMA OneStart ==
  ASSUME NEW f \in Seq(Chars), NEW s \in Starts(f), NEW q \in Nat,
         \A m \in s .. q - 1 : m <= Len(f) => f[m] \notin Spaces
  PROVE  \A m \in s + 1 .. q : m \notin Starts(f)
  <1> SUFFICES ASSUME NEW m \in s + 1 .. q, m \in Starts(f)
               PROVE  FALSE
    OBVIOUS
  <1>1. s \in Nat /\ s >= 1 /\ m \in Nat /\ m <= Len(f) /\ Len(f) \in Nat
    BY StartsFinite
  <1>2. m - 1 \in s .. q - 1 /\ m - 1 <= Len(f) /\ m # 1
    BY <1>1
  <1>3. f[m - 1] \notin Spaces
    BY <1>2
  <1>4. QED
    BY <1>2, <1>3 DEF Starts

\* The word ends in the buffer, before a space.
LEMMA WordEndsInside ==
  ASSUME ReaderInv, at \in {"word", "char"}, i < end, buf[i] \in Spaces, WordEndsAt(i)
  PROVE  ReaderInv'
  <1>1. /\ ReaderType /\ ReadOn /\ InWord
        /\ file \in Seq(Chars) /\ Len(file) \in Nat /\ BufSize \in Nat
        /\ end \in Nat /\ end <= BufSize /\ i \in Nat /\ Base \in Nat /\ wStart \in Nat
        /\ Base + end = HaveRead /\ HaveRead <= Len(file) /\ Pos = Base + i
        /\ wStart < end /\ wStart <= i /\ Holds(wStart)
    BY WordFacts
  <1>2. /\ buf' = [buf EXCEPT ![i] = Nul] /\ words' = Append(words, Content(wStart, i))
        /\ i' = i + 1 /\ at' = "skip"
        /\ file' = file /\ rest' = rest /\ eof' = eof /\ end' = end /\ wStart' = wStart
    BY <1>1 DEF WordEndsAt
  <1> DEFINE s == Base + wStart + 1
             word == Content(wStart, i)
  <1>3. /\ s \in Starts(file) /\ AreWords(words, file, s - 1)
        /\ \A m \in s .. Pos : m <= Len(file) => file[m] \notin Spaces
    BY <1>1 DEF InWord
  <1>4. file[Pos + 1] \in Spaces /\ Pos + 1 <= Len(file)
    <2>1. i \in wStart .. end - 1
      BY <1>1
    <2>2. buf[i] = file[Base + i + 1]
      BY <1>1, <2>1 DEF Holds
    <2>3. QED
      BY <1>1, <2>2
  <1>5. s <= Pos
    <2>1. wStart # i
      <3> SUFFICES ASSUME wStart = i PROVE FALSE
        OBVIOUS
      <3>1. s = Pos + 1
        BY <1>1
      <3>2. QED
        BY <1>3, <1>4, <3>1 DEF Starts
    <2>2. QED
      BY <1>1, <2>1
  <1>6. word = WordAt(file, s)
    <2>1. WordAt(file, s) = SubSeq(file, s, Pos)
      <3>1. Pos \in s .. Len(file) /\ \A m \in s .. Pos : file[m] \notin Spaces
        BY <1>1, <1>3, <1>4, <1>5
      <3> HIDE DEF s
      <3>2. QED
        BY <1>1, <1>3, <1>4, <3>1, WordIs
    <2>2. /\ word \in Seq(Chars \cup {Nul, Junk}) /\ Len(word) = i - wStart
          /\ \A j \in 1 .. i - wStart : wStart + j - 1 <= BufSize => word[j] = buf[wStart + j - 1]
      BY <1>1, ContentFacts
    <2>3. /\ SubSeq(file, s, Pos) \in Seq(Chars) /\ Len(SubSeq(file, s, Pos)) = i - wStart
          /\ \A j \in 1 .. i - wStart : SubSeq(file, s, Pos)[j] = file[s + j - 1]
      <3>1. /\ SubSeq(file, s, Pos) \in Seq(Chars)
            /\ Len(SubSeq(file, s, Pos)) = IF s <= Pos THEN Pos - s + 1 ELSE 0
            /\ \A j \in 1 .. Pos - s + 1 : SubSeq(file, s, Pos)[j] = file[s + j - 1]
        <4>1. s \in Nat /\ Pos \in Nat /\ s >= 1 /\ Pos <= Len(file) /\ file \in Seq(Chars)
          BY <1>1, <1>4
        <4> HIDE DEF s
        <4>2. QED
          BY <4>1, PartOf
      <3>2. Pos - s + 1 = i - wStart
        BY <1>1
      <3> HIDE DEF s
      <3>3. QED
        BY <1>5, <3>1, <3>2
    <2>4. \A j \in 1 .. i - wStart : word[j] = file[s + j - 1]
      <3> SUFFICES ASSUME NEW j \in 1 .. i - wStart
                   PROVE  word[j] = file[s + j - 1]
        OBVIOUS
      <3>1. wStart + j - 1 \in wStart .. end - 1 /\ wStart + j - 1 <= BufSize
        BY <1>1
      <3>2. buf[wStart + j - 1] = file[Base + (wStart + j - 1) + 1]
        BY <1>1, <3>1 DEF Holds
      <3>3. Base + (wStart + j - 1) + 1 = s + j - 1
        BY <1>1
      <3>4. QED
        BY <2>2, <3>1, <3>2, <3>3
    <2>5. SubSeq(file, s, Pos) \in Seq(Chars \cup {Nul, Junk})
      BY <2>3, SeqMonotonic
    <2> HIDE DEF s, word
    <2>6. QED
      BY <2>1, <2>2, <2>3, <2>4, <2>5, SeqEqual
  <1>7. word \in Seq(Chars \cup {Nul, Junk})
    BY <1>1, ContentFacts
  <1>8. AreWords(words', file', Pos + 1)
    <2>1. Pos + 1 \in Nat /\ s <= Pos + 1
      BY <1>1, <1>5
    <2>2. \A m \in s .. (Pos + 1) - 1 : m <= Len(file) => file[m] \notin Spaces
      BY <1>1, <1>3
    <2>3. words \in Seq(Seq(Chars \cup {Nul, Junk}))
      BY <1>1 DEF ReaderType
    <2> HIDE DEF s, word
    <2>4. \A m \in s + 1 .. Pos + 1 : m \notin Starts(file)
      BY <1>1, <1>3, <2>1, <2>2, OneStart
    <2>5. AreWords(Append(words, word), file, Pos + 1)
      BY <1>1, <1>3, <1>6, <1>7, <2>1, <2>3, <2>4, WordAdded
    <2>6. QED
      BY <1>2, <2>5 DEF word
  <1> HIDE DEF s
  <1>9. ReaderType'
    <2>1. buf' \in [0 .. BufSize -> Chars \cup {Nul}]
      BY <1>1, <1>2 DEF ReaderType
    <2>2. words' \in Seq(Seq(Chars \cup {Nul, Junk}))
      <3>1. words \in Seq(Seq(Chars \cup {Nul, Junk}))
        BY <1>1 DEF ReaderType
      <3>2. words' = Append(words, word)
        BY <1>2
      <3> HIDE DEF word
      <3>3. QED
        BY <1>7, <3>1, <3>2
    <2>3. QED
      BY <1>1, <1>2, <2>1, <2>2 DEF ReaderType, Labels
  <1>10. Base' = Base /\ Pos' = Pos + 1 /\ HaveRead' = HaveRead
    BY <1>1, <1>2 DEF Base, Pos, HaveRead
  <1>11. i \in 0 .. BufSize /\ buf \in [0 .. BufSize -> Chars \cup {Nul}]
    BY <1>1 DEF ReaderType
  <1>12. ReadOn'
    <2>1. ReadTo' /\ (eof' => rest' = <<>>) /\ (~eof' => end' = BufSize)
      BY <1>1, <1>2, <1>10 DEF ReadOn, ReadTo
    <2>2. ASSUME ~eof', NEW k \in 0 .. end' - 1, file'[Base' + k + 1] \notin Spaces
          PROVE  buf'[k] \notin Spaces
      <3>1. buf[k] \notin Spaces /\ k \in 0 .. BufSize
        BY <1>1, <1>2, <1>10, <2>2 DEF ReadOn
      <3>2. buf'[k] = IF k = i THEN Nul ELSE buf[k]
        BY <1>2, <1>11, <3>1
      <3>3. QED
        BY <1>1, <3>1, <3>2, ReaderFacts
    <2>3. QED
      BY <2>1, <2>2 DEF ReadOn
  <1>13. Holds(i)'
    <2> SUFFICES ASSUME NEW k \in i + 1 .. end - 1
                 PROVE  buf'[k] = file[Base + k + 1]
      BY <1>2, <1>10 DEF Holds
    <2>1. k \in wStart .. end - 1 /\ k # i /\ k \in 0 .. BufSize
      BY <1>1
    <2>2. buf'[k] = buf[k]
      BY <1>2, <1>11, <2>1
    <2>3. QED
      BY <1>1, <2>1, <2>2 DEF Holds
  <1>14. i' <= end'
    BY <1>1, <1>2
  <1>15. InBuffer'
    BY <1>2, <1>4, <1>8, <1>10, <1>13, <1>14 DEF InBuffer
  <1>16. QED
    BY <1>2, <1>9, <1>12, <1>15 DEF ReaderInv

\* The word ends with the file, before index k or behind it.
LEMMA WordEndsBehind ==
  ASSUME ReaderInv, at \in {"word", "char"}, eof, i >= end,
         NEW k \in Nat, k \in {i, i + 1}, k >= end, WordEndsAt(k)
  PROVE  ReaderInv'
  <1>1. /\ ReaderType /\ ReadOn /\ InWord
        /\ file \in Seq(Chars) /\ Len(file) \in Nat /\ BufSize \in Nat
        /\ end \in Nat /\ end <= BufSize /\ i \in Nat /\ Base \in Nat /\ wStart \in Nat
        /\ Base + end = HaveRead /\ HaveRead = Len(file) /\ Pos = Base + i
        /\ wStart < end /\ wStart <= i /\ Holds(wStart) /\ Pos >= Len(file)
    BY WordFacts
  <1>2. /\ buf' = IF k <= BufSize THEN [buf EXCEPT ![k] = Nul] ELSE buf
        /\ words' = Append(words, Content(wStart, k))
        /\ i' = k + 1 /\ at' = "skip"
        /\ file' = file /\ rest' = rest /\ eof' = eof /\ end' = end /\ wStart' = wStart
    BY DEF WordEndsAt
  <1>3. wStart <= k /\ k >= end /\ k + 1 > end
    BY <1>1
  <1> DEFINE s == Base + wStart + 1
             word == Content(wStart, k)
             theWord == SubSeq(file, s, Len(file))
  <1>4. s \in Starts(file) /\ AreWords(words, file, s - 1)
    BY <1>1 DEF InWord
  <1>5. s \in Nat /\ s <= Len(file) /\ s >= 1
    BY <1>1
  <1>6. \A m \in s .. Len(file) : file[m] \notin Spaces
    <2>1. \A m \in s .. Pos : m <= Len(file) => file[m] \notin Spaces
      BY <1>1 DEF InWord
    <2>2. s \in Int /\ Pos \in Int
      BY <1>1
    <2> HIDE DEF s
    <2>3. QED
      BY <1>1, <2>1, <2>2
  <1>7. ~Ended(file)
    <2>1. file[Len(file)] \notin Spaces /\ file # <<>>
      BY <1>1, <1>5, <1>6
    <2>2. QED
      BY <2>1 DEF Ended
  <1>8. WordAt(file, s) = theWord
    <2>1. Len(file) \in s .. Len(file)
      BY <1>1, <1>5
    <2> HIDE DEF s
    <2>2. QED
      BY <1>1, <1>4, <1>6, <2>1, WordIs
  <1>9. /\ word \in Seq(Chars \cup {Nul, Junk}) /\ Len(word) = k - wStart
        /\ \A j \in 1 .. k - wStart : wStart + j - 1 <= BufSize => word[j] = buf[wStart + j - 1]
    BY <1>1, <1>3, ContentFacts
  <1>10. /\ theWord \in Seq(Chars) /\ Len(theWord) = end - wStart
         /\ \A j \in 1 .. end - wStart : theWord[j] = file[s + j - 1]
    <2>1. /\ theWord \in Seq(Chars) /\ Len(theWord) = IF s <= Len(file) THEN Len(file) - s + 1 ELSE 0
          /\ \A j \in 1 .. Len(file) - s + 1 : theWord[j] = file[s + j - 1]
      <3> HIDE DEF s
      <3>1. QED
        BY <1>1, <1>5, PartOf
    <2>2. Len(file) - s + 1 = end - wStart
      BY <1>1
    <2> HIDE DEF s, theWord
    <2>3. QED
      BY <1>5, <2>1, <2>2
  <1>11. \A j \in 1 .. end - wStart : word[j] = file[s + j - 1]
    <2> SUFFICES ASSUME NEW j \in 1 .. end - wStart
                 PROVE  word[j] = file[s + j - 1]
      OBVIOUS
    <2>1. wStart + j - 1 \in wStart .. end - 1 /\ wStart + j - 1 <= BufSize /\ j \in 1 .. k - wStart
      BY <1>1, <1>3
    <2>2. buf[wStart + j - 1] = file[Base + (wStart + j - 1) + 1]
      BY <1>1, <2>1 DEF Holds
    <2>3. Base + (wStart + j - 1) + 1 = s + j - 1
      BY <1>1
    <2>4. QED
      BY <1>9, <2>1, <2>2, <2>3
  <1> HIDE DEF s, word, theWord
  <1>12. IsPrefix(WordAt(file, s), word)
    <2>1. Len(theWord) <= Len(word) /\ Len(theWord) \in Nat /\ Len(word) \in Nat
      BY <1>1, <1>3, <1>9, <1>10
    <2>2. /\ SubSeq(word, 1, Len(theWord)) \in Seq(Chars \cup {Nul, Junk})
          /\ Len(SubSeq(word, 1, Len(theWord)))
               = IF 1 <= Len(theWord) THEN Len(theWord) - 1 + 1 ELSE 0
          /\ \A j \in 1 .. Len(theWord) - 1 + 1 :
               SubSeq(word, 1, Len(theWord))[j] = word[1 + j - 1]
      BY <1>9, <2>1, PartOf
    <2> DEFINE part == SubSeq(word, 1, Len(theWord))
    <2>3. part \in Seq(Chars \cup {Nul, Junk}) /\ Len(part) = Len(theWord)
      BY <2>1, <2>2
    <2>4. \A j \in 1 .. Len(theWord) : part[j] = word[j]
      BY <2>1, <2>2
    <2> HIDE DEF part
    <2>5. \A j \in 1 .. Len(theWord) : part[j] = theWord[j]
      BY <1>10, <1>11, <2>4
    <2>6. theWord \in Seq(Chars \cup {Nul, Junk})
      BY <1>10, SeqMonotonic
    <2>7. theWord = part
      BY <2>3, <2>5, <2>6, SeqEqual
    <2>8. QED
      BY <1>8, <2>1, <2>7 DEF IsPrefix, part
  <1>13. AlmostAll(words', file')
    <2>1. words \in Seq(Seq(Chars \cup {Nul, Junk}))
      BY <1>1 DEF ReaderType
    <2>2. \A m \in s .. Len(file) - 1 : m <= Len(file) => file[m] \notin Spaces
      BY <1>1, <1>5, <1>6
    <2>3. \A m \in s + 1 .. Len(file) : m \notin Starts(file)
      BY <1>1, <1>4, <2>2, OneStart
    <2>4. AlmostAll(Append(words, word), file)
      BY <1>1, <1>4, <1>5, <1>9, <1>12, <2>1, <2>3, WordAdded
    <2>5. QED
      BY <1>2, <2>4 DEF word
  <1>14. ReaderType'
    <2>1. buf' \in [0 .. BufSize -> Chars \cup {Nul}]
      BY <1>1, <1>2 DEF ReaderType
    <2>2. words' \in Seq(Seq(Chars \cup {Nul, Junk}))
      <3>1. words \in Seq(Seq(Chars \cup {Nul, Junk}))
        BY <1>1 DEF ReaderType
      <3>2. words' = Append(words, word)
        BY <1>2 DEF word
      <3>3. QED
        BY <1>9, <3>1, <3>2
    <2>3. QED
      BY <1>1, <1>2, <2>1, <2>2 DEF ReaderType, Labels
  <1>15. ReadOn'
    <2>1. Base' = Base /\ HaveRead' = HaveRead
      BY <1>2 DEF Base, HaveRead
    <2>2. QED
      BY <1>1, <1>2, <2>1 DEF ReadOn, ReadTo
  <1>16. Behind'
    <2>1. i' > end' /\ eof' /\ ~Ended(file')
      BY <1>2, <1>3, <1>7
    <2>2. QED
      BY <1>13, <2>1 DEF Behind
  <1>17. QED
    BY <1>2, <1>14, <1>15, <1>16 DEF ReaderInv

\* A word ends.
LEMMA WordEndsKeeps ==
  ASSUME ReaderInv, WordEnds
  PROVE  ReaderInv'
  <1>1. at \in {"word", "char"}
    BY DEF WordEnds, AtTest
  <1>2. /\ ReaderType /\ InWord /\ BufSize \in Nat
        /\ end \in Nat /\ end <= BufSize /\ i \in Nat /\ (i > end => eof)
    BY <1>1, WordFacts
  <1>3. CASE at = "word" /\ i = end /\ eof /\ WordEndsAt(i + 1)
    <2>1. i + 1 \in Nat /\ i + 1 \in {i, i + 1} /\ i + 1 >= end /\ i >= end
      BY <1>2, <1>3
    <2>2. QED
      BY <1>1, <1>3, <2>1, WordEndsBehind
  <1>4. CASE AtTest("word", "char") /\ TRUE \in IsSpace(i, FALSE) /\ WordEndsAt(i)
    <2>1. CASE i < end
      <3>1. i <= BufSize
        BY <1>2, <2>1
      <3>2. buf[i] \in Spaces
        BY <1>2, <1>4, <3>1, InsideSpace
      <3>3. QED
        BY <1>1, <1>4, <2>1, <3>2, WordEndsInside
    <2>2. CASE i >= end
      <3>1. eof
        BY <1>2, <1>4, <2>2 DEF AtTest, InWord
      <3>2. i \in {i, i + 1}
        OBVIOUS
      <3>3. QED
        BY <1>1, <1>2, <1>4, <2>2, <3>1, <3>2, WordEndsBehind
    <2>3. QED
      BY <1>2, <2>1, <2>2
  <1>5. QED
    BY <1>3, <1>4 DEF WordEnds

\* Every step of the reader.
LEMMA ReaderStepKeeps ==
  ASSUME Fits(file), ReaderInv, ReaderStep
  PROVE  ReaderInv' /\ file' = file
  <1>1. ReaderInv'
    BY OpenKeeps, SkipRefillKeeps, SkipEndsKeeps, SkipSpaceKeeps, VisitKeeps, CloseKeeps,
       WordRefillKeeps, WordCharKeeps, WordEndsKeeps DEF ReaderStep
  <1>2. file' = file
    BY DEF ReaderStep, Open, SkipRefill, SkipEnds, SkipSpace, Visit, Close, WordRefill, WordChar,
           WordEnds, WordEndsAt
  <1>3. QED
    BY <1>1, <1>2

\* The first state.
LEMMA ReaderStarts ==
  ASSUME InitReader
  PROVE  ReaderInv
  <1>1. /\ file \in Files /\ rest = file /\ eof = FALSE /\ i = 0 /\ end = 0 /\ wStart = 0
        /\ at = "open" /\ words = <<>>
    BY DEF InitReader
  <1>2. buf \in [0 .. BufSize -> Chars \cup {Nul}]
    BY DEF InitReader
  <1>3. file \in Seq(Chars) /\ BufSize \in Nat
    BY <1>1, FileReaderAssumption
  <1>4. ReaderType
    BY <1>1, <1>2, <1>3 DEF ReaderType, Labels
  <1>5. QED
    BY <1>1, <1>4 DEF ReaderInv

\* When nothing of the reader changes.
LEMMA ReaderRests ==
  ASSUME ReaderInv, UNCHANGED readerVars
  PROVE  ReaderInv' /\ file' = file
  <1>1. /\ file' = file /\ rest' = rest /\ eof' = eof /\ buf' = buf /\ i' = i /\ end' = end
        /\ wStart' = wStart /\ at' = at /\ words' = words
    BY DEF readerVars
  <1>2. ReaderType' = ReaderType
    BY <1>1 DEF ReaderType
  <1>3. HaveRead' = HaveRead /\ Base' = Base /\ Pos' = Pos
    BY <1>1 DEF HaveRead, Base, Pos
  <1>4. ReadOn' = ReadOn
    BY <1>1, <1>3 DEF ReadOn, ReadTo
  <1>5. InBuffer' = InBuffer /\ InWord' = InWord
    BY <1>1, <1>3 DEF InBuffer, InWord, Holds
  <1>6. InOldBuffer' = InOldBuffer /\ Behind' = Behind
    BY <1>1 DEF InOldBuffer, Behind
  <1>7. QED
    BY <1>1, <1>2, <1>4, <1>5, <1>6 DEF ReaderInv

-----------------------------------------------------------------------------
(* What the reader has read when it is closed *)

\* No two words have the same rank.
LEMMA RankInjective ==
  ASSUME NEW f \in Seq(Chars), NEW s \in Starts(f), NEW t \in Starts(f), Rank(f, s) = Rank(f, t)
  PROVE  s = t
  <1>1. ASSUME NEW a \in Starts(f), NEW b \in Starts(f), Rank(f, a) = Rank(f, b)
        PROVE  ~(a < b)
    <2> SUFFICES ASSUME a < b PROVE FALSE
      OBVIOUS
    <2> DEFINE A == {x \in Starts(f) : x <= a}
               B == {x \in Starts(f) : x <= b}
    <2>1. Starts(f) \subseteq Nat
      BY StartsFinite
    <2>2. A \subseteq B /\ b \in B /\ b \notin A
      BY <2>1
    <2>3. IsFiniteSet(B)
      BY StartsFinite
    <2>4. Cardinality(A) = Cardinality(B)
      BY <1>1 DEF Rank
    <2> HIDE DEF A, B
    <2>5. A = B
      BY <2>2, <2>3, <2>4, FS_Subset
    <2>6. QED
      BY <2>2, <2>5
  <1>2. s \in Nat /\ t \in Nat
    BY StartsFinite
  <1>3. ~(s < t) /\ ~(t < s)
    BY <1>1
  <1>4. QED
    BY <1>2, <1>3

\* The words of a file are as many as begin in it, and are found by their ranks.
LEMMA SplitIs ==
  ASSUME NEW f \in Seq(Chars)
  PROVE  /\ Cardinality(Starts(f)) \in Nat
         /\ Len(Split(f)) = Cardinality(Starts(f))
         /\ Split(f) = [j \in 1 .. Cardinality(Starts(f)) |-> Split(f)[j]]
         /\ \A s \in Starts(f) :
              Rank(f, s) \in 1 .. Cardinality(Starts(f)) => Split(f)[Rank(f, s)] = WordAt(f, s)
  <1>1. Cardinality(Starts(f)) \in Nat
    BY StartsFinite
  <1>2. PICK n \in Nat : n = Cardinality(Starts(f))
    BY <1>1
  <1>3. Split(f) = [j \in 1 .. n |-> WordAt(f, CHOOSE k \in Starts(f) : Rank(f, k) = j)]
    BY <1>2 DEF Split
  <1>4. Len(Split(f)) = n /\ Split(f) = [j \in 1 .. n |-> Split(f)[j]]
    BY <1>3
  <1>5. ASSUME NEW s \in Starts(f), Rank(f, s) \in 1 .. n
        PROVE  Split(f)[Rank(f, s)] = WordAt(f, s)
    <2>1. (CHOOSE k \in Starts(f) : Rank(f, k) = Rank(f, s)) = s
      BY RankInjective
    <2>2. QED
      BY <1>3, <1>5, <2>1
  <1>6. QED
    BY <1>2, <1>4, <1>5

\* What the reader knows when it is closed.
LEMMA AtTheEnd ==
  ASSUME ReaderInv, at = "closed"
  PROVE  /\ file \in Seq(Chars) /\ words \in Seq(Seq(Chars \cup {Nul, Junk}))
         /\ Ended(file) => AreWords(words, file, Len(file))
         /\ ~Ended(file) => AlmostAll(words, file)
  <1>1. ReaderType /\ ReadOn /\ ReadTo
    BY DEF ReaderInv, ReadOn
  <1>2. /\ file \in Seq(Chars) /\ words \in Seq(Seq(Chars \cup {Nul, Junk})) /\ Len(file) \in Nat
        /\ eof => HaveRead = Len(file)
        /\ Base + end = HaveRead
    BY <1>1, ReaderFacts, RestFacts DEF ReaderType, ReadOn
  <1>3. CASE InBuffer
    <2>1. i = end /\ eof
      BY <1>3 DEF InBuffer
    <2>2. Pos = Len(file)
      BY <1>2, <2>1 DEF Pos
    <2>3. AreWords(words, file, Len(file)) /\ (Len(file) = 0 \/ file[Len(file)] \in Spaces)
      BY <1>3, <2>2 DEF InBuffer
    <2>4. Ended(file)
      BY <1>2, <2>3, EmptySeq DEF Ended
    <2>5. QED
      BY <1>2, <2>3, <2>4
  <1>4. CASE InOldBuffer
    BY <1>2, <1>4 DEF InOldBuffer
  <1>5. CASE Behind
    BY <1>2, <1>5 DEF Behind
  <1>6. QED
    BY <1>3, <1>4, <1>5 DEF ReaderInv

\* The rows are the words of the file.
LEMMA RowsAreWords ==
  ASSUME ReaderInv
  PROVE  WordsOfFile
  <1> SUFFICES ASSUME at = "closed", Fits(file)
               PROVE  IF Ended(file) THEN words = Split(file)
                      ELSE /\ Len(words) = Len(Split(file)) /\ Front(words) = Front(Split(file))
                           /\ IsPrefix(Last(Split(file)), Last(words))
    BY DEF WordsOfFile
  <1>1. /\ file \in Seq(Chars) /\ words \in Seq(Seq(Chars \cup {Nul, Junk}))
        /\ Ended(file) => AreWords(words, file, Len(file))
        /\ ~Ended(file) => AlmostAll(words, file)
    BY AtTheEnd
  <1> DEFINE right == Split(file)
  <1>2. PICK n \in Nat : n = Cardinality(Starts(file))
    BY <1>1, SplitIs
  <1>3. /\ Len(right) = n /\ right = [j \in 1 .. n |-> right[j]]
        /\ \A s \in Starts(file) : Rank(file, s) \in 1 .. n => right[Rank(file, s)] = WordAt(file, s)
    BY <1>1, <1>2, SplitIs
  <1>4. words = [j \in 1 .. Len(words) |-> words[j]]
    BY <1>1
  <1> HIDE DEF right
  <1>5. CASE Ended(file)
    <2>1. AreWords(words, file, Len(file))
      BY <1>1, <1>5
    <2>2. {s \in Starts(file) : s <= Len(file)} = Starts(file)
      BY <1>1, StartsFinite
    <2>3. Len(words) = n
      BY <1>2, <2>1, <2>2 DEF AreWords
    <2>4. \A j \in 1 .. n : words[j] = right[j]
      <3> SUFFICES ASSUME NEW j \in 1 .. n
                   PROVE  words[j] = right[j]
        OBVIOUS
      <3>1. PICK s \in Starts(file) : Rank(file, s) = j /\ words[j] = WordAt(file, s)
        BY <2>1, <2>3 DEF AreWords
      <3>2. QED
        BY <1>3, <3>1
    <2>5. words = right
      BY <1>3, <1>4, <2>3, <2>4
    <2>6. QED
      BY <1>5, <2>5 DEF right
  <1>6. CASE ~Ended(file)
    <2>1. AlmostAll(words, file)
      BY <1>1, <1>6
    <2>2. Len(words) = n /\ n > 0
      BY <1>2, <2>1 DEF AlmostAll
    <2>3. ASSUME NEW j \in 1 .. n
          PROVE  IF j = n THEN IsPrefix(right[j], words[j]) ELSE words[j] = right[j]
      <3>1. PICK s \in Starts(file) :
              /\ Rank(file, s) = j
              /\ IF j = n THEN IsPrefix(WordAt(file, s), words[j]) ELSE words[j] = WordAt(file, s)
        BY <2>1, <2>2 DEF AlmostAll
      <3>2. right[j] = WordAt(file, s)
        BY <1>3, <3>1
      <3>3. QED
        BY <3>1, <3>2
    <2>4. IsPrefix(Last(right), Last(words))
      <3>1. n \in 1 .. n
        BY <2>2
      <3>2. IsPrefix(right[n], words[n])
        BY <2>3, <3>1
      <3>3. QED
        BY <1>3, <2>2, <3>2 DEF Last
    <2>5. Front(words) = Front(right)
      <3> DEFINE S == {right[j] : j \in 1 .. n} \cup {words[j] : j \in 1 .. n}
      <3>1. words \in Seq(S) /\ right \in Seq(S)
        BY <1>3, <1>4, <2>2
      <3> HIDE DEF S
      <3>2. /\ SubSeq(words, 1, n - 1) \in Seq(S) /\ Len(SubSeq(words, 1, n - 1)) = n - 1
            /\ \A j \in 1 .. n - 1 : SubSeq(words, 1, n - 1)[j] = words[j]
        <4>1. n - 1 \in Nat /\ n - 1 <= Len(words) /\ \A j \in 1 .. n - 1 : 1 + j - 1 = j
          BY <2>2
        <4>2. /\ SubSeq(words, 1, n - 1) \in Seq(S)
              /\ Len(SubSeq(words, 1, n - 1)) = IF 1 <= n - 1 THEN (n - 1) - 1 + 1 ELSE 0
              /\ \A j \in 1 .. (n - 1) - 1 + 1 : SubSeq(words, 1, n - 1)[j] = words[1 + j - 1]
          BY <3>1, <4>1, PartOf
        <4> DEFINE p == SubSeq(words, 1, n - 1)
        <4> HIDE DEF p
        <4>3. QED
          BY <2>2, <4>1, <4>2 DEF p
      <3>3. /\ SubSeq(right, 1, n - 1) \in Seq(S) /\ Len(SubSeq(right, 1, n - 1)) = n - 1
            /\ \A j \in 1 .. n - 1 : SubSeq(right, 1, n - 1)[j] = right[j]
        <4>1. n - 1 \in Nat /\ n - 1 <= Len(right) /\ \A j \in 1 .. n - 1 : 1 + j - 1 = j
          BY <1>3, <2>2
        <4>2. /\ SubSeq(right, 1, n - 1) \in Seq(S)
              /\ Len(SubSeq(right, 1, n - 1)) = IF 1 <= n - 1 THEN (n - 1) - 1 + 1 ELSE 0
              /\ \A j \in 1 .. (n - 1) - 1 + 1 : SubSeq(right, 1, n - 1)[j] = right[1 + j - 1]
          BY <3>1, <4>1, PartOf
        <4>3. QED
          BY <2>2, <4>1, <4>2
      <3>4. \A j \in 1 .. n - 1 : words[j] = right[j]
        BY <2>2, <2>3
      <3>5. SubSeq(words, 1, n - 1) = SubSeq(right, 1, n - 1)
        <4> DEFINE x == SubSeq(words, 1, n - 1)
                   y == SubSeq(right, 1, n - 1)
        <4>1. /\ x \in Seq(S) /\ y \in Seq(S) /\ Len(x) = n - 1 /\ Len(y) = n - 1
              /\ \A j \in 1 .. n - 1 : x[j] = y[j]
          BY <3>2, <3>3, <3>4
        <4> HIDE DEF x, y
        <4>2. x = y
          BY <4>1, SeqEqual
        <4>3. QED
          BY <4>2 DEF x, y
      <3>6. QED
        BY <1>3, <2>2, <3>5 DEF Front
    <2>6. QED
      BY <1>3, <1>6, <2>2, <2>4, <2>5 DEF right
  <1>7. QED
    BY <1>5, <1>6

\* The assertions of visit hold, and the buffer is not left.
LEMMA InTheBuffer ==
  ASSUME ReaderInv
  PROVE  ReaderSound
  <1>1. ReaderType
    BY DEF ReaderInv
  <1>2. /\ end \in Nat /\ i \in Nat /\ BufSize \in Nat /\ end <= BufSize
        /\ file \in Seq(Chars) /\ Len(file) \in Nat
    BY <1>1, ReaderFacts
  <1>3. ASSUME at = "between", ~Done
        PROVE  i < end /\ buf[i] \notin Spaces
    <2>1. ~InOldBuffer /\ ~Behind
      BY <1>2, <1>3 DEF InOldBuffer, Behind, Done
    <2>2. QED
      BY <1>2, <1>3, <2>1 DEF ReaderInv, InBuffer, Done
  <1>4. ASSUME Ended(file)
        PROVE  i <= BufSize
    <2>1. CASE at = "open"
      BY <1>2, <2>1 DEF ReaderInv
    <2>2. CASE InBuffer
      BY <1>2, <2>2 DEF InBuffer
    <2>3. CASE InOldBuffer
      BY <1>2, <2>3 DEF InOldBuffer
    <2>4. CASE Behind
      BY <1>4, <2>4 DEF Behind
    <2>5. CASE at \in {"word", "char"}
      <3> SUFFICES ASSUME i > BufSize PROVE FALSE
        BY <1>2
      <3>1. /\ Base \in Nat /\ wStart \in Nat /\ wStart < end /\ i > end /\ eof
            /\ Base + end = Len(file) /\ Pos = Base + i
        BY <1>2, <2>5, WordFacts
      <3>2. \A m \in Base + wStart + 1 .. Pos : m <= Len(file) => file[m] \notin Spaces
        BY <2>5, WordFacts
      <3>3. Len(file) \in Base + wStart + 1 .. Pos /\ Len(file) > 0
        BY <1>2, <3>1
      <3>4. file[Len(file)] \notin Spaces /\ file # <<>>
        BY <1>2, <3>2, <3>3
      <3>5. QED
        BY <1>4, <3>4 DEF Ended
    <2>6. QED
      BY <1>1, <2>1, <2>2, <2>3, <2>4, <2>5 DEF ReaderInv, ReaderType, Labels
  <1>5. QED
    BY <1>3, <1>4 DEF ReaderSound

\* The reader's invariant, for the files that fit.
ReaderIndInv == Fits(file) => ReaderInv

\* No step of the application changes it, nor the file.
LEMMA ReaderKept ==
  ASSUME ReaderIndInv, [Next]_vars
  PROVE  ReaderIndInv'
  <1>1. ReaderStep \/ UNCHANGED readerVars
    BY DEF Next, Node0, Node, ReadWord, PutWords, StartCount, CountRow, StartSum, SumEntry,
           PutCounts, MergeRow, MergeNext, Finish, vars
  <1>2. CASE ReaderStep
    <2>1. file' = file
      BY <1>2 DEF ReaderStep, Open, SkipRefill, SkipEnds, SkipSpace, Visit, Close, WordRefill,
                  WordChar, WordEnds, WordEndsAt
    <2>2. Fits(file)' = Fits(file)
      BY <2>1
    <2>3. QED
      BY <1>2, <2>2, ReaderStepKeeps DEF ReaderIndInv
  <1>3. CASE UNCHANGED readerVars
    <2>1. file' = file
      BY <1>3 DEF readerVars
    <2>2. Fits(file)' = Fits(file)
      BY <2>1
    <2>3. QED
      BY <1>3, <2>2, ReaderRests DEF ReaderIndInv
  <1>4. QED
    BY <1>1, <1>2, <1>3

\* The reader's invariant always holds.
THEOREM ReaderRight == Spec => []ReaderIndInv
  <1>1. Init => ReaderIndInv
    BY ReaderStarts DEF Init, ReaderIndInv
  <1>2. ReaderIndInv /\ [Next]_vars => ReaderIndInv'
    BY ReaderKept
  <1>3. QED
    BY <1>1, <1>2, PTL DEF Spec

\* The rows of the dataframe are the words of the file, whatever the buffer cuts
\* (filereader.h, visit and fillBuffer_).
THEOREM WordsRead == Spec => []WordsOfFile
  <1>1. ReaderIndInv => WordsOfFile
    BY RowsAreWords DEF ReaderIndInv, WordsOfFile
  <1>2. QED
    BY <1>1, ReaderRight, PTL

\* The assertions of visit hold, and no index leaves the buffer (filereader.h).
THEOREM ReaderStaysInside == Spec => []ReaderSound
  <1>1. ReaderIndInv => ReaderSound
    BY InTheBuffer DEF ReaderIndInv, ReaderSound
  <1>2. QED
    BY <1>1, ReaderRight, PTL

-----------------------------------------------------------------------------
(* Maps of words *)

\* A word has one bucket.
LEMMA BucketOf ==
  ASSUME HashIsNat, NEW word \in WordType
  PROVE  Hash(word) % Capacity \in Buckets
  <1>1. Hash(word) \in Nat /\ Capacity \in Nat /\ Capacity > 0
    BY WordCountAssumption DEF HashIsNat
  <1>2. QED
    BY <1>1 DEF Buckets

\* The entries of a map by their places.
LEMMA EntryAt ==
  ASSUME NEW m, IsMap(m)
  PROVE  /\ \A e : e \in Entries(m) <=> \E b \in Buckets : \E k \in 1 .. Len(m[b]) : e = m[b][k]
         /\ \A b \in Buckets : \A k \in 1 .. Len(m[b]) :
              m[b][k] \in MapRow /\ m[b][k].word \in WordType /\ Hash(m[b][k].word) % Capacity = b
         /\ \A b \in Buckets : m[b] \in Seq(MapRow) /\ Len(m[b]) \in Nat
                               /\ DOMAIN m[b] = 1 .. Len(m[b])
  <1>1. \A b \in Buckets : m[b] \in Seq(MapRow)
    BY DEF IsMap
  <1>2. \A b \in Buckets : Len(m[b]) \in Nat /\ DOMAIN m[b] = 1 .. Len(m[b])
    BY <1>1
  <1>3. \A b \in Buckets : \A k \in 1 .. Len(m[b]) : m[b][k] \in MapRow
    BY <1>1, ElementOfSeq
  <1>4. \A e \in MapRow : e.word \in WordType
    BY DEF MapRow, WordType
  <1>5. \A b \in Buckets : \A k \in 1 .. Len(m[b]) : Hash(m[b][k].word) % Capacity = b
    BY <1>2 DEF IsMap, IsBucket
  <1>6. \A e : e \in Entries(m) <=> \E b \in Buckets : \E k \in 1 .. Len(m[b]) : e = m[b][k]
    BY <1>2 DEF Entries, Range
  <1>7. QED
    BY <1>1, <1>2, <1>3, <1>4, <1>5, <1>6

\* An entry of a word is in the word's bucket, and there is no other of that word.
LEMMA OneEntry ==
  ASSUME NEW m, IsMap(m), NEW e \in Entries(m), NEW d \in Entries(m), e.word = d.word
  PROVE  e = d
  <1>1. PICK b, k : b \in Buckets /\ k \in 1 .. Len(m[b]) /\ e = m[b][k]
    BY EntryAt
  <1>2. PICK c, l : c \in Buckets /\ l \in 1 .. Len(m[c]) /\ d = m[c][l]
    BY EntryAt
  <1>3. Hash(e.word) % Capacity = b /\ Hash(d.word) % Capacity = c
    BY <1>1, <1>2, EntryAt
  <1>4. b = c
    BY <1>3
  <1>5. k \in DOMAIN m[b] /\ l \in DOMAIN m[b]
    BY <1>1, <1>2, <1>4, EntryAt
  <1>6. k = l
    BY <1>1, <1>2, <1>4, <1>5 DEF IsMap, IsBucket, Differ
  <1>7. QED
    BY <1>1, <1>2, <1>4, <1>6

\* A map with a bucket replaced.
EntriesBut(m, b) == {e \in Entries(m) : Hash(e.word) % Capacity # b}
LEMMA BucketReplaced ==
  ASSUME NEW m, IsMap(m), NEW b \in Buckets, NEW new \in Seq(MapRow), IsBucket(b, new)
  PROVE  /\ IsMap([m EXCEPT ![b] = new])
         /\ Entries([m EXCEPT ![b] = new]) = Range(new) \cup EntriesBut(m, b)
  <1> DEFINE r == [m EXCEPT ![b] = new]
  <1>1. m \in [Buckets -> Seq(MapRow)]
    BY DEF IsMap
  <1>2. r \in [Buckets -> Seq(MapRow)] /\ r[b] = new /\ \A c \in Buckets : c # b => r[c] = m[c]
    BY <1>1
  <1> HIDE DEF r
  <1>3. IsMap(r)
    BY <1>2 DEF IsMap
  <1>4. \A e : e \in Entries(r) <=> \E c \in Buckets : \E k \in 1 .. Len(r[c]) : e = r[c][k]
    BY <1>3, EntryAt
  <1>5. \A e : e \in Range(new) <=> \E k \in 1 .. Len(new) : e = new[k]
    BY DEF Range
  <1>6. ASSUME NEW e \in Entries(r)
        PROVE  e \in Range(new) \/ e \in EntriesBut(m, b)
    <2>1. PICK c, k : c \in Buckets /\ k \in 1 .. Len(r[c]) /\ e = r[c][k]
      BY <1>4
    <2>2. CASE c = b
      BY <1>2, <1>5, <2>1, <2>2
    <2>3. CASE c # b
      <3>1. r[c] = m[c]
        BY <1>2, <2>1, <2>3
      <3>2. Hash(e.word) % Capacity = c /\ e \in Entries(m)
        BY <2>1, <3>1, EntryAt
      <3>3. QED
        BY <2>3, <3>2 DEF EntriesBut
    <2>4. QED
      BY <2>2, <2>3
  <1>7. ASSUME NEW e \in Range(new)
        PROVE  e \in Entries(r)
    BY <1>2, <1>4, <1>5
  <1>8. ASSUME NEW e \in EntriesBut(m, b)
        PROVE  e \in Entries(r)
    <2>1. e \in Entries(m) /\ Hash(e.word) % Capacity # b
      BY DEF EntriesBut
    <2>2. PICK c, k : c \in Buckets /\ k \in 1 .. Len(m[c]) /\ e = m[c][k]
      <3>1. \E c \in Buckets : \E k \in 1 .. Len(m[c]) : e = m[c][k]
        BY <2>1, EntryAt
      <3>2. QED
        BY Zenon, <3>1
    <2>3. c # b
      BY <2>1, <2>2, EntryAt
    <2>4. r[c] = m[c]
      BY <1>2, <2>2, <2>3
    <2>5. QED
      BY <1>4, <2>2, <2>4
  <1>9. Entries(r) = Range(new) \cup EntriesBut(m, b)
    BY <1>6, <1>7, <1>8
  <1>10. QED
    BY <1>3, <1>9 DEF r

\* Adder puts a new word with 1.
LEMMA AddNew ==
  ASSUME HashIsNat, NEW m, IsMap(m), NEW word \in WordType, word \notin Words(Entries(m))
  PROVE  /\ IsMap(Add(m, word))
         /\ Entries(Add(m, word)) = Entries(m) \cup {[word |-> word, count |-> 1]}
  <1> DEFINE b == Hash(word) % Capacity
             entry == [word |-> word, count |-> 1]
             new == Append(m[b], entry)
  <1>1. b \in Buckets
    BY BucketOf
  <1>2. entry \in MapRow /\ entry.word = word
    BY DEF MapRow, WordType
  <1>3. \A k \in DOMAIN m[b] : m[b][k].word # word
    <2> SUFFICES ASSUME NEW k \in DOMAIN m[b], m[b][k].word = word PROVE FALSE
      OBVIOUS
    <2>1. m[b][k] \in Entries(m)
      BY <1>1, EntryAt
    <2>2. QED
      BY <2>1 DEF Words
  <1>4. Add(m, word) = [m EXCEPT ![b] = new]
    <2>1. {k \in DOMAIN m[b] : m[b][k].word = word} = {}
      BY <1>3
    <2>2. QED
      BY <2>1 DEF Add
  <1>5. m[b] \in Seq(MapRow) /\ Len(m[b]) \in Nat /\ DOMAIN m[b] = 1 .. Len(m[b])
    BY <1>1, EntryAt
  <1>6. Hash(word) % Capacity = b
    OBVIOUS
  <1> HIDE DEF b, entry
  <1>7. /\ new \in Seq(MapRow) /\ Len(new) = Len(m[b]) + 1 /\ new[Len(m[b]) + 1] = entry
        /\ \A k \in 1 .. Len(m[b]) : new[k] = m[b][k]
    BY <1>2, <1>5
  <1> HIDE DEF new
  <1>8. \A k \in 1 .. Len(new) : k \in 1 .. Len(m[b]) \/ k = Len(m[b]) + 1
    BY <1>5, <1>7
  <1>9. \A k \in 1 .. Len(new) : Hash(new[k].word) % Capacity = b
    <2>1. \A k \in 1 .. Len(m[b]) : Hash(m[b][k].word) % Capacity = b
      BY <1>1, EntryAt
    <2>2. QED
      BY <1>2, <1>6, <1>7, <1>8, <2>1
  <1>10. \A k, l \in 1 .. Len(new) : new[k].word = new[l].word => k = l
    <2>1. \A k, l \in 1 .. Len(m[b]) : m[b][k].word = m[b][l].word => k = l
      BY <1>1, <1>5 DEF IsMap, IsBucket, Differ
    <2>2. QED
      BY <1>2, <1>3, <1>5, <1>7, <1>8, <2>1
  <1>11. /\ IsMap(Add(m, word))
         /\ \A e : e \in Entries(Add(m, word)) <=>
              \/ \E k \in 1 .. Len(new) : e = new[k]
              \/ e \in Entries(m) /\ Hash(e.word) % Capacity # b
    <2>1. IsBucket(b, new)
      BY <1>7, <1>9, <1>10 DEF IsBucket, Differ
    <2>2. /\ IsMap([m EXCEPT ![b] = new])
          /\ Entries([m EXCEPT ![b] = new]) = Range(new) \cup EntriesBut(m, b)
      BY <1>1, <1>7, <2>1, BucketReplaced
    <2>3. IsMap(Add(m, word)) /\ Entries(Add(m, word)) = Range(new) \cup EntriesBut(m, b)
      BY <1>4, <2>2
    <2>4. \A e : e \in Range(new) <=> \E k \in 1 .. Len(new) : e = new[k]
      BY <1>7 DEF Range
    <2>5. QED
      BY <2>3, <2>4 DEF EntriesBut
  <1>12. ASSUME NEW e
         PROVE  e \in Entries(Add(m, word)) <=> e \in Entries(m) \cup {entry}
    <2>1. ASSUME e \in Entries(Add(m, word)) PROVE e \in Entries(m) \cup {entry}
      <3>1. CASE e \in Entries(m)
        BY <3>1
      <3>2. ASSUME NEW k \in 1 .. Len(new), e = new[k]
            PROVE  e \in Entries(m) \cup {entry}
        <4>1. CASE k \in 1 .. Len(m[b])
          <5>1. e = m[b][k]
            BY <1>7, <3>2, <4>1
          <5>2. QED
            BY <1>1, <4>1, <5>1, EntryAt
        <4>2. CASE k = Len(m[b]) + 1
          BY <1>7, <3>2, <4>2
        <4>3. QED
          BY <1>8, <4>1, <4>2
      <3>3. QED
        BY <1>11, <2>1, <3>1, <3>2
    <2>2. entry \in Entries(Add(m, word))
      BY <1>5, <1>7, <1>11
    <2>3. ASSUME e \in Entries(m) PROVE e \in Entries(Add(m, word))
      <3>1. CASE Hash(e.word) % Capacity # b
        BY <1>11, <2>3, <3>1
      <3>2. CASE Hash(e.word) % Capacity = b
        <4>1. PICK c, k : c \in Buckets /\ k \in 1 .. Len(m[c]) /\ e = m[c][k]
          BY <2>3, EntryAt
        <4>2. c = b
          BY <3>2, <4>1, EntryAt
        <4>3. k \in 1 .. Len(new) /\ e = new[k]
          BY <1>5, <1>7, <4>1, <4>2
        <4>4. QED
          BY <1>11, <4>3
      <3>3. QED
        BY <3>1, <3>2
    <2>4. QED
      BY <2>1, <2>2, <2>3
  <1>13. QED
    BY <1>11, <1>12 DEF entry

\* Adder adds one to the count of a word that the map has.
LEMMA AddAgain ==
  ASSUME HashIsNat, NEW m, IsMap(m), NEW old \in Entries(m)
  PROVE  /\ IsMap(Add(m, old.word))
         /\ Entries(Add(m, old.word)) =
              (Entries(m) \ {old}) \cup {[word |-> old.word, count |-> old.count + 1]}
  <1> DEFINE word == old.word
             entry == [word |-> word, count |-> old.count + 1]
  <1>1. PICK b, place : b \in Buckets /\ place \in 1 .. Len(m[b]) /\ old = m[b][place]
    BY EntryAt
  <1>2. b = Hash(word) % Capacity /\ old \in MapRow
    BY <1>1, EntryAt
  <1>3. entry \in MapRow /\ entry.word = word
    BY <1>2 DEF MapRow
  <1>4. m[b] \in Seq(MapRow) /\ Len(m[b]) \in Nat /\ DOMAIN m[b] = 1 .. Len(m[b])
    BY <1>1, EntryAt
  <1>5. \A k, l \in 1 .. Len(m[b]) : m[b][k].word = m[b][l].word => k = l
    BY <1>1, <1>4 DEF IsMap, IsBucket, Differ
  <1>6. {k \in DOMAIN m[b] : m[b][k].word = word} = {place}
    BY <1>1, <1>4, <1>5
  <1> DEFINE new == [k \in 1 .. Len(m[b]) |-> IF k = place THEN entry ELSE m[b][k]]
  <1>7. Add(m, word) = [m EXCEPT ![b] = new]
    <2>1. /\ {k \in DOMAIN m[b] : m[b][k].word = word} # {}
          /\ \A k \in 1 .. Len(m[b]) : k \in {place} => m[b][k].count = old.count
      BY <1>1, <1>6
    <2>2. Add(m, word) =
            [m EXCEPT ![b] = [k \in DOMAIN m[b] |->
               IF k \in {place} THEN [word |-> word, count |-> m[b][k].count + 1] ELSE m[b][k]]]
      BY <1>2, <1>6, <2>1 DEF Add
    <2>3. [k \in DOMAIN m[b] |->
             IF k \in {place} THEN [word |-> word, count |-> m[b][k].count + 1] ELSE m[b][k]] = new
      BY <1>4, <2>1
    <2>4. QED
      BY <2>2, <2>3
  <1> HIDE DEF entry, word
  <1>8. /\ new \in Seq(MapRow) /\ Len(new) = Len(m[b]) /\ new[place] = entry
        /\ \A k \in 1 .. Len(m[b]) : k # place => new[k] = m[b][k]
    <2>1. \A k \in 1 .. Len(m[b]) : m[b][k] \in MapRow
      BY <1>1, EntryAt
    <2>2. new \in [1 .. Len(m[b]) -> MapRow]
      BY <1>3, <2>1
    <2>3. QED
      BY <1>1, <1>4, <2>2
  <1> HIDE DEF new
  <1>9. \A k \in 1 .. Len(m[b]) : new[k].word = m[b][k].word
    BY <1>1, <1>3, <1>8 DEF word
  <1>10. \A k \in 1 .. Len(new) : Hash(new[k].word) % Capacity = b
    BY <1>1, <1>8, <1>9, EntryAt
  <1>11. \A k, l \in 1 .. Len(new) : new[k].word = new[l].word => k = l
    BY <1>5, <1>8, <1>9
  <1>12. /\ IsMap(Add(m, word))
         /\ \A e : e \in Entries(Add(m, word)) <=>
              \/ \E k \in 1 .. Len(new) : e = new[k]
              \/ e \in Entries(m) /\ Hash(e.word) % Capacity # b
    <2>1. IsBucket(b, new)
      BY <1>8, <1>10, <1>11 DEF IsBucket, Differ
    <2>2. /\ IsMap([m EXCEPT ![b] = new])
          /\ Entries([m EXCEPT ![b] = new]) = Range(new) \cup EntriesBut(m, b)
      BY <1>1, <1>8, <2>1, BucketReplaced
    <2>3. IsMap(Add(m, word)) /\ Entries(Add(m, word)) = Range(new) \cup EntriesBut(m, b)
      BY <1>7, <2>2
    <2>4. \A e : e \in Range(new) <=> \E k \in 1 .. Len(new) : e = new[k]
      BY <1>8 DEF Range
    <2>5. QED
      BY <2>3, <2>4 DEF EntriesBut
  <1>13. ASSUME NEW e
         PROVE  e \in Entries(Add(m, word)) <=> e \in (Entries(m) \ {old}) \cup {entry}
    <2>1. ASSUME NEW k \in 1 .. Len(new), e = new[k]
          PROVE  e \in (Entries(m) \ {old}) \cup {entry}
      <3>1. CASE k = place
        BY <1>8, <2>1, <3>1
      <3>2. CASE k # place
        <4>1. e = m[b][k] /\ k \in 1 .. Len(m[b])
          BY <1>8, <2>1, <3>2
        <4>2. e \in Entries(m)
          BY <1>1, <4>1, EntryAt
        <4>3. e # old
          BY <1>1, <1>5, <3>2, <4>1
        <4>4. QED
          BY <4>2, <4>3
      <3>3. QED
        BY <3>1, <3>2
    <2>2. ASSUME e \in Entries(m), Hash(e.word) % Capacity # b
          PROVE  e \in Entries(m) \ {old}
      BY <1>2, <2>2 DEF word
    <2>3. ASSUME e \in Entries(m), e # old
          PROVE  e \in Entries(Add(m, word))
      <3>1. CASE Hash(e.word) % Capacity # b
        BY <1>12, <2>3, <3>1
      <3>2. CASE Hash(e.word) % Capacity = b
        <4>1. PICK c, k : c \in Buckets /\ k \in 1 .. Len(m[c]) /\ e = m[c][k]
          BY <2>3, EntryAt
        <4>2. c = b
          BY <3>2, <4>1, EntryAt
        <4>3. k # place
          BY <1>1, <2>3, <4>1, <4>2
        <4>4. k \in 1 .. Len(new) /\ e = new[k]
          BY <1>8, <4>1, <4>2, <4>3
        <4>5. QED
          BY <1>12, <4>4
      <3>3. QED
        BY <3>1, <3>2
    <2>4. entry \in Entries(Add(m, word))
      BY <1>1, <1>8, <1>12
    <2>5. QED
      BY <1>12, <2>1, <2>2, <2>3, <2>4
  <1>14. QED
    BY <1>12, <1>13 DEF entry, word

\* The words of the map after Adder.
LEMMA AddWords ==
  ASSUME HashIsNat, NEW m, IsMap(m), NEW word \in WordType
  PROVE  /\ IsMap(Add(m, word))
         /\ Words(Entries(Add(m, word))) = Words(Entries(m)) \cup {word}
  <1>1. CASE word \notin Words(Entries(m))
    <2>1. /\ IsMap(Add(m, word))
          /\ Entries(Add(m, word)) = Entries(m) \cup {[word |-> word, count |-> 1]}
      BY <1>1, AddNew
    <2>2. \A v : v \in Words(Entries(Add(m, word))) <=> v \in Words(Entries(m)) \cup {word}
      <3>1. \A e : e \in Entries(Add(m, word)) <=>
              e \in Entries(m) \/ e = [word |-> word, count |-> 1]
        BY <2>1
      <3>2. [word |-> word, count |-> 1].word = word
        OBVIOUS
      <3>3. QED
        BY <3>1, <3>2 DEF Words
    <2>3. QED
      BY <2>1, <2>2
  <1>2. CASE word \in Words(Entries(m))
    <2>1. PICK old \in Entries(m) : old.word = word
      BY <1>2 DEF Words
    <2>2. /\ IsMap(Add(m, word))
          /\ Entries(Add(m, word)) =
               (Entries(m) \ {old}) \cup {[word |-> word, count |-> old.count + 1]}
      BY <2>1, AddAgain
    <2>3. \A v : v \in Words(Entries(Add(m, word))) <=> v \in Words(Entries(m)) \cup {word}
      <3>1. \A e : e \in Entries(Add(m, word)) <=>
              \/ e \in Entries(m) /\ e # old
              \/ e = [word |-> word, count |-> old.count + 1]
        BY <2>1, <2>2
      <3>2. [word |-> word, count |-> old.count + 1].word = word
        OBVIOUS
      <3>3. QED
        BY <2>1, <3>1, <3>2 DEF Words
    <2>4. QED
      BY <2>1, <2>2, <2>3
  <1>3. QED
    BY <1>1, <1>2

\* The first map.
LEMMA EmptyIsMap == IsMap(Empty) /\ Entries(Empty) = {}
  <1>1. Empty \in [Buckets -> Seq(MapRow)] /\ \A b \in Buckets : Empty[b] = <<>>
    BY DEF Empty, Buckets
  <1>2. \A b \in Buckets : DOMAIN Empty[b] = {}
    BY <1>1
  <1>3. IsMap(Empty)
    BY <1>1, <1>2 DEF IsMap, IsBucket, Differ
  <1>4. QED
    BY <1>2, <1>3 DEF Entries, Range

-----------------------------------------------------------------------------
(* The rows of a node *)

\* A node has finitely many rows.
LEMMA OwnFinite ==
  ASSUME NEW n, NEW r \in Nat, NEW T \in SUBSET OwnRows(n, r)
  PROVE  IsFiniteSet(T) /\ Cardinality(T) \in Nat
  <1>1. IsFiniteSet(1 .. r - 1)
    BY FS_Interval
  <1>2. T \in SUBSET (1 .. r - 1)
    BY DEF OwnRows
  <1>3. IsFiniteSet(T)
    BY <1>1, <1>2, FS_Subset
  <1>4. QED
    BY <1>3, FS_CardinalityType

\* What is in Counted.
LEMMA CountedIs ==
  ASSUME NEW ws, NEW n, NEW r
  PROVE  \A e : e \in Counted(ws, n, r) <=>
           \E q \in OwnRows(n, r) :
             e = [word |-> ws[q], count |-> Cardinality(RowsOf(ws, n, r, ws[q]))]
  BY DEF Counted

\* A row of another node.
LEMMA CountOther ==
  ASSUME NEW ws, NEW n, NEW r \in Nat \ {0}, ~IsLocal(n, r)
  PROVE  Counted(ws, n, r + 1) = Counted(ws, n, r)
  <1>1. OwnRows(n, r + 1) = OwnRows(n, r)
    <2>1. \A q : q \in 1 .. (r + 1) - 1 <=> q \in 1 .. r - 1 \/ q = r
      OBVIOUS
    <2>2. QED
      BY <2>1 DEF OwnRows
  <1>2. \A v : RowsOf(ws, n, r + 1, v) = RowsOf(ws, n, r, v)
    BY <1>1 DEF RowsOf
  <1>3. QED
    BY <1>1, <1>2 DEF Counted

\* A row of the node.
LEMMA CountOwn ==
  ASSUME NEW ws, NEW n, NEW r \in Nat \ {0}, IsLocal(n, r)
  PROVE  /\ ws[r] \notin Words(Counted(ws, n, r)) =>
              Counted(ws, n, r + 1) = Counted(ws, n, r) \cup {[word |-> ws[r], count |-> 1]}
         /\ \A old \in Counted(ws, n, r) : old.word = ws[r] =>
              Counted(ws, n, r + 1) =
                (Counted(ws, n, r) \ {old}) \cup {[word |-> ws[r], count |-> old.count + 1]}
  <1> DEFINE w == ws[r]
             A == OwnRows(n, r)
             before(v) == [word |-> v, count |-> Cardinality(RowsOf(ws, n, r, v))]
             after(v)  == [word |-> v, count |-> Cardinality(RowsOf(ws, n, r + 1, v))]
  <1>1. OwnRows(n, r + 1) = A \cup {r} /\ r \notin A
    <2>1. \A q : q \in 1 .. (r + 1) - 1 <=> q \in 1 .. r - 1 \/ q = r
      OBVIOUS
    <2>2. r \notin 1 .. r - 1
      OBVIOUS
    <2>3. QED
      BY <2>1, <2>2 DEF OwnRows
  <1>2. \A v : v # w => after(v) = before(v)
    <2>1. \A v : v # w => RowsOf(ws, n, r + 1, v) = RowsOf(ws, n, r, v)
      BY <1>1 DEF RowsOf
    <2>2. QED
      BY <2>1
  <1>3. Cardinality(RowsOf(ws, n, r + 1, w)) = Cardinality(RowsOf(ws, n, r, w)) + 1
    <2>1. RowsOf(ws, n, r + 1, w) = RowsOf(ws, n, r, w) \cup {r} /\ r \notin RowsOf(ws, n, r, w)
      BY <1>1 DEF RowsOf
    <2>2. IsFiniteSet(RowsOf(ws, n, r, w))
      <3>1. RowsOf(ws, n, r, w) \in SUBSET OwnRows(n, r)
        BY DEF RowsOf
      <3>2. QED
        BY <3>1, OwnFinite
    <2>3. QED
      BY <2>1, <2>2, FS_AddElement
  <1>4. \A e : e \in Counted(ws, n, r) <=> \E q \in A : e = before(ws[q])
    BY CountedIs
  <1>5. \A e : e \in Counted(ws, n, r + 1) <=> e = after(w) \/ \E q \in A : e = after(ws[q])
    <2>1. \A e : e \in Counted(ws, n, r + 1) <=> \E q \in OwnRows(n, r + 1) : e = after(ws[q])
      BY CountedIs
    <2> HIDE DEF after
    <2>2. QED
      BY <1>1, <2>1
  <1>6. \A v : before(v).word = v /\ after(v).word = v
    OBVIOUS
  <1>7. after(w) = [word |-> w, count |-> before(w).count + 1]
    BY <1>3
  <1>8. RowsOf(ws, n, r, w) = {} => after(w) = [word |-> w, count |-> 1]
    BY <1>3, FS_EmptySet
  <1>9. (\A q \in A : ws[q] # w) => RowsOf(ws, n, r, w) = {}
    BY DEF RowsOf
  <1> HIDE DEF before, after, A, w
  <1>10. ASSUME w \notin Words(Counted(ws, n, r))
         PROVE  Counted(ws, n, r + 1) = Counted(ws, n, r) \cup {[word |-> w, count |-> 1]}
    <2>1. \A q \in A : ws[q] # w
      <3> SUFFICES ASSUME NEW q \in A, ws[q] = w PROVE FALSE
        OBVIOUS
      <3>1. before(w) \in Counted(ws, n, r)
        BY <1>4
      <3>2. QED
        BY <1>6, <1>10, <3>1 DEF Words
    <2>2. \A q \in A : after(ws[q]) = before(ws[q])
      BY <1>2, <2>1
    <2>3. after(w) = [word |-> w, count |-> 1]
      BY <1>8, <1>9, <2>1
    <2>4. \A e : e \in Counted(ws, n, r + 1) <=> e = after(w) \/ e \in Counted(ws, n, r)
      BY <1>4, <1>5, <2>2
    <2>5. QED
      BY <2>3, <2>4
  <1>11. ASSUME NEW old \in Counted(ws, n, r), old.word = w
         PROVE  Counted(ws, n, r + 1) =
                  (Counted(ws, n, r) \ {old}) \cup {[word |-> w, count |-> old.count + 1]}
    <2>1. old = before(w)
      BY <1>4, <1>6, <1>11
    <2>2. after(w) = [word |-> w, count |-> old.count + 1]
      BY <1>7, <2>1
    <2>3. ASSUME NEW e \in Counted(ws, n, r + 1), e # after(w)
          PROVE  e \in Counted(ws, n, r) /\ e # old
      <3>1. PICK q \in A : e = after(ws[q])
        BY <1>5, <2>3
      <3>2. ws[q] # w
        BY <2>3, <3>1
      <3>3. e = before(ws[q])
        BY <1>2, <3>1, <3>2
      <3>4. QED
        BY <1>4, <1>6, <1>11, <3>2, <3>3
    <2>4. ASSUME NEW e \in Counted(ws, n, r), e # old
          PROVE  e \in Counted(ws, n, r + 1)
      <3>1. PICK q \in A : e = before(ws[q])
        BY <1>4
      <3>2. ws[q] # w
        BY <2>1, <2>4, <3>1
      <3>3. e = after(ws[q])
        BY <1>2, <3>1, <3>2
      <3>4. QED
        BY <1>5, <3>3
    <2>5. after(w) \in Counted(ws, n, r + 1)
      BY <1>5
    <2>6. QED
      BY <2>2, <2>3, <2>4, <2>5
  <1>12. QED
    BY <1>10, <1>11 DEF w

\* The words that were counted.
LEMMA CountedWords ==
  ASSUME NEW ws \in Seq(WordType), NEW n, NEW r \in Nat, r <= Len(ws) + 1
  PROVE  Words(Counted(ws, n, r)) \subseteq Range(ws)
  <1>1. \A q \in OwnRows(n, r) : q \in DOMAIN ws
    BY DEF OwnRows
  <1>2. QED
    BY <1>1 DEF Words, Counted, Range

\* Node n counts a row.
LEMMA RowCounted ==
  ASSUME HashIsNat, NEW ws \in Seq(WordType), NEW n, NEW r \in 1 .. Len(ws),
         NEW m, IsMap(m), Entries(m) = Counted(ws, n, r)
  PROVE  LET new == IF IsLocal(n, r) THEN Add(m, ws[r]) ELSE m
         IN  IsMap(new) /\ Entries(new) = Counted(ws, n, r + 1)
  <1>1. r \in Nat \ {0} /\ ws[r] \in WordType
    OBVIOUS
  <1>2. CASE ~IsLocal(n, r)
    BY <1>1, <1>2, CountOther
  <1>3. CASE IsLocal(n, r)
    <2>1. CASE ws[r] \notin Words(Entries(m))
      <3>1. /\ IsMap(Add(m, ws[r]))
            /\ Entries(Add(m, ws[r])) = Entries(m) \cup {[word |-> ws[r], count |-> 1]}
        BY <1>1, <2>1, AddNew
      <3>2. Counted(ws, n, r + 1) = Counted(ws, n, r) \cup {[word |-> ws[r], count |-> 1]}
        BY <1>1, <1>3, <2>1, CountOwn
      <3>3. QED
        BY <1>3, <3>1, <3>2
    <2>2. CASE ws[r] \in Words(Entries(m))
      <3>1. PICK old \in Entries(m) : old.word = ws[r]
        BY <2>2 DEF Words
      <3>2. /\ IsMap(Add(m, ws[r]))
            /\ Entries(Add(m, ws[r])) =
                 (Entries(m) \ {old}) \cup {[word |-> ws[r], count |-> old.count + 1]}
        BY <3>1, AddAgain
      <3>3. Counted(ws, n, r + 1) =
              (Counted(ws, n, r) \ {old}) \cup {[word |-> ws[r], count |-> old.count + 1]}
        BY <1>1, <1>3, <3>1, CountOwn
      <3>4. QED
        BY <1>3, <3>2, <3>3
    <2>3. QED
      BY <2>1, <2>2
  <1>4. QED
    BY <1>2, <1>3

\* Before the first row there is nothing to count.
LEMMA NothingCounted ==
  ASSUME NEW ws, NEW n
  PROVE  Counted(ws, n, 1) = {}
  <1>1. 1 .. 1 - 1 = {}
    OBVIOUS
  <1>2. QED
    BY <1>1 DEF Counted, OwnRows

-----------------------------------------------------------------------------
(* The size of a map *)

\* Where its entries are.
LEMMA PositionsAre ==
  ASSUME NEW m, IsMap(m)
  PROVE  /\ \A p : p \in Positions(m) <=>
              \E b \in Buckets : \E k \in 1 .. Len(m[b]) : p = <<b, k>>
         /\ {AtPosition(m, p) : p \in Positions(m)} = Entries(m)
  <1>1. DOMAIN m = Buckets /\ \A b \in Buckets : DOMAIN m[b] = 1 .. Len(m[b])
    BY EntryAt DEF IsMap
  <1>2. \A p : p \in Positions(m) <=> \E b \in Buckets : p \in {b} \X (1 .. Len(m[b]))
    BY <1>1 DEF Positions
  <1>3. \A p, b : p \in {b} \X (1 .. Len(m[b])) <=> \E k \in 1 .. Len(m[b]) : p = <<b, k>>
    OBVIOUS
  <1>4. \A p : p \in Positions(m) <=> \E b \in Buckets : \E k \in 1 .. Len(m[b]) : p = <<b, k>>
    BY <1>2, <1>3
  <1>5. \A e : e \in Entries(m) <=> \E b \in Buckets : \E k \in 1 .. Len(m[b]) : e = m[b][k]
    BY EntryAt
  <1>6. \A b, k : AtPosition(m, <<b, k>>) = m[b][k]
    BY DEF AtPosition
  <1>7. ASSUME NEW p \in Positions(m)
        PROVE  AtPosition(m, p) \in Entries(m)
    <2>1. PICK b, k : b \in Buckets /\ k \in 1 .. Len(m[b]) /\ p = <<b, k>>
      BY <1>4
    <2>2. AtPosition(m, p) = m[b][k]
      BY <1>6, <2>1
    <2>3. QED
      BY <1>5, <2>1, <2>2
  <1>8. ASSUME NEW e \in Entries(m)
        PROVE  \E p \in Positions(m) : e = AtPosition(m, p)
    <2>1. PICK b, k : b \in Buckets /\ k \in 1 .. Len(m[b]) /\ e = m[b][k]
      BY <1>5
    <2>2. <<b, k>> \in Positions(m) /\ e = AtPosition(m, <<b, k>>)
      BY <1>4, <1>6, <2>1
    <2>3. QED
      BY <2>2
  <1>9. {AtPosition(m, p) : p \in Positions(m)} = Entries(m)
    BY <1>7, <1>8
  <1>10. QED
    BY <1>4, <1>9

\* No two of its entries have the same word.
LEMMA WordsDiffer ==
  ASSUME NEW m, IsMap(m), NEW p \in Positions(m), NEW q \in Positions(m),
         AtPosition(m, p).word = AtPosition(m, q).word
  PROVE  p = q
  <1>1. PICK b, k : b \in Buckets /\ k \in 1 .. Len(m[b]) /\ p = <<b, k>>
    BY PositionsAre
  <1>2. PICK c, l : c \in Buckets /\ l \in 1 .. Len(m[c]) /\ q = <<c, l>>
    BY PositionsAre
  <1>3. AtPosition(m, p) = m[b][k] /\ AtPosition(m, q) = m[c][l]
    BY <1>1, <1>2 DEF AtPosition
  <1>4. b = c
    <2>1. Hash(m[b][k].word) % Capacity = b /\ Hash(m[c][l].word) % Capacity = c
      BY <1>1, <1>2, EntryAt
    <2>2. QED
      BY <1>3, <2>1
  <1>5. k = l
    <2>1. k \in DOMAIN m[b] /\ l \in DOMAIN m[b]
      BY <1>1, <1>2, <1>4, EntryAt
    <2>2. QED
      BY <1>1, <1>3, <1>4, <2>1 DEF IsMap, IsBucket, Differ
  <1>6. QED
    BY <1>1, <1>2, <1>4, <1>5

\* A sequence has no more elements than places.
LEMMA RangeFinite ==
  ASSUME NEW S, NEW ws \in Seq(S)
  PROVE  /\ IsFiniteSet(Range(ws)) /\ Cardinality(Range(ws)) \in Nat
         /\ Cardinality(Range(ws)) <= Len(ws)
  <1>1. Len(ws) \in Nat /\ DOMAIN ws = 1 .. Len(ws)
    OBVIOUS
  <1>2. ws \in Surjection(1 .. Len(ws), Range(ws))
    BY <1>1 DEF Surjection, Range
  <1>3. IsFiniteSet(1 .. Len(ws)) /\ Cardinality(1 .. Len(ws)) = Len(ws)
    BY <1>1, FS_Interval
  <1>4. IsFiniteSet(Range(ws)) /\ Cardinality(Range(ws)) <= Len(ws)
    BY <1>2, <1>3, FS_Surjection
  <1>5. QED
    BY <1>4, FS_CardinalityType

\* The size of a map of some words is the number of its words.
LEMMA SizeIs ==
  ASSUME NEW m, IsMap(m), NEW ws \in Seq(WordType), Words(Entries(m)) \subseteq Range(ws)
  PROVE  /\ IsFiniteSet(Positions(m)) /\ Size(m) \in Nat /\ Size(m) <= Len(ws)
         /\ Size(m) = Cardinality(Words(Entries(m)))
  <1> DEFINE W == Words(Entries(m))
             g == [p \in Positions(m) |-> AtPosition(m, p).word]
  <1>1. /\ IsFiniteSet(Range(ws)) /\ Cardinality(Range(ws)) \in Nat
        /\ Cardinality(Range(ws)) <= Len(ws)
    BY RangeFinite
  <1>2. IsFiniteSet(W) /\ Cardinality(W) \in Nat /\ Cardinality(W) <= Cardinality(Range(ws))
    BY <1>1, FS_Subset, FS_CardinalityType
  <1>3. \A p \in Positions(m) : AtPosition(m, p).word \in W
    BY PositionsAre DEF Words
  <1>4. \A w \in W : \E p \in Positions(m) : AtPosition(m, p).word = w
    BY PositionsAre DEF Words
  <1> HIDE DEF W
  <1>5. g \in Injection(Positions(m), W)
    <2>1. g \in [Positions(m) -> W]
      BY <1>3
    <2>2. \A p, q \in DOMAIN g : g[p] = g[q] => p = q
      BY WordsDiffer
    <2> HIDE DEF g
    <2>3. QED
      BY <2>1, <2>2 DEF Injection, IsInjective
  <1>6. g \in Surjection(Positions(m), W)
    <2>1. g \in [Positions(m) -> W]
      BY <1>3
    <2>2. \A w \in W : \E p \in Positions(m) : g[p] = w
      BY <1>4
    <2> HIDE DEF g
    <2>3. QED
      BY <2>1, <2>2 DEF Surjection
  <1> HIDE DEF g
  <1>7. IsFiniteSet(Positions(m)) /\ Cardinality(Positions(m)) = Cardinality(W)
    BY <1>2, <1>5, <1>6, FS_Injection
  <1>8. Len(ws) \in Nat
    OBVIOUS
  <1>9. QED
    BY <1>1, <1>2, <1>7, <1>8 DEF Size, W

-----------------------------------------------------------------------------
(* Summer *)

\* What Summer has passed is finite, and all of the map when its number is the size.
LEMMA PassedFinite ==
  ASSUME NEW m, IsFiniteSet(Positions(m)), NEW s
  PROVE  /\ IsFiniteSet(Passed(m, s)) /\ Cardinality(Passed(m, s)) \in Nat
         /\ Cardinality(Passed(m, s)) <= Size(m)
         /\ Cardinality(Passed(m, s)) = Size(m) => Passed(m, s) = Positions(m)
  <1>1. Passed(m, s) \in SUBSET Positions(m)
    BY DEF Passed
  <1>2. QED
    BY <1>1, FS_Subset, FS_CardinalityType DEF Size

\* Summer begins before the first entry.
LEMMA SumStarts ==
  ASSUME NEW m, IsMap(m)
  PROVE  SumInv(m, Start)
  <1>1. Start.i = 0 /\ Start.j = 0 /\ Start.seen = 0 /\ Start.rows = <<>> /\ Start \in SumType
    BY WordCountAssumption DEF Start, SumType
  <1>2. Passed(m, Start) = {}
    <2> SUFFICES ASSUME NEW p \in Passed(m, Start) PROVE FALSE
      OBVIOUS
    <2>1. PICK b, k : b \in Buckets /\ k \in 1 .. Len(m[b]) /\ p = <<b, k>>
      BY PositionsAre DEF Passed
    <2>2. b >= 0 /\ k >= 1 /\ b \in Int /\ k \in Int
      BY <2>1 DEF Buckets
    <2>3. b < 0 \/ (b = 0 /\ k <= 0)
      BY <1>1, <2>1 DEF Passed
    <2>4. QED
      BY <2>2, <2>3
  <1>3. Start.i < Capacity => Start.j <= Len(m[Start.i])
    <2>1. 0 \in Buckets
      BY WordCountAssumption DEF Buckets
    <2>2. Len(m[0]) \in Nat
      BY <2>1, EntryAt
    <2>3. QED
      BY <1>1, <2>2
  <1>4. Range(Start.rows) = {} /\ Differ(Start.rows)
    BY <1>1 DEF Range, Differ
  <1>5. {AtPosition(m, p) : p \in Passed(m, Start)} = {}
    BY <1>2
  <1>6. QED
    BY <1>1, <1>2, <1>3, <1>4, <1>5, FS_EmptySet DEF SumInv

\* Summer at an entry writes its row.
LEMMA SumAtEntry ==
  ASSUME NEW m, IsMap(m), IsFiniteSet(Positions(m)), NEW s, SumInv(m, s), AtEntry(m, s)
  PROVE  SumInv(m, NextEntry(m, [s EXCEPT !.rows = Append(@, m[s.i][s.j + 1])]))
  <1>1. /\ s \in SumType /\ s.i \in 0 .. Capacity /\ s.j \in Nat /\ s.seen \in Nat
        /\ s.rows \in Seq(MapRow) /\ s.i < Capacity /\ s.j < Len(m[s.i])
    BY DEF SumInv, SumType, AtEntry
  <1>2. s.i \in Buckets /\ Capacity \in Nat
    BY <1>1, WordCountAssumption DEF Buckets
  <1> DEFINE e == m[s.i][s.j + 1]
             here == <<s.i, s.j + 1>>
             written == [s EXCEPT !.rows = Append(@, e)]
             new == [s EXCEPT !.rows = Append(@, e), !.j = @ + 1, !.seen = @ + 1]
  <1>3. Len(m[s.i]) \in Nat /\ s.j + 1 \in 1 .. Len(m[s.i])
    BY <1>1, <1>2, EntryAt
  <1>4. e \in MapRow /\ here \in Positions(m) /\ AtPosition(m, here) = e
    BY <1>2, <1>3, EntryAt, PositionsAre DEF AtPosition
  <1>5. NextEntry(m, written) = new
    <2>1. written.i = s.i /\ written.j = s.j /\ written.seen = s.seen
      BY <1>1 DEF SumType
    <2>2. written.i # Capacity /\ AtEntry(m, written)
      BY <1>1, <1>2, <2>1 DEF AtEntry
    <2>3. NextEntry(m, written) = [written EXCEPT !.j = @ + 1, !.seen = @ + 1]
      BY <2>2 DEF NextEntry
    <2>4. QED
      BY <1>1, <2>3 DEF SumType
  <1>6. new.i = s.i /\ new.j = s.j + 1 /\ new.seen = s.seen + 1 /\ new.rows = Append(s.rows, e)
    BY <1>1 DEF SumType
  <1>7. new \in SumType
    <2>1. Append(s.rows, e) \in Seq(MapRow)
      BY <1>1, <1>4
    <2>2. PICK longer \in Seq(MapRow) : longer = Append(s.rows, e)
      BY <2>1
    <2>3. s.j + 1 \in Nat /\ s.seen + 1 \in Nat
      BY <1>1
    <2>4. [s EXCEPT !.rows = longer] \in SumType
      BY <1>1 DEF SumType
    <2>5. PICK t \in SumType : t = [s EXCEPT !.rows = longer] /\ t.j = s.j /\ t.seen = s.seen
      BY <1>1, <2>4 DEF SumType
    <2>6. [t EXCEPT !.j = s.j + 1, !.seen = s.seen + 1] \in SumType
      BY <2>3, <2>5 DEF SumType
    <2>7. new = [t EXCEPT !.j = s.j + 1, !.seen = s.seen + 1]
      BY <2>2, <2>5
    <2>8. QED
      BY <2>6, <2>7
  <1> HIDE DEF e, new, written
  <1>8. Passed(m, new) = Passed(m, s) \cup {here} /\ here \notin Passed(m, s)
    <2>1. here \notin Passed(m, s)
      BY <1>1 DEF Passed
    <2>2. ASSUME NEW p \in Positions(m)
          PROVE  p \in Passed(m, new) <=> p \in Passed(m, s) \/ p = here
      <3>1. PICK b, k : b \in Buckets /\ k \in 1 .. Len(m[b]) /\ p = <<b, k>>
        BY PositionsAre
      <3>2. b \in Int /\ k \in Int
        BY <3>1 DEF Buckets
      <3>3. (b < s.i \/ (b = s.i /\ k <= s.j + 1)) <=>
              (b < s.i \/ (b = s.i /\ k <= s.j)) \/ (b = s.i /\ k = s.j + 1)
        BY <1>1, <3>2
      <3>4. p \in Passed(m, new) <=> b < s.i \/ (b = s.i /\ k <= s.j + 1)
        BY <1>6, <3>1 DEF Passed
      <3>5. p \in Passed(m, s) <=> b < s.i \/ (b = s.i /\ k <= s.j)
        BY <3>1 DEF Passed
      <3>6. p = here <=> b = s.i /\ k = s.j + 1
        BY <3>1
      <3>7. QED
        BY <3>3, <3>4, <3>5, <3>6
    <2>3. Passed(m, new) \subseteq Positions(m) /\ Passed(m, s) \subseteq Positions(m)
      BY DEF Passed
    <2>4. QED
      BY <1>4, <2>1, <2>2, <2>3
  <1> HIDE DEF here
  <1>9. new.seen = Cardinality(Passed(m, new))
    <2>1. IsFiniteSet(Passed(m, s))
      BY PassedFinite
    <2>2. Cardinality(Passed(m, s) \cup {here}) = Cardinality(Passed(m, s)) + 1
      BY <1>8, <2>1, FS_AddElement
    <2>3. QED
      BY <1>6, <1>8, <2>2 DEF SumInv
  <1>10. /\ Len(s.rows) \in Nat /\ DOMAIN s.rows = 1 .. Len(s.rows)
         /\ DOMAIN new.rows = 1 .. Len(s.rows) + 1
         /\ new.rows[Len(s.rows) + 1] = e /\ \A k \in 1 .. Len(s.rows) : new.rows[k] = s.rows[k]
    BY <1>1, <1>4, <1>6
  <1>11. \A k \in DOMAIN new.rows : k \in 1 .. Len(s.rows) \/ k = Len(s.rows) + 1
    BY <1>10
  <1>12. Range(new.rows) = Range(s.rows) \cup {e}
    <2>1. \A k \in 1 .. Len(s.rows) : k \in DOMAIN new.rows
      BY <1>10
    <2>2. Len(s.rows) + 1 \in DOMAIN new.rows
      BY <1>10
    <2>3. \A d \in Range(new.rows) : d \in Range(s.rows) \cup {e}
      BY <1>10, <1>11 DEF Range
    <2>4. \A d \in Range(s.rows) : d \in Range(new.rows)
      BY <1>10, <2>1 DEF Range
    <2>5. e \in Range(new.rows)
      BY <1>10, <2>2 DEF Range
    <2>6. QED
      BY <2>3, <2>4, <2>5
  <1>13. Range(new.rows) = {AtPosition(m, p) : p \in Passed(m, new)}
    <2>1. {AtPosition(m, p) : p \in Passed(m, new)}
            = {AtPosition(m, p) : p \in Passed(m, s)} \cup {e}
      BY <1>4, <1>8
    <2>2. QED
      BY <1>12, <2>1 DEF SumInv
  <1>14. \A k \in 1 .. Len(s.rows) : s.rows[k].word # e.word
    <2> SUFFICES ASSUME NEW k \in 1 .. Len(s.rows), s.rows[k].word = e.word
                 PROVE  FALSE
      OBVIOUS
    <2>1. s.rows[k] \in {AtPosition(m, p) : p \in Passed(m, s)}
      BY <1>10 DEF SumInv, Range
    <2>2. PICK p \in Passed(m, s) : s.rows[k] = AtPosition(m, p)
      BY <2>1
    <2>3. p \in Positions(m)
      BY DEF Passed
    <2>4. p = here
      BY <1>4, <2>2, <2>3, WordsDiffer
    <2>5. QED
      BY <1>8, <2>4
  <1>15. Differ(new.rows)
    <2>1. \A k, l \in 1 .. Len(s.rows) : s.rows[k].word = s.rows[l].word => k = l
      BY <1>10 DEF SumInv, Differ
    <2>2. \A k, l \in DOMAIN new.rows : new.rows[k].word = new.rows[l].word => k = l
      BY <1>10, <1>11, <1>14, <2>1
    <2>3. QED
      BY <2>2 DEF Differ
  <1>16. new.i < Capacity => new.j <= Len(m[new.i])
    BY <1>3, <1>6
  <1>17. SumInv(m, new)
    BY <1>7, <1>9, <1>13, <1>15, <1>16 DEF SumInv
  <1>18. QED
    BY <1>5, <1>17 DEF written, e

\* The least of some numbers.
LEMMA MinIs ==
  ASSUME NEW S \in SUBSET Nat, S # {}
  PROVE  Min(S) \in S /\ \A y \in S : Min(S) <= y
  <1>1. \E x \in S : \A y \in S : x <= y
    <2>1. PICK y \in S : TRUE
      OBVIOUS
    <2>2. \A R : IsWellFoundedOn(R, Nat) => \A T \in SUBSET Nat : T # {} =>
            \E x \in T : \A z \in T : ~(<<z, x>> \in R)
      BY WFMin
    <2>3. PICK x \in S : \A z \in S : ~(<<z, x>> \in OpToRel(<, Nat))
      BY <2>2, NatLessThanWellFounded
    <2>4. \A z \in S : ~(z < x)
      BY <2>3 DEF OpToRel
    <2>5. \A z \in S : x <= z
      BY <2>4
    <2>6. QED
      BY <2>5
  <1>2. QED
    BY <1>1 DEF Min

\* Summer between two buckets goes on to an entry, unless it has passed them all.
LEMMA SumNextBucket ==
  ASSUME NEW m, IsMap(m), NEW s, SumInv(m, s), ~AtEntry(m, s), Passed(m, s) # Positions(m)
  PROVE  /\ s.i # Capacity
         /\ SumInv(m, NextBucket(m, s)) /\ AtEntry(m, NextBucket(m, s))
  <1>1. /\ s \in SumType /\ s.i \in 0 .. Capacity /\ s.j \in Nat /\ Capacity \in Nat
        /\ s.i < Capacity => s.j <= Len(m[s.i])
    BY WordCountAssumption DEF SumInv, SumType
  <1>2. PICK q \in Positions(m) : q \notin Passed(m, s)
    BY DEF Passed
  <1>3. PICK c, l : c \in Buckets /\ l \in 1 .. Len(m[c]) /\ q = <<c, l>>
    BY PositionsAre
  <1>4. c \in Int /\ l \in Int /\ ~(c < s.i) /\ ~(c = s.i /\ l <= s.j)
    BY <1>2, <1>3 DEF Passed, Buckets
  <1>5. s.i < Capacity /\ s.i \in Buckets
    BY <1>1, <1>3, <1>4 DEF Buckets
  <1>6. s.j = Len(m[s.i]) /\ Len(m[s.i]) \in Nat
    <2>1. Len(m[s.i]) \in Nat
      BY <1>5, EntryAt
    <2>2. QED
      BY <1>1, <1>5, <2>1 DEF AtEntry
  <1>7. c > s.i
    BY <1>1, <1>3, <1>4, <1>6
  <1> DEFINE after == {b \in DOMAIN m : b > s.i /\ m[b] # <<>>}
             to == Min(after)
             new == [s EXCEPT !.i = to, !.j = 0]
  <1>8. DOMAIN m = Buckets /\ Buckets \subseteq Nat
    BY DEF IsMap, Buckets
  <1>9. c \in after
    <2>1. m[c] # <<>>
      BY <1>3
    <2>2. QED
      BY <1>3, <1>7, <1>8, <2>1
  <1>10. to \in after /\ \A b \in after : to <= b
    <2>1. after \in SUBSET Nat /\ after # {}
      BY <1>8, <1>9
    <2> HIDE DEF after
    <2>2. QED
      BY <2>1, MinIs
  <1>11. NextBucket(m, s) = new
    <2>1. after # {}
      BY <1>9
    <2>2. QED
      BY <2>1 DEF NextBucket
  <1>12. to \in Buckets /\ to > s.i /\ m[to] # <<>> /\ to \in Nat
    BY <1>8, <1>10
  <1>13. \A b \in Buckets : b > s.i /\ b < to => Len(m[b]) = 0
    <2> SUFFICES ASSUME NEW b \in Buckets, b > s.i, b < to
                 PROVE  Len(m[b]) = 0
      OBVIOUS
    <2>1. b \notin after
      <3> HIDE DEF after, to
      <3>1. b \in Nat
        BY <1>8
      <3>2. ~(to <= b)
        BY <1>12, <3>1
      <3>3. QED
        BY <1>10, <3>2
    <2>2. m[b] = <<>>
      BY <1>8, <2>1
    <2>3. QED
      BY <2>2
  <1> HIDE DEF to, after
  <1>14. new.i = to /\ new.j = 0 /\ new.seen = s.seen /\ new.rows = s.rows /\ new \in SumType
    <2>1. to \in 0 .. Capacity
      BY <1>1, <1>12 DEF Buckets
    <2>2. QED
      BY <1>1, <2>1 DEF SumType
  <1> HIDE DEF new
  <1>15. Passed(m, new) = Passed(m, s)
    <2>1. ASSUME NEW p \in Positions(m)
          PROVE  p \in Passed(m, new) <=> p \in Passed(m, s)
      <3>1. PICK b, k : b \in Buckets /\ k \in 1 .. Len(m[b]) /\ p = <<b, k>>
        BY PositionsAre
      <3>2. b \in Nat /\ k \in Nat /\ k >= 1 /\ k <= Len(m[b])
        BY <1>8, <3>1
      <3>3. p \in Passed(m, new) <=> b < to \/ (b = to /\ k <= 0)
        BY <1>14, <3>1 DEF Passed
      <3>4. p \in Passed(m, s) <=> b < s.i \/ (b = s.i /\ k <= s.j)
        BY <3>1 DEF Passed
      <3>5. ~(b > s.i /\ b < to)
        BY <1>13, <3>1, <3>2
      <3>6. b = s.i => k <= s.j
        BY <1>6, <3>2
      <3>7. QED
        BY <1>1, <1>12, <3>2, <3>3, <3>4, <3>5, <3>6
    <2>2. QED
      BY <2>1 DEF Passed
  <1>16. Len(m[to]) \in Nat /\ Len(m[to]) > 0
    <2>1. m[to] \in Seq(MapRow) /\ Len(m[to]) \in Nat
      BY <1>12, EntryAt
    <2>2. QED
      BY <1>12, <2>1, EmptySeq
  <1>17. SumInv(m, new)
    BY <1>14, <1>15, <1>16 DEF SumInv
  <1>18. AtEntry(m, new)
    BY <1>12, <1>14, <1>16, WordCountAssumption DEF AtEntry, Buckets
  <1>19. QED
    BY <1>1, <1>5, <1>11, <1>17, <1>18

\* Summer visits a row.
LEMMA SumVisits ==
  ASSUME NEW m, IsMap(m), IsFiniteSet(Positions(m)), NEW s, SumInv(m, s), s.seen # Size(m)
  PROVE  SumInv(m, VisitEntry(m, s))
  <1>1. Passed(m, s) # Positions(m)
    BY DEF SumInv, Size
  <1>2. CASE AtEntry(m, s)
    <2>1. VisitEntry(m, s) = NextEntry(m, [s EXCEPT !.rows = Append(@, m[s.i][s.j + 1])])
      BY <1>2 DEF VisitEntry
    <2>2. QED
      BY <1>2, <2>1, SumAtEntry
  <1>3. CASE ~AtEntry(m, s)
    <2>1. PICK t : t = NextBucket(m, s)
      OBVIOUS
    <2>2. s.i # Capacity /\ SumInv(m, t) /\ AtEntry(m, t)
      BY <1>1, <1>3, <2>1, SumNextBucket
    <2>3. NextEntry(m, s) = t
      BY <1>3, <2>1, <2>2 DEF NextEntry
    <2>4. VisitEntry(m, s) = NextEntry(m, [t EXCEPT !.rows = Append(@, m[t.i][t.j + 1])])
      BY <1>3, <2>3 DEF VisitEntry
    <2>5. QED
      BY <2>2, <2>4, SumAtEntry
  <1>4. QED
    BY <1>2, <1>3

\* Summer is done: its rows are the entries.
LEMMA SumEnds ==
  ASSUME NEW m, IsMap(m), IsFiniteSet(Positions(m)), NEW s, SumInv(m, s), s.seen = Size(m)
  PROVE  s.rows \in Seq(MapRow) /\ Range(s.rows) = Entries(m) /\ Differ(s.rows)
  <1>1. Passed(m, s) = Positions(m)
    BY PassedFinite DEF SumInv
  <1>2. Range(s.rows) = Entries(m)
    BY <1>1, PositionsAre DEF SumInv
  <1>3. QED
    BY <1>2 DEF SumInv, SumType

-----------------------------------------------------------------------------
(* Every step of the application keeps the inductive invariant *)

\* What is known of the nodes.
LEMMA NodeFacts ==
  ASSUME IndInv
  PROVE  /\ 0 \in Nodes /\ Nodes \subseteq Nat /\ NumNodes \in Nat
         /\ words \in Seq(WordType) /\ Len(words) \in Nat
         /\ pc \in [Nodes -> {"read", "wait", "count", "sum", "reduce", "done"}]
         /\ map \in [Nodes -> [Buckets -> Seq(MapRow)]] /\ row \in [Nodes -> Nat]
         /\ sum \in [Nodes -> SumType] /\ local \in [Nodes -> Seq(MapRow)]
  <1>1. words \in Seq(WordType)
    BY DEF IndInv, ReaderInv, ReaderType, WordType
  <1>2. QED
    BY <1>1, WordCountAssumption DEF IndInv, CountType, Nodes

\* A node for which nothing changes.
LEMMA NodeRests ==
  ASSUME NEW n, CountInv(n), pc'[n] = pc[n], map'[n] = map[n], row'[n] = row[n],
         sum'[n] = sum[n], local'[n] = local[n], words' = words
  PROVE  CountInv(n)'
  BY DEF CountInv

\* The merging, when nothing changes for node 0 once it has begun.
LEMMA MergeRests ==
  ASSUME MergeInv, from' = from, put \subseteq put',
         \/ pc'[0] = pc[0]
         \/ pc[0] \notin {"reduce", "done"} /\ pc'[0] \notin {"reduce", "done"},
         pc[0] \in {"reduce", "done"} => row'[0] = row[0] /\ map'[0] = map[0] /\ local' = local
  PROVE  MergeInv'
  <1>1. CASE pc'[0] = pc[0] /\ pc[0] \in {"reduce", "done"}
    BY <1>1 DEF MergeInv
  <1>2. CASE pc[0] \notin {"reduce", "done"} /\ pc'[0] \notin {"reduce", "done"}
    BY <1>2 DEF MergeInv
  <1>3. QED
    BY <1>1, <1>2

\* A step in which one node counts or sums.
NodeSteps(n, label, m, r, s) ==
  /\ UNCHANGED readerVars
  /\ from' = from /\ ready' = ready /\ put' = put /\ local' = local
  /\ ready /\ pc[n] \in {"wait", "count", "sum"}
  /\ pc' = [pc EXCEPT ![n] = label] /\ map' = [map EXCEPT ![n] = m]
  /\ row' = [row EXCEPT ![n] = r] /\ sum' = [sum EXCEPT ![n] = s]
  /\ NodeInv(words, n, label, m, r, s, local[n])
LEMMA OneNode ==
  ASSUME IndInv, NEW n \in Nodes, NEW label \in {"count", "sum"},
         NEW m \in [Buckets -> Seq(MapRow)], NEW r \in Nat,
         NEW s \in SumType, s.seen <= Len(words), NodeSteps(n, label, m, r, s)
  PROVE  IndInv'
  <1>1. /\ ReaderInv /\ CountType /\ SeenInv /\ Phases /\ MergeInv
        /\ \A k \in Nodes : CountInv(k)
    BY DEF IndInv
  <1>2. /\ 0 \in Nodes
        /\ pc \in [Nodes -> {"read", "wait", "count", "sum", "reduce", "done"}]
        /\ map \in [Nodes -> [Buckets -> Seq(MapRow)]] /\ row \in [Nodes -> Nat]
        /\ sum \in [Nodes -> SumType] /\ words' = words
    BY NodeFacts DEF readerVars, NodeSteps
  <1>11. /\ UNCHANGED readerVars
         /\ from' = from /\ ready' = ready /\ put' = put /\ local' = local
         /\ ready /\ pc[n] \in {"wait", "count", "sum"}
         /\ pc' = [pc EXCEPT ![n] = label] /\ map' = [map EXCEPT ![n] = m]
         /\ row' = [row EXCEPT ![n] = r] /\ sum' = [sum EXCEPT ![n] = s]
         /\ NodeInv(words, n, label, m, r, s, local[n])
    BY DEF NodeSteps
  <1>3. /\ pc'[n] = label /\ map'[n] = m /\ row'[n] = r /\ sum'[n] = s
        /\ \A k \in Nodes : k # n => /\ pc'[k] = pc[k] /\ map'[k] = map[k]
                                     /\ row'[k] = row[k] /\ sum'[k] = sum[k]
    BY <1>2, <1>11
  <1>4. ReaderInv'
    BY <1>1, <1>11, ReaderRests
  <1>5. CountType'
    BY <1>1, <1>2, <1>11 DEF CountType
  <1>6. SeenInv'
    BY <1>1, <1>2, <1>3 DEF SeenInv
  <1>7. Phases'
    <2>1. \A k \in Nodes : k # 0 => pc'[k] \notin {"read", "reduce"}
      BY <1>1, <1>3, <1>11 DEF Phases
    <2>2. pc'[0] # "read"
      BY <1>1, <1>2, <1>3, <1>11 DEF Phases
    <2>3. \A k \in Nodes : pc'[k] \in {"reduce", "done"} <=> pc[k] \in {"reduce", "done"}
      BY <1>3, <1>11
    <2>4. put' = {k \in Nodes : pc'[k] \in {"reduce", "done"}}
      BY <1>1, <1>11, <2>3 DEF Phases
    <2>5. QED
      BY <1>11, <2>1, <2>2, <2>4 DEF Phases
  <1>8. \A k \in Nodes : CountInv(k)'
    <2> SUFFICES ASSUME NEW k \in Nodes PROVE CountInv(k)'
      OBVIOUS
    <2>1. CASE k = n
      BY <1>2, <1>3, <1>11, <2>1 DEF CountInv
    <2>2. CASE k # n
      BY <1>1, <1>2, <1>3, <1>11, <2>2, NodeRests
    <2>3. QED
      BY <2>1, <2>2
  <1>9. MergeInv'
    <2>1. CASE n = 0
      BY <1>1, <1>3, <1>11, <2>1, MergeRests
    <2>2. CASE n # 0
      <3>1. pc'[0] = pc[0] /\ row'[0] = row[0] /\ map'[0] = map[0]
        BY <1>2, <1>3, <2>2
      <3>2. QED
        BY <1>1, <1>11, <3>1, MergeRests
    <2>3. QED
      BY <2>1, <2>2
  <1>10. QED
    BY <1>4, <1>5, <1>6, <1>7, <1>8, <1>9 DEF IndInv

\* A node that does not change in some function.
LEMMA SameAt ==
  ASSUME NEW S, NEW f \in [Nodes -> S], NEW n \in Nodes
  PROVE  f = [f EXCEPT ![n] = f[n]]
  OBVIOUS

\* The node starts to count.
LEMMA StartCountKeeps ==
  ASSUME IndInv, NEW n \in Nodes, StartCount(n)
  PROVE  IndInv'
  <1>1. /\ words \in Seq(WordType) /\ Len(words) \in Nat
        /\ map \in [Nodes -> [Buckets -> Seq(MapRow)]] /\ row \in [Nodes -> Nat]
        /\ sum \in [Nodes -> SumType]
    BY NodeFacts
  <1>2. /\ pc[n] = "wait" /\ ready /\ pc' = [pc EXCEPT ![n] = "count"]
        /\ UNCHANGED readerVars /\ ready' = ready /\ map' = map /\ row' = row /\ sum' = sum
        /\ local' = local /\ put' = put /\ from' = from
    BY DEF StartCount, Goto
  <1>3. map[n] = Empty /\ row[n] = 1 /\ sum[n] = Start /\ local[n] = <<>>
    BY <1>2 DEF IndInv, CountInv, NodeInv
  <1>4. NodeInv(words, n, "count", Empty, 1, Start, <<>>)
    BY <1>1, EmptyIsMap, NothingCounted DEF NodeInv
  <1>5. /\ map' = [map EXCEPT ![n] = Empty] /\ row' = [row EXCEPT ![n] = 1]
        /\ sum' = [sum EXCEPT ![n] = Start]
    BY <1>1, <1>2, <1>3, SameAt
  <1>6. Start.seen <= Len(words) /\ Empty \in [Buckets -> Seq(MapRow)] /\ Start \in SumType
    BY <1>1, WordCountAssumption DEF Start, SumType, Empty, Buckets
  <1>7. NodeSteps(n, "count", Empty, 1, Start)
    BY <1>2, <1>3, <1>4, <1>5, <1>6 DEF NodeSteps
  <1>8. QED
    BY <1>6, <1>7, OneNode

\* The node counts a row.
LEMMA CountRowKeeps ==
  ASSUME HashIsNat, IndInv, NEW n \in Nodes, CountRow(n)
  PROVE  IndInv'
  <1>1. /\ words \in Seq(WordType) /\ Len(words) \in Nat
        /\ pc \in [Nodes -> {"read", "wait", "count", "sum", "reduce", "done"}]
        /\ map \in [Nodes -> [Buckets -> Seq(MapRow)]] /\ row \in [Nodes -> Nat]
        /\ sum \in [Nodes -> SumType]
    BY NodeFacts
  <1>2. /\ pc[n] = "count" /\ row[n] <= Len(words)
        /\ map' = [map EXCEPT ![n] = IF IsLocal(n, row[n]) THEN Add(map[n], words[row[n]]) ELSE map[n]]
        /\ row' = [row EXCEPT ![n] = row[n] + 1]
        /\ UNCHANGED readerVars /\ pc' = pc /\ ready' = ready /\ sum' = sum
        /\ local' = local /\ put' = put /\ from' = from
    BY DEF CountRow
  <1>3. /\ row[n] \in 1 .. Len(words) + 1 /\ IsMap(map[n])
        /\ Entries(map[n]) = Counted(words, n, row[n]) /\ sum[n] = Start /\ local[n] = <<>>
    BY <1>2 DEF IndInv, CountInv, NodeInv
  <1>4. ready
    BY <1>2 DEF IndInv, Phases
  <1>5. PICK r \in 1 .. Len(words) : r = row[n]
    BY <1>1, <1>2, <1>3
  <1>6. PICK old : old = map[n]
    OBVIOUS
  <1>7. PICK m : m = IF IsLocal(n, r) THEN Add(old, words[r]) ELSE old
    OBVIOUS
  <1>8. IsMap(m) /\ Entries(m) = Counted(words, n, r + 1)
    BY <1>1, <1>3, <1>5, <1>6, <1>7, RowCounted
  <1>9. map' = [map EXCEPT ![n] = m] /\ row' = [row EXCEPT ![n] = r + 1]
    BY <1>2, <1>5, <1>6, <1>7
  <1>10. NodeInv(words, n, "count", m, r + 1, Start, <<>>)
    BY <1>1, <1>5, <1>8 DEF NodeInv
  <1>11. /\ Start.seen <= Len(words) /\ m \in [Buckets -> Seq(MapRow)] /\ Start \in SumType
         /\ r + 1 \in Nat
    BY <1>1, <1>5, <1>8, WordCountAssumption DEF Start, SumType, IsMap
  <1>12. pc' = [pc EXCEPT ![n] = "count"] /\ sum' = [sum EXCEPT ![n] = Start]
    BY <1>1, <1>2, <1>3
  <1>13. NodeSteps(n, "count", m, r + 1, Start)
    BY <1>2, <1>3, <1>4, <1>9, <1>10, <1>11, <1>12 DEF NodeSteps
  <1>14. QED
    BY <1>11, <1>13, OneNode

\* The node has counted its rows.
LEMMA StartSumKeeps ==
  ASSUME IndInv, NEW n \in Nodes, StartSum(n)
  PROVE  IndInv'
  <1>1. /\ words \in Seq(WordType) /\ Len(words) \in Nat
        /\ map \in [Nodes -> [Buckets -> Seq(MapRow)]] /\ row \in [Nodes -> Nat]
        /\ sum \in [Nodes -> SumType]
    BY NodeFacts
  <1>2. /\ pc[n] = "count" /\ row[n] > Len(words) /\ pc' = [pc EXCEPT ![n] = "sum"]
        /\ UNCHANGED readerVars /\ ready' = ready /\ map' = map /\ row' = row /\ sum' = sum
        /\ local' = local /\ put' = put /\ from' = from
    BY DEF StartSum, Goto
  <1>3. /\ row[n] \in 1 .. Len(words) + 1 /\ IsMap(map[n])
        /\ Entries(map[n]) = Counted(words, n, row[n]) /\ sum[n] = Start /\ local[n] = <<>>
    BY <1>2 DEF IndInv, CountInv, NodeInv
  <1>4. ready
    BY <1>2 DEF IndInv, Phases
  <1>5. PICK m : m = map[n]
    OBVIOUS
  <1>6. row[n] = Len(words) + 1
    BY <1>1, <1>2, <1>3
  <1>7. IsMap(m) /\ Entries(m) = Counted(words, n, Len(words) + 1) /\ SumInv(m, Start)
    BY <1>3, <1>5, <1>6, SumStarts
  <1>8. NodeInv(words, n, "sum", m, Len(words) + 1, Start, <<>>)
    BY <1>7 DEF NodeInv
  <1>9. /\ map' = [map EXCEPT ![n] = m] /\ row' = [row EXCEPT ![n] = Len(words) + 1]
        /\ sum' = [sum EXCEPT ![n] = Start]
    BY <1>1, <1>2, <1>3, <1>5, <1>6
  <1>10. /\ Start.seen <= Len(words) /\ m \in [Buckets -> Seq(MapRow)] /\ Start \in SumType
         /\ Len(words) + 1 \in Nat
    BY <1>1, <1>7, WordCountAssumption DEF Start, SumType, IsMap
  <1>11. NodeSteps(n, "sum", m, Len(words) + 1, Start)
    BY <1>2, <1>3, <1>4, <1>8, <1>9, <1>10 DEF NodeSteps
  <1>12. QED
    BY <1>10, <1>11, OneNode

\* The map that is summed has a size.
LEMMA SummedSize ==
  ASSUME NEW ws \in Seq(WordType), NEW n, NEW m, IsMap(m), Entries(m) = Counted(ws, n, Len(ws) + 1)
  PROVE  IsFiniteSet(Positions(m)) /\ Size(m) \in Nat /\ Size(m) <= Len(ws)
  <1>1. Len(ws) + 1 \in Nat /\ Len(ws) + 1 <= Len(ws) + 1
    OBVIOUS
  <1>2. Words(Entries(m)) \subseteq Range(ws)
    BY <1>1, CountedWords
  <1>3. QED
    BY <1>2, SizeIs

\* Summer visits a row.
LEMMA SumEntryKeeps ==
  ASSUME IndInv, NEW n \in Nodes, SumEntry(n)
  PROVE  IndInv'
  <1>1. /\ words \in Seq(WordType) /\ Len(words) \in Nat
        /\ pc \in [Nodes -> {"read", "wait", "count", "sum", "reduce", "done"}]
        /\ map \in [Nodes -> [Buckets -> Seq(MapRow)]] /\ row \in [Nodes -> Nat]
        /\ sum \in [Nodes -> SumType]
    BY NodeFacts
  <1>2. /\ pc[n] = "sum" /\ ~SumDone(n)
        /\ sum' = [sum EXCEPT ![n] = VisitEntry(map[n], sum[n])]
        /\ UNCHANGED readerVars /\ pc' = pc /\ ready' = ready /\ map' = map /\ row' = row
        /\ local' = local /\ put' = put /\ from' = from
    BY DEF SumEntry
  <1>3. /\ IsMap(map[n]) /\ Entries(map[n]) = Counted(words, n, Len(words) + 1)
        /\ SumInv(map[n], sum[n]) /\ local[n] = <<>>
    BY <1>2 DEF IndInv, CountInv, NodeInv
  <1>4. ready
    BY <1>2 DEF IndInv, Phases
  <1>5. PICK m, old : m = map[n] /\ old = sum[n]
    OBVIOUS
  <1>6. PICK s : s = VisitEntry(m, old)
    OBVIOUS
  <1>7. IsFiniteSet(Positions(m)) /\ Size(m) \in Nat /\ Size(m) <= Len(words)
    BY <1>1, <1>3, <1>5, SummedSize
  <1>8. SumInv(m, s)
    <2>1. old.seen # Size(m)
      BY <1>2, <1>5 DEF SumDone
    <2>2. QED
      BY <1>3, <1>5, <1>6, <1>7, <2>1, SumVisits
  <1>9. s \in SumType /\ s.seen <= Len(words)
    <2>1. s.seen = Cardinality(Passed(m, s)) /\ s \in SumType
      BY <1>8 DEF SumInv
    <2>2. Cardinality(Passed(m, s)) \in Nat /\ Cardinality(Passed(m, s)) <= Size(m)
      BY <1>7, PassedFinite
    <2>3. QED
      BY <1>1, <1>7, <2>1, <2>2
  <1>10. PICK r \in Nat : r = row[n]
    BY <1>1
  <1>11. NodeInv(words, n, "sum", m, r, s, <<>>)
    BY <1>3, <1>5, <1>8 DEF NodeInv
  <1>12. /\ map' = [map EXCEPT ![n] = m] /\ row' = [row EXCEPT ![n] = r]
         /\ sum' = [sum EXCEPT ![n] = s] /\ pc' = [pc EXCEPT ![n] = "sum"]
         /\ m \in [Buckets -> Seq(MapRow)]
    BY <1>1, <1>2, <1>5, <1>6, <1>10
  <1>13. NodeSteps(n, "sum", m, r, s)
    BY <1>2, <1>3, <1>4, <1>9, <1>11, <1>12 DEF NodeSteps
  <1>14. QED
    BY <1>9, <1>12, <1>13, OneNode

\* Before the words are read a node waits, whatever they become.
LEMMA NodeWaits ==
  ASSUME NEW ws, NEW n, NEW label \in {"read", "wait"}, NEW m, NEW r, NEW s, NEW rows
  PROVE  NodeInv(ws, n, label, m, r, s, rows) <=> m = Empty /\ r = 1 /\ s = Start /\ rows = <<>>
  BY DEF NodeInv

\* Node 0 reads.
LEMMA ReadWordKeeps ==
  ASSUME FilesFit, IndInv, ReadWord
  PROVE  IndInv'
  <1>1. /\ ReaderInv /\ CountType /\ SeenInv /\ Phases /\ MergeInv
        /\ \A k \in Nodes : CountInv(k)
    BY DEF IndInv
  <1>2. /\ pc[0] = "read" /\ ReaderStep
        /\ pc' = pc /\ ready' = ready /\ map' = map /\ row' = row /\ sum' = sum
        /\ local' = local /\ put' = put /\ from' = from
    BY DEF ReadWord, countVars
  <1>3. ReaderInv'
    BY <1>1, <1>2, ReaderStepKeeps DEF FilesFit, ReaderInv, ReaderType
  <1>4. CountType' /\ Phases' /\ MergeInv'
    <2>1. CountType'
      BY <1>1, <1>2 DEF CountType
    <2>2. Phases'
      BY <1>1, <1>2 DEF Phases
    <2>3. MergeInv'
      BY <1>1, <1>2, MergeRests
    <2>4. QED
      BY <2>1, <2>2, <2>3
  <1>5. \A k \in Nodes : pc[k] \in {"read", "wait"}
    BY <1>1, <1>2 DEF Phases
  <1>6. \A k \in Nodes : CountInv(k)' /\ sum[k] = Start
    <2> SUFFICES ASSUME NEW k \in Nodes PROVE CountInv(k)' /\ sum[k] = Start
      OBVIOUS
    <2>1. NodeInv(words, k, pc[k], map[k], row[k], sum[k], local[k])
      BY <1>1 DEF CountInv
    <2>2. sum[k] = Start /\ map[k] = Empty /\ row[k] = 1 /\ local[k] = <<>>
      BY <1>5, <2>1, NodeWaits
    <2>3. NodeInv(words', k, pc'[k], map'[k], row'[k], sum'[k], local'[k])
      BY <1>2, <1>5, <2>2, NodeWaits
    <2>4. QED
      BY <2>2, <2>3 DEF CountInv
  <1>7. SeenInv'
    <2>1. Len(words') \in Nat
      BY <1>3 DEF ReaderInv, ReaderType
    <2>2. Start.seen = 0
      BY DEF Start
    <2>3. QED
      BY <1>2, <1>6, <2>1, <2>2 DEF SeenInv
  <1>8. QED
    BY <1>3, <1>4, <1>6, <1>7 DEF IndInv

\* Node 0 puts the words.
LEMMA PutWordsKeeps ==
  ASSUME IndInv, PutWords
  PROVE  IndInv'
  <1>1. /\ ReaderInv /\ CountType /\ SeenInv /\ Phases /\ MergeInv
        /\ \A k \in Nodes : CountInv(k)
    BY DEF IndInv
  <1>2. /\ pc[0] = "read" /\ pc' = [pc EXCEPT ![0] = "wait"] /\ ready' = TRUE
        /\ UNCHANGED readerVars /\ map' = map /\ row' = row /\ sum' = sum
        /\ local' = local /\ put' = put /\ from' = from
    BY DEF PutWords, Goto
  <1>3. /\ 0 \in Nodes /\ words' = words
        /\ pc \in [Nodes -> {"read", "wait", "count", "sum", "reduce", "done"}]
    BY <1>2, NodeFacts DEF readerVars
  <1>4. pc'[0] = "wait" /\ \A k \in Nodes : k # 0 => pc'[k] = pc[k]
    BY <1>2, <1>3
  <1>5. ReaderInv'
    BY <1>1, <1>2, ReaderRests
  <1>6. CountType'
    BY <1>1, <1>2, <1>3 DEF CountType
  <1>7. Phases'
    <2>1. \A k \in Nodes : pc'[k] \in {"reduce", "done"} <=> pc[k] \in {"reduce", "done"}
      BY <1>2, <1>4
    <2>2. put' = {k \in Nodes : pc'[k] \in {"reduce", "done"}}
      BY <1>1, <1>2, <2>1 DEF Phases
    <2>3. \A k \in Nodes : k # 0 => pc'[k] \notin {"read", "reduce"}
      BY <1>1, <1>4 DEF Phases
    <2>4. QED
      BY <1>2, <1>4, <2>2, <2>3 DEF Phases
  <1>8. \A k \in Nodes : CountInv(k)'
    <2> SUFFICES ASSUME NEW k \in Nodes PROVE CountInv(k)'
      OBVIOUS
    <2>1. CASE k = 0
      BY <1>1, <1>2, <1>3, <1>4, <2>1, NodeWaits DEF CountInv
    <2>2. CASE k # 0
      BY <1>1, <1>2, <1>3, <1>4, <2>2, NodeRests
    <2>3. QED
      BY <2>1, <2>2
  <1>9. MergeInv' /\ SeenInv'
    BY <1>1, <1>2, <1>3, <1>4, MergeRests DEF SeenInv
  <1>10. QED
    BY <1>5, <1>6, <1>7, <1>8, <1>9 DEF IndInv

\* The words in the dataframes do not depend on those of later nodes.
LEMMA BeforeIs ==
  ASSUME NEW rows, NEW f, NEW r
  PROVE  \A v : v \in WordsBefore(rows, f, r) <=>
           \/ \E n \in 0 .. f - 1 : v \in Words(Range(rows[n]))
           \/ f \in Nodes /\ \E k \in 1 .. r - 1 : v = rows[f][k].word
  <1>1. \A v : v \in WordsTo(rows, f) <=> \E n \in 0 .. f - 1 : v \in Words(Range(rows[n]))
    BY DEF WordsTo
  <1>2. \A v : v \in Visited(rows, f, r) <=> \E k \in 1 .. r - 1 : v = rows[f][k].word
    BY DEF Visited
  <1>3. QED
    BY <1>1, <1>2 DEF WordsBefore

LEMMA BeforeSame ==
  ASSUME NEW rows, NEW others, NEW f, NEW r,
         \A n \in 0 .. f - 1 : others[n] = rows[n],
         f \in Nodes => others[f] = rows[f] \/ 1 .. r - 1 = {}
  PROVE  WordsBefore(others, f, r) = WordsBefore(rows, f, r)
  <1>1. \A v : (\E n \in 0 .. f - 1 : v \in Words(Range(others[n])))
                 <=> (\E n \in 0 .. f - 1 : v \in Words(Range(rows[n])))
    OBVIOUS
  <1>2. \A v : (f \in Nodes /\ \E k \in 1 .. r - 1 : v = others[f][k].word)
                 <=> (f \in Nodes /\ \E k \in 1 .. r - 1 : v = rows[f][k].word)
    OBVIOUS
  <1>3. \A v : v \in WordsBefore(others, f, r) <=> v \in WordsBefore(rows, f, r)
    BY <1>1, <1>2, BeforeIs
  <1>4. QED
    BY <1>3

\* Nothing is before the first row of node 0.
LEMMA BeforeNone ==
  ASSUME NEW rows
  PROVE  WordsBefore(rows, 0, 1) = {}
  <1>1. 0 .. 0 - 1 = {} /\ 1 .. 1 - 1 = {}
    OBVIOUS
  <1>2. QED
    BY <1>1, BeforeIs

\* One more row.
LEMMA BeforeRow ==
  ASSUME NEW rows, NEW f \in Nodes, NEW r \in Nat \ {0}
  PROVE  WordsBefore(rows, f, r + 1) = WordsBefore(rows, f, r) \cup {rows[f][r].word}
  <1>1. \A k : k \in 1 .. (r + 1) - 1 <=> k \in 1 .. r - 1 \/ k = r
    OBVIOUS
  <1>2. \A v : v \in WordsBefore(rows, f, r + 1) <=>
          v \in WordsBefore(rows, f, r) \/ v = rows[f][r].word
    BY <1>1, BeforeIs
  <1>3. QED
    BY <1>2

\* One more dataframe.
LEMMA BeforeNode ==
  ASSUME NEW S, NEW rows, NEW f \in Nodes, rows[f] \in Seq(S)
  PROVE  WordsBefore(rows, f + 1, 1) = WordsBefore(rows, f, Len(rows[f]) + 1)
  <1>1. f \in Nat /\ Len(rows[f]) \in Nat /\ DOMAIN rows[f] = 1 .. Len(rows[f])
    BY DEF Nodes
  <1>2. \A n : n \in 0 .. (f + 1) - 1 <=> n \in 0 .. f - 1 \/ n = f
    BY <1>1
  <1>3. 1 .. 1 - 1 = {} /\ (Len(rows[f]) + 1) - 1 = Len(rows[f])
    BY <1>1
  <1>4. \A v : v \in Words(Range(rows[f])) <=> \E k \in 1 .. Len(rows[f]) : v = rows[f][k].word
    BY <1>1 DEF Words, Range
  <1>5. \A v : v \in WordsBefore(rows, f + 1, 1) <=>
          \E n \in 0 .. (f + 1) - 1 : v \in Words(Range(rows[n]))
    BY <1>3, BeforeIs
  <1>6. \A v : v \in WordsBefore(rows, f, Len(rows[f]) + 1) <=>
          \/ \E n \in 0 .. f - 1 : v \in Words(Range(rows[n]))
          \/ \E k \in 1 .. Len(rows[f]) : v = rows[f][k].word
    BY <1>3, BeforeIs
  <1>7. \A v : v \in WordsBefore(rows, f + 1, 1) <=> v \in WordsBefore(rows, f, Len(rows[f]) + 1)
    BY <1>2, <1>4, <1>5, <1>6
  <1>8. QED
    BY <1>7

\* A node puts its counts, and node 0 starts to merge.
LEMMA PutCountsKeeps ==
  ASSUME IndInv, NEW n \in Nodes, PutCounts(n)
  PROVE  IndInv'
  <1>1. /\ ReaderInv /\ CountType /\ SeenInv /\ Phases /\ MergeInv
        /\ \A k \in Nodes : CountInv(k)
    BY DEF IndInv
  <1>2. /\ pc[n] = "sum" /\ SumDone(n)
        /\ local' = [local EXCEPT ![n] = sum[n].rows] /\ put' = put \cup {n}
        /\ map' = [map EXCEPT ![n] = Empty] /\ row' = [row EXCEPT ![n] = 1]
        /\ pc' = [pc EXCEPT ![n] = IF n = 0 THEN "reduce" ELSE "done"]
        /\ UNCHANGED readerVars /\ ready' = ready /\ sum' = sum /\ from' = from
    BY DEF PutCounts, Goto
  <1>3. /\ 0 \in Nodes /\ Nodes \subseteq Nat /\ NumNodes \in Nat
        /\ words \in Seq(WordType) /\ words' = words
        /\ pc \in [Nodes -> {"read", "wait", "count", "sum", "reduce", "done"}]
        /\ map \in [Nodes -> [Buckets -> Seq(MapRow)]] /\ row \in [Nodes -> Nat]
        /\ sum \in [Nodes -> SumType] /\ local \in [Nodes -> Seq(MapRow)]
    BY <1>2, NodeFacts DEF readerVars
  <1>4. /\ IsMap(map[n]) /\ Entries(map[n]) = Counted(words, n, Len(words) + 1)
        /\ SumInv(map[n], sum[n]) /\ local[n] = <<>>
    BY <1>1, <1>2 DEF CountInv, NodeInv
  <1>5. PICK rows : rows = sum[n].rows
    OBVIOUS
  <1>6. rows \in Seq(MapRow) /\ Range(rows) = Counted(words, n, Len(words) + 1) /\ Differ(rows)
    <2>1. PICK m, s : m = map[n] /\ s = sum[n]
      OBVIOUS
    <2>2. IsFiniteSet(Positions(m))
      BY <1>3, <1>4, <2>1, SummedSize
    <2>3. s.seen = Size(m)
      BY <1>2, <2>1 DEF SumDone
    <2>4. s.rows \in Seq(MapRow) /\ Range(s.rows) = Entries(m) /\ Differ(s.rows)
      BY <1>4, <2>1, <2>2, <2>3, SumEnds
    <2>5. QED
      BY <1>4, <1>5, <2>1, <2>4
  <1>7. /\ pc'[n] = (IF n = 0 THEN "reduce" ELSE "done") /\ map'[n] = Empty /\ row'[n] = 1
        /\ local'[n] = rows
        /\ \A k \in Nodes : k # n => /\ pc'[k] = pc[k] /\ map'[k] = map[k]
                                     /\ row'[k] = row[k] /\ local'[k] = local[k]
    BY <1>2, <1>3, <1>5
  <1>8. ReaderInv'
    BY <1>1, <1>2, ReaderRests
  <1>9. CountType'
    <2>1. Empty \in [Buckets -> Seq(MapRow)]
      BY EmptyIsMap DEF IsMap
    <2>2. map' \in [Nodes -> [Buckets -> Seq(MapRow)]]
      BY <1>2, <1>3, <2>1
    <2>3. local' \in [Nodes -> Seq(MapRow)]
      BY <1>2, <1>3, <1>5, <1>6
    <2>4. pc' \in [Nodes -> {"read", "wait", "count", "sum", "reduce", "done"}]
      BY <1>2, <1>3
    <2>5. row' \in [Nodes -> Nat]
      BY <1>2, <1>3
    <2>6. QED
      BY <1>1, <1>2, <2>2, <2>3, <2>4, <2>5 DEF CountType
  <1>10. SeenInv'
    BY <1>1, <1>2, <1>3 DEF SeenInv
  <1>11. Phases'
    <2>1. \A k \in Nodes : k # 0 => pc'[k] \notin {"read", "reduce"}
      BY <1>1, <1>7 DEF Phases
    <2>2. ready' /\ pc'[0] # "read"
      BY <1>1, <1>2, <1>3, <1>7 DEF Phases
    <2>3. \A k \in Nodes : pc'[k] \in {"reduce", "done"} <=> k = n \/ pc[k] \in {"reduce", "done"}
      BY <1>7
    <2>4. put' = {k \in Nodes : pc'[k] \in {"reduce", "done"}}
      BY <1>1, <1>2, <2>3 DEF Phases
    <2>5. QED
      BY <2>1, <2>2, <2>4 DEF Phases
  <1>12. \A k \in Nodes : CountInv(k)'
    <2> SUFFICES ASSUME NEW k \in Nodes PROVE CountInv(k)'
      OBVIOUS
    <2>1. CASE k = n
      BY <1>3, <1>6, <1>7, <2>1 DEF CountInv, NodeInv
    <2>2. CASE k # n
      BY <1>1, <1>2, <1>3, <1>7, <2>2, NodeRests
    <2>3. QED
      BY <2>1, <2>2
  <1>13. MergeInv'
    <2>1. CASE n = 0
      <3>1. from = 0 /\ from' = 0
        BY <1>1, <1>2, <2>1 DEF MergeInv
      <3>2. 0 .. from' - 1 = {}
        BY <3>1
      <3>3. IsMap(map'[0]) /\ Words(Entries(map'[0])) = WordsBefore(local', from', row'[0])
        <4>1. Words({}) = {}
          BY DEF Words
        <4>2. QED
          BY <1>7, <2>1, <3>1, <4>1, EmptyIsMap, BeforeNone
      <3>4. row'[0] >= 1 /\ (from' \in Nodes => row'[0] <= Len(local'[from']) + 1)
        <4>1. Len(rows) \in Nat
          BY <1>6
        <4>2. QED
          BY <1>7, <2>1, <3>1, <4>1
      <3>5. pc'[0] = "reduce"
        BY <1>7, <2>1
      <3>6. QED
        BY <3>2, <3>3, <3>4, <3>5 DEF MergeInv
    <2>2. CASE n # 0 /\ pc[0] \notin {"reduce", "done"}
      BY <1>1, <1>2, <1>3, <1>7, <2>2, MergeRests
    <2>3. CASE n # 0 /\ pc[0] \in {"reduce", "done"}
      <3>1. pc'[0] = pc[0] /\ map'[0] = map[0] /\ row'[0] = row[0]
        BY <1>3, <1>7, <2>3
      <3>2. n \notin put
        BY <1>1, <1>2 DEF Phases
      <3>3. 0 .. from - 1 \subseteq put /\ put \subseteq Nodes
        BY <1>1 DEF MergeInv, CountType
      <3>4. \A k \in 0 .. from - 1 : local'[k] = local[k]
        BY <1>7, <3>2, <3>3
      <3>5. from \in Nodes => \/ local'[from] = local[from]
                              \/ row[0] = 1 /\ from = n
        <4> SUFFICES ASSUME from \in Nodes, from = n PROVE row[0] = 1
          BY <1>7
        <4>1. pc[0] = "reduce"
          BY <1>1, <1>3, <2>3 DEF MergeInv, Nodes
        <4>2. row[0] >= 1 /\ row[0] <= Len(local[n]) + 1 /\ row[0] \in Nat
          BY <1>1, <1>3, <4>1 DEF MergeInv
        <4>3. Len(local[n]) = 0
          BY <1>4
        <4>4. QED
          BY <4>2, <4>3
      <3>6. WordsBefore(local', from, row[0]) = WordsBefore(local, from, row[0])
        <4>1. PICK f, r, old, new : f = from /\ r = row[0] /\ old = local /\ new = local'
          OBVIOUS
        <4>2. \A k \in 0 .. f - 1 : new[k] = old[k]
          BY <3>4, <4>1
        <4>3. f \in Nodes => new[f] = old[f] \/ 1 .. r - 1 = {}
          BY <3>5, <4>1
        <4>4. WordsBefore(new, f, r) = WordsBefore(old, f, r)
          BY <4>2, <4>3, BeforeSame
        <4>5. QED
          BY <4>1, <4>4
      <3>7. pc[0] = "reduce" =>
              row'[0] >= 1 /\ (from' \in Nodes => row'[0] <= Len(local'[from']) + 1)
        <4> SUFFICES ASSUME pc[0] = "reduce"
                     PROVE  row[0] >= 1 /\ (from \in Nodes => row[0] <= Len(local'[from]) + 1)
          BY <1>2, <3>1
        <4>1. row[0] >= 1 /\ (from \in Nodes => row[0] <= Len(local[from]) + 1)
          BY <1>1 DEF MergeInv
        <4>2. Len(rows) \in Nat
          BY <1>6
        <4>3. QED
          BY <1>7, <3>5, <4>1, <4>2
      <3>8. QED
        BY <1>1, <1>2, <2>3, <3>1, <3>6, <3>7 DEF MergeInv
    <2>4. QED
      BY <2>1, <2>2, <2>3
  <1>14. QED
    BY <1>8, <1>9, <1>10, <1>11, <1>12, <1>13 DEF IndInv

\* What is common to the steps of the merging.
LEMMA MergeSteps ==
  ASSUME IndInv, UNCHANGED readerVars, pc[0] = "reduce",
         NEW label \in {"reduce", "done"}, pc' = [pc EXCEPT ![0] = label],
         ready' = ready, put' = put, sum' = sum, local' = local, from' \in 0 .. NumNodes,
         map' \in [Nodes -> [Buckets -> Seq(MapRow)]], row' \in [Nodes -> Nat],
         \A k \in Nodes : k # 0 => map'[k] = map[k] /\ row'[k] = row[k],
         MergeInv'
  PROVE  IndInv'
  <1>1. /\ ReaderInv /\ CountType /\ SeenInv /\ Phases
        /\ \A k \in Nodes : CountInv(k)
    BY DEF IndInv
  <1>2. /\ 0 \in Nodes /\ words' = words
        /\ pc \in [Nodes -> {"read", "wait", "count", "sum", "reduce", "done"}]
    BY NodeFacts DEF readerVars
  <1>3. pc'[0] = label /\ \A k \in Nodes : k # 0 => pc'[k] = pc[k]
    BY <1>2
  <1>4. ReaderInv'
    BY <1>1, ReaderRests
  <1>5. CountType'
    BY <1>1, <1>2 DEF CountType
  <1>6. SeenInv'
    BY <1>1, <1>2 DEF SeenInv
  <1>7. Phases'
    <2>1. \A k \in Nodes : k # 0 => pc'[k] \notin {"read", "reduce"}
      BY <1>1, <1>3 DEF Phases
    <2>2. ready' /\ pc'[0] # "read"
      BY <1>1, <1>3 DEF Phases
    <2>3. \A k \in Nodes : pc'[k] \in {"reduce", "done"} <=> pc[k] \in {"reduce", "done"}
      BY <1>3
    <2>4. put' = {k \in Nodes : pc'[k] \in {"reduce", "done"}}
      BY <1>1, <2>3 DEF Phases
    <2>5. QED
      BY <2>1, <2>2, <2>4 DEF Phases
  <1>8. \A k \in Nodes : CountInv(k)'
    <2> SUFFICES ASSUME NEW k \in Nodes PROVE CountInv(k)'
      OBVIOUS
    <2>1. CASE k = 0
      BY <1>1, <1>2, <1>3, <2>1 DEF CountInv, NodeInv
    <2>2. CASE k # 0
      BY <1>1, <1>2, <1>3, <2>2, NodeRests
    <2>3. QED
      BY <2>1, <2>2
  <1>9. QED
    BY <1>4, <1>5, <1>6, <1>7, <1>8 DEF IndInv

\* Node 0 merges a row.
LEMMA MergeRowKeeps ==
  ASSUME HashIsNat, IndInv, MergeRow
  PROVE  IndInv'
  <1>1. CountType /\ MergeInv
    BY DEF IndInv
  <1>2. /\ pc[0] = "reduce" /\ from \in put /\ row[0] <= Len(local[from])
        /\ map' = [map EXCEPT ![0] = Add(map[0], local[from][row[0]].word)]
        /\ row' = [row EXCEPT ![0] = row[0] + 1]
        /\ UNCHANGED readerVars /\ pc' = pc /\ ready' = ready /\ sum' = sum
        /\ local' = local /\ put' = put /\ from' = from
    BY DEF MergeRow
  <1>3. /\ 0 \in Nodes /\ from \in Nodes /\ from \in 0 .. NumNodes
        /\ pc \in [Nodes -> {"read", "wait", "count", "sum", "reduce", "done"}]
        /\ map \in [Nodes -> [Buckets -> Seq(MapRow)]] /\ row \in [Nodes -> Nat]
        /\ local[from] \in Seq(MapRow)
    BY <1>1, <1>2, NodeFacts DEF CountType
  <1>4. /\ row[0] >= 1 /\ 0 .. from - 1 \subseteq put
        /\ IsMap(map[0]) /\ Words(Entries(map[0])) = WordsBefore(local, from, row[0])
    BY <1>1, <1>2 DEF MergeInv
  <1>5. PICK r \in 1 .. Len(local[from]) : r = row[0]
    BY <1>2, <1>3, <1>4
  <1>6. PICK word, old : word = local[from][r].word /\ old = map[0]
    OBVIOUS
  <1>7. word \in WordType
    <2>1. local[from][r] \in MapRow
      BY <1>3, ElementOfSeq
    <2>2. QED
      BY <1>6, <2>1 DEF MapRow, WordType
  <1>8. PICK m : m = Add(old, word)
    OBVIOUS
  <1>9. IsMap(m) /\ Words(Entries(m)) = Words(Entries(old)) \cup {word}
    BY <1>4, <1>6, <1>7, <1>8, AddWords
  <1>10. map' = [map EXCEPT ![0] = m] /\ row' = [row EXCEPT ![0] = r + 1] /\ r + 1 \in Nat
    BY <1>2, <1>3, <1>5, <1>6, <1>8
  <1>11. /\ map'[0] = m /\ row'[0] = r + 1
         /\ \A k \in Nodes : k # 0 => map'[k] = map[k] /\ row'[k] = row[k]
    BY <1>3, <1>10
  <1>12. WordsBefore(local, from, r + 1) = WordsBefore(local, from, r) \cup {word}
    <2>1. PICK rows, f : rows = local /\ f = from
      OBVIOUS
    <2>2. f \in Nodes /\ r \in Nat \ {0}
      BY <1>3, <2>1
    <2>3. WordsBefore(rows, f, r + 1) = WordsBefore(rows, f, r) \cup {rows[f][r].word}
      BY <2>2, BeforeRow
    <2>4. QED
      BY <1>6, <2>1, <2>3
  <1>13. Words(Entries(m)) = WordsBefore(local, from, r + 1)
    BY <1>4, <1>5, <1>6, <1>9, <1>12
  <1>14. row'[0] >= 1 /\ row'[0] <= Len(local[from]) + 1
    BY <1>3, <1>11
  <1>15. MergeInv'
    BY <1>2, <1>4, <1>9, <1>11, <1>13, <1>14 DEF MergeInv
  <1>16. /\ map' \in [Nodes -> [Buckets -> Seq(MapRow)]] /\ row' \in [Nodes -> Nat]
         /\ pc' = [pc EXCEPT ![0] = "reduce"]
    BY <1>2, <1>3, <1>9, <1>10 DEF IsMap
  <1>17. QED
    BY <1>2, <1>3, <1>11, <1>15, <1>16, MergeSteps

\* Node 0 has merged the dataframe of a node.
LEMMA MergeNextKeeps ==
  ASSUME IndInv, MergeNext
  PROVE  IndInv'
  <1>1. CountType /\ MergeInv
    BY DEF IndInv
  <1>2. /\ pc[0] = "reduce" /\ from \in put /\ row[0] > Len(local[from])
        /\ from' = from + 1 /\ row' = [row EXCEPT ![0] = 1]
        /\ UNCHANGED readerVars /\ pc' = pc /\ ready' = ready /\ sum' = sum /\ map' = map
        /\ local' = local /\ put' = put
    BY DEF MergeNext
  <1>3. /\ 0 \in Nodes /\ from \in Nodes /\ from \in 0 .. NumNodes /\ NumNodes \in Nat
        /\ pc \in [Nodes -> {"read", "wait", "count", "sum", "reduce", "done"}]
        /\ map \in [Nodes -> [Buckets -> Seq(MapRow)]] /\ row \in [Nodes -> Nat]
        /\ local \in [Nodes -> Seq(MapRow)] /\ local[from] \in Seq(MapRow)
    BY <1>1, <1>2, NodeFacts DEF CountType
  <1>4. /\ row[0] <= Len(local[from]) + 1 /\ 0 .. from - 1 \subseteq put
        /\ IsMap(map[0]) /\ Words(Entries(map[0])) = WordsBefore(local, from, row[0])
    BY <1>1, <1>2, <1>3 DEF MergeInv
  <1>5. row[0] = Len(local[from]) + 1
    BY <1>2, <1>3, <1>4
  <1>6. /\ row'[0] = 1 /\ row' \in [Nodes -> Nat]
        /\ \A k \in Nodes : k # 0 => row'[k] = row[k]
    BY <1>2, <1>3
  <1>7. WordsBefore(local, from + 1, 1) = WordsBefore(local, from, Len(local[from]) + 1)
    <2>1. PICK rows, f : rows = local /\ f = from
      OBVIOUS
    <2>2. f \in Nodes /\ rows[f] \in Seq(MapRow)
      BY <1>3, <2>1
    <2>3. WordsBefore(rows, f + 1, 1) = WordsBefore(rows, f, Len(rows[f]) + 1)
      BY <2>2, BeforeNode
    <2>4. QED
      BY <2>1, <2>3
  <1>8. 0 .. from' - 1 \subseteq put' /\ from' \in 0 .. NumNodes
    <2>1. from \in Nat /\ from < NumNodes
      BY <1>3 DEF Nodes
    <2>2. \A k \in 0 .. (from + 1) - 1 : k \in 0 .. from - 1 \/ k = from
      BY <2>1
    <2>3. QED
      BY <1>2, <1>3, <1>4, <2>1, <2>2
  <1>9. from' \in Nodes => row'[0] <= Len(local'[from']) + 1
    <2>1. ASSUME from' \in Nodes PROVE Len(local[from']) \in Nat
      BY <1>3, <2>1
    <2>2. QED
      BY <1>2, <1>6, <2>1
  <1>10. Words(Entries(map'[0])) = WordsBefore(local', from', row'[0])
    BY <1>2, <1>4, <1>5, <1>6, <1>7
  <1>11. MergeInv'
    BY <1>2, <1>4, <1>6, <1>8, <1>9, <1>10 DEF MergeInv
  <1>12. pc' = [pc EXCEPT ![0] = "reduce"] /\ map' \in [Nodes -> [Buckets -> Seq(MapRow)]]
    BY <1>2, <1>3
  <1>13. QED
    BY <1>2, <1>6, <1>8, <1>11, <1>12, MergeSteps

\* Node 0 has merged them all.
LEMMA FinishKeeps ==
  ASSUME IndInv, Finish
  PROVE  IndInv'
  <1>1. CountType /\ MergeInv
    BY DEF IndInv
  <1>2. /\ pc[0] = "reduce" /\ from = NumNodes /\ pc' = [pc EXCEPT ![0] = "done"]
        /\ UNCHANGED readerVars /\ ready' = ready /\ sum' = sum /\ map' = map /\ row' = row
        /\ local' = local /\ put' = put /\ from' = from
    BY DEF Finish, Reduced, Goto
  <1>3. /\ 0 \in Nodes /\ from \in 0 .. NumNodes
        /\ pc \in [Nodes -> {"read", "wait", "count", "sum", "reduce", "done"}]
        /\ map \in [Nodes -> [Buckets -> Seq(MapRow)]] /\ row \in [Nodes -> Nat]
    BY <1>1, NodeFacts DEF CountType
  <1>4. pc'[0] = "done"
    BY <1>2, <1>3
  <1>5. MergeInv'
    BY <1>1, <1>2, <1>4 DEF MergeInv
  <1>6. QED
    BY <1>2, <1>3, <1>5, MergeSteps

\* The first state.
LEMMA InitHolds ==
  ASSUME Init
  PROVE  IndInv
  <1>1. /\ InitReader /\ pc = [n \in Nodes |-> IF n = 0 THEN "read" ELSE "wait"]
        /\ ready = FALSE /\ map = [n \in Nodes |-> Empty] /\ row = [n \in Nodes |-> 1]
        /\ sum = [n \in Nodes |-> Start] /\ local = [n \in Nodes |-> <<>>]
        /\ put = {} /\ from = 0
    BY DEF Init
  <1>2. 0 \in Nodes /\ NumNodes \in Nat /\ Capacity \in Nat
    BY WordCountAssumption DEF Nodes
  <1>3. ReaderInv
    BY <1>1, ReaderStarts
  <1>4. Start \in SumType /\ Start.seen = 0 /\ Empty \in [Buckets -> Seq(MapRow)]
    BY <1>2, EmptyIsMap DEF Start, SumType, IsMap
  <1>5. CountType
    <2>1. pc \in [Nodes -> {"read", "wait", "count", "sum", "reduce", "done"}]
      BY <1>1
    <2>2. map \in [Nodes -> [Buckets -> Seq(MapRow)]] /\ sum \in [Nodes -> SumType]
      BY <1>1, <1>4
    <2>3. row \in [Nodes -> Nat] /\ local \in [Nodes -> Seq(MapRow)]
      BY <1>1
    <2>4. ready \in BOOLEAN /\ put \subseteq Nodes /\ from \in 0 .. NumNodes
      <3>1. ready = FALSE /\ put = {} /\ from = 0
        BY <1>1
      <3>2. 0 \in 0 .. NumNodes
        BY <1>2
      <3>3. QED
        BY <3>1, <3>2
    <2>5. QED
      BY <2>1, <2>2, <2>3, <2>4 DEF CountType
  <1>6. SeenInv
    <2>1. Len(words) \in Nat
      BY <1>3 DEF ReaderInv, ReaderType
    <2>2. QED
      BY <1>1, <1>4, <2>1 DEF SeenInv
  <1>7. Phases
    <2>1. \A n \in Nodes : pc[n] \in {"read", "wait"} /\ (pc[n] = "read" <=> n = 0)
      BY <1>1
    <2>2. QED
      BY <1>1, <1>2, <2>1 DEF Phases
  <1>8. \A n \in Nodes : CountInv(n)
    BY <1>1, NodeWaits DEF CountInv
  <1>9. MergeInv
    <2>1. pc[0] = "read" /\ 0 .. 0 - 1 = {}
      BY <1>1, <1>2
    <2>2. QED
      BY <1>1, <2>1 DEF MergeInv
  <1>10. QED
    BY <1>3, <1>5, <1>6, <1>7, <1>8, <1>9 DEF IndInv

\* Every step.
LEMMA NextKeeps ==
  ASSUME FilesFit, HashIsNat, IndInv, [Next]_vars
  PROVE  IndInv'
  <1>1. CASE Node0
    BY <1>1, ReadWordKeeps, PutWordsKeeps, MergeRowKeeps, MergeNextKeeps, FinishKeeps DEF Node0
  <1>2. ASSUME NEW n \in Nodes, Node(n)
        PROVE  IndInv'
    BY <1>2, StartCountKeeps, CountRowKeeps, StartSumKeeps, SumEntryKeeps, PutCountsKeeps DEF Node
  <1>3. CASE UNCHANGED vars
    <2>1. /\ UNCHANGED readerVars /\ words' = words /\ pc' = pc /\ ready' = ready /\ map' = map
          /\ row' = row /\ sum' = sum /\ local' = local /\ put' = put /\ from' = from
      BY <1>3 DEF vars, readerVars, countVars
    <2>2. ReaderInv'
      BY <2>1, ReaderRests DEF IndInv
    <2>3. CountType' /\ SeenInv' /\ Phases'
      <3>1. CountType' = CountType /\ SeenInv' = SeenInv
        BY <2>1 DEF CountType, SeenInv
      <3>2. Phases' = Phases
        BY <2>1 DEF Phases
      <3>3. QED
        BY <3>1, <3>2 DEF IndInv
    <2>4. \A k \in Nodes : CountInv(k)'
      BY <2>1, NodeRests DEF IndInv
    <2>5. MergeInv'
      BY <2>1, MergeRests DEF IndInv
    <2>6. QED
      BY <2>2, <2>3, <2>4, <2>5 DEF IndInv
  <1>4. QED
    BY <1>1, <1>2, <1>3 DEF Next

\* The inductive invariant always holds.
THEOREM IndInvHolds == FilesFit /\ HashIsNat => (Spec => []IndInv)
  <1> SUFFICES ASSUME FilesFit, HashIsNat
               PROVE  Spec => []IndInv
    OBVIOUS
  <1>1. Init => IndInv
    BY InitHolds
  <1>2. IndInv /\ [Next]_vars => IndInv'
    BY NextKeeps
  <1>3. QED
    BY <1>1, <1>2, PTL DEF Spec

-----------------------------------------------------------------------------
(* The counts add up *)

\* The types.
LEMMA TypesHold ==
  ASSUME IndInv
  PROVE  TypeOK
  <1>1. ReaderType /\ CountType /\ SeenInv
    BY DEF IndInv, ReaderInv
  <1>2. \A n \in Nodes : sum[n].i \in 0 .. Capacity
    BY <1>1 DEF CountType, SumType
  <1>3. QED
    BY <1>1, <1>2 DEF TypeOK, ReaderType, CountType, SeenInv, Buckets

\* Every row is of one node.
LEMMA NodeOfRow ==
  ASSUME NEW r \in Nat \ {0}
  PROVE  \E n \in Nodes : IsLocal(n, r) /\ \A k : IsLocal(k, r) => k = n
  <1> DEFINE b == (r - 1) \div BlockSize
  <1>1. b \in Nat
    BY WordCountAssumption
  <1> HIDE DEF b
  <1>2. b % NumNodes \in 0 .. NumNodes - 1
    BY <1>1, WordCountAssumption
  <1>3. \A n : IsLocal(n, r) <=> b % NumNodes = n
    BY DEF IsLocal, b
  <1>4. QED
    BY <1>2, <1>3 DEF Nodes

\* As many pairs of a part and a number up to its size as there are elements of the parts.
LEMMA PartsAddUp ==
  ASSUME NEW N, NEW R, IsFiniteSet(R), NEW part \in [N -> SUBSET R], NEW c,
         \A n \in N : c[n] = Cardinality(part[n]),
         \A x \in R : \E n \in N : x \in part[n] /\ \A k \in N : x \in part[k] => k = n
  PROVE  Cardinality(UNION {{n} \X (1 .. c[n]) : n \in N}) = Cardinality(R)
  <1> DEFINE D == UNION {{n} \X (1 .. c[n]) : n \in N}
             g == [n \in N |-> CHOOSE h : h \in Bijection(1 .. c[n], part[n])]
             F == [p \in D |-> g[p[1]][p[2]]]
  <1>1. \A n \in N : g[n] \in Bijection(1 .. c[n], part[n])
    <2> SUFFICES ASSUME NEW n \in N PROVE g[n] \in Bijection(1 .. c[n], part[n])
      OBVIOUS
    <2>1. IsFiniteSet(part[n])
      BY FS_Subset
    <2>2. ExistsBijection(1 .. Cardinality(part[n]), part[n])
      BY <2>1, FS_CardinalityType
    <2>3. \E h : h \in Bijection(1 .. c[n], part[n])
      BY <2>2 DEF ExistsBijection
    <2>4. QED
      BY <2>3
  <1>2. \A n \in N : /\ \A x \in 1 .. c[n] : g[n][x] \in part[n]
                     /\ \A x, y \in 1 .. c[n] : g[n][x] = g[n][y] => x = y
                     /\ \A t \in part[n] : \E x \in 1 .. c[n] : g[n][x] = t
    <2> SUFFICES ASSUME NEW n \in N
                 PROVE  /\ \A x \in 1 .. c[n] : g[n][x] \in part[n]
                        /\ \A x, y \in 1 .. c[n] : g[n][x] = g[n][y] => x = y
                        /\ \A t \in part[n] : \E x \in 1 .. c[n] : g[n][x] = t
      OBVIOUS
    <2>1. g[n] \in Bijection(1 .. c[n], part[n])
      BY <1>1
    <2> HIDE DEF g
    <2>2. QED
      BY <2>1 DEF Bijection, Injection, Surjection, IsInjective
  <1> HIDE DEF g
  <1>3. \A p : p \in D <=> \E n \in N : \E x \in 1 .. c[n] : p = <<n, x>>
    <2>1. \A p : p \in D <=> \E n \in N : p \in {n} \X (1 .. c[n])
      OBVIOUS
    <2> HIDE DEF D
    <2>2. \A p, n : p \in {n} \X (1 .. c[n]) <=> \E x \in 1 .. c[n] : p = <<n, x>>
      OBVIOUS
    <2>3. QED
      BY <2>1, <2>2
  <1> HIDE DEF D
  <1>4. \A n \in N : \A x \in 1 .. c[n] : <<n, x>> \in D /\ F[<<n, x>>] = g[n][x]
    BY <1>3
  <1>5. F \in [D -> R]
    <2> SUFFICES ASSUME NEW p \in D PROVE g[p[1]][p[2]] \in R
      OBVIOUS
    <2>1. PICK n, x : n \in N /\ x \in 1 .. c[n] /\ p = <<n, x>>
      BY <1>3
    <2>2. g[n][x] \in part[n]
      BY <1>2, <2>1
    <2>3. QED
      BY <2>1, <2>2
  <1>6. F \in Injection(D, R)
    <2>1. ASSUME NEW p \in D, NEW q \in D, F[p] = F[q]
          PROVE  p = q
      <3>1. PICK n, x : n \in N /\ x \in 1 .. c[n] /\ p = <<n, x>>
        BY <1>3
      <3>2. PICK k, y : k \in N /\ y \in 1 .. c[k] /\ q = <<k, y>>
        BY <1>3
      <3> HIDE DEF F
      <3>3. F[p] = g[n][x] /\ F[q] = g[k][y]
        BY <1>4, <3>1, <3>2
      <3>4. g[n][x] \in part[n] /\ g[k][y] \in part[k] /\ g[n][x] \in R
        BY <1>2, <3>1, <3>2
      <3>5. n = k
        BY <2>1, <3>1, <3>2, <3>3, <3>4
      <3>6. x = y
        BY <1>2, <2>1, <3>1, <3>2, <3>3, <3>5
      <3>7. QED
        BY <3>1, <3>2, <3>5, <3>6
    <2>2. DOMAIN F = D
      OBVIOUS
    <2> HIDE DEF F
    <2>3. QED
      BY <1>5, <2>1, <2>2 DEF Injection, IsInjective
  <1> HIDE DEF F
  <1>7. F \in Surjection(D, R)
    <2>1. ASSUME NEW t \in R
          PROVE  \E p \in D : F[p] = t
      <3>1. PICK n \in N : t \in part[n]
        OBVIOUS
      <3>2. PICK x \in 1 .. c[n] : g[n][x] = t
        BY <1>2, <3>1
      <3>3. <<n, x>> \in D /\ F[<<n, x>>] = t
        BY <1>4, <3>2
      <3>4. QED
        BY <3>3
    <2>2. QED
      BY <1>5, <2>1 DEF Surjection
  <1>8. Cardinality(D) = Cardinality(R)
    BY <1>6, <1>7, FS_Injection
  <1>9. QED
    BY <1>8 DEF D

\* What a node has put, of a word.
LEMMA CountInIs ==
  ASSUME NEW n, NEW ws, NEW r \in Nat, Range(local[n]) = Counted(ws, n, r), NEW word
  PROVE  CountIn(n, word) = Cardinality(RowsOf(ws, n, r, word))
  <1> DEFINE rows == {e \in Range(local[n]) : e.word = word}
             entry == [word |-> word, count |-> Cardinality(RowsOf(ws, n, r, word))]
  <1>1. \A e \in rows : e = entry
    <2> SUFFICES ASSUME NEW e \in rows PROVE e = entry
      OBVIOUS
    <2>1. e \in Counted(ws, n, r) /\ e.word = word
      OBVIOUS
    <2>2. PICK q \in OwnRows(n, r) :
            e = [word |-> ws[q], count |-> Cardinality(RowsOf(ws, n, r, ws[q]))]
      BY <2>1, CountedIs
    <2>3. ws[q] = word
      BY <2>1, <2>2
    <2>4. QED
      BY <2>2, <2>3
  <1>2. CASE rows = {}
    <2>1. RowsOf(ws, n, r, word) = {}
      <3> SUFFICES ASSUME NEW q \in RowsOf(ws, n, r, word) PROVE FALSE
        OBVIOUS
      <3>1. q \in OwnRows(n, r) /\ ws[q] = word
        BY DEF RowsOf
      <3>2. entry \in Counted(ws, n, r)
        BY <3>1, CountedIs
      <3>3. entry \in rows
        BY <3>2
      <3>4. QED
        BY <1>2, <3>3
    <2>2. CountIn(n, word) = 0
      BY <1>2 DEF CountIn
    <2>3. QED
      BY <2>1, <2>2, FS_EmptySet
  <1>3. CASE rows # {}
    <2>1. CountIn(n, word) = (CHOOSE e \in rows : TRUE).count
      BY <1>3 DEF CountIn
    <2>2. (CHOOSE e \in rows : TRUE) \in rows
      BY <1>3
    <2> HIDE DEF rows
    <2>3. (CHOOSE e \in rows : TRUE) = entry
      BY <1>1, <2>2
    <2>4. entry.count = Cardinality(RowsOf(ws, n, r, word))
      OBVIOUS
    <2> HIDE DEF entry
    <2>5. QED
      BY <2>1, <2>3, <2>4
  <1>4. QED
    BY <1>2, <1>3

\* The counts of a word add up.
LEMMA TotalIs ==
  ASSUME words \in Seq(WordType),
         \A n \in Nodes : Range(local[n]) = Counted(words, n, Len(words) + 1), NEW word
  PROVE  Total(word) = Occurrences(word)
  <1>1. Len(words) \in Nat /\ DOMAIN words = 1 .. Len(words)
    OBVIOUS
  <1> DEFINE R == {r \in DOMAIN words : words[r] = word}
             part == [n \in Nodes |-> RowsOf(words, n, Len(words) + 1, word)]
             c == [n \in Nodes |-> CountIn(n, word)]
  <1>2. \A n \in Nodes : \A r : r \in part[n] <=> r \in R /\ IsLocal(n, r)
    <2>1. (Len(words) + 1) - 1 = Len(words)
      BY <1>1
    <2>2. QED
      BY <1>1, <2>1 DEF RowsOf, OwnRows
  <1>3. part \in [Nodes -> SUBSET R]
    <2>1. \A n \in Nodes : part[n] \in SUBSET R
      BY <1>2
    <2>2. part = [n \in Nodes |-> part[n]]
      OBVIOUS
    <2> HIDE DEF part, R
    <2>3. QED
      BY <2>1, <2>2
  <1>4. \A n \in Nodes : c[n] = Cardinality(part[n])
    <2>1. Len(words) + 1 \in Nat
      BY <1>1
    <2>2. QED
      BY <2>1, CountInIs
  <1>5. \A r \in R : \E n \in Nodes : r \in part[n] /\ \A k \in Nodes : r \in part[k] => k = n
    <2> SUFFICES ASSUME NEW r \in R
                 PROVE  \E n \in Nodes : r \in part[n] /\ \A k \in Nodes : r \in part[k] => k = n
      OBVIOUS
    <2>1. r \in Nat \ {0}
      BY <1>1
    <2>2. PICK n \in Nodes : IsLocal(n, r) /\ \A k : IsLocal(k, r) => k = n
      BY <2>1, NodeOfRow
    <2>3. QED
      BY <1>2, <2>2
  <1>6. IsFiniteSet(R)
    <2>1. IsFiniteSet(1 .. Len(words)) /\ R \in SUBSET (1 .. Len(words))
      BY <1>1, FS_Interval
    <2>2. QED
      BY <2>1, FS_Subset
  <1>7. Total(word) = Cardinality(UNION {{n} \X (1 .. c[n]) : n \in Nodes})
    BY DEF Total
  <1>8. Occurrences(word) = Cardinality(R)
    BY DEF Occurrences
  <1> HIDE DEF R, part, c
  <1>9. QED
    BY <1>3, <1>4, <1>5, <1>6, <1>7, <1>8, PartsAddUp

\* The invariant says it.
LEMMA AddUp ==
  ASSUME IndInv
  PROVE  CountsAddUp
  <1>1. TypeOK
    BY TypesHold
  <1> SUFFICES ASSUME \A n \in Nodes : n \in put
               PROVE  /\ \A n \in Nodes : IsInjective([k \in DOMAIN local[n] |-> local[n][k].word])
                      /\ \A word \in Range(words) : Total(word) = Occurrences(word)
    BY <1>1 DEF CountsAddUp
  <1>2. \A n \in Nodes : Range(local[n]) = Counted(words, n, Len(words) + 1) /\ Differ(local[n])
    BY DEF IndInv, Phases, CountInv, NodeInv
  <1>3. \A n \in Nodes : IsInjective([k \in DOMAIN local[n] |-> local[n][k].word])
    BY <1>2 DEF Differ, IsInjective
  <1>4. words \in Seq(WordType)
    BY NodeFacts
  <1>5. \A word : Total(word) = Occurrences(word)
    BY <1>2, <1>4, TotalIs
  <1>6. QED
    BY <1>3, <1>5

\* The counts of the nodes add up (wordcount.h, run_ and local_count): TypeOK holds, and
\* when all nodes have put theirs, no word is twice in a dataframe and the counts of every
\* word are its occurrences.
THEOREM CountsRight == FilesFit /\ HashIsNat => (Spec => []CountsAddUp)
  <1>1. IndInv => CountsAddUp
    BY AddUp
  <1>2. QED
    BY <1>1, IndInvHolds, PTL

-----------------------------------------------------------------------------
(* The merged map *)

\* The words that a node has put are those of its rows.
LEMMA PutWordsAre ==
  ASSUME NEW ws \in Seq(WordType), NEW n
  PROVE  \A v : v \in Words(Counted(ws, n, Len(ws) + 1)) <=>
           \E q \in 1 .. Len(ws) : IsLocal(n, q) /\ v = ws[q]
  <1>1. Len(ws) \in Nat /\ (Len(ws) + 1) - 1 = Len(ws)
    OBVIOUS
  <1>2. \A q : q \in OwnRows(n, Len(ws) + 1) <=> q \in 1 .. Len(ws) /\ IsLocal(n, q)
    BY <1>1 DEF OwnRows
  <1>3. \A v : v \in Words(Counted(ws, n, Len(ws) + 1)) <=>
          \E q \in OwnRows(n, Len(ws) + 1) : v = ws[q]
    <2> DEFINE r == Len(ws) + 1
               EntryOf(q) == [word |-> ws[q], count |-> Cardinality(RowsOf(ws, n, r, ws[q]))]
    <2>1. \A q : EntryOf(q).word = ws[q]
      OBVIOUS
    <2>2. \A e : e \in Counted(ws, n, r) <=> \E q \in OwnRows(n, r) : e = EntryOf(q)
      BY DEF Counted
    <2>3. \A v : v \in Words(Counted(ws, n, r)) <=> \E e \in Counted(ws, n, r) : v = e.word
      BY DEF Words
    <2> HIDE DEF EntryOf
    <2>4. \A v : v \in Words(Counted(ws, n, r)) <=> \E q \in OwnRows(n, r) : v = ws[q]
      BY <2>1, <2>2, <2>3
    <2>5. QED
      BY <2>4
  <1>4. QED
    BY <1>2, <1>3

\* The invariant says it.
LEMMA MergedAre ==
  ASSUME IndInv
  PROVE  DifferentWords
  <1> SUFFICES ASSUME pc[0] = "done"
               PROVE  /\ {entry.word : entry \in Reduction} = Range(words)
                      /\ Size(map[0]) = Cardinality(Range(words))
    BY DEF DifferentWords
  <1>1. /\ 0 \in Nodes /\ NumNodes \in Nat
        /\ words \in Seq(WordType) /\ Len(words) \in Nat /\ DOMAIN words = 1 .. Len(words)
    BY NodeFacts
  <1>2. /\ from = NumNodes /\ 0 .. from - 1 \subseteq put
        /\ IsMap(map[0]) /\ Words(Entries(map[0])) = WordsBefore(local, from, row[0])
    BY DEF IndInv, MergeInv
  <1>3. 0 .. from - 1 = Nodes /\ from \notin Nodes
    BY <1>1, <1>2 DEF Nodes
  <1>4. \A n \in Nodes : Range(local[n]) = Counted(words, n, Len(words) + 1)
    BY <1>2, <1>3 DEF IndInv, Phases, CountInv, NodeInv
  <1>5. \A v : v \in WordsBefore(local, from, row[0]) <=> \E n \in Nodes : v \in Words(Range(local[n]))
    <2>1. PICK rows, f, r : rows = local /\ f = from /\ r = row[0]
      OBVIOUS
    <2>2. \A v : v \in WordsBefore(rows, f, r) <=>
            \/ \E n \in 0 .. f - 1 : v \in Words(Range(rows[n]))
            \/ f \in Nodes /\ \E k \in 1 .. r - 1 : v = rows[f][k].word
      BY BeforeIs
    <2>3. QED
      BY <1>3, <2>1, <2>2
  <1>6. \A v : v \in WordsBefore(local, from, row[0]) <=>
          \E n \in Nodes : \E q \in 1 .. Len(words) : IsLocal(n, q) /\ v = words[q]
    <2>1. PICK ws : ws = words
      OBVIOUS
    <2>2. \A n : \A v : v \in Words(Counted(ws, n, Len(ws) + 1)) <=>
            \E q \in 1 .. Len(ws) : IsLocal(n, q) /\ v = ws[q]
      BY <1>1, <2>1, PutWordsAre
    <2>3. QED
      BY <1>4, <1>5, <2>1, <2>2
  <1>7. \A q \in 1 .. Len(words) : \E n \in Nodes : IsLocal(n, q)
    BY NodeOfRow
  <1>8. Words(Entries(map[0])) = Range(words)
    <2>1. \A v : v \in Range(words) <=> \E q \in 1 .. Len(words) : v = words[q]
      BY <1>1 DEF Range
    <2>2. \A v : v \in Words(Entries(map[0])) <=> v \in Range(words)
      BY <1>2, <1>6, <1>7, <2>1
    <2>3. QED
      BY <2>2
  <1>9. Reduction = Entries(map[0])
    <2>1. DOMAIN map[0] = Buckets
      BY <1>2 DEF IsMap
    <2>2. QED
      BY <2>1 DEF Reduction, Entries
  <1>10. Size(map[0]) = Cardinality(Range(words))
    <2>1. PICK m, ws : m = map[0] /\ ws = words
      OBVIOUS
    <2>2. IsMap(m) /\ ws \in Seq(WordType) /\ Words(Entries(m)) \subseteq Range(ws)
      BY <1>1, <1>2, <1>8, <2>1
    <2>3. Size(m) = Cardinality(Words(Entries(m)))
      BY <2>2, SizeIs
    <2>4. QED
      BY <1>8, <2>1, <2>3
  <1>11. QED
    BY <1>8, <1>9, <1>10 DEF Words

\* The merged map has every word of the file once, and its size is their number
\* (wordcount.h, reduce).
THEOREM MergedOnce == FilesFit /\ HashIsNat => (Spec => []DifferentWords)
  <1>1. IndInv => DifferentWords
    BY MergedAre
  <1>2. QED
    BY <1>1, IndInvHolds, PTL
=============================================================================
