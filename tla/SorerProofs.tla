------------------------------ MODULE SorerProofs ------------------------------
(***************************************************************************)
(* Theorems of Sorer for every file, every size of the sample and every     *)
(* first capacity of the arrays: the schema is the join of the sample, and  *)
(* the rows that SorWriter writes are the lines that fit it, in order.      *)
(***************************************************************************)
EXTENDS Sorer, FiniteSetTheorems, TLAPS

-----------------------------------------------------------------------------
(* The inductive invariant *)

\* The type of field j of line l.
TypeAt(l, j) == FieldType[file[l][j]]

\* The lines of the sample that parse_schema has read.
Read == {l \in DOMAIN file : l <= SchemaRows /\ (pc = "schema" => l < next)}

\* The schema is at least as wide as these lines, and not wider than all of them; its types are
\* the largest of their columns.
SchemaJoins ==
  /\ \A l \in Read : Len(file[l]) <= Len(schema)
  /\ Len(schema) > 0 => \E l \in Read : Len(file[l]) = Len(schema)
  /\ \A j \in DOMAIN schema :
       /\ \A l \in Read : j \in DOMAIN file[l] => TypeAt(l, j) <= schema[j]
       /\ \E l \in Read : j \in DOMAIN file[l] /\ TypeAt(l, j) = schema[j]

\* Before the columns are made there is nothing but the schema.
NothingYet ==
  pc = "schema" => row = 0 /\ seen = 0 /\ rows = <<>> /\ next <= SchemaRows + 1

\* Every array has as many fields as lines were kept, each at its rank.
ColumnsParallel ==
  \A j \in DOMAIN columns :
    /\ Len(columns[j].cells) > 0
    /\ columns[j].size = Cardinality(Kept)
    /\ \A l \in Kept : columns[j].cells[Rank(l)] = Place(l, j)

\* The writer has seen the fields of its rows.
WriterBehind ==
  /\ pc \in {"schema", "columns"} => row = 0 /\ seen = 0 /\ rows = <<>>
  /\ pc \in {"write", "done"} =>
       /\ next = Len(file) + 1 /\ schema # <<>>
       /\ row <= Cardinality(Kept) /\ seen = row * Len(schema)
       /\ \A k \in 1 .. row : rows[k] = [j \in DOMAIN schema |-> columns[j].cells[k]]
  /\ pc = "done" => row = Cardinality(Kept)

\* The inductive invariant.
IndInv == TypeOK /\ SchemaJoins /\ NothingYet /\ ColumnsParallel /\ WriterBehind

-----------------------------------------------------------------------------
(* Numbers, lines and ranks *)

\* A product can be divided by a positive factor.
LEMMA ProductsEqual ==
  ASSUME NEW a \in Nat, NEW b \in Nat, NEW w \in Nat, w > 0, a * w = b * w
  PROVE  a = b
  <1>1. \A x \in Nat, y \in Nat : x < y => x * w < y * w
    <2> SUFFICES ASSUME NEW x \in Nat, NEW y \in Nat, x < y PROVE x * w < y * w
      OBVIOUS
    <2>1. PICK d \in Nat : y = x + d /\ d > 0
      <3>1. y - x \in Nat /\ y = x + (y - x) /\ y - x > 0
        OBVIOUS
      <3>2. QED
        BY <3>1
    <2>2. y * w = x * w + d * w /\ x * w \in Nat /\ d * w \in Nat
      BY <2>1
    <2>3. d * w > 0
      BY <2>1
    <2>4. QED
      BY <2>2, <2>3
  <1>2. a * w \in Nat /\ b * w \in Nat
    OBVIOUS
  <1>3. QED
    BY <1>1, <1>2

\* The fields of the file have types of a schema.
LEMMA FileTypes ==
  ASSUME file \in Files
  PROVE  /\ Len(file) \in Nat /\ DOMAIN file = 1 .. Len(file)
         /\ \A l \in DOMAIN file :
              /\ file[l] \in Seq(Kinds) /\ Len(file[l]) \in Nat /\ DOMAIN file[l] = 1 .. Len(file[l])
              /\ \A j \in DOMAIN file[l] : TypeAt(l, j) \in 1 .. 4
  <1>1. file \in Seq(Seq(Kinds))
    BY SorerAssumption
  <1>2. \A kind \in Kinds : FieldType[kind] \in 1 .. 4
    BY DEF Kinds, FieldType
  <1>3. ASSUME NEW l \in DOMAIN file
        PROVE  /\ file[l] \in Seq(Kinds) /\ Len(file[l]) \in Nat /\ DOMAIN file[l] = 1 .. Len(file[l])
               /\ \A j \in DOMAIN file[l] : TypeAt(l, j) \in 1 .. 4
    <2>1. PICK line \in Seq(Kinds) : line = file[l]
      BY <1>1
    <2>2. \A j \in DOMAIN line : line[j] \in Kinds
      OBVIOUS
    <2>3. QED
      BY <1>2, <2>1, <2>2 DEF TypeAt
  <1>4. QED
    BY <1>1, <1>3

\* The rank of a line among others is between one and their number.
LEMMA Ranks ==
  ASSUME NEW n \in Nat, NEW S \in SUBSET (1 .. n)
  PROVE  /\ IsFiniteSet(S) /\ Cardinality(S) \in Nat /\ Cardinality(S) <= n
         /\ \A l \in S : Cardinality({m \in S : m <= l}) \in 1 .. Cardinality(S)
  <1>1. IsFiniteSet(1 .. n) /\ Cardinality(1 .. n) = n
    BY FS_Interval
  <1>2. IsFiniteSet(S) /\ Cardinality(S) <= n
    BY <1>1, FS_Subset
  <1>3. Cardinality(S) \in Nat
    BY <1>2, FS_CardinalityType
  <1>4. ASSUME NEW l \in S
        PROVE  Cardinality({m \in S : m <= l}) \in 1 .. Cardinality(S)
    <2> DEFINE R == {m \in S : m <= l}
    <2>1. R \in SUBSET S /\ l \in R
      OBVIOUS
    <2> HIDE DEF R
    <2>2. IsFiniteSet(R) /\ Cardinality(R) <= Cardinality(S)
      BY <1>2, <2>1, FS_Subset
    <2>3. Cardinality(R) \in Nat /\ Cardinality(R) # 0
      BY <2>1, <2>2, FS_CardinalityType, FS_EmptySet
    <2>4. QED
      BY <1>3, <2>2, <2>3 DEF R
  <1>5. QED
    BY <1>2, <1>3, <1>4

\* A line behind all others has the last rank and changes none.
LEMMA RankOfNext ==
  ASSUME NEW n \in Nat, NEW S \in SUBSET (1 .. n)
  PROVE  LET T == S \cup {n + 1} IN
         /\ Cardinality(T) = Cardinality(S) + 1
         /\ Cardinality({m \in T : m <= n + 1}) = Cardinality(S) + 1
         /\ \A l \in S : {m \in T : m <= l} = {m \in S : m <= l}
  <1> DEFINE T == S \cup {n + 1}
  <1>1. Cardinality(T) = Cardinality(S) + 1
    <2>1. IsFiniteSet(S)
      BY Ranks
    <2>2. n + 1 \notin S
      OBVIOUS
    <2>3. QED
      BY <2>1, <2>2, FS_AddElement
  <1>2. {m \in T : m <= n + 1} = T
    <2>1. \A m \in T : m <= n + 1
      OBVIOUS
    <2> HIDE DEF T
    <2>2. QED
      BY <2>1
  <1>3. \A l \in S : {m \in T : m <= l} = {m \in S : m <= l}
    OBVIOUS
  <1>4. QED
    BY <1>1, <1>2, <1>3

\* What was kept are lines of the file that were passed, and a step that passes one adds it if it
\* fits the schema.
LEMMA KeptLines ==
  ASSUME TypeOK
  PROVE  /\ next - 1 \in Nat /\ Kept \in SUBSET (1 .. next - 1) /\ Kept \subseteq DOMAIN file
         /\ IsFiniteSet(Kept) /\ Cardinality(Kept) \in Nat /\ Cardinality(Kept) <= Len(file)
         /\ \A l \in Kept : Rank(l) \in 1 .. Cardinality(Kept)
  <1>1. next - 1 \in Nat /\ next - 1 <= Len(file) /\ DOMAIN file = 1 .. Len(file) /\ Len(file) \in Nat
    BY FileTypes DEF TypeOK
  <1>2. Kept \in SUBSET (1 .. next - 1)
    BY DEF Kept
  <1>3. /\ IsFiniteSet(Kept) /\ Cardinality(Kept) \in Nat /\ Cardinality(Kept) <= next - 1
        /\ \A l \in Kept : Rank(l) \in 1 .. Cardinality(Kept)
    BY <1>1, <1>2, Ranks DEF Rank
  <1>4. QED
    BY <1>1, <1>2, <1>3

-----------------------------------------------------------------------------
(* parse_schema *)

\* Initially nothing was read.
LEMMA InitInv ==
  ASSUME Init
  PROVE  IndInv
  <1>1. /\ file \in Files /\ pc = "schema" /\ next = 1 /\ schema = <<>> /\ columns = <<>>
        /\ row = 0 /\ seen = 0 /\ rows = <<>>
    BY DEF Init
  <1>2. Len(file) \in Nat /\ DOMAIN file = 1 .. Len(file)
    BY <1>1, FileTypes
  <1>3. TypeOK
    BY <1>1, <1>2 DEF TypeOK
  <1>4. SchemaJoins
    <2>1. Read = {}
      BY <1>1, <1>2 DEF Read
    <2>2. QED
      BY <1>1, <2>1 DEF SchemaJoins
  <1>5. NothingYet /\ ColumnsParallel /\ WriterBehind
    BY <1>1, SorerAssumption DEF NothingYet, ColumnsParallel, WriterBehind
  <1>6. QED
    BY <1>3, <1>4, <1>5 DEF IndInv

\* The schema after a line, as it is found at each column.
LEMMA WidenedIs ==
  ASSUME NEW types \in Seq(1 .. 4), NEW line \in Seq(1 .. 4)
  PROVE  LET w == Widened(types, line) IN
         /\ w \in Seq(1 .. 4)
         /\ Len(w) = Wider(Len(types), Len(line)) /\ DOMAIN w = 1 .. Len(w)
         /\ \A j \in DOMAIN w : w[j] = IF j > Len(types) THEN line[j]
                                       ELSE IF j > Len(line) THEN types[j]
                                       ELSE Wider(types[j], line[j])
  <1> DEFINE n == Wider(Len(types), Len(line))
             w == Widened(types, line)
  <1>1. n \in Nat /\ Len(types) \in Nat /\ Len(line) \in Nat
    BY DEF Wider
  <1>2. \A j \in 1 .. n : j <= Len(types) \/ j <= Len(line)
    BY DEF Wider
  <1>3. DOMAIN w = 1 .. n
    BY DEF Widened
  <1>4. \A j \in 1 .. n : w[j] = IF j > Len(types) THEN line[j]
                                 ELSE IF j > Len(line) THEN types[j]
                                 ELSE Wider(types[j], line[j])
    <2> SUFFICES ASSUME NEW j \in 1 .. n
                 PROVE  w[j] = IF j > Len(types) THEN line[j]
                               ELSE IF j > Len(line) THEN types[j]
                               ELSE Wider(types[j], line[j])
      OBVIOUS
    <2>1. w[j] = CASE j > Len(types) -> line[j]
                   [] j > Len(line)  -> types[j]
                   [] OTHER          -> Wider(types[j], line[j])
      BY DEF Widened
    <2>2. j \in Int /\ ~(j > Len(types) /\ j > Len(line))
      BY <1>1, <1>2
    <2>3. QED
      BY <1>1, <2>1, <2>2
  <1>5. \A j \in 1 .. n : w[j] \in 1 .. 4
    BY <1>1, <1>2, <1>4 DEF Wider
  <1>6. w = [j \in 1 .. n |-> w[j]]
    BY DEF Widened
  <1> HIDE DEF w, n
  <1>7. w \in Seq(1 .. 4) /\ Len(w) = n
    BY <1>1, <1>5, <1>6
  <1>8. QED
    BY <1>3, <1>4, <1>7 DEF w, n

\* The types of the fields of a line.
LEMMA TypesOfLine ==
  ASSUME file \in Files, NEW l \in DOMAIN file
  PROVE  /\ Types(file[l]) \in Seq(1 .. 4) /\ Len(Types(file[l])) = Len(file[l])
         /\ DOMAIN Types(file[l]) = DOMAIN file[l]
         /\ \A j \in DOMAIN file[l] : Types(file[l])[j] = TypeAt(l, j)
  <1>1. Len(file[l]) \in Nat /\ DOMAIN file[l] = 1 .. Len(file[l])
        /\ \A j \in DOMAIN file[l] : TypeAt(l, j) \in 1 .. 4
    BY FileTypes
  <1>2. Types(file[l]) = [j \in 1 .. Len(file[l]) |-> TypeAt(l, j)]
    BY <1>1 DEF Types, TypeAt
  <1>3. QED
    BY <1>1, <1>2

\* Widening by a line joins it.
LEMMA ParseKeeps ==
  ASSUME IndInv, ParseRowSchema
  PROVE  IndInv'
  <1>1. TypeOK /\ SchemaJoins /\ NothingYet
    BY DEF IndInv
  <1>2. /\ pc = "schema" /\ pc' = "schema" /\ next <= Len(file) /\ next <= SchemaRows
        /\ schema' = Widened(schema, Types(file[next])) /\ next' = next + 1
        /\ UNCHANGED <<file, columns, row, seen, rows>>
    BY DEF ParseRowSchema, SchemaLeft
  <1>3. file \in Files /\ Len(file) \in Nat /\ DOMAIN file = 1 .. Len(file) /\ next \in DOMAIN file
    BY <1>1, <1>2, FileTypes DEF TypeOK
  <1>4. PICK line \in Seq(1 .. 4) :
          /\ line = Types(file[next]) /\ Len(line) = Len(file[next])
          /\ \A j \in DOMAIN line : j \in DOMAIN file[next] /\ line[j] = TypeAt(next, j)
    BY <1>3, TypesOfLine
  <1>5. PICK types \in Seq(1 .. 4) : types = schema
    BY <1>1 DEF TypeOK
  <1>6. /\ schema' \in Seq(1 .. 4) /\ Len(schema') = Wider(Len(types), Len(line))
        /\ DOMAIN schema' = 1 .. Len(schema')
        /\ \A j \in DOMAIN schema' : schema'[j] = IF j > Len(types) THEN line[j]
                                                 ELSE IF j > Len(line) THEN types[j]
                                                 ELSE Wider(types[j], line[j])
    BY <1>2, <1>4, <1>5, WidenedIs
  <1>7. Read' = Read \cup {next}
    BY <1>1, <1>2, <1>3 DEF Read, TypeOK
  <1>8. rows = <<>> /\ row = 0 /\ seen = 0
    BY <1>1, <1>2 DEF NothingYet
  <1>9. TypeOK'
    <2>1. DOMAIN columns = {}
      BY <1>1, <1>2 DEF TypeOK
    <2>2. next' \in 1 .. Len(file) + 1
      BY <1>2, <1>3
    <2>3. QED
      BY <1>2, <1>3, <1>6, <1>8, <2>1, <2>2 DEF TypeOK
  <1>10. SchemaJoins'
    <2>1. /\ Len(types) \in Nat /\ DOMAIN types = 1 .. Len(types) /\ Len(line) \in Nat
          /\ DOMAIN line = 1 .. Len(line)
          /\ \A j \in DOMAIN types : types[j] \in Nat
          /\ \A j \in DOMAIN line : line[j] \in Nat
      OBVIOUS
    <2>2. /\ \A l \in Read : Len(file[l]) <= Len(types)
          /\ Len(types) > 0 => \E l \in Read : Len(file[l]) = Len(types)
          /\ \A j \in DOMAIN types :
               /\ \A l \in Read : j \in DOMAIN file[l] => TypeAt(l, j) <= types[j]
               /\ \E l \in Read : j \in DOMAIN file[l] /\ TypeAt(l, j) = types[j]
      BY <1>1, <1>5 DEF SchemaJoins
    <2>3. \A l \in Read \cup {next} :
            /\ Len(file[l]) \in Nat /\ DOMAIN file[l] = 1 .. Len(file[l])
            /\ \A j \in DOMAIN file[l] : TypeAt(l, j) \in Nat
      <3>1. Read \cup {next} \subseteq DOMAIN file
        BY <1>3 DEF Read
      <3>2. QED
        BY <1>3, <3>1, FileTypes
    <2>4. Len(types) <= Len(schema') /\ Len(line) <= Len(schema')
          /\ (Len(schema') = Len(types) \/ Len(schema') = Len(line))
      BY <1>6, <2>1 DEF Wider
    <2>5. \A l \in Read \cup {next} : Len(file[l]) <= Len(schema')
      BY <1>4, <2>1, <2>2, <2>3, <2>4
    <2>6. Len(schema') > 0 => \E l \in Read \cup {next} : Len(file[l]) = Len(schema')
      BY <1>4, <2>2, <2>4
    <2>7. ASSUME NEW j \in DOMAIN schema', NEW l \in Read \cup {next}, j \in DOMAIN file[l]
          PROVE  TypeAt(l, j) <= schema'[j]
      <3>1. CASE l = next
        <4>1. j \in DOMAIN line /\ line[j] = TypeAt(next, j)
          BY <1>4, <2>1, <2>3, <2>7, <3>1
        <4>2. line[j] <= schema'[j]
          BY <1>6, <2>1, <2>7, <4>1 DEF Wider
        <4>3. QED
          BY <3>1, <4>1, <4>2
      <3>2. CASE l \in Read
        <4>1. j \in DOMAIN types
          BY <2>1, <2>2, <2>3, <2>7, <3>2
        <4>2. types[j] <= schema'[j] /\ types[j] \in Nat /\ schema'[j] \in Nat
          BY <1>6, <2>1, <2>7, <4>1 DEF Wider
        <4>3. TypeAt(l, j) <= types[j] /\ TypeAt(l, j) \in Nat
          BY <2>2, <2>3, <2>7, <3>2, <4>1
        <4>4. QED
          BY <4>2, <4>3
      <3>3. QED
        BY <2>7, <3>1, <3>2
    <2>8. ASSUME NEW j \in DOMAIN schema'
          PROVE  \E l \in Read \cup {next} : j \in DOMAIN file[l] /\ TypeAt(l, j) = schema'[j]
      <3>1. CASE j \in DOMAIN types /\ schema'[j] = types[j]
        BY <2>2, <3>1
      <3>2. CASE j \in DOMAIN line /\ schema'[j] = line[j]
        BY <1>4, <3>2
      <3>3. QED
        BY <1>6, <2>1, <2>4, <2>8, <3>1, <3>2 DEF Wider
    <2>9. \A l, j : TypeAt(l, j)' = TypeAt(l, j)
      BY <1>2 DEF TypeAt
    <2>10. QED
      BY <1>2, <1>7, <2>5, <2>6, <2>7, <2>8, <2>9 DEF SchemaJoins
  <1>11. NothingYet' /\ WriterBehind'
    BY <1>1, <1>2, <1>8, SorerAssumption DEF NothingYet, WriterBehind, TypeOK
  <1>12. ColumnsParallel'
    BY <1>1, <1>2 DEF ColumnsParallel, TypeOK
  <1>13. QED
    BY <1>9, <1>10, <1>11, <1>12 DEF IndInv

\* The schema is complete: the arrays are empty and nothing was kept.
LEMMA StartColumnsKeeps ==
  ASSUME IndInv, StartColumns
  PROVE  IndInv'
  <1>1. TypeOK /\ SchemaJoins /\ NothingYet
    BY DEF IndInv
  <1>2. /\ pc = "schema" /\ pc' = "columns" /\ ~(next <= Len(file) /\ next <= SchemaRows)
        /\ next' = 1 /\ columns' = [j \in DOMAIN schema |-> NewArray]
        /\ UNCHANGED <<file, schema, row, seen, rows>>
    BY DEF StartColumns, SchemaLeft
  <1>3. Len(file) \in Nat /\ DOMAIN file = 1 .. Len(file) /\ next \in 1 .. Len(file) + 1
    BY <1>1, FileTypes DEF TypeOK
  <1>4. row = 0 /\ seen = 0 /\ rows = <<>> /\ next <= SchemaRows + 1
    BY <1>1, <1>2 DEF NothingYet
  <1>5. ASSUME NEW j \in DOMAIN columns'
        PROVE  /\ columns'[j].size = 0 /\ Len(columns'[j].cells) = InitCap
               /\ columns'[j] \in [size : Nat, cells : Seq(Cell(j)')]
    <2> DEFINE cells == [k \in 1 .. InitCap |-> Unset]
    <2>1. columns'[j] = [size |-> 0, cells |-> cells]
      BY <1>2 DEF NewArray
    <2>2. Unset \in Cell(j)'
      BY DEF Cell
    <2>3. cells \in Seq(Cell(j)') /\ Len(cells) = InitCap
      BY <2>2, SorerAssumption
    <2> HIDE DEF cells
    <2>4. QED
      BY <2>1, <2>3
  <1>6. DOMAIN columns' = DOMAIN schema
    BY <1>2
  <1>7. TypeOK'
    <2>1. \A j \in DOMAIN columns' :
            /\ columns'[j] \in [size : Nat, cells : Seq(Cell(j)')]
            /\ columns'[j].size <= Len(columns'[j].cells)
      BY <1>5, SorerAssumption
    <2>2. next' \in 1 .. Len(file') + 1
      BY <1>2, <1>3
    <2>3. rows' \in Seq([DOMAIN schema' -> UNION {Cell(j)' : j \in DOMAIN schema'}]) /\ Len(rows') = 0
      BY <1>2, <1>4
    <2>4. QED
      BY <1>1, <1>2, <1>4, <1>6, <2>1, <2>2, <2>3 DEF TypeOK
  <1>8. SchemaJoins'
    <2>1. Read' = Read
      BY <1>2, <1>3, <1>4, SorerAssumption DEF Read
    <2>2. \A l, j : TypeAt(l, j)' = TypeAt(l, j)
      BY <1>2 DEF TypeAt
    <2>3. QED
      BY <1>1, <1>2, <2>1, <2>2 DEF SchemaJoins
  <1>9. Kept' = {}
    BY <1>2 DEF Kept
  <1>10. ColumnsParallel'
    BY <1>5, <1>9, FS_EmptySet, SorerAssumption DEF ColumnsParallel
  <1>11. NothingYet' /\ WriterBehind'
    BY <1>2, <1>4 DEF NothingYet, WriterBehind
  <1>12. QED
    BY <1>7, <1>8, <1>10, <1>11 DEF IndInv

-----------------------------------------------------------------------------
(* make_columnar *)

\* The cells of an array of n fields and one more, place.
HasPushed(more, cells, n, place) ==
  /\ n + 1 <= Len(more) /\ more[n + 1] = place
  /\ \A k \in 1 .. n : more[k] = cells[k]

\* A field goes behind those of the array, which stay where they are, also when it grows.
LEMMA PushBackKeeps ==
  ASSUME NEW T, Unset \in T, NEW n \in Nat, NEW cells \in Seq(T),
         n <= Len(cells), Len(cells) > 0, NEW place \in T
  PROVE  \E more \in Seq(T) :
           /\ PushBack([size |-> n, cells |-> cells], place) = [size |-> n + 1, cells |-> more]
           /\ HasPushed(more, cells, n, place)
  <1> DEFINE array == [size |-> n, cells |-> cells]
             fit == IF array.size = Len(array.cells) THEN Resized(array) ELSE array
  <1>1. array.size = n /\ array.cells = cells
    OBVIOUS
  <1>2. Len(cells) \in Nat
    OBVIOUS
  <1>3. PICK room \in Seq(T) :
          /\ fit.cells = room /\ n + 1 <= Len(room)
          /\ \A k \in 1 .. n : room[k] = cells[k]
    <2>1. CASE n = Len(cells)
      <3> DEFINE more == [k \in 1 .. 2 * n |-> IF k <= n THEN cells[k] ELSE Unset]
      <3>1. \A k \in 1 .. 2 * n : more[k] \in T
        BY <1>2, <2>1
      <3>2. \A k \in 1 .. n : more[k] = cells[k]
        BY <1>2
      <3>3. fit.cells = more
        BY <1>1, <2>1 DEF Resized
      <3>4. PICK cap \in Nat : cap = 2 * n /\ more = [k \in 1 .. cap |-> more[k]]
        BY <1>2
      <3> HIDE DEF more, fit
      <3>5. more \in Seq(T) /\ Len(more) = 2 * n
        <4>1. \A k \in 1 .. cap : more[k] \in T
          BY <3>1, <3>4
        <4>2. more \in [1 .. cap -> T]
          BY <3>4, <4>1
        <4>3. more \in Seq(T) /\ Len(more) = cap
          BY <4>2
        <4>4. QED
          BY <3>4, <4>3
      <3>6. n + 1 <= 2 * n
        BY <1>2, <2>1
      <3>7. QED
        BY <3>2, <3>3, <3>5, <3>6
    <2>2. CASE n # Len(cells)
      BY <1>1, <1>2, <2>2
    <2>3. QED
      BY <2>1, <2>2
  <1>4. PushBack(array, place) = [size |-> n + 1, cells |-> [room EXCEPT ![n + 1] = place]]
    BY <1>1, <1>3 DEF PushBack
  <1>5. /\ [room EXCEPT ![n + 1] = place] \in Seq(T)
        /\ Len([room EXCEPT ![n + 1] = place]) = Len(room)
        /\ [room EXCEPT ![n + 1] = place][n + 1] = place
        /\ \A k \in 1 .. n : [room EXCEPT ![n + 1] = place][k] = room[k]
    BY <1>2, <1>3
  <1> HIDE DEF fit, array
  <1>6. PICK more \in Seq(T) : more = [room EXCEPT ![n + 1] = place]
    BY <1>5
  <1>7. HasPushed(more, cells, n, place)
    BY <1>3, <1>5, <1>6 DEF HasPushed
  <1>8. QED
    BY <1>4, <1>6, <1>7 DEF array

\* A valid line joins what was kept at the last rank, in every array.
LEMMA AddRowKeeps ==
  ASSUME IndInv, AddRow
  PROVE  IndInv'
  <1>1. TypeOK /\ SchemaJoins /\ ColumnsParallel /\ WriterBehind
    BY DEF IndInv
  <1>2. /\ pc = "columns" /\ next <= Len(file) /\ IsValid(file[next])
        /\ columns' = [j \in DOMAIN columns |-> PushBack(columns[j], Place(next, j))]
        /\ next' = next + 1
        /\ UNCHANGED <<file, pc, schema, row, seen, rows>>
    BY DEF AddRow, AtRow
  <1>3. file \in Files /\ Len(file) \in Nat /\ DOMAIN file = 1 .. Len(file) /\ next \in DOMAIN file
    BY <1>1, <1>2, FileTypes DEF TypeOK
  <1>4. PICK n \in Nat : next = n + 1 /\ next - 1 = n
    BY <1>3
  <1>5. PICK S \in SUBSET (1 .. n) : S = Kept /\ Cardinality(S) \in Nat
    BY <1>1, <1>4, KeptLines
  <1>6. Kept' = S \cup {n + 1}
    <2>1. \A line : IsValid(line)' = IsValid(line)
      BY <1>2 DEF IsValid
    <2>2. 1 .. next' - 1 = (1 .. next - 1) \cup {next}
      BY <1>2, <1>4
    <2>3. Kept' = {l \in 1 .. next' - 1 : IsValid(file[l])}
      BY <1>2, <2>1 DEF Kept
    <2>4. QED
      BY <1>2, <1>4, <1>5, <2>2, <2>3 DEF Kept
  <1>7. /\ Cardinality(Kept') = Cardinality(S) + 1
        /\ Rank(n + 1)' = Cardinality(S) + 1
        /\ \A l \in S : Rank(l)' = Rank(l)
    <2>1. /\ Cardinality(S \cup {n + 1}) = Cardinality(S) + 1
          /\ Cardinality({m \in S \cup {n + 1} : m <= n + 1}) = Cardinality(S) + 1
          /\ \A l \in S : {m \in S \cup {n + 1} : m <= l} = {m \in S : m <= l}
      BY RankOfNext
    <2>2. /\ Rank(n + 1)' = Cardinality({m \in S \cup {n + 1} : m <= n + 1})
          /\ \A l : Rank(l)' = Cardinality({m \in S \cup {n + 1} : m <= l})
      BY <1>6 DEF Rank
    <2>3. \A l : Rank(l) = Cardinality({m \in S : m <= l})
      BY <1>5 DEF Rank
    <2>4. QED
      BY <1>6, <2>1, <2>2, <2>3
  <1>8. \A j : Cell(j)' = Cell(j) /\ Unset \in Cell(j) /\ Place(next, j) \in Cell(j)
    BY <1>2, <1>3 DEF Cell
  <1>9. ASSUME NEW j \in DOMAIN columns
        PROVE  /\ columns'[j] \in [size : Nat, cells : Seq(Cell(j))]
               /\ columns'[j].size = columns[j].size + 1
               /\ columns'[j].size <= Len(columns'[j].cells) /\ Len(columns'[j].cells) > 0
               /\ columns'[j].cells[columns[j].size + 1] = Place(next, j)
               /\ \A k \in 1 .. columns[j].size : columns'[j].cells[k] = columns[j].cells[k]
    <2>1. PICK size \in Nat, cells \in Seq(Cell(j)) :
            /\ columns[j] = [size |-> size, cells |-> cells]
            /\ size <= Len(cells) /\ Len(cells) > 0
      <3>1. columns[j] \in [size : Nat, cells : Seq(Cell(j))]
        BY <1>1 DEF TypeOK
      <3>2. /\ columns[j] = [size |-> columns[j].size, cells |-> columns[j].cells]
            /\ columns[j].size \in Nat /\ columns[j].cells \in Seq(Cell(j))
        BY <3>1
      <3>3. QED
        BY <1>1, <3>2 DEF TypeOK, ColumnsParallel
    <2>2. PICK more \in Seq(Cell(j)) :
            /\ PushBack([size |-> size, cells |-> cells], Place(next, j)) = [size |-> size + 1, cells |-> more]
            /\ HasPushed(more, cells, size, Place(next, j))
      <3>1. PICK T, place : T = Cell(j) /\ place = Place(next, j)
        OBVIOUS
      <3>2. Unset \in T /\ place \in T /\ cells \in Seq(T)
        BY <1>8, <3>1
      <3>3. \E more \in Seq(T) :
              /\ PushBack([size |-> size, cells |-> cells], place) = [size |-> size + 1, cells |-> more]
              /\ HasPushed(more, cells, size, place)
        BY <2>1, <3>2, PushBackKeeps
      <3>4. QED
        BY <3>1, <3>3
    <2>3. columns'[j] = [size |-> size + 1, cells |-> more]
      BY <1>2, <2>1, <2>2
    <2>4. QED
      BY <2>1, <2>2, <2>3 DEF HasPushed
  <1>10. DOMAIN columns' = DOMAIN columns
    BY <1>2
  <1>11. TypeOK'
    <2>1. next' \in 1 .. Len(file') + 1
      BY <1>2, <1>3
    <2>2. \A j \in DOMAIN columns' :
            /\ columns'[j] \in [size : Nat, cells : Seq(Cell(j)')]
            /\ columns'[j].size <= Len(columns'[j].cells)
      BY <1>8, <1>9, <1>10
    <2>3. rows' \in Seq([DOMAIN schema' -> UNION {Cell(j)' : j \in DOMAIN schema'}])
          /\ Len(rows') = row' /\ row' \in 0 .. Len(file')
      BY <1>1, <1>2, <1>3 DEF WriterBehind
    <2>4. QED
      BY <1>1, <1>2, <1>10, <2>1, <2>2, <2>3 DEF TypeOK
  <1>12. SchemaJoins'
    <2>1. Read' = Read
      BY <1>2 DEF Read
    <2>2. \A l, j : TypeAt(l, j)' = TypeAt(l, j)
      BY <1>2 DEF TypeAt
    <2>3. QED
      BY <1>1, <1>2, <2>1, <2>2 DEF SchemaJoins
  <1>13. ColumnsParallel'
    <2> SUFFICES ASSUME NEW j \in DOMAIN columns
                 PROVE  /\ Len(columns'[j].cells) > 0
                        /\ columns'[j].size = Cardinality(Kept')
                        /\ \A l \in Kept' : columns'[j].cells[Rank(l)'] = Place(l, j)
      BY <1>10 DEF ColumnsParallel
    <2>1. columns[j].size = Cardinality(S) /\ \A l \in S : columns[j].cells[Rank(l)] = Place(l, j)
      BY <1>1, <1>5 DEF ColumnsParallel
    <2>2. \A l \in S : Rank(l) \in 1 .. Cardinality(S)
      BY <1>1, <1>5, KeptLines
    <2>3. columns'[j].cells[Rank(n + 1)'] = Place(n + 1, j)
      BY <1>4, <1>7, <1>9, <2>1
    <2>4. \A l \in S : columns'[j].cells[Rank(l)'] = Place(l, j)
      BY <1>7, <1>9, <2>1, <2>2
    <2>5. QED
      BY <1>4, <1>6, <1>7, <1>9, <2>1, <2>3, <2>4
  <1>14. NothingYet' /\ WriterBehind'
    BY <1>1, <1>2 DEF NothingYet, WriterBehind
  <1>15. QED
    BY <1>11, <1>12, <1>13, <1>14 DEF IndInv

\* What a step keeps that changes neither the file, the schema nor what was kept.
LEMMA SameLines ==
  ASSUME IndInv, UNCHANGED <<file, schema, columns>>, pc # "schema", pc' # "schema", Kept' = Kept
  PROVE  SchemaJoins' /\ ColumnsParallel' /\ NothingYet'
  <1>1. SchemaJoins /\ ColumnsParallel
    BY DEF IndInv
  <1>2. SchemaJoins'
    <2>1. Read' = Read
      BY DEF Read
    <2>2. \A l, j : TypeAt(l, j)' = TypeAt(l, j)
      BY DEF TypeAt
    <2>3. QED
      BY <1>1, <2>1, <2>2 DEF SchemaJoins
  <1>3. ColumnsParallel'
    <2>1. \A l : Rank(l)' = Rank(l)
      BY DEF Rank
    <2>2. QED
      BY <1>1, <2>1 DEF ColumnsParallel
  <1>4. QED
    BY <1>2, <1>3 DEF NothingYet

\* A line that does not fit is passed.
LEMMA DropRowKeeps ==
  ASSUME IndInv, DropRow
  PROVE  IndInv'
  <1>1. TypeOK /\ WriterBehind
    BY DEF IndInv
  <1>2. /\ pc = "columns" /\ next <= Len(file) /\ ~IsValid(file[next]) /\ next' = next + 1
        /\ UNCHANGED <<file, pc, schema, columns, row, seen, rows>>
    BY DEF DropRow, AtRow
  <1>3. Len(file) \in Nat /\ next \in 1 .. Len(file)
    BY <1>1, <1>2, FileTypes DEF TypeOK
  <1>4. Kept' = Kept
    <2>1. \A line : IsValid(line)' = IsValid(line)
      BY <1>2 DEF IsValid
    <2>2. 1 .. next' - 1 = (1 .. next - 1) \cup {next}
      BY <1>2, <1>3
    <2>3. Kept' = {l \in 1 .. next' - 1 : IsValid(file[l])}
      BY <1>2, <2>1 DEF Kept
    <2>4. QED
      BY <1>2, <2>2, <2>3 DEF Kept
  <1>5. TypeOK'
    <2>1. next' \in 1 .. Len(file') + 1
      BY <1>2, <1>3
    <2>2. \A j : Cell(j)' = Cell(j)
      BY <1>2 DEF Cell
    <2>3. QED
      BY <1>1, <1>2, <2>1, <2>2 DEF TypeOK
  <1>6. SchemaJoins' /\ ColumnsParallel' /\ NothingYet'
    BY <1>2, <1>4, SameLines
  <1>7. WriterBehind'
    BY <1>1, <1>2 DEF WriterBehind
  <1>8. QED
    BY <1>5, <1>6, <1>7 DEF IndInv

-----------------------------------------------------------------------------
(* SorWriter *)

\* The writer starts behind the last line, and it ends with as many rows as lines were kept.
LEMMA WriterKeeps ==
  ASSUME IndInv, StartWriter \/ Finish
  PROVE  IndInv'
  <1>1. TypeOK /\ WriterBehind /\ ColumnsParallel
    BY DEF IndInv
  <1>2. /\ UNCHANGED <<file, next, schema, columns, row, seen, rows>>
        /\ pc # "schema" /\ pc' \in {"write", "done"}
    BY DEF StartWriter, Finish
  <1>3. TypeOK'
    <2>1. \A j : Cell(j)' = Cell(j)
      BY <1>2 DEF Cell
    <2>2. QED
      BY <1>1, <1>2, <2>1 DEF TypeOK
  <1>4. Kept' = Kept
    <2>1. \A line : IsValid(line)' = IsValid(line)
      BY <1>2 DEF IsValid
    <2>2. QED
      BY <1>2, <2>1 DEF Kept
  <1>5. SchemaJoins' /\ ColumnsParallel' /\ NothingYet'
    BY <1>2, <1>4, SameLines
  <1>6. Cardinality(Kept) \in Nat /\ Len(schema) \in Nat /\ Len(file) \in Nat
    BY <1>1, KeptLines, FileTypes DEF TypeOK
  <1>7. CASE StartWriter
    <2>1. pc = "columns" /\ pc' = "write" /\ schema # <<>> /\ next = Len(file) + 1
      BY <1>1, <1>6, <1>7 DEF StartWriter, TypeOK
    <2>2. row = 0 /\ seen = 0 /\ rows = <<>>
      BY <1>1, <2>1 DEF WriterBehind
    <2>3. 0 = 0 * Len(schema)
      BY <1>6
    <2>4. WriterBehind'
      BY <1>2, <1>4, <1>6, <2>1, <2>2, <2>3 DEF WriterBehind
    <2>5. QED
      BY <1>3, <1>5, <2>4 DEF IndInv
  <1>8. CASE Finish
    <2>1. pc = "write" /\ pc' = "done" /\ seen = columns[1].size * Len(schema)
      BY <1>8 DEF Finish, WriterDone
    <2>2. schema # <<>> /\ seen = row * Len(schema) /\ row \in Nat
      BY <1>1, <1>6, <2>1 DEF WriterBehind, TypeOK
    <2>3. Len(schema) > 0 /\ 1 \in DOMAIN schema /\ DOMAIN columns = DOMAIN schema
      BY <1>1, <1>2, <2>2 DEF TypeOK
    <2>4. columns[1].size = Cardinality(Kept)
      BY <1>1, <2>3 DEF ColumnsParallel
    <2>5. row = Cardinality(Kept)
      BY <1>6, <2>1, <2>2, <2>3, <2>4, ProductsEqual
    <2>6. WriterBehind'
      BY <1>1, <1>2, <1>4, <2>1, <2>5 DEF WriterBehind
    <2>7. QED
      BY <1>3, <1>5, <2>6 DEF IndInv
  <1>9. QED
    BY <1>7, <1>8

\* A visit takes the next field of every array; there is one, for the writer is not done.
LEMMA VisitRowKeeps ==
  ASSUME IndInv, VisitRow
  PROVE  IndInv'
  <1>1. TypeOK /\ WriterBehind /\ ColumnsParallel
    BY DEF IndInv
  <1>2. /\ pc = "write" /\ seen # columns[1].size * Len(schema)
        /\ rows' = Append(rows, [j \in DOMAIN schema |-> columns[j].cells[row + 1]])
        /\ seen' = seen + Len(schema) /\ row' = row + 1
        /\ UNCHANGED <<file, pc, next, schema, columns>>
    BY DEF VisitRow, WriterDone
  <1>3. /\ Cardinality(Kept) \in Nat /\ Len(schema) \in Nat /\ Len(file) \in Nat
        /\ Cardinality(Kept) <= Len(file) /\ row \in Nat /\ seen \in Nat
    BY <1>1, KeptLines, FileTypes DEF TypeOK
  <1>4. /\ next = Len(file) + 1 /\ schema # <<>>
        /\ row <= Cardinality(Kept) /\ seen = row * Len(schema)
        /\ \A k \in 1 .. row : rows[k] = [j \in DOMAIN schema |-> columns[j].cells[k]]
    BY <1>1, <1>2 DEF WriterBehind
  <1>5. 1 \in DOMAIN schema /\ DOMAIN columns = DOMAIN schema
    BY <1>1, <1>2, <1>4 DEF TypeOK
  <1>6. row + 1 <= Cardinality(Kept)
    <2>1. columns[1].size = Cardinality(Kept)
      BY <1>1, <1>5 DEF ColumnsParallel
    <2>2. row # Cardinality(Kept)
      BY <1>2, <1>4, <2>1
    <2>3. QED
      BY <1>3, <1>4, <2>2
  <1>7. Kept' = Kept
    <2>1. \A line : IsValid(line)' = IsValid(line)
      BY <1>2 DEF IsValid
    <2>2. QED
      BY <1>2, <2>1 DEF Kept
  <1>8. SchemaJoins' /\ ColumnsParallel' /\ NothingYet'
    BY <1>2, <1>7, SameLines
  <1> DEFINE R == [DOMAIN schema -> UNION {Cell(j) : j \in DOMAIN schema}]
             new == [j \in DOMAIN schema |-> columns[j].cells[row + 1]]
  <1>9. new \in R
    <2> SUFFICES ASSUME NEW j \in DOMAIN schema
                 PROVE  columns[j].cells[row + 1] \in UNION {Cell(i) : i \in DOMAIN schema}
      OBVIOUS
    <2>1. PICK cells \in Seq(Cell(j)) : cells = columns[j].cells
      BY <1>1, <1>5 DEF TypeOK
    <2>2. columns[j].size = Cardinality(Kept) /\ columns[j].size <= Len(cells)
      BY <1>1, <1>5, <2>1 DEF ColumnsParallel, TypeOK
    <2>3. row + 1 \in 1 .. Len(cells)
      BY <1>3, <1>6, <2>2
    <2>4. cells[row + 1] \in Cell(j)
      BY <2>3
    <2>5. QED
      BY <2>1, <2>4
  <1>10. rows \in Seq(R) /\ Len(rows) = row
    BY <1>1 DEF TypeOK
  <1> HIDE DEF R, new
  <1>11. /\ rows' \in Seq(R) /\ Len(rows') = row + 1
         /\ rows'[row + 1] = new /\ \A k \in 1 .. row : rows'[k] = rows[k]
    <2>1. rows' = Append(rows, new)
      BY <1>2 DEF new
    <2>2. QED
      BY <1>9, <1>10, <2>1
  <1>12. TypeOK'
    <2>1. \A j : Cell(j)' = Cell(j)
      BY <1>2 DEF Cell
    <2>2. rows' \in Seq([DOMAIN schema' -> UNION {Cell(j)' : j \in DOMAIN schema'}])
          /\ Len(rows') = row'
      BY <1>2, <1>11, <2>1 DEF R
    <2>3. row' \in 0 .. Len(file') /\ seen' \in Nat
      BY <1>2, <1>3, <1>6
    <2>4. QED
      BY <1>1, <1>2, <2>1, <2>2, <2>3 DEF TypeOK
  <1>13. WriterBehind'
    <2>1. seen' = row' * Len(schema)
      BY <1>2, <1>3, <1>4
    <2>2. \A k \in 1 .. row' : rows'[k] = [j \in DOMAIN schema |-> columns[j].cells[k]]
      <3> SUFFICES ASSUME NEW k \in 1 .. row'
                   PROVE  rows'[k] = [j \in DOMAIN schema |-> columns[j].cells[k]]
        OBVIOUS
      <3>1. CASE k = row + 1
        BY <1>11, <3>1 DEF new
      <3>2. CASE k # row + 1
        <4>1. k \in 1 .. row
          BY <1>2, <1>3, <3>2
        <4>2. QED
          BY <1>4, <1>11, <4>1
      <3>3. QED
        BY <3>1, <3>2
    <2>3. pc' = "write" /\ next' = Len(file') + 1 /\ schema' # <<>> /\ row' <= Cardinality(Kept')
      BY <1>2, <1>4, <1>6, <1>7
    <2>4. \A k \in 1 .. row' : rows'[k] = [j \in DOMAIN schema' |-> columns'[j].cells[k]]
      BY <1>2, <2>2
    <2>5. seen' = row' * Len(schema')
      BY <1>2, <2>1
    <2>6. QED
      BY <2>3, <2>4, <2>5 DEF WriterBehind
  <1>14. QED
    BY <1>8, <1>12, <1>13 DEF IndInv

-----------------------------------------------------------------------------
(* The theorems *)

\* The invariant holds in every state.
THEOREM IndInvHolds == Spec => []IndInv
  <1>1. Init => IndInv
    BY InitInv
  <1>2. IndInv /\ [Next]_vars => IndInv'
    <2> SUFFICES ASSUME IndInv, [Next]_vars PROVE IndInv'
      OBVIOUS
    <2>1. CASE Next
      BY <2>1, ParseKeeps, StartColumnsKeeps, AddRowKeeps, DropRowKeeps, WriterKeeps, VisitRowKeeps
      DEF Next
    <2>2. CASE UNCHANGED vars
      <3>1. UNCHANGED <<file, pc, next, schema, columns, row, seen, rows>>
        BY <2>2 DEF vars
      <3>2. TypeOK'
        <4>1. \A j : Cell(j)' = Cell(j)
          BY <3>1 DEF Cell
        <4>2. QED
          BY <3>1, <4>1 DEF IndInv, TypeOK
      <3>3. SchemaJoins'
        BY <3>1 DEF IndInv, SchemaJoins, Read, TypeAt
      <3>4. Kept' = Kept
        BY <3>1 DEF Kept, IsValid
      <3>5. ColumnsParallel'
        BY <3>1, <3>4 DEF IndInv, ColumnsParallel, Rank
      <3>6. NothingYet' /\ WriterBehind'
        BY <3>1, <3>4 DEF IndInv, NothingYet, WriterBehind
      <3>7. QED
        BY <3>2, <3>3, <3>5, <3>6 DEF IndInv
    <2>3. QED
      BY <2>1, <2>2
  <1>3. QED
    BY <1>1, <1>2, PTL DEF Spec

\* The largest of a set, if one is.
LEMMA MaxIs ==
  ASSUME NEW S \in SUBSET Int, NEW x \in S, \A y \in S : y <= x
  PROVE  Max(S) = x
  <1>1. \A y \in S : x >= y
    OBVIOUS
  <1>2. ASSUME NEW z \in S, \A y \in S : z >= y
        PROVE  z = x
    BY <1>2
  <1>3. QED
    BY <1>1, <1>2 DEF Max

\* The schema that is used is the join of the sample, for every file and every size of the sample
\* (sorer_helper.h, parse_schema).
THEOREM SchemaIsTheJoin == Spec => []SchemaIsJoin
  <1>1. IndInv => SchemaIsJoin
    <2> SUFFICES ASSUME IndInv, pc # "schema" PROVE SchemaIsJoin
      BY DEF SchemaIsJoin
    <2>1. /\ file \in Files /\ schema \in Seq(1 .. 4) /\ SchemaJoins /\ Read = Sample
      BY DEF IndInv, TypeOK, Read, Sample
    <2>2. \A l \in Sample : /\ l \in DOMAIN file /\ Len(file[l]) \in Nat
                            /\ \A j \in DOMAIN file[l] : TypeAt(l, j) \in 1 .. 4
      BY <2>1, FileTypes DEF Sample
    <2>3. Len(schema) = Max({0} \cup {Len(file[l]) : l \in Sample})
      <3> DEFINE S == {0} \cup {Len(file[l]) : l \in Sample}
      <3>1. S \in SUBSET Int
        BY <2>2
      <3>2. Len(schema) \in S
        BY <2>1 DEF SchemaJoins
      <3>3. \A y \in S : y <= Len(schema)
        BY <2>1 DEF SchemaJoins
      <3> HIDE DEF S
      <3>4. Max(S) = Len(schema)
        BY <3>1, <3>2, <3>3, MaxIs
      <3>5. QED
        BY <3>4 DEF S
    <2>4. ASSUME NEW j \in DOMAIN schema
          PROVE  schema[j] =
                   Max({FieldType[file[l][j]] : l \in {m \in Sample : j \in DOMAIN file[m]}})
      <3> DEFINE S == {TypeAt(l, j) : l \in {m \in Sample : j \in DOMAIN file[m]}}
      <3>1. S \in SUBSET Int
        BY <2>2
      <3>2. schema[j] \in S
        BY <2>1 DEF SchemaJoins
      <3>3. \A y \in S : y <= schema[j]
        BY <2>1 DEF SchemaJoins
      <3>4. S = {FieldType[file[l][j]] : l \in {m \in Sample : j \in DOMAIN file[m]}}
        BY DEF TypeAt
      <3> HIDE DEF S
      <3>5. Max(S) = schema[j]
        BY <3>1, <3>2, <3>3, MaxIs
      <3>6. QED
        BY <3>4, <3>5
    <2>5. QED
      BY <2>3, <2>4 DEF SchemaIsJoin
  <1>2. QED
    BY <1>1, IndInvHolds, PTL

\* The row at the rank of a line that was kept holds the fields of that line.
LEMMA WrittenRows ==
  ASSUME IndInv, pc = "done"
  PROVE  /\ Len(rows) = Cardinality(Kept)
         /\ \A l \in Kept : /\ Rank(l) \in DOMAIN rows
                            /\ rows[Rank(l)] = [j \in DOMAIN schema |-> Place(l, j)]
  <1>1. TypeOK /\ ColumnsParallel /\ WriterBehind
    BY DEF IndInv
  <1>2. /\ row = Cardinality(Kept) /\ Len(rows) = row /\ DOMAIN columns = DOMAIN schema
        /\ DOMAIN rows = 1 .. Len(rows)
        /\ \A k \in 1 .. row : rows[k] = [j \in DOMAIN schema |-> columns[j].cells[k]]
    BY <1>1 DEF WriterBehind, TypeOK
  <1>3. ASSUME NEW l \in Kept
        PROVE  /\ Rank(l) \in DOMAIN rows
               /\ rows[Rank(l)] = [j \in DOMAIN schema |-> Place(l, j)]
    <2>1. Rank(l) \in 1 .. row
      BY <1>1, <1>2, KeptLines
    <2>2. \A j \in DOMAIN schema : columns[j].cells[Rank(l)] = Place(l, j)
      BY <1>1, <1>2 DEF ColumnsParallel
    <2>3. QED
      BY <1>2, <2>1, <2>2
  <1>4. QED
    BY <1>2, <1>3

\* The columns stay parallel, and the dataframe gets the lines that fit the schema, each once and
\* in order (sorer_helper.h, make_columnar; sorwriter.h, visit).
THEOREM RowsAreTheLines == Spec => []RowsAreLines
  <1>1. IndInv => RowsAreLines
    BY WrittenRows DEF IndInv, ColumnsParallel, RowsAreLines
  <1>2. QED
    BY <1>1, IndInvHolds, PTL

\* A line of the sample is lost only if it has too few fields (sorer_helper.h, is_valid_row).
THEOREM OnlyNarrowLost == Spec => []OnlyNarrowDropped
  <1>1. ASSUME IndInv PROVE OnlyNarrowDropped
    <2> SUFFICES ASSUME pc = "done", Len(file) <= SchemaRows, NEW l \in DOMAIN file,
                        Len(file[l]) = Len(schema)
                 PROVE  \E k \in DOMAIN rows : rows[k][1].line = l
      BY DEF OnlyNarrowDropped
    <2>1. /\ file \in Files /\ schema \in Seq(1 .. 4) /\ SchemaJoins
          /\ next = Len(file) + 1 /\ schema # <<>>
      BY <1>1 DEF IndInv, TypeOK, WriterBehind
    <2>2. /\ Len(file) \in Nat /\ DOMAIN file = 1 .. Len(file) /\ l \in 1 .. next - 1
          /\ DOMAIN file[l] = DOMAIN schema
      BY <2>1, FileTypes
    <2>3. l \in Read
      BY <2>2, SorerAssumption DEF Read
    <2>4. IsValid(file[l])
      BY <2>1, <2>2, <2>3 DEF SchemaJoins, IsValid, TypeAt
    <2>5. l \in Kept /\ 1 \in DOMAIN schema
      BY <2>1, <2>2, <2>4 DEF Kept
    <2>6. Rank(l) \in DOMAIN rows /\ rows[Rank(l)][1] = Place(l, 1)
      BY <1>1, <2>5, WrittenRows
    <2>7. QED
      BY <2>6 DEF Place
  <1>2. QED
    BY <1>1, IndInvHolds, PTL
=============================================================================
