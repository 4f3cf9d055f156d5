--------------------------------- MODULE Sorer ---------------------------------
(***************************************************************************)
(* Reading a .sor file: Sorer infers the schema from the first lines, then  *)
(* makes an array of fields for each column of the lines that fit the       *)
(* schema, and SorWriter writes the rows of a dataframe from those.         *)
(*                                                                          *)
(* A line is the sequence of the kinds of its fields, and what is kept of a *)
(* field is its place in the file; how its value is read is left out.       *)
(* Every line but a blank one has a field.                                  *)
(***************************************************************************)
EXTENDS Integers, Sequences, FiniteSetsExt

CONSTANTS
  Files,       \* the files to read: sequences of lines
  SchemaRows,  \* the lines that the schema is inferred from (500)
  InitCap      \* the first capacity of a FieldArray (4)

\* The type that parse_field_type gives to a field, as the number of its DataType: missing
\* fields and those with spaces but no quotes count as Booleans.
FieldType == [missing |-> 1, spaced |-> 1, bool |-> 1, int |-> 2, float |-> 3, string |-> 4]

Kinds == DOMAIN FieldType

ASSUME SorerAssumption ==
  /\ Files \subseteq Seq(Seq(Kinds))
  /\ SchemaRows \in Nat \ {0} /\ InitCap \in Nat \ {0}

\* Where a field is, and what a cell of an array holds before it is written.
Place(line, col) == [line |-> line, col |-> col]
Unset == Place(0, 0)

VARIABLES
  file,     \* the lines of the file
  pc,       \* what is done: "schema", "columns", "write", "done"
  next,     \* the line that the parser is at (start)
  schema,   \* the types inferred so far
  columns,  \* columnar: the FieldArray of each column
  row,      \* row_ of SorWriter
  seen,     \* seen_
  rows      \* the rows that it wrote

vars == <<file, pc, next, schema, columns, row, seen, rows>>

Init ==
  /\ file \in Files
  /\ pc = "schema" /\ next = 1
  /\ schema = <<>> /\ columns = <<>>
  /\ row = 0 /\ seen = 0 /\ rows = <<>>

Types(line) == [j \in DOMAIN line |-> FieldType[line[j]]]
Wider(a, b) == IF a < b THEN b ELSE a

-----------------------------------------------------------------------------
(* parse_schema *)

\* A mutant: a row that is longer than those before does not add columns.
WidenedSame(types, line) ==
  [j \in DOMAIN types |-> IF j \in DOMAIN line THEN Wider(types[j], line[j]) ELSE types[j]]

\* A column takes the larger type; a longer row adds the types of its columns.
Widened(types, line) ==
  [j \in 1 .. Wider(Len(types), Len(line)) |->
     CASE j > Len(types) -> line[j]
       [] j > Len(line)  -> types[j]
       [] OTHER          -> Wider(types[j], line[j])]

SchemaLeft == next <= Len(file) /\ next <= SchemaRows

ParseRowSchema ==
  /\ pc = "schema" /\ SchemaLeft
  /\ schema' = Widened(schema, Types(file[next]))
  /\ next' = next + 1
  /\ UNCHANGED <<file, pc, columns, row, seen, rows>>

NewArray == [size |-> 0, cells |-> [k \in 1 .. InitCap |-> Unset]]

\* The schema is known: make_columnar starts with empty arrays at the first line.
StartColumns ==
  /\ pc = "schema" /\ ~SchemaLeft
  /\ pc' = "columns" /\ next' = 1
  /\ columns' = [j \in DOMAIN schema |-> NewArray]
  /\ UNCHANGED <<file, schema, row, seen, rows>>

-----------------------------------------------------------------------------
(* FieldArray and make_columnar *)

\* A mutant: resize_ copies one field less.
ResizedShort(array) ==
  LET cap == Len(array.cells) IN
  [array EXCEPT !.cells = [k \in 1 .. 2 * cap |-> IF k < cap THEN array.cells[k] ELSE Unset]]

\* resize_
Resized(array) ==
  LET cap == Len(array.cells) IN
  [array EXCEPT !.cells = [k \in 1 .. 2 * cap |-> IF k <= cap THEN array.cells[k] ELSE Unset]]

\* pushBack
PushBack(array, place) ==
  LET fit == IF array.size = Len(array.cells) THEN Resized(array) ELSE array IN
  [size |-> array.size + 1, cells |-> [fit.cells EXCEPT ![array.size + 1] = place]]

\* A mutant: a type must be the one of the schema.
IsValidSame(line) == Types(line) = schema

\* is_valid_row: as many fields as the schema has, none of a larger type.
IsValid(line) ==
  /\ Len(line) = Len(schema)
  /\ \A j \in DOMAIN line : FieldType[line[j]] <= schema[j]

\* At a blank line make_columnar stays for ever: start does not move (sorer_helper.h:310).
AtRow == pc = "columns" /\ next <= Len(file) /\ file[next] # <<>>

AddRow ==
  /\ AtRow /\ IsValid(file[next])
  /\ columns' = [j \in DOMAIN columns |-> PushBack(columns[j], Place(next, j))]
  /\ next' = next + 1
  /\ UNCHANGED <<file, pc, schema, row, seen, rows>>

DropRow ==
  /\ AtRow /\ ~IsValid(file[next])
  /\ next' = next + 1
  /\ UNCHANGED <<file, pc, schema, columns, row, seen, rows>>

-----------------------------------------------------------------------------
(* SorWriter *)

\* The constructor looks at the first column: without one it reads what is not there.
StartWriter ==
  /\ pc = "columns" /\ next > Len(file)
  /\ schema # <<>>
  /\ pc' = "write"
  /\ UNCHANGED <<file, next, schema, columns, row, seen, rows>>

\* done: every element was seen.
WriterDone == seen = columns[1].size * Len(schema)

\* visit: one field of every column, then next.
VisitRow ==
  /\ pc = "write" /\ ~WriterDone
  /\ rows' = Append(rows, [j \in DOMAIN schema |-> columns[j].cells[row + 1]])
  /\ seen' = seen + Len(schema)
  /\ row' = row + 1
  /\ UNCHANGED <<file, pc, next, schema, columns>>

Finish ==
  /\ pc = "write" /\ WriterDone
  /\ pc' = "done"
  /\ UNCHANGED <<file, next, schema, columns, row, seen, rows>>

Next ==
  \/ ParseRowSchema \/ StartColumns \/ AddRow \/ DropRow
  \/ StartWriter \/ VisitRow \/ Finish

Spec == Init /\ [][Next]_vars

-----------------------------------------------------------------------------
(* Properties *)

\* What a cell of the array of column j holds.
Cell(j) == {Unset} \cup {Place(l, j) : l \in DOMAIN file}

\* Every variable holds what the code's declarations allow; no field is written behind
\* the end of its array.
TypeOK ==
  /\ file \in Files
  /\ pc \in {"schema", "columns", "write", "done"}
  /\ next \in 1 .. Len(file) + 1
  /\ schema \in Seq(1 .. 4)
  /\ DOMAIN columns = IF pc = "schema" THEN {} ELSE DOMAIN schema
  /\ \A j \in DOMAIN columns :
       /\ columns[j] \in [size : Nat, cells : Seq(Cell(j))]
       /\ columns[j].size <= Len(columns[j].cells)
  /\ row \in 0 .. Len(file) /\ seen \in Nat
  /\ rows \in Seq([DOMAIN schema -> UNION {Cell(j) : j \in DOMAIN schema}]) /\ Len(rows) = row

\* The lines that the schema is inferred from.
Sample == {l \in DOMAIN file : l <= SchemaRows}

\* The schema is as long as the longest of these lines, and each column has the largest
\* type of its fields in them, whatever the order of the lines (sorer_helper.h:169-171
\* "INVARIANT: the result TypesArray always stores the correct schema").
SchemaIsJoin ==
  pc # "schema" =>
    /\ Len(schema) = Max({0} \cup {Len(file[l]) : l \in Sample})
    /\ \A j \in DOMAIN schema :
         schema[j] = Max({FieldType[file[l][j]] : l \in {m \in Sample : j \in DOMAIN file[m]}})

\* The lines passed so far that fit the schema, and how many of them are not behind line l.
Kept == {l \in 1 .. next - 1 : IsValid(file[l])}
Rank(l) == Cardinality({m \in Kept : m <= l})

\* All columns stay parallel while they grow: field k of each comes from the k-th line
\* that was kept (field_array.h:27-29, for the arrays of all columns); so the dataframe
\* gets the lines that were kept, each once and in order, and no row that mixes lines.
RowsAreLines ==
  /\ TypeOK
  /\ pc # "schema" => \A j \in DOMAIN columns :
       /\ columns[j].size = Cardinality(Kept)
       /\ \A l \in Kept : columns[j].cells[Rank(l)] = Place(l, j)
  /\ pc = "done" =>
       /\ Len(rows) = Cardinality(Kept)
       /\ \A l \in Kept : rows[Rank(l)] = [j \in DOMAIN schema |-> Place(l, j)]

\* Of a file that is no longer than the sample only lines with too few fields are lost:
\* a type can be too large for the schema only behind the sample.
OnlyNarrowDropped ==
  pc = "done" /\ Len(file) <= SchemaRows =>
    \A l \in DOMAIN file : Len(file[l]) = Len(schema) => \E k \in DOMAIN rows : rows[k][1].line = l

=============================================================================
