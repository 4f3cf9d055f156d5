------------------------------- MODULE FileReader -------------------------------
(***************************************************************************)
(* The FileReader of filereader.h, a Writer that reads a file word by word   *)
(* through a buffer that it refills in place: a word that crosses the end    *)
(* of the buffer is moved to its start.  A step is one iteration of one of   *)
(* the two loops.                                                            *)
(*                                                                           *)
(* What the buffer holds before the first read, and what lies behind it, is  *)
(* whatever was there.  memcpy between overlapping parts moves them.         *)
(***************************************************************************)
EXTENDS Integers, SequencesExt

CONSTANTS
  Files,     \* the files to read: sequences of Chars
  Chars,     \* the characters of a file
  Spaces,    \* those for which isspace holds
  BufSize,   \* BUFSIZE
  Slack,     \* bound: how far behind the buffer a loop may go on
  Nul, Junk  \* the terminator, and a character from behind the buffer

ASSUME FileReaderAssumption ==
  /\ Files \subseteq Seq(Chars) /\ Spaces \subseteq Chars
  /\ BufSize \in Nat \ {0} /\ Slack \in Nat
  /\ {Nul, Junk} \cap Chars = {}

VARIABLES
  file,    \* the whole file
  rest,    \* what fread has not read of it
  eof,     \* feof
  buf,     \* buf_
  i, end,  \* i_, end_
  wStart,  \* wStart of visit
  at,      \* where the code is
  words    \* the words that visit put into rows

readerVars == <<file, rest, eof, buf, i, end, wStart, at, words>>

InitReader ==
  /\ file \in Files /\ rest = file /\ eof = FALSE
  /\ \E c \in Chars : buf = [k \in 0 .. BufSize |-> c]
  /\ i = 0 /\ end = 0 /\ wStart = 0
  /\ at = "open"
  /\ words = <<>>

-----------------------------------------------------------------------------

\* A mutant: what is left in the buffer is not kept.
FillForgetting(first) ==
  LET count == IF BufSize < Len(rest) THEN BufSize ELSE Len(rest) IN
  /\ buf' = [k \in 0 .. BufSize |-> IF k < count THEN rest[k + 1] ELSE buf[k]]
  /\ rest' = SubSeq(rest, count + 1, Len(rest))
  /\ eof' = (eof \/ count < BufSize)
  /\ end' = count
  /\ i' = 0

\* A mutant: fread may read a whole buffer.
FillRoomy(first) ==
  LET start == end - first
      count == IF BufSize < Len(rest) THEN BufSize ELSE Len(rest) IN
  /\ buf' = [k \in 0 .. BufSize |->
               IF k < start THEN buf[first + k]
               ELSE IF k < start + count THEN rest[k - start + 1] ELSE buf[k]]
  /\ rest' = SubSeq(rest, count + 1, Len(rest))
  /\ eof' = (eof \/ count < BufSize)
  /\ end' = start + count
  /\ i' = start

\* fillBuffer_, with i_ = first: what is left goes to the start, and fread reads as
\* much as there is room for behind it.
Fill(first) ==
  LET start == end - first
      room  == BufSize - start
      count == IF room < Len(rest) THEN room ELSE Len(rest) IN
  /\ buf' = [k \in 0 .. BufSize |->
               IF k < start THEN buf[first + k]
               ELSE IF k < start + count THEN rest[k - start + 1] ELSE buf[k]]
  /\ rest' = SubSeq(rest, count + 1, Len(rest))
  /\ eof' = (eof \/ count < room)
  /\ end' = start + count
  /\ i' = start

\* What isspace(buf_[k]) may yield in a loop that goes on while it yields this.
IsSpace(k, while) ==
  IF k <= BufSize THEN {buf[k] \in Spaces}
  ELSE IF k < BufSize + Slack THEN BOOLEAN ELSE {~while}

\* A loop is at its isspace: past the test for the end, or after a refill.
AtTest(loop, refilled) == at = refilled \/ (at = loop /\ i # end)

\* The characters of the buffer from k to the one before l.
Content(k, l) == [j \in 1 .. l - k |-> IF k + j - 1 <= BufSize THEN buf[k + j - 1] ELSE Junk]

-----------------------------------------------------------------------------
(* skipWhitespace_ *)

\* The constructor fills the buffer and skips.
Open ==
  /\ at = "open"
  /\ Fill(0)
  /\ at' = "skip"
  /\ UNCHANGED <<file, wStart, words>>

SkipRefill ==
  /\ at = "skip" /\ i = end /\ ~eof
  /\ Fill(i)
  /\ at' = "space"
  /\ UNCHANGED <<file, wStart, words>>

SkipEnds ==
  /\ \/ at = "skip" /\ i = end /\ eof
     \/ AtTest("skip", "space") /\ FALSE \in IsSpace(i, TRUE)
  /\ at' = "between"
  /\ UNCHANGED <<file, rest, eof, buf, i, end, wStart, words>>

SkipSpace ==
  /\ AtTest("skip", "space")
  /\ TRUE \in IsSpace(i, TRUE)
  /\ i' = i + 1
  /\ at' = "skip"
  /\ UNCHANGED <<file, rest, eof, buf, end, wStart, words>>

-----------------------------------------------------------------------------
(* done and visit *)

Done == i >= end /\ eof

\* DataFrame::visit asks done before every visit.
Visit ==
  /\ at = "between" /\ ~Done
  /\ wStart' = i
  /\ at' = "word"
  /\ UNCHANGED <<file, rest, eof, buf, i, end, words>>

Close ==
  /\ at = "between" /\ Done
  /\ at' = "closed"
  /\ UNCHANGED <<file, rest, eof, buf, i, end, wStart, words>>

WordRefill ==
  /\ at = "word" /\ i = end /\ ~eof
  /\ Fill(wStart)
  /\ wStart' = 0
  /\ at' = "char"
  /\ UNCHANGED <<file, words>>

WordChar ==
  /\ AtTest("word", "char")
  /\ FALSE \in IsSpace(i, FALSE)
  /\ i' = i + 1
  /\ at' = "word"
  /\ UNCHANGED <<file, rest, eof, buf, end, wStart, words>>

\* The word ends before index k, where its terminator goes.
WordEndsAt(k) ==
  /\ buf' = IF k <= BufSize THEN [buf EXCEPT ![k] = Nul] ELSE buf
  /\ words' = Append(words, Content(wStart, k))
  /\ i' = k + 1
  /\ at' = "skip"
  /\ UNCHANGED <<file, rest, eof, end, wStart>>

\* At the end of the file i_ goes one further before the word is taken.
WordEnds ==
  \/ /\ at = "word" /\ i = end /\ eof
     /\ WordEndsAt(i + 1)
  \/ /\ AtTest("word", "char")
     /\ TRUE \in IsSpace(i, FALSE)
     /\ WordEndsAt(i)

ReaderStep ==
  \/ Open \/ SkipRefill \/ SkipEnds \/ SkipSpace
  \/ Visit \/ Close \/ WordRefill \/ WordChar \/ WordEnds

-----------------------------------------------------------------------------
(* Properties *)

\* Where the words of a file begin, which of them begins at k, and that word: all up to
\* the next space.
Starts(f)  == {k \in DOMAIN f : f[k] \notin Spaces /\ (k = 1 \/ f[k - 1] \in Spaces)}
Rank(f, k) == Cardinality({s \in Starts(f) : s <= k})
WordAt(f, k) ==
  LET last == CHOOSE l \in k .. Len(f) :
                /\ \A m \in k .. l : f[m] \notin Spaces
                /\ l = Len(f) \/ f[l + 1] \in Spaces
  IN  SubSeq(f, k, last)

\* The words of a file.
Split(f) ==
  [j \in 1 .. Cardinality(Starts(f)) |-> WordAt(f, CHOOSE k \in Starts(f) : Rank(f, k) = j)]

\* The file ends with a space, or it is empty.
Ended(f) == f = <<>> \/ f[Len(f)] \in Spaces

\* No word and no run of spaces is as long as the buffer.
Fits(f) ==
  \A k \in 0 .. Len(f) - BufSize :
    BOOLEAN = {(f[k + j] \in Spaces) : j \in 1 .. BufSize}

\* The rows are the words of a file that ends with a space, wherever they lie in the
\* buffer; of any other file all but the last are right (filereader.h:37-38 "While
\* reading the word, we may have to re-fill the buffer").
WordsOfFile ==
  at = "closed" /\ Fits(file) =>
    LET right == Split(file) IN
    IF Ended(file) THEN words = right
    ELSE Len(words) = Len(right) /\ Front(words) = Front(right)
         /\ IsPrefix(Last(right), Last(words))

\* The assertions of visit hold: it is not called at the end of the buffer nor at a
\* space (filereader.h:41-42); and no index leaves the buffer while the file has words
\* that fit it and ends with a space.
ReaderSound ==
  Fits(file) =>
    /\ at = "between" /\ ~Done => i < end /\ buf[i] \notin Spaces
    /\ Ended(file) => i <= BufSize
=============================================================================
