------------------------------ MODULE MCWordCount ------------------------------
(* Instances of WordCount for TLC. *)
EXTENDS WordCount

Letters == {"a", "b"}

\* Every file of up to seven characters whose words and runs of spaces fit the buffer.
SmallFiles == {f \in UNION {[1 .. len -> Letters \cup {" "}] : len \in 0 .. 7} : Fits(f)}

\* a and the words that begin with it are in one bucket.
FirstLetter(word) == IF word[1] = "a" THEN 0 ELSE 1
=============================================================================
