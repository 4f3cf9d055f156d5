---------------------------- MODULE MCDataFrame ----------------------------
(* Scripts of DataFrame for TLC.                                            *)
EXTENDS DataFrame

Op(kind, len) == [op |-> kind, len |-> len]

\* What DataToDf does: one Writer, or one array.
FromData == {<<Op(kind, len)>> : kind \in {"visit", "array"}, len \in {0, 1, 4, 7}}

\* Then columns of the right and of the wrong length.
WithColumns ==
  FromData \cup {<<Op("array", 3), Op("column", 3)>>, <<Op("array", 3), Op("column", 2)>>}
=============================================================================
