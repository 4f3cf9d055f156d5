-------------------------------- MODULE MCSorer --------------------------------
(* An instance of Sorer for TLC. *)
EXTENDS Sorer

Lines == UNION {[1 .. width -> {"missing", "int", "string"}] : width \in 0 .. 2}

\* Every file of up to three lines, blank ones among them.
SmallFiles == UNION {[1 .. len -> Lines] : len \in 0 .. 3}
=============================================================================
