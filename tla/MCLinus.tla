-------------------------------- MODULE MCLinus --------------------------------
(* Instances of Linus for TLC. *)
EXTENDS Linus

Commit(p, u) == [pid |-> p, uid |-> u]

\* Every table of up to four commits to two projects by three users.
SmallTables == UNION {[1 .. len -> {Commit(p, u) : p \in 0 .. 1, u \in 0 .. 2}] : len \in 0 .. 4}
=============================================================================
