------------------------------ MODULE MCKVStore ------------------------------
(* Instances of KVStore for TLC. *)
EXTENDS KVStore, TLC

CONSTANTS k1, k2

Keys1 == {k1}
Keys2 == {k1, k2}

\* Two nodes, k1 on the server and k2 on the other, both read and written by all.
HomeBoth    == k1 :> 0 @@ k2 :> 1
AllNodes    == k1 :> Nodes @@ k2 :> Nodes
HomeServer  == k1 :> 0
AllOfK1     == k1 :> Nodes
TwoPutK1    == k1 :> {0, 1}
ServerPutsK1 == k1 :> {0}
ClientsGetK1 == k1 :> Nodes \ {0}
=============================================================================
