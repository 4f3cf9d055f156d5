------------------------------ MODULE MCNetwork ------------------------------
(* Instances of Network for TLC *)
EXTENDS Network

\* Distinct hosts with one port, or one host with a port for each node.
HostEach == [n \in 0 .. NumNodes - 1 |-> n]
Same     == [n \in 0 .. NumNodes - 1 |-> 8080]

\* Who sends to whom: clients and the server, or everyone and everyone else.
WithServer == [n \in Nodes |-> IF n = Server THEN Nodes \ {Server} ELSE {Server}]
Everyone   == [n \in Nodes |-> Nodes \ {n}]
=============================================================================
