-------------------------------- MODULE Inbox --------------------------------
(***************************************************************************)
(* What INetwork promises: one first-in first-out inbox per node, to which *)
(* every node may send and from which only its owner receives.  This is    *)
(* the network that KVStore is built on.                                   *)
(***************************************************************************)
EXTENDS Sequences

CONSTANTS Nodes, Letter   \* a letter l is addressed to l.to

VARIABLE inbox

IInit == inbox = [n \in Nodes |-> <<>>]

ISend(l) == inbox' = [inbox EXCEPT ![l.to] = Append(@, l)]

IReceive(n) ==
  /\ inbox[n] # <<>>
  /\ inbox' = [inbox EXCEPT ![n] = Tail(@)]

INext == (\E l \in Letter : ISend(l)) \/ (\E n \in Nodes : IReceive(n))

ISpec == IInit /\ [][INext]_inbox
=============================================================================
