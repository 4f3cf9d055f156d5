----------------------------- MODULE SharedStore -----------------------------
(***************************************************************************)
(* What the stores promise the applications, without messages, caches or   *)
(* threads: one shared map.  A put of a key that lives elsewhere takes     *)
(* effect later, the puts of one node at one home in the order of the      *)
(* calls.  A blocking get takes the value its key has at one moment        *)
(* between its call and its return, after every put of its own node to the *)
(* same home.                                                              *)
(***************************************************************************)
EXTENDS Integers

CONSTANTS Nodes, Keys, Home, Value, NoKey, NoValue,
          Calls   \* the numbers of the calls that one node makes

VARIABLES
  map,      \* map[k]: the value of k, or NoValue
  puts,     \* puts[n][h]: the puts of node n that home h has not taken yet, each with
            \* the number of its call
  getting,  \* getting[n]: the key of the get that n is in, or NoKey
  taken,    \* taken[n]: the value this get has taken, or NoValue
  returned  \* returned[n]: the key and the value of the last get of n

svars == <<map, puts, getting, taken, returned>>

Pair == [key : Keys, val : Value]

SInit ==
  /\ map = [k \in Keys |-> NoValue]
  /\ puts = [n \in Nodes |-> [h \in Nodes |-> {}]]
  /\ getting = [n \in Nodes |-> NoKey]
  /\ taken = [n \in Nodes |-> NoValue]
  /\ returned = [n \in Nodes |-> [key |-> NoKey, val |-> NoValue]]

\* A put by the home of the key takes effect at once.
PutHere(n, p) ==
  /\ getting[n] = NoKey
  /\ Home[p.key] = n
  /\ map' = [map EXCEPT ![p.key] = p.val]
  /\ UNCHANGED <<puts, getting, taken, returned>>

\* Any other put is on its way, behind the earlier ones ...
PutThere(n, p) ==
  /\ getting[n] = NoKey
  /\ Home[p.key] # n
  /\ \E i \in Calls :
       /\ \A q \in puts[n][Home[p.key]] : q.num < i
       /\ puts' = [puts EXCEPT ![n][Home[p.key]] =
                     @ \cup {[num |-> i, key |-> p.key, val |-> p.val]}]
  /\ UNCHANGED <<map, getting, taken, returned>>

\* ... until the home takes it.
PutArrives(n, h) ==
  \E p \in puts[n][h] :
    /\ \A q \in puts[n][h] : p.num <= q.num
    /\ map' = [map EXCEPT ![p.key] = p.val]
    /\ puts' = [puts EXCEPT ![n][h] = @ \ {p}]
    /\ UNCHANGED <<getting, taken, returned>>

GetCalled(n, k) ==
  /\ getting[n] = NoKey
  /\ getting' = [getting EXCEPT ![n] = k]
  /\ UNCHANGED <<map, puts, taken, returned>>

\* The moment at which the get of n reads the map.
GetTakes(n) ==
  LET k == getting[n] IN
  /\ k # NoKey /\ taken[n] = NoValue
  /\ map[k] # NoValue
  /\ puts[n][Home[k]] = {}
  /\ taken' = [taken EXCEPT ![n] = map[k]]
  /\ UNCHANGED <<map, puts, getting, returned>>

GetReturns(n) ==
  /\ taken[n] # NoValue
  /\ returned' = [returned EXCEPT ![n] = [key |-> getting[n], val |-> taken[n]]]
  /\ getting' = [getting EXCEPT ![n] = NoKey]
  /\ taken' = [taken EXCEPT ![n] = NoValue]
  /\ UNCHANGED <<map, puts>>

\* A get at the home of the key reads the map and returns in one step.
GetHere(n) ==
  LET k == getting[n] IN
  /\ k # NoKey /\ Home[k] = n
  /\ map[k] # NoValue
  /\ returned' = [returned EXCEPT ![n] = [key |-> k, val |-> map[k]]]
  /\ getting' = [getting EXCEPT ![n] = NoKey]
  /\ UNCHANGED <<map, puts, taken>>

SNext ==
  \E n \in Nodes :
    \/ \E p \in Pair : PutHere(n, p) \/ PutThere(n, p)
    \/ \E h \in Nodes : PutArrives(n, h)
    \/ \E k \in Keys : GetCalled(n, k)
    \/ GetTakes(n) \/ GetReturns(n) \/ GetHere(n)

SSpec == SInit /\ [][SNext]_svars
=============================================================================
