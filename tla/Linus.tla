--------------------------------- MODULE Linus ---------------------------------
(***************************************************************************)
(* The Linus application: which users and projects are within DEGREES       *)
(* degrees of separation of Linus.  Every node tags the rows of commits     *)
(* that it keeps, and in every stage node 0 merges what the nodes found,    *)
(* first the projects, then the users.                                      *)
(*                                                                          *)
(* Of the store the application uses what SharedStore promises, and of that *)
(* only put and waitAndGet; the dataframe of a Set is the set.  A put that  *)
(* is late on its way is a waitAndGet that waits longer.                    *)
(***************************************************************************)
EXTENDS Integers, Sequences, FiniteSets

CONSTANTS
  NumNodes,     \* args.numNodes
  NumProjects,  \* rows of projects, which is the size of a Set of projects
  NumUsers,     \* rows of users
  LinusId,      \* LINUS
  Degrees,      \* DEGREES
  BlockSize,    \* args.blockSize
  Tables        \* the commits to start from: sequences of [pid, uid]

ASSUME LinusAssumption ==
  /\ NumNodes \in Nat \ {0} /\ BlockSize \in Nat \ {0}
  /\ NumProjects \in Nat /\ NumUsers \in Nat /\ Degrees \in Nat
  /\ LinusId \in Nat
  /\ \A table \in Tables : table \in Seq([pid : Nat, uid : Nat])

Nodes    == 0 .. NumNodes - 1
Pids     == 0 .. NumProjects - 1
Uids     == 0 .. NumUsers - 1
Names    == {"projects", "users"}

\* The keys name-stage-node; name-stage-0 is the one of the merged set.
Keys == Names \X (0 .. Degrees) \X Nodes

VARIABLES
  commits,  \* the dataframe commits
  pc,       \* pc[n]: where node n is in run_, step and merge
  stage,    \* stage[n]: the stage it is in
  name,     \* name[n]: the set it merges
  from,     \* from[n]: the node whose delta node 0 waits for next (i in merge)
  pSet,     \* pSet[n]
  uSet,     \* uSet[n]
  newP,     \* newP[n]: ptagger.newProjects
  newU,     \* newU[n]: utagger.newUsers
  store,    \* store[k]: the set in the dataframe of key k, once it was put
  put       \* the keys that were put

vars == <<commits, pc, stage, name, from, pSet, uSet, newP, newU, store, put>>

Init ==
  /\ commits \in Tables
  /\ pc = [n \in Nodes |-> "read"]
  /\ stage = [n \in Nodes |-> 0]
  /\ name = [n \in Nodes |-> "projects"]
  /\ from = [n \in Nodes |-> 1]
  /\ pSet = [n \in Nodes |-> {}] /\ uSet = [n \in Nodes |-> {}]
  /\ newP = [n \in Nodes |-> {}] /\ newU = [n \in Nodes |-> {}]
  /\ store = [k \in Keys |-> {}] /\ put = {}

-----------------------------------------------------------------------------
(* Sets and taggers *)

\* Set::test; all are the indices of the set, and any other index is in it.
Test(ids, idx, all) == idx \notin all \/ idx \in ids

\* A mutant: a node has one block and no more.
LocalOnce(n) == {r \in DOMAIN commits : (r - 1) \div BlockSize = n}

\* The rows of commits that local_map shows to node n.
Local(n) == {r \in DOMAIN commits : ((r - 1) \div BlockSize) % NumNodes = n}

\* ProjectsTagger: the projects in those rows with an author in delta, unless pSet has them.
ProjectsTagged(n, delta) ==
  {p \in Pids \ pSet[n] :
     \E r \in Local(n) : commits[r].pid = p /\ Test(delta, commits[r].uid, Uids)}

\* UsersTagger: the authors in those rows of a project in tagged, unless uSet has them.
UsersTagged(n, tagged) ==
  {u \in Uids \ uSet[n] :
     \E r \in Local(n) : commits[r].uid = u /\ Test(tagged, commits[r].pid, Pids)}

-----------------------------------------------------------------------------
(* run_ and step *)

Goto(n, label) == pc' = [pc EXCEPT ![n] = label]
Put(k, ids)    == store' = [store EXCEPT ![k] = ids] /\ put' = put \cup {k}

\* Node 0 puts the three dataframes and the set of Linus alone.
ReadInput ==
  /\ pc[0] = "read"
  /\ Put(<<"users", 0, 0>>, {LinusId})
  /\ Goto(0, "step")
  /\ UNCHANGED <<commits, stage, name, from, pSet, uSet, newP, newU>>

\* The others wait for the dataframes.
AwaitInput(n) ==
  /\ n # 0 /\ pc[n] = "read"
  /\ <<"users", 0, 0>> \in put
  /\ Goto(n, "step")
  /\ UNCHANGED <<commits, stage, name, from, pSet, uSet, newP, newU, store, put>>

\* The loop of run_ has a step left.
MoreSteps(n) == stage[n] < Degrees

\* step: wait for the users of the last stage, tag their projects in this node's rows.
Step(n) ==
  LET key == <<"users", stage[n], 0>>
      new == ProjectsTagged(n, store[key] \cap Uids) IN
  /\ pc[n] = "step" /\ MoreSteps(n)
  /\ key \in put
  /\ newP' = [newP EXCEPT ![n] = new]
  /\ pSet' = [pSet EXCEPT ![n] = @ \cup new]
  /\ name' = [name EXCEPT ![n] = "projects"]
  /\ from' = [from EXCEPT ![n] = 1]
  /\ Goto(n, "merge")
  /\ UNCHANGED <<commits, stage, uSet, newU, store, put>>

\* run_ has made all its steps.
Finish(n) ==
  /\ pc[n] = "step" /\ ~MoreSteps(n)
  /\ Goto(n, "done")
  /\ UNCHANGED <<commits, stage, name, from, pSet, uSet, newP, newU, store, put>>

\* The projects are merged into set: keep them, tag the users of this node's rows.
ProjectsMerged(n, set) ==
  LET new == UsersTagged(n, set) IN
  /\ name[n] = "projects" /\ name' = [name EXCEPT ![n] = "users"]
  /\ newP' = [newP EXCEPT ![n] = set]
  /\ pSet' = [pSet EXCEPT ![n] = @ \cup set]
  /\ newU' = [newU EXCEPT ![n] = new]
  /\ uSet' = [uSet EXCEPT ![n] = @ \cup new]
  /\ from' = [from EXCEPT ![n] = 1]
  /\ Goto(n, "merge")
  /\ UNCHANGED <<commits, stage>>

\* The users are merged into set: keep them and go to the next stage.
UsersMerged(n, set) ==
  /\ name[n] = "users"
  /\ newU' = [newU EXCEPT ![n] = set]
  /\ uSet' = [uSet EXCEPT ![n] = @ \cup set]
  /\ stage' = [stage EXCEPT ![n] = @ + 1]
  /\ Goto(n, "step")
  /\ UNCHANGED <<commits, name, from, pSet, newP>>

Merged(n, set) == ProjectsMerged(n, set) \/ UsersMerged(n, set)

-----------------------------------------------------------------------------
(* merge *)

\* A mutant: the users are put under the stage that found them.
MergeKeySame(n, i) == <<name[n], stage[n], i>>

\* The key of node i in the merge that n is in; the users are those of the next stage.
MergeKey(n, i) == <<name[n], IF name[n] = "users" THEN stage[n] + 1 ELSE stage[n], i>>

Delta(n) == IF name[n] = "projects" THEN newP[n] ELSE newU[n]

\* Node 0 waits for the delta of node from and adds it to its own.
Collect ==
  LET key == MergeKey(0, from[0]) IN
  /\ pc[0] = "merge" /\ from[0] < NumNodes
  /\ key \in put
  /\ \/ /\ name[0] = "projects"
        /\ newP' = [newP EXCEPT ![0] = @ \cup (store[key] \cap Pids)]
        /\ UNCHANGED newU
     \/ /\ name[0] = "users"
        /\ newU' = [newU EXCEPT ![0] = @ \cup (store[key] \cap Uids)]
        /\ UNCHANGED newP
  /\ from' = [from EXCEPT ![0] = @ + 1]
  /\ UNCHANGED <<commits, pc, stage, name, pSet, uSet, store, put>>

\* A mutant: one delta is enough.
SomeCollected == from[0] >= 2

AllCollected == from[0] = NumNodes

\* It has all of them and puts the merged set.
Publish ==
  /\ pc[0] = "merge" /\ AllCollected
  /\ Put(MergeKey(0, 0), Delta(0))
  /\ Merged(0, Delta(0))

\* A mutant: an empty delta is not sent.
SendNonEmpty(n) ==
  /\ n # 0 /\ pc[n] = "merge"
  /\ IF Delta(n) = {} THEN UNCHANGED <<store, put>> ELSE Put(MergeKey(n, n), Delta(n))
  /\ Goto(n, "await")
  /\ UNCHANGED <<commits, stage, name, from, pSet, uSet, newP, newU>>

\* Any other node puts its own delta.
Send(n) ==
  /\ n # 0 /\ pc[n] = "merge"
  /\ Put(MergeKey(n, n), Delta(n))
  /\ Goto(n, "await")
  /\ UNCHANGED <<commits, stage, name, from, pSet, uSet, newP, newU>>

\* It waits for the merged set and adds it to its own.
Receive(n) ==
  LET key == MergeKey(n, 0)
      all == IF name[n] = "projects" THEN Pids ELSE Uids IN
  /\ pc[n] = "await"
  /\ key \in put
  /\ Merged(n, Delta(n) \cup (store[key] \cap all))
  /\ UNCHANGED <<store, put>>

-----------------------------------------------------------------------------
Node(n) == AwaitInput(n) \/ Step(n) \/ Finish(n) \/ Send(n) \/ Receive(n)
Node0   == ReadInput \/ Collect \/ Publish

Next == Node0 \/ \E n \in Nodes : Node(n)

Spec == Init /\ [][Next]_vars

\* A thread that can go on does: every node runs run_ in a thread of its own, and a
\* waitAndGet of a key that was put returns (TeardownCompletes and RemotelyServed of KVStore).
FairSpec == Spec /\ WF_vars(Node0) /\ \A n \in Nodes : WF_vars(Node(n))

-----------------------------------------------------------------------------
(* Properties *)

Labels == {"read", "step", "merge", "await", "done"}

\* Every variable holds what the code's declarations allow: the Sets only indices of
\* their rows, whatever the commits refer to (set.h:49-52).
TypeOK ==
  /\ commits \in Tables
  /\ pc \in [Nodes -> Labels]
  /\ stage \in [Nodes -> 0 .. Degrees]
  /\ name \in [Nodes -> Names]
  /\ from \in [Nodes -> 1 .. NumNodes]
  /\ pSet \in [Nodes -> SUBSET Pids] /\ newP \in [Nodes -> SUBSET Pids]
  /\ uSet \in [Nodes -> SUBSET Uids] /\ newU \in [Nodes -> SUBSET Uids]
  /\ store \in [Keys -> SUBSET Nat] /\ put \subseteq Keys

\* One machine that looks at all the commits: the projects of some users, the authors of
\* some projects, and the users within d degrees.
ProjectsOf(us) == {commits[r].pid : r \in {q \in DOMAIN commits : commits[q].uid \in us}}
AuthorsOf(ps)  == {commits[r].uid : r \in {q \in DOMAIN commits : commits[q].pid \in ps}}
Within(d) ==
  LET near[i \in 0 .. d] ==
        IF i = 0 THEN {LinusId} ELSE near[i - 1] \cup AuthorsOf(ProjectsOf(near[i - 1]))
  IN  near[d]

\* After d stages each node has exactly the projects of the users within d - 1 degrees of
\* Linus, and the authors of those projects, however the rows are spread over the nodes
\* (linus.h:36-37, projectstagger.h:7-14).  The report says that the outputs depend on
\* the number of nodes (doc.md:481-483): not for this reason.
DegreesOfLinus ==
  \A n \in Nodes : pc[n] \in {"step", "done"} /\ stage[n] > 0 =>
    LET ps == ProjectsOf(Within(stage[n] - 1)) IN
    pSet[n] = ps /\ uSet[n] = AuthorsOf(ps)

\* No key is ever put again: a node that waits for a stage cannot read that of another
\* (linus.h:125-129).
PutOnce == [][\A k \in put : store'[k] = store[k] /\ k \in put']_vars

\* No node waits for ever for the delta of another or for the merged set.
Termination == <>(\A n \in Nodes : pc[n] = "done")

-----------------------------------------------------------------------------
(* The inductive invariant: what is in the store, and how far each node is *)

\* The sets are merged in rounds, twice in a stage: the number of the round of a key, and
\* that of the round that node n is in or will enter next.
KeyRound(nm, s) == IF nm = "users" THEN 2 * s - 1 ELSE 2 * s
Merging(n) == pc[n] \in {"merge", "await"}
Round(n) ==
  IF pc[n] = "read" THEN -1
  ELSE IF Merging(n) /\ name[n] = "users" THEN 2 * stage[n] + 1
  ELSE 2 * stage[n]

\* The projects and the users that were merged before stage s, and up to it, in a store.
ProjectsBefore(st, s) == UNION {st[<<"projects", j, 0>>] : j \in 0 .. s - 1}
UsersUpTo(st, s)      == UNION {st[<<"users", j, 0>>] : j \in 1 .. s}

\* What some commits add to those: the projects of stage s, and its users (s > 0).
NewProjects(st, s, cs) ==
  {p \in Pids \ ProjectsBefore(st, s) :
     \E c \in cs : c.pid = p /\ Test(st[<<"users", s, 0>>] \cap Uids, c.uid, Uids)}
NewUsers(st, s, cs) ==
  {u \in Uids \ UsersUpTo(st, s - 1) :
     \E c \in cs : c.uid = u /\ Test(st[<<"projects", s - 1, 0>>], c.pid, Pids)}
New(st, nm, s, cs) == IF nm = "users" THEN NewUsers(st, s, cs) ELSE NewProjects(st, s, cs)

\* The commits in the rows of node n, of the nodes before n, and all.
Rows(n)       == {commits[r] : r \in Local(n)}
RowsBefore(n) == UNION {Rows(i) : i \in 0 .. n - 1}
AllRows       == {commits[r] : r \in DOMAIN commits}

StagesFit ==
  \A n \in Nodes :
    /\ Merging(n) => stage[n] < Degrees
    /\ pc[n] = "await" => n # 0
    /\ pc[n] = "read" => stage[n] = 0 /\ pSet[n] = {} /\ uSet[n] = {}

\* A node has put no key of its own round, unless it waits for the merged set, ...
KeysBehind(n) ==
  \A nm \in Names, s \in 0 .. Degrees : <<nm, s, n>> \in put =>
    /\ n # 0 => KeyRound(nm, s) >= 0
    /\ \/ KeyRound(nm, s) < Round(n)
       \/ pc[n] = "await" /\ KeyRound(nm, s) = Round(n)

\* ... and has waited for the merged sets of all rounds before.
KeysBefore(n) ==
  \A nm \in Names, s \in 0 .. Degrees :
    KeyRound(nm, s) < Round(n) => <<nm, s, 0>> \in put

\* A delta is what the node's own rows add, a merged set what all rows add.
Found(nm, s, n) == IF KeyRound(nm, s) < 0 THEN {LinusId}
                   ELSE New(store, nm, s, IF n = 0 THEN AllRows ELSE Rows(n))
StoreFound(n) ==
  \A nm \in Names, s \in 0 .. Degrees :
    <<nm, s, n>> \in put => store[<<nm, s, n>>] = Found(nm, s, n)

\* The rows whose commits are in the set that node n merges.
Mine(n) == IF n = 0 THEN RowsBefore(from[n]) ELSE Rows(n)

\* The sets of a node are what was merged, and in a round what its own rows add; those
\* of node 0 grow by what the nodes before from add.
SetsFound(n) ==
  /\ pc[n] \in {"step", "done"} =>
       pSet[n] = ProjectsBefore(store, stage[n]) /\ uSet[n] = UsersUpTo(store, stage[n])
  /\ Merging(n) /\ name[n] = "projects" =>
       /\ pSet[n] = ProjectsBefore(store, stage[n]) \cup NewProjects(store, stage[n], Rows(n))
       /\ uSet[n] = UsersUpTo(store, stage[n])
       /\ newP[n] = NewProjects(store, stage[n], Mine(n))
  /\ Merging(n) /\ name[n] = "users" =>
       /\ pSet[n] = ProjectsBefore(store, stage[n] + 1)
       /\ uSet[n] = UsersUpTo(store, stage[n]) \cup NewUsers(store, stage[n] + 1, Rows(n))
       /\ newU[n] = NewUsers(store, stage[n] + 1, Mine(n))

\* The nodes of a stage agree on the store, which is what one machine would have found in
\* every stage from what it found in the one before (linus.h:93-112).
IndInv ==
  /\ TypeOK /\ StagesFit
  /\ \A n \in Nodes : KeysBehind(n) /\ KeysBefore(n) /\ StoreFound(n) /\ SetsFound(n)
=============================================================================
