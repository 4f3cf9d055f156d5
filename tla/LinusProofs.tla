------------------------------ MODULE LinusProofs ------------------------------
(***************************************************************************)
(* Proofs, for any number of nodes, stages and rows and any commits, that   *)
(* no key of the Linus application is put twice, that the nodes agree after *)
(* every stage, and that a stage finds what one machine would find.         *)
(***************************************************************************)
EXTENDS Linus, NaturalsInduction, WellFoundedInduction, TLAPS

-----------------------------------------------------------------------------
(* Keys, rounds and what is new in a store *)

\* Nodes are numbered from 0, and node 0 is one of them.
LEMMA NodesFacts == 0 \in Nodes /\ Nodes \subseteq Nat /\ \A n \in Nodes : n < NumNodes
  BY LinusAssumption DEF Nodes

\* Rounds are numbers.
LEMMA RoundsAreInts ==
  /\ \A nm \in Names, s \in 0 .. Degrees : KeyRound(nm, s) \in Int
  /\ TypeOK => \A n \in Nodes : Round(n) \in Int
  <1>1. Degrees \in Nat
    BY LinusAssumption
  <1>2. \A nm \in Names, s \in 0 .. Degrees : KeyRound(nm, s) \in Int
    BY <1>1 DEF KeyRound
  <1>3. ASSUME TypeOK, NEW n \in Nodes
        PROVE  Round(n) \in Int
    <2>1. stage[n] \in 0 .. Degrees
      BY <1>3 DEF TypeOK
    <2>2. QED
      BY <1>1, <2>1 DEF Round
  <1>4. QED
    BY <1>2, <1>3

\* A node puts the keys of the round it is in.
LEMMA MergeKeyRound ==
  ASSUME TypeOK, StagesFit, NEW n \in Nodes, Merging(n), NEW i \in Nodes
  PROVE  \E s \in 0 .. Degrees :
           /\ MergeKey(n, i) = <<name[n], s, i>> /\ MergeKey(n, i) \in Keys
           /\ name[n] \in Names
           /\ s = (IF name[n] = "users" THEN stage[n] + 1 ELSE stage[n])
           /\ KeyRound(name[n], s) = Round(n) /\ KeyRound(name[n], s) >= 0
  <1>1. stage[n] \in 0 .. Degrees /\ stage[n] < Degrees /\ name[n] \in Names /\ pc[n] # "read"
    BY DEF TypeOK, StagesFit, Merging
  <1> DEFINE s == IF name[n] = "users" THEN stage[n] + 1 ELSE stage[n]
  <1>2. s \in 0 .. Degrees
    BY <1>1, LinusAssumption
  <1>3. MergeKey(n, i) = <<name[n], s, i>>
    BY DEF MergeKey
  <1>4. MergeKey(n, i) \in Keys
    BY <1>1, <1>2, <1>3 DEF Keys
  <1>5. KeyRound(name[n], s) = Round(n) /\ KeyRound(name[n], s) >= 0
    BY <1>1, <1>2, LinusAssumption DEF KeyRound, Round
  <1>6. QED
    BY <1>1, <1>2, <1>3, <1>4, <1>5

\* Stores with the same merged sets of the rounds before a round have the same sets there.
LEMMA BeforeSame ==
  ASSUME NEW st1, NEW st2, NEW s \in 0 .. Degrees,
         \A t \in 0 .. Degrees : t < s => st1[<<"projects", t, 0>>] = st2[<<"projects", t, 0>>]
  PROVE  ProjectsBefore(st1, s) = ProjectsBefore(st2, s)
  <1> DEFINE P(j) == st1[<<"projects", j, 0>>] = st2[<<"projects", j, 0>>]
  <1>1. \A j \in 0 .. s - 1 : P(j)
    <2>1. \A j \in 0 .. s - 1 : j \in 0 .. Degrees /\ j < s
      BY LinusAssumption
    <2>2. \A t \in 0 .. Degrees : t < s => P(t)
      OBVIOUS
    <2>3. QED
      BY <2>1, <2>2
  <1>2. QED
    BY <1>1 DEF ProjectsBefore

\* The same for the users.
LEMMA UpToSame ==
  ASSUME NEW st1, NEW st2, NEW s \in 0 .. Degrees,
         \A t \in 0 .. Degrees : t <= s => st1[<<"users", t, 0>>] = st2[<<"users", t, 0>>]
  PROVE  UsersUpTo(st1, s) = UsersUpTo(st2, s)
  <1> DEFINE P(j) == st1[<<"users", j, 0>>] = st2[<<"users", j, 0>>]
  <1>1. \A j \in 1 .. s : P(j)
    <2>1. \A j \in 1 .. s : j \in 0 .. Degrees /\ j <= s
      BY LinusAssumption
    <2>2. \A t \in 0 .. Degrees : t <= s => P(t)
      OBVIOUS
    <2>3. QED
      BY <2>1, <2>2
  <1>2. QED
    BY <1>1 DEF UsersUpTo

\* What is new in a round depends on the merged sets of the rounds before alone.
LEMMA NewSame ==
  ASSUME NEW st1, NEW st2, NEW nm \in Names, NEW s \in 0 .. Degrees, NEW cs,
         KeyRound(nm, s) >= 0,
         \A m \in Names, t \in 0 .. Degrees :
           KeyRound(m, t) < KeyRound(nm, s) => st1[<<m, t, 0>>] = st2[<<m, t, 0>>]
  PROVE  New(st1, nm, s, cs) = New(st2, nm, s, cs)
  <1>1. CASE nm = "users"
    <2>1. s >= 1 /\ s - 1 \in 0 .. Degrees
      BY <1>1, LinusAssumption DEF KeyRound
    <2>2. \A t \in 0 .. Degrees : t <= s - 1 => st1[<<"users", t, 0>>] = st2[<<"users", t, 0>>]
      BY <1>1, <2>1, LinusAssumption DEF KeyRound, Names
    <2>3. UsersUpTo(st1, s - 1) = UsersUpTo(st2, s - 1)
      BY <2>1, <2>2, UpToSame
    <2>4. st1[<<"projects", s - 1, 0>>] = st2[<<"projects", s - 1, 0>>]
      BY <1>1, <2>1, LinusAssumption DEF KeyRound, Names
    <2>5. QED
      BY <1>1, <2>3, <2>4 DEF New, NewUsers
  <1>2. CASE nm = "projects"
    <2>1. \A t \in 0 .. Degrees : t < s => st1[<<"projects", t, 0>>] = st2[<<"projects", t, 0>>]
      BY <1>2, LinusAssumption DEF KeyRound, Names
    <2>2. ProjectsBefore(st1, s) = ProjectsBefore(st2, s)
      BY <2>1, BeforeSame
    <2>3. st1[<<"users", s, 0>>] = st2[<<"users", s, 0>>]
      BY <1>2, LinusAssumption DEF KeyRound, Names
    <2>4. QED
      BY <1>2, <2>2, <2>3 DEF New, NewProjects
  <1>3. QED
    BY <1>1, <1>2 DEF Names

\* A set before a round and what was merged in it are the set after it.
LEMMA ProjectsNext ==
  ASSUME NEW st, NEW s \in Nat
  PROVE  ProjectsBefore(st, s + 1) = ProjectsBefore(st, s) \cup st[<<"projects", s, 0>>]
  <1>1. 0 .. (s + 1) - 1 = (0 .. s - 1) \cup {s}
    OBVIOUS
  <1>2. QED
    BY <1>1 DEF ProjectsBefore

\* The same for the users.
LEMMA UsersNext ==
  ASSUME NEW st, NEW s \in Nat
  PROVE  UsersUpTo(st, s + 1) = UsersUpTo(st, s) \cup st[<<"users", s + 1, 0>>]
  <1>1. 1 .. s + 1 = (1 .. s) \cup {s + 1}
    OBVIOUS
  <1>2. QED
    BY <1>1 DEF UsersUpTo

\* Nothing was merged before the first stage.
LEMMA NoneBefore == \A st : ProjectsBefore(st, 0) = {} /\ UsersUpTo(st, 0) = {}
  <1>1. 0 .. 0 - 1 = {} /\ 1 .. 0 = {}
    OBVIOUS
  <1>2. QED
    BY <1>1 DEF ProjectsBefore, UsersUpTo

\* What two sets of commits add is what each of them adds.
LEMMA NewUnion ==
  ASSUME NEW st, NEW nm, NEW s, NEW cs1, NEW cs2
  PROVE  /\ New(st, nm, s, cs1 \cup cs2) = New(st, nm, s, cs1) \cup New(st, nm, s, cs2)
         /\ cs1 \subseteq cs2 => New(st, nm, s, cs1) \subseteq New(st, nm, s, cs2)
  BY DEF New, NewProjects, NewUsers

\* What is new are projects, or users.
LEMMA NewType ==
  ASSUME NEW st, NEW s, NEW cs
  PROVE  /\ NewProjects(st, s, cs) \subseteq Pids /\ NewUsers(st, s, cs) \subseteq Uids
         /\ New(st, "projects", s, cs) = NewProjects(st, s, cs)
         /\ New(st, "users", s, cs) = NewUsers(st, s, cs)
  BY DEF New, NewProjects, NewUsers

-----------------------------------------------------------------------------
(* Types *)

\* The keys of the merge that node n is in, and its sets, are of their types.
LEMMA DeltaType ==
  ASSUME TypeOK, NEW n \in Nodes
  PROVE  /\ Delta(n) \in SUBSET Nat
         /\ name[n] = "projects" => Delta(n) \in SUBSET Pids
         /\ name[n] = "users" => Delta(n) \in SUBSET Uids
  <1>1. Pids \subseteq Nat /\ Uids \subseteq Nat
    BY LinusAssumption DEF Pids, Uids
  <1>2. QED
    BY <1>1 DEF TypeOK, Delta, Names

\* A put keeps the type of the store, and changes no other key.
LEMMA PutEffect ==
  ASSUME TypeOK, NEW k \in Keys, NEW ids \in SUBSET Nat, Put(k, ids)
  PROVE  /\ store' \in [Keys -> SUBSET Nat] /\ put' \subseteq Keys
         /\ put' = put \cup {k} /\ store'[k] = ids
         /\ \A j \in Keys : j # k => store'[j] = store[j]
  BY DEF TypeOK, Put

\* What the merge of a set does to node n.
LEMMA MergedType ==
  ASSUME TypeOK, StagesFit, NEW n \in Nodes, Merging(n), NEW set, Merged(n, set),
         name[n] = "projects" => set \in SUBSET Pids,
         name[n] = "users" => set \in SUBSET Uids,
         store' \in [Keys -> SUBSET Nat], put' \subseteq Keys
  PROVE  TypeOK' /\ StagesFit'
  <1>1. /\ UsersTagged(n, set) \in SUBSET Uids
        /\ 1 \in 1 .. NumNodes
    BY LinusAssumption DEF UsersTagged
  <1>2. stage[n] < Degrees /\ stage[n] \in 0 .. Degrees /\ stage[n] + 1 \in 0 .. Degrees
    BY LinusAssumption DEF TypeOK, StagesFit
  <1>3. CASE ProjectsMerged(n, set)
    <2>1. TypeOK'
      BY <1>1, <1>3 DEF TypeOK, ProjectsMerged, Goto, Labels, Names
    <2>2. StagesFit'
      BY <1>2, <1>3 DEF TypeOK, StagesFit, ProjectsMerged, Goto, Merging
    <2>3. QED
      BY <2>1, <2>2
  <1>4. CASE UsersMerged(n, set)
    <2>1. TypeOK'
      BY <1>1, <1>2, <1>4 DEF TypeOK, UsersMerged, Goto, Labels, Names
    <2>2. StagesFit'
      BY <1>2, <1>4 DEF TypeOK, StagesFit, UsersMerged, Goto, Merging
    <2>3. QED
      BY <2>1, <2>2
  <1>5. QED
    BY <1>3, <1>4 DEF Merged

\* The sets of a merge have only indices of their rows.
LEMMA PublishType ==
  ASSUME TypeOK, StagesFit, Publish
  PROVE  TypeOK' /\ StagesFit'
  <1>1. 0 \in Nodes /\ Merging(0)
    BY NodesFacts DEF Publish, Merging
  <1>2. MergeKey(0, 0) \in Keys
    BY <1>1, MergeKeyRound
  <1>3. store' \in [Keys -> SUBSET Nat] /\ put' \subseteq Keys
    BY <1>1, <1>2, DeltaType, PutEffect DEF Publish
  <1>4. QED
    BY <1>1, <1>3, DeltaType, MergedType DEF Publish

\* The merged set that is received is cut to the indices of the set.
LEMMA ReceiveType ==
  ASSUME TypeOK, StagesFit, NEW n \in Nodes, Receive(n)
  PROVE  TypeOK' /\ StagesFit'
  <1> DEFINE key == MergeKey(n, 0)
             set == Delta(n) \cup (store[key] \cap (IF name[n] = "projects" THEN Pids ELSE Uids))
  <1>1. Merging(n) /\ Merged(n, set) /\ store' = store /\ put' = put
    BY DEF Receive, Merging
  <1>2. /\ name[n] = "projects" => set \in SUBSET Pids
        /\ name[n] = "users" => set \in SUBSET Uids
    BY DeltaType
  <1>3. store' \in [Keys -> SUBSET Nat] /\ put' \subseteq Keys
    BY <1>1 DEF TypeOK
  <1> HIDE DEF set
  <1>4. QED
    BY <1>1, <1>2, <1>3, MergedType

\* A delta that is sent is a set of indices.
LEMMA SendType ==
  ASSUME TypeOK, StagesFit, NEW n \in Nodes, Send(n)
  PROVE  TypeOK' /\ StagesFit'
  <1>1. Merging(n)
    BY DEF Send, Merging
  <1>2. MergeKey(n, n) \in Keys
    BY <1>1, MergeKeyRound
  <1>3. store' \in [Keys -> SUBSET Nat] /\ put' \subseteq Keys
    BY <1>2, DeltaType, PutEffect DEF Send
  <1>4. TypeOK'
    BY <1>3 DEF TypeOK, Send, Goto, Labels
  <1>5. StagesFit'
    BY <1>1 DEF TypeOK, StagesFit, Send, Goto, Merging
  <1>6. QED
    BY <1>4, <1>5

\* Node 0 waits for no node beyond the last.
LEMMA CollectType ==
  ASSUME TypeOK, StagesFit, Collect
  PROVE  TypeOK' /\ StagesFit'
  <1>1. from[0] + 1 \in 1 .. NumNodes
    BY NodesFacts, LinusAssumption DEF Collect, TypeOK
  <1>2. TypeOK'
    BY <1>1, NodesFacts DEF TypeOK, Collect
  <1>3. StagesFit'
    BY DEF StagesFit, Collect, Merging
  <1>4. QED
    BY <1>2, <1>3

\* The input is of its type.
LEMMA InputType ==
  ASSUME TypeOK, StagesFit, ReadInput \/ \E n \in Nodes : AwaitInput(n)
  PROVE  TypeOK' /\ StagesFit'
  <1>1. CASE ReadInput
    <2>1. <<"users", 0, 0>> \in Keys /\ {LinusId} \in SUBSET Nat
      BY NodesFacts, LinusAssumption DEF Keys, Names
    <2>2. store' \in [Keys -> SUBSET Nat] /\ put' \subseteq Keys
      BY <1>1, <2>1, PutEffect DEF ReadInput
    <2>3. TypeOK'
      BY <1>1, <2>2 DEF TypeOK, ReadInput, Goto, Labels
    <2>4. StagesFit'
      BY <1>1 DEF TypeOK, StagesFit, ReadInput, Goto, Merging
    <2>5. QED
      BY <2>3, <2>4
  <1>2. ASSUME NEW n \in Nodes, AwaitInput(n)
        PROVE  TypeOK' /\ StagesFit'
    <2>1. TypeOK'
      BY <1>2 DEF TypeOK, AwaitInput, Goto, Labels
    <2>2. StagesFit'
      BY <1>2 DEF TypeOK, StagesFit, AwaitInput, Goto, Merging
    <2>3. QED
      BY <2>1, <2>2
  <1>3. QED
    BY <1>1, <1>2

\* A step begins only while there is a stage left.
LEMMA StepType ==
  ASSUME TypeOK, StagesFit, NEW n \in Nodes, Step(n) \/ Finish(n)
  PROVE  TypeOK' /\ StagesFit'
  <1>1. CASE Step(n)
    <2>1. /\ ProjectsTagged(n, store[<<"users", stage[n], 0>>] \cap Uids) \in SUBSET Pids
          /\ 1 \in 1 .. NumNodes
      BY LinusAssumption DEF ProjectsTagged
    <2>2. TypeOK'
      BY <1>1, <2>1 DEF TypeOK, Step, Goto, Labels, Names
    <2>3. StagesFit'
      BY <1>1 DEF TypeOK, StagesFit, Step, Goto, Merging, MoreSteps
    <2>4. QED
      BY <2>2, <2>3
  <1>2. CASE Finish(n)
    <2>1. TypeOK'
      BY <1>2 DEF TypeOK, Finish, Goto, Labels
    <2>2. StagesFit'
      BY <1>2 DEF TypeOK, StagesFit, Finish, Goto, Merging
    <2>3. QED
      BY <2>1, <2>2
  <1>3. QED
    BY <1>1, <1>2

\* Every step keeps the types, and the stages in their bounds.
LEMMA NextType ==
  ASSUME TypeOK, StagesFit, [Next]_vars
  PROVE  TypeOK' /\ StagesFit'
  <1>1. CASE Node0
    BY <1>1, InputType, CollectType, PublishType DEF Node0
  <1>2. ASSUME NEW n \in Nodes, Node(n)
        PROVE  TypeOK' /\ StagesFit'
    BY <1>2, InputType, StepType, SendType, ReceiveType DEF Node
  <1>3. CASE UNCHANGED vars
    BY <1>3 DEF vars, TypeOK, StagesFit, Merging
  <1>4. QED
    BY <1>1, <1>2, <1>3 DEF Next

-----------------------------------------------------------------------------
(* What does not change *)

\* What a step leaves of the state of another node.
Idle(n) ==
  /\ pc'[n] = pc[n] /\ stage'[n] = stage[n] /\ name'[n] = name[n] /\ from'[n] = from[n]
  /\ pSet'[n] = pSet[n] /\ uSet'[n] = uSet[n] /\ newP'[n] = newP[n] /\ newU'[n] = newU[n]

\* A step of node x leaves the others idle, takes nothing from the store and puts at most
\* one key, of node x and of the round that it is in.
StepOf(x) ==
  /\ commits' = commits /\ put \subseteq put'
  /\ \A n \in Nodes : n # x => Idle(n)
  /\ \A k \in put : store'[k] = store[k]
  /\ \A nm \in Names, s \in 0 .. Degrees, n \in Nodes : <<nm, s, n>> \in put' \ put =>
       /\ n = x /\ KeyRound(nm, s) = Round(x) /\ (x # 0 => KeyRound(nm, s) >= 0)

\* The merged sets of the rounds before that of a node are the same after a step.
LEMMA BeforeKept ==
  ASSUME TypeOK, NEW n \in Nodes, KeysBefore(n), \A k \in put : store'[k] = store[k]
  PROVE  \A nm \in Names, s \in 0 .. Degrees :
           KeyRound(nm, s) < Round(n) => store[<<nm, s, 0>>] = store'[<<nm, s, 0>>]
  BY DEF KeysBefore

\* And so is what a node computes from them: what is new in its round, ...
LEMMA NewKept ==
  ASSUME TypeOK, NEW n \in Nodes, KeysBefore(n), \A k \in put : store'[k] = store[k],
         NEW nm \in Names, NEW s \in 0 .. Degrees, NEW cs,
         KeyRound(nm, s) >= 0, KeyRound(nm, s) <= Round(n)
  PROVE  New(store, nm, s, cs) = New(store', nm, s, cs)
  <1>1. \A m \in Names, t \in 0 .. Degrees :
          KeyRound(m, t) < KeyRound(nm, s) => KeyRound(m, t) < Round(n)
    BY RoundsAreInts
  <1>2. \A m \in Names, t \in 0 .. Degrees :
          KeyRound(m, t) < KeyRound(nm, s) => store[<<m, t, 0>>] = store'[<<m, t, 0>>]
    BY <1>1, BeforeKept
  <1>3. QED
    BY <1>2, NewSame

\* ... and what was merged before.
LEMMA SetsKept ==
  ASSUME TypeOK, NEW n \in Nodes, KeysBefore(n), \A k \in put : store'[k] = store[k]
  PROVE  /\ pc[n] # "read" => /\ ProjectsBefore(store, stage[n]) = ProjectsBefore(store', stage[n])
                              /\ UsersUpTo(store, stage[n]) = UsersUpTo(store', stage[n])
         /\ Merging(n) /\ name[n] = "users" /\ stage[n] < Degrees =>
              ProjectsBefore(store, stage[n] + 1) = ProjectsBefore(store', stage[n] + 1)
  <1>1. stage[n] \in 0 .. Degrees /\ Degrees \in Nat
    BY LinusAssumption DEF TypeOK
  <1>2. \A t \in 0 .. Degrees : KeyRound("projects", t) < Round(n) =>
          store[<<"projects", t, 0>>] = store'[<<"projects", t, 0>>]
    BY BeforeKept DEF Names
  <1>3. \A t \in 0 .. Degrees : KeyRound("users", t) < Round(n) =>
          store[<<"users", t, 0>>] = store'[<<"users", t, 0>>]
    BY BeforeKept DEF Names
  <1>4. ASSUME pc[n] # "read"
        PROVE  /\ ProjectsBefore(store, stage[n]) = ProjectsBefore(store', stage[n])
               /\ UsersUpTo(store, stage[n]) = UsersUpTo(store', stage[n])
    <2>1. /\ \A t \in 0 .. Degrees : t < stage[n] => KeyRound("projects", t) < Round(n)
          /\ \A t \in 0 .. Degrees : t <= stage[n] => KeyRound("users", t) < Round(n)
      BY <1>1, <1>4 DEF KeyRound, Round
    <2>2. QED
      BY <1>1, <1>2, <1>3, <2>1, BeforeSame, UpToSame
  <1>5. ASSUME Merging(n), name[n] = "users", stage[n] < Degrees
        PROVE  ProjectsBefore(store, stage[n] + 1) = ProjectsBefore(store', stage[n] + 1)
    <2>1. /\ stage[n] + 1 \in 0 .. Degrees
          /\ \A t \in 0 .. Degrees : t < stage[n] + 1 => KeyRound("projects", t) < Round(n)
      BY <1>1, <1>5 DEF KeyRound, Round, Merging
    <2>2. QED
      BY <1>2, <2>1, BeforeSame
  <1>6. QED
    BY <1>4, <1>5

\* The rows of a node depend on the commits alone.
LEMMA RowsKept ==
  ASSUME commits' = commits
  PROVE  /\ \A n : Rows(n)' = Rows(n) /\ RowsBefore(n)' = RowsBefore(n)
         /\ AllRows' = AllRows
  BY DEF Rows, RowsBefore, AllRows, Local

-----------------------------------------------------------------------------
(* The nodes that do not take the step *)

\* They have put nothing, and waited for nothing.
LEMMA IdleKeys ==
  ASSUME TypeOK, NEW x \in Nodes, StepOf(x), NEW n \in Nodes, n # x, KeysBehind(n), KeysBefore(n)
  PROVE  KeysBehind(n)' /\ KeysBefore(n)'
  <1>1. Round(n)' = Round(n) /\ (pc[n])' = pc[n]
    BY DEF StepOf, Idle, Round, Merging
  <1>2. \A nm \in Names, s \in 0 .. Degrees : <<nm, s, n>> \in put' => <<nm, s, n>> \in put
    BY DEF StepOf
  <1>3. KeysBehind(n)'
    BY <1>1, <1>2 DEF KeysBehind
  <1>4. KeysBefore(n)'
    BY <1>1 DEF KeysBefore, StepOf
  <1>5. QED
    BY <1>3, <1>4

\* Their sets are those that they had.
LEMMA IdleSets ==
  ASSUME TypeOK, StagesFit, NEW x \in Nodes, StepOf(x), NEW n \in Nodes, n # x,
         KeysBefore(n), SetsFound(n)
  PROVE  SetsFound(n)'
  <1>1. Idle(n) /\ commits' = commits /\ \A k \in put : store'[k] = store[k]
    BY DEF StepOf
  <1>2. /\ (pc[n])' = pc[n] /\ (stage[n])' = stage[n] /\ (name[n])' = name[n]
        /\ (pSet[n])' = pSet[n] /\ (uSet[n])' = uSet[n]
        /\ (newP[n])' = newP[n] /\ (newU[n])' = newU[n]
        /\ Merging(n)' = Merging(n)
    BY <1>1 DEF Idle, Merging
  <1>3. Rows(n)' = Rows(n) /\ Mine(n)' = Mine(n)
    BY <1>1, RowsKept DEF Mine, Idle
  <1>4. stage[n] \in 0 .. Degrees /\ Degrees \in Nat
    BY LinusAssumption DEF TypeOK
  <1>5. CASE pc[n] \in {"step", "done"}
    BY <1>1, <1>2, <1>5, SetsKept DEF SetsFound, Merging
  <1>6. CASE Merging(n) /\ name[n] = "projects"
    <2>1. \A cs : NewProjects(store, stage[n], cs) = NewProjects(store', stage[n], cs)
      <3>1. KeyRound("projects", stage[n]) = Round(n) /\ Round(n) >= 0
        BY <1>4, <1>6 DEF KeyRound, Round, Merging
      <3>2. QED
        BY <1>1, <1>4, <3>1, RoundsAreInts, NewKept, NewType DEF Names
    <2>2. QED
      BY <1>1, <1>2, <1>3, <1>6, <2>1, SetsKept DEF SetsFound, Merging
  <1>7. CASE Merging(n) /\ name[n] = "users"
    <2>1. stage[n] + 1 \in 0 .. Degrees /\ stage[n] < Degrees
      BY <1>4, <1>7 DEF StagesFit
    <2>2. \A cs : NewUsers(store, stage[n] + 1, cs) = NewUsers(store', stage[n] + 1, cs)
      <3>1. KeyRound("users", stage[n] + 1) = Round(n) /\ Round(n) >= 0
        BY <1>4, <1>7 DEF KeyRound, Round, Merging
      <3>2. QED
        BY <1>1, <2>1, <3>1, RoundsAreInts, NewKept, NewType DEF Names
    <2>3. QED
      BY <1>1, <1>2, <1>3, <1>7, <2>1, <2>2, SetsKept DEF SetsFound, Merging
  <1>8. CASE pc[n] = "read"
    BY <1>2, <1>8 DEF SetsFound, Merging
  <1>9. QED
    BY <1>5, <1>6, <1>7, <1>8 DEF TypeOK, Labels, Merging, Names

\* What is in the store stays what was found, since it is of rounds that are over.
LEMMA StoreKept ==
  ASSUME TypeOK, NEW x \in Nodes, StepOf(x), NEW n \in Nodes,
         KeysBehind(n), KeysBefore(n), StoreFound(n),
         NEW nm \in Names, NEW s \in 0 .. Degrees, <<nm, s, n>> \in put
  PROVE  store'[<<nm, s, n>>] = Found(nm, s, n)'
  <1>1. store'[<<nm, s, n>>] = Found(nm, s, n)
    BY DEF StepOf, StoreFound
  <1>2. KeyRound(nm, s) \in Int /\ Round(n) \in Int /\ KeyRound(nm, s) <= Round(n)
    BY RoundsAreInts DEF KeysBehind
  <1>3. CASE KeyRound(nm, s) < 0
    BY <1>1, <1>3 DEF Found, KeyRound
  <1>4. CASE KeyRound(nm, s) >= 0
    <2>1. \A cs : New(store, nm, s, cs) = New(store', nm, s, cs)
      BY <1>2, <1>4, NewKept DEF StepOf
    <2>2. AllRows' = AllRows /\ Rows(n)' = Rows(n) /\ KeyRound(nm, s)' = KeyRound(nm, s)
      BY RowsKept DEF StepOf, KeyRound
    <2>3. Found(nm, s, n)' = New(store', nm, s, IF n = 0 THEN AllRows ELSE Rows(n))
      BY <1>2, <1>4, <2>2 DEF Found, New, NewProjects, NewUsers, ProjectsBefore, UsersUpTo
    <2>4. QED
      BY <1>1, <1>2, <1>4, <2>1, <2>3 DEF Found
  <1>5. QED
    BY <1>2, <1>3, <1>4

-----------------------------------------------------------------------------
(* The rows of the nodes *)

\* Every row is local to one of the nodes.
LEMMA RowsCover ==
  ASSUME TypeOK
  PROVE  /\ RowsBefore(1) = Rows(0)
         /\ \A i \in Nat : RowsBefore(i + 1) = RowsBefore(i) \cup Rows(i)
         /\ RowsBefore(NumNodes) = AllRows
         /\ \A n \in Nodes : Rows(n) \subseteq AllRows
  <1>1. RowsBefore(1) = Rows(0)
    <2>1. 0 .. 1 - 1 = {0}
      OBVIOUS
    <2>2. QED
      BY <2>1 DEF RowsBefore
  <1>2. ASSUME NEW i \in Nat
        PROVE  RowsBefore(i + 1) = RowsBefore(i) \cup Rows(i)
    <2>1. 0 .. (i + 1) - 1 = (0 .. i - 1) \cup {i}
      OBVIOUS
    <2>2. QED
      BY <2>1 DEF RowsBefore
  <1>3. \A n : Rows(n) \subseteq AllRows
    BY DEF Rows, AllRows, Local
  <1>4. AllRows \subseteq RowsBefore(NumNodes)
    <2> SUFFICES ASSUME NEW r \in DOMAIN commits
                 PROVE  \E i \in 0 .. NumNodes - 1 : r \in Local(i)
      BY DEF AllRows, RowsBefore, Rows
    <2>1. r \in Nat \ {0}
      <3>1. commits \in Seq([pid : Nat, uid : Nat])
        BY LinusAssumption DEF TypeOK
      <3>2. DOMAIN commits = 1 .. Len(commits) /\ Len(commits) \in Nat
        BY <3>1
      <3>3. QED
        BY <3>2
    <2>2. BlockSize \in Nat \ {0} /\ NumNodes \in Nat \ {0}
      BY LinusAssumption
    <2>3. (r - 1) \div BlockSize \in Int
      BY <2>1, <2>2
    <2>4. ((r - 1) \div BlockSize) % NumNodes \in 0 .. NumNodes - 1
      BY <2>2, <2>3
    <2>5. QED
      BY <2>4 DEF Local
  <1>5. RowsBefore(NumNodes) \subseteq AllRows
    BY <1>3 DEF RowsBefore
  <1>6. QED
    BY <1>1, <1>2, <1>3, <1>4, <1>5

\* A tagger finds what the rows of its node add to the sets that it has.
LEMMA TaggersFind ==
  ASSUME NEW n \in Nodes, NEW st, NEW s
  PROVE  /\ pSet[n] = ProjectsBefore(st, s) =>
              ProjectsTagged(n, st[<<"users", s, 0>>] \cap Uids) = NewProjects(st, s, Rows(n))
         /\ uSet[n] = UsersUpTo(st, s - 1) =>
              UsersTagged(n, st[<<"projects", s - 1, 0>>]) = NewUsers(st, s, Rows(n))
  BY DEF ProjectsTagged, UsersTagged, NewProjects, NewUsers, Rows

-----------------------------------------------------------------------------
(* The node that takes the step *)

\* The step keeps the invariant at its node.
Keeps(x) ==
  /\ StepOf(x)
  /\ KeysBehind(x)' /\ KeysBefore(x)' /\ SetsFound(x)'
  /\ \A nm \in Names, s \in 0 .. Degrees :
       <<nm, s, x>> \in put' \ put => store'[<<nm, s, x>>] = Found(nm, s, x)'

\* A step that puts nothing.
LEMMA NoPut ==
  ASSUME NEW x, commits' = commits, store' = store, put' = put,
         \A n \in Nodes : n # x => Idle(n)
  PROVE  /\ StepOf(x)
         /\ \A nm \in Names, s \in 0 .. Degrees : <<nm, s, x>> \notin put' \ put
  BY DEF StepOf

\* The wait for the input, of a node that has put nothing yet.
LEMMA AwaitInputKeeps ==
  ASSUME IndInv, NEW n \in Nodes, AwaitInput(n)
  PROVE  Keeps(n)
  <1>1. TypeOK /\ StagesFit /\ KeysBehind(n) /\ KeysBefore(n)
    BY DEF IndInv
  <1>2. /\ pc[n] = "read" /\ pc'[n] = "step" /\ stage[n] = 0 /\ stage' = stage
        /\ pSet[n] = {} /\ uSet[n] = {} /\ pSet' = pSet /\ uSet' = uSet
        /\ <<"users", 0, 0>> \in put /\ put' = put /\ store' = store
        /\ commits' = commits /\ \A m \in Nodes : m # n => Idle(m)
    BY <1>1 DEF AwaitInput, Goto, TypeOK, StagesFit, Idle
  <1>3. StepOf(n) /\ \A nm \in Names, s \in 0 .. Degrees : <<nm, s, n>> \notin put' \ put
    BY <1>2, NoPut
  <1>4. Round(n) = -1 /\ Round(n)' = 0
    BY <1>2 DEF Round, Merging
  <1>5. KeysBehind(n)'
    BY <1>1, <1>2, <1>4, RoundsAreInts DEF KeysBehind
  <1>6. KeysBefore(n)'
    <2>1. \A nm \in Names, s \in 0 .. Degrees : KeyRound(nm, s) < 0 => nm = "users" /\ s = 0
      BY LinusAssumption DEF KeyRound, Names
    <2>2. QED
      BY <1>2, <1>4, <2>1 DEF KeysBefore
  <1>7. SetsFound(n)'
    BY <1>2, NoneBefore DEF SetsFound, Merging
  <1>8. QED
    BY <1>3, <1>5, <1>6, <1>7 DEF Keeps

\* A node that waits for no merged set has not put the key of its round.
LEMMA FreshKey ==
  ASSUME TypeOK, NEW n \in Nodes, KeysBehind(n), pc[n] # "await",
         NEW nm \in Names, NEW s \in 0 .. Degrees, KeyRound(nm, s) = Round(n)
  PROVE  <<nm, s, n>> \notin put
  BY RoundsAreInts DEF KeysBehind

\* A step that puts such a key.
LEMMA OnePut ==
  ASSUME TypeOK, NEW n \in Nodes, KeysBehind(n), pc[n] # "await",
         NEW nm \in Names, NEW s \in 0 .. Degrees, KeyRound(nm, s) = Round(n),
         n # 0 => KeyRound(nm, s) >= 0,
         NEW ids \in SUBSET Nat, Put(<<nm, s, n>>, ids),
         commits' = commits, \A m \in Nodes : m # n => Idle(m)
  PROVE  /\ StepOf(n)
         /\ store'[<<nm, s, n>>] = ids /\ put' = put \cup {<<nm, s, n>>}
         /\ <<nm, s, n>> \notin put
  <1>1. <<nm, s, n>> \in Keys
    BY DEF Keys
  <1>2. <<nm, s, n>> \notin put
    BY FreshKey
  <1>3. /\ put' = put \cup {<<nm, s, n>>} /\ store'[<<nm, s, n>>] = ids
        /\ \A k \in put : store'[k] = store[k]
    BY <1>1, <1>2, PutEffect DEF TypeOK
  <1>4. StepOf(n)
    BY <1>3 DEF StepOf
  <1>5. QED
    BY <1>2, <1>3, <1>4

\* The input of node 0: the users of stage 0 are Linus.
LEMMA ReadInputKeeps ==
  ASSUME IndInv, ReadInput
  PROVE  Keeps(0)
  <1>1. 0 \in Nodes /\ TypeOK /\ StagesFit /\ KeysBehind(0) /\ KeysBefore(0)
    BY NodesFacts DEF IndInv
  <1>2. /\ pc[0] = "read" /\ pc'[0] = "step" /\ stage[0] = 0 /\ stage' = stage
        /\ pSet[0] = {} /\ uSet[0] = {} /\ pSet' = pSet /\ uSet' = uSet
        /\ commits' = commits /\ \A m \in Nodes : m # 0 => Idle(m)
    BY <1>1 DEF ReadInput, Goto, TypeOK, StagesFit, Idle
  <1>3. Round(0) = -1 /\ Round(0)' = 0
    BY <1>2 DEF Round, Merging
  <1>4. "users" \in Names /\ 0 \in 0 .. Degrees /\ KeyRound("users", 0) = -1
    BY LinusAssumption DEF KeyRound, Names
  <1>5. /\ StepOf(0) /\ store'[<<"users", 0, 0>>] = {LinusId}
        /\ put' = put \cup {<<"users", 0, 0>>}
    <2>1. {LinusId} \in SUBSET Nat /\ Put(<<"users", 0, 0>>, {LinusId})
      BY LinusAssumption DEF ReadInput
    <2>2. QED
      BY <1>1, <1>2, <1>3, <1>4, <2>1, OnePut
  <1>6. \A nm \in Names, s \in 0 .. Degrees : KeyRound(nm, s) < 0 => nm = "users" /\ s = 0
    BY LinusAssumption DEF KeyRound, Names
  <1>7. KeysBehind(0)'
    BY <1>1, <1>2, <1>3, <1>4, <1>5, RoundsAreInts DEF KeysBehind
  <1>8. KeysBefore(0)'
    BY <1>3, <1>5, <1>6 DEF KeysBefore
  <1>9. SetsFound(0)'
    BY <1>2, NoneBefore DEF SetsFound, Merging
  <1>10. \A nm \in Names, s \in 0 .. Degrees :
           <<nm, s, 0>> \in put' \ put => store'[<<nm, s, 0>>] = Found(nm, s, 0)'
    BY <1>4, <1>5 DEF Found, KeyRound
  <1>11. QED
    BY <1>5, <1>7, <1>8, <1>9, <1>10 DEF Keeps

\* The tags of a node's own projects are what its rows add.
LEMMA StepKeeps ==
  ASSUME IndInv, NEW n \in Nodes, Step(n)
  PROVE  Keeps(n)
  <1> DEFINE s == stage[n]
             new == ProjectsTagged(n, store[<<"users", s, 0>>] \cap Uids)
  <1>1. TypeOK /\ KeysBehind(n) /\ KeysBefore(n) /\ SetsFound(n)
    BY DEF IndInv
  <1>2. /\ pc[n] = "step" /\ pc'[n] = "merge" /\ name'[n] = "projects"
        /\ stage' = stage /\ from'[n] = 1 /\ uSet' = uSet
        /\ newP'[n] = new /\ pSet'[n] = pSet[n] \cup new
        /\ put' = put /\ store' = store /\ commits' = commits
        /\ \A m \in Nodes : m # n => Idle(m)
    BY <1>1 DEF Step, Goto, TypeOK, Idle
  <1>3. StepOf(n) /\ \A nm \in Names, t \in 0 .. Degrees : <<nm, t, n>> \notin put' \ put
    BY <1>2, NoPut
  <1>4. Round(n)' = Round(n)
    BY <1>2 DEF Round, Merging
  <1>5. KeysBehind(n)'
    BY <1>1, <1>2, <1>4 DEF KeysBehind
  <1>6. KeysBefore(n)'
    BY <1>1, <1>2, <1>4 DEF KeysBefore
  <1>7. SetsFound(n)'
    <2>1. pSet[n] = ProjectsBefore(store, s) /\ uSet[n] = UsersUpTo(store, s)
      BY <1>1, <1>2 DEF SetsFound
    <2>2. new = NewProjects(store, s, Rows(n))
      BY <2>1, TaggersFind
    <2>3. Rows(n)' = Rows(n) /\ Mine(n)' = Rows(n)
      BY <1>1, <1>2, RowsKept, RowsCover DEF Mine
    <2> HIDE DEF new
    <2>4. QED
      BY <1>2, <2>1, <2>2, <2>3 DEF SetsFound, Merging
  <1>8. QED
    BY <1>3, <1>5, <1>6, <1>7 DEF Keeps

\* The end of run_ changes nothing else.
LEMMA FinishKeeps ==
  ASSUME IndInv, NEW n \in Nodes, Finish(n)
  PROVE  Keeps(n)
  <1>1. TypeOK /\ KeysBehind(n) /\ KeysBefore(n) /\ SetsFound(n)
    BY DEF IndInv
  <1>2. /\ pc[n] = "step" /\ pc'[n] = "done" /\ stage' = stage /\ pSet' = pSet /\ uSet' = uSet
        /\ put' = put /\ store' = store /\ commits' = commits
        /\ \A m \in Nodes : m # n => Idle(m)
    BY <1>1 DEF Finish, Goto, TypeOK, Idle
  <1>3. StepOf(n) /\ \A nm \in Names, t \in 0 .. Degrees : <<nm, t, n>> \notin put' \ put
    BY <1>2, NoPut
  <1>4. Round(n)' = Round(n)
    BY <1>2 DEF Round, Merging
  <1>5. KeysBehind(n)' /\ KeysBefore(n)'
    BY <1>1, <1>2, <1>4 DEF KeysBehind, KeysBefore
  <1>6. SetsFound(n)'
    BY <1>1, <1>2 DEF SetsFound, Merging
  <1>7. QED
    BY <1>3, <1>5, <1>6 DEF Keeps

\* The set that a node merges is what its rows, or those of the nodes before from, add.
LEMMA DeltaFound ==
  ASSUME IndInv, NEW n \in Nodes, Merging(n), NEW s,
         s = (IF name[n] = "users" THEN stage[n] + 1 ELSE stage[n])
  PROVE  Delta(n) = New(store, name[n], s, Mine(n))
  BY DEF IndInv, TypeOK, Names, SetsFound, Delta, New

\* What a node puts under a key of its round is what that key stands for.
LEMMA PutFound ==
  ASSUME IndInv, NEW n \in Nodes, StepOf(n),
         NEW nm \in Names, NEW s \in 0 .. Degrees,
         KeyRound(nm, s) = Round(n), KeyRound(nm, s) >= 0
  PROVE  Found(nm, s, n)' = New(store, nm, s, IF n = 0 THEN AllRows ELSE Rows(n))
  <1>1. commits' = commits /\ \A k \in put : store'[k] = store[k]
    BY DEF StepOf
  <1>2. AllRows' = AllRows /\ Rows(n)' = Rows(n)
    BY <1>1, RowsKept
  <1>3. \A cs : New(store, nm, s, cs) = New(store', nm, s, cs)
    BY <1>1, RoundsAreInts, NewKept DEF IndInv
  <1>4. Found(nm, s, n)' = New(store', nm, s, IF n = 0 THEN AllRows ELSE Rows(n))
    BY <1>2, RoundsAreInts DEF Found, KeyRound, New, NewProjects, NewUsers, ProjectsBefore, UsersUpTo
  <1>5. QED
    BY <1>3, <1>4

\* The delta that a node sends is what its rows add.
LEMMA SendKeeps ==
  ASSUME IndInv, NEW n \in Nodes, Send(n)
  PROVE  Keeps(n)
  <1>1. TypeOK /\ StagesFit /\ KeysBehind(n) /\ KeysBefore(n) /\ SetsFound(n)
    BY DEF IndInv
  <1>2. /\ n # 0 /\ pc[n] = "merge" /\ pc'[n] = "await" /\ stage' = stage /\ name' = name
        /\ from' = from /\ pSet' = pSet /\ uSet' = uSet /\ newP' = newP /\ newU' = newU
        /\ commits' = commits /\ \A m \in Nodes : m # n => Idle(m)
        /\ Put(MergeKey(n, n), Delta(n))
    BY <1>1 DEF Send, Goto, TypeOK, Idle
  <1>3. Merging(n) /\ Merging(n)'
    BY <1>2 DEF Merging
  <1>4. PICK nm \in Names, s \in 0 .. Degrees :
          /\ nm = name[n] /\ MergeKey(n, n) = <<nm, s, n>>
          /\ s = (IF nm = "users" THEN stage[n] + 1 ELSE stage[n])
          /\ KeyRound(nm, s) = Round(n) /\ KeyRound(nm, s) >= 0
    BY <1>1, <1>3, MergeKeyRound
  <1> DEFINE key == <<nm, s, n>>
  <1>5. /\ StepOf(n) /\ store'[key] = Delta(n) /\ put' = put \cup {key}
    BY <1>1, <1>2, <1>4, DeltaType, OnePut
  <1>6. Round(n)' = Round(n)
    BY <1>2, <1>3 DEF Round
  <1>7. KeysBehind(n)'
    <2>1. \A m \in Names, t \in 0 .. Degrees : <<m, t, n>> \in put' =>
            <<m, t, n>> \in put \/ (m = nm /\ t = s)
      BY <1>5
    <2>2. QED
      BY <1>1, <1>2, <1>4, <1>6, <2>1 DEF KeysBehind
  <1>8. KeysBefore(n)'
    BY <1>1, <1>5, <1>6 DEF KeysBefore
  <1>9. \A m \in Names, t \in 0 .. Degrees :
          <<m, t, n>> \in put' \ put => store'[<<m, t, n>>] = Found(m, t, n)'
    <2>1. Found(nm, s, n)' = New(store, nm, s, Rows(n))
      BY <1>2, <1>4, <1>5, PutFound
    <2>2. Delta(n) = New(store, nm, s, Rows(n))
      BY <1>2, <1>3, <1>4, DeltaFound DEF Mine
    <2>3. store'[key] = Found(nm, s, n)'
      BY <1>5, <2>1, <2>2
    <2>4. \A m \in Names, t \in 0 .. Degrees :
            <<m, t, n>> \in put' \ put => m = nm /\ t = s
      BY <1>5
    <2>5. QED
      BY <2>3, <2>4
  <1>10. SetsFound(n)'
    <2>1. /\ Rows(n)' = Rows(n) /\ Mine(n)' = Mine(n)
      BY <1>2, RowsKept DEF Mine
    <2>2. \A k \in put : store'[k] = store[k]
      BY <1>5 DEF StepOf
    <2>3. \A cs : New(store, nm, s, cs) = New(store', nm, s, cs)
      BY <1>1, <1>4, <2>2, RoundsAreInts, NewKept
    <2>4. stage[n] < Degrees /\ pc[n] # "read"
      BY <1>1, <1>2, <1>3 DEF StagesFit
    <2>5. CASE nm = "projects"
      <3>1. \A cs : NewProjects(store, stage[n], cs) = NewProjects(store', stage[n], cs)
        BY <1>4, <2>3, <2>5, NewType
      <3>2. /\ ProjectsBefore(store, stage[n]) = ProjectsBefore(store', stage[n])
            /\ UsersUpTo(store, stage[n]) = UsersUpTo(store', stage[n])
        BY <1>1, <2>2, <2>4, SetsKept
      <3>3. QED
        BY <1>1, <1>2, <1>3, <1>4, <2>1, <2>5, <3>1, <3>2 DEF SetsFound
    <2>6. CASE nm = "users"
      <3>1. \A cs : NewUsers(store, stage[n] + 1, cs) = NewUsers(store', stage[n] + 1, cs)
        BY <1>4, <2>3, <2>6, NewType
      <3>2. /\ ProjectsBefore(store, stage[n] + 1) = ProjectsBefore(store', stage[n] + 1)
            /\ UsersUpTo(store, stage[n]) = UsersUpTo(store', stage[n])
        BY <1>1, <1>3, <1>4, <2>2, <2>4, <2>6, SetsKept
      <3>3. QED
        BY <1>1, <1>2, <1>3, <1>4, <2>1, <2>6, <3>1, <3>2 DEF SetsFound
    <2>7. QED
      BY <1>4, <2>5, <2>6 DEF Names
  <1>11. QED
    BY <1>5, <1>7, <1>8, <1>9, <1>10 DEF Keeps

\* Node 0 adds what the rows of one more node add.
LEMMA CollectKeeps ==
  ASSUME IndInv, Collect
  PROVE  Keeps(0)
  <1>1. /\ 0 \in Nodes /\ TypeOK /\ StagesFit /\ KeysBehind(0) /\ KeysBefore(0) /\ SetsFound(0)
        /\ \A n \in Nodes : StoreFound(n)
    BY NodesFacts DEF IndInv
  <1> DEFINE i == from[0]
  <1>2. /\ pc[0] = "merge" /\ pc' = pc /\ stage' = stage /\ name' = name
        /\ from'[0] = i + 1 /\ pSet' = pSet /\ uSet' = uSet
        /\ put' = put /\ store' = store /\ commits' = commits
        /\ \A m \in Nodes : m # 0 => Idle(m)
    BY <1>1 DEF Collect, TypeOK, Idle
  <1>3. Merging(0) /\ Merging(0)' /\ i \in Nodes /\ i # 0 /\ i \in Nat
    BY <1>1, <1>2, LinusAssumption DEF Merging, Collect, TypeOK, Nodes
  <1>4. StepOf(0) /\ \A nm \in Names, t \in 0 .. Degrees : <<nm, t, 0>> \notin put' \ put
    BY <1>2, NoPut
  <1>5. Round(0)' = Round(0)
    BY <1>2 DEF Round, Merging
  <1>6. KeysBehind(0)' /\ KeysBefore(0)'
    BY <1>1, <1>2, <1>5 DEF KeysBehind, KeysBefore
  <1>7. PICK s \in 0 .. Degrees :
          /\ MergeKey(0, i) = <<name[0], s, i>> /\ name[0] \in Names
          /\ s = (IF name[0] = "users" THEN stage[0] + 1 ELSE stage[0])
          /\ KeyRound(name[0], s) >= 0
    BY <1>1, <1>3, MergeKeyRound
  <1>8. store[MergeKey(0, i)] = New(store, name[0], s, Rows(i))
    <2>1. <<name[0], s, i>> \in put
      BY <1>7 DEF Collect
    <2>2. KeyRound(name[0], s) \in Int
      BY <1>7, RoundsAreInts
    <2>3. QED
      BY <1>1, <1>3, <1>7, <2>1, <2>2 DEF StoreFound, Found
  <1>9. /\ Mine(0)' = Mine(0) \cup Rows(i) /\ Rows(0)' = Rows(0)
    BY <1>1, <1>2, <1>3, RowsKept, RowsCover DEF Mine
  <1>10. New(store, name[0], s, Mine(0)') =
           New(store, name[0], s, Mine(0)) \cup New(store, name[0], s, Rows(i))
    BY <1>9, NewUnion
  <1>11. SetsFound(0)'
    <2>1. CASE name[0] = "projects"
      <3>1. newP'[0] = newP[0] \cup (New(store, name[0], s, Rows(i)) \cap Pids)
        BY <1>1, <1>8, <2>1 DEF Collect, TypeOK
      <3>2. newP'[0] = NewProjects(store, stage[0], Mine(0)')
        BY <1>1, <1>3, <1>7, <1>10, <2>1, <3>1, NewType DEF SetsFound
      <3>3. QED
        BY <1>1, <1>2, <1>3, <1>9, <2>1, <3>2 DEF SetsFound, Merging
    <2>2. CASE name[0] = "users"
      <3>1. newU'[0] = newU[0] \cup (New(store, name[0], s, Rows(i)) \cap Uids)
        BY <1>1, <1>8, <2>2 DEF Collect, TypeOK
      <3>2. newU'[0] = NewUsers(store, stage[0] + 1, Mine(0)')
        BY <1>1, <1>3, <1>7, <1>10, <2>2, <3>1, NewType DEF SetsFound
      <3>3. QED
        BY <1>1, <1>2, <1>3, <1>9, <2>2, <3>2 DEF SetsFound, Merging
    <2>3. QED
      BY <1>7, <2>1, <2>2 DEF Names
  <1>12. QED
    BY <1>4, <1>6, <1>11 DEF Keeps

\* Two keys of the same round and the same node are one.
LEMMA RoundOfOneKey ==
  ASSUME NEW nm \in Names, NEW s \in 0 .. Degrees, NEW m \in Names, NEW t \in 0 .. Degrees,
         KeyRound(m, t) = KeyRound(nm, s)
  PROVE  m = nm /\ t = s
  <1>1. Degrees \in Nat /\ s \in Nat /\ t \in Nat
    BY LinusAssumption
  <1>2. QED
    BY <1>1 DEF KeyRound, Names

\* A node that has the merged set of its round enters the next round with what was merged.
LEMMA MergedKeeps ==
  ASSUME IndInv, NEW n \in Nodes, Merging(n), NEW set, Merged(n, set), StepOf(n),
         NEW nm \in Names, NEW s \in 0 .. Degrees,
         nm = name[n], s = (IF nm = "users" THEN stage[n] + 1 ELSE stage[n]),
         KeyRound(nm, s) = Round(n), KeyRound(nm, s) >= 0,
         <<nm, s, 0>> \in put', store'[<<nm, s, 0>>] = set, set = New(store, nm, s, AllRows),
         \A m \in Names, t \in 0 .. Degrees : <<m, t, n>> \in put' => KeyRound(m, t) <= Round(n)
  PROVE  KeysBehind(n)' /\ KeysBefore(n)' /\ SetsFound(n)'
  <1>1. /\ TypeOK /\ StagesFit /\ KeysBehind(n) /\ KeysBefore(n) /\ SetsFound(n)
        /\ commits' = commits /\ put \subseteq put' /\ \A k \in put : store'[k] = store[k]
    BY DEF IndInv, StepOf
  <1>2. /\ stage[n] \in 0 .. Degrees /\ stage[n] < Degrees /\ Degrees \in Nat
        /\ Round(n) \in Int /\ pc[n] # "read"
    BY <1>1, RoundsAreInts, LinusAssumption DEF TypeOK, StagesFit, Merging
  <1>3. ASSUME nm = "projects"
        PROVE  /\ name'[n] = "users" /\ pc'[n] = "merge" /\ stage'[n] = stage[n] /\ from'[n] = 1
               /\ pSet'[n] = pSet[n] \cup set /\ newU'[n] = UsersTagged(n, set)
               /\ uSet'[n] = uSet[n] \cup UsersTagged(n, set)
    BY <1>1, <1>3 DEF Merged, ProjectsMerged, UsersMerged, Goto, TypeOK
  <1>4. ASSUME nm = "users"
        PROVE  /\ pc'[n] = "step" /\ stage'[n] = stage[n] + 1
               /\ pSet'[n] = pSet[n] /\ uSet'[n] = uSet[n] \cup set
    BY <1>1, <1>4 DEF Merged, ProjectsMerged, UsersMerged, Goto, TypeOK
  <1>5. Round(n)' = Round(n) + 1
    <2>1. CASE nm = "projects"
      BY <1>2, <1>3, <2>1 DEF Round, Merging
    <2>2. CASE nm = "users"
      BY <1>2, <1>4, <2>2 DEF Round, Merging
    <2>3. QED
      BY <2>1, <2>2 DEF Names
  <1>6. KeysBehind(n)'
    <2>1. \A m \in Names, t \in 0 .. Degrees : <<m, t, n>> \in put' /\ n # 0 => KeyRound(m, t) >= 0
      BY <1>1 DEF KeysBehind, StepOf
    <2>2. \A m \in Names, t \in 0 .. Degrees : <<m, t, n>> \in put' => KeyRound(m, t) < Round(n)'
      BY <1>2, <1>5, RoundsAreInts
    <2>3. QED
      BY <2>1, <2>2 DEF KeysBehind
  <1>7. KeysBefore(n)'
    <2> SUFFICES ASSUME NEW m \in Names, NEW t \in 0 .. Degrees, KeyRound(m, t) < Round(n)'
                 PROVE  <<m, t, 0>> \in put'
      BY DEF KeysBefore
    <2>1. KeyRound(m, t) < Round(n) \/ KeyRound(m, t) = KeyRound(nm, s)
      BY <1>2, <1>5, RoundsAreInts
    <2>2. QED
      BY <1>1, <2>1, RoundOfOneKey DEF KeysBefore
  <1>8. Rows(n)' = Rows(n) /\ (from'[n] = 1 => Mine(n)' = Rows(n))
    BY <1>1, RowsKept, RowsCover DEF Mine
  <1>9. New(store, nm, s, Rows(n)) \subseteq set
    BY <1>1, RowsCover, NewUnion
  <1>10. ASSUME nm = "projects"
         PROVE  SetsFound(n)'
    <2>1. /\ pSet[n] = ProjectsBefore(store, s) \cup NewProjects(store, s, Rows(n))
          /\ uSet[n] = UsersUpTo(store, s) /\ s = stage[n]
      BY <1>1, <1>10 DEF SetsFound
    <2>2. /\ ProjectsBefore(store, s) = ProjectsBefore(store', s)
          /\ UsersUpTo(store, s) = UsersUpTo(store', s)
      BY <1>1, <1>2, <2>1, SetsKept
    <2>3. pSet'[n] = ProjectsBefore(store', s + 1)
      <3>1. pSet'[n] = ProjectsBefore(store, s) \cup set
        BY <1>3, <1>9, <1>10, <2>1, NewType
      <3>2. ProjectsBefore(store', s + 1) = ProjectsBefore(store', s) \cup store'[<<"projects", s, 0>>]
        BY <1>2, <2>1, ProjectsNext
      <3>3. store'[<<"projects", s, 0>>] = set
        BY <1>10
      <3>4. QED
        BY <2>2, <3>1, <3>2, <3>3
    <2>4. UsersTagged(n, set) = NewUsers(store', s + 1, Rows(n))
      <3>1. (s + 1) - 1 = s
        BY <1>2, <2>1
      <3>2. QED
        BY <1>10, <2>1, <2>2, <3>1 DEF UsersTagged, NewUsers, Rows
    <2>5. QED
      BY <1>3, <1>8, <1>10, <2>1, <2>2, <2>3, <2>4 DEF SetsFound, Merging
  <1>11. ASSUME nm = "users"
         PROVE  SetsFound(n)'
    <2>1. /\ uSet[n] = UsersUpTo(store, stage[n]) \cup NewUsers(store, s, Rows(n))
          /\ pSet[n] = ProjectsBefore(store, s) /\ s = stage[n] + 1
      BY <1>1, <1>11 DEF SetsFound
    <2>2. /\ ProjectsBefore(store, s) = ProjectsBefore(store', s)
          /\ UsersUpTo(store, stage[n]) = UsersUpTo(store', stage[n])
      BY <1>1, <1>2, <1>11, <2>1, SetsKept
    <2>3. uSet'[n] = UsersUpTo(store', s)
      <3>1. uSet'[n] = UsersUpTo(store, stage[n]) \cup set
        BY <1>4, <1>9, <1>11, <2>1, NewType
      <3>2. UsersUpTo(store', s) = UsersUpTo(store', stage[n]) \cup store'[<<"users", s, 0>>]
        BY <1>2, <2>1, UsersNext
      <3>3. store'[<<"users", s, 0>>] = set
        BY <1>11
      <3>4. QED
        BY <2>2, <3>1, <3>2, <3>3
    <2>4. QED
      BY <1>4, <1>11, <2>1, <2>2, <2>3 DEF SetsFound, Merging
  <1>12. QED
    BY <1>6, <1>7, <1>10, <1>11 DEF Names

\* Node 0 publishes what the rows of all nodes add.
LEMMA PublishKeeps ==
  ASSUME IndInv, Publish
  PROVE  Keeps(0)
  <1>1. 0 \in Nodes /\ TypeOK /\ StagesFit /\ KeysBehind(0)
    BY NodesFacts DEF IndInv
  <1>2. /\ pc[0] = "merge" /\ Merging(0) /\ commits' = commits
        /\ \A m \in Nodes : m # 0 => Idle(m)
    BY <1>1 DEF Publish, Merging, Merged, ProjectsMerged, UsersMerged, Goto, TypeOK, Idle
  <1>3. PICK nm \in Names, s \in 0 .. Degrees :
          /\ nm = name[0] /\ MergeKey(0, 0) = <<nm, s, 0>>
          /\ s = (IF nm = "users" THEN stage[0] + 1 ELSE stage[0])
          /\ KeyRound(nm, s) = Round(0) /\ KeyRound(nm, s) >= 0
    BY <1>1, <1>2, MergeKeyRound
  <1> DEFINE key == <<nm, s, 0>>
  <1>4. StepOf(0) /\ store'[key] = Delta(0) /\ put' = put \cup {key}
    BY <1>1, <1>2, <1>3, DeltaType, OnePut DEF Publish
  <1>5. Delta(0) = New(store, nm, s, AllRows)
    BY <1>1, <1>2, <1>3, DeltaFound, RowsCover DEF Mine, Publish, AllCollected
  <1>6. \A m \in Names, t \in 0 .. Degrees : <<m, t, 0>> \in put' \ put => m = nm /\ t = s
    BY <1>4
  <1>7. \A m \in Names, t \in 0 .. Degrees : <<m, t, 0>> \in put' => KeyRound(m, t) <= Round(0)
    BY <1>1, <1>3, <1>6, RoundsAreInts DEF KeysBehind
  <1>8. KeysBehind(0)' /\ KeysBefore(0)' /\ SetsFound(0)'
    <2>1. Merged(0, Delta(0)) /\ key \in put'
      BY <1>4 DEF Publish
    <2>2. QED
      BY <1>1, <1>2, <1>3, <1>4, <1>5, <1>7, <2>1, MergedKeeps
  <1>9. \A m \in Names, t \in 0 .. Degrees :
          <<m, t, 0>> \in put' \ put => store'[<<m, t, 0>>] = Found(m, t, 0)'
    <2>1. Found(nm, s, 0)' = New(store, nm, s, AllRows)
      BY <1>1, <1>3, <1>4, PutFound
    <2>2. QED
      BY <1>4, <1>5, <1>6, <2>1
  <1>10. QED
    BY <1>4, <1>8, <1>9 DEF Keeps

\* Another node receives what its own rows add, and what those of the others add.
LEMMA ReceiveKeeps ==
  ASSUME IndInv, NEW n \in Nodes, Receive(n)
  PROVE  Keeps(n)
  <1> DEFINE all == IF name[n] = "projects" THEN Pids ELSE Uids
             set == Delta(n) \cup (store[MergeKey(n, 0)] \cap all)
  <1>1. 0 \in Nodes /\ TypeOK /\ StagesFit /\ KeysBehind(n) /\ StoreFound(0)
    BY NodesFacts DEF IndInv
  <1>2. /\ pc[n] = "await" /\ n # 0 /\ Merging(n) /\ commits' = commits
        /\ store' = store /\ put' = put /\ Merged(n, set)
        /\ \A m \in Nodes : m # n => Idle(m)
    <2>1. /\ pc[n] = "await" /\ store' = store /\ put' = put /\ Merged(n, set)
      BY DEF Receive
    <2>2. n # 0 /\ Merging(n)
      BY <1>1, <2>1 DEF Merging, StagesFit
    <2>3. commits' = commits
      BY <2>1 DEF Merged, ProjectsMerged, UsersMerged
    <2>4. ASSUME NEW m \in Nodes, m # n PROVE Idle(m)
      <3>1. CASE ProjectsMerged(n, set)
        BY <1>1, <2>4, <3>1 DEF ProjectsMerged, Goto, TypeOK, Idle
      <3>2. CASE UsersMerged(n, set)
        BY <1>1, <2>4, <3>2 DEF UsersMerged, Goto, TypeOK, Idle
      <3>3. QED
        BY <2>1, <3>1, <3>2 DEF Merged
    <2>5. QED
      BY <2>1, <2>2, <2>3, <2>4
  <1>3. PICK nm \in Names, s \in 0 .. Degrees :
          /\ nm = name[n] /\ MergeKey(n, 0) = <<nm, s, 0>>
          /\ s = (IF nm = "users" THEN stage[n] + 1 ELSE stage[n])
          /\ KeyRound(nm, s) = Round(n) /\ KeyRound(nm, s) >= 0
    BY <1>1, <1>2, MergeKeyRound
  <1>4. StepOf(n) /\ \A m \in Names, t \in 0 .. Degrees : <<m, t, n>> \notin put' \ put
    BY <1>2, NoPut
  <1>5. <<nm, s, 0>> \in put /\ store[<<nm, s, 0>>] = New(store, nm, s, AllRows)
    <2>1. <<nm, s, 0>> \in put
      BY <1>3 DEF Receive
    <2>2. QED
      BY <1>1, <1>3, <2>1, RoundsAreInts DEF StoreFound, Found
  <1>6. set = New(store, nm, s, AllRows)
    <2>1. Delta(n) = New(store, nm, s, Rows(n))
      BY <1>2, <1>3, DeltaFound DEF Mine
    <2>2. New(store, nm, s, Rows(n)) \subseteq New(store, nm, s, AllRows)
      BY <1>1, RowsCover, NewUnion
    <2>3. New(store, nm, s, AllRows) \subseteq all
      BY <1>3, NewType DEF Names
    <2>4. QED
      BY <1>3, <1>5, <2>1, <2>2, <2>3
  <1>7. \A m \in Names, t \in 0 .. Degrees : <<m, t, n>> \in put' => KeyRound(m, t) <= Round(n)
    BY <1>1, <1>2, RoundsAreInts DEF KeysBehind
  <1> HIDE DEF set
  <1>8. KeysBehind(n)' /\ KeysBefore(n)' /\ SetsFound(n)'
    BY <1>2, <1>3, <1>4, <1>5, <1>6, <1>7, MergedKeeps
  <1>9. QED
    BY <1>4, <1>8 DEF Keeps

-----------------------------------------------------------------------------
(* The theorems *)

\* The invariant holds before the first step.
LEMMA InitInd == Init => IndInv
  <1> SUFFICES ASSUME Init PROVE IndInv
    OBVIOUS
  <1>1. /\ \A n \in Nodes : Round(n) = -1 /\ ~Merging(n)
        /\ \A nm \in Names, s \in 0 .. Degrees : KeyRound(nm, s) >= -1
    BY LinusAssumption DEF Init, Round, Merging, KeyRound
  <1>2. TypeOK
    BY LinusAssumption DEF Init, TypeOK, Labels, Names
  <1>3. StagesFit
    BY <1>1 DEF Init, StagesFit
  <1>4. \A n \in Nodes : KeysBehind(n) /\ StoreFound(n)
    BY DEF Init, KeysBehind, StoreFound
  <1>5. \A n \in Nodes : KeysBefore(n) /\ SetsFound(n)
    <2>1. \A nm \in Names, s \in 0 .. Degrees : ~(KeyRound(nm, s) < -1)
      BY <1>1, RoundsAreInts
    <2>2. \A n \in Nodes : KeysBefore(n)
      BY <1>1, <2>1 DEF KeysBefore
    <2>3. \A n \in Nodes : SetsFound(n)
      BY <1>1 DEF SetsFound, Init
    <2>4. QED
      BY <2>2, <2>3
  <1>6. QED
    BY <1>2, <1>3, <1>4, <1>5 DEF IndInv

\* Every step is one of some node, which keeps the invariant there.
LEMMA NextKeeps ==
  ASSUME IndInv, Next
  PROVE  \E x \in Nodes : Keeps(x)
  <1>1. CASE Node0
    BY <1>1, NodesFacts, ReadInputKeeps, CollectKeeps, PublishKeeps DEF Node0
  <1>2. ASSUME NEW n \in Nodes, Node(n)
        PROVE  Keeps(n)
    BY <1>2, AwaitInputKeeps, StepKeeps, FinishKeeps, SendKeeps, ReceiveKeeps DEF Node
  <1>3. QED
    BY <1>1, <1>2 DEF Next

\* So it keeps it at all nodes.
LEMMA NextInd ==
  ASSUME IndInv, [Next]_vars
  PROVE  IndInv'
  <1>1. TypeOK' /\ StagesFit'
    BY NextType DEF IndInv
  <1>2. CASE Next
    <2>1. PICK x \in Nodes : Keeps(x)
      BY <1>2, NextKeeps
    <2> SUFFICES ASSUME NEW n \in Nodes
                 PROVE  KeysBehind(n)' /\ KeysBefore(n)' /\ StoreFound(n)' /\ SetsFound(n)'
      BY <1>1 DEF IndInv
    <2>2. /\ TypeOK /\ StagesFit /\ StepOf(x)
          /\ KeysBehind(n) /\ KeysBefore(n) /\ StoreFound(n) /\ SetsFound(n)
      BY <2>1 DEF IndInv, Keeps
    <2>3. KeysBehind(n)' /\ KeysBefore(n)' /\ SetsFound(n)'
      BY <2>1, <2>2, IdleKeys, IdleSets DEF Keeps
    <2>4. StoreFound(n)'
      <3> SUFFICES ASSUME NEW nm \in Names, NEW s \in 0 .. Degrees, <<nm, s, n>> \in put'
                   PROVE  store'[<<nm, s, n>>] = Found(nm, s, n)'
        BY DEF StoreFound, Found
      <3>1. CASE <<nm, s, n>> \in put
        BY <2>2, <3>1, StoreKept
      <3>2. CASE <<nm, s, n>> \notin put
        BY <2>1, <2>2, <3>2 DEF Keeps, StepOf
      <3>3. QED
        BY <3>1, <3>2
    <2>5. QED
      BY <2>3, <2>4
  <1>3. CASE UNCHANGED vars
    <2>1. /\ commits' = commits /\ store' = store /\ put' = put
          /\ \A n \in Nodes : Idle(n)
      BY <1>3 DEF vars, Idle
    <2> SUFFICES ASSUME NEW n \in Nodes
                 PROVE  KeysBehind(n)' /\ KeysBefore(n)' /\ StoreFound(n)' /\ SetsFound(n)'
      BY <1>1 DEF IndInv
    <2>2. KeysBehind(n) /\ KeysBefore(n) /\ StoreFound(n) /\ SetsFound(n)
      BY DEF IndInv
    <2>3. Round(n)' = Round(n) /\ Merging(n)' = Merging(n)
      BY <2>1 DEF Idle, Round, Merging
    <2>4. Rows(n)' = Rows(n) /\ Mine(n)' = Mine(n) /\ AllRows' = AllRows
      BY <2>1, RowsKept DEF Idle, Mine
    <2>5. KeysBehind(n)' /\ KeysBefore(n)'
      BY <2>1, <2>2, <2>3 DEF Idle, KeysBehind, KeysBefore
    <2>6. StoreFound(n)'
      BY <2>1, <2>2, <2>4 DEF StoreFound, Found
    <2>7. SetsFound(n)'
      BY <2>1, <2>2, <2>3, <2>4 DEF Idle, SetsFound
    <2>8. QED
      BY <2>5, <2>6, <2>7
  <1>4. QED
    BY <1>2, <1>3

\* The inductive invariant holds in every reachable state, for any number of nodes, stages
\* and rows and any commits: what is in the store is what all rows add to the rounds before
\* (linus.h:93-112).
THEOREM IndInvHolds == Spec => []IndInv
  BY InitInd, NextInd, PTL DEF Spec

\* No key is put twice (linus.h:125-129): merge waits in every round for a key that no
\* earlier round has put.
THEOREM KeysPutOnce == Spec => PutOnce
  <1>1. IndInv /\ [Next]_vars => [\A k \in put : store'[k] = store[k] /\ k \in put']_vars
    <2> SUFFICES ASSUME IndInv, Next, NEW k \in put
                 PROVE  store'[k] = store[k] /\ k \in put'
      OBVIOUS
    <2>1. PICK x \in Nodes : StepOf(x)
      BY NextKeeps DEF Keeps
    <2>2. QED
      BY <2>1 DEF StepOf
  <1>2. QED
    BY <1>1, IndInvHolds, PTL DEF Spec, PutOnce

\* Nodes between the same two stages have the same sets of projects and of users, however
\* the rows are spread over them (linus.h:117-122).
THEOREM NodesAgree ==
  Spec => [](\A n, m \in Nodes :
               /\ pc[n] \in {"step", "done"} /\ pc[m] \in {"step", "done"} /\ stage[n] = stage[m]
               => pSet[n] = pSet[m] /\ uSet[n] = uSet[m])
  <1>1. IndInv => \A n, m \in Nodes :
          /\ pc[n] \in {"step", "done"} /\ pc[m] \in {"step", "done"} /\ stage[n] = stage[m]
          => pSet[n] = pSet[m] /\ uSet[n] = uSet[m]
    BY DEF IndInv, SetsFound
  <1>2. QED
    BY <1>1, IndInvHolds, PTL

-----------------------------------------------------------------------------
(* One machine that looks at all the commits *)

\* What the application is given: commits to projects and by users that have rows, and
\* Linus among the users.  A Set answers true for any other index (set.h:67).
RowsExist ==
  /\ LinusId \in Uids
  /\ \A table \in Tables : \A r \in DOMAIN table : table[r].pid \in Pids /\ table[r].uid \in Uids

\* A set of numbers that is not empty has a least element.
LEMMA LeastNumber == \A T \in SUBSET Nat : T # {} => \E m \in T : \A c \in T : m <= c
  <1> SUFFICES ASSUME NEW T \in SUBSET Nat, T # {}
               PROVE  \E m \in T : \A c \in T : m <= c
    OBVIOUS
  <1> DEFINE R == {ss \in Nat \X Nat : ss[1] < ss[2]}
  <1>1. IsWellFoundedOn(R, Nat)
    BY NatLessThanWellFounded DEF OpToRel
  <1>2. PICK m \in T : \A c \in T : <<c, m>> \notin R
    <2> HIDE DEF R
    <2> QED
      BY <1>1, WFMin
  <1>3. ASSUME NEW c \in T
        PROVE  m <= c
    <2>1. c \in Nat /\ m \in Nat /\ <<c, m>> \in Nat \X Nat
      OBVIOUS
    <2>2. <<c, m>>[1] = c /\ <<c, m>>[2] = m
      OBVIOUS
    <2>3. QED
      BY <1>2, <2>1, <2>2
  <1>4. QED
    BY <1>3

\* The users that were merged up to stage s, and Linus.
Reached(st, s) == {LinusId} \cup UsersUpTo(st, s)

\* The merged sets of the stages before s are what all rows add.
MergedBefore(s) ==
  /\ store[<<"users", 0, 0>>] = {LinusId}
  /\ \A t \in 0 .. s - 1 :
       /\ store[<<"projects", t, 0>>] = NewProjects(store, t, AllRows)
       /\ store[<<"users", t + 1, 0>>] = NewUsers(store, t + 1, AllRows)

\* So they are before the stage of a node between two stages.
LEMMA StagesMerged ==
  ASSUME IndInv, NEW n \in Nodes, pc[n] \in {"step", "done"}
  PROVE  stage[n] > 0 => MergedBefore(stage[n])
  <1>1. /\ 0 \in Nodes /\ stage[n] \in 0 .. Degrees /\ Degrees \in Nat
        /\ KeysBefore(n) /\ StoreFound(0) /\ Round(n) = 2 * stage[n]
    BY NodesFacts, LinusAssumption DEF IndInv, TypeOK, Round, Merging
  <1>2. ASSUME NEW nm \in Names, NEW s \in 0 .. Degrees, KeyRound(nm, s) < Round(n)
        PROVE  store[<<nm, s, 0>>] = Found(nm, s, 0)
    BY <1>1, <1>2 DEF KeysBefore, StoreFound
  <1>3. ASSUME stage[n] > 0
        PROVE  store[<<"users", 0, 0>>] = {LinusId}
    <2>1. KeyRound("users", 0) = -1 /\ 0 \in 0 .. Degrees /\ "users" \in Names
      BY <1>1 DEF KeyRound, Names
    <2>2. QED
      BY <1>1, <1>2, <1>3, <2>1 DEF Found
  <1>4. ASSUME NEW t \in 0 .. stage[n] - 1
        PROVE  /\ store[<<"projects", t, 0>>] = NewProjects(store, t, AllRows)
               /\ store[<<"users", t + 1, 0>>] = NewUsers(store, t + 1, AllRows)
    <2>1. t \in 0 .. Degrees /\ t + 1 \in 0 .. Degrees /\ "users" \in Names /\ "projects" \in Names
      BY <1>1 DEF Names
    <2>2. /\ KeyRound("projects", t) = 2 * t /\ KeyRound("users", t + 1) = 2 * t + 1
          /\ 2 * t >= 0 /\ 2 * t + 1 < Round(n) /\ 2 * t < Round(n)
      BY <1>1, <2>1 DEF KeyRound
    <2>3. /\ store[<<"projects", t, 0>>] = Found("projects", t, 0)
          /\ store[<<"users", t + 1, 0>>] = Found("users", t + 1, 0)
      BY <1>2, <2>1, <2>2
    <2>4. /\ ~(KeyRound("projects", t) < 0) /\ ~(KeyRound("users", t + 1) < 0)
      BY <2>1, <2>2
    <2>5. QED
      BY <2>3, <2>4, NewType DEF Found
  <1>5. QED
    BY <1>3, <1>4 DEF MergedBefore

\* The commits as rows, and as one machine reads them.
LEMMA OfRows ==
  ASSUME NEW ids
  PROVE  /\ ProjectsOf(ids) = {c.pid : c \in {d \in AllRows : d.uid \in ids}}
         /\ AuthorsOf(ids) = {c.uid : c \in {d \in AllRows : d.pid \in ids}}
  BY DEF ProjectsOf, AuthorsOf, AllRows

\* What two sets reach is what each of them reaches.
LEMMA OfUnion ==
  ASSUME NEW ids1, NEW ids2
  PROVE  /\ ProjectsOf(ids1 \cup ids2) = ProjectsOf(ids1) \cup ProjectsOf(ids2)
         /\ AuthorsOf(ids1 \cup ids2) = AuthorsOf(ids1) \cup AuthorsOf(ids2)
  BY DEF ProjectsOf, AuthorsOf

\* Every commit is to a project, and by a user, that has a row.
LEMMA RowsInRange ==
  ASSUME TypeOK, RowsExist
  PROVE  \A c \in AllRows : c.pid \in Pids /\ c.uid \in Uids
  BY DEF TypeOK, RowsExist, AllRows

\* A merged set is what one machine finds, without what was merged before.
LEMMA NewIsOf ==
  ASSUME TypeOK, RowsExist, NEW t \in Nat
  PROVE  /\ store[<<"users", t, 0>>] \subseteq Uids =>
              NewProjects(store, t, AllRows) =
                ProjectsOf(store[<<"users", t, 0>>]) \ ProjectsBefore(store, t)
         /\ NewUsers(store, t + 1, AllRows) =
              AuthorsOf(store[<<"projects", t, 0>>]) \ UsersUpTo(store, t)
  <1>1. \A c \in AllRows : c.pid \in Pids /\ c.uid \in Uids
    BY RowsInRange
  <1>2. (t + 1) - 1 = t
    OBVIOUS
  <1>3. ASSUME store[<<"users", t, 0>>] \subseteq Uids
        PROVE  NewProjects(store, t, AllRows) =
                 ProjectsOf(store[<<"users", t, 0>>]) \ ProjectsBefore(store, t)
    BY <1>1, <1>3, OfRows DEF NewProjects, Test
  <1>4. NewUsers(store, t + 1, AllRows) =
          AuthorsOf(store[<<"projects", t, 0>>]) \ UsersUpTo(store, t)
    BY <1>1, <1>2, OfRows DEF NewUsers, Test
  <1>5. QED
    BY <1>3, <1>4

\* What one machine finds in stage t: the users are the authors of the projects, and the
\* projects those of the users that were reached before.
OneMachine(t) ==
  /\ UsersUpTo(store, t) = AuthorsOf(ProjectsBefore(store, t))
  /\ t > 0 => ProjectsBefore(store, t) = ProjectsOf(Reached(store, t - 1))

\* If a stage finds what one machine finds, so does the next.
LEMMA OneMachineNext ==
  ASSUME TypeOK, RowsExist, NEW s \in Nat, MergedBefore(s), NEW t \in 0 .. s - 1, OneMachine(t)
  PROVE  OneMachine(t + 1)
  <1>1. t \in Nat /\ t + 1 > 0 /\ (t + 1) - 1 = t
    OBVIOUS
  <1> DEFINE us == store[<<"users", t, 0>>]
             ps == store[<<"projects", t, 0>>]
             PB(x) == ProjectsBefore(store, x)
             UU(x) == UsersUpTo(store, x)
  <1>2. us \subseteq Uids
    <2>1. CASE t = 0
      BY <2>1 DEF MergedBefore, RowsExist
    <2>2. CASE t > 0
      <3>1. t - 1 \in 0 .. s - 1 /\ (t - 1) + 1 = t
        BY <2>2
      <3>2. store[<<"users", (t - 1) + 1, 0>>] = NewUsers(store, (t - 1) + 1, AllRows)
        BY <3>1 DEF MergedBefore
      <3>3. QED
        BY <3>1, <3>2, NewType
    <2>3. QED
      BY <2>1, <2>2
  <1>3. ps = ProjectsOf(us) \ PB(t) /\ store[<<"users", t + 1, 0>>] = AuthorsOf(ps) \ UU(t)
    BY <1>1, <1>2, NewIsOf DEF MergedBefore
  <1>4. PB(t + 1) = PB(t) \cup ps /\ UU(t + 1) = UU(t) \cup store[<<"users", t + 1, 0>>]
    BY <1>1, ProjectsNext, UsersNext
  <1>5. UU(t + 1) = AuthorsOf(PB(t + 1))
    <2>1. AuthorsOf(PB(t) \cup ps) = AuthorsOf(PB(t)) \cup AuthorsOf(ps)
      BY OfUnion
    <2>2. UU(t) = AuthorsOf(PB(t))
      BY DEF OneMachine
    <2>3. QED
      BY <1>3, <1>4, <2>1, <2>2
  <1>6. PB(t + 1) = ProjectsOf(Reached(store, t))
    <2>1. CASE t = 0
      <3>1. PB(0) = {} /\ UU(0) = {}
        BY NoneBefore
      <3>2. Reached(store, 0) = us
        BY <2>1, <3>1 DEF Reached, MergedBefore
      <3>3. QED
        BY <1>3, <1>4, <2>1, <3>1, <3>2
    <2>2. CASE t > 0
      <3>1. t - 1 \in Nat /\ (t - 1) + 1 = t
        BY <2>2
      <3>2. UU((t - 1) + 1) = UU(t - 1) \cup store[<<"users", (t - 1) + 1, 0>>]
        BY <3>1, UsersNext
      <3>3. Reached(store, t) = Reached(store, t - 1) \cup us
        BY <3>1, <3>2 DEF Reached
      <3>4. ProjectsOf(Reached(store, t)) = ProjectsOf(Reached(store, t - 1)) \cup ProjectsOf(us)
        BY <3>3, OfUnion
      <3>5. PB(t) = ProjectsOf(Reached(store, t - 1))
        BY <2>2 DEF OneMachine
      <3>6. QED
        BY <1>3, <1>4, <3>4, <3>5
    <2>3. QED
      BY <1>1, <2>1, <2>2
  <1>7. QED
    BY <1>1, <1>5, <1>6 DEF OneMachine

\* So every stage does.
LEMMA OneMachineAlways ==
  ASSUME TypeOK, RowsExist, NEW s \in Nat, MergedBefore(s)
  PROVE  \A t \in 0 .. s : OneMachine(t)
  <1> DEFINE Bad == {t \in 0 .. s : ~OneMachine(t)}
  <1> SUFFICES ASSUME Bad # {} PROVE FALSE
    OBVIOUS
  <1>1. PICK t \in Bad : \A c \in Bad : t <= c
    <2>1. Bad \in SUBSET Nat
      OBVIOUS
    <2> HIDE DEF Bad
    <2>2. QED
      BY <2>1, LeastNumber
  <1>2. t \in 0 .. s /\ ~OneMachine(t)
    OBVIOUS
  <1>3. CASE t = 0
    <2>1. AuthorsOf({}) = {}
      BY DEF AuthorsOf
    <2>2. OneMachine(0)
      BY <2>1, NoneBefore DEF OneMachine
    <2>3. QED
      BY <1>2, <1>3, <2>2
  <1>4. CASE t > 0
    <2>1. t - 1 \in 0 .. s - 1 /\ (t - 1) + 1 = t /\ t - 1 \in 0 .. s /\ ~(t <= t - 1)
      BY <1>2, <1>4
    <2>2. OneMachine(t - 1)
      BY <1>1, <2>1
    <2>3. OneMachine((t - 1) + 1)
      BY <2>1, <2>2, OneMachineNext
    <2>4. QED
      BY <1>2, <2>1, <2>3
  <1>5. QED
    BY <1>2, <1>3, <1>4

\* The users within d degrees are those that were merged up to stage d, and Linus.
LEMMA WithinReached ==
  ASSUME TypeOK, RowsExist, NEW s \in Nat, MergedBefore(s), NEW d \in 0 .. s
  PROVE  Within(d) = Reached(store, d)
  <1> DEFINE More(us) == us \cup AuthorsOf(ProjectsOf(us))
             IsNear(f) == f = [i \in 0 .. d |-> IF i = 0 THEN {LinusId} ELSE More(f[i - 1])]
             g == CHOOSE f : IsNear(f)
             R(x) == Reached(store, x)
  <1>1. Within(d) = g[d]
    BY DEF Within
  <1>2. R(0) = {LinusId}
    BY NoneBefore DEF Reached
  <1>3. ASSUME NEW t \in 1 .. d
        PROVE  R(t) = More(R(t - 1))
    <2>1. t \in 0 .. s /\ t > 0 /\ t - 1 \in Nat /\ (t - 1) + 1 = t
      BY <1>3
    <2>2. UsersUpTo(store, t) = AuthorsOf(ProjectsOf(R(t - 1)))
      BY <2>1, OneMachineAlways DEF OneMachine
    <2>3. UsersUpTo(store, (t - 1) + 1) = UsersUpTo(store, t - 1) \cup store[<<"users", (t - 1) + 1, 0>>]
      BY <2>1, UsersNext
    <2>4. QED
      BY <2>1, <2>2, <2>3 DEF Reached
  <1> HIDE DEF More
  <1>4. IsNear([i \in 0 .. d |-> R(i)])
    <2> DEFINE f == [i \in 0 .. d |-> R(i)]
    <2>1. ASSUME NEW i \in 0 .. d
          PROVE  f[i] = IF i = 0 THEN {LinusId} ELSE More(f[i - 1])
      <3>1. CASE i = 0
        BY <1>2, <3>1
      <3>2. CASE i # 0
        <4>1. i \in 1 .. d /\ i - 1 \in 0 .. d
          BY <3>2
        <4>2. f[i] = R(i) /\ f[i - 1] = R(i - 1)
          BY <4>1
        <4>3. QED
          BY <1>3, <3>2, <4>1, <4>2
      <3>3. QED
        BY <3>1, <3>2
    <2>2. QED
      BY <2>1
  <1>5. IsNear(g)
    <2> HIDE DEF IsNear
    <2>1. QED
      BY <1>4
  <1>6. \A i \in 0 .. d : g[i] = IF i = 0 THEN {LinusId} ELSE More(g[i - 1])
    <2> HIDE DEF g
    <2>1. QED
      BY <1>5
  <1> HIDE DEF g, R
  <1> DEFINE Bad == {i \in 0 .. d : g[i] # R(i)}
  <1>7. Bad = {}
    <2> SUFFICES ASSUME Bad # {} PROVE FALSE
      OBVIOUS
    <2>1. PICK i \in Bad : \A c \in Bad : i <= c
      <3>1. Bad \in SUBSET Nat
        OBVIOUS
      <3> HIDE DEF Bad
      <3>2. QED
        BY <3>1, LeastNumber
    <2>2. i \in 0 .. d /\ g[i] # R(i) /\ i # 0
      BY <1>2, <1>6
    <2>3. i - 1 \in 0 .. d /\ i \in 1 .. d /\ ~(i <= i - 1)
      BY <2>2
    <2>4. g[i - 1] = R(i - 1)
      BY <2>1, <2>3
    <2>5. QED
      BY <1>3, <1>6, <2>2, <2>3, <2>4
  <1>8. g[d] = R(d)
    BY <1>7
  <1>9. QED
    BY <1>1, <1>8 DEF R

\* After d stages each node has exactly the projects of the users within d - 1 degrees of
\* Linus, and their authors, for any number of nodes and rows in a block and any commits
\* to projects and by users that exist (linus.h:36-37, projectstagger.h:7-14): how the
\* rows are spread makes no difference to the outputs.
THEOREM DegreesFound == RowsExist => (Spec => []DegreesOfLinus)
  <1> SUFFICES ASSUME RowsExist
               PROVE  Spec => []DegreesOfLinus
    OBVIOUS
  <1>1. IndInv => DegreesOfLinus
    <2> SUFFICES ASSUME IndInv, NEW n \in Nodes, pc[n] \in {"step", "done"}, stage[n] > 0
                 PROVE  LET ps == ProjectsOf(Within(stage[n] - 1)) IN
                        pSet[n] = ps /\ uSet[n] = AuthorsOf(ps)
      BY DEF DegreesOfLinus
    <2>1. TypeOK /\ SetsFound(n)
      BY DEF IndInv
    <2>2. stage[n] \in Nat /\ stage[n] - 1 \in 0 .. stage[n] /\ stage[n] \in 0 .. stage[n]
      BY <2>1 DEF TypeOK
    <2>3. MergedBefore(stage[n])
      BY StagesMerged
    <2>4. Within(stage[n] - 1) = Reached(store, stage[n] - 1)
      BY <2>1, <2>2, <2>3, WithinReached
    <2>5. OneMachine(stage[n])
      BY <2>1, <2>2, <2>3, OneMachineAlways
    <2>6. pSet[n] = ProjectsBefore(store, stage[n]) /\ uSet[n] = UsersUpTo(store, stage[n])
      BY <2>1 DEF SetsFound
    <2>7. QED
      BY <2>4, <2>5, <2>6 DEF OneMachine
  <1>2. QED
    BY <1>1, IndInvHolds, PTL
=============================================================================
