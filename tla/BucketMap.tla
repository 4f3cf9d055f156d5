------------------------------ MODULE BucketMap ------------------------------
(***************************************************************************)
(* The hash map of utils/map.h under the two threads of a node: a fixed    *)
(* array of buckets, each a singly linked list of entries.  A step is one  *)
(* load or one store of a field that both threads can reach, as the build  *)
(* (g++ without optimisation) makes them.                                  *)
(*                                                                         *)
(* KVStore owns two such maps.  msgCache_ is used with msgCacheLock_ held  *)
(* (guarded), kvMap_ is used by both threads without a lock.  The objects  *)
(* that the map points to are on the heap: the caller of put deletes the   *)
(* value that it replaced, the caller of remove the one that it got.       *)
(***************************************************************************)
EXTENDS Integers, Sequences, FiniteSets

CONSTANTS
  Keys,       \* the keys that the threads use
  Capacity,   \* capacity_, the number of buckets
  Threads,    \* the threads that share the map
  Uses,       \* the ways in which a map may be used, see Use
  MaxPuts     \* bound: calls of put

Operation == {"put", "get", "wait", "take"}

\* How a map is used: hash[k] is the hash of key k, ops[t] the operations that thread
\* t calls; guarded says that every call is made with a lock held, overwrites that a
\* key that was put may be put again.
Use == [hash : [Keys -> Nat], ops : [Threads -> SUBSET Operation],
        guarded : BOOLEAN, overwrites : BOOLEAN]

ASSUME BucketMapAssumption ==
  /\ Capacity \in Nat \ {0}
  /\ MaxPuts \in Nat
  /\ "none" \notin Threads \cup Keys
  /\ Uses \subseteq Use
  /\ \A u \in Uses, t \in Threads :
       (IF u.guarded THEN "wait" ELSE "take") \notin u.ops[t]

\* The address of no object.
Null == 0

Buckets == 0 .. Capacity - 1
\* Addresses.  Every put comes with a value of its own, a clone of its argument.
Address == 0 .. MaxPuts
Entry   == [key : Keys, value : Address, next : Address]

VARIABLES
  use,      \* how the map is used
  buckets,  \* buckets_[b]: the first entry of bucket b, or Null
  entries,  \* the entries allocated so far; entries[a] is the one at address a
  size,     \* size_
  freed,    \* the values that were deleted
  gone,     \* the entries that were deleted
  puts,     \* the values allocated so far are 1 .. puts
  lock,     \* the thread that holds the lock, or "none"
  pc,       \* pc[t]: the next step of thread t
  call,     \* call[t]: the operation and the key of the last call of t
  mine,     \* mine[t]: the value that t puts, or the size_ that it has loaded
  cur,      \* cur[t]: curEntry
  prev,     \* prev[t]: prevEntry
  got,      \* got[t]: the value that t has loaded from curEntry
  current,  \* history: the value that the last store of a put gave to each key
  valid     \* history: the values that were current during the call of t

mapVars    == <<buckets, entries, size, freed, gone>>
threadVars == <<pc, call, mine, cur, prev, got>>
moving     == <<mapVars, puts, lock, threadVars, current, valid>>
vars       == <<use, moving>>

Index(k) == use.hash[k] % Capacity

Steps == {"idle", "head", "walk", "set", "drop", "first", "append",
          "count", "counted", "clone", "unlink"}

TypeOK ==
  /\ use \in Uses
  /\ buckets \in [Buckets -> Address]
  /\ entries \in Seq(Entry) /\ Len(entries) <= MaxPuts
  /\ size \in 0 .. MaxPuts
  /\ freed \subseteq 1 .. puts /\ puts \in 0 .. MaxPuts
  /\ gone \subseteq 1 .. Len(entries)
  /\ lock \in Threads \cup {"none"}
  /\ pc \in [Threads -> Steps]
  /\ call \in [Threads -> [op : Operation \cup {"none"}, key : Keys \cup {"none"}]]
  /\ mine \in [Threads -> Address]
  /\ cur \in [Threads -> 0 .. Len(entries)] /\ prev \in [Threads -> 0 .. Len(entries)]
  /\ got \in [Threads -> Address]
  /\ current \in [Keys -> Address]
  /\ valid \in [Threads -> SUBSET Address]

Init ==
  /\ use \in Uses
  /\ buckets = [b \in Buckets |-> Null]
  /\ entries = <<>> /\ size = 0
  /\ freed = {} /\ gone = {}
  /\ puts = 0
  /\ lock = "none"
  /\ pc = [t \in Threads |-> "idle"]
  /\ call = [t \in Threads |-> [op |-> "none", key |-> "none"]]
  /\ mine = [t \in Threads |-> 0]
  /\ cur = [t \in Threads |-> Null] /\ prev = [t \in Threads |-> Null]
  /\ got = [t \in Threads |-> Null]
  /\ current = [k \in Keys |-> Null]
  /\ valid = [t \in Threads |-> {}]

-----------------------------------------------------------------------------

Key(t) == call[t].key

Goto(t, step) == pc' = [pc EXCEPT ![t] = step]

\* Thread t is out of its call.
Return(t) ==
  /\ Goto(t, "idle")
  /\ lock' = IF use.guarded THEN "none" ELSE lock
  /\ cur' = [cur EXCEPT ![t] = Null]
  /\ prev' = [prev EXCEPT ![t] = Null]
  /\ mine' = [mine EXCEPT ![t] = 0]

\* The key of thread t has the value v from this step on, in the abstract.
Becomes(t, v) ==
  /\ current' = [current EXCEPT ![Key(t)] = v]
  /\ valid' = [u \in Threads |->
                 IF pc[u] # "idle" /\ Key(u) = Key(t) THEN valid[u] \cup {v} ELSE valid[u]]

\* A key that is not to be put twice, or that no thread has put or is putting.
MayPut(k) ==
  \/ use.overwrites
  \/ current[k] = Null /\ \A u \in Threads : pc[u] = "idle" \/ call[u] # [op |-> "put", key |-> k]

\* A call: the thread enters the critical section, if there is one.
Call(t, op, k) ==
  /\ pc[t] = "idle"
  /\ op \in use.ops[t]
  /\ use.guarded => lock = "none"
  /\ lock' = IF use.guarded THEN t ELSE lock
  /\ IF op = "put"
     THEN /\ puts < MaxPuts /\ MayPut(k)
          /\ puts' = puts + 1
          /\ mine' = [mine EXCEPT ![t] = puts + 1]
     ELSE UNCHANGED <<puts, mine>>
  /\ call' = [call EXCEPT ![t] = [op |-> op, key |-> k]]
  /\ got' = [got EXCEPT ![t] = Null]
  /\ valid' = [valid EXCEPT ![t] = {current[k]}]
  /\ Goto(t, "head")
  /\ UNCHANGED <<mapVars, cur, prev, current>>

\* The load of buckets_[index].
LoadHead(t) ==
  /\ pc[t] = "head"
  /\ cur' = [cur EXCEPT ![t] = buckets[Index(Key(t))]]
  /\ prev' = [prev EXCEPT ![t] = Null]
  /\ Goto(t, IF cur'[t] = Null /\ call[t].op = "put" THEN "first" ELSE "walk")
  /\ UNCHANGED <<mapVars, puts, lock, call, mine, got, current, valid>>

\* An entry with another key: the load of its next_.
Step(t) ==
  /\ pc[t] = "walk"
  /\ cur[t] # Null
  /\ entries[cur[t]].key # Key(t)
  /\ prev' = [prev EXCEPT ![t] = cur[t]]
  /\ cur' = [cur EXCEPT ![t] = entries[cur[t]].next]
  /\ UNCHANGED <<mapVars, puts, lock, pc, call, mine, got, current, valid>>

\* A mutant: the lock is released before the caller has used the value.
HitUnlocks(t) ==
  /\ pc[t] = "walk"
  /\ cur[t] # Null
  /\ entries[cur[t]].key = Key(t)
  /\ got' = [got EXCEPT ![t] = entries[cur[t]].value]
  /\ Goto(t, CASE call[t].op = "put"            -> "set"
               [] call[t].op \in {"get", "wait"} -> "clone"
               [] call[t].op = "take"           -> "unlink")
  /\ lock' = IF pc'[t] = "clone" THEN "none" ELSE lock
  /\ UNCHANGED <<mapVars, puts, call, mine, cur, prev, current, valid>>

\* An entry with the key: the load of its value.
Hit(t) ==
  /\ pc[t] = "walk"
  /\ cur[t] # Null
  /\ entries[cur[t]].key = Key(t)
  /\ got' = [got EXCEPT ![t] = entries[cur[t]].value]
  /\ Goto(t, CASE call[t].op = "put"            -> "set"
               [] call[t].op \in {"get", "wait"} -> "clone"
               [] call[t].op = "take"           -> "unlink")
  /\ UNCHANGED <<mapVars, puts, lock, call, mine, cur, prev, current, valid>>

\* A mutant: the loop of a blocking getValue goes on from where it stopped.
MissStays(t) ==
  /\ pc[t] = "walk"
  /\ cur[t] = Null
  /\ call[t].op # "wait"
  /\ IF call[t].op = "put"
     THEN Goto(t, "append") /\ UNCHANGED <<lock, mine, cur, prev>>
     ELSE Return(t)
  /\ UNCHANGED <<mapVars, puts, call, got, current, valid>>

\* The end of the list: put appends, the loop of a blocking getValue looks again,
\* and the others return nullptr.
Miss(t) ==
  /\ pc[t] = "walk"
  /\ cur[t] = Null
  /\ \/ /\ call[t].op = "put"
        /\ Goto(t, "append")
        /\ UNCHANGED <<lock, mine, cur, prev>>
     \/ /\ call[t].op = "wait"
        /\ Goto(t, "head")
        /\ UNCHANGED <<lock, mine, cur, prev>>
     \/ /\ call[t].op \in {"get", "take"}
        /\ Return(t)
  /\ UNCHANGED <<mapVars, puts, call, got, current, valid>>

-----------------------------------------------------------------------------
(***************************************************************************)
(* The stores of put and remove.                                           *)
(***************************************************************************)

New(t) == [key |-> Key(t), value |-> mine[t], next |-> Null]

\* The bucket was empty: the new entry becomes its head.
InsertFirst(t) ==
  /\ pc[t] = "first"
  /\ entries' = Append(entries, New(t))
  /\ buckets' = [buckets EXCEPT ![Index(Key(t))] = Len(entries')]
  /\ Becomes(t, mine[t])
  /\ Goto(t, "count")
  /\ UNCHANGED <<size, freed, gone, puts, lock, call, mine, cur, prev, got>>

\* A mutant: the new entry becomes the head without the list behind it.
InsertLastAtHead(t) ==
  /\ pc[t] = "append"
  /\ entries' = Append(entries, New(t))
  /\ buckets' = [buckets EXCEPT ![Index(Key(t))] = Len(entries')]
  /\ Becomes(t, mine[t])
  /\ Goto(t, "count")
  /\ UNCHANGED <<size, freed, gone, puts, lock, call, mine, cur, prev, got>>

\* The list had another last entry: prevEntry->setNext(newEntry).
InsertLast(t) ==
  /\ pc[t] = "append"
  /\ entries' = Append([entries EXCEPT ![prev[t]].next = Len(entries) + 1], New(t))
  /\ Becomes(t, mine[t])
  /\ Goto(t, "count")
  /\ UNCHANGED <<buckets, size, freed, gone, puts, lock, call, mine, cur, prev, got>>

\* size_++ of a put, a load and a store.
Count(t) ==
  /\ pc[t] = "count"
  /\ mine' = [mine EXCEPT ![t] = size]
  /\ Goto(t, "counted")
  /\ UNCHANGED <<mapVars, puts, lock, call, cur, prev, got, current, valid>>

Counted(t) ==
  /\ pc[t] = "counted"
  /\ size' = mine[t] + 1
  /\ Return(t)
  /\ UNCHANGED <<buckets, entries, freed, gone, puts, call, got, current, valid>>

\* The key has an entry already, whose value put replaces and returns.
Replace(t) ==
  /\ pc[t] = "set"
  /\ entries' = [entries EXCEPT ![cur[t]].value = mine[t]]
  /\ Becomes(t, mine[t])
  /\ Goto(t, "drop")
  /\ UNCHANGED <<buckets, size, freed, gone, puts, lock, call, mine, cur, prev, got>>

\* A mutant: a replaced value counts as a new entry.
DropOldCounts(t) ==
  /\ pc[t] = "drop"
  /\ freed' = freed \cup {got[t]}
  /\ size' = size + 1
  /\ Return(t)
  /\ UNCHANGED <<buckets, entries, gone, puts, call, got, current, valid>>

\* The caller deletes the value that put returned.
DropOld(t) ==
  /\ pc[t] = "drop"
  /\ freed' = freed \cup {got[t]}
  /\ Return(t)
  /\ UNCHANGED <<buckets, entries, size, gone, puts, call, got, current, valid>>

\* A mutant: the entry is taken for the head of its bucket.
SkipHead(t) ==
  /\ buckets' = [buckets EXCEPT ![Index(Key(t))] = entries[cur[t]].next]
  /\ entries' = [entries EXCEPT ![cur[t]].next = Null, ![cur[t]].value = Null]

\* The entry before curEntry, or the bucket, is made to skip it.
Skip(t) ==
  LET after == entries[cur[t]].next IN
    IF prev[t] = Null
    THEN /\ buckets' = [buckets EXCEPT ![Index(Key(t))] = after]
         /\ entries' = [entries EXCEPT ![cur[t]].next = Null, ![cur[t]].value = Null]
    ELSE /\ entries' = [entries EXCEPT ![prev[t]].next = after,
                                       ![cur[t]].next = Null, ![cur[t]].value = Null]
         /\ UNCHANGED buckets

\* The whole of a remove that found the key, after which the caller deletes the
\* value.  Every remove has the lock, so that its stores need no steps of their own.
Unlink(t) ==
  /\ pc[t] = "unlink"
  /\ Skip(t)
  /\ size' = size - 1
  /\ gone' = gone \cup {cur[t]}
  /\ freed' = freed \cup {got[t]}
  /\ Becomes(t, Null)
  /\ Return(t)
  /\ UNCHANGED <<puts, call, got>>

\* The caller clones the value that get returned.
Clone(t) ==
  /\ pc[t] = "clone"
  /\ Return(t)
  /\ UNCHANGED <<mapVars, puts, call, got, current, valid>>

-----------------------------------------------------------------------------

Continue(t) ==
  \/ LoadHead(t) \/ Step(t) \/ Hit(t) \/ Miss(t)
  \/ InsertFirst(t) \/ InsertLast(t) \/ Count(t) \/ Counted(t)
  \/ Replace(t) \/ DropOld(t) \/ Unlink(t) \/ Clone(t)

Next ==
  /\ \E t \in Threads :
       \/ \E op \in Operation, k \in Keys : Call(t, op, k)
       \/ Continue(t)
  /\ UNCHANGED use

Spec == Init /\ [][Next]_vars

\* A thread in a call is scheduled in the end.
FairSpec == Spec /\ \A t \in Threads : WF_moving(Continue(t))

-----------------------------------------------------------------------------
(***************************************************************************)
(* What the list of a bucket holds.                                        *)
(***************************************************************************)

\* S has what is found by following next_ from the head of bucket b.
Follows(b, S) ==
  /\ buckets[b] \in S \cup {Null}
  /\ \A a \in S : entries[a].next \in S \cup {Null}

\* The entries of bucket b, those that are found so.
Chain(b) == {a \in DOMAIN entries : \A S \in SUBSET DOMAIN entries : Follows(b, S) => a \in S}

Linked == UNION {Chain(b) : b \in Buckets}

\* Every key has the value of the last put that stored it, and a key that was taken
\* or never put has none: an entry once put is never lost from its list, whatever the
\* other thread does to the same bucket meanwhile (map.h insertIntoBucket_).
NoEntryLost ==
  \A k \in Keys :
    {entries[a].value : a \in {c \in Chain(Index(k)) : entries[c].key = k}}
      = {current[k]} \ {Null}

\* The size_ that get_keys and get_values allocate their arrays for is the number of
\* entries that they then write, whenever no thread is in the map (map.h get_keys).
SizeExact ==
  (\A t \in Threads : pc[t] = "idle") => size = Cardinality(Linked)

\* No thread is about to clone or to delete a value that was deleted already, nor to
\* read an entry that was deleted, and no list leads to one (kvstore.h put, getValue).
NoDangling ==
  /\ TypeOK
  /\ \A t \in Threads : pc[t] \in {"clone", "drop"} => got[t] \notin freed
  /\ \A t \in Threads : cur[t] \notin gone /\ prev[t] \notin gone
  /\ Linked \cap gone = {}
  /\ \A a \in Linked : entries[a].value \notin freed

\* A get returns a value that its key had at some time between the call and the
\* return, and nullptr only if the key had none at some such time: a reader that walks
\* a list while it grows does not miss what was in it (map.h getFromBucket_).
GetRegular ==
  \A t \in Threads :
    (call[t].op \in {"get", "wait"} /\ pc[t] \in {"clone", "idle"}) => got[t] \in valid[t]

\* A blocking getValue of a local key returns once the key has a value, although the
\* other thread stores it without telling (kvstore.h getValue).
WaitReturns ==
  \A t \in Threads, k \in Keys :
    (pc[t] # "idle" /\ call[t] = [op |-> "wait", key |-> k] /\ current[k] # Null)
      ~> pc[t] = "idle"

=============================================================================
