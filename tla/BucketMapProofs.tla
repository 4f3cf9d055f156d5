--------------------------- MODULE BucketMapProofs ---------------------------
(***************************************************************************)
(* Theorems of BucketMap for any keys, hashes, number of buckets, threads   *)
(* and puts: a map that is used under a lock, or by one writer that puts a  *)
(* key once, loses no entry, counts its entries, deletes nothing that is    *)
(* still used, and gives readers a value of the time of their call.         *)
(***************************************************************************)
EXTENDS BucketMap, FiniteSetTheorems, WellFoundedInduction, TLAPS

-----------------------------------------------------------------------------
(* The uses that are safe *)

\* All calls are made with the lock held, or one thread at most puts, and it puts a key once.
Safe(u) ==
  \/ u.guarded
  \/ /\ ~u.overwrites
     /\ \A s, t \in Threads : "put" \in u.ops[s] /\ "put" \in u.ops[t] => s = t

-----------------------------------------------------------------------------
(* The inductive invariant *)

\* The entries that were not deleted, and those of bucket b.
Live  == DOMAIN entries \ gone
Of(b) == {a \in Live : Index(entries[a].key) = b}

\* a is the first of the entries in S, or there is none.
IsFirst(a, S) ==
  \/ S = {} /\ a = Null
  \/ a \in S /\ \A c \in S : a <= c

\* The entries of a bucket are linked in the order in which they were allocated.
InLists ==
  \A b \in Buckets :
    /\ IsFirst(buckets[b], Of(b))
    /\ \A a \in Of(b) : IsFirst(entries[a].next, {c \in Of(b) : a < c})

\* A key has one entry, with the value it was given last, if it has a value.
Current ==
  /\ \A a \in Live : current[entries[a].key] = entries[a].value /\ entries[a].value # Null
  /\ \A a, c \in Live : entries[a].key = entries[c].key => a = c
  /\ \A k \in Keys : current[k] # Null => \E a \in Live : entries[a].key = k

\* No value is at two entries, and no entry has a value that was deleted.
ValuesOwned ==
  /\ \A a \in Live : entries[a].value \in (1 .. puts) \ freed
  /\ \A a, c \in Live : entries[a].value = entries[c].value => a = c

\* Without a lock nothing is deleted.
NothingDeleted == ~use.guarded => freed = {} /\ gone = {}

InCall(t)   == pc[t] # "idle"
Counting(t) == pc[t] \in {"count", "counted"}
\* A put of t has not stored its value.
Putting(t)  == call[t].op = "put" /\ pc[t] \in {"head", "walk", "set", "first", "append"}

\* The thread that is in the map has the lock, if there is one.
Locked == use.guarded => \A t \in Threads : InCall(t) <=> lock = t

\* size_ is the number of entries but for the one that a put is counting.
SizeCounts ==
  /\ \A t \in Threads : Counting(t) => size + 1 = Cardinality(Live)
  /\ \A t \in Threads : pc[t] = "counted" => mine[t] = size
  /\ (\A t \in Threads : ~Counting(t)) => size = Cardinality(Live)

\* What holds of the map.
MapInv ==
  TypeOK /\ InLists /\ Current /\ ValuesOwned /\ NothingDeleted /\ Locked /\ SizeCounts
  /\ Len(entries) <= puts

\* A thread calls what it may, and is at a step of what it calls.
CallKnown(t) ==
  /\ InCall(t) => call[t].op \in use.ops[t] /\ call[t].op \in Operation /\ Key(t) \in Keys
  /\ pc[t] \in {"first", "append", "set", "drop", "count", "counted"} => call[t].op = "put"
  /\ pc[t] = "unlink" => call[t].op = "take"
  /\ pc[t] = "clone" => call[t].op \in {"get", "wait"}

\* A put has a value that no entry has, room for an entry, and without a lock a new key.
PutFresh(t) ==
  /\ Putting(t) =>
       /\ Len(entries) < puts /\ mine[t] \in (1 .. puts) \ freed
       /\ \A a \in Live : entries[a].value # mine[t]
       /\ ~use.guarded => current[Key(t)] = Null
  /\ ~use.guarded => pc[t] # "drop"

\* The entries of the bucket of its key, and those that t has passed.
Bucket(t) == Of(Index(Key(t)))
Passed(t) == {c \in Bucket(t) : cur[t] = Null \/ c < cur[t]}

\* On its walk a thread has passed its key only if that was put since its call; a writer has
\* the entry before curEntry in prevEntry.
OnWalk(t) ==
  /\ cur[t] \in Bucket(t) \cup {Null}
  /\ prev[t] \in Bucket(t) \cup {Null}
  /\ \A c \in Passed(t) : entries[c].key = Key(t) =>
       call[t].op \in {"get", "wait"} /\ Null \in valid[t]
  /\ call[t].op \in {"put", "take"} =>
       /\ prev[t] = Null => Passed(t) = {}
       /\ prev[t] # Null => prev[t] \in Passed(t) /\ \A c \in Passed(t) : c <= prev[t]
  /\ call[t].op = "put" => Bucket(t) # {}

\* A thread has found the entry of its key.
Found(t) ==
  cur[t] \in Bucket(t) /\ entries[cur[t]].key = Key(t) /\ got[t] = entries[cur[t]].value

\* Where a thread is in the list of its key.
Located(t) ==
  /\ ~InCall(t) => cur[t] = Null /\ prev[t] = Null
  /\ pc[t] = "walk" => OnWalk(t)
  /\ pc[t] = "first" => Bucket(t) = {}
  /\ pc[t] = "append" => /\ prev[t] \in Bucket(t)
                         /\ \A c \in Bucket(t) : c <= prev[t] /\ entries[c].key # Key(t)
  /\ pc[t] = "set" => Found(t)
  /\ pc[t] = "unlink" =>
       /\ Found(t)
       /\ prev[t] = Null => \A c \in Bucket(t) : cur[t] <= c
       /\ prev[t] # Null => /\ prev[t] \in Bucket(t) /\ prev[t] < cur[t]
                            /\ \A c \in Bucket(t) : c <= prev[t] \/ cur[t] <= c
  /\ cur[t] \in Live \cup {Null} /\ prev[t] \in Live \cup {Null}

\* A value that is to be deleted is at no entry, one that is to be cloned is not deleted.
ValueHeld(t) ==
  /\ pc[t] = "drop" => got[t] \in (1 .. puts) \ freed /\ \A a \in Live : entries[a].value # got[t]
  /\ pc[t] = "clone" => got[t] \notin freed

\* valid has what is current in a call, and what a get has found or returned.
Regular(t) ==
  /\ InCall(t) => current[Key(t)] \in valid[t]
  /\ call[t].op \in {"get", "wait"} =>
       /\ pc[t] \in {"head", "walk"} => got[t] = Null
       /\ pc[t] \in {"clone", "idle"} => got[t] \in valid[t]

\* What holds of a thread.
ThreadInv(t) == CallKnown(t) /\ PutFresh(t) /\ Located(t) /\ ValueHeld(t) /\ Regular(t)

\* The inductive invariant.
IndInv == MapInv /\ \A t \in Threads : ThreadInv(t)

-----------------------------------------------------------------------------
(* The list of a bucket holds its entries *)

\* A set of numbers that is not empty has a least one.
LEMMA LeastNumber == \A T \in SUBSET Nat : T # {} => \E m \in T : \A c \in T : m <= c
<1> SUFFICES ASSUME NEW T \in SUBSET Nat, T # {}
             PROVE  \E m \in T : \A c \in T : m <= c
  OBVIOUS
<1> DEFINE R == {ss \in Nat \X Nat : ss[1] < ss[2]}
<1>1. IsWellFoundedOn(R, Nat)
  BY NatLessThanWellFounded DEF OpToRel
<1>2. PICK m \in T : \A c \in T : <<c, m>> \notin R
  <2> HIDE DEF R
  <2> QED BY <1>1, WFMin
<1>3. ASSUME NEW c \in T PROVE m <= c
  <2>1. c \in Nat /\ m \in Nat /\ <<c, m>> \in Nat \X Nat
    OBVIOUS
  <2>2. <<c, m>>[1] = c /\ <<c, m>>[2] = m
    OBVIOUS
  <2> QED BY <1>2, <2>1, <2>2
<1> QED BY <1>3

\* Every hash has its bucket.
LEMMA IndexInBuckets == ASSUME use \in Uses PROVE \A k \in Keys : Index(k) \in Buckets
<1> SUFFICES ASSUME NEW k \in Keys PROVE Index(k) \in Buckets
  OBVIOUS
<1>1. use.hash[k] \in Nat
  BY BucketMapAssumption DEF Use
<1>2. Capacity \in Nat /\ Capacity > 0
  BY BucketMapAssumption
<1> QED BY <1>1, <1>2 DEF Index, Buckets

\* The entries are numbered, and not by Null.
LEMMA LiveNumbers ==
  ASSUME TypeOK
  PROVE  /\ \A a \in Live : a \in 1 .. Len(entries) /\ a \in Nat /\ a # Null /\ a \notin gone
         /\ \A a \in Live : entries[a] \in Entry /\ entries[a].key \in Keys
         /\ \A b : Of(b) \subseteq Live /\ Of(b) \subseteq Nat /\ Null \notin Of(b)
<1>1. entries \in Seq(Entry) /\ Len(entries) \in Nat /\ DOMAIN entries = 1 .. Len(entries)
  BY DEF TypeOK
<1>2. \A a \in Live : a \in 1 .. Len(entries) /\ a \in Nat /\ a # Null /\ a \notin gone
  BY <1>1 DEF Live, Null
<1>3. ASSUME NEW a \in Live PROVE entries[a] \in Entry /\ entries[a].key \in Keys
  <2>1. entries[a] \in Entry
    BY <1>1, <1>2
  <2> QED BY <2>1 DEF Entry
<1>4. \A b : Of(b) \subseteq Live
  BY DEF Of
<1> QED BY <1>2, <1>3, <1>4

\* What is reached from a bucket, in lists in the order of allocation, is what is in it.
LEMMA ChainIsBucket ==
  ASSUME TypeOK, InLists
  PROVE  \A b \in Buckets : Chain(b) = Of(b)
<1> SUFFICES ASSUME NEW b \in Buckets PROVE Chain(b) = Of(b)
  OBVIOUS
<1>1. IsFirst(buckets[b], Of(b))
  BY DEF InLists
<1>2. \A a \in Of(b) : IsFirst(entries[a].next, {c \in Of(b) : a < c})
  BY DEF InLists
<1>3. Of(b) \subseteq DOMAIN entries /\ Of(b) \subseteq Nat /\ Null \notin Of(b)
  BY LiveNumbers DEF Of, Live
<1>4. Chain(b) \subseteq Of(b)
  <2>1. Follows(b, Of(b))
    BY <1>1, <1>2 DEF Follows, IsFirst
  <2> QED BY <2>1, <1>3 DEF Chain
<1>5. ASSUME NEW S \in SUBSET DOMAIN entries, Follows(b, S), NEW a \in Of(b), a \notin S
      PROVE  FALSE
  <2> DEFINE Missing == {c \in Of(b) : c \notin S}
  <2>1. Missing \in SUBSET Nat /\ Missing # {}
    BY <1>3, <1>5
  <2>2. PICK m \in Missing : \A c \in Missing : m <= c
    <3> HIDE DEF Missing
    <3> QED BY <2>1, LeastNumber
  <2>3. m \in Of(b) /\ m \in Nat /\ m \notin S
    BY <1>3
  <2>4. buckets[b] \in S /\ buckets[b] \in Of(b) /\ buckets[b] <= m
    BY <1>1, <1>3, <1>5, <2>3 DEF IsFirst, Follows
  <2>5. buckets[b] < m
    BY <2>3, <2>4, <1>3
  <2> DEFINE Before == {m - c : c \in {d \in Of(b) : d < m}}
  <2>6. Before \in SUBSET Nat /\ Before # {}
    BY <1>3, <2>3, <2>4, <2>5
  <2>7. PICK i \in Before : \A j \in Before : i <= j
    <3> HIDE DEF Before
    <3> QED BY <2>6, LeastNumber
  <2>8. PICK p \in Of(b) : p < m /\ i = m - p
    BY <2>7
  <2>9. \A c \in Of(b) : c < m => c <= p
    BY <2>7, <2>8, <1>3, <2>3
  <2>10. p \in S /\ p \in Nat
    BY <2>2, <2>3, <2>8, <1>3
  <2>11. m \in {c \in Of(b) : p < c}
    BY <2>3, <2>8
  <2>12. entries[p].next \in Of(b) /\ p < entries[p].next /\ entries[p].next <= m
    BY <1>2, <2>8, <2>11 DEF IsFirst
  <2>13. entries[p].next = m
    BY <2>9, <2>12, <1>3, <2>3, <2>10
  <2> QED BY <2>13, <2>10, <2>3, <1>5, <1>3 DEF Follows
<1>6. Of(b) \subseteq Chain(b)
  BY <1>3, <1>5 DEF Chain
<1> QED BY <1>4, <1>6

-----------------------------------------------------------------------------
(* What the inductive invariant implies *)

\* The lists hold the entries that were not deleted.
LEMMA LinkedIsLive == ASSUME TypeOK, InLists PROVE Linked = Live
<1>1. \A b \in Buckets : Chain(b) = Of(b)
  BY ChainIsBucket
<1>2. \A a \in Live : Index(entries[a].key) \in Buckets
  BY LiveNumbers, IndexInBuckets DEF TypeOK
<1>3. \A a \in Live : a \in Of(Index(entries[a].key))
  BY DEF Of
<1>4. \A b \in Buckets : Of(b) \subseteq Live
  BY DEF Of
<1> QED BY <1>1, <1>2, <1>3, <1>4 DEF Linked

LEMMA EntriesKept == ASSUME TypeOK, InLists, Current PROVE NoEntryLost
<1> SUFFICES ASSUME NEW k \in Keys
             PROVE  {entries[a].value : a \in {c \in Chain(Index(k)) : entries[c].key = k}}
                      = {current[k]} \ {Null}
  BY DEF NoEntryLost
<1>1. Chain(Index(k)) = Of(Index(k))
  BY ChainIsBucket, IndexInBuckets DEF TypeOK
<1> DEFINE Having == {c \in Chain(Index(k)) : entries[c].key = k}
<1>2. \A a : a \in Having <=> a \in Live /\ entries[a].key = k
  BY <1>1 DEF Of
<1>3. \A a \in Having : entries[a].value = current[k] /\ current[k] # Null
  BY <1>2 DEF Current
<1>4. current[k] # Null => \E a \in Having : entries[a].value = current[k]
  <2>1. current[k] # Null => \E a \in Live : entries[a].key = k
    BY DEF Current
  <2> HIDE DEF Having
  <2> QED BY <2>1, <1>2, <1>3
<1> HIDE DEF Having
<1>5. {entries[a].value : a \in Having} = {current[k]} \ {Null}
  BY <1>3, <1>4
<1> QED BY <1>5 DEF Having

LEMMA SizeIsExact == ASSUME TypeOK, InLists, SizeCounts PROVE SizeExact
BY LinkedIsLive DEF SizeExact, SizeCounts, Counting

LEMMA SafeToUse == ASSUME IndInv PROVE NoDangling
<1>1. TypeOK /\ InLists /\ ValuesOwned
  BY DEF IndInv, MapInv
<1>2. ASSUME NEW t \in Threads PROVE pc[t] \in {"clone", "drop"} => got[t] \notin freed
  BY DEF IndInv, ThreadInv, ValueHeld
<1>3. ASSUME NEW t \in Threads PROVE cur[t] \notin gone /\ prev[t] \notin gone
  <2>1. cur[t] \in Live \cup {Null} /\ prev[t] \in Live \cup {Null}
    BY DEF IndInv, ThreadInv, Located
  <2>2. Null \notin gone
    BY <1>1 DEF TypeOK, Null
  <2> QED BY <2>1, <2>2 DEF Live
<1>4. Linked = Live
  BY <1>1, LinkedIsLive
<1> QED BY <1>1, <1>2, <1>3, <1>4 DEF NoDangling, ValuesOwned, Live

LEMMA GetsAreRegular == ASSUME IndInv PROVE GetRegular
BY DEF IndInv, ThreadInv, Regular, GetRegular

-----------------------------------------------------------------------------
(* What the uses allow *)

\* Without a lock a thread in a put is the only one that is in a put, and none takes.
LEMMA OneWriter ==
  ASSUME use \in Uses, Safe(use), ~use.guarded,
         \A t \in Threads : CallKnown(t)
  PROVE  /\ \A s, t \in Threads :
              InCall(s) /\ call[s].op = "put" /\ InCall(t) /\ call[t].op = "put" => s = t
         /\ \A t \in Threads : InCall(t) => call[t].op \in {"put", "get", "wait"}
<1>1. ASSUME NEW s \in Threads, NEW t \in Threads,
             InCall(s), call[s].op = "put", InCall(t), call[t].op = "put"
      PROVE  s = t
  BY <1>1 DEF CallKnown, Safe
<1>2. ASSUME NEW t \in Threads, InCall(t)
      PROVE  call[t].op \in {"put", "get", "wait"}
  <2>1. call[t].op \in use.ops[t] /\ call[t].op \in Operation
    BY <1>2 DEF CallKnown
  <2>2. "take" \notin use.ops[t]
    BY BucketMapAssumption
  <2> QED BY <2>1, <2>2 DEF Operation
<1> QED BY <1>1, <1>2

\* With the lock held by one thread, the others are not in the map.
LEMMA OthersIdle ==
  ASSUME Locked, use.guarded, NEW t \in Threads, InCall(t)
  PROVE  lock = t /\ \A u \in Threads \ {t} : ~InCall(u)
BY DEF Locked

\* The values, the addresses and the entries are what TypeOK says.
LEMMA EntryFields ==
  ASSUME TypeOK
  PROVE  \A a \in DOMAIN entries :
           /\ entries[a].key \in Keys /\ entries[a].value \in Address
           /\ entries[a].next \in Address
<1> SUFFICES ASSUME NEW a \in DOMAIN entries
             PROVE  /\ entries[a].key \in Keys /\ entries[a].value \in Address
                    /\ entries[a].next \in Address
  OBVIOUS
<1>1. entries[a] \in Entry
  BY DEF TypeOK
<1> QED BY <1>1 DEF Entry

\* Next to a thread that puts, or that has the lock, no thread puts.
LEMMA SolePut ==
  ASSUME use \in Uses, Safe(use), Locked, \A u \in Threads : CallKnown(u),
         NEW t \in Threads, InCall(t), call[t].op = "put" \/ use.guarded
  PROVE  \A u \in Threads \ {t} :
           /\ InCall(u) => call[u].op \in {"get", "wait"} /\ ~use.guarded
           /\ ~Counting(u) /\ ~Putting(u)
<1> SUFFICES ASSUME NEW u \in Threads \ {t}
             PROVE  /\ InCall(u) => call[u].op \in {"get", "wait"} /\ ~use.guarded
                    /\ ~Counting(u) /\ ~Putting(u)
  OBVIOUS
<1>1. InCall(u) => call[u].op \in {"get", "wait"} /\ ~use.guarded
  <2>1. CASE use.guarded
    BY <2>1, OthersIdle
  <2>2. CASE ~use.guarded
    BY <2>2, OneWriter
  <2> QED BY <2>1, <2>2
<1>2. Counting(u) => InCall(u) /\ call[u].op = "put"
  BY DEF CallKnown, Counting, InCall
<1>3. Putting(u) => InCall(u) /\ call[u].op = "put"
  BY DEF Putting, InCall
<1> QED BY <1>1, <1>2, <1>3

-----------------------------------------------------------------------------
(* What a step leaves as it is *)

\* The step is not one of thread u.
Stays(u) ==
  /\ pc'[u] = pc[u] /\ call'[u] = call[u] /\ mine'[u] = mine[u]
  /\ cur'[u] = cur[u] /\ prev'[u] = prev[u] /\ got'[u] = got[u]

\* The entries, the values and the lists are as they were.
MapStays ==
  /\ UNCHANGED <<use, buckets, entries, freed, gone, current>>
  /\ puts \in Nat /\ puts' \in Nat /\ puts <= puts'

LEMMA ListsStay == ASSUME MapStays PROVE Live' = Live /\ \A b : Of(b)' = Of(b)
BY DEF MapStays, Live, Of, Index

LEMMA MapInvStays ==
  ASSUME MapStays, InLists, Current, ValuesOwned, NothingDeleted, Len(entries) <= puts,
         TypeOK
  PROVE  InLists' /\ Current' /\ ValuesOwned' /\ NothingDeleted' /\ (Len(entries) <= puts)'
<1>1. Live' = Live /\ \A b : Of(b)' = Of(b)
  BY ListsStay
<1>2. InLists'
  <2> SUFFICES ASSUME NEW b \in Buckets
               PROVE  /\ IsFirst(buckets'[b], Of(b)')
                      /\ \A a \in Of(b)' : IsFirst(entries'[a].next, {c \in Of(b)' : a < c})
    BY DEF InLists, IsFirst
  <2> QED BY <1>1 DEF InLists, MapStays
<1>3. Current'
  BY <1>1 DEF Current, MapStays
<1>4. ValuesOwned'
  <2>1. \A a \in Live : entries[a].value \in (1 .. puts') \ freed
    BY DEF ValuesOwned, MapStays
  <2> QED BY <2>1, <1>1 DEF ValuesOwned, MapStays
<1>5. NothingDeleted'
  BY DEF NothingDeleted, MapStays
<1>6. (Len(entries) <= puts)'
  BY DEF MapStays, TypeOK
<1> QED BY <1>2, <1>3, <1>4, <1>5, <1>6

\* A thread that does not step keeps its part of the invariant while the map stays, ...
LEMMA OtherStays ==
  ASSUME MapStays, NEW u \in Threads, ThreadInv(u), Stays(u), valid'[u] = valid[u]
  PROVE  ThreadInv(u)'
<1>1. Live' = Live /\ \A b : Of(b)' = Of(b)
  BY ListsStay
<1>2. Key(u)' = Key(u) /\ InCall(u)' = InCall(u) /\ Putting(u)' = Putting(u)
  BY DEF Stays, Key, InCall, Putting
<1>3. Bucket(u)' = Bucket(u)
  BY <1>1, <1>2 DEF Bucket, Index, MapStays
<1>4. Passed(u)' = Passed(u)
  BY <1>3 DEF Passed, Stays
<1>5. OnWalk(u)' = OnWalk(u) /\ Found(u)' = Found(u)
  BY <1>2, <1>3, <1>4 DEF OnWalk, Found, MapStays, Stays
<1>6. CallKnown(u)'
  BY <1>2 DEF ThreadInv, CallKnown, MapStays, Stays
<1>7. PutFresh(u)'
  BY <1>1, <1>2 DEF ThreadInv, PutFresh, MapStays, Stays
<1>8. Located(u)'
  BY <1>1, <1>2, <1>3, <1>5 DEF ThreadInv, Located, MapStays, Stays
<1>9. ValueHeld(u)'
  BY <1>1 DEF ThreadInv, ValueHeld, MapStays, Stays
<1>10. Regular(u)'
  BY <1>2 DEF ThreadInv, Regular, MapStays, Stays
<1> QED BY <1>6, <1>7, <1>8, <1>9, <1>10 DEF ThreadInv

\* ... and whatever becomes of the map when it is in no call.
LEMMA IdleStays ==
  ASSUME NEW u \in Threads, ThreadInv(u), ~InCall(u), Stays(u), valid'[u] = valid[u]
  PROVE  ThreadInv(u)'
<1>1. pc'[u] = "idle" /\ pc[u] = "idle" /\ ~InCall(u)'
  BY DEF InCall, Stays
<1>2. CallKnown(u)' /\ PutFresh(u)' /\ ValueHeld(u)'
  BY <1>1 DEF CallKnown, PutFresh, ValueHeld, InCall, Putting
<1>3. Located(u)'
  BY <1>1 DEF ThreadInv, Located, Stays
<1>4. Regular(u)'
  BY <1>1 DEF ThreadInv, Regular, Stays
<1> QED BY <1>2, <1>3, <1>4 DEF ThreadInv

\* So a step of t that leaves the map keeps the invariant, if what it has of its own holds.
LEMMA MoveKeeps ==
  ASSUME IndInv, MapStays, TypeOK', Locked', SizeCounts',
         NEW t \in Threads, ThreadInv(t)',
         \A u \in Threads \ {t} : Stays(u) /\ valid'[u] = valid[u]
  PROVE  IndInv'
<1>1. InLists' /\ Current' /\ ValuesOwned' /\ NothingDeleted' /\ (Len(entries) <= puts)'
  BY MapInvStays DEF IndInv, MapInv
<1>2. ASSUME NEW u \in Threads PROVE ThreadInv(u)'
  <2>1. CASE u = t
    BY <2>1
  <2>2. CASE u # t
    BY <2>2, OtherStays DEF IndInv
  <2> QED BY <2>1, <2>2
<1>3. MapInv'
  BY <1>1 DEF MapInv
<1> QED BY <1>2, <1>3 DEF IndInv

\* The thread that has the lock keeps it within a call, ...
LEMMA LockStays ==
  ASSUME Locked, NEW t \in Threads, InCall(t), use' = use, lock' = lock,
         pc'[t] # "idle", \A u \in Threads \ {t} : pc'[u] = pc[u]
  PROVE  Locked'
BY DEF Locked, InCall

\* ... and gives it back at the end of the call.
LEMMA LockReturned ==
  ASSUME Locked, TypeOK, NEW t \in Threads, InCall(t), use' = use, Return(t)
  PROVE  Locked'
<1>1. pc'[t] = "idle" /\ \A u \in Threads \ {t} : pc'[u] = pc[u]
  BY DEF Return, Goto, TypeOK
<1>2. ASSUME use.guarded, NEW u \in Threads PROVE InCall(u)' <=> lock' = u
  <2>1. pc'[u] = "idle"
    BY <1>1, <1>2, OthersIdle DEF InCall
  <2>2. lock' = "none" /\ u # "none"
    BY <1>2, BucketMapAssumption DEF Return
  <2> QED BY <2>1, <2>2 DEF InCall
<1> QED BY <1>2 DEF Locked

\* The size is right as long as none begins or ends to count.
LEMMA CountsStay ==
  ASSUME SizeCounts, Live' = Live, size' = size,
         \A u \in Threads : Counting(u)' <=> Counting(u),
         \A u \in Threads : pc'[u] = "counted" => pc[u] = "counted" /\ mine'[u] = mine[u]
  PROVE  SizeCounts'
BY DEF SizeCounts

\* The first entry of the list of a key, and the one after an entry of it.
LEMMA ListSteps ==
  ASSUME TypeOK, InLists, NEW k \in Keys
  PROVE  /\ IsFirst(buckets[Index(k)], Of(Index(k)))
         /\ \A a \in Of(Index(k)) : IsFirst(entries[a].next, {c \in Of(Index(k)) : a < c})
BY IndexInBuckets DEF InLists, TypeOK

\* What a thread in a call knows of itself.
LEMMA InItsCall ==
  ASSUME IndInv, NEW t \in Threads, InCall(t)
  PROVE  /\ Key(t) \in Keys /\ Index(Key(t)) \in Buckets /\ call[t].op \in Operation
         /\ TypeOK /\ InLists /\ Current /\ ValuesOwned /\ Locked /\ SizeCounts
         /\ NothingDeleted /\ Len(entries) <= puts /\ use \in Uses /\ ThreadInv(t)
         /\ CallKnown(t) /\ PutFresh(t) /\ Located(t) /\ ValueHeld(t) /\ Regular(t)
BY IndexInBuckets DEF IndInv, MapInv, ThreadInv, CallKnown, TypeOK

-----------------------------------------------------------------------------
(* The steps that leave the map *)

LEMMA CallKeeps ==
  ASSUME IndInv, NEW t \in Threads, NEW op \in Operation, NEW k \in Keys,
         Call(t, op, k), use' = use, Safe(use)
  PROVE  IndInv'
<1>1. TypeOK /\ Locked /\ SizeCounts /\ use \in Uses /\ ThreadInv(t) /\ pc[t] = "idle"
      /\ Len(entries) <= puts /\ Current /\ ValuesOwned
  BY DEF IndInv, MapInv, Call, TypeOK
<1>2. /\ pc' = [pc EXCEPT ![t] = "head"] /\ call' = [call EXCEPT ![t] = [op |-> op, key |-> k]]
      /\ got' = [got EXCEPT ![t] = Null] /\ valid' = [valid EXCEPT ![t] = {current[k]}]
      /\ cur' = cur /\ prev' = prev
  BY DEF Call, Goto
<1>3. /\ pc'[t] = "head" /\ call'[t].op = op /\ Key(t)' = k /\ got'[t] = Null
      /\ valid'[t] = {current[k]}
  BY <1>1, <1>2 DEF TypeOK, Key
<1>4. \/ op = "put" /\ puts < MaxPuts /\ MayPut(k) /\ puts' = puts + 1
         /\ mine' = [mine EXCEPT ![t] = puts + 1]
      \/ op # "put" /\ puts' = puts /\ mine' = mine
  BY DEF Call
<1>5. MapStays
  BY <1>1, <1>4 DEF MapStays, Call, mapVars, TypeOK
<1>6. \A u \in Threads \ {t} : Stays(u) /\ valid'[u] = valid[u]
  BY <1>1, <1>2, <1>4 DEF Stays, TypeOK
<1>7. Live' = Live /\ Bucket(t)' = Of(Index(k))
  BY <1>3, <1>5, ListsStay DEF Bucket, Index, MapStays
<1>8. TypeOK'
  <2>1. puts' \in 0 .. MaxPuts /\ mine' \in [Threads -> Address] /\ puts <= puts'
    BY <1>1, <1>4, BucketMapAssumption DEF TypeOK, Address
  <2>2. freed' \subseteq 1 .. puts'
    BY <1>1, <2>1 DEF TypeOK, Call, mapVars
  <2>3. pc' \in [Threads -> Steps]
    BY <1>1, <1>2 DEF TypeOK, Steps
  <2>4. call' \in [Threads -> [op : Operation \cup {"none"}, key : Keys \cup {"none"}]]
    BY <1>1, <1>2 DEF TypeOK
  <2>5. got' \in [Threads -> Address] /\ valid' \in [Threads -> SUBSET Address]
    BY <1>1, <1>2, BucketMapAssumption DEF TypeOK, Address, Null
  <2>6. lock' \in Threads \cup {"none"}
    BY <1>1 DEF TypeOK, Call
  <2> QED BY <1>1, <1>2, <2>1, <2>2, <2>3, <2>4, <2>5, <2>6 DEF TypeOK, Call, mapVars
<1>9. Locked'
  <2>1. ASSUME use.guarded, NEW u \in Threads PROVE InCall(u)' <=> lock' = u
    <3>1. lock = "none" /\ lock' = t /\ ~InCall(u)
      BY <2>1, <1>1, BucketMapAssumption DEF Call, Locked
    <3>2. u # t => ~InCall(u)'
      BY <3>1, <1>2, <1>1 DEF InCall, TypeOK
    <3>3. InCall(t)'
      BY <1>3 DEF InCall
    <3> QED BY <3>1, <3>2, <3>3
  <2> QED BY <2>1 DEF Locked
<1>10. SizeCounts'
  <2>1. \A u \in Threads : Counting(u)' <=> Counting(u)
    BY <1>1, <1>2 DEF Counting, TypeOK
  <2>2. \A u \in Threads : pc'[u] = "counted" => pc[u] = "counted" /\ mine'[u] = mine[u]
    BY <1>1, <1>2, <1>6, <1>3 DEF Stays, TypeOK
  <2>3. size' = size
    BY DEF Call, mapVars
  <2> QED BY <1>1, <1>7, <2>1, <2>2, <2>3, CountsStay
<1>11. ThreadInv(t)'
  <2>1. CallKnown(t)'
    BY <1>3, <1>5 DEF CallKnown, MapStays, Call
  <2>2. PutFresh(t)'
    <3>1. ASSUME op = "put"
          PROVE  /\ Len(entries) < puts' /\ mine'[t] \in (1 .. puts') \ freed
                 /\ \A a \in Live : entries[a].value # mine'[t]
                 /\ ~use.guarded => current[k] = Null \/ use.overwrites
      <4>1. mine'[t] = puts + 1 /\ puts' = puts + 1 /\ puts \in Nat
        BY <3>1, <1>1, <1>4 DEF TypeOK
      <4>2. Len(entries) < puts'
        BY <4>1, <1>1 DEF TypeOK
      <4>3. mine'[t] \in (1 .. puts') \ freed
        BY <4>1, <1>1 DEF TypeOK
      <4>4. \A a \in Live : entries[a].value # mine'[t]
        BY <4>1, <1>1 DEF ValuesOwned
      <4> QED BY <3>1, <1>4, <4>2, <4>3, <4>4 DEF MayPut
    <3>2. ~use.guarded /\ op = "put" => current[k] = Null
      BY <3>1 DEF Safe
    <3> QED BY <1>3, <1>5, <1>7, <3>1, <3>2 DEF PutFresh, Putting, MapStays
  <2>3. Located(t)'
    <3>1. cur'[t] = Null /\ prev'[t] = Null
      BY <1>1, <1>2 DEF ThreadInv, Located, InCall
    <3> QED BY <3>1, <1>3 DEF Located
  <2>4. ValueHeld(t)'
    BY <1>3 DEF ValueHeld
  <2>5. Regular(t)'
    BY <1>3, <1>5 DEF Regular, MapStays
  <2> QED BY <2>1, <2>2, <2>3, <2>4, <2>5 DEF ThreadInv
<1> QED BY <1>5, <1>6, <1>8, <1>9, <1>10, <1>11, MoveKeeps

LEMMA LoadHeadKeeps ==
  ASSUME IndInv, NEW t \in Threads, LoadHead(t), use' = use
  PROVE  IndInv'
<1>1. pc[t] = "head" /\ InCall(t)
  BY DEF LoadHead, InCall
<1> DEFINE K == Key(t)
<1>2. /\ K \in Keys /\ Index(K) \in Buckets /\ call[t].op \in Operation
      /\ TypeOK /\ InLists /\ Locked /\ SizeCounts /\ Len(entries) <= puts
      /\ CallKnown(t) /\ PutFresh(t) /\ Located(t) /\ ValueHeld(t) /\ Regular(t)
  BY <1>1, InItsCall
<1>3. IsFirst(buckets[Index(K)], Of(Index(K)))
  BY <1>2, ListSteps
<1>4. /\ cur' = [cur EXCEPT ![t] = buckets[Index(K)]] /\ prev' = [prev EXCEPT ![t] = Null]
      /\ pc' = [pc EXCEPT ![t] = IF cur'[t] = Null /\ call[t].op = "put" THEN "first" ELSE "walk"]
      /\ call' = call /\ mine' = mine /\ got' = got /\ valid' = valid /\ lock' = lock
      /\ puts' = puts /\ current' = current /\ size' = size
  BY DEF LoadHead, Goto, mapVars
<1>5. /\ cur'[t] = buckets[Index(K)] /\ prev'[t] = Null
      /\ pc'[t] = IF cur'[t] = Null /\ call[t].op = "put" THEN "first" ELSE "walk"
  BY <1>2, <1>4 DEF TypeOK
<1>6. MapStays
  BY <1>2 DEF MapStays, LoadHead, mapVars, TypeOK
<1>7. \A u \in Threads \ {t} : Stays(u) /\ valid'[u] = valid[u]
  BY <1>2, <1>4 DEF Stays, TypeOK
<1>8. /\ Live' = Live /\ Key(t)' = K /\ Bucket(t)' = Of(Index(K)) /\ InCall(t)'
      /\ entries' = entries /\ current' = current
  BY <1>4, <1>5, <1>6, ListsStay DEF Bucket, Index, MapStays, Key, InCall
<1>9. /\ Of(Index(K)) \subseteq Live /\ Null \notin Of(Index(K)) /\ Of(Index(K)) \subseteq Nat
      /\ Of(Index(K)) \subseteq 1 .. Len(entries)
  BY <1>2, LiveNumbers
<1>10. buckets[Index(K)] \in Of(Index(K)) \cup {Null}
  BY <1>3 DEF IsFirst
<1>11. TypeOK'
  <2>1. cur' \in [Threads -> 0 .. Len(entries)] /\ prev' \in [Threads -> 0 .. Len(entries)]
    BY <1>2, <1>4, <1>9, <1>10 DEF TypeOK, Null
  <2>2. pc' \in [Threads -> Steps]
    BY <1>2, <1>4 DEF TypeOK, Steps
  <2> QED BY <1>2, <1>4, <1>6, <2>1, <2>2 DEF TypeOK, MapStays
<1>12. Locked'
  BY <1>1, <1>2, <1>4, <1>5, <1>7, <1>6, LockStays DEF Stays, MapStays
<1>13. SizeCounts'
  BY <1>1, <1>2, <1>4, <1>5, <1>7, <1>8, CountsStay DEF Counting, Stays
<1>14. ThreadInv(t)'
  <2>1. CallKnown(t)'
    BY <1>1, <1>2, <1>4, <1>5, <1>6 DEF CallKnown, MapStays, InCall, Key
  <2>2. PutFresh(t)'
    BY <1>1, <1>2, <1>4, <1>5, <1>6, <1>8 DEF PutFresh, Putting, MapStays
  <2>3. Located(t)'
    <3>1. pc'[t] = "first" => Of(Index(K)) = {}
      BY <1>3, <1>5, <1>9 DEF IsFirst
    <3>2. Passed(t)' = {c \in Of(Index(K)) : buckets[Index(K)] = Null \/ c < buckets[Index(K)]}
      BY <1>5, <1>8 DEF Passed
    <3>3. Passed(t)' = {}
      BY <3>2, <1>3, <1>9 DEF IsFirst
    <3>4. pc'[t] = "walk" /\ call[t].op = "put" => Of(Index(K)) # {}
      BY <1>3, <1>5 DEF IsFirst
    <3>5. pc'[t] = "walk" => OnWalk(t)'
      BY <1>4, <1>5, <1>8, <1>10, <3>3, <3>4 DEF OnWalk
    <3> QED BY <1>5, <1>8, <1>9, <1>10, <3>1, <3>5 DEF Located
  <2>4. ValueHeld(t)'
    BY <1>5 DEF ValueHeld
  <2>5. Regular(t)'
    BY <1>1, <1>2, <1>4, <1>5, <1>8 DEF Regular
  <2> QED BY <2>1, <2>2, <2>3, <2>4, <2>5 DEF ThreadInv
<1> QED BY <1>6, <1>7, <1>11, <1>12, <1>13, <1>14, MoveKeeps

LEMMA StepKeeps ==
  ASSUME IndInv, NEW t \in Threads, Step(t), use' = use
  PROVE  IndInv'
<1>1. pc[t] = "walk" /\ InCall(t)
  BY DEF Step, InCall
<1> DEFINE K == Key(t)
           after == entries[cur[t]].next
<1>2. /\ K \in Keys /\ Index(K) \in Buckets /\ call[t].op \in Operation
      /\ TypeOK /\ InLists /\ Locked /\ SizeCounts /\ Len(entries) <= puts
      /\ CallKnown(t) /\ PutFresh(t) /\ Located(t) /\ ValueHeld(t) /\ Regular(t)
  BY <1>1, InItsCall
<1>3. /\ Of(Index(K)) \subseteq Live /\ Null \notin Of(Index(K)) /\ Of(Index(K)) \subseteq Nat
      /\ Of(Index(K)) \subseteq 1 .. Len(entries)
  BY <1>2, LiveNumbers
<1>4. OnWalk(t) /\ cur[t] \in Of(Index(K)) /\ entries[cur[t]].key # K
  BY <1>1, <1>2 DEF Located, OnWalk, Step, Bucket
<1>5. IsFirst(after, {c \in Of(Index(K)) : cur[t] < c})
  BY <1>2, <1>4, ListSteps
<1>6. /\ cur' = [cur EXCEPT ![t] = after] /\ prev' = [prev EXCEPT ![t] = cur[t]]
      /\ pc' = pc /\ call' = call /\ mine' = mine /\ got' = got /\ valid' = valid
      /\ lock' = lock /\ puts' = puts /\ current' = current /\ size' = size
  BY DEF Step, mapVars
<1>7. cur'[t] = after /\ prev'[t] = cur[t] /\ pc'[t] = "walk"
  BY <1>1, <1>2, <1>6 DEF TypeOK
<1>8. MapStays
  BY <1>2 DEF MapStays, Step, mapVars, TypeOK
<1>9. \A u \in Threads \ {t} : Stays(u) /\ valid'[u] = valid[u]
  BY <1>2, <1>6 DEF Stays, TypeOK
<1>10. /\ Live' = Live /\ Key(t)' = K /\ Bucket(t)' = Of(Index(K)) /\ InCall(t)'
       /\ entries' = entries /\ current' = current
  BY <1>6, <1>7, <1>8, ListsStay DEF Bucket, Index, MapStays, Key, InCall
<1>11. after \in Of(Index(K)) \cup {Null}
  BY <1>5 DEF IsFirst
<1>12. TypeOK'
  <2>1. cur' \in [Threads -> 0 .. Len(entries)] /\ prev' \in [Threads -> 0 .. Len(entries)]
    BY <1>2, <1>6, <1>3, <1>11, <1>4 DEF TypeOK, Null
  <2> QED BY <1>2, <1>6, <1>8, <2>1 DEF TypeOK, MapStays
<1>13. Locked'
  BY <1>1, <1>2, <1>6, <1>7, <1>8, LockStays DEF MapStays
<1>14. SizeCounts'
  BY <1>2, <1>6, <1>10, CountsStay DEF Counting
<1>15. ThreadInv(t)'
  <2>1. CallKnown(t)'
    BY <1>2, <1>6, <1>8 DEF CallKnown, MapStays, InCall, Key
  <2>2. PutFresh(t)'
    BY <1>2, <1>6, <1>8, <1>10 DEF PutFresh, Putting, MapStays
  <2>3. Located(t)'
    <3>1. Passed(t)' = Passed(t) \cup {cur[t]}
      <4>1. Passed(t)' = {c \in Of(Index(K)) : after = Null \/ c < after}
        BY <1>7, <1>10 DEF Passed
      <4>2. Passed(t) = {c \in Of(Index(K)) : c < cur[t]}
        BY <1>3, <1>4 DEF Passed, Bucket
      <4>3. \A c \in Of(Index(K)) : (after = Null \/ c < after) <=> c < cur[t] \/ c = cur[t]
        BY <1>3, <1>4, <1>5, <1>11 DEF IsFirst
      <4> QED BY <4>1, <4>2, <4>3, <1>4
    <3>2. Passed(t) \subseteq Of(Index(K)) /\ \A c \in Passed(t) : c < cur[t]
      BY <1>3, <1>4 DEF Passed, Bucket
    <3>3. \A c \in Passed(t)' : entries[c].key = K =>
            call[t].op \in {"get", "wait"} /\ Null \in valid[t]
      BY <3>1, <1>4 DEF OnWalk
    <3>4. cur[t] \in Passed(t)' /\ \A c \in Passed(t)' : c <= cur[t]
      BY <3>1, <3>2, <1>3, <1>4
    <3>5. OnWalk(t)'
      BY <1>3, <1>4, <1>6, <1>7, <1>10, <1>11, <3>3, <3>4 DEF OnWalk
    <3> QED BY <1>3, <1>4, <1>7, <1>10, <1>11, <3>5 DEF Located
  <2>4. ValueHeld(t)'
    BY <1>7 DEF ValueHeld
  <2>5. Regular(t)'
    BY <1>1, <1>2, <1>6, <1>7, <1>10 DEF Regular
  <2> QED BY <2>1, <2>2, <2>3, <2>4, <2>5 DEF ThreadInv
<1> QED BY <1>8, <1>9, <1>12, <1>13, <1>14, <1>15, MoveKeeps

LEMMA HitKeeps ==
  ASSUME IndInv, NEW t \in Threads, Hit(t), use' = use
  PROVE  IndInv'
<1>1. pc[t] = "walk" /\ InCall(t)
  BY DEF Hit, InCall
<1> DEFINE K == Key(t)
<1>2. /\ K \in Keys /\ Index(K) \in Buckets /\ call[t].op \in Operation
      /\ TypeOK /\ InLists /\ Locked /\ SizeCounts /\ Len(entries) <= puts
      /\ Current /\ ValuesOwned
      /\ CallKnown(t) /\ PutFresh(t) /\ Located(t) /\ ValueHeld(t) /\ Regular(t)
  BY <1>1, InItsCall
<1>3. /\ Of(Index(K)) \subseteq Live /\ Null \notin Of(Index(K)) /\ Of(Index(K)) \subseteq Nat
      /\ Of(Index(K)) \subseteq DOMAIN entries
  BY <1>2, LiveNumbers DEF Live
<1>4. OnWalk(t) /\ cur[t] \in Of(Index(K)) /\ entries[cur[t]].key = K
  BY <1>1, <1>2 DEF Located, OnWalk, Hit, Bucket
<1> DEFINE value == entries[cur[t]].value
<1>5. /\ got' = [got EXCEPT ![t] = value] /\ cur' = cur /\ prev' = prev
      /\ call' = call /\ mine' = mine /\ valid' = valid
      /\ lock' = lock /\ puts' = puts /\ current' = current /\ size' = size
  BY DEF Hit, mapVars
<1>6. PICK s \in Steps : /\ pc' = [pc EXCEPT ![t] = s]
                         /\ call[t].op = "put" => s = "set"
                         /\ call[t].op \in {"get", "wait"} => s = "clone"
                         /\ call[t].op = "take" => s = "unlink"
                         /\ s \in {"set", "clone", "unlink"}
  BY <1>2 DEF Hit, Goto, Operation, Steps
<1>7. got'[t] = value /\ pc'[t] = s
  BY <1>2, <1>5, <1>6 DEF TypeOK
<1>8. MapStays
  BY <1>2 DEF MapStays, Hit, mapVars, TypeOK
<1>9. \A u \in Threads \ {t} : Stays(u) /\ valid'[u] = valid[u]
  BY <1>2, <1>5, <1>6 DEF Stays, TypeOK
<1>10. /\ Live' = Live /\ Key(t)' = K /\ Bucket(t)' = Of(Index(K)) /\ InCall(t)'
       /\ entries' = entries /\ current' = current
  BY <1>5, <1>6, <1>7, <1>8, ListsStay DEF Bucket, Index, MapStays, Key, InCall
<1>11. value \in Address /\ value = current[K] /\ value \notin freed
  BY <1>2, <1>3, <1>4, EntryFields DEF Current, ValuesOwned
<1>12. TypeOK'
  <2>1. got' \in [Threads -> Address]
    BY <1>2, <1>5, <1>11 DEF TypeOK
  <2>2. pc' \in [Threads -> Steps]
    BY <1>2, <1>6 DEF TypeOK
  <2> QED BY <1>2, <1>5, <1>8, <2>1, <2>2 DEF TypeOK, MapStays
<1>13. Locked'
  BY <1>1, <1>2, <1>5, <1>6, <1>7, <1>9, <1>8, LockStays DEF MapStays, Stays
<1>14. SizeCounts'
  BY <1>1, <1>2, <1>5, <1>6, <1>7, <1>9, <1>10, CountsStay DEF Counting, Stays
<1>15. ThreadInv(t)'
  <2>1. CallKnown(t)'
    BY <1>1, <1>2, <1>5, <1>6, <1>7, <1>8 DEF CallKnown, MapStays, InCall, Key, Operation
  <2>2. PutFresh(t)'
    BY <1>1, <1>2, <1>5, <1>6, <1>7, <1>8, <1>10 DEF PutFresh, Putting, MapStays
  <2>3. Located(t)'
    <3>1. Found(t)'
      BY <1>4, <1>5, <1>7, <1>10 DEF Found
    <3>2. Passed(t) = {c \in Of(Index(K)) : c < cur[t]}
      BY <1>3, <1>4 DEF Passed, Bucket
    <3>3. ASSUME call[t].op = "take", prev[t] = Null
          PROVE  \A c \in Of(Index(K)) : cur[t] <= c
      BY <3>2, <3>3, <1>3, <1>4 DEF OnWalk
    <3>4. ASSUME call[t].op = "take", prev[t] # Null
          PROVE  /\ prev[t] \in Of(Index(K)) /\ prev[t] < cur[t]
                 /\ \A c \in Of(Index(K)) : c <= prev[t] \/ cur[t] <= c
      BY <3>2, <3>4, <1>3, <1>4 DEF OnWalk
    <3>5. s = "unlink" => call[t].op = "take"
      BY <1>2, <1>6 DEF Operation
    <3> QED BY <1>2, <1>5, <1>6, <1>7, <1>10, <3>1, <3>3, <3>4, <3>5 DEF Located
  <2>4. ValueHeld(t)'
    BY <1>6, <1>7, <1>8, <1>11 DEF ValueHeld, MapStays
  <2>5. Regular(t)'
    BY <1>1, <1>2, <1>5, <1>6, <1>7, <1>10, <1>11 DEF Regular
  <2> QED BY <2>1, <2>2, <2>3, <2>4, <2>5 DEF ThreadInv
<1> QED BY <1>8, <1>9, <1>12, <1>13, <1>14, <1>15, MoveKeeps

\* A thread that has returned.
LEMMA ReturnedIdle ==
  ASSUME TypeOK, NEW t \in Threads, Return(t), call' = call, got' = got,
         call[t].op \in {"get", "wait"} => got[t] \in valid'[t]
  PROVE  ThreadInv(t)'
<1>1. pc'[t] = "idle" /\ cur'[t] = Null /\ prev'[t] = Null
  BY DEF TypeOK, Return, Goto
<1>2. CallKnown(t)' /\ PutFresh(t)' /\ ValueHeld(t)'
  BY <1>1 DEF CallKnown, PutFresh, ValueHeld, InCall, Putting
<1>3. Located(t)'
  BY <1>1 DEF Located, InCall
<1>4. Regular(t)'
  BY <1>1 DEF Regular, InCall
<1> QED BY <1>2, <1>3, <1>4 DEF ThreadInv

\* A thread that returns from a call of which nothing is left to do.
LEMMA ReturnKeeps ==
  ASSUME IndInv, NEW t \in Threads, InCall(t), ~Counting(t), Return(t), MapStays,
         UNCHANGED <<size, puts, call, got, valid>>,
         call[t].op \in {"get", "wait"} => got[t] \in valid[t]
  PROVE  IndInv'
<1>1. TypeOK /\ Locked /\ SizeCounts
  BY DEF IndInv, MapInv
<1>2. /\ pc' = [pc EXCEPT ![t] = "idle"] /\ cur' = [cur EXCEPT ![t] = Null]
      /\ prev' = [prev EXCEPT ![t] = Null] /\ mine' = [mine EXCEPT ![t] = 0]
  BY DEF Return, Goto
<1>3. pc'[t] = "idle" /\ cur'[t] = Null /\ prev'[t] = Null
  BY <1>1, <1>2 DEF TypeOK
<1>4. \A u \in Threads \ {t} : Stays(u) /\ valid'[u] = valid[u]
  BY <1>1, <1>2 DEF Stays, TypeOK
<1>5. TypeOK'
  <2>1. /\ mine' \in [Threads -> Address]
        /\ cur' \in [Threads -> 0 .. Len(entries)] /\ prev' \in [Threads -> 0 .. Len(entries)]
    BY <1>1, <1>2, BucketMapAssumption DEF TypeOK, Address, Null
  <2>2. pc' \in [Threads -> Steps] /\ lock' \in Threads \cup {"none"}
    BY <1>1, <1>2 DEF TypeOK, Steps, Return
  <2> QED BY <1>1, <2>1, <2>2 DEF TypeOK, MapStays
<1>6. Locked'
  BY <1>1, LockReturned DEF MapStays
<1>7. SizeCounts'
  <2>1. \A u \in Threads : Counting(u)' <=> Counting(u)
    BY <1>1, <1>2 DEF Counting, TypeOK
  <2>2. \A u \in Threads : pc'[u] = "counted" => pc[u] = "counted" /\ mine'[u] = mine[u]
    BY <1>3, <1>4 DEF Stays
  <2>3. Live' = Live
    BY ListsStay
  <2> QED BY <1>1, <2>1, <2>2, <2>3, CountsStay
<1>8. ThreadInv(t)'
  BY <1>1, ReturnedIdle
<1> QED BY <1>4, <1>5, <1>6, <1>7, <1>8, MoveKeeps

LEMMA CloneKeeps ==
  ASSUME IndInv, NEW t \in Threads, Clone(t), use' = use
  PROVE  IndInv'
<1>1. pc[t] = "clone" /\ InCall(t) /\ ~Counting(t)
  BY DEF Clone, InCall, Counting
<1>2. TypeOK /\ CallKnown(t) /\ Regular(t)
  BY <1>1, InItsCall
<1>3. MapStays
  BY <1>2 DEF MapStays, Clone, mapVars, TypeOK
<1>4. Return(t) /\ UNCHANGED <<size, puts, call, got, valid>>
  BY DEF Clone, mapVars
<1>5. call[t].op \in {"get", "wait"} => got[t] \in valid[t]
  BY <1>1, <1>2 DEF Regular
<1> QED BY <1>1, <1>3, <1>4, <1>5, ReturnKeeps

LEMMA CountKeeps ==
  ASSUME IndInv, NEW t \in Threads, Count(t), use' = use
  PROVE  IndInv'
<1>1. pc[t] = "count" /\ InCall(t)
  BY DEF Count, InCall
<1>2. /\ TypeOK /\ Locked /\ SizeCounts /\ Located(t) /\ CallKnown(t) /\ Regular(t)
      /\ PutFresh(t)
  BY <1>1, InItsCall
<1>3. /\ pc' = [pc EXCEPT ![t] = "counted"] /\ mine' = [mine EXCEPT ![t] = size]
      /\ cur' = cur /\ prev' = prev /\ call' = call /\ got' = got /\ valid' = valid
      /\ lock' = lock /\ puts' = puts /\ current' = current /\ size' = size
  BY DEF Count, Goto, mapVars
<1>4. pc'[t] = "counted" /\ mine'[t] = size
  BY <1>2, <1>3 DEF TypeOK
<1>5. MapStays
  BY <1>2 DEF MapStays, Count, mapVars, TypeOK
<1>6. \A u \in Threads \ {t} : Stays(u) /\ valid'[u] = valid[u]
  BY <1>2, <1>3 DEF Stays, TypeOK
<1>7. Live' = Live
  BY <1>5, ListsStay
<1>8. TypeOK'
  <2>1. mine' \in [Threads -> Address]
    BY <1>2, <1>3 DEF TypeOK, Address
  <2>2. pc' \in [Threads -> Steps]
    BY <1>2, <1>3 DEF TypeOK, Steps
  <2> QED BY <1>2, <1>3, <1>5, <2>1, <2>2 DEF TypeOK, MapStays
<1>9. Locked'
  BY <1>1, <1>2, <1>3, <1>4, <1>5, <1>6, LockStays DEF MapStays, Stays
<1>10. SizeCounts'
  <2>1. \A u \in Threads : Counting(u)' <=> Counting(u)
    BY <1>1, <1>2, <1>3 DEF Counting, TypeOK
  <2>2. \A u \in Threads : pc'[u] = "counted" => mine'[u] = size'
    BY <1>2, <1>3, <1>4, <1>6 DEF Stays, SizeCounts
  <2> QED BY <1>2, <1>3, <1>7, <2>1, <2>2 DEF SizeCounts
<1>11. ThreadInv(t)'
  <2>1. CallKnown(t)'
    BY <1>1, <1>2, <1>3, <1>4, <1>5 DEF CallKnown, MapStays, InCall, Key
  <2>2. PutFresh(t)' /\ ValueHeld(t)'
    BY <1>4 DEF PutFresh, Putting, ValueHeld
  <2>3. Located(t)'
    BY <1>2, <1>3, <1>4, <1>7 DEF Located, InCall
  <2>4. Regular(t)'
    BY <1>1, <1>2, <1>3, <1>4 DEF Regular, InCall, Key
  <2> QED BY <2>1, <2>2, <2>3, <2>4 DEF ThreadInv
<1> QED BY <1>5, <1>6, <1>8, <1>9, <1>10, <1>11, MoveKeeps

LEMMA MissKeeps ==
  ASSUME IndInv, NEW t \in Threads, Miss(t), use' = use
  PROVE  IndInv'
<1>1. pc[t] = "walk" /\ InCall(t) /\ cur[t] = Null /\ ~Counting(t)
  BY DEF Miss, InCall, Counting
<1> DEFINE K == Key(t)
<1>2. /\ K \in Keys /\ Index(K) \in Buckets /\ call[t].op \in Operation
      /\ TypeOK /\ InLists /\ Locked /\ SizeCounts /\ Len(entries) <= puts /\ Current
      /\ CallKnown(t) /\ PutFresh(t) /\ Located(t) /\ ValueHeld(t) /\ Regular(t)
  BY <1>1, InItsCall
<1>3. MapStays /\ call' = call /\ got' = got /\ valid' = valid /\ puts' = puts /\ size' = size
  BY <1>2 DEF MapStays, Miss, mapVars, TypeOK
<1>4. OnWalk(t) /\ Passed(t) = Of(Index(K)) /\ Bucket(t) = Of(Index(K))
  BY <1>1, <1>2 DEF Located, Passed, Bucket
<1>5. CASE call[t].op \in {"get", "take"}
  <2>1. Return(t)
    BY <1>5 DEF Miss
  <2>2. ASSUME call[t].op = "get" PROVE got[t] \in valid[t]
    <3>1. got[t] = Null /\ current[K] \in valid[t]
      BY <2>2, <1>1, <1>2 DEF Regular
    <3>2. CASE current[K] = Null
      BY <3>1, <3>2
    <3>3. CASE current[K] # Null
      <4>1. PICK a \in Live : entries[a].key = K
        BY <3>3, <1>2 DEF Current
      <4>2. a \in Passed(t)
        BY <4>1, <1>4 DEF Of
      <4> QED BY <4>1, <4>2, <1>4, <3>1 DEF OnWalk
    <3> QED BY <3>2, <3>3
  <2> QED BY <1>1, <1>3, <1>5, <2>1, <2>2, ReturnKeeps
<1>6. CASE call[t].op \in {"put", "wait"}
  <2>1. PICK s \in Steps : /\ pc' = [pc EXCEPT ![t] = s]
                           /\ \/ call[t].op = "put" /\ s = "append"
                              \/ call[t].op = "wait" /\ s = "head"
    BY <1>6 DEF Miss, Goto, Steps
  <2>2. lock' = lock /\ mine' = mine /\ cur' = cur /\ prev' = prev
    BY <1>6 DEF Miss
  <2>3. pc'[t] = s
    BY <1>2, <2>1 DEF TypeOK
  <2>4. \A u \in Threads \ {t} : Stays(u) /\ valid'[u] = valid[u]
    BY <1>2, <1>3, <2>1, <2>2 DEF Stays, TypeOK
  <2>5. /\ Live' = Live /\ Key(t)' = K /\ Bucket(t)' = Of(Index(K)) /\ InCall(t)'
        /\ entries' = entries /\ current' = current
    BY <1>3, <2>1, <2>3, ListsStay DEF Bucket, Index, MapStays, Key, InCall
  <2>6. TypeOK'
    <3>1. pc' \in [Threads -> Steps]
      BY <1>2, <2>1 DEF TypeOK
    <3> QED BY <1>2, <1>3, <2>2, <3>1 DEF TypeOK, MapStays
  <2>7. Locked'
    BY <1>1, <1>2, <1>3, <2>1, <2>2, <2>3, <2>4, LockStays DEF MapStays, Stays
  <2>8. SizeCounts'
    BY <1>1, <1>2, <1>3, <2>1, <2>2, <2>3, <2>4, <2>5, CountsStay DEF Counting, Stays
  <2>9. ThreadInv(t)'
    <3>1. CallKnown(t)'
      BY <1>1, <1>2, <1>3, <2>1, <2>3 DEF CallKnown, MapStays, InCall, Key
    <3>2. PutFresh(t)'
      BY <1>1, <1>2, <1>3, <2>1, <2>2, <2>3, <2>5 DEF PutFresh, Putting, MapStays
    <3>3. Located(t)'
      <4>1. ASSUME call[t].op = "put"
            PROVE  /\ prev[t] \in Of(Index(K))
                   /\ \A c \in Of(Index(K)) : c <= prev[t] /\ entries[c].key # K
        BY <4>1, <1>4 DEF OnWalk
      <4> QED BY <1>1, <1>2, <2>1, <2>2, <2>3, <2>5, <4>1 DEF Located
    <3>4. ValueHeld(t)'
      BY <2>1, <2>3 DEF ValueHeld
    <3>5. Regular(t)'
      BY <1>1, <1>2, <1>3, <2>1, <2>3, <2>5 DEF Regular
    <3> QED BY <3>1, <3>2, <3>3, <3>4, <3>5 DEF ThreadInv
  <2> QED BY <1>3, <2>4, <2>6, <2>7, <2>8, <2>9, MoveKeeps
<1> QED BY <1>2, <1>5, <1>6 DEF Operation

\* There are at most as many entries as were allocated.
LEMMA LiveCount ==
  ASSUME TypeOK
  PROVE  /\ IsFiniteSet(Live) /\ Cardinality(Live) \in Nat
         /\ Cardinality(Live) <= Len(entries)
<1>1. Live \subseteq 1 .. Len(entries) /\ Len(entries) \in Nat
  BY DEF Live, TypeOK
<1>2. IsFiniteSet(1 .. Len(entries)) /\ Cardinality(1 .. Len(entries)) = Len(entries)
  BY <1>1, FS_Interval
<1> QED BY <1>1, <1>2, FS_Subset, FS_CardinalityType

LEMMA CountedKeeps ==
  ASSUME IndInv, NEW t \in Threads, Counted(t), use' = use, Safe(use)
  PROVE  IndInv'
<1>1. pc[t] = "counted" /\ InCall(t) /\ Counting(t)
  BY DEF Counted, InCall, Counting
<1>2. /\ TypeOK /\ Locked /\ SizeCounts /\ CallKnown(t) /\ Len(entries) <= puts
      /\ use \in Uses /\ \A u \in Threads : CallKnown(u)
  BY <1>1, InItsCall DEF IndInv, ThreadInv
<1>3. call[t].op = "put"
  BY <1>1, <1>2 DEF CallKnown
<1>4. \A u \in Threads \ {t} : ~Counting(u)
  BY <1>1, <1>2, <1>3, SolePut
<1>5. MapStays
  BY <1>2 DEF MapStays, Counted, TypeOK
<1>6. /\ pc' = [pc EXCEPT ![t] = "idle"] /\ cur' = [cur EXCEPT ![t] = Null]
      /\ prev' = [prev EXCEPT ![t] = Null] /\ mine' = [mine EXCEPT ![t] = 0]
      /\ call' = call /\ got' = got /\ valid' = valid /\ Return(t)
  BY DEF Return, Goto, Counted
<1>7. \A u \in Threads \ {t} : Stays(u) /\ valid'[u] = valid[u]
  BY <1>2, <1>6 DEF Stays, TypeOK
<1>8. size' = Cardinality(Live)
  BY <1>1, <1>2 DEF Counted, SizeCounts
<1>9. TypeOK'
  <2>1. /\ mine' \in [Threads -> Address]
        /\ cur' \in [Threads -> 0 .. Len(entries)] /\ prev' \in [Threads -> 0 .. Len(entries)]
    BY <1>2, <1>6, BucketMapAssumption DEF TypeOK, Address, Null
  <2>2. pc' \in [Threads -> Steps] /\ lock' \in Threads \cup {"none"}
    BY <1>2, <1>6 DEF TypeOK, Steps, Return
  <2>3. size' \in 0 .. MaxPuts
    BY <1>2, <1>8, LiveCount, BucketMapAssumption DEF TypeOK
  <2>4. puts' = puts
    BY DEF Counted
  <2> QED BY <1>2, <1>6, <2>1, <2>2, <2>3, <2>4, <1>5 DEF TypeOK, MapStays
<1>10. Locked'
  BY <1>1, <1>2, <1>5, <1>6, LockReturned DEF MapStays
<1>11. SizeCounts'
  <2>1. \A u \in Threads : ~Counting(u)' /\ pc'[u] # "counted"
    <3>1. ASSUME NEW u \in Threads PROVE pc'[u] \notin {"count", "counted"}
      <4>1. CASE u = t
        BY <4>1, <1>2, <1>6 DEF TypeOK
      <4>2. CASE u # t
        BY <4>2, <1>4, <1>7 DEF Stays, Counting
      <4> QED BY <4>1, <4>2
    <3> QED BY <3>1 DEF Counting
  <2>2. Live' = Live
    BY <1>5, ListsStay
  <2> QED BY <1>8, <2>1, <2>2 DEF SizeCounts
<1>12. ThreadInv(t)'
  BY <1>2, <1>3, <1>6, ReturnedIdle
<1> QED BY <1>5, <1>7, <1>9, <1>10, <1>11, <1>12, MoveKeeps

-----------------------------------------------------------------------------
(* The steps that change the map *)

\* The history of the values of the keys.
LEMMA BecomesValue ==
  ASSUME TypeOK, NEW t \in Threads, InCall(t), Key(t) \in Keys, NEW v \in Address, Becomes(t, v)
  PROVE  /\ current' \in [Keys -> Address] /\ valid' \in [Threads -> SUBSET Address]
         /\ current'[Key(t)] = v
         /\ \A k \in Keys : k # Key(t) => current'[k] = current[k]
         /\ \A u \in Threads : InCall(u) /\ Key(u) = Key(t) => valid'[u] = valid[u] \cup {v}
         /\ \A u \in Threads : ~InCall(u) \/ Key(u) # Key(t) => valid'[u] = valid[u]
BY DEF TypeOK, Becomes, InCall

\* While the lock is held, the other threads keep their part of the invariant.
LEMMA OthersLocked ==
  ASSUME IndInv, use.guarded, NEW t \in Threads, InCall(t),
         \A u \in Threads \ {t} : Stays(u) /\ (~InCall(u) => valid'[u] = valid[u])
  PROVE  \A u \in Threads \ {t} : ThreadInv(u)'
<1> SUFFICES ASSUME NEW u \in Threads \ {t} PROVE ThreadInv(u)'
  OBVIOUS
<1>1. ~InCall(u) /\ ThreadInv(u)
  BY OthersIdle DEF IndInv, MapInv
<1> QED BY <1>1, IdleStays

LEMMA DropOldKeeps ==
  ASSUME IndInv, NEW t \in Threads, DropOld(t), use' = use
  PROVE  IndInv'
<1>1. pc[t] = "drop" /\ InCall(t) /\ ~Counting(t)
  BY DEF DropOld, InCall, Counting
<1>2. /\ TypeOK /\ InLists /\ Current /\ ValuesOwned /\ Locked /\ SizeCounts
      /\ Len(entries) <= puts /\ CallKnown(t) /\ PutFresh(t) /\ ValueHeld(t)
  BY <1>1, InItsCall
<1>3. use.guarded /\ got[t] \in (1 .. puts) \ freed /\ \A a \in Live : entries[a].value # got[t]
  BY <1>1, <1>2 DEF PutFresh, ValueHeld, Putting
<1>4. /\ UNCHANGED <<use, buckets, entries, size, gone, puts, call, got, current, valid>>
      /\ freed' = freed \cup {got[t]} /\ Return(t)
  BY DEF DropOld
<1>5. /\ pc' = [pc EXCEPT ![t] = "idle"] /\ cur' = [cur EXCEPT ![t] = Null]
      /\ prev' = [prev EXCEPT ![t] = Null] /\ mine' = [mine EXCEPT ![t] = 0]
  BY <1>4 DEF Return, Goto
<1>6. \A u \in Threads \ {t} : Stays(u) /\ valid'[u] = valid[u]
  BY <1>2, <1>4, <1>5 DEF Stays, TypeOK
<1>7. Live' = Live /\ \A b : Of(b)' = Of(b)
  BY <1>4 DEF Live, Of, Index
<1>8. TypeOK'
  <2>1. /\ mine' \in [Threads -> Address]
        /\ cur' \in [Threads -> 0 .. Len(entries)] /\ prev' \in [Threads -> 0 .. Len(entries)]
    BY <1>2, <1>5, BucketMapAssumption DEF TypeOK, Address, Null
  <2>2. pc' \in [Threads -> Steps] /\ lock' \in Threads \cup {"none"}
    BY <1>2, <1>4, <1>5 DEF TypeOK, Steps, Return
  <2>3. freed' \subseteq 1 .. puts
    BY <1>2, <1>3, <1>4 DEF TypeOK
  <2> QED BY <1>2, <1>4, <2>1, <2>2, <2>3 DEF TypeOK
<1>9. InLists'
  <2> SUFFICES ASSUME NEW b \in Buckets
               PROVE  /\ IsFirst(buckets'[b], Of(b)')
                      /\ \A a \in Of(b)' : IsFirst(entries'[a].next, {c \in Of(b)' : a < c})
    BY DEF InLists, IsFirst
  <2> QED BY <1>2, <1>4, <1>7 DEF InLists
<1>10. Current'
  BY <1>2, <1>4, <1>7 DEF Current
<1>11. ValuesOwned'
  BY <1>2, <1>3, <1>4, <1>7 DEF ValuesOwned
<1>12. NothingDeleted' /\ (Len(entries) <= puts)'
  BY <1>2, <1>3, <1>4 DEF NothingDeleted
<1>13. Locked'
  BY <1>1, <1>2, <1>4, LockReturned
<1>14. SizeCounts'
  <2>1. \A u \in Threads : Counting(u)' <=> Counting(u)
    BY <1>1, <1>2, <1>5 DEF Counting, TypeOK
  <2>2. \A u \in Threads : pc'[u] = "counted" => pc[u] = "counted" /\ mine'[u] = mine[u]
    BY <1>2, <1>5, <1>6 DEF Stays, TypeOK
  <2> QED BY <1>2, <1>4, <1>7, <2>1, <2>2, CountsStay
<1>15. ThreadInv(t)'
  BY <1>1, <1>2, <1>4, ReturnedIdle DEF CallKnown
<1>16. \A u \in Threads \ {t} : ThreadInv(u)'
  BY <1>1, <1>3, <1>6, OthersLocked
<1>17. MapInv'
  BY <1>8, <1>9, <1>10, <1>11, <1>12, <1>13, <1>14 DEF MapInv
<1> QED BY <1>15, <1>16, <1>17 DEF IndInv

\* A put that replaces a value is made with the lock held.
LEMMA ReplaceKeeps ==
  ASSUME IndInv, NEW t \in Threads, Replace(t), use' = use
  PROVE  IndInv'
<1>1. pc[t] = "set" /\ InCall(t) /\ ~Counting(t)
  BY DEF Replace, InCall, Counting
<1> DEFINE K == Key(t)
           x == cur[t]
           v == mine[t]
<1>2. /\ K \in Keys /\ TypeOK /\ InLists /\ Current /\ ValuesOwned /\ Locked /\ SizeCounts
      /\ Len(entries) <= puts
      /\ CallKnown(t) /\ PutFresh(t) /\ Located(t) /\ ValueHeld(t) /\ Regular(t)
  BY <1>1, InItsCall
<1>3. x \in Live /\ x \in DOMAIN entries /\ entries[x].key = K /\ got[t] = entries[x].value
  BY <1>1, <1>2 DEF Located, Found, Bucket, Of, Live
<1>4. call[t].op = "put" /\ v \in (1 .. puts) \ freed /\ \A a \in Live : entries[a].value # v
  BY <1>1, <1>2 DEF CallKnown, PutFresh, Putting
<1>5. use.guarded
  <2>1. current[K] # Null
    BY <1>2, <1>3 DEF Current
  <2> QED BY <2>1, <1>1, <1>2, <1>4 DEF PutFresh, Putting
<1>6. /\ UNCHANGED <<use, buckets, size, freed, gone, puts, lock, call, mine, cur, prev, got>>
      /\ entries' = [entries EXCEPT ![x].value = v] /\ Becomes(t, v)
      /\ pc' = [pc EXCEPT ![t] = "drop"]
  BY DEF Replace, Goto
<1>7. /\ entries' \in Seq(Entry) /\ Len(entries') = Len(entries) /\ DOMAIN entries' = DOMAIN entries
      /\ \A a \in DOMAIN entries :
           /\ entries'[a].key = entries[a].key /\ entries'[a].next = entries[a].next
           /\ entries'[a].value = IF a = x THEN v ELSE entries[a].value
  <2>1. entries \in Seq(Entry) /\ v \in Address
    BY <1>2 DEF TypeOK
  <2>2. entries[x] \in Entry /\ \A a \in DOMAIN entries : entries[a] \in Entry
    BY <2>1, <1>3
  <2>3. [entries[x] EXCEPT !.value = v] \in Entry
    BY <2>1, <2>2 DEF Entry
  <2>4. entries' = [entries EXCEPT ![x] = [entries[x] EXCEPT !.value = v]]
    BY <1>6
  <2>5. entries' \in Seq(Entry) /\ Len(entries') = Len(entries) /\ DOMAIN entries' = DOMAIN entries
    BY <2>1, <2>3, <2>4, <1>3
  <2>6. \A a \in DOMAIN entries :
          entries'[a] = IF a = x THEN [entries[x] EXCEPT !.value = v] ELSE entries[a]
    BY <2>1, <2>4, <1>3
  <2>7. /\ [entries[x] EXCEPT !.value = v].key = entries[x].key
        /\ [entries[x] EXCEPT !.value = v].next = entries[x].next
        /\ [entries[x] EXCEPT !.value = v].value = v
    BY <2>2 DEF Entry
  <2> QED BY <2>5, <2>6, <2>7
<1>8. pc'[t] = "drop" /\ InCall(t)' /\ Key(t)' = K
  BY <1>2, <1>6 DEF TypeOK, InCall, Key
<1>9. Live' = Live /\ \A b : Of(b)' = Of(b)
  BY <1>6, <1>7 DEF Live, Of, Index
<1>10. v \in Address /\ v # Null
  BY <1>2, <1>4 DEF TypeOK, Null
<1>11. /\ current' \in [Keys -> Address] /\ valid' \in [Threads -> SUBSET Address]
       /\ current'[K] = v /\ \A k \in Keys : k # K => current'[k] = current[k]
       /\ valid'[t] = valid[t] \cup {v}
       /\ \A u \in Threads : ~InCall(u) => valid'[u] = valid[u]
  BY <1>1, <1>2, <1>6, <1>10, BecomesValue
<1>12. \A u \in Threads \ {t} : Stays(u) /\ (~InCall(u) => valid'[u] = valid[u])
  BY <1>2, <1>6, <1>11 DEF Stays, TypeOK
<1>13. TypeOK'
  <2>1. pc' \in [Threads -> Steps]
    BY <1>2, <1>6 DEF TypeOK, Steps
  <2> QED BY <1>2, <1>6, <1>7, <1>11, <2>1 DEF TypeOK
<1>14. InLists'
  <2> SUFFICES ASSUME NEW b \in Buckets
               PROVE  /\ IsFirst(buckets'[b], Of(b)')
                      /\ \A a \in Of(b)' : IsFirst(entries'[a].next, {c \in Of(b)' : a < c})
    BY DEF InLists, IsFirst
  <2>1. Of(b) \subseteq DOMAIN entries
    BY DEF Of, Live
  <2>2. /\ IsFirst(buckets[b], Of(b))
        /\ \A a \in Of(b) : IsFirst(entries[a].next, {c \in Of(b) : a < c})
    BY <1>2 DEF InLists
  <2>3. buckets' = buckets /\ Of(b)' = Of(b)
    BY <1>6, <1>9
  <2>4. \A a \in Of(b) : entries'[a].next = entries[a].next
    BY <1>7, <2>1
  <2> QED BY <2>2, <2>3, <2>4
<1>15. Live \subseteq DOMAIN entries /\ \A a \in Live : entries[a].key \in Keys
  BY <1>2, LiveNumbers DEF Live
<1>16. Current'
  <2>1. \A a \in Live : current'[entries'[a].key] = entries'[a].value /\ entries'[a].value # Null
    BY <1>2, <1>3, <1>7, <1>10, <1>11, <1>15 DEF Current
  <2>2. \A a, c \in Live : entries'[a].key = entries'[c].key => a = c
    BY <1>2, <1>7, <1>15 DEF Current
  <2>3. \A k \in Keys : current'[k] # Null => \E a \in Live : entries'[a].key = k
    BY <1>2, <1>3, <1>7, <1>11, <1>15 DEF Current
  <2> QED BY <2>1, <2>2, <2>3, <1>9 DEF Current
<1>17. ValuesOwned'
  <2>1. \A a \in Live : entries'[a].value \in (1 .. puts) \ freed
    BY <1>2, <1>4, <1>7, <1>15 DEF ValuesOwned
  <2>2. \A a, c \in Live : entries'[a].value = entries'[c].value => a = c
    BY <1>2, <1>4, <1>7, <1>15 DEF ValuesOwned
  <2> QED BY <2>1, <2>2, <1>6, <1>9 DEF ValuesOwned
<1>18. NothingDeleted' /\ (Len(entries) <= puts)'
  BY <1>2, <1>5, <1>6, <1>7 DEF NothingDeleted
<1>19. Locked'
  BY <1>1, <1>2, <1>6, <1>8, <1>12, LockStays DEF Stays
<1>20. SizeCounts'
  <2>1. \A u \in Threads : Counting(u)' <=> Counting(u)
    BY <1>1, <1>2, <1>6 DEF Counting, TypeOK
  <2>2. \A u \in Threads : pc'[u] = "counted" => pc[u] = "counted" /\ mine'[u] = mine[u]
    BY <1>2, <1>6, <1>8, <1>12 DEF Stays
  <2> QED BY <1>2, <1>6, <1>9, <2>1, <2>2, CountsStay
<1>21. ThreadInv(t)'
  <2>1. CallKnown(t)'
    BY <1>1, <1>2, <1>4, <1>6, <1>8 DEF CallKnown, InCall, Key
  <2>2. PutFresh(t)'
    BY <1>5, <1>6, <1>8 DEF PutFresh, Putting
  <2>3. Located(t)'
    BY <1>2, <1>6, <1>8, <1>9 DEF Located
  <2>4. ValueHeld(t)'
    <3>1. got[t] \in (1 .. puts) \ freed
      BY <1>2, <1>3 DEF ValuesOwned
    <3>2. \A a \in Live : entries'[a].value # got[t]
      BY <1>2, <1>3, <1>4, <1>7, <1>15 DEF ValuesOwned
    <3> QED BY <1>6, <1>8, <1>9, <3>1, <3>2 DEF ValueHeld
  <2>5. Regular(t)'
    BY <1>4, <1>6, <1>8, <1>11 DEF Regular
  <2> QED BY <2>1, <2>2, <2>3, <2>4, <2>5 DEF ThreadInv
<1>22. \A u \in Threads \ {t} : ThreadInv(u)'
  BY <1>1, <1>5, <1>12, OthersLocked
<1>23. MapInv'
  BY <1>13, <1>14, <1>16, <1>17, <1>18, <1>19, <1>20 DEF MapInv
<1> QED BY <1>21, <1>22, <1>23 DEF IndInv

\* The entries after an insertion, the entry at p being made to point to the new one.
Grown(t, p) ==
  /\ entries' \in Seq(Entry) /\ Len(entries') = Len(entries) + 1
  /\ \A a \in DOMAIN entries :
       /\ entries'[a].key = entries[a].key /\ entries'[a].value = entries[a].value
       /\ entries'[a].next = IF a = p THEN Len(entries) + 1 ELSE entries[a].next
  /\ entries'[Len(entries) + 1] = New(t)

LEMMA FirstGrown ==
  ASSUME TypeOK, NEW t \in Threads, Key(t) \in Keys, InsertFirst(t)
  PROVE  Grown(t, Null)
<1>1. New(t) \in Entry
  BY BucketMapAssumption DEF New, Entry, TypeOK, Address, Null
<1>2. entries \in Seq(Entry) /\ Len(entries) \in Nat /\ DOMAIN entries = 1 .. Len(entries)
  BY DEF TypeOK
<1>3. entries' = Append(entries, New(t))
  BY DEF InsertFirst
<1>4. /\ entries' \in Seq(Entry) /\ Len(entries') = Len(entries) + 1
      /\ \A a \in DOMAIN entries : entries'[a] = entries[a]
      /\ entries'[Len(entries) + 1] = New(t)
  BY <1>1, <1>2, <1>3
<1>5. \A a \in DOMAIN entries : a # Null
  BY <1>2 DEF Null
<1> QED BY <1>4, <1>5 DEF Grown

LEMMA LastGrown ==
  ASSUME TypeOK, NEW t \in Threads, Key(t) \in Keys, InsertLast(t), prev[t] \in DOMAIN entries,
         Len(entries) < MaxPuts
  PROVE  Grown(t, prev[t])
<1> DEFINE n == Len(entries) + 1
           p == prev[t]
           linked == [entries EXCEPT ![p] = [entries[p] EXCEPT !.next = n]]
<1>1. New(t) \in Entry
  BY BucketMapAssumption DEF New, Entry, TypeOK, Address, Null
<1>2. /\ entries \in Seq(Entry) /\ Len(entries) \in Nat /\ DOMAIN entries = 1 .. Len(entries)
      /\ n \in Address
  BY BucketMapAssumption DEF TypeOK, Address
<1>3. entries' = Append(linked, New(t))
  BY DEF InsertLast
<1>4. entries[p] \in Entry /\ \A a \in DOMAIN entries : entries[a] \in Entry
  BY <1>2
<1>5. [entries[p] EXCEPT !.next = n] \in Entry
  BY <1>2, <1>4 DEF Entry
<1>6. linked \in Seq(Entry) /\ Len(linked) = Len(entries) /\ DOMAIN linked = DOMAIN entries
  BY <1>2, <1>5
<1>7. \A a \in DOMAIN entries :
        linked[a] = IF a = p THEN [entries[p] EXCEPT !.next = n] ELSE entries[a]
  BY <1>2
<1>8. /\ [entries[p] EXCEPT !.next = n].key = entries[p].key
      /\ [entries[p] EXCEPT !.next = n].value = entries[p].value
      /\ [entries[p] EXCEPT !.next = n].next = n
  BY <1>4 DEF Entry
<1>9. \A a \in DOMAIN entries :
        /\ linked[a].key = entries[a].key /\ linked[a].value = entries[a].value
        /\ linked[a].next = IF a = p THEN n ELSE entries[a].next
  BY <1>7, <1>8
<1> HIDE DEF linked
<1>10. /\ entries' \in Seq(Entry) /\ Len(entries') = n
       /\ \A a \in DOMAIN entries : entries'[a] = linked[a]
       /\ entries'[n] = New(t)
  BY <1>1, <1>2, <1>3, <1>6
<1> QED BY <1>9, <1>10 DEF Grown

\* A reader that is in the list while it grows keeps its part of the invariant: if it passes the
\* new entry it was in its call when the key had no value.
LEMMA ReaderOfGrowing ==
  ASSUME TypeOK, NEW t \in Threads, NEW p, Grown(t, p), NEW u \in Threads, ThreadInv(u), Stays(u),
         Key(t) \in Keys, use' = use, ~use.guarded, freed' = freed, gone' = gone, puts' = puts,
         InCall(u), call[u].op \in {"get", "wait"}, current[Key(t)] = Null,
         current'[Key(t)] \in valid'[t],
         \A k \in Keys : k # Key(t) => current'[k] = current[k],
         Key(u) = Key(t) => valid'[u] = valid[u] \cup {current'[Key(t)]},
         Key(u) # Key(t) => valid'[u] = valid[u]
  PROVE  ThreadInv(u)'
<1> DEFINE n == Len(entries) + 1
           K == Key(u)
<1>1. CallKnown(u) /\ PutFresh(u) /\ Located(u) /\ ValueHeld(u) /\ Regular(u) /\ K \in Keys
  BY DEF ThreadInv, CallKnown
<1>2. /\ pc'[u] = pc[u] /\ call'[u] = call[u] /\ mine'[u] = mine[u]
      /\ cur'[u] = cur[u] /\ prev'[u] = prev[u] /\ got'[u] = got[u]
      /\ Key(u)' = K /\ InCall(u)' /\ Index(Key(u))' = Index(K) /\ valid[u] \subseteq valid'[u]
  BY DEF Stays, InCall, Key, Index
<1>3. DOMAIN entries = 1 .. Len(entries) /\ Len(entries) \in Nat /\ DOMAIN entries' = 1 .. n
      /\ gone \subseteq DOMAIN entries
  BY DEF TypeOK, Grown
<1>4. Live \subseteq DOMAIN entries /\ Live' = Live \cup {n}
  BY <1>3 DEF Live
<1>5. pc[u] \in {"head", "walk", "clone"}
  BY <1>1 DEF CallKnown, InCall, TypeOK, Steps
<1>6. CallKnown(u)'
  BY <1>1, <1>2 DEF CallKnown, InCall
<1>7. PutFresh(u)'
  BY <1>1, <1>2, <1>5 DEF PutFresh, Putting
<1>8. Located(u)'
  <2>1. Bucket(u) \subseteq Live /\ Bucket(u) \subseteq Bucket(u)' /\ Bucket(u)' \subseteq Bucket(u) \cup {n}
    BY <1>2, <1>3, <1>4 DEF Bucket, Of, Index, Grown
  <2>2. ASSUME pc[u] = "walk" PROVE OnWalk(u)'
    <3>1. OnWalk(u)
      BY <2>2, <1>1 DEF Located
    <3>2. cur[u] \in Live \cup {Null}
      BY <1>1 DEF Located
    <3>3. ASSUME NEW c \in Passed(u)', entries'[c].key = K
          PROVE  Null \in valid'[u]
      <4>1. CASE c = n
        <5>1. K = Key(t)
          BY <4>1, <3>3 DEF Grown, New
        <5> QED BY <5>1, <1>1, <1>2 DEF Regular
      <4>2. CASE c # n
        <5>1. c \in Passed(u) /\ entries[c].key = K
          BY <4>2, <3>3, <1>2, <1>3, <1>4, <2>1 DEF Passed, Grown
        <5> QED BY <5>1, <3>1, <1>2 DEF OnWalk
      <4> QED BY <4>1, <4>2
    <3> QED BY <3>1, <3>3, <1>2, <2>1 DEF OnWalk
  <2> QED BY <1>1, <1>2, <1>4, <1>5, <2>2 DEF Located
<1>9. ValueHeld(u)'
  BY <1>1, <1>2, <1>5 DEF ValueHeld
<1>10. Regular(u)'
  <2>1. current'[K] \in valid'[u]
    BY <1>1 DEF Regular
  <2> QED BY <2>1, <1>1, <1>2 DEF Regular
<1> QED BY <1>6, <1>7, <1>8, <1>9, <1>10 DEF ThreadInv

\* Where the new entry goes: it is the only one of its bucket, or it comes behind the last.
NewIsLast(t, p) ==
  LET B == Bucket(t) IN
    \/ p = Null /\ B = {} /\ buckets' = [buckets EXCEPT ![Index(Key(t))] = Len(entries) + 1]
    \/ p \in B /\ (\A c \in B : c <= p) /\ buckets' = buckets

\* The lists are in the order of allocation after an insertion.
LEMMA ListsGrow ==
  ASSUME TypeOK, InLists, NEW t \in Threads, Key(t) \in Keys, NEW p, Grown(t, p), NewIsLast(t, p),
         use' = use, gone' = gone
  PROVE  /\ InLists' /\ Live' = Live \cup {Len(entries) + 1} /\ Len(entries) + 1 \notin Live
         /\ \A a \in Live : /\ entries'[a].key = entries[a].key
                            /\ entries'[a].value = entries[a].value
<1> DEFINE n == Len(entries) + 1
           i == Index(Key(t))
<1>1. DOMAIN entries = 1 .. Len(entries) /\ Len(entries) \in Nat /\ DOMAIN entries' = 1 .. n
      /\ gone \subseteq DOMAIN entries
  BY DEF TypeOK, Grown
<1>2. Live \subseteq DOMAIN entries /\ Live' = Live \cup {n} /\ n \notin Live
  BY <1>1 DEF Live
<1>3. \A a \in Live : entries'[a].key = entries[a].key /\ entries'[a].value = entries[a].value
  BY <1>2 DEF Grown
<1>4. i \in Buckets /\ buckets \in [Buckets -> Address]
  BY IndexInBuckets DEF TypeOK
<1>5. entries'[n].key = Key(t) /\ entries'[n].next = Null
  BY DEF Grown, New
<1>6. ASSUME NEW b \in Buckets
      PROVE  Of(b)' = IF b = i THEN Of(b) \cup {n} ELSE Of(b)
  BY <1>2, <1>3, <1>5 DEF Of, Index
<1>7. \A b \in Buckets : /\ Of(b) \subseteq Nat /\ Null \notin Of(b)
                         /\ Of(b) \subseteq DOMAIN entries /\ \A a \in Of(b) : a < n
  BY <1>1, <1>2, LiveNumbers DEF Of
<1>8. ASSUME NEW b \in Buckets
      PROVE  /\ IsFirst(buckets'[b], Of(b)')
             /\ \A a \in Of(b)' : IsFirst(entries'[a].next, {c \in Of(b)' : a < c})
  <2>1. IsFirst(buckets[b], Of(b)) /\ \A a \in Of(b) : IsFirst(entries[a].next, {c \in Of(b) : a < c})
    BY DEF InLists
  <2>2. CASE b # i
    <3>1. Of(b)' = Of(b) /\ buckets'[b] = buckets[b]
      BY <2>2, <1>4, <1>6 DEF NewIsLast
    <3>2. p \notin Of(b)
      BY <2>2, <1>7 DEF NewIsLast, Bucket, Of
    <3>3. \A a \in Of(b) : entries'[a].next = entries[a].next
      BY <3>2, <1>7 DEF Grown
    <3> QED BY <2>1, <3>1, <3>3
  <2>3. CASE b = i /\ p = Null /\ Of(b) = {}
    <3>1. Of(b)' = {n}
      BY <2>3, <1>6
    <3>2. buckets'[b] = n
      BY <2>3, <1>4, <1>7 DEF NewIsLast, Bucket
    <3>3. {c \in Of(b)' : n < c} = {} /\ n <= n
      BY <3>1, <1>1
    <3> QED BY <3>1, <3>2, <3>3, <1>5 DEF IsFirst
  <2>4. CASE b = i /\ p \in Of(b) /\ (\A c \in Of(b) : c <= p) /\ buckets' = buckets
    <3>1. Of(b)' = Of(b) \cup {n}
      BY <2>4, <1>6
    <3>2. IsFirst(buckets[b], Of(b)')
      BY <3>1, <2>1, <2>4, <1>7 DEF IsFirst
    <3>3. ASSUME NEW a \in Of(b)'
          PROVE  IsFirst(entries'[a].next, {c \in Of(b)' : a < c})
      <4>1. CASE a = n
        <5>1. {c \in Of(b)' : a < c} = {}
          BY <4>1, <3>1, <1>1, <1>7
        <5> QED BY <5>1, <4>1, <1>5 DEF IsFirst
      <4>2. CASE a = p
        <5>1. {c \in Of(b)' : a < c} = {n} /\ n <= n
          BY <4>2, <2>4, <3>1, <1>1, <1>7
        <5>2. entries'[a].next = n
          BY <4>2, <2>4, <1>7 DEF Grown
        <5> QED BY <5>1, <5>2 DEF IsFirst
      <4>3. CASE a # n /\ a # p
        <5>1. a \in Of(b) /\ a < p /\ p < n
          BY <4>3, <3>1, <2>4, <1>7
        <5>2. entries'[a].next = entries[a].next
          BY <4>3, <5>1, <1>7 DEF Grown
        <5>3. {c \in Of(b)' : a < c} = {c \in Of(b) : a < c} \cup {n}
          BY <3>1, <5>1, <1>1, <1>7
        <5>4. p \in {c \in Of(b) : a < c} /\ IsFirst(entries[a].next, {c \in Of(b) : a < c})
          BY <5>1, <2>1, <2>4
        <5>5. entries[a].next \in {c \in Of(b) : a < c} /\ entries[a].next < n
          BY <5>4, <1>7 DEF IsFirst
        <5> QED BY <5>2, <5>3, <5>4, <5>5, <1>1, <1>7 DEF IsFirst
      <4> QED BY <4>1, <4>2, <4>3
    <3> QED BY <2>4, <3>2, <3>3
  <2> QED BY <2>2, <2>3, <2>4 DEF NewIsLast, Bucket
<1>9. InLists'
  BY <1>8 DEF InLists, IsFirst
<1> QED BY <1>2, <1>3, <1>9

\* The store of a put of a new key, at the head of its bucket or behind its last entry.
LEMMA InsertKeeps ==
  ASSUME IndInv, Safe(use), NEW t \in Threads, pc[t] \in {"first", "append"},
         NEW p, Grown(t, p), NewIsLast(t, p), \A c \in Bucket(t) : entries[c].key # Key(t),
         Becomes(t, mine[t]), Goto(t, "count"),
         UNCHANGED <<use, size, freed, gone, puts, lock, call, mine, cur, prev, got>>
  PROVE  IndInv'
<1> DEFINE K == Key(t)
           n == Len(entries) + 1
           v == mine[t]
<1>1. InCall(t) /\ ~Counting(t) /\ Putting(t)
  <2>1. call[t].op = "put"
    BY DEF IndInv, ThreadInv, CallKnown
  <2> QED BY <2>1 DEF InCall, Counting, Putting
<1>2. /\ K \in Keys /\ TypeOK /\ InLists /\ Current /\ ValuesOwned /\ Locked /\ SizeCounts
      /\ NothingDeleted /\ Len(entries) <= puts /\ use \in Uses
      /\ CallKnown(t) /\ PutFresh(t) /\ Located(t) /\ Regular(t)
      /\ \A u \in Threads : CallKnown(u)
  BY <1>1, InItsCall DEF IndInv, ThreadInv
<1>3. call[t].op = "put" /\ Len(entries) < puts /\ v \in (1 .. puts) \ freed
      /\ (\A a \in Live : entries[a].value # v)
  BY <1>1, <1>2 DEF PutFresh, Putting
<1>4. /\ InLists' /\ Live' = Live \cup {n} /\ n \notin Live
      /\ \A a \in Live : entries'[a].key = entries[a].key /\ entries'[a].value = entries[a].value
  BY <1>2, ListsGrow
<1>5. \A a \in Live : entries[a].key # K /\ entries[a].key \in Keys
  BY <1>2, LiveNumbers DEF Bucket, Of
<1>6. current[K] = Null
  BY <1>2, <1>5 DEF Current
<1>7. v \in Address /\ v # Null /\ n \in Address
  <2>1. puts \in Nat /\ MaxPuts \in Nat /\ puts <= MaxPuts /\ Len(entries) \in Nat
    BY <1>2, BucketMapAssumption DEF TypeOK
  <2>2. v \in 1 .. puts
    BY <1>3
  <2> QED BY <1>3, <2>1, <2>2 DEF Null, Address
<1>8. /\ current' \in [Keys -> Address] /\ valid' \in [Threads -> SUBSET Address]
      /\ current'[K] = v /\ \A k \in Keys : k # K => current'[k] = current[k]
      /\ \A u \in Threads : InCall(u) /\ Key(u) = K => valid'[u] = valid[u] \cup {v}
      /\ \A u \in Threads : ~InCall(u) \/ Key(u) # K => valid'[u] = valid[u]
  BY <1>1, <1>2, <1>7, BecomesValue
<1>9. pc' = [pc EXCEPT ![t] = "count"] /\ pc'[t] = "count" /\ InCall(t)' /\ Key(t)' = K
  BY <1>2 DEF Goto, TypeOK, InCall, Key
<1>10. \A u \in Threads \ {t} : Stays(u)
  BY <1>2, <1>9 DEF Stays, TypeOK
<1>11. entries'[n].key = K /\ entries'[n].value = v
  BY DEF Grown, New
<1>12. \A u \in Threads \ {t} : (InCall(u) => call[u].op \in {"get", "wait"} /\ ~use.guarded)
                             /\ ~Counting(u)
  BY <1>1, <1>2, <1>3, SolePut
<1>13. TypeOK'
  <2>1. entries' \in Seq(Entry) /\ Len(entries') = n /\ n \in Nat /\ n <= MaxPuts /\ Len(entries) \in Nat
    BY <1>2, <1>3, BucketMapAssumption DEF TypeOK, Grown
  <2>2. gone \subseteq 1 .. n
    BY <1>2, <2>1 DEF TypeOK
  <2>3. cur \in [Threads -> 0 .. n] /\ prev \in [Threads -> 0 .. n]
    <3>1. 0 .. Len(entries) \subseteq 0 .. n
      BY <2>1
    <3> QED BY <3>1, <1>2 DEF TypeOK
  <2>4. pc' \in [Threads -> Steps]
    BY <1>2, <1>9 DEF TypeOK, Steps
  <2>5. buckets' \in [Buckets -> Address]
    BY <1>2, <1>7 DEF TypeOK, NewIsLast
  <2> QED BY <1>2, <1>8, <2>1, <2>2, <2>3, <2>4, <2>5 DEF TypeOK
<1>14. Current'
  <2>1. \A a \in Live' : current'[entries'[a].key] = entries'[a].value /\ entries'[a].value # Null
    BY <1>2, <1>4, <1>5, <1>7, <1>8, <1>11 DEF Current
  <2>2. \A a, c \in Live' : entries'[a].key = entries'[c].key => a = c
    BY <1>2, <1>4, <1>5, <1>11 DEF Current
  <2>3. \A k \in Keys : current'[k] # Null => \E a \in Live' : entries'[a].key = k
    BY <1>2, <1>4, <1>8, <1>11 DEF Current
  <2> QED BY <2>1, <2>2, <2>3 DEF Current
<1>15. ValuesOwned'
  <2>1. \A a \in Live' : entries'[a].value \in (1 .. puts) \ freed
    BY <1>2, <1>3, <1>4, <1>11 DEF ValuesOwned
  <2>2. \A a, c \in Live' : entries'[a].value = entries'[c].value => a = c
    BY <1>2, <1>3, <1>4, <1>11 DEF ValuesOwned
  <2> QED BY <2>1, <2>2 DEF ValuesOwned
<1>16. NothingDeleted' /\ (Len(entries) <= puts)'
  BY <1>2, <1>3 DEF NothingDeleted, Grown, TypeOK
<1>17. Locked'
  BY <1>1, <1>2, <1>9, <1>10, LockStays DEF Stays
<1>18. SizeCounts'
  <2>1. \A u \in Threads : ~Counting(u)
    BY <1>1, <1>12
  <2>2. size = Cardinality(Live)
    BY <1>2, <2>1 DEF SizeCounts
  <2>3. Cardinality(Live') = size + 1
    BY <1>2, <1>4, <2>2, LiveCount, FS_AddElement
  <2>4. \A u \in Threads : pc'[u] # "counted"
    BY <2>1, <1>9, <1>10 DEF Counting, Stays
  <2>5. Counting(t)'
    BY <1>9 DEF Counting
  <2> QED BY <2>3, <2>4, <2>5 DEF SizeCounts
<1>19. ThreadInv(t)'
  <2>1. CallKnown(t)'
    BY <1>1, <1>2, <1>3, <1>9 DEF CallKnown, InCall, Key
  <2>2. PutFresh(t)' /\ ValueHeld(t)'
    BY <1>9 DEF PutFresh, Putting, ValueHeld
  <2>3. Located(t)'
    BY <1>2, <1>4, <1>9 DEF Located
  <2>4. Regular(t)'
    BY <1>1, <1>3, <1>8, <1>9 DEF Regular
  <2> QED BY <2>1, <2>2, <2>3, <2>4 DEF ThreadInv
<1>20. ASSUME NEW u \in Threads \ {t} PROVE ThreadInv(u)'
  <2>1. Stays(u) /\ ThreadInv(u)
    BY <1>10 DEF IndInv
  <2>2. CASE ~InCall(u)
    BY <2>1, <2>2, <1>8, IdleStays
  <2>3. CASE InCall(u)
    <3>1. call[u].op \in {"get", "wait"} /\ ~use.guarded
      BY <2>3, <1>12
    <3>2. /\ current'[K] \in valid'[t]
          /\ Key(u) = K => valid'[u] = valid[u] \cup {current'[K]}
          /\ Key(u) # K => valid'[u] = valid[u]
      BY <2>3, <1>1, <1>8
    <3> QED BY <2>1, <2>3, <3>1, <3>2, <1>2, <1>6, <1>8, ReaderOfGrowing
  <2> QED BY <2>2, <2>3
<1>21. MapInv'
  BY <1>4, <1>13, <1>14, <1>15, <1>16, <1>17, <1>18 DEF MapInv
<1> QED BY <1>19, <1>20, <1>21 DEF IndInv

LEMMA InsertFirstKeeps ==
  ASSUME IndInv, Safe(use), NEW t \in Threads, InsertFirst(t), use' = use
  PROVE  IndInv'
<1>1. pc[t] = "first" /\ InCall(t)
  BY DEF InsertFirst, InCall
<1>2. TypeOK /\ Key(t) \in Keys /\ Located(t)
  BY <1>1, InItsCall
<1>3. Bucket(t) = {}
  BY <1>1, <1>2 DEF Located
<1>4. Grown(t, Null)
  BY <1>2, FirstGrown
<1>5. NewIsLast(t, Null)
  BY <1>3, <1>4 DEF NewIsLast, InsertFirst, Grown
<1>6. /\ Becomes(t, mine[t]) /\ Goto(t, "count")
      /\ UNCHANGED <<use, size, freed, gone, puts, lock, call, mine, cur, prev, got>>
  BY DEF InsertFirst
<1> QED BY <1>1, <1>3, <1>4, <1>5, <1>6, InsertKeeps

LEMMA InsertLastKeeps ==
  ASSUME IndInv, Safe(use), NEW t \in Threads, InsertLast(t), use' = use
  PROVE  IndInv'
<1>1. pc[t] = "append" /\ InCall(t)
  BY DEF InsertLast, InCall
<1>2. TypeOK /\ Key(t) \in Keys /\ Located(t) /\ PutFresh(t) /\ CallKnown(t)
  BY <1>1, InItsCall
<1>3. prev[t] \in Bucket(t) /\ (\A c \in Bucket(t) : c <= prev[t] /\ entries[c].key # Key(t))
  BY <1>1, <1>2 DEF Located
<1>4. Len(entries) < MaxPuts
  BY <1>1, <1>2, BucketMapAssumption DEF CallKnown, PutFresh, Putting, TypeOK
<1>5. prev[t] \in DOMAIN entries
  BY <1>3 DEF Bucket, Of, Live
<1>6. Grown(t, prev[t])
  BY <1>2, <1>4, <1>5, LastGrown
<1>7. NewIsLast(t, prev[t])
  BY <1>3 DEF NewIsLast, InsertLast
<1>8. /\ Becomes(t, mine[t]) /\ Goto(t, "count")
      /\ UNCHANGED <<use, size, freed, gone, puts, lock, call, mine, cur, prev, got>>
  BY DEF InsertLast
<1> QED BY <1>1, <1>3, <1>6, <1>7, <1>8, InsertKeeps

\* The entries after the removal of the one at x, to which the one at p pointed, if p # Null.
Shrunk(x, p) ==
  /\ entries' \in Seq(Entry) /\ Len(entries') = Len(entries)
  /\ \A a \in DOMAIN entries :
       /\ entries'[a].key = entries[a].key
       /\ a # x => /\ entries'[a].value = entries[a].value
                   /\ entries'[a].next = IF a = p THEN entries[x].next ELSE entries[a].next

LEMMA SkipShrinks ==
  ASSUME TypeOK, NEW t \in Threads, cur[t] \in DOMAIN entries,
         prev[t] \in DOMAIN entries \cup {Null}, prev[t] # cur[t], Skip(t)
  PROVE  Shrunk(cur[t], prev[t])
<1> DEFINE x == cur[t]
           p == prev[t]
           after == entries[x].next
           cut == [entries[x] EXCEPT !.next = Null, !.value = Null]
           past == [entries[p] EXCEPT !.next = after]
<1>1. entries \in Seq(Entry) /\ DOMAIN entries = 1 .. Len(entries) /\ Len(entries) \in Nat
  BY DEF TypeOK
<1>2. \A a \in DOMAIN entries : entries[a] \in Entry
  BY <1>1
<1>3. Null \in Address /\ after \in Address /\ Null \notin DOMAIN entries
  BY <1>1, EntryFields, BucketMapAssumption DEF Null, Address
<1>4. cut \in Entry /\ cut.key = entries[x].key
  BY <1>2, <1>3 DEF Entry
<1>5. p # Null => /\ past \in Entry /\ past.key = entries[p].key
                  /\ past.value = entries[p].value /\ past.next = after
  BY <1>2, <1>3 DEF Entry
<1>6. CASE p = Null
  <2>1. entries' = [entries EXCEPT ![x] = cut]
    BY <1>6, <1>1 DEF Skip
  <2> HIDE DEF cut
  <2>2. entries' \in Seq(Entry) /\ Len(entries') = Len(entries)
    BY <1>1, <1>4, <2>1
  <2>3. \A a \in DOMAIN entries : entries'[a] = IF a = x THEN cut ELSE entries[a]
    BY <1>1, <2>1
  <2> QED BY <1>3, <1>4, <1>6, <2>2, <2>3 DEF Shrunk
<1>7. CASE p # Null
  <2>1. p \in DOMAIN entries
    BY <1>7
  <2>2. entries' = [[entries EXCEPT ![p] = past] EXCEPT ![x] = cut]
    BY <1>7, <2>1, <1>1 DEF Skip
  <2> HIDE DEF cut, past
  <2>3. [entries EXCEPT ![p] = past] \in Seq(Entry)
    BY <1>1, <1>5, <1>7, <2>1
  <2>4. entries' \in Seq(Entry) /\ Len(entries') = Len(entries)
    BY <1>1, <1>4, <2>2, <2>3
  <2>5. \A a \in DOMAIN entries :
          entries'[a] = IF a = x THEN cut ELSE IF a = p THEN past ELSE entries[a]
    BY <1>1, <2>2
  <2> QED BY <1>4, <1>5, <1>7, <2>4, <2>5 DEF Shrunk
<1> QED BY <1>6, <1>7

\* The lists are in the order of allocation after the removal of an entry.
LEMMA ListsShrink ==
  ASSUME TypeOK, InLists, NEW t \in Threads, Key(t) \in Keys, use' = use,
         cur[t] \in Bucket(t), gone' = gone \cup {cur[t]}, Shrunk(cur[t], prev[t]),
         \/ /\ prev[t] = Null /\ \A c \in Bucket(t) : cur[t] <= c
            /\ buckets' = [buckets EXCEPT ![Index(Key(t))] = entries[cur[t]].next]
         \/ /\ prev[t] \in Bucket(t) /\ prev[t] < cur[t]
            /\ \A c \in Bucket(t) : c <= prev[t] \/ cur[t] <= c
            /\ buckets' = buckets
  PROVE  /\ InLists' /\ Live' = Live \ {cur[t]}
         /\ \A a \in Live' : /\ entries'[a].key = entries[a].key
                             /\ entries'[a].value = entries[a].value
<1> DEFINE x == cur[t]
           p == prev[t]
           i == Index(Key(t))
           after == entries[x].next
<1>1. DOMAIN entries' = DOMAIN entries /\ DOMAIN entries = 1 .. Len(entries)
  BY DEF TypeOK, Shrunk
<1>2. Live \subseteq DOMAIN entries /\ Live' = Live \ {x}
  BY <1>1 DEF Live
<1>3. \A a \in Live' : entries'[a].key = entries[a].key /\ entries'[a].value = entries[a].value
  BY <1>2 DEF Shrunk
<1>4. i \in Buckets /\ buckets \in [Buckets -> Address] /\ Bucket(t) = Of(i)
  BY IndexInBuckets DEF TypeOK, Bucket
<1>5. ASSUME NEW b \in Buckets
      PROVE  Of(b)' = Of(b) \ {x}
  BY <1>2, <1>3 DEF Of, Index
<1>6. \A b \in Buckets : Of(b) \subseteq Nat /\ Null \notin Of(b) /\ Of(b) \subseteq DOMAIN entries
  BY <1>2, LiveNumbers DEF Of
<1>7. IsFirst(after, {c \in Of(i) : x < c}) /\ x \in Nat
  BY <1>4, <1>6 DEF InLists
<1>8. ASSUME NEW b \in Buckets
      PROVE  /\ IsFirst(buckets'[b], Of(b)')
             /\ \A a \in Of(b)' : IsFirst(entries'[a].next, {c \in Of(b)' : a < c})
  <2>1. IsFirst(buckets[b], Of(b)) /\ \A a \in Of(b) : IsFirst(entries[a].next, {c \in Of(b) : a < c})
    BY DEF InLists
  <2>2. CASE b # i
    <3>1. Of(b)' = Of(b) /\ buckets'[b] = buckets[b] /\ x \notin Of(b)
      BY <2>2, <1>4, <1>5 DEF Of
    <3>2. p \notin Of(b)
      BY <2>2, <1>4, <1>6 DEF Of
    <3>3. \A a \in Of(b) : entries'[a].next = entries[a].next
      BY <3>1, <3>2, <1>6 DEF Shrunk
    <3> QED BY <2>1, <3>1, <3>3
  <2>3. CASE /\ b = i /\ p = Null /\ \A c \in Of(i) : x <= c
             /\ buckets' = [buckets EXCEPT ![i] = after]
    <3>1. Of(b)' = Of(b) \ {x} /\ Of(b)' = {c \in Of(b) : x < c} /\ buckets'[b] = after
      BY <2>3, <1>4, <1>5, <1>6, <1>7
    <3>2. IsFirst(buckets'[b], Of(b)')
      BY <3>1, <2>3, <1>7
    <3>3. ASSUME NEW a \in Of(b)'
          PROVE  IsFirst(entries'[a].next, {c \in Of(b)' : a < c})
      <4>1. a \in Of(b) /\ a # x /\ a # p
        BY <3>1, <2>3, <1>6
      <4>2. entries'[a].next = entries[a].next
        BY <4>1, <1>6 DEF Shrunk
      <4>3. {c \in Of(b)' : a < c} = {c \in Of(b) : a < c}
        BY <3>1, <1>6, <1>7, <4>1
      <4> QED BY <2>1, <4>1, <4>2, <4>3
    <3> QED BY <3>2, <3>3
  <2>4. CASE /\ b = i /\ p \in Of(i) /\ p < x /\ buckets' = buckets
             /\ \A c \in Of(i) : c <= p \/ x <= c
    <3>1. Of(b)' = Of(b) \ {x} /\ p \in Of(b)'
      BY <2>4, <1>5, <1>6, <1>7
    <3>2. IsFirst(buckets[b], Of(b)')
      <4>1. buckets[b] \in Of(b) /\ buckets[b] <= p
        BY <2>1, <2>4 DEF IsFirst
      <4>2. buckets[b] # x
        BY <4>1, <2>4, <1>6, <1>7
      <4> QED BY <3>1, <4>1, <4>2, <2>1 DEF IsFirst
    <3>3. ASSUME NEW a \in Of(b)'
          PROVE  IsFirst(entries'[a].next, {c \in Of(b)' : a < c})
      <4>1. a \in Of(b) /\ a # x
        BY <3>1
      <4>2. CASE a = p
        <5>1. {c \in Of(b)' : a < c} = {c \in Of(b) : x < c}
          BY <4>2, <3>1, <2>4, <1>6, <1>7
        <5>2. entries'[a].next = after
          BY <4>1, <4>2, <1>6 DEF Shrunk
        <5> QED BY <5>1, <5>2, <2>4, <1>7
      <4>3. CASE a < p
        <5>1. entries'[a].next = entries[a].next
          BY <4>1, <4>3, <1>6, <2>4 DEF Shrunk
        <5>2. p \in {c \in Of(b) : a < c} /\ IsFirst(entries[a].next, {c \in Of(b) : a < c})
          BY <2>1, <2>4, <4>1, <4>3
        <5>3. entries[a].next \in {c \in Of(b) : a < c} /\ entries[a].next <= p
              /\ \A c \in {d \in Of(b) : a < d} : entries[a].next <= c
          BY <5>2 DEF IsFirst
        <5>4. entries[a].next # x
          BY <5>3, <2>4, <1>6, <1>7
        <5>5. /\ entries[a].next \in {c \in Of(b)' : a < c}
              /\ \A c \in {d \in Of(b)' : a < d} : entries[a].next <= c
          BY <5>3, <5>4, <3>1
        <5> QED BY <5>1, <5>5 DEF IsFirst
      <4>4. CASE x < a
        <5>1. entries'[a].next = entries[a].next
          BY <4>1, <4>4, <1>6, <1>7, <2>4 DEF Shrunk
        <5>2. {c \in Of(b)' : a < c} = {c \in Of(b) : a < c}
          BY <3>1, <1>6, <1>7, <4>1, <4>4
        <5> QED BY <2>1, <4>1, <5>1, <5>2
      <4> QED BY <4>1, <4>2, <4>3, <4>4, <2>4, <1>6, <1>7
    <3> QED BY <2>4, <3>2, <3>3
  <2> QED BY <2>2, <2>3, <2>4, <1>4
<1>9. InLists'
  BY <1>8 DEF InLists, IsFirst
<1> QED BY <1>2, <1>3, <1>9

\* A remove is made with the lock held.
LEMMA UnlinkKeeps ==
  ASSUME IndInv, NEW t \in Threads, Unlink(t), use' = use
  PROVE  IndInv'
<1> DEFINE K == Key(t)
           x == cur[t]
<1>1. pc[t] = "unlink" /\ InCall(t) /\ ~Counting(t)
  BY DEF Unlink, InCall, Counting
<1>2. /\ K \in Keys /\ TypeOK /\ InLists /\ Current /\ ValuesOwned /\ Locked /\ SizeCounts
      /\ Len(entries) <= puts /\ use \in Uses /\ CallKnown(t) /\ Located(t)
  BY <1>1, InItsCall
<1>3. /\ x \in Bucket(t) /\ x \in Live /\ x \in DOMAIN entries
      /\ entries[x].key = K /\ got[t] = entries[x].value
  BY <1>1, <1>2 DEF Located, Found, Bucket, Of, Live
<1>4. call[t].op = "take" /\ use.guarded
  BY <1>1, <1>2, BucketMapAssumption DEF CallKnown
<1>5. \A u \in Threads \ {t} : ~InCall(u) /\ ~Counting(u)
  BY <1>1, <1>2, <1>4, OthersIdle DEF InCall, Counting
<1>6. /\ Skip(t) /\ size' = size - 1 /\ gone' = gone \cup {x} /\ freed' = freed \cup {got[t]}
      /\ Becomes(t, Null) /\ Return(t) /\ UNCHANGED <<use, puts, call, got>>
  BY DEF Unlink
<1>7. \/ prev[t] = Null /\ \A c \in Bucket(t) : x <= c
      \/ prev[t] \in Bucket(t) /\ prev[t] < x /\ \A c \in Bucket(t) : c <= prev[t] \/ x <= c
  BY <1>1, <1>2 DEF Located
<1>8. Bucket(t) \subseteq DOMAIN entries /\ Bucket(t) \subseteq Nat /\ Null \notin Bucket(t)
  BY <1>2, LiveNumbers DEF Bucket, Live
<1>9. Shrunk(x, prev[t])
  <2>1. prev[t] \in DOMAIN entries \cup {Null} /\ prev[t] # x
    BY <1>3, <1>7, <1>8
  <2> QED BY <1>2, <1>3, <1>6, <2>1, SkipShrinks
<1>10. /\ InLists' /\ Live' = Live \ {x}
       /\ \A a \in Live' : entries'[a].key = entries[a].key /\ entries'[a].value = entries[a].value
  <2>1. CASE prev[t] = Null /\ \A c \in Bucket(t) : x <= c
    <3>1. buckets' = [buckets EXCEPT ![Index(K)] = entries[x].next]
      BY <2>1, <1>6 DEF Skip
    <3> QED BY <2>1, <3>1, <1>2, <1>3, <1>6, <1>9, ListsShrink
  <2>2. CASE prev[t] \in Bucket(t) /\ prev[t] < x /\ \A c \in Bucket(t) : c <= prev[t] \/ x <= c
    <3>1. buckets' = buckets
      BY <2>2, <1>6, <1>8 DEF Skip
    <3> QED BY <2>2, <3>1, <1>2, <1>3, <1>6, <1>9, ListsShrink
  <2> QED BY <1>7, <2>1, <2>2
<1>11. Null \in Address
  BY BucketMapAssumption DEF Null, Address
<1>12. /\ current' \in [Keys -> Address] /\ valid' \in [Threads -> SUBSET Address]
       /\ current'[K] = Null /\ \A k \in Keys : k # K => current'[k] = current[k]
       /\ \A u \in Threads : ~InCall(u) => valid'[u] = valid[u]
  BY <1>1, <1>2, <1>6, <1>11, BecomesValue
<1>13. /\ pc' = [pc EXCEPT ![t] = "idle"] /\ cur' = [cur EXCEPT ![t] = Null]
       /\ prev' = [prev EXCEPT ![t] = Null] /\ mine' = [mine EXCEPT ![t] = 0]
  BY <1>6 DEF Return, Goto
<1>14. \A u \in Threads \ {t} : Stays(u) /\ (~InCall(u) => valid'[u] = valid[u])
  BY <1>2, <1>6, <1>12, <1>13 DEF Stays, TypeOK
<1>15. \A a \in Live : /\ entries[a].key \in Keys /\ entries[a].value \in (1 .. puts) \ freed
                       /\ a # x => entries[a].key # K /\ entries[a].value # got[t]
  BY <1>2, <1>3, LiveNumbers DEF Current, ValuesOwned
<1>16. size = Cardinality(Live)
  <2>1. \A u \in Threads : ~Counting(u)
    BY <1>1, <1>5
  <2> QED BY <2>1, <1>2 DEF SizeCounts
<1>17. size' = Cardinality(Live')
  BY <1>2, <1>3, <1>6, <1>10, <1>16, LiveCount, FS_RemoveElement
<1>18. IsFiniteSet(Live') /\ Cardinality(Live') \in Nat
  BY <1>2, <1>10, LiveCount, FS_RemoveElement, FS_CardinalityType
<1>19. TypeOK'
  <2>1. /\ mine' \in [Threads -> Address]
        /\ cur' \in [Threads -> 0 .. Len(entries)] /\ prev' \in [Threads -> 0 .. Len(entries)]
    BY <1>2, <1>11, <1>13 DEF TypeOK, Null
  <2>2. pc' \in [Threads -> Steps] /\ lock' \in Threads \cup {"none"}
    BY <1>2, <1>6, <1>13 DEF TypeOK, Steps, Return
  <2>3. freed' \subseteq 1 .. puts
    <3>1. freed \subseteq 1 .. puts
      BY <1>2 DEF TypeOK
    <3>2. got[t] \in 1 .. puts
      BY <1>3, <1>15
    <3> QED BY <3>1, <3>2, <1>6
  <2>4. gone' \subseteq 1 .. Len(entries)
    <3>1. gone \subseteq 1 .. Len(entries) /\ x \in 1 .. Len(entries)
      BY <1>2, <1>3 DEF TypeOK
    <3> HIDE DEF x
    <3> QED BY <3>1, <1>6
  <2>5. entries' \in Seq(Entry) /\ Len(entries') = Len(entries)
    BY <1>9 DEF Shrunk
  <2>6. size' \in 0 .. MaxPuts
    <3>1. size' \in Nat /\ size' = size - 1 /\ size \in 0 .. MaxPuts /\ MaxPuts \in Nat
      BY <1>2, <1>6, <1>17, <1>18, BucketMapAssumption DEF TypeOK
    <3> QED BY <3>1
  <2>7. buckets' \in [Buckets -> Address]
    BY <1>2, <1>3, <1>6, EntryFields DEF TypeOK, Skip
  <2> QED BY <1>2, <1>6, <1>12, <2>1, <2>2, <2>3, <2>4, <2>5, <2>6, <2>7 DEF TypeOK
<1>20. Current'
  <2>1. \A a \in Live' : current'[entries'[a].key] = entries'[a].value /\ entries'[a].value # Null
    <3> SUFFICES ASSUME NEW a \in Live'
                 PROVE  current'[entries'[a].key] = entries'[a].value /\ entries'[a].value # Null
      OBVIOUS
    <3>1. a \in Live /\ entries'[a].key = entries[a].key /\ entries'[a].value = entries[a].value
      BY <1>10
    <3>2. entries[a].key \in Keys /\ entries[a].key # K
      BY <1>10, <1>15
    <3>3. current[entries[a].key] = entries[a].value /\ entries[a].value # Null
      BY <3>1, <1>2 DEF Current
    <3>4. current'[entries[a].key] = current[entries[a].key]
      BY <3>2, <1>12
    <3> QED BY <3>1, <3>3, <3>4
  <2>2. \A a, c \in Live' : entries'[a].key = entries'[c].key => a = c
    BY <1>2, <1>10 DEF Current
  <2>3. \A k \in Keys : current'[k] # Null => \E a \in Live' : entries'[a].key = k
    BY <1>2, <1>3, <1>10, <1>12 DEF Current
  <2> QED BY <2>1, <2>2, <2>3 DEF Current
<1>21. ValuesOwned'
  <2>1. \A a \in Live' : entries'[a].value \in (1 .. puts) \ freed'
    <3> SUFFICES ASSUME NEW a \in Live' PROVE entries'[a].value \in (1 .. puts) \ freed'
      OBVIOUS
    <3>1. a \in Live /\ a # x /\ entries'[a].value = entries[a].value
      BY <1>10
    <3>2. entries[a].value \in (1 .. puts) \ freed /\ entries[a].value # got[t]
      BY <3>1, <1>15
    <3> QED BY <3>1, <3>2, <1>6
  <2>2. \A a, c \in Live' : entries'[a].value = entries'[c].value => a = c
    BY <1>2, <1>10 DEF ValuesOwned
  <2> QED BY <2>1, <2>2, <1>6 DEF ValuesOwned
<1>22. NothingDeleted' /\ (Len(entries) <= puts)'
  BY <1>2, <1>4, <1>6, <1>9 DEF NothingDeleted, Shrunk
<1>23. Locked'
  BY <1>1, <1>2, <1>6, LockReturned
<1>24. SizeCounts'
  <2>1. \A u \in Threads : pc'[u] \notin {"count", "counted"}
    BY <1>2, <1>5, <1>13 DEF Counting, TypeOK
  <2> QED BY <2>1, <1>17 DEF SizeCounts, Counting
<1>25. ThreadInv(t)'
  BY <1>2, <1>4, <1>6, ReturnedIdle
<1>26. \A u \in Threads \ {t} : ThreadInv(u)'
  BY <1>1, <1>4, <1>14, OthersLocked
<1>27. MapInv'
  BY <1>10, <1>19, <1>20, <1>21, <1>22, <1>23, <1>24 DEF MapInv
<1> QED BY <1>25, <1>26, <1>27 DEF IndInv

-----------------------------------------------------------------------------
(* The theorems *)

LEMMA InitIndInv == Init => IndInv
<1> SUFFICES ASSUME Init PROVE IndInv
  OBVIOUS
<1>1. Capacity \in Nat /\ MaxPuts \in Nat /\ "none" \notin Threads
  BY BucketMapAssumption
<1>2. Null = 0 /\ 0 \in Address /\ entries = <<>>
  BY <1>1 DEF Null, Address, Init
<1>3. TypeOK
  <2>1. entries \in Seq(Entry) /\ Len(entries) = 0
    BY <1>2
  <2> QED BY <1>1, <1>2, <2>1 DEF Init, TypeOK, Steps
<1>4. Live = {} /\ \A b : Of(b) = {}
  <2>1. DOMAIN entries = {}
    BY <1>2
  <2> QED BY <2>1 DEF Live, Of
<1>5. InLists
  BY <1>4 DEF InLists, IsFirst, Init
<1>6. Current /\ ValuesOwned
  BY <1>4 DEF Current, ValuesOwned, Init
<1>7. NothingDeleted /\ Locked
  BY <1>1 DEF NothingDeleted, Locked, InCall, Init
<1>8. SizeCounts
  BY <1>4, FS_EmptySet DEF SizeCounts, Counting, Init
<1>9. Len(entries) <= puts
  BY <1>2 DEF Init
<1>10. ASSUME NEW t \in Threads PROVE ThreadInv(t)
  <2>1. /\ pc[t] = "idle" /\ call[t].op = "none" /\ cur[t] = Null /\ prev[t] = Null
    BY DEF Init
  <2>2. CallKnown(t) /\ PutFresh(t) /\ ValueHeld(t)
    BY <2>1 DEF CallKnown, InCall, PutFresh, Putting, ValueHeld
  <2>3. Located(t)
    BY <2>1 DEF Located, InCall
  <2>4. Regular(t)
    BY <2>1 DEF Regular, InCall
  <2> QED BY <2>2, <2>3, <2>4 DEF ThreadInv
<1> QED BY <1>3, <1>5, <1>6, <1>7, <1>8, <1>9, <1>10 DEF IndInv, MapInv

LEMMA NextIndInv ==
  ASSUME IndInv, Safe(use), Next PROVE IndInv'
<1>1. PICK t \in Threads : \/ \E op \in Operation, k \in Keys : Call(t, op, k)
                           \/ Continue(t)
  BY DEF Next
<1>2. use' = use
  BY DEF Next
<1>3. CASE \E op \in Operation, k \in Keys : Call(t, op, k)
  BY <1>2, <1>3, CallKeeps
<1>4. CASE LoadHead(t)
  BY <1>2, <1>4, LoadHeadKeeps
<1>5. CASE Step(t)
  BY <1>2, <1>5, StepKeeps
<1>6. CASE Hit(t)
  BY <1>2, <1>6, HitKeeps
<1>7. CASE Miss(t)
  BY <1>2, <1>7, MissKeeps
<1>8. CASE InsertFirst(t)
  BY <1>2, <1>8, InsertFirstKeeps
<1>9. CASE InsertLast(t)
  BY <1>2, <1>9, InsertLastKeeps
<1>10. CASE Count(t)
  BY <1>2, <1>10, CountKeeps
<1>11. CASE Counted(t)
  BY <1>2, <1>11, CountedKeeps
<1>12. CASE Replace(t)
  BY <1>2, <1>12, ReplaceKeeps
<1>13. CASE DropOld(t)
  BY <1>2, <1>13, DropOldKeeps
<1>14. CASE Unlink(t)
  BY <1>2, <1>14, UnlinkKeeps
<1>15. CASE Clone(t)
  BY <1>2, <1>15, CloneKeeps
<1> QED BY <1>1, <1>3, <1>4, <1>5, <1>6, <1>7, <1>8, <1>9, <1>10, <1>11, <1>12, <1>13, <1>14,
           <1>15 DEF Continue

LEMMA StutterIndInv == ASSUME IndInv, UNCHANGED vars PROVE IndInv'
<1>1. /\ UNCHANGED <<use, buckets, entries, size, freed, gone, puts, lock>>
      /\ UNCHANGED <<pc, call, mine, cur, prev, got, current, valid>>
  BY DEF vars, moving, mapVars, threadVars
<1>2. TypeOK /\ Locked /\ SizeCounts
  BY DEF IndInv, MapInv
<1>3. MapStays
  BY <1>1, <1>2 DEF MapStays, TypeOK
<1>4. TypeOK'
  BY <1>1, <1>2 DEF TypeOK
<1>5. Locked' /\ SizeCounts'
  <2>1. Live' = Live
    BY <1>1 DEF Live
  <2>2. SizeCounts'
    BY <1>1, <1>2, <2>1, CountsStay DEF Counting
  <2>3. Locked'
    BY <1>1, <1>2 DEF Locked, InCall
  <2> QED BY <2>2, <2>3
<1>6. \A u \in Threads : Stays(u) /\ valid'[u] = valid[u]
  BY <1>1 DEF Stays
<1>7. \A u \in Threads : ThreadInv(u)'
  BY <1>3, <1>6, OtherStays DEF IndInv
<1>8. InLists' /\ Current' /\ ValuesOwned' /\ NothingDeleted' /\ (Len(entries) <= puts)'
  BY <1>3, MapInvStays DEF IndInv, MapInv
<1> QED BY <1>4, <1>5, <1>7, <1>8 DEF IndInv, MapInv

\* The inductive invariant holds of every map whose uses are safe (map.h, kvstore.h).
THEOREM MapInvHolds == ASSUME \A u \in Uses : Safe(u) PROVE Spec => []IndInv
<1>1. IndInv /\ [Next]_vars => IndInv'
  <2> SUFFICES ASSUME IndInv, [Next]_vars PROVE IndInv'
    OBVIOUS
  <2>1. CASE Next
    <3>1. Safe(use)
      BY DEF IndInv, MapInv, TypeOK
    <3> QED BY <2>1, <3>1, NextIndInv
  <2>2. CASE UNCHANGED vars
    BY <2>2, StutterIndInv
  <2> QED BY <2>1, <2>2
<1> QED BY InitIndInv, <1>1, PTL DEF Spec

\* Every key has the value of its last put, whatever the other thread does to its bucket
\* meanwhile (map.h insertIntoBucket_).
THEOREM NothingIsLost == ASSUME \A u \in Uses : Safe(u) PROVE Spec => []NoEntryLost
<1>1. IndInv => NoEntryLost
  BY EntriesKept DEF IndInv, MapInv
<1> QED BY <1>1, MapInvHolds, PTL

\* size_ is the number of linked entries whenever no thread is in the map (map.h get_keys).
THEOREM SizesAreExact == ASSUME \A u \in Uses : Safe(u) PROVE Spec => []SizeExact
<1>1. IndInv => SizeExact
  BY SizeIsExact DEF IndInv, MapInv
<1> QED BY <1>1, MapInvHolds, PTL

\* No value or entry is used after it was deleted (kvstore.h put, getValue; map.h remove).
THEOREM NoUseAfterDelete == ASSUME \A u \in Uses : Safe(u) PROVE Spec => []NoDangling
<1>1. IndInv => NoDangling
  BY SafeToUse
<1> QED BY <1>1, MapInvHolds, PTL

\* A get returns a value of its key of the time of the call (map.h getFromBucket_).
THEOREM GetsReturnRegular == ASSUME \A u \in Uses : Safe(u) PROVE Spec => []GetRegular
<1>1. IndInv => GetRegular
  BY GetsAreRegular
<1> QED BY <1>1, MapInvHolds, PTL
=============================================================================
