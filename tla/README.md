# A TLA+ model of eau2

eau2 is a distributed dataframe on top of a distributed key-value store. Several
nodes run the same application; each keeps a part of the data and fetches the rest
from the others. This directory holds TLA+ modules that model its core, TLC
configurations that check them on small instances, and TLAPS proofs of what holds
for every instance. Paths below are relative to the repository (`src/...` means
`src/src/...` in `PROJECT.json`). `PROJECT.json` maps every definition to the lines
it models, and lists runs, mutants, findings, hazards and theorems.

## 1. The system

A node is a process with two threads (with `-pseudo`, all nodes are threads of one
process). `NodeThread::run` registers with the network, starts a `ReceiverThread`,
runs the application, sends `Done` to the server and joins the receiver. The
application thread calls the node's `KVStore`; the `ReceiverThread` takes messages
from the network and serves the same `KVStore`. So the two threads share the store
and the network object, and the stores talk to each other in messages.

| component | state | operations | what makes it correct |
|---|---|---|---|
| `KVStore` | `kvMap_` (no lock), `msgCache_` under `msgCacheLock_` | `put`, `getValue`, `getFromNetwork_`, `tryToHandleCache_`, `addToCache_` | a get is answered exactly once, with a value the home had; waiters are served; casts and asserts hold |
| `ReceiverThread`, `NodeThread` | position in the loop, request in hand | one case per message kind; Done and Teardown | nothing is torn down while an application may still call |
| `PseudoNetwork` | a queue per node, `isNodeDone_` | `sendMsg`, `receiveMsg`, `handleDoneMsg` | first-in first-out inboxes |
| `Network` (TCP) | `dir_`, sockets, `lock_`, `mySer_` | `server_init`, `client_init`, `sendMsg`, `receiveMsg` | every node learns every address; sends return; the same inboxes |
| `Map` | buckets of linked entries, `size_` | `put`, `get`, `contains_key`, `remove` | no entry lost, nothing used after it was deleted |
| `DataFrame`, `Column`, `DistributedArray`, `Cache` | schema, sizes, keys, cached blocks | `visit`, `add_array`, `add_column`, `map`, `local_map` | what is read is what was written; `local_map` partitions the rows |
| `Serializer`, messages, blocks | buffer, `numBytesWritten_`, `numBytesRead_`, `capacity_` | typed writes and reads, `clear`, `serialize` and `deserialize` of each class | what is read back is what was written, message after message |
| `Linus` | `pSet`, `uSet` and the new ones per node, a stage | `readInput`, `step`, `merge` through keys on node 0 | the sets of every stage are those that one machine would compute |
| `FileReader`, `WordCount` | buffer and position; a map per node | `visit`, `fillBuffer_`; `local_count`, `reduce` | every word once, counted by one node, merged once |
| `Sorer` | schema, arrays of fields, position | `parse_schema`, `make_columnar`, `SorWriter` | a row is one line, of the inferred types |
| `Queue`, `Array`, demos, arguments, strings | | | not modelled (section 5) |

What is hard to test here: two threads on one store and one socket; a check of
`kvMap_` and a later insertion into `msgCache_` that are not one step; a start-up in
which early nodes already send to late ones; blocking sends with a lock held;
blocks that arrive after the dataframe that refers to them; off-by-one errors where
rows, blocks and nodes are computed from each other; one serializer that two threads
write and read without ever starting a read from a clean state; stages in which
every node waits for every other; a buffer that is refilled in the middle of a word.
`hazards` in `PROJECT.json`
lists these with their lines and the properties aimed at them.

## 2. The modules

| module | models |
|---|---|
| `KVStore` | all stores, their two threads per node, the messages between them, Done and Teardown |
| `SharedStore` | abstract: one shared map, with delayed puts, numbered by their calls, and gets that read once |
| `MCKVStore` | instances for TLC |
| `KVStoreProofs` | the inductive invariant of `KVStore`, those of remote gets and of teardown above it, and their theorems |
| `KVSharedProofs` | the invariant of puts and values, session order, and the refinement of `SharedStore` |
| `Network` | the TCP network: start-up, `sendMsg`, `receiveMsg`, `lock_` |
| `Inbox` | abstract: a first-in first-out inbox per node |
| `MCNetwork` | instances for TLC |
| `NetworkProofs` | the inductive invariant of `Network`, its theorems, and the refinement of `Inbox` |
| `BucketMap` | `utils/map.h` under two threads, one memory access per step |
| `MCBucketMap` | instances for TLC |
| `BucketMapProofs` | the inductive invariant of `BucketMap` and its theorems |
| `DataFrame` | building, publishing and reading a distributed dataframe |
| `MCDataFrame` | instances for TLC |
| `DataFrameProofs` | the inductive invariants of `DataFrame` and its theorems |
| `Layout` | what each class writes into a `Serializer` and reads from it |
| `Wire` | the `Serializer` that the two threads of a node share in `Network` |
| `MCWire` | an instance for TLC |
| `Linus` | the Linus application on all nodes |
| `MCLinus` | an instance for TLC |
| `LinusProofs` | the inductive invariant of `Linus` and its theorems |
| `FileReader` | the reader of words through a buffer |
| `WordCount` | the WordCount application, which reads with a `FileReader` |
| `MCWordCount` | an instance for TLC |
| `WordCountProofs` | the inductive invariants of the reader and of the counting, and their theorems |
| `Sorer` | from the lines of a `.sor` file to the rows of a dataframe |
| `MCSorer` | an instance for TLC |
| `SorerProofs` | the inductive invariant of `Sorer` and its theorems |

The modules form a stack. `Network` is shown to implement `Inbox`, the inboxes that
`KVStore` has as `queue`; `Wire`, over the layouts of `Layout`, shows that the bytes
of a message arrive as the message that `Network` and `KVStore` take for one. `KVStore`
is shown to implement `SharedStore`, and `DataFrame`, `Linus` and `WordCount` use its
stores by that promise (puts of one node arrive at a home in order and later, a
blocking get waits for its key); `Linus` and `WordCount` take the dataframes that
`DataFrame` shows to read back. `BucketMap` looks inside the accesses to `kvMap_` and
`msgCache_` that are single steps in `KVStore`, and says when that is justified.

### KVStore

One action per critical section, per access to `kvMap_`, and per push or pop of an
inbox. `pc[n][t]` is the position of thread `t` of node `n`:

* `put`: `PutRemote` (kvstore.h:57-62), `PutLocal` (64-67), then `TakeWaiters`,
  `NoWaiters`, `ServeWaiter`, `ServedAll` for `tryToHandleCache_` (185-204), which
  both threads run.
* `getValue`: `GetLocal`, `SpinLocal`, `SpinReads` (94-101); `RequestRemote`,
  `WaitForReply`, `ReturnNull`, `TakeReply` for `getFromNetwork_` (146-179), and
  `SpuriousWakeup` for the condition variable.
* `ReceiverThread::run`: `ReceiveRequest` reads the map, and `AnswerRequest`,
  `CacheRequest` or `ReplyNull` is a later step, as in lines 47-50 and 59-67 of
  receiverthread.h; `ReceiveReply`, `ReceivePut`, `ReceiveDone`, `SendTeardown`,
  `ReceiveTeardown`.

A failed assert, a failed cast that is asserted and a dereferenced `nullptr` end the
node (`aborted`). Relocking a mutex that the thread already owns never succeeds. The
application is any sequence of at most `MaxOps` calls. `log`, `lastPut` and
`lastRead` are history variables that no action reads. `Server` is `args.serverIndex`;
`PseudoNetwork` asserts that it is node 0 (pseudonetwork.h:67), and the instances
use 0.

### Network

A thread in `sendMsg` goes through `StartSend`, which looks up the address and connects
(the connection joins the `backlog` of the node that listens there), `LockSend`, which
takes `lock_` and serializes, `SendReturns`, in which `send` returns and `lock_` is
released, and `CloseSock`; `sending` says where it is, and the other thread of the node
may step in between. A message in `Big` exceeds the socket buffers, so that its `send`
returns only when the receiver reads the connection. `Accept` and `Received` are
`receiveMsg`. `Start`, `Registered`, `SendDirectory`, `ServerRuns`
and `ClientRuns` are the start-up. The messages of running nodes are `Put`, `Get` and
`Reply`, enough to make each thread send and wait as it does in the store.

### BucketMap

A step is one load or one store of a bucket head, a `next_`, a value pointer or
`size_`. The Makefile builds without optimisation, so that each source access is one
in the program, and aligned pointer accesses are atomic on its targets; weaker
orderings are not modelled. `use` chooses between the two uses: `msgCache_`
(every call in a critical section) and `kvMap_` (none). The list of a bucket (`Chain`) is
the least set of entries that has the head and, with an entry, the next one.

### DataFrame

The builder runs a script of `visit`, `add_array` and `add_column`; `AddBlock` is one
turn of the loop of `add_all`, `Publish` is `addDFToStore_`. Readers open the
dataframe (`Open`), fetch blocks into a cache per column (`Fetch`, `CachePut`), read
elements (`ReadCell`), and visit or skip rows (`VisitRow`, `SkipBlock`). The i-th
element appended to column c is the pair `<<c, i>>`, so that a reader that gets
another pair has read the wrong element. The four element types share all of this
code and are one.

### Layout and Wire

A buffer is the sequence of the items that were written, each with its type and
value; reading an item as another type, or past the end, gives `Junk`. Byte counts are
the sums of the widths (serial.h:49-130), so that a buffer's growth and what is left
unread in it are those of the code. Each `...Out` and `...In` operator of `Layout`
follows one `serialize` or `deserialize`, in the order of its calls. `Wire` has
`mySer_`: `Serialize` and `Transmit` are `sendMsg` (network.h:102-111) around the
send, `Accept`, `AppendBytes` and `Deserialize` are `receiveMsg` (119-162), which
appends to what the serializer holds and reads from where the last read ended.

### Linus

`ReadInput` and `AwaitInput` are `readInput` on node 0 and elsewhere; `Step` is `step`
up to the first `merge`; `Collect` and `Publish` are `merge` on node 0, one delta at a
time, `Send` and `Receive` on the other nodes. `ProjectsMerged` and `UsersMerged` are
what `step` does after each of its two merges. A `Set` is the set of its indices, a key
`name-stage-node` a triple, and the dataframe of a delta the delta. A node tags the
rows of commits that `local_map` shows it.

### FileReader and WordCount

`FileReader` has one action per iteration of the loops of `visit` and
`skipWhitespace_`, and `Fill` is `fillBuffer_` with its move of the unread part. What
the buffer holds before the first read is any character; what lies behind it is any
character for `Slack` positions. In `WordCount` node 0 runs the reader and puts the
words, and each node counts its rows (`CountRow` is `Adder::visit` under `local_map`),
writes its counts (`SumEntry` is one `Summer::visit`) and puts them; `MergeRow` and
`MergeNext` are `reduce` and `merge`. A map is the sequence of buckets that `Summer`
walks over.

### Sorer

A line is the sequence of the kinds of its fields, as `parse_field_type` tells them
apart, and a field is its place. `ParseRowSchema` is one turn of `parse_schema`,
`AddRow` and `DropRow` are one of `make_columnar`, with `pushBack` and `resize_` of a
`FieldArray` per column, `VisitRow` is `SorWriter::visit`.

## 3. The runs

Passing runs:

| run | instance | shows |
|---|---|---|
| `kv_safety` | 2 nodes, 2 keys with a home each, 2 calls per application, blocking or not | `CastsHold`, `OneReplyPerGet`, `NoEarlyTeardown`, `TeardownClean`, and the inductive invariant `IndInv` of `KVStore` |
| `kv_shared` | 3 nodes, 1 key that two put and all get, 2 blocking calls, fair | `SessionOrder`: a get sees the caller's own puts and never goes back; `KVStore` implements `SharedStore`; `RemotelyServed`, `TeardownCompletes` |
| `net_inbox` | 3 nodes, server 2, clients talk to the server, messages that block or not, fair | `StartupSafe`, `Network` implements `Inbox`, `SendsReturn`, `StartupCompletes` |
| `map_shared` | 3 keys, 3 puts, 2 threads: locked in one bucket, or one writer and no lock in two, fair | `NoEntryLost`, `SizeExact`, `NoDangling`, `GetRegular`, `WaitReturns` |
| `df_safety` | 3 nodes, blocks of 2, caches of 1, up to 7 rows, 2 columns, fair | `RowCount`, `ReadsBack`, `EachRowOnce`, `LocalMapStaysLocal`, `CacheSound`, `AllFinish` |
| `wire_safety` | 2 nodes with 2 threads each, every kind of message with 6 kinds of objects, 3 sends | `BufferSound`, `WholePackets`, `Faithful`, `ObjectsReadBack` |
| `linus_degrees` | 3 nodes, every table of up to 4 commits to 2 projects by 3 users, 2 stages, fair | `DegreesOfLinus`, `PutOnce`, `Termination`, and the inductive invariant `IndInv` of `Linus` |
| `wordcount` | 2 nodes, every file of up to 7 characters that fits a buffer of 3, fair | `ReaderSound`, `WordsOfFile`, `CountsAddUp`, `DifferentWords`, `Termination` |
| `sorer` | every file of up to 3 lines of up to 2 fields of 3 types, a sample of 2 lines | `SchemaIsJoin`, `RowsAreLines`, `OnlyNarrowDropped` |

Bounds and why they are enough to be interesting. Two nodes and two calls already
give every race between a request, a local put and a reply; three nodes add two
waiters for one key and puts of two writers. Three keys in one bucket make a list
with a first, a middle and a last entry. Seven rows in blocks of two on three nodes
wrap the blocks around the nodes and leave a partial last block; a cache of one block
evicts all the time. Three sends and a buffer that starts at 64 bytes make a receive
follow a receive, a receive a send and a send a receive, and grow the buffer. Four commits
in blocks of one on three nodes give one node two blocks and another none of some
project, and a user who is found only in the second stage. A buffer of three
characters is refilled in the middle of a word, between words and at their last
letter. Three lines with a sample of two have a line behind the sample, and grow an
array of one field twice. Every bound is a constant (`MaxOps`, `MaxSends`, `MaxPuts`,
`Scripts`, `Tables`, `Files`, `Slack`). Deadlock is not checked where the system may
stop: when all nodes have ended, when applications make no further calls, or, in
`Sorer`, at a blank line.

Fairness is weak fairness of each thread that can take its next step (the scheduler
runs every thread), of message delivery (TCP, or a queue in memory), and never of the
application's choice to make another call nor of a wakeup without a notify.

Runs that show a disagreement between the code and what it says of itself; each is a
finding in `PROJECT.json` with the quoted line:

| run | what happens |
|---|---|
| `kv_lost_waiter` | a put of the home's own application between the receiver's look at `kvMap_` and its insertion into `msgCache_` leaves a `WaitAndGet` unanswered |
| `net_first` | a node's first message is not the directory, because a node that has its own directory already sends to it |
| `map_lost` | two unlocked puts into one bucket lose an entry |

The passing runs delimit these: `RemotelyServed` holds of values that came in a message
(`kv_shared`), the directory comes first when clients talk to the server only
(`net_inbox`), and an unlocked map is sound with one writer that replaces nothing
(`map_shared`).

The models also have these behaviours of the code, which no run states as a property:

* A `GetData` for a missing key makes the home clone a `nullptr` (message.h:89, action
  `ReplyNull`): the node ends. The properties of `KVStore` that count replies exempt it.
* A get that does not block returns with `msgCacheLock_` held when no reply is there yet
  (kvstore.h:163, `ReturnNull` and `Leaked`), so that the node's later remote gets and
  its receiver block.
* A client registers its own address with the server's port (network.h:85,
  `RegisterMsg`), so that nodes need one port on hosts of their own; the instances
  choose that.
* With messages that exceed the socket buffers, `send` blocks with `lock_` held
  (network.h:103-110), and threads can wait for each other in a circle. For one, the
  application of a node has connected to another node and not yet locked `lock_` when the
  receiver of its own node connects to the same node, locks `lock_` and sends a large
  reply: the other node reads the connection that was made first, on which nothing is
  sent before `lock_` is free, and so never comes to the second. `net_inbox` reaches such
  states. `SendsReturn` says that they are the only thing that keeps a send, and that
  messages which fit the buffers never lead to one.
* A value of `kvMap_` can be cloned after another thread's put has deleted it
  (kvstore.h:101); `map_shared` shows `NoDangling` and `GetRegular` for the locked map
  and for one that is never overwritten.
* Two unlocked puts can lose a count of `size_` (map.h:371, 392; `Count`, `Counted`), as
  they can lose an entry; `SizeExact` is checked for the same two uses, in which puts are
  one after the other. `KVStore` asks neither map for its keys, so that its count is not
  used.
* The report says that Linus gives other outputs with other numbers of nodes for large
  files, suspects `local_map` and refers to `DemoLocalMap` (src/report/doc.md:480-484).
  The models do not confirm the suspicion: `EachRowOnce` shows that the `local_map`s of
  the nodes share the rows out exactly, `RowsAreShared` proves it of every number of nodes
  and size of blocks, and `DegreesFound` that the sets of Linus do not depend on the number
  of nodes, if the stores keep what is put (which two unlocked writers do not, `map_lost`)
  and every commit refers to known users and projects. `DemoLocalMap` itself is not a
  test of `local_map`: its sums are over nodes 0 to 2 (demolocalmap.h:36-39, 53-71), so that
  with four nodes or more the rows of the others are missing, and with two, node 0 waits
  for `sn2` for ever; and with a block as large as its 25000 rows its
  `assert(actualSumL != expectedSum)` fails although node 0 has the whole sum. What the
  report saw must come from something that the models leave out or exclude.
* A second `add_array` counts its elements as rows again (dataframe.h:93); `RowCount`
  is checked for at most one array.
* Elements appended by a second call after a partial block are read from the wrong
  place (column.h:121, `Number`): the new call starts a new block, and the lookup divides
  by the size of a block. `df_safety` has one call per column, as `DataToDf` makes.
* `receiveMsg` never clears `mySer_`, which grows with every receive until the next send;
  what a receive reads is right all the same (`Faithful`).
* `Set::test` answers true for an index that is in no row (set.h:67, `Test`): a commit by
  an unknown user tags its project in the first stage.
* The last word of a file that does not end with a space takes one more character
  (filereader.h:50, `WordEnds`); `WordsOfFile` states which words are right. A word or a
  run of spaces as long as the buffer leads out of it (`Fits` excludes them).
* `Adder` adds one for each row and not the count in it (adder.h:22), so that the merged
  counts are numbers of nodes, not of occurrences (doc.md:361-363 speaks of
  occurrences). What node 0 prints, the number of different words, is right
  (`DifferentWords`), and so are the counts before the merge (`CountsAddUp`).
* `make_columnar` stays at a blank line for ever (sorer_helper.h:310, `AtRow`), and
  `SorWriter` looks at a first column that an empty file does not have (`StartWriter`).

Every property of a passing run has a mutant in `PROJECT.json`: a changed definition
(marked `Mutant` where it is defined) under which TLC refutes the property.

## 4. The proofs

`KVStoreProofs` proves, for every number of nodes, keys and calls, every placement of
keys and every choice of writers, readers and modes:

* `IndInvHolds`: `Spec => []IndInv`;
* `TypeCorrect`: `Spec => []TypeOK`;
* `CastsNeverFail`: `Spec => []CastsHold`. The `dynamic_cast`s in
  `tryToHandleCache_` and `getFromNetwork_` and the assert in the `Put` case never
  fail;
* `TeardownWaits`: `Spec => []NoEarlyTeardown`.

The only assumptions are `KVAssumption` and `NoValueAssumption` in `KVStore`, which
TLC evaluates in every run of it.

Why an invariant is needed: `CastsHold` speaks of an array taken from `msgCache_`,
whose contents depend on who put what under that key. `msgCache_` is one map for two
purposes, waiters of other nodes and replies to this node. `IndInv` says why these
never meet under one key: requests and puts travel only to the home of their key and
replies never do (`QueueHomed`); so a node caches waiters only under keys that live
on it and replies only under others (`CacheHomed`), which holds on for the array a
thread has taken (`TodoHomed`) and for the key it works on (`ThreadsHomed`). For
teardown: each `Done` is sent once, by an application that has ended, and is counted
once (`DoneDistinct`, `DoneOnce`), and `Teardown` messages exist only after all were
counted (`TeardownLast`). The proof has one lemma per group of actions and one step
per conjunct that an action can disturb; facts on the range of `Append` and `Tail`
are lemmas of their own. `kv_safety` checks `IndInv` with TLC as well.

From `IndInv`, and with the same assumptions only, follow the theorems on remote gets:

* `GetInvHolds` and `TearInvHolds`: `Spec => []GetInv` and `Spec => []TearInv`;
* `GetsAnsweredOnce`: `Spec => []OneReplyPerGet`;
* `TeardownLosesNothing`: `Spec => []TeardownClean`.

A get of a remote key is followed as one token. It is a request in the inbox of the home,
then the request that the receiver there looks up, then a waiter in the cache of the home
or in the hands of the thread that serves it, then a reply in the inbox of the node that
asked and at last a reply in its cache. `Outstanding` counts the tokens of a node and a
key over these places, and `Balanced` says that a step changes that number exactly as it
changes the number of calls that the node is inside of. That is shown action by action,
from lemmas on what a push, a pop and a change of one array do to these numbers. It needs
that the places are of the right key (`Keyed`), that the waiters a thread took are with
it only while it owns the lock (`LockHeld`), and that a node which failed stays failed
(`Failed`). `OneEach` is then the balance. It excludes what `OneReplyPerGet` excludes:
a node that leaked its lock or failed, and for "not lost" a home that failed; "not
answered twice" holds of those homes too.

For teardown, `GetInv` gives that no get is under way when every application has ended
and nothing has failed: its token would be one too many, wherever it was
(`AllDoneNoGets`). So nothing but the messages of teardown is sent afterwards. The loop of
`sendTeardownMsgs_` gives each node its `Teardown` once, and it stays the last of its inbox
(`TeardownEnds`), so that a receiver that takes it leaves nothing (`EndedEmpty`).

`KVSharedProofs` goes on from `GetInv`:

* `SessionInvHolds`: `Spec => [](GetInv /\ SessionInv)`;
* `GetsInSessionOrder`: `Spec => []SessionOrder`;
* `StoresShared`: `Spec => ImplementsSharedStore`, if every get blocks (`Blocks`).

A put is not acknowledged, so what a caller may rely on is in the inboxes. `PutsInv`: the
puts of one node are in an inbox in the order of its calls (`PutsOrdered`), everything that
the home took from that node is older (`LogBehind`), no value is taken twice
(`LogDistinct`), and the value of a key is the last that was taken (`LogLast`). A read is
fresh for a caller (`FreshFor`) if it is not older than the caller's last put of the key nor
than its last read. What a home reads when no put of the caller is left in its inbox is
fresh, and a request has none behind which it could overtake: it was pushed after them. So
every value on its way to a caller (found by the receiver, in a reply in the inbox or in the
cache) is fresh for it, and stays so while the caller is inside of its get.

For the refinement, a call is placed where the home acts: a put where it is stored, a get
where the home reads `kvMap_` for it, which is in `ReceiveRequest`, in `ServeWaiter` or, at
the home itself, in `getValue`. Until then the abstract get has taken nothing, afterwards it
has taken the value that is on its way (`OnItsWay`); that there is one such value, at one
place, is `OneEach` of the gets (`OnePlace`). Every action is shown to be one of the
abstract steps or none (`...Shared` and `...Stutters`). `Blocks` is needed and not a
convenience: a get that does not block may return `nullptr` before its reply comes, the
reply is then taken by another get, the lock stays locked, and a miss at the home ends the
home (section 3); that is not a shared map, and no promise is claimed for it. It follows
from `Blocks` that no node fails or leaks its lock (`Blocking`), for the asserts hold by the
invariants above. The abstract puts carry the numbers of their calls so that two puts of one
value are two; the number is in the value (`NextValue`).

`LinusProofs` proves, for every number of nodes, stages, projects and users, every size
of blocks and every table of commits, from `LinusAssumption` alone:

* `IndInvHolds`: `Spec => []IndInv`;
* `KeysPutOnce`: `Spec => PutOnce`;
* `NodesAgree`: between the same two stages two nodes have the same sets;
* `DegreesFound`: `RowsExist` gives `Spec => []DegreesOfLinus`.

`RowsExist` says that commits refer to projects and users that have rows and that Linus is
a user. It is needed because a `Set` answers true for any index out of its bounds
(set.h:67): a commit by an unknown user would tag its project in the first stage.

`IndInv` numbers the merges in rounds, two in a stage. A node has put only keys of
rounds before its own, and the one of its own while it waits for the merged set
(`KeysBehind`); it has waited for the merged sets of all rounds before (`KeysBefore`).
So a key is fresh when it is put, and what a node computes from the sets of earlier
rounds does not change when another node puts one of a later round (`NewKept`,
`SetsKept`). `StoreFound` says what every key stands for: a delta is what the rows of
its node add to the rounds before, a merged set what all rows add; `SetsFound` says the
same of the sets of a node, with `RowsBefore` for the deltas that node 0 has collected.
That the rows of the nodes together are all rows is `RowsCover`. Each step is shown to
keep its own node's part (`...Keeps`) and to leave the other nodes as they were
(`IdleKeys`, `IdleSets`, `StoreKept`). What `IndInv` says of a stage is what one
machine would compute from the stage before (`StagesMerged`). That the stages together are
the projects of the users within so many degrees of Linus, and their authors, is an
induction over the stages (`OneMachineNext`, `OneMachineAlways`), made with the least stage
that would find something else, since the induction theorems cannot be instantiated.

`NetworkProofs` proves, for every number of nodes, every server, every choice of big
messages and every pattern of sends:

* `StartsWell`: `OnePort` gives `Spec => []IndInv`;
* `SafeWhileDirectoryFirst`: `OnePort` gives `Spec => [](FirstIsDirectory => StartupSafe)`;
* `DirectoryFirst` and `StartsSafely`: with `ServerOnly` as well, `Spec => []FirstIsDirectory`
  and `Spec => []StartupSafe`;
* `Inboxed`: `OnePort` gives `Spec => ImplementsInbox`.

`OnePort` says that all nodes listen at the server's port: a client registers with the
server's port (network.h:85), so that start-up works in no other setting. `ServerOnly` says
that clients call the stores of the server only; the finding of `net_first` shows what
happens when they do not, and `SafeWhileDirectoryFirst` that this is the only thing that can
go wrong. `IndInv` follows a message from `sendMsg` to `receiveMsg`. Every node reads one
connection at a time, which is the one that it took first (`ReadsOne`); directories, on
their way or kept, name nodes by their own addresses or not at all (`DirsTrue`, `MailTrue`),
so that a connection reaches the node it is for. While first messages are directories, the
server knows as many nodes as it went rounds (`Registration`), the Registers on their way are
of nodes that it does not know and of different ones (`MailOk`, `RegisterOnce`), and a node
that runs knows every address. For `DirectoryFirst`, a message to a client is its directory
or the answer to a `Get` of its own, which it sends only when it runs (`DirInv`). The
refinement needs the first part only: it maps the inbox of a node to the messages of the
connection that it reads and of those that wait (`Mailbox`), each step to a send, a receive
or a stutter.

`DataFrameProofs` proves, for every number of nodes, sizes of blocks and caches, homes,
scripts and modes, from `DataFrameAssumption` alone:

* `Inductive`: `Spec => []IndInv`;
* `CachesAreSound`, `LocalMapIsLocal` and `RowsAreShared`: `Spec => []CacheSound`,
  `Spec => []LocalMapStaysLocal` and `Spec => []EachRowOnce`;

and for scripts that fill a dataframe once, by a Writer or from an array, and may add whole
columns to it (`FilledOnce`):

* `BlocksAreRight`: `Spec => []FillInv`;
* `PublishedIsTable` and `ReadsBackRight`: `Spec => []RowCount` and `Spec => []ReadsBack`.

`FilledOnce` is what `DataToDf` and the applications do; without it a second `add_array`
counts its elements as rows again (dataframe.h:93) and a partial block is not continued
(column.h:121), and both properties fail (section 3). `IndInv` says that every key is put
once, at its home, and counted by its column (`Stores`), the blocks of a call numbered
without a gap (`Building`). A node that reads has visited exactly its own rows below the one
it is at, and is at the first row of a block when that block is not its own (`HasRead`):
that `local_map` then goes to the first row of the next one follows from lemmas on quotients and
remainders, and that the home of a block is one node makes the rows of the nodes disjoint and
complete. `CacheOk` ties the queue of a cache to its map and both to the store, which nobody
overwrites because keys are put once. `FillInv` adds the sizes: all columns that have the
current chunk are longer by it, all blocks but the last are full (`Filling`, `ChunkAdded`),
so that block b of a column begins with element b times the size of a block (`Contents`), the
place where `get_int` looks for it; a block that is full does not change when the column
grows, and a partial one is put only when nothing follows. `ReadRight` carries this to the
rows that were read.

`SorerProofs` proves, for every file, every size of the sample and every first capacity of
the arrays, from `SorerAssumption` alone:

* `IndInvHolds`: `Spec => []IndInv`;
* `SchemaIsTheJoin`: `Spec => []SchemaIsJoin`;
* `RowsAreTheLines`: `Spec => []RowsAreLines`;
* `OnlyNarrowLost`: `Spec => []OnlyNarrowDropped`.

`SchemaJoins` says of the lines that were read what `SchemaIsJoin` says at the end, with a
line for each maximum, so that a longer or a wider-typed line can only raise it. A line that
is kept goes to the last rank among the lines that were kept (`RankOfNext`) and no other rank
changes; `pushBack` puts its fields there in every array, and growing an array keeps what is in
it (`PushBackKeeps`), which gives `ColumnsParallel`. The writer has seen as many fields as its
rows have (`WriterBehind`), so that its test for the end, which compares products with the
width of the schema, is true after the last row and not before (`ProductsEqual`).

`BucketMapProofs` proves, for any keys, hashes, number of buckets, threads and puts, if every
use is `Safe`:

* `MapInvHolds`: `Spec => []IndInv`;
* `NothingIsLost`, `SizesAreExact`, `NoUseAfterDelete` and `GetsReturnRegular`:
  `Spec => []NoEntryLost`, `[]SizeExact`, `[]NoDangling` and `[]GetRegular`.

A use is `Safe` when every call is made with the lock held, which is `msgCache_`
(kvstore.h:163-227), or when one thread at most puts, and puts a key once, which is `kvMap_`
of a node of which only one thread stores. The hypothesis is needed: `map_lost` shows an entry
lost when both store. `InLists` says of the links what makes the proof one about sets: the
entries of a bucket are linked in the order of their addresses, that is of their allocation,
since put appends and remove takes out. An insertion behind the last entry and a removal keep
that order (`ListsGrow`, `ListsShrink`), and it gives that the least set that is closed under
the links is the set of all entries of the bucket (`ChainIsBucket`, by the least entry that
the links would miss). Without a lock, only an insertion changes the map: a reader that has
passed an entry of its key was in its call before that entry was put (`OnWalk`,
`ReaderOfGrowing`), so that a nullptr is right. With one, the other threads are in no call
(`Locked`). `SizeCounts` is `size_` but for the entry that a put is counting.

`WordCountProofs` proves, for every file, every size of the buffer and every `Slack`, from
the assumptions of `FileReader` and `WordCount` alone:

* `ReaderRight`: `Spec => []ReaderIndInv`;
* `WordsRead` and `ReaderStaysInside`: `Spec => []WordsOfFile` and `Spec => []ReaderSound`;

and for every number of nodes, size of blocks and number of buckets, if `FilesFit` and
`HashIsNat`:

* `IndInvHolds`: `Spec => []IndInv`;
* `CountsRight`: `Spec => []CountsAddUp`;
* `MergedOnce`: `Spec => []DifferentWords`.

`FilesFit` says that the words and the runs of spaces of every file fit the buffer; `TypeOK`, a
part of `CountsAddUp`, does not hold of the reader when it leaves the buffer. `HashIsNat` says
that the hash of a word is a natural number, as a `size_t` is; otherwise it has no bucket.

`ReaderInv` ties three things: what was read of the file, what the buffer holds of it, and the
rows. Up to index `end_` the buffer is the stretch of the file that was read last (`Holds`), and
the reader is either between words (`InBuffer`) or in one whose first part is still there
(`InWord`); a last refill that reads nothing leaves it in what the buffer held before
(`InOldBuffer`). A refill keeps that because the part that is moved is shorter
than the buffer, which is what `Fits` gives. `Split` numbers the words of a file by where they
begin, and not by recursion over it, so that the rows can be said to be the words that begin
before the position (`AreWords`); a step over a space adds none, and the end of a word adds
the one that began at `wStart`. The last word of a file without a final space is told apart
throughout (`AlmostAll`), for `visit` does take one more character there.

`IndInv` says what each node is to count: in the map of `local_count` every word of its own
rows so far has one entry, in the bucket of its hash, with the number of its rows
(`NodeInv`, `Counted`); `Add` keeps that. `Summer` has passed as many entries as it counts in
`seen`, and its rows are those entries, each once (`SumInv`): that it is done when `seen` is the
size of the map then gives all of them. The merged map has the words of the dataframes before the
row that `merge` is at (`MergeInv`). For `CountsAddUp` the own rows of the nodes are disjoint
and cover all rows, so that the cardinalities add up. TLC checked `IndInv` on the instance of
`wordcount` before it was proved.

Only model-checked: everything under fairness (`RemotelyServed`, `TeardownCompletes`,
`SendsReturn`, `StartupCompletes`, `WaitReturns`, `AllFinish`, the `Termination` of `Linus`
and that of `WordCount`), which is out of reach of the prover; and the invariants of `Wire`
(`BufferSound`, `WholePackets`, `Faithful`, `ObjectsReadBack`), because the round trips of
`Layout` fold over sequences of items: what such a fold computes for every input is an
induction over data, which the provers cannot instantiate.

## 5. What is not modelled

* The order of bytes, and the copying of strings; the sizes of all items are in `Layout`.
* The limit of 32 pending connections; a client that starts before the server listens
  (the documentation asks to start the server first); what a node sends after another
  has ended by an assert.
* In `Network`: `Done` and `Teardown`, which are in `KVStore`.
* `Map::clear`, `get_keys`, `get_values`, `equals`, `hash`; comparison, cloning and
  hashing in general.
* `Queue` and `Array`: the sequences of the other modules stand for them; each is used
  by one thread or under a lock that is modelled.
* The characters of a `.sor` file: how a field is told from its neighbour and how its
  value is converted (an Integer is cut to 32 bits, sorwriter.h:92), and a read past
  the end of a file that fills its last page.
* The demo applications, which are straight lines of calls that `KVStore` and
  `DataFrame` make in every order; argument parsing, strings and printing.

## 6. Plan

1. Proofs about `Wire`, if the sizes in `Layout` can be said without a fold.
2. The field parser of `Sorer` over bounded inputs.
3. `Cache`, `Queue` and `Array` as data structures with all their operations.
