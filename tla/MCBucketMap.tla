---------------------------- MODULE MCBucketMap ----------------------------
(* Instances of BucketMap for TLC: three keys of one bucket, or of two buckets. *)
EXTENDS BucketMap

OneBucket  == [k \in Keys |-> CASE k = "a" -> 2 [] k = "b" -> 4 [] k = "c" -> 6]
TwoBuckets == [k \in Keys |-> CASE k = "a" -> 2 [] k = "b" -> 4 [] k = "c" -> 1]

\* msgCache_: both threads put, look up and take, with the lock held.
CacheUse ==
  [hash |-> OneBucket, ops |-> [t \in Threads |-> {"put", "get", "take"}],
   guarded |-> TRUE, overwrites |-> TRUE]

\* kvMap_ when only the receiver stores, ...
ReaderUse ==
  [hash |-> TwoBuckets,
   ops |-> [t \in Threads |-> IF t = "rt" THEN {"put", "get"} ELSE {"get", "wait"}],
   guarded |-> FALSE, overwrites |-> FALSE]

\* ... and when both threads do.
WriterUse ==
  [hash |-> TwoBuckets, ops |-> [t \in Threads |-> {"put", "get"}],
   guarded |-> FALSE, overwrites |-> FALSE]

AloneOrLocked == {CacheUse, ReaderUse}
BothWrite     == {WriterUse}
=============================================================================
