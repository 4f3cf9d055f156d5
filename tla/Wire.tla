--------------------------------- MODULE Wire ---------------------------------
(***************************************************************************)
(* The Serializer mySer_ of a Network, which both threads of a node use:    *)
(* sendMsg clears it, writes a message into it, sends its bytes and clears  *)
(* it again, receiveMsg writes the bytes of a connection behind what it     *)
(* holds and reads a message from where the last read ended.  lock_ makes   *)
(* each of the two a critical section; a connection is read to its end      *)
(* before the section.                                                      *)
(*                                                                          *)
(* Directories, connects and sends that block are in Network; the layouts   *)
(* are in Layout.                                                           *)
(***************************************************************************)
EXTENDS Layout

CONSTANTS
  Nodes,     \* the nodes
  Messages,  \* the messages that the threads may send
  Objects,   \* the objects that the application puts in the store
  InitSize,  \* INIT_BUFFER_SIZE_
  MaxSends   \* bound: calls of sendMsg

Threads == {"app", "rt"}

ASSUME WireAssumption ==
  /\ \A m \in Messages : m.target \in Nodes
  /\ InitSize \in Nat \ {0}
  /\ MaxSends \in Nat
  /\ Junk \notin Messages

VARIABLES
  buf,       \* buf[n]: the items written to mySer_ of n (buffer_, numBytesWritten_)
  nread,     \* nread[n]: the items read of them (numBytesRead_)
  cap,       \* cap[n]: capacity_
  lock,      \* lock[n]: the thread that owns lock_ of n, or "free"
  pc,        \* pc[n][t]: what thread t of n does next
  out,       \* out[n][t]: the message that thread t of n sends, or Junk
  conns,     \* conns[n]: the connections to n that it has not accepted, first to last
  in,        \* in[n]: the connection that the ReceiverThread of n has read
  got,       \* got[n]: the last message that n received, and the one that was sent
  most,      \* history: the most bytes that mySer_ of n ever held
  sends      \* the number of calls of sendMsg

vars == <<buf, nread, cap, lock, pc, out, conns, in, got, most, sends>>

\* What a connection carries, with the message that its sender meant.
Packet(bytes, m) == [bytes |-> bytes, meant |-> m]
NoPacket == Packet(<<>>, Junk)

Init ==
  /\ buf = [n \in Nodes |-> <<>>]
  /\ nread = [n \in Nodes |-> 0]
  /\ cap = [n \in Nodes |-> InitSize]
  /\ lock = [n \in Nodes |-> "free"]
  /\ pc = [n \in Nodes |-> [t \in Threads |-> "idle"]]
  /\ out = [n \in Nodes |-> [t \in Threads |-> Junk]]
  /\ conns = [n \in Nodes |-> <<>>]
  /\ in = [n \in Nodes |-> NoPacket]
  /\ got = [n \in Nodes |-> [msg |-> Junk, meant |-> Junk]]
  /\ most = [n \in Nodes |-> 0]
  /\ sends = 0

-----------------------------------------------------------------------------
(* Serializer *)

\* add_ calls grow_ while the bytes exceed the capacity.
Grown(c, bytes) ==
  LET doubled[x \in Nat] == IF x >= bytes THEN x ELSE doubled[2 * x] IN doubled[c]

\* add_: the items are written at the end of what was written, old.
Write(n, old, items) ==
  LET new == old \o items IN
  /\ buf' = [buf EXCEPT ![n] = new]
  /\ cap' = [cap EXCEPT ![n] = Grown(@, Bytes(new))]
  /\ most' = [most EXCEPT ![n] = IF Bytes(new) > @ THEN Bytes(new) ELSE @]

\* clear; the capacity stays.
Clear(n) == buf' = [buf EXCEPT ![n] = <<>>] /\ nread' = [nread EXCEPT ![n] = 0]

-----------------------------------------------------------------------------
(* sendMsg *)

Goto(n, t, label) == pc' = [pc EXCEPT ![n][t] = label]

\* A mutant: the serializer is cleared and written before lock_ is taken.
SerializeUnlocked(n, t, m) ==
  /\ pc[n][t] = "idle"
  /\ sends < MaxSends /\ sends' = sends + 1
  /\ Write(n, <<>>, <<Item("kind", m.kind)>> \o MessageOut(m))
  /\ nread' = [nread EXCEPT ![n] = 0]
  /\ out' = [out EXCEPT ![n][t] = m]
  /\ Goto(n, t, "send")
  /\ UNCHANGED <<lock, conns, in, got>>

\* Thread t of n calls sendMsg(m): lock, clear, write the kind, serialize.
Serialize(n, t, m) ==
  /\ pc[n][t] = "idle"
  /\ sends < MaxSends /\ sends' = sends + 1
  /\ lock[n] = "free"
  /\ lock' = [lock EXCEPT ![n] = t]
  /\ Write(n, <<>>, <<Item("kind", m.kind)>> \o MessageOut(m))
  /\ nread' = [nread EXCEPT ![n] = 0]
  /\ out' = [out EXCEPT ![n][t] = m]
  /\ Goto(n, t, "send")
  /\ UNCHANGED <<conns, in, got>>

\* send what the buffer holds, clear, unlock.
Transmit(n, t) ==
  LET m == out[n][t] IN
  /\ pc[n][t] = "send"
  /\ conns' = [conns EXCEPT ![m.target] = Append(@, Packet(buf[n], m))]
  /\ Clear(n)
  /\ lock' = [lock EXCEPT ![n] = "free"]
  /\ out' = [out EXCEPT ![n][t] = Junk]
  /\ Goto(n, t, "idle")
  /\ UNCHANGED <<cap, in, got, most, sends>>

-----------------------------------------------------------------------------
(* receiveMsg, called by the ReceiverThread *)

\* accept, and readStrFromNet_, which puts the pieces together until the sender closes.
Accept(n) ==
  /\ pc[n]["rt"] = "idle"
  /\ conns[n] # <<>>
  /\ in' = [in EXCEPT ![n] = Head(conns[n])]
  /\ conns' = [conns EXCEPT ![n] = Tail(@)]
  /\ Goto(n, "rt", "write")
  /\ UNCHANGED <<buf, nread, cap, lock, out, got, most, sends>>

\* lock, and write the bytes behind those of the messages before.
AppendBytes(n) ==
  /\ pc[n]["rt"] = "write"
  /\ lock[n] = "free"
  /\ lock' = [lock EXCEPT ![n] = "rt"]
  /\ Write(n, buf[n], in[n].bytes)
  /\ Goto(n, "rt", "read")
  /\ UNCHANGED <<nread, out, conns, in, got, sends>>

\* readMsgKind, deserialize into a message of the class of that kind, unlock.
Deserialize(n) ==
  LET kind == KindIn(buf[n], nread[n] + 1)
      msg  == MessageIn(kind.val, buf[n], kind.end) IN
  /\ pc[n]["rt"] = "read"
  /\ got' = [got EXCEPT ![n] = [msg |-> msg.val, meant |-> in[n].meant]]
  /\ nread' = [nread EXCEPT ![n] = msg.end - 1]
  /\ in' = [in EXCEPT ![n] = NoPacket]
  /\ lock' = [lock EXCEPT ![n] = "free"]
  /\ Goto(n, "rt", "idle")
  /\ UNCHANGED <<buf, cap, out, conns, most, sends>>

-----------------------------------------------------------------------------
SendMsg(n, t) == (\E m \in Messages : Serialize(n, t, m)) \/ Transmit(n, t)
ReceiveMsg(n) == Accept(n) \/ AppendBytes(n) \/ Deserialize(n)

Next == \E n \in Nodes : ReceiveMsg(n) \/ \E t \in Threads : SendMsg(n, t)

Spec == Init /\ [][Next]_vars

-----------------------------------------------------------------------------
(* Properties *)

Labels == {"idle", "send", "write", "read"}

\* Every variable holds what the code's declarations allow.  What the items of a buffer
\* are is the matter of WholePackets and Faithful.
TypeOK ==
  /\ \A n \in Nodes : \A j \in DOMAIN buf[n] : buf[n][j].type \in DOMAIN SizeOf \cup {"cstr", "bytes"}
  /\ nread \in [Nodes -> Nat] /\ cap \in [Nodes -> Nat] /\ most \in [Nodes -> Nat]
  /\ lock \in [Nodes -> Threads \cup {"free"}]
  /\ pc \in [Nodes -> [Threads -> Labels]]
  /\ out \in [Nodes -> [Threads -> Messages \cup {Junk}]]
  /\ sends \in 0 .. MaxSends
  /\ \A n \in Nodes : got[n].msg # Junk =>
       got[n].msg.kind \in {m.kind : m \in Messages} /\ got[n].msg.target = n

\* What sendMsg puts on a connection is the kind and the message that it was called
\* with, whole and nothing else, whatever the other thread of the node sends or
\* receives meanwhile (network.h:102-107).
PacketOf(m) == Packet(<<Item("kind", m.kind)>> \o MessageOut(m), m)

WholePackets == \A n \in Nodes : \A p \in Range(conns[n]) : p = PacketOf(p.meant)

\* A message is received as it was sent, although receiveMsg never clears the
\* serializer and every message is read from where the one before it ended
\* (network.h:123 "assume msgkind is serialized before msg").
Faithful == \A n \in Nodes : got[n].msg = got[n].meant

\* Whenever nobody uses the serializer everything in it was read: a message that was
\* read a byte short or long would shift all that follow.  The buffer is always large
\* enough and never more than twice what it had to hold (serial.h:142-149).
BufferSound ==
  /\ TypeOK
  /\ \A n \in Nodes :
       /\ lock[n] = "free" => nread[n] = Len(buf[n])
       /\ Bytes(buf[n]) <= cap[n]
       /\ cap[n] = InitSize \/ cap[n] < 2 * most[n]

\* The value of a Put of an object, as it was received, reads back as that object,
\* when it is read as the class that was put.
\* (dataframe.h:153 "Serialize this DataFrame into s", :161 "set the values in this dataframe")
ObjectsReadBack ==
  \A n \in Nodes : got[n].meant # Junk /\ got[n].meant.kind = "Put" =>
    \A obj \in Objects : got[n].meant.body.value = ObjectOut(obj) =>
      ObjectIn(obj.class, obj.kind, got[n].msg.body.value) = obj
=============================================================================
