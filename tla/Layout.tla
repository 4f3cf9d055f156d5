-------------------------------- MODULE Layout --------------------------------
(***************************************************************************)
(* What serialize writes and deserialize reads, class by class.  A          *)
(* Serializer's buffer is a sequence of items, one for each call of write:  *)
(* the type that was written and its value.  An item read as another type   *)
(* than it was written as gives Junk.  The count of bytes is the sum of the *)
(* widths of the items.                                                     *)
(*                                                                          *)
(* An operator named ...Out is a serialize; an operator named ...In reads   *)
(* from item i of buffer b on and returns what it read (val) and the item   *)
(* after it (end).                                                          *)
(***************************************************************************)
EXTENDS Integers, SequencesExt

CONSTANTS
  StrLen,  \* StrLen[s]: strlen of string s
  Junk     \* what a read of the wrong type yields

Strings == DOMAIN StrLen

ASSUME LayoutAssumption ==
  /\ StrLen \in [Strings -> Nat]
  /\ Junk \notin Strings \cup Nat

Item(type, val) == [type |-> type, val |-> val]

\* sizeof of each type that write takes; a c-string has its terminator.
SizeOf == [size_t |-> 8, double |-> 8, long |-> 8, int |-> 4,
           kind |-> 2, short |-> 2, bool |-> 1, char |-> 1]

ItemWidth(item) == IF item.type = "cstr" THEN StrLen[item.val] + 1 ELSE SizeOf[item.type]

\* The bytes of a Value are what another Serializer wrote.
Width(item) ==
  IF item.type = "bytes"
  THEN FoldLeft(LAMBDA n, inner : n + ItemWidth(inner), 0, item.val)
  ELSE ItemWidth(item)

Bytes(b) == FoldLeft(LAMBDA n, item : n + Width(item), 0, b)

-----------------------------------------------------------------------------
(* Reading *)

\* The item at i, if it has this type.
At(b, i, type) == IF i \in DOMAIN b /\ b[i].type = type THEN b[i].val ELSE Junk

Did(val, end) == [val |-> val, end |-> end]

\* A loop that reads n elements with In.
SeqIn(b, i, n, In(_, _)) ==
  LET read[j \in 0 .. IF n \in Nat THEN n ELSE 0] ==
        IF j = 0 THEN Did(<<>>, i)
        ELSE LET next == In(b, read[j - 1].end)
             IN  Did(Append(read[j - 1].val, next.val), next.end)
  IN  read[IF n \in Nat THEN n ELSE 0]

\* A loop that writes the elements of s with Out.
SeqOut(s, Out(_)) == FlattenSeq([j \in DOMAIN s |-> Out(s[j])])

ItemIn(b, i, type) == Did(At(b, i, type), i + 1)

-----------------------------------------------------------------------------
(* Strings, keys, values, addresses and directories *)

\* A mutant: the terminated characters come before their number.
StringOutSwapped(s) == <<Item("cstr", s), Item("size_t", StrLen[s])>>

StringOut(s) == <<Item("size_t", StrLen[s]), Item("cstr", s)>>

\* The size is read, and what follows up to the terminator is the string.
StringIn(b, i) ==
  LET s == At(b, i + 1, "cstr") IN
  Did(IF s \in Strings /\ At(b, i, "size_t") = StrLen[s] THEN s ELSE Junk, i + 2)

KeyOut(k) == StringOut(k.str) \o <<Item("size_t", k.node)>>

\* A mutant: the home node is not read.
KeyInShort(b, i) ==
  LET str == StringIn(b, i) IN Did([str |-> str.val, node |-> 0], str.end)

KeyIn(b, i) ==
  LET str == StringIn(b, i) IN
  Did([str |-> str.val, node |-> At(b, str.end, "size_t")], str.end + 1)

ValueOut(v) == <<Item("size_t", Width(Item("bytes", v))), Item("bytes", v)>>

\* readCharPtr takes as many bytes as the size says.
ValueIn(b, i) ==
  LET v == At(b, i + 1, "bytes") IN
  Did(IF v # Junk /\ At(b, i, "size_t") = Width(b[i + 1]) THEN v ELSE Junk, i + 2)

InfoOut(info) ==
  <<Item("short", info.family), Item("long", info.addr), Item("short", info.port)>>

InfoIn(b, i) ==
  Did([family |-> At(b, i, "short"), addr |-> At(b, i + 1, "long"),
       port |-> At(b, i + 2, "short")], i + 3)

\* One entry of the map of a directory, its key first.
EntryOut(entry) == <<Item("size_t", entry.id)>> \o InfoOut(entry.info)
EntryIn(b, i) ==
  LET info == InfoIn(b, i + 1) IN
  Did([id |-> At(b, i, "size_t"), info |-> info.val], info.end)

\* The entries in the order in which get_keys lists them.
DirOut(d) ==
  <<Item("size_t", Len(d.entries)), Item("size_t", d.capacity)>> \o SeqOut(d.entries, EntryOut)

DirIn(b, i) ==
  LET entries == SeqIn(b, i + 2, At(b, i, "size_t"), EntryIn) IN
  Did([capacity |-> At(b, i + 1, "size_t"), entries |-> entries.val], entries.end)

-----------------------------------------------------------------------------
(* What the application keeps in the store: blocks and dataframes *)

\* The type of the elements of a block, in the words of write.
ElementType == [I |-> "int", B |-> "bool", D |-> "double"]

ElementOut(kind, x) == IF kind = "S" THEN StringOut(x) ELSE <<Item(ElementType[kind], x)>>
ElementIn(kind, b, i) == IF kind = "S" THEN StringIn(b, i) ELSE ItemIn(b, i, ElementType[kind])

BlockOut(block) ==
  <<Item("size_t", block.capacity), Item("size_t", Len(block.vals))>>
    \o SeqOut(block.vals, LAMBDA x : ElementOut(block.kind, x))

\* The caller knows which kind of block it reads.
BlockIn(kind, b, i) ==
  LET vals == SeqIn(b, i + 2, At(b, i + 1, "size_t"),
                    LAMBDA c, j : ElementIn(kind, c, j)) IN
  Did([kind |-> kind, capacity |-> At(b, i, "size_t"), vals |-> vals.val], vals.end)

KeyArrOut(keys) == <<Item("size_t", Len(keys))>> \o SeqOut(keys, KeyOut)
KeyArrIn(b, i) == SeqIn(b, i + 1, At(b, i, "size_t"), KeyIn)

\* A column: its length, the keys of its blocks, its type and its base key.
ColumnOut(c) ==
  <<Item("size_t", c.size)>> \o KeyArrOut(c.keys) \o <<Item("char", c.type)>> \o KeyOut(c.base)

ColumnIn(b, i) ==
  LET keys == KeyArrIn(b, i + 1)
      base == KeyIn(b, keys.end + 1) IN
  Did([size |-> At(b, i, "size_t"), keys |-> keys.val,
       type |-> At(b, keys.end, "char"), base |-> base.val], base.end)

ColumnsOut(cs) == <<Item("size_t", Len(cs.list))>> \o SeqOut(cs.list, ColumnOut) \o KeyOut(cs.dfKey)

ColumnsIn(b, i) ==
  LET list  == SeqIn(b, i + 1, At(b, i, "size_t"), ColumnIn)
      dfKey == KeyIn(b, list.end) IN
  Did([list |-> list.val, dfKey |-> dfKey.val], dfKey.end)

SchemaOut(s) ==
  <<Item("size_t", s.capacity), Item("size_t", Len(s.types)), Item("size_t", s.rows)>>
    \o [j \in DOMAIN s.types |-> Item("char", s.types[j])]

SchemaIn(b, i) ==
  LET types == SeqIn(b, i + 3, At(b, i + 1, "size_t"), LAMBDA c, j : ItemIn(c, j, "char")) IN
  Did([capacity |-> At(b, i, "size_t"), types |-> types.val,
       rows |-> At(b, i + 2, "size_t")], types.end)

FrameOut(df) == ColumnsOut(df.columns) \o SchemaOut(df.schema) \o KeyOut(df.key)

FrameIn(b, i) ==
  LET columns == ColumnsIn(b, i)
      schema  == SchemaIn(b, columns.end)
      key     == KeyIn(b, schema.end) IN
  Did([columns |-> columns.val, schema |-> schema.val, key |-> key.val], key.end)

\* What put serializes into the Value of a key, and what the get of a caller who
\* expects that class deserializes from it, from the start of a Serializer of its own.
ObjectOut(obj) == IF obj.class = "DataFrame" THEN FrameOut(obj.data) ELSE BlockOut(obj.data)

ObjectIn(class, kind, v) ==
  [class |-> class, kind |-> kind,
   data  |-> IF class = "DataFrame" THEN FrameIn(v, 1).val ELSE BlockIn(kind, v, 1).val]

-----------------------------------------------------------------------------
(* Messages *)

\* A PutMsg and a ReplyDataMsg carry a key and its value, the two requests a key.
PairOut(m) == KeyOut(m.body.key) \o ValueOut(m.body.value)

\* A mutant: the value is read before the key.
PairInSwapped(b, i) ==
  LET value == ValueIn(b, i)
      key   == KeyIn(b, value.end)
  IN  Did([key |-> key.val, value |-> value.val], key.end)

PairIn(b, i) ==
  LET key   == KeyIn(b, i)
      value == ValueIn(b, key.end)
  IN  Did([key |-> key.val, value |-> value.val], value.end)

RequestIn(b, i) == LET key == KeyIn(b, i) IN Did([key |-> key.val], key.end)

\* What a class of messages adds to the kind, the sender and the target.
BodyOut(m) ==
  CASE m.kind \in {"GetData", "WaitAndGet"} -> KeyOut(m.body.key)
    [] m.kind \in {"Put", "ReplyData"}      -> PairOut(m)
    [] m.kind = "Register"                  -> InfoOut(m.body)
    [] m.kind = "Dir"                       -> DirOut(m.body)
    [] m.kind \in {"Done", "Teardown"}      -> <<>>

BodyIn(kind, b, i) ==
  CASE kind \in {"GetData", "WaitAndGet"} -> RequestIn(b, i)
    [] kind \in {"Put", "ReplyData"}      -> PairIn(b, i)
    [] kind = "Register"                  -> InfoIn(b, i)
    [] kind = "Dir"                       -> DirIn(b, i)
    [] kind \in {"Done", "Teardown"}      -> Did(<<>>, i)

MessageOut(m) ==
  <<Item("kind", m.kind), Item("size_t", m.sender), Item("size_t", m.target)>> \o BodyOut(m)

\* deserialize of the class that receiveMsg made for the kind in front of the message,
\* which reads a kind of its own again.
MessageIn(kind, b, i) ==
  LET body == BodyIn(kind, b, i + 3) IN
  Did([kind |-> At(b, i, "kind"), sender |-> At(b, i + 1, "size_t"),
       target |-> At(b, i + 2, "size_t"), body |-> body.val], body.end)

\* readMsgKind takes what it does not know for a GetData.
KindIn(b, i) ==
  LET kind == At(b, i, "kind") IN Did(IF kind = Junk THEN "GetData" ELSE kind, i + 1)
=============================================================================
