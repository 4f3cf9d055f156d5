-------------------------------- MODULE MCWire --------------------------------
(* An instance of Wire for TLC: two nodes, every kind of message. *)
EXTENDS Wire, TLC

StrLens == "" :> 0 @@ "k" :> 1 @@ "df-0" :> 4 @@ "word" :> 4

K(str, node) == [str |-> str, node |-> node]
Local(node)  == [family |-> 2, addr |-> 100 + node, port |-> 8080]

Block(kind, capacity, vals) ==
  [class |-> "Block", kind |-> kind,
   data |-> [kind |-> kind, capacity |-> capacity, vals |-> vals]]

Ints    == Block("I", 2, <<1, 7>>)
Doubles == Block("D", 2, <<5>>)
Bools   == Block("B", 2, <<TRUE>>)
Words   == Block("S", 3, <<"word", "">>)

Column(type, size, keys) == [size |-> size, keys |-> keys, type |-> type, base |-> K("k", 0)]
Frame ==
  [class |-> "DataFrame", kind |-> "", data |->
    [columns |-> [list |-> <<Column("I", 2, <<K("df-0", 1)>>), Column("S", 0, <<>>)>>,
                  dfKey |-> K("k", 0)],
     schema |-> [capacity |-> 4, types |-> <<"I", "S">>, rows |-> 2],
     key |-> K("k", 0)]]
Empty ==
  [class |-> "DataFrame", kind |-> "", data |->
    [columns |-> [list |-> <<>>, dfKey |-> K("", 1)],
     schema |-> [capacity |-> 4, types |-> <<>>, rows |-> 0], key |-> K("", 1)]]

AllObjects == {Ints, Doubles, Bools, Words, Frame, Empty}

Msg(kind, sender, body) == [kind |-> kind, sender |-> sender, target |-> 1 - sender, body |-> body]

\* Node 0 asks and stores, node 1 registers and replies.
AllKinds ==
  {Msg("Put", 0, [key |-> K("k", 1), value |-> ObjectOut(o)]) : o \in AllObjects}
  \cup {Msg("WaitAndGet", 0, [key |-> K("df-0", 1)]), Msg("GetData", 0, [key |-> K("", 1)]),
        Msg("Dir", 0, [capacity |-> 8, entries |-> <<[id |-> 0, info |-> Local(0)],
                                                     [id |-> 1, info |-> Local(1)]>>]),
        Msg("Teardown", 0, <<>>), Msg("Done", 1, <<>>), Msg("Register", 1, Local(1)),
        Msg("ReplyData", 1, [key |-> K("df-0", 1), value |-> ObjectOut(Frame)])}
=============================================================================
