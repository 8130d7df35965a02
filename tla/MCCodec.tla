------------------------------ MODULE MCCodec ------------------------------
(* A small instance of Codec: bytes of four bits, integers of seven.         *)
EXTENDS Codec

MCSet == 1
MCDelete == 2

\* Values of no byte, of one that continues a varint, and of as many as make
\* their length take a second byte.
MCRecord(i) ==
    {[type |-> MCDelete, ts |-> i, exp |-> -1, key |-> <<1>>, val |-> << >>]}
      \cup {[type |-> MCSet, ts |-> i, exp |-> 2, key |-> <<1>>, val |-> v]
              : v \in {<<15>>, <<0, 1, 4, 0, 8, 7, 0, 1>>}}

MCLogs ==
    UNION {{s \in [1..n -> UNION {MCRecord(i) : i \in 1..n}] :
              /\ \A i \in 1..n : s[i].ts = i
              /\ n = 3 => s[1].val = << >>}
             : n \in 0..3}

MCPut(key) == [type |-> MCSet, ts |-> 0, exp |-> -1, key |-> key, val |-> << >>]

\* A record whose time and key length make up a huge number, and so many that
\* their bytes are as long as a length of two bytes says.
MCLater ==
    {<< >>, <<MCPut(<<4>>)>>, <<MCPut(<<1, 2, 3, 4, 5, 6, 7>>)>>,
     [i \in 1..8 |-> MCPut(<<4>>)]}

MCEntry(k) ==
    {[key |-> k, val |-> v, exp |-> e, ts |-> 1] : v \in {<< >>, <<1, 0>>}, e \in {-1, 2}}

MCSnapshots ==
    {<< >>} \cup {<<e>> : e \in MCEntry(<<1>>)}
      \cup {<<e, f>> : e \in MCEntry(<<2, 1>>), f \in MCEntry(<<2>>)}

MCTails == UNION {[1..n -> {0, 1, 15}] : n \in 1..3} \cup {<<15, 15, 15, 1>>}

=============================================================================
