-------------------------------- MODULE MCMVCC --------------------------------
EXTENDS MVCC

Writes(S, op) == [k \in S |-> op]
op(v, m) == [val |-> v, meta |-> m]
Program(reads, ranges, writes) == [reads |-> reads, ranges |-> ranges, writes |-> writes]

\* Readers and writers of single keys, with every kind of write, and scans of the
\* whole state, of a part, and of a part from the middle.
programs ==
  {Program({}, {}, Writes({1}, op(v, "none"))) : v \in {"put", "delete"}}
  \cup {Program({}, {}, Writes({1}, op("none", m))) : m \in {"put", "delete"}}
  \cup {Program({1}, {}, Writes({2}, op("put", "put"))),
        Program({2}, {}, Writes({1, 3}, op("put", "none"))),
        Program({}, {<<1, 0>>}, Writes({1}, op("put", "none"))),
        Program({}, {<<1, 3>>}, Writes({3}, op("put", "none"))),
        Program({}, {<<2, 0>>}, Writes({1}, op("delete", "put")))}

keys == 1 .. 3
===============================================================================
