------------------------------- MODULE MCLz4 --------------------------------
(* Blocks for Lz4: all short ones, and long ones with a repeated middle    *)
(* whose beginning comes again near the end.                               *)
EXTENDS Lz4

CONSTANTS ShortLen, EdgeLen, LongLens

Bits(n) == [ 1 .. n -> 0 .. 1 ]

Cycle(u, n) == [ i \in 1 .. n |-> u[1 + ((i - 1) % Len(u))] ]

MCSpare == { -6, -1, 0, 3 }

MCSources ==
  UNION { Bits(n) : n \in 0 .. ShortLen }
    \cup { a \o Cycle(u, n - 3 * EdgeLen - 2) \o a \o Cycle(b, EdgeLen + 2) :
             a, b \in Bits(EdgeLen), u \in Bits(1) \cup Bits(2) \cup Bits(3), n \in LongLens }
=============================================================================
