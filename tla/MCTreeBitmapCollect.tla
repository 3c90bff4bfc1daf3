------------------------ MODULE MCTreeBitmapCollect ------------------------
(* Small instances of a table collected from another for TLC. *)
EXTENDS TreeBitmapCollect, TLC

Ip(n) == [i \in 1..BITS |-> (n \div 2^(BITS - i)) % 2]

P(n, len) == [ip |-> Ip(n), mask |-> len]

(* Three strides: an entry in the root passed with host bits, a chain with   *)
(* nothing in its middle node, and a branch.                                  *)
NetsCollect == {P(1023, 2), P(1445, 12), P(1446, 12), P(1280, 5)}
AddrsCollect == {Ip(1445)}
==============================================================================
