-------------------------- MODULE MCTreeBitmapIter --------------------------
(* Small instances of the tree bitmap with an iterator for TLC. *)
EXTENDS TreeBitmapIterProps, TLC

Ip(n) == [i \in 1..BITS |-> (n \div 2^(BITS - i)) % 2]

P(n, len) == [ip |-> Ip(n), mask |-> len]

(* Two strides: three entries in the root, one of them at the last bit, two   *)
(* children, and full-length entries under both.                              *)
NetsIter == {P(0, 0), P(128, 1), P(224, 3), P(165, 6), P(165, 8), P(255, 8)}

AddrsIter == {Ip(165)}

ValueSymmetry == Permutations(Value)
==============================================================================
