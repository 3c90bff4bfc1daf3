---------------------------- MODULE MCTreeBitmap ----------------------------
(* Small instances of the tree bitmap for TLC. *)
EXTENDS TreeBitmapProps, TLC

(* The BITS-bit address whose number is n. *)
Ip(n) == [i \in 1..BITS |-> (n \div 2^(BITS - i)) % 2]

P(n, len) == [ip |-> Ip(n), mask |-> len]

(* Two strides.  Four prefixes ending in the root at every relative length,  *)
(* two siblings below it and two full-length ones below one of them, so that *)
(* both Vecs shift; one prefix is passed with its host bits set.             *)
Nets8 == {P(0, 0), P(128, 1), P(191, 3), P(64, 4), P(160, 4), P(165, 6), P(165, 8), P(170, 8)}
Addrs8 == {Ip(165), Ip(166), Ip(170), Ip(191), Ip(64), Ip(1)}

(* Two values in the root and two below it, for panics in clear. *)
NetsPanic == {P(0, 0), P(128, 2), P(165, 8), P(80, 4)}
AddrsPanic == {Ip(165), Ip(1)}

(* Repeated interrupted clears would pile up values in the root for ever.    *)
MaxRootValues == 4
RootValuesBound == Len(heap[Root].values) <= MaxRootValues

ValueSymmetry == Permutations(Value)
==============================================================================
