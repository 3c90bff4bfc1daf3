---------------------------- MODULE MCFuzzTarget ----------------------------
(* Small instances of the fuzz target for TLC. *)
EXTENDS FuzzTarget, TLC

Ip(n) == [i \in 1..BITS |-> (n \div 2^(BITS - i)) % 2]

(* Three strides: two addresses that part at the last bits, one that parts   *)
(* from them in the first stride but not before its first bit.               *)
FuzzAddrs12 == {Ip(1445), Ip(1446), Ip(1029)}

(* What the Ops decode to. *)
FuzzNets == [ip : FuzzAddrs, mask : {Clamp(l) : l \in FuzzLens}]
==============================================================================
