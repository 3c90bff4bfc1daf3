---------------------------- MODULE MCPropTests ----------------------------
(* Small instances of the property tests for TLC. *)
EXTENDS PropTests, TLC

(* The address with the given leading nibbles; the last one is repeated. *)
Hex(ns) ==
  [i \in 1..BITS |->
     LET k == (i - 1) \div STRIDE + 1
     IN  (ns[IF k > Len(ns) THEN Len(ns) ELSE k] \div 2^(3 - ((i - 1) % STRIDE))) % 2]

(* IPv4: two hosts of 10.20.5.0/24, and one far away; the default route, a    *)
(* prefix in two spellings, two nested ones below it and a sibling of these.   *)
Ips4 == {Hex(<<0, 10, 1, 4, 0, 5, 0, 1>>), Hex(<<0, 10, 1, 4, 0, 5, 15, 14>>), Hex(<<15>>)}
OpNets4 ==
  {[ip |-> Hex(<<0>>), mask |-> 0],
   [ip |-> Hex(<<0, 10, 1, 4, 0, 5, 0, 1>>), mask |-> 30],
   [ip |-> Hex(<<0, 10, 1, 4, 0, 5, 0, 2>>), mask |-> 30],
   [ip |-> Hex(<<0, 10, 1, 4, 0, 5, 0, 1>>), mask |-> 32],
   [ip |-> Hex(<<0, 10, 1, 4, 0, 5, 15, 14>>), mask |-> 25]}

(* IPv6: one address with unlike nibbles, and the least one. *)
Ips6 == {Hex(<<2, 0, 0, 1, 0, 13, 11, 8, 6, 9>>), Hex(<<0>>)}

(* What the tests pass: their inputs as drawn and masked.                    *)
TestNets  == UNION {{p, masked(p)} : p \in AnyPrefix \cup OpNets \cup {Root}}
TestAddrs == UNION {{p.ip, masked(p).ip} : p \in AnyPrefix}

ValueSymmetry == Permutations(Value)
==============================================================================
