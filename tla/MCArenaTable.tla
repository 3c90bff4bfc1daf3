---------------------------- MODULE MCArenaTable ----------------------------
(* Small instances of the arena for TLC. *)
EXTENDS ArenaTableProps

Ip(n) == [i \in 1..BITS |-> (n \div 2^(BITS - i)) % 2]

P(n, l) == [ip |-> Ip(n), mask |-> l]

(* Four bits: the default route, a chain of entries, two full-length siblings, *)
(* one of them an entry above the other, passed with host bits.                 *)
NetsArena == {P(15, 1), P(10, 4), P(11, 4), P(0, 0)}
AddrsArena == {Ip(10), Ip(3)}

NetsSmall == {P(0, 0), P(12, 2), P(10, 3), P(11, 4)}
AddrsSmall == {Ip(11)}
==============================================================================
