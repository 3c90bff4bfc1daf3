----------------------------- MODULE RouteMapAPI -----------------------------
(***************************************************************************)
(* The vocabulary shared by the routing tables of this crate: addresses,   *)
(* prefixes (the types of the ipnetx crate, seen through the calls src/    *)
(* makes), longest-prefix matching as a definition, and the calls a client *)
(* of RouteMap can make.                                                   *)
(***************************************************************************)
EXTENDS Integers, FiniteSets

CONSTANTS
  Strides,       \* total_strides = A::BITS / STRIDE: 8 for IPv4, 32 for IPv6
  Value,         \* V, the values stored in the table
  None,          \* Option::None
  Nets,      \* the prefixes clients pass, host bits possibly set
  Addrs,         \* the addresses clients look up
  DropMayPanic   \* whether V's destructor may panic

STRIDE == 4

BITS == STRIDE * Strides

(* A::to_u128() as its BITS bits, bit 1 the most significant one.          *)
Address == [1..BITS -> {0, 1}]

(* IpPrefix<A>: an address and a prefix length; host bits may be set.      *)
IpPrefix == [ip : Address, mask : 0..BITS]

(* IpPrefix::masked(): the canonical form, every host bit cleared.         *)
masked(p) ==
  [ip |-> [i \in 1..BITS |-> IF i <= p.mask THEN p.ip[i] ELSE 0],
   mask |-> p.mask]

ASSUME StridesAssumption == Strides \in Nat \ {0}
ASSUME NoneAssumption    == None \notin Value
ASSUME SomeAssumption ==   \* None is not Some(entry) or Some(match) either
  None \notin [prefix : IpPrefix, value : Value] \cup [value : Value, len : 0..BITS]
ASSUME NetsAssumption == Nets \subseteq IpPrefix
ASSUME AddrsAssumption   == Addrs \subseteq Address
ASSUME DropAssumption    == DropMayPanic \in BOOLEAN
------------------------------------------------------------------------------
(***************************************************************************)
(* Longest-prefix matching over a table, a function from canonical         *)
(* prefixes to values.                                                     *)
(***************************************************************************)
Covers(p, a) == \A i \in 1..p.mask : a[i] = p.ip[i]

Matches(t, a) == {p \in DOMAIN t : Covers(p, a)}

IsLongest(p, S) == p \in S /\ \A q \in S : q.mask <= p.mask

(* The entry a lookup of a must find in table t, or None.                  *)
LongestMatch(t, a) ==
  IF Matches(t, a) = {}
  THEN None
  ELSE LET p == CHOOSE q \in Matches(t, a) : IsLongest(q, Matches(t, a))
       IN  [prefix |-> p, value |-> t[p]]
------------------------------------------------------------------------------
(***************************************************************************)
(* Calls.  A call in progress is recorded in a request; its answer is a    *)
(* reply.  "panic" is the answer of a call that unwound out of V's         *)
(* destructor: &mut self is usable again once the panic has been caught.   *)
(***************************************************************************)
PrefixOps == {"remove", "get", "contains"}
LookupOps == {"longest_match", "longest_match_entry"}
PlainOps  == {"len", "is_empty", "clear"}

Request ==
       [op : {"insert"}, prefix : Nets, value : Value]
  \cup [op : PrefixOps, prefix : Nets]
  \cup [op : LookupOps, addr : Addrs]
  \cup [op : PlainOps]

NoRequest == [op |-> "none"]

Unit  == "()"
Panic == "panic"

Done == IF DropMayPanic THEN {Unit, Panic} ELSE {Unit}

(* What a lookup answers, given the entry it found.                        *)
LookupReply(op, found) ==
  CASE found = None                -> None
    [] found # None /\ op = "longest_match" -> found.value
    [] OTHER                       -> found
==============================================================================
