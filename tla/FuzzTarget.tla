----------------------------- MODULE FuzzTarget -----------------------------
(***************************************************************************)
(* fuzz/fuzz_targets/lpm_ops.rs: decodes a Vec<Op> from the fuzzer's bytes *)
(* and applies it to one table, call by call.  Vecs have any length here,  *)
(* so the runs over all of them are the runs over all sequences of Op.     *)
(***************************************************************************)
EXTENDS TreeBitmapProps

CONSTANTS
  FuzzAddrs,   \* the addr of an Op, a u32
  FuzzLens     \* its len, a u8 that need not be a prefix length

ASSUME FuzzAddrsAssumption == FuzzAddrs \subseteq Address
ASSUME FuzzLensAssumption  == FuzzLens \subseteq 0..255

Op ==
       [op : {"insert"}, addr : FuzzAddrs, len : FuzzLens, val : Value]
  \cup [op : PrefixOps, addr : FuzzAddrs, len : FuzzLens]
  \cup [op : LookupOps, addr : FuzzAddrs]
  \cup [op : PlainOps]

(* IpPrefix::new refuses a length beyond the address.                      *)
NewPrefix(a, l) == IF l <= BITS THEN [ip |-> a, mask |-> l] ELSE None

(* len.min(32)                                                             *)
Clamp(l) == IF l <= BITS THEN l ELSE BITS

PrefixOf(o) == NewPrefix(o.addr, Clamp(o.len))

(* The clients of the table are the Ops: what they decode to is among the  *)
(* prefixes and the addresses that are passed to it.                       *)
ASSUME FuzzNetsAssumption ==
  [ip : FuzzAddrs, mask : {Clamp(l) : l \in FuzzLens}] \subseteq Nets
ASSUME FuzzLookupsAssumption == FuzzAddrs \subseteq Addrs

CallOf(o) ==
  CASE o.op = "insert"     -> [op |-> "insert", prefix |-> PrefixOf(o), value |-> o.val]
    [] o.op \in PrefixOps  -> [op |-> o.op, prefix |-> PrefixOf(o)]
    [] OTHER               -> o

(* An Op without a valid prefix makes no call.                             *)
Apply ==
  \E o \in Op :
    /\ pc = "idle"
    /\ o.op \in PrefixOps \cup {"insert"} => PrefixOf(o) # None
    /\ req' = CallOf(o)
    /\ pc' = o.op
    /\ UNCHANGED <<heap, count, reply, locals>>

(* The end of the Vec can come after any call.                             *)
FuzzSpec == Init /\ [][Apply \/ Step]_vars /\ WF_vars(Step)
==============================================================================
