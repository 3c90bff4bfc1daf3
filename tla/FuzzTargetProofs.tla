--------------------------- MODULE FuzzTargetProofs ---------------------------
(***************************************************************************)
(* What the fuzz target can meet: its calls are calls of a client, so all  *)
(* that holds of the table holds of every run of the fuzzer.               *)
(***************************************************************************)
EXTENDS FuzzTarget, TreeBitmapRefinement

(* A clamped length is one IpPrefix::new accepts.                          *)
LEMMA ClampFits ==
  ASSUME NEW l \in FuzzLens
  PROVE  Clamp(l) \in 0..BITS
BY FuzzLensAssumption, BitsType DEF Clamp

(* An Op decodes to a request with operands in range.                      *)
LEMMA OpDecodes ==
  ASSUME NEW o \in Op
  PROVE  CallOf(o) \in Request /\ CallOf(o).op = o.op
<1>1. CASE o \in [op : {"insert"}, addr : FuzzAddrs, len : FuzzLens, val : Value]
  <2>1. o.op = "insert" /\ o.addr \in FuzzAddrs /\ o.len \in FuzzLens /\ o.val \in Value
    BY <1>1
  <2>2. PrefixOf(o) = [ip |-> o.addr, mask |-> Clamp(o.len)]
    BY <2>1, ClampFits DEF PrefixOf, NewPrefix
  <2>3. PrefixOf(o) \in Nets
    BY <2>1, <2>2, FuzzNetsAssumption
  <2>4. CallOf(o) = [op |-> "insert", prefix |-> PrefixOf(o), value |-> o.val]
    BY <2>1 DEF CallOf, PrefixOps
  <2>5. CallOf(o) \in [op : {"insert"}, prefix : Nets, value : Value] /\ CallOf(o).op = "insert"
    BY <2>1, <2>3, <2>4
  <2>. QED BY <2>1, <2>5 DEF Request
<1>2. CASE o \in [op : PrefixOps, addr : FuzzAddrs, len : FuzzLens]
  <2>1. o.op \in PrefixOps /\ o.addr \in FuzzAddrs /\ o.len \in FuzzLens /\ o.op # "insert"
    BY <1>2 DEF PrefixOps
  <2>2. PrefixOf(o) = [ip |-> o.addr, mask |-> Clamp(o.len)]
    BY <2>1, ClampFits DEF PrefixOf, NewPrefix
  <2>3. PrefixOf(o) \in Nets
    BY <2>1, <2>2, FuzzNetsAssumption
  <2>4. CallOf(o) = [op |-> o.op, prefix |-> PrefixOf(o)]
    BY <2>1 DEF CallOf
  <2>5. CallOf(o) \in [op : PrefixOps, prefix : Nets] /\ CallOf(o).op = o.op
    BY <2>1, <2>3, <2>4
  <2>. QED BY <2>5 DEF Request
<1>3. CASE o \in [op : LookupOps, addr : FuzzAddrs]
  <2>1. CallOf(o) = o
    BY <1>3 DEF CallOf, LookupOps, PrefixOps
  <2>2. o \in [op : LookupOps, addr : Addrs]
    BY <1>3, FuzzLookupsAssumption
  <2>. QED BY <2>1, <2>2 DEF Request
<1>4. CASE o \in [op : PlainOps]
  <2>1. CallOf(o) = o
    BY <1>4 DEF CallOf, PlainOps, PrefixOps
  <2>. QED BY <1>4, <2>1 DEF Request
<1>. QED
  BY <1>1, <1>2, <1>3, <1>4 DEF Op

LEMMA ApplyIsCall == Apply => Call
BY OpDecodes DEF Apply, Call

(* Whatever bytes the fuzzer invents, the target is a client of the table. *)
LEMMA FuzzIsClient == FuzzSpec => Spec
<1>1. [Apply \/ Step]_vars => [Next]_vars
  BY ApplyIsCall DEF Next
<1>. QED
  BY <1>1, PTL DEF FuzzSpec, Spec, Fairness

(* No input makes the target panic: what the fuzzer looks for is not there *)
(* to be found, for any number of strides and inputs of any length.        *)
THEOREM FuzzFindsNoPanic == FuzzSpec => []NoPanic
BY FuzzIsClient, CallsDoNotPanic, PTL

(* No input makes a suspended remove_at hold a stale child index.          *)
THEOREM FuzzFrames == FuzzSpec => []FramesValid
BY FuzzIsClient, FramesCorrect, PTL

(* The answers the target ignores are those of the routing table.          *)
THEOREM FuzzRefinement == FuzzSpec => ImplementsRoutingTable
BY FuzzIsClient, Refinement, PTL
=============================================================================
