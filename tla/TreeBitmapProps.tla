--------------------------- MODULE TreeBitmapProps ---------------------------
(***************************************************************************)
(* What must hold of the tree bitmap: its invariants, what a step may      *)
(* never do, termination, and the routing table it implements.             *)
(***************************************************************************)
EXTENDS TreeBitmap

TbNode == [internal : SUBSET (1..15), external : SUBSET Nibble,
           values : Seq(Value), children : Seq(IpPrefix)]

Best == [value : Value, len : 0..BITS]

Frame == [node : IpPrefix, nib : Nibble, idx : 0..15]

ReplySet(op) ==
  CASE op = "none"                  -> {None}
    [] op \in {"insert", "clear"}   -> Done
    [] op \in {"remove", "get", "longest_match"} -> Value \cup {None}
    [] op = "longest_match_entry"   -> [prefix : IpPrefix, value : Value] \cup {None}
    [] op = "len"                   -> Nat
    [] op \in {"contains", "is_empty"} -> BOOLEAN

Ops == {"insert"} \cup PrefixOps \cup LookupOps \cup PlainOps

(* Every variable keeps its type; an answer has the type its call          *)
(* declares.                                                               *)
TypeOK ==
  /\ DOMAIN heap \subseteq IpPrefix
  /\ \A r \in DOMAIN heap : heap[r] \in TbNode
  /\ count \in Nat
  /\ req \in Request \cup {NoRequest}
  /\ pc \in Ops \cup {"idle", "unwind", "return"}
  /\ reply \in ReplySet(req.op) \cup {None}
  /\ node \in IpPrefix
  /\ hop \in 0..Strides
  /\ best \in Best \cup {None}
  /\ stack \in Seq(Frame)
  /\ prune \in BOOLEAN
------------------------------------------------------------------------------
(* What the tree stores, read off the bitmaps.                             *)
Keys == UNION {{Entry(r, b) : b \in heap[r].internal} : r \in DOMAIN heap}

(* The node and the bit a prefix belongs to.                               *)
Home(p) == Path(p.ip, p.mask \div STRIDE)
BitOf(p) == LET l == p.mask % STRIDE
            IN  IF l = 0 THEN 1 ELSE Position(nibble(p.ip, p.mask \div STRIDE), l)

ValueOf(p) == LET n == heap[Home(p)] IN At(n.values, rank(n.internal, BitOf(p)))

Table == [p \in Keys |-> ValueOf(p)]

Phase == CASE pc = "idle"                -> "idle"
           [] pc \in {"unwind", "return"} -> "answered"
           [] OTHER                      -> "called"

Abstract == INSTANCE RoutingTable WITH table <- Table, phase <- Phase

(* Seen through its bitmaps, every step of the tree is a step of the       *)
(* routing table or invisible to it: creating empty nodes, walking,        *)
(* pruning and counting never show, and every answer, len() and is_empty() *)
(* included, is the routing table's.                                       *)
ImplementsRoutingTable == Abstract!Init /\ [][Abstract!Next]_Abstract!vars

(* The same with the routing table's promise that every call returns.      *)
ImplementsFairRoutingTable == Abstract!Spec
------------------------------------------------------------------------------
(* The compact child Vec has one reference per external bit, at the bit's  *)
(* rank, and it is the reference of the child for that nibble: no insert   *)
(* or remove elsewhere in the Vec may shift it out of place.               *)
WellLinked ==
  \A r \in DOMAIN heap :
    /\ Len(heap[r].children) = Cardinality(heap[r].external)
    /\ \A n \in heap[r].external :
         /\ At(heap[r].children, rank(heap[r].external, n)) = Child(r, n)
         /\ Child(r, n) \in DOMAIN heap

(* Every set internal bit has its own slot of the value Vec.  Slots beyond *)
(* these exist only in the root, after an interrupted clear.               *)
ValuesBacked ==
  \A r \in DOMAIN heap :
    /\ Len(heap[r].values) >= Cardinality(heap[r].internal)
    /\ Len(heap[r].values) > Cardinality(heap[r].internal) => r = Root /\ DropMayPanic

(* node.rs: "length equals internal.count_ones()".                         *)
CompactValues ==
  \A r \in DOMAIN heap : Len(heap[r].values) = Cardinality(heap[r].internal)

(* A live node hangs in the tree: each of its ancestors is live and has    *)
(* the external bit that leads to it, and below the last stride there is   *)
(* nothing but the full-length prefix.                                     *)
Anchored ==
  /\ Root \in DOMAIN heap
  /\ \A r \in DOMAIN heap :
       LET depth == r.mask \div STRIDE
       IN  /\ r = Path(r.ip, depth)
           /\ \A h \in 0..(depth - 1) :
                /\ Path(r.ip, h) \in DOMAIN heap
                /\ nibble(r.ip, h) \in heap[Path(r.ip, h)].external
           /\ depth = Strides => heap[r].external = {} /\ heap[r].internal \subseteq {1}

(* A node with neither an entry nor a child exists only where the running  *)
(* call is about to fill it or about to prune it: no sequence of inserts   *)
(* and removes leaves one behind.                                          *)
NoDeadNodes ==
  \A r \in DOMAIN heap \ {Root} :
    heap[r].internal \cup heap[r].external = {}
      => /\ r = node
         /\ pc = "insert" \/ (pc = "unwind" /\ prune)

(* The separate counter agrees with the number of entries whenever a       *)
(* client can read it; while a remove unwinds it is one ahead.             *)
CountExact ==
  count = Cardinality(Keys) + (IF pc = "unwind" /\ reply # None THEN 1 ELSE 0)

(* A suspended remove_at frame can still trust the child index it took     *)
(* before the recursion changed the tree below it.                         *)
FramesValid ==
  \A i \in DOMAIN stack :
    LET f == stack[i]
    IN  /\ f.node = Path(addr, i - 1)
        /\ f.nib = nibble(addr, i - 1)
        /\ f.nib \in heap[f.node].external
        /\ f.idx = rank(heap[f.node].external, f.nib)

(* While a lookup walks down, best is the longest match among the entries  *)
(* stored in the nodes already left behind.                                *)
BestSoFar ==
  pc \in LookupOps =>
    LET above == [p \in {q \in Keys : q.mask < STRIDE * hop} |-> Table[p]]
        m     == LongestMatch(above, req.addr)
    IN  best = IF m = None THEN None ELSE [value |-> m.value, len |-> m.prefix.mask]

(* The checks Rust makes for the next step of the running call.            *)

(* The shift in nibble: addr_bits - (hop + 1) * STRIDE does not underflow. *)
NibbleInRange ==
  \/ pc \in LookupOps /\ hop < Strides
  \/ pc \in {"insert", "remove", "get", "contains"} /\ (hop < fullHops \/ relLen > 0)
  => hop < Strides

(* The walk indexes children, or inserts among them.                       *)
ChildInRange ==
  \/ pc \in LookupOps /\ hop < Strides
  \/ pc \in {"insert", "remove", "get", "contains"} /\ hop < fullHops
  => IF nib \in here.external THEN childIdx < Len(here.children)
                              ELSE childIdx <= Len(here.children)

(* The target's value is read, replaced, removed or inserted.              *)
ValueInRange ==
  pc \in {"insert", "remove", "get", "contains"} /\ hop = fullHops
  => IF bpos \in here.internal THEN valueIdx < Len(here.values)
                               ELSE valueIdx <= Len(here.values)

(* A lookup reads the value of a hit and makes a prefix of its length.     *)
HitsInRange ==
  pc \in LookupOps =>
    /\ best # None => best.len <= BITS
    /\ \A b \in here.internal \cap (IF hop < Strides THEN MatchMask(nib) ELSE {1}) :
         /\ rank(here.internal, b) < Len(here.values)
         /\ hop * STRIDE + RelLen(b) <= BITS

(* remove_at prunes by the index it kept, RouteMap::remove counts down.    *)
UnwindInRange ==
  pc = "unwind" =>
    IF stack = <<>>
    THEN reply # None => CountAfterRemove(reply) >= 0
    ELSE prune => Last(stack).idx < Len(heap[Last(stack).node].children)

(* No call panics by itself: whatever was called before, no slice index is *)
(* out of bounds, no shift too wide, no counter below zero, and the prefix *)
(* longest_match_entry unwraps is valid.  That is what the fuzz target     *)
(* (fuzz_targets/lpm_ops.rs) watches for.                                  *)
NoPanic ==
  NibbleInRange /\ ChildInRange /\ ValueInRange /\ HitsInRange /\ UnwindInRange

(* The tree a table has, of all trees with its entries: a node for every   *)
(* stride of every entry, a bit for every entry and every node below, and  *)
(* in each Vec slot what the bit of that rank stands for.                  *)
Refs(t) ==
  {Root} \cup UNION {{Path(p.ip, h) : h \in 0..(p.mask \div STRIDE)} : p \in DOMAIN t}

Internal(t, r) == {b \in 1..15 : Entry(r, b) \in DOMAIN t}
External(t, r) == {n \in Nibble : Child(r, n) \in Refs(t)}

(* The bits of a bitmap in the order of their slots.                       *)
Slots(bitmap) ==
  [i \in 1..Cardinality(bitmap) |-> CHOOSE b \in bitmap : rank(bitmap, b) = i - 1]

NodeOf(t, r) ==
  LET stored == Slots(Internal(t, r))
      linked == Slots(External(t, r))
  IN  [internal |-> Internal(t, r), external |-> External(t, r),
       values   |-> [i \in DOMAIN stored |-> t[Entry(r, stored[i])]],
       children |-> [i \in DOMAIN linked |-> Child(r, linked[i])]]

TreeOf(t) == [r \in Refs(t) |-> NodeOf(t, r)]

(* Between calls the tree is that of its entries: which nodes there are,   *)
(* and what is in which slot, does not depend on what was inserted,        *)
(* replaced, removed and pruned before.                                    *)
HistoryFree == pc = "idle" => heap = TreeOf(Table)

(* A node leaves the tree only empty, or with the whole table in clear:    *)
(* pruning never takes an entry or a subtree with it.                      *)
PruneOnlyDead ==
  [][\A r \in DOMAIN heap \ DOMAIN heap' :
       pc = "clear" \/ heap[r].internal \cup heap[r].external = {}]_vars

(* Every call returns to its caller.                                       *)
Responds == pc # "idle" ~> pc = "idle"
------------------------------------------------------------------------------
(* README.md: a lookup "visits at most 8 nodes" when 8 is total_strides.   *)
LookupVisitsAtMostStrides == pc \in LookupOps => hop + 1 <= Strides
==============================================================================
