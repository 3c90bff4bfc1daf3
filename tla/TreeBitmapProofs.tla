--------------------------- MODULE TreeBitmapProofs ---------------------------
(***************************************************************************)
(* The tree bitmap's invariants, for every number of strides, every set of *)
(* values and every set of prefixes and addresses clients may pass.        *)
(***************************************************************************)
EXTENDS TreeBitmapProps, TreeBitsProofs

(* The calls that walk the tree, and the phases of a walk.                 *)
KeyOps  == {"insert"} \cup PrefixOps
Walking == pc \in KeyOps \cup LookupOps \cup {"unwind"}

(* Where the locals stand at each point of a call: a walk has followed its *)
(* own address for `hop' strides and stands on a live node.                *)
Control ==
  /\ pc = "idle" => /\ req = NoRequest /\ reply = None
                    /\ node = Root /\ hop = 0 /\ best = None
  /\ pc \in Ops => req \in Request /\ req.op = pc /\ reply = None
  /\ pc = "unwind" => req \in Request /\ req.op = "remove"
  /\ pc = "return" => req \in Request
  /\ Walking => node = Path(addr, hop) /\ node \in DOMAIN heap
  /\ pc \in KeyOps \cup {"unwind"} => hop <= fullHops
  /\ IF pc \in {"remove", "unwind"} THEN Len(stack) = hop ELSE stack = <<>>
  /\ prune /\ pc # "return" => pc = "unwind" /\ IsDead(here)

(* What the heap alone satisfies.                                          *)
TreeInv == WellLinked /\ ValuesBacked /\ Anchored /\ IsFiniteSet(Keys)

IInv == TypeOK /\ Control /\ TreeInv /\ FramesValid /\ NoDeadNodes /\ CountExact
------------------------------------------------------------------------------
(* The operands of a call are well formed.                                 *)
LEMMA RequestFacts ==
  ASSUME req \in Request
  PROVE  /\ req.op \in Ops
         /\ req.op = "insert" => req.value \in Value
         /\ req.op \in KeyOps =>
              /\ addr \in Address
              /\ addr = key.ip
              /\ key \in IpPrefix
              /\ key.mask = 4 * fullHops + relLen
              /\ fullHops \in 0..Strides
              /\ relLen \in 0..3
              /\ relLen > 0 => fullHops < Strides
         /\ req.op \in LookupOps => addr \in Address /\ addr = req.addr
<1>1. /\ req.op \in Ops
      /\ req.op = "insert" => req.value \in Value
      /\ req.op \in KeyOps => req.prefix \in Nets /\ req.op \notin LookupOps
      /\ req.op \in LookupOps => req.addr \in Addrs
  BY DEF Request, Ops, KeyOps, PrefixOps, LookupOps, PlainOps
<1>2. ASSUME req.op \in KeyOps
      PROVE  /\ addr \in Address
             /\ addr = key.ip
             /\ key \in IpPrefix
             /\ key.mask = 4 * fullHops + relLen
             /\ fullHops \in 0..Strides
             /\ relLen \in 0..3
             /\ relLen > 0 => fullHops < Strides
  <2>1. req.prefix \in IpPrefix /\ addr = key.ip
    BY <1>1, <1>2, NetsAssumption DEF addr
  <2>2. key \in IpPrefix /\ key.mask \in 0..BITS /\ key.ip \in Address
    BY <2>1, MaskedType DEF key, IpPrefix
  <2>3. /\ fullHops = key.mask \div 4
        /\ relLen = key.mask % 4
    BY BitsType DEF fullHops, relLen
  <2>4. \A m \in 0..BITS : /\ m = 4 * (m \div 4) + (m % 4)
                           /\ m \div 4 \in 0..Strides /\ m % 4 \in 0..3
                           /\ m % 4 > 0 => m \div 4 < Strides
    BY BitsType
  <2>. QED BY <2>1, <2>2, <2>3, <2>4
<1>3. ASSUME req.op \in LookupOps PROVE addr \in Address /\ addr = req.addr
  BY <1>1, <1>3, AddrsAssumption DEF addr
<1>. QED
  BY <1>1, <1>2, <1>3

(* A live node, its bitmaps and its Vecs.                                  *)
LEMMA NodeFacts ==
  ASSUME TypeOK, TreeInv, NEW r \in DOMAIN heap
  PROVE  /\ r \in IpPrefix
         /\ NodeRef(r)
         /\ heap[r] \in TbNode
         /\ heap[r].internal \in Bitmap
         /\ heap[r].external \in Bitmap
         /\ \A b \in heap[r].internal : Slot(r, b)
         /\ heap[r].external # {} => r.mask < BITS
         /\ r.mask \div 4 \in 0..Strides
         /\ r.mask = 4 * (r.mask \div 4)
         /\ r = Path(r.ip, r.mask \div 4)
<1>1. r \in IpPrefix /\ heap[r] \in TbNode /\ r.ip \in Address /\ r.mask \in 0..BITS
  BY DEF TypeOK, IpPrefix
<1>2. heap[r].internal \in Bitmap /\ heap[r].external \in Bitmap /\ heap[r].internal \subseteq 1..15
  BY <1>1 DEF TbNode, Bitmap, Nibble
<1>3. r.mask \div 4 \in 0..Strides
  BY <1>1, BitsType
<1>4. /\ r = Path(r.ip, r.mask \div 4)
      /\ r.mask \div 4 = Strides => heap[r].external = {} /\ heap[r].internal \subseteq {1}
  BY BitsType DEF TreeInv, Anchored
<1>5. r.mask = 4 * (r.mask \div 4)
  BY <1>1, <1>3, <1>4, PathType
<1>6. NodeRef(r)
  BY <1>3, <1>4, <1>5 DEF NodeRef
<1>7. r.mask = BITS <=> r.mask \div 4 = Strides
  BY <1>1, <1>3, <1>5, BitsType
<1>8. \A b \in heap[r].internal : Slot(r, b)
  BY <1>2, <1>4, <1>7 DEF Slot
<1>9. heap[r].external # {} => r.mask < BITS
  BY <1>1, <1>4, <1>7, BitsType
<1>. QED
  BY <1>1, <1>2, <1>3, <1>4, <1>5, <1>6, <1>8, <1>9

(* Where a walk stands.                                                    *)
LEMMA WalkFacts ==
  ASSUME TypeOK, Control, TreeInv, Walking
  PROVE  /\ addr \in Address
         /\ node = Path(addr, hop)
         /\ node \in DOMAIN heap
         /\ node \in IpPrefix
         /\ node.mask = 4 * hop
         /\ hop \in 0..Strides
         /\ here \in TbNode
         /\ here.internal \in Bitmap /\ here.external \in Bitmap
         /\ hop < Strides => nib \in Nibble
         /\ here.external # {} => hop < Strides
<1>1. req \in Request /\ req.op \in KeyOps \cup LookupOps
  BY DEF Control, Walking, Ops, KeyOps, PrefixOps, LookupOps
<1>2. addr \in Address
  BY <1>1, RequestFacts
<1>3. node = Path(addr, hop) /\ node \in DOMAIN heap /\ hop \in 0..Strides
  BY DEF Control, TypeOK
<1>4. node \in IpPrefix /\ node.mask = 4 * hop
  BY <1>2, <1>3, PathType
<1>5. hop < Strides => nib \in Nibble
  BY <1>2, <1>3, NibbleType, BitsType DEF nib
<1>6. /\ here \in TbNode /\ here.internal \in Bitmap /\ here.external \in Bitmap
      /\ here.external # {} => node.mask < BITS
  BY <1>3, NodeFacts DEF here
<1>. QED
  BY <1>2, <1>3, <1>4, <1>5, <1>6, BitsType

(* Following a link leads one stride further along the walk's address.     *)
LEMMA DescendFacts ==
  ASSUME TypeOK, Control, TreeInv, Walking, hop < Strides, nib \in here.external
  PROVE  /\ At(here.children, childIdx) = Path(addr, hop + 1)
         /\ Path(addr, hop + 1) = Child(node, nib)
         /\ Path(addr, hop + 1) \in DOMAIN heap
         /\ Path(addr, hop + 1) \in IpPrefix
         /\ hop + 1 \in 0..Strides
<1>1. At(here.children, childIdx) = Child(node, nib) /\ Child(node, nib) \in DOMAIN heap
  BY WalkFacts DEF TreeInv, WellLinked, here, childIdx
<1>2. Child(node, nib) = Path(addr, hop + 1)
  BY WalkFacts, ChildOnPath, BitsType DEF nib
<1>. QED
  BY <1>1, <1>2, WalkFacts, NodeFacts, BitsType

(* The slot of a set bit holds a value.                                    *)
LEMMA ValueFacts ==
  ASSUME TypeOK, TreeInv, NEW r \in DOMAIN heap, NEW b \in heap[r].internal
  PROVE  /\ rank(heap[r].internal, b) \in Nat
         /\ rank(heap[r].internal, b) + 1 \in 1..Len(heap[r].values)
         /\ At(heap[r].values, rank(heap[r].internal, b)) \in Value
<1>1. heap[r].internal \in Bitmap /\ heap[r].values \in Seq(Value)
  BY NodeFacts DEF TbNode
<1>2. Len(heap[r].values) >= Cardinality(heap[r].internal)
  BY DEF TreeInv, ValuesBacked
<1>3. /\ rank(heap[r].internal, b) \in Nat
      /\ rank(heap[r].internal, b) < Cardinality(heap[r].internal)
      /\ Cardinality(heap[r].internal) \in Nat
  BY <1>1, RankInBounds, BitmapFinite
<1>4. Len(heap[r].values) \in Nat
  BY <1>1
<1>5. rank(heap[r].internal, b) + 1 \in 1..Len(heap[r].values)
  BY <1>2, <1>3, <1>4
<1>. QED
  BY <1>1, <1>3, <1>5 DEF At

(* The bit of the target node that a call on a prefix is about.            *)
LEMMA TargetFacts ==
  ASSUME TypeOK, Control, TreeInv, pc \in KeyOps, hop = fullHops
  PROVE  /\ Slot(node, bpos)
         /\ bpos \in 1..15
         /\ valueIdx \in Nat
         /\ bpos \in here.internal => /\ valueIdx + 1 \in 1..Len(here.values)
                                      /\ At(here.values, valueIdx) \in Value
<1>1. Walking /\ req \in Request /\ req.op \in KeyOps
  BY DEF Walking, Control, Ops, KeyOps, PrefixOps
<1>2. relLen \in 0..3 /\ (relLen > 0 => hop < Strides)
  BY <1>1, RequestFacts
<1>3. relLen = 0 => bpos = 1
  BY DEF bpos
<1>4. relLen > 0 => bpos \in 2..15 /\ bpos = Position(nib, relLen)
  BY <1>1, <1>2, WalkFacts, PositionType DEF bpos
<1>5. bpos \in 1..15
  BY <1>2, <1>3, <1>4
<1>6. node.mask = BITS => bpos = 1
  BY <1>1, <1>2, <1>3, WalkFacts, BitsType
<1>7. valueIdx \in Nat
  BY <1>1, <1>5, WalkFacts, RankType DEF valueIdx
<1>. QED
  BY <1>1, <1>5, <1>6, <1>7, WalkFacts, ValueFacts DEF Slot, here, valueIdx

(* A step that leaves the heap alone leaves the tree and its entries alone.*)
LEMMA TreeUnchanged ==
  ASSUME TreeInv, heap' = heap
  PROVE  TreeInv' /\ Keys' = Keys
BY DEF TreeInv, WellLinked, ValuesBacked, Anchored, Keys

(* What a call is about does not change while it runs.                     *)
LEMMA OperandsUnchanged ==
  ASSUME req' = req
  PROVE  addr' = addr /\ key' = key /\ fullHops' = fullHops /\ relLen' = relLen
BY DEF addr, key, fullHops, relLen
------------------------------------------------------------------------------
(* The invariant holds initially and across every action.                  *)
LEMMA InitInv ==
  ASSUME Init
  PROVE  IInv
<1>1. DOMAIN heap = {Root} /\ heap[Root] = EmptyNode
  BY DEF Init
<1>2. EmptyNode \in TbNode
  BY DEF EmptyNode, TbNode
<1>3. TypeOK
  <2>1. stack \in Seq(Frame)
    BY DEF Init
  <2>2. hop \in 0..Strides
    BY BitsType DEF Init
  <2>. QED BY <1>1, <1>2, <2>1, <2>2, RootType DEF Init, TypeOK
<1>4. Control
  BY DEF Init, Control, Walking, Ops, KeyOps, PrefixOps, LookupOps, PlainOps
<1>5. Keys = {}
  BY <1>1 DEF Keys, EmptyNode
<1>6. WellLinked /\ ValuesBacked
  <2>1. Cardinality({}) = 0 /\ Len(<<>>) = 0
    BY FS_EmptySet
  <2>2. /\ EmptyNode.internal = {} /\ EmptyNode.external = {}
        /\ EmptyNode.values = <<>> /\ EmptyNode.children = <<>>
    BY DEF EmptyNode
  <2>3. \A r \in DOMAIN heap :
          /\ heap[r].external = {}
          /\ Len(heap[r].values) = 0 /\ Cardinality(heap[r].internal) = 0
          /\ Len(heap[r].children) = 0 /\ Cardinality(heap[r].external) = 0
    BY <1>1, <2>1, <2>2
  <2>. QED BY <2>3 DEF WellLinked, ValuesBacked
<1>7. Anchored
  <2>1. Root.mask \div STRIDE = 0
    BY BitsType DEF Root
  <2>2. Root = Path(Root.ip, 0)
    BY RootType, PathRoot DEF IpPrefix
  <2>. QED BY <1>1, <2>1, <2>2, BitsType DEF Anchored, EmptyNode
<1>8. IsFiniteSet(Keys) /\ CountExact
  BY <1>5, FS_EmptySet DEF CountExact, Init
<1>9. FramesValid
  BY DEF FramesValid, Init
<1>10. NoDeadNodes
  BY <1>1 DEF NoDeadNodes
<1>. QED
  BY <1>3, <1>4, <1>6, <1>7, <1>8, <1>9, <1>10 DEF IInv, TreeInv

(* A call starts at the root.                                              *)
LEMMA CallInv ==
  ASSUME IInv, Call
  PROVE  IInv'
<1>1. /\ pc = "idle" /\ node = Root /\ hop = 0 /\ stack = <<>> /\ reply = None
      /\ prune = FALSE
  BY DEF IInv, Control, Call, TypeOK
<1>2. /\ req' \in Request /\ pc' = req'.op
      /\ heap' = heap /\ count' = count /\ reply' = reply /\ node' = node /\ hop' = hop
      /\ best' = best /\ stack' = stack /\ prune' = prune
  BY DEF Call, locals
<1>3. /\ pc' \in Ops
      /\ pc' \in KeyOps => req'.prefix \in Nets /\ req'.op \notin LookupOps
      /\ pc' \in LookupOps => req'.addr \in Addrs
  BY <1>2 DEF Request, Ops, KeyOps, PrefixOps, LookupOps, PlainOps
<1>4. /\ pc' \in KeyOps \cup LookupOps => addr' \in Address
      /\ pc' \in KeyOps => fullHops' \in Nat
  <2>1. ASSUME pc' \in KeyOps PROVE addr' \in Address /\ fullHops' \in Nat
    <3>1. req'.prefix \in IpPrefix
      BY <1>3, <2>1, NetsAssumption
    <3>2. key' \in IpPrefix /\ addr' = key'.ip
      BY <1>2, <1>3, <2>1, <3>1, MaskedType DEF key, addr
    <3>3. key'.mask \in Nat /\ key'.ip \in Address
      BY <3>2, BitsType DEF IpPrefix
    <3>. QED BY <3>2, <3>3, BitsType DEF fullHops
  <2>2. ASSUME pc' \in LookupOps PROVE addr' \in Address
    BY <1>2, <1>3, <2>2, AddrsAssumption DEF addr
  <2>. QED BY <2>1, <2>2
<1>5. TypeOK'
  <2>1. ReplySet(req'.op) \cup {None} = ReplySet(req'.op) \cup {reply'}
    BY <1>1, <1>2
  <2>. QED BY <1>2, <1>3, <2>1 DEF IInv, TypeOK
<1>6. Root \in DOMAIN heap
  BY DEF IInv, TreeInv, Anchored
<1>7. Control'
  <2>1. pc' \notin {"idle", "unwind", "return"}
    BY <1>3 DEF Ops, PrefixOps, LookupOps, PlainOps
  <2>2. Walking' => pc' \in KeyOps \cup LookupOps
    BY <2>1 DEF Walking
  <2>3. Walking' => node' = Path(addr', hop') /\ node' \in DOMAIN heap'
    BY <1>1, <1>2, <1>4, <1>6, <2>2, PathRoot
  <2>4. pc' \in KeyOps \cup {"unwind"} => hop' <= fullHops'
    BY <1>1, <1>2, <1>4, <2>1
  <2>5. IF pc' \in {"remove", "unwind"} THEN Len(stack') = hop' ELSE stack' = <<>>
    BY <1>1, <1>2
  <2>. QED BY <1>1, <1>2, <2>1, <2>3, <2>4, <2>5 DEF Control
<1>8. TreeInv' /\ Keys' = Keys
  BY <1>2, TreeUnchanged DEF IInv
<1>9. FramesValid'
  BY <1>1, <1>2 DEF FramesValid
<1>10. NoDeadNodes'
  BY <1>1, <1>2 DEF IInv, NoDeadNodes
<1>11. CountExact'
  BY <1>1, <1>2, <1>8 DEF IInv, CountExact
<1>. QED
  BY <1>5, <1>7, <1>8, <1>9, <1>10, <1>11 DEF IInv

(* The steps that follow a link: the walk moves on and nothing else.       *)
LEMMA DescendInv ==
  ASSUME IInv, Walking, pc # "unwind", hop < Strides, pc \in KeyOps => hop < fullHops,
         nib \in here.external, Descend,
         UNCHANGED <<heap, count, pc, req, reply, prune>>,
         best' \in Best \cup {None},
         stack' = IF pc = "remove"
                  THEN Append(stack, [node |-> node, nib |-> nib, idx |-> childIdx])
                  ELSE stack
  PROVE  IInv'
<1> DEFINE frame == [node |-> node, nib |-> nib, idx |-> childIdx]
<1>1. TypeOK /\ Control /\ TreeInv
  BY DEF IInv
<1>2. /\ node' = Path(addr, hop + 1) /\ hop' = hop + 1
      /\ node' \in DOMAIN heap /\ node' \in IpPrefix /\ hop' \in 0..Strides
  BY <1>1, DescendFacts DEF Descend
<1>3. TreeInv' /\ Keys' = Keys
  BY <1>1, TreeUnchanged
<1>4. /\ addr' = addr /\ fullHops' = fullHops
  BY OperandsUnchanged
<1>5. /\ addr \in Address /\ node = Path(addr, hop) /\ node \in IpPrefix
      /\ node \in DOMAIN heap /\ hop \in 0..Strides
      /\ nib \in Nibble /\ here.external \in Bitmap
  BY <1>1, WalkFacts
<1>6. /\ frame \in Frame
      /\ frame.node = node /\ frame.nib = nib /\ frame.idx = childIdx
      /\ stack' = IF pc = "remove" THEN Append(stack, frame) ELSE stack
  <2>1. childIdx \in Nat /\ childIdx <= 15
    BY ONLY nib \in here.external, <1>5, RankInBounds DEF childIdx
  <2>2. childIdx \in 0..15
    BY ONLY <2>1
  <2>. QED BY <1>5, <2>2 DEF Frame
<1> HIDE DEF frame
<1>7. TypeOK'
  <2>1. stack' \in Seq(Frame)
    BY <1>1, <1>6, AppendProperties DEF TypeOK
  <2>. QED BY <1>1, <1>2, <2>1 DEF TypeOK
<1>8. pc \in Ops /\ pc # "idle" /\ pc # "return" /\ pc # "unwind" /\ prune = FALSE
  BY <1>1 DEF Walking, KeyOps, PrefixOps, LookupOps, Ops, Control, TypeOK
<1>9. Control'
  <2>1. IF pc' \in {"remove", "unwind"} THEN Len(stack') = hop' ELSE stack' = <<>>
    BY <1>1, <1>2, <1>6, <1>8, AppendProperties DEF Control, TypeOK
  <2>2. pc' \in KeyOps \cup {"unwind"} => hop' <= fullHops'
    <3>1. pc \in KeyOps => fullHops \in 0..Strides
      BY <1>1, RequestFacts DEF Control, KeyOps, PrefixOps, Ops
    <3>. QED BY <1>2, <1>4, <1>5, <1>8, <3>1
  <2>. QED BY <1>1, <1>2, <1>4, <1>8, <2>1, <2>2 DEF Control
<1>10. FramesValid'
  <2>1. CASE pc = "remove"
    <3>1. Len(stack) = hop /\ stack \in Seq(Frame)
      BY <1>1, <2>1 DEF Control, TypeOK
    <3>2. DOMAIN stack' = 1..(hop + 1)
      BY <1>5, <1>6, <2>1, <3>1, AppendProperties, LenProperties
    <3>3. \A i \in 1..hop : stack'[i] = stack[i] /\ i \in DOMAIN stack
      BY <1>5, <1>6, <2>1, <3>1, AppendProperties, LenProperties
    <3>4. stack'[hop + 1] = frame
      BY <1>6, <2>1, <3>1, AppendProperties
    <3>5. (hop + 1) - 1 = hop
      BY <1>5
    <3>6. ASSUME NEW i \in 1..hop
          PROVE  /\ stack'[i].node = Path(addr', i - 1)
                 /\ stack'[i].nib = nibble(addr', i - 1)
                 /\ stack'[i].nib \in heap'[stack'[i].node].external
                 /\ stack'[i].idx = rank(heap'[stack'[i].node].external, stack'[i].nib)
      BY <1>4, <3>3 DEF IInv, FramesValid
    <3>7. /\ stack'[hop + 1].node = Path(addr', (hop + 1) - 1)
          /\ stack'[hop + 1].nib = nibble(addr', (hop + 1) - 1)
          /\ stack'[hop + 1].nib \in heap'[stack'[hop + 1].node].external
          /\ stack'[hop + 1].idx = rank(heap'[stack'[hop + 1].node].external, stack'[hop + 1].nib)
      <4>1. frame.node = Path(addr', hop) /\ frame.nib = nibble(addr', hop)
        BY <1>4, <1>5, <1>6 DEF nib
      <4>2. frame.nib \in heap'[frame.node].external /\ frame.idx = rank(heap'[frame.node].external, frame.nib)
        BY <1>6 DEF here, childIdx
      <4>. QED BY <3>4, <3>5, <4>1, <4>2
    <3>8. \A i \in 1..(hop + 1) : i \in 1..hop \/ i = hop + 1
      BY <1>5
    <3>. QED BY <3>2, <3>6, <3>7, <3>8 DEF FramesValid
  <2>2. CASE pc # "remove"
    BY <1>1, <1>8, <2>2 DEF FramesValid, Control
  <2>. QED BY <2>1, <2>2
<1>11. NoDeadNodes'
  <2>1. \A r \in DOMAIN heap \ {Root} : heap[r].internal \cup heap[r].external # {}
    BY <1>8 DEF IInv, NoDeadNodes, here
  <2>. QED BY <2>1 DEF NoDeadNodes
<1>12. CountExact'
  BY <1>3 DEF IInv, CountExact
<1>. QED
  BY <1>3, <1>7, <1>9, <1>10, <1>11, <1>12 DEF IInv

(* The steps that answer without touching the tree.                        *)
LEMMA AnswerInv ==
  ASSUME IInv, pc \in Ops \ {"insert", "remove"}, NEW answer \in ReplySet(req.op),
         Finish(answer), UNCHANGED <<heap, count, req, locals>>
  PROVE  IInv'
<1>1. TypeOK /\ Control /\ TreeInv
  BY DEF IInv
<1>2. TreeInv' /\ Keys' = Keys
  BY <1>1, TreeUnchanged
<1>3. pc' = "return" /\ reply' = answer
  BY DEF Finish
<1>4. pc # "unwind" /\ stack = <<>> /\ req \in Request
  BY <1>1 DEF Control, Ops, PrefixOps, LookupOps, PlainOps
<1>5. TypeOK'
  BY <1>1, <1>3 DEF TypeOK, locals
<1>6. Control'
  BY <1>3, <1>4 DEF Control, Walking, KeyOps, Ops, PrefixOps, LookupOps, PlainOps, locals
<1>7. FramesValid'
  BY <1>4 DEF FramesValid, locals
<1>8. NoDeadNodes'
  BY <1>4 DEF IInv, NoDeadNodes, locals
<1>9. CountExact'
  BY <1>2, <1>3, <1>4 DEF IInv, CountExact
<1>. QED
  BY <1>2, <1>5, <1>6, <1>7, <1>8, <1>9 DEF IInv
------------------------------------------------------------------------------
(* Steps that change the entries of one node.                              *)
LEMMA NodeRewritten ==
  ASSUME TypeOK, TreeInv, NEW r \in DOMAIN heap, NEW n \in TbNode,
         n.external = heap[r].external, n.children = heap[r].children,
         \A b \in n.internal : Slot(r, b),
         Len(n.values) >= Cardinality(n.internal),
         Len(n.values) > Cardinality(n.internal) => r = Root /\ DropMayPanic,
         DOMAIN heap' = DOMAIN heap,
         \A s \in DOMAIN heap : heap'[s] = IF s = r THEN n ELSE heap[s]
  PROVE  /\ \A s \in DOMAIN heap' : heap'[s] \in TbNode
         /\ \A s \in DOMAIN heap' : heap'[s].external = heap[s].external
         /\ WellLinked' /\ ValuesBacked' /\ Anchored'
<1>1. \A s \in DOMAIN heap' : /\ heap'[s].external = heap[s].external
                              /\ heap'[s].children = heap[s].children
                              /\ s # r => heap'[s] = heap[s]
  OBVIOUS
<1>2. \A s \in DOMAIN heap' : heap'[s] \in TbNode
  BY DEF TypeOK
<1>3. WellLinked'
  BY <1>1 DEF TreeInv, WellLinked
<1>4. ValuesBacked'
  BY <1>1 DEF TreeInv, ValuesBacked
<1>5. Anchored'
  <2>1. r.mask = 4 * (r.mask \div 4)
    BY NodeFacts
  <2>2. r.mask \div STRIDE = Strides => n.internal \subseteq {1}
    BY <2>1, BitsType DEF Slot
  <2>3. Root \in DOMAIN heap'
    BY DEF TreeInv, Anchored
  <2>4. ASSUME NEW s \in DOMAIN heap'
        PROVE  LET depth == s.mask \div STRIDE
               IN  /\ s = Path(s.ip, depth)
                   /\ \A h \in 0..(depth - 1) :
                        /\ Path(s.ip, h) \in DOMAIN heap'
                        /\ nibble(s.ip, h) \in heap'[Path(s.ip, h)].external
                   /\ depth = Strides => heap'[s].external = {} /\ heap'[s].internal \subseteq {1}
    BY <1>1, <2>2 DEF TreeInv, Anchored
  <2>. QED BY <2>3, <2>4 DEF Anchored
<1>. QED
  BY <1>1, <1>2, <1>3, <1>4, <1>5

(* A prefix is in the table exactly if its bit is set in its node.         *)
LEMMA KeyOfSlot ==
  ASSUME TypeOK, TreeInv, NEW r \in DOMAIN heap, NEW b, Slot(r, b)
  PROVE  Entry(r, b) \in Keys <=> b \in heap[r].internal
<1>1. r \in IpPrefix /\ NodeRef(r)
  BY NodeFacts
<1>2. ASSUME NEW s \in DOMAIN heap, NEW c \in heap[s].internal, Entry(s, c) = Entry(r, b)
      PROVE  s = r /\ c = b
  <2>1. s \in IpPrefix /\ NodeRef(s) /\ Slot(s, c)
    BY NodeFacts
  <2>. QED BY <1>1, <1>2, <2>1, EntryInjective
<1>. QED
  BY <1>2 DEF Keys

(* An entry is a set bit of a live node.                                   *)
LEMMA KeyMembers ==
  /\ \A k : k \in Keys <=> \E r \in DOMAIN heap : \E b \in heap[r].internal : k = Entry(r, b)
  /\ \A k : k \in Keys' <=> \E r \in DOMAIN heap' : \E b \in heap'[r].internal : k = Entry(r, b)
BY DEF Keys

(* Setting one new bit adds exactly one entry.                             *)
LEMMA KeyAdded ==
  ASSUME TypeOK, TreeInv, NEW r \in DOMAIN heap, NEW b, Slot(r, b),
         b \notin heap[r].internal,
         DOMAIN heap' = DOMAIN heap,
         \A s \in DOMAIN heap :
           heap'[s].internal = IF s = r THEN heap[s].internal \cup {b} ELSE heap[s].internal
  PROVE  /\ Keys' = Keys \cup {Entry(r, b)}
         /\ IsFiniteSet(Keys')
         /\ Cardinality(Keys') = Cardinality(Keys) + 1
<1>1. Keys' = Keys \cup {Entry(r, b)}
  <2>1. ASSUME NEW k, k \in Keys' PROVE k \in Keys \cup {Entry(r, b)}
    <3>1. PICK s \in DOMAIN heap : \E c \in heap'[s].internal : k = Entry(s, c)
      BY <2>1, KeyMembers
    <3>2. PICK c \in heap'[s].internal : k = Entry(s, c)
      BY <3>1
    <3>3. c \in heap[s].internal \/ (s = r /\ c = b)
      BY <3>2
    <3>. QED BY <3>2, <3>3, KeyMembers
  <2>2. ASSUME NEW k, k \in Keys PROVE k \in Keys'
    <3>1. PICK s \in DOMAIN heap : \E c \in heap[s].internal : k = Entry(s, c)
      BY <2>2, KeyMembers
    <3>2. PICK c \in heap[s].internal : k = Entry(s, c)
      BY <3>1
    <3>3. s \in DOMAIN heap' /\ c \in heap'[s].internal
      BY <3>2
    <3>. QED BY <3>2, <3>3, KeyMembers
  <2>3. Entry(r, b) \in Keys'
    <3>1. r \in DOMAIN heap' /\ b \in heap'[r].internal
      OBVIOUS
    <3>. QED BY <3>1, KeyMembers
  <2>. QED BY <2>1, <2>2, <2>3
<1>2. Entry(r, b) \notin Keys
  BY KeyOfSlot
<1>. QED
  BY <1>1, <1>2, FS_AddElement DEF TreeInv

(* Clearing one set bit removes exactly one entry.                         *)
LEMMA KeyRemoved ==
  ASSUME TypeOK, TreeInv, NEW r \in DOMAIN heap, NEW b \in heap[r].internal,
         DOMAIN heap' = DOMAIN heap,
         \A s \in DOMAIN heap :
           heap'[s].internal = IF s = r THEN heap[s].internal \ {b} ELSE heap[s].internal
  PROVE  /\ Keys' = Keys \ {Entry(r, b)}
         /\ IsFiniteSet(Keys')
         /\ Cardinality(Keys') = Cardinality(Keys) - 1
<1>1. Slot(r, b) /\ r \in IpPrefix /\ NodeRef(r) /\ Entry(r, b) \in Keys
  BY NodeFacts DEF Keys
<1>2. Keys' = Keys \ {Entry(r, b)}
  <2>1. ASSUME NEW k, k \in Keys' PROVE k \in Keys \ {Entry(r, b)}
    <3>0. PICK s \in DOMAIN heap : \E c \in heap'[s].internal : k = Entry(s, c)
      BY <2>1, KeyMembers
    <3>1. PICK c \in heap'[s].internal : k = Entry(s, c)
      BY <3>0
    <3>2. c \in heap[s].internal /\ (s = r => c # b)
      BY <3>1
    <3>3. s \in IpPrefix /\ NodeRef(s) /\ Slot(s, c)
      BY <3>2, NodeFacts
    <3>4. k # Entry(r, b)
      BY <1>1, <3>1, <3>2, <3>3, EntryInjective
    <3>. QED BY <3>1, <3>2, <3>4, KeyMembers
  <2>2. ASSUME NEW k, k \in Keys, k # Entry(r, b) PROVE k \in Keys'
    <3>0. PICK s \in DOMAIN heap : \E c \in heap[s].internal : k = Entry(s, c)
      BY <2>2, KeyMembers
    <3>1. PICK c \in heap[s].internal : k = Entry(s, c)
      BY <3>0
    <3>2. c \in heap'[s].internal
      BY <2>2, <3>1
    <3>. QED BY <3>1, <3>2, KeyMembers
  <2>. QED BY <2>1, <2>2
<1>. QED
  BY <1>1, <1>2, FS_RemoveElement DEF TreeInv

(* The nodes a walk has come through are live and still link to its path.  *)
LEMMA AncestorFacts ==
  ASSUME TypeOK, Control, TreeInv, Walking, NEW h \in 0..(hop - 1)
  PROVE  /\ Path(addr, h) \in DOMAIN heap
         /\ nibble(addr, h) \in heap[Path(addr, h)].external
<1>1. /\ addr \in Address /\ node = Path(addr, hop) /\ node \in DOMAIN heap
      /\ node.mask = 4 * hop /\ hop \in 0..Strides
  BY WalkFacts
<1>2. node.mask \div STRIDE = hop
  BY <1>1, BitsType
<1>3. /\ Path(node.ip, h) \in DOMAIN heap
      /\ nibble(node.ip, h) \in heap[Path(node.ip, h)].external
  BY <1>1, <1>2 DEF TreeInv, Anchored
<1>4. Path(node.ip, h) = Path(addr, h) /\ nibble(node.ip, h) = nibble(addr, h)
  BY <1>1, PathOfPath, BitsType
<1>. QED
  BY <1>3, <1>4

(* Overwriting a value in its slot leaves the shape of the tree alone.     *)
LEMMA InsertReplaceInv ==
  ASSUME IInv, InsertReplace
  PROVE  IInv'
<1> DEFINE vals == [here.values EXCEPT ![valueIdx + 1] = req.value]
           n == [here EXCEPT !.values = vals]
<1>1. TypeOK /\ Control /\ TreeInv /\ pc = "insert" /\ hop = fullHops /\ bpos \in here.internal
  BY DEF IInv, InsertReplace
<1>2. /\ pc \in KeyOps /\ Walking /\ req \in Request /\ req.op = "insert"
      /\ stack = <<>> /\ prune = FALSE
  BY <1>1 DEF Walking, KeyOps, Ops, Control, TypeOK
<1>3. /\ node \in DOMAIN heap /\ here \in TbNode /\ here = heap[node]
      /\ valueIdx + 1 \in 1..Len(here.values) /\ req.value \in Value
  BY <1>1, <1>2, WalkFacts, TargetFacts, RequestFacts DEF here
<1>4. vals \in Seq(Value) /\ Len(vals) = Len(here.values)
  <2>1. here.values \in Seq(Value)
    BY <1>3 DEF TbNode
  <2>. QED BY <1>3, <2>1, ExceptSeq
<1>5. heap' = [heap EXCEPT ![node] = n]
  BY <1>3 DEF InsertReplace
<1> HIDE DEF vals
<1>6. /\ n \in TbNode
      /\ n.internal = here.internal /\ n.external = here.external
      /\ n.children = here.children /\ n.values = vals
  BY <1>3, <1>4 DEF TbNode
<1> HIDE DEF n
<1>7. /\ DOMAIN heap' = DOMAIN heap
      /\ \A s \in DOMAIN heap : heap'[s] = IF s = node THEN n ELSE heap[s]
  BY <1>3, <1>5
<1>8. /\ \A s \in DOMAIN heap' : heap'[s] \in TbNode
      /\ WellLinked' /\ ValuesBacked' /\ Anchored'
  <2>1. \A b \in n.internal : Slot(node, b)
    BY <1>1, <1>3, <1>6, NodeFacts
  <2>2. /\ Len(n.values) >= Cardinality(n.internal)
        /\ Len(n.values) > Cardinality(n.internal) => node = Root /\ DropMayPanic
    BY <1>1, <1>3, <1>4, <1>6 DEF TreeInv, ValuesBacked
  <2>3. n.external = heap[node].external /\ n.children = heap[node].children
    BY <1>3, <1>6
  <2>. QED BY <1>1, <1>3, <1>6, <1>7, <2>1, <2>2, <2>3, NodeRewritten
<1>9. Keys' = Keys
  <2>1. \A s \in DOMAIN heap : heap'[s].internal = heap[s].internal
    BY <1>3, <1>6, <1>7
  <2>. QED BY <1>7, <2>1 DEF Keys
<1>10. pc' = "return" /\ reply' \in Done /\ count' = count /\ req' = req
  BY DEF InsertReplace, Finish
<1>11. TypeOK'
  BY <1>1, <1>2, <1>7, <1>8, <1>10 DEF TypeOK, InsertReplace, locals, ReplySet
<1>12. Control'
  BY <1>2, <1>10 DEF Control, Walking, KeyOps, Ops, PrefixOps, LookupOps, PlainOps, InsertReplace, locals
<1>13. FramesValid'
  BY <1>2 DEF FramesValid, InsertReplace, locals
<1>14. NoDeadNodes'
  <2>1. \A s \in DOMAIN heap : heap'[s].internal \cup heap'[s].external
                               = heap[s].internal \cup heap[s].external
    BY <1>3, <1>6, <1>7
  <2>2. \A s \in DOMAIN heap \ {Root} : heap[s].internal \cup heap[s].external # {}
    BY <1>1, <1>3 DEF IInv, NoDeadNodes
  <2>. QED BY <1>7, <2>1, <2>2 DEF NoDeadNodes
<1>15. CountExact'
  BY <1>1, <1>9, <1>10 DEF IInv, CountExact
<1>. QED
  BY <1>1, <1>8, <1>9, <1>11, <1>12, <1>13, <1>14, <1>15 DEF IInv, TreeInv

(* A new value goes in at the rank of its bit, and the count follows.      *)
LEMMA InsertNewInv ==
  ASSUME IInv, InsertNew
  PROVE  IInv'
<1> DEFINE vals == VecInsert(here.values, valueIdx, req.value)
           bits == here.internal \cup {bpos}
           n == [here EXCEPT !.values = vals, !.internal = bits]
<1>1. TypeOK /\ Control /\ TreeInv /\ pc = "insert" /\ hop = fullHops /\ bpos \notin here.internal
  BY DEF IInv, InsertNew
<1>2. /\ pc \in KeyOps /\ Walking /\ req \in Request /\ req.op = "insert"
      /\ stack = <<>> /\ prune = FALSE
  BY <1>1 DEF Walking, KeyOps, Ops, Control, TypeOK
<1>3. /\ node \in DOMAIN heap /\ here \in TbNode /\ here = heap[node] /\ here.internal \in Bitmap
      /\ bpos \in 1..15 /\ Slot(node, bpos) /\ req.value \in Value
  BY <1>1, <1>2, WalkFacts, TargetFacts, RequestFacts DEF here
<1>4. /\ vals \in Seq(Value) /\ Len(vals) = Len(here.values) + 1
      /\ Cardinality(bits) = Cardinality(here.internal) + 1
      /\ Len(here.values) \in Nat /\ Cardinality(here.internal) \in Nat
  <2>1. here.values \in Seq(Value) /\ Len(here.values) >= Cardinality(here.internal)
    BY <1>1, <1>3 DEF TbNode, TreeInv, ValuesBacked
  <2>2. bpos \in Nibble
    BY <1>3 DEF Nibble
  <2>3. vals = VecInsert(here.values, rank(here.internal, bpos), req.value)
    BY DEF valueIdx
  <2>4. Len(here.values) \in Nat /\ Cardinality(here.internal) \in Nat
    BY <1>3, <2>1, BitmapFinite
  <2>5. bits = here.internal \cup {bpos}
    OBVIOUS
  <2>6. here.internal \in Bitmap /\ bpos \notin here.internal /\ req.value \in Value
    BY <1>1, <1>3
  <2> HIDE DEF vals, bits
  <2>7. vals \in Seq(Value) /\ Len(vals) = Len(here.values) + 1
    <3>1. rank(here.internal, bpos) \in Nat /\ rank(here.internal, bpos) <= Len(here.values)
      <4>1. bpos \in Int
        BY ONLY <1>3
      <4>2. rank(here.internal, bpos) \in Nat /\ rank(here.internal, bpos) <= Cardinality(here.internal)
        BY ONLY <2>6, <4>1, RankType
      <4>. QED BY ONLY <2>1, <2>4, <4>2
    <3>. QED BY ONLY <2>1, <2>3, <2>6, <3>1, VecInsertType
  <2>8. Cardinality(bits) = Cardinality(here.internal) + 1
    BY <1>3, <2>5, <2>6, BitmapFinite, FS_AddElement
  <2>. QED BY <2>4, <2>7, <2>8
<1>5. heap' = WithNode(heap, node, n)
  BY DEF InsertNew
<1> HIDE DEF vals
<1>6. /\ n \in TbNode
      /\ n.internal = here.internal \cup {bpos} /\ n.external = here.external
      /\ n.children = here.children /\ n.values = vals
  BY <1>3, <1>4 DEF TbNode
<1> HIDE DEF n
<1>7. /\ DOMAIN heap' = DOMAIN heap
      /\ \A s \in DOMAIN heap : heap'[s] = IF s = node THEN n ELSE heap[s]
  BY <1>3, <1>5 DEF WithNode
<1>8. /\ \A s \in DOMAIN heap' : heap'[s] \in TbNode
      /\ WellLinked' /\ ValuesBacked' /\ Anchored'
  <2>1. \A b \in n.internal : Slot(node, b)
    BY <1>1, <1>3, <1>6, NodeFacts
  <2>2. /\ Len(n.values) >= Cardinality(n.internal)
        /\ Len(n.values) > Cardinality(n.internal) => node = Root /\ DropMayPanic
    BY <1>1, <1>3, <1>4, <1>6 DEF TreeInv, ValuesBacked
  <2>3. n.external = heap[node].external /\ n.children = heap[node].children
    BY <1>3, <1>6
  <2>. QED BY <1>1, <1>3, <1>6, <1>7, <2>1, <2>2, <2>3, NodeRewritten
<1>9. IsFiniteSet(Keys') /\ Cardinality(Keys') = Cardinality(Keys) + 1
  <2>1. \A s \in DOMAIN heap :
          heap'[s].internal = IF s = node THEN heap[s].internal \cup {bpos} ELSE heap[s].internal
    BY <1>3, <1>6, <1>7
  <2>. QED BY <1>1, <1>3, <1>7, <2>1, KeyAdded
<1>10. pc' = "return" /\ reply' \in Done /\ count' = count + 1 /\ req' = req
  BY DEF InsertNew, Finish, Done
<1>11. TypeOK'
  BY <1>1, <1>2, <1>7, <1>8, <1>10 DEF TypeOK, InsertNew, locals, ReplySet
<1>12. Control'
  BY <1>2, <1>10 DEF Control, Walking, KeyOps, Ops, PrefixOps, LookupOps, PlainOps, InsertNew, locals
<1>13. FramesValid'
  BY <1>2 DEF FramesValid, InsertNew, locals
<1>14. NoDeadNodes'
  <2>1. n.internal # {}
    BY <1>6
  <2>2. \A s \in DOMAIN heap \ {Root, node} : heap[s].internal \cup heap[s].external # {}
    BY <1>1, <1>3 DEF IInv, NoDeadNodes
  <2>. QED BY <1>7, <2>1, <2>2 DEF NoDeadNodes
<1>15. CountExact'
  <2>0. Cardinality(Keys) \in Nat
    BY <1>1, FS_CardinalityType DEF TreeInv
  <2>1. count = Cardinality(Keys) /\ count \in Nat
    BY <1>1, <2>0 DEF IInv, CountExact
  <2>. QED BY <1>9, <1>10, <2>1 DEF CountExact
<1>. QED
  BY <1>1, <1>8, <1>9, <1>11, <1>12, <1>13, <1>14, <1>15 DEF IInv, TreeInv

(* The value leaves with its bit; the count is one ahead from here on.     *)
LEMMA RemoveTargetInv ==
  ASSUME IInv, RemoveTarget
  PROVE  IInv'
<1> DEFINE vals == VecRemove(here.values, valueIdx)
           bits == here.internal \ {bpos}
           n == [here EXCEPT !.values = vals, !.internal = bits]
<1>1. TypeOK /\ Control /\ TreeInv /\ pc = "remove" /\ hop = fullHops /\ bpos \in here.internal
  BY DEF IInv, RemoveTarget
<1>2. /\ pc \in KeyOps /\ Walking /\ req \in Request /\ req.op = "remove"
      /\ Len(stack) = hop /\ stack \in Seq(Frame) /\ reply = None
  BY <1>1 DEF Walking, KeyOps, PrefixOps, Ops, Control, TypeOK
<1>3. /\ node \in DOMAIN heap /\ here \in TbNode /\ here = heap[node] /\ here.internal \in Bitmap
      /\ bpos \in 1..15 /\ Slot(node, bpos) /\ At(here.values, valueIdx) \in Value
      /\ node = Path(addr, hop)
  BY <1>1, <1>2, WalkFacts, TargetFacts DEF here
<1>4. /\ vals \in Seq(Value) /\ Len(vals) = Len(here.values) - 1
      /\ Cardinality(bits) = Cardinality(here.internal) - 1
      /\ Len(here.values) \in Nat /\ Cardinality(here.internal) \in Nat
  <2>1. here.values \in Seq(Value) /\ Len(here.values) >= Cardinality(here.internal)
    BY <1>1, <1>3 DEF TbNode, TreeInv, ValuesBacked
  <2>2. vals = VecRemove(here.values, rank(here.internal, bpos))
    BY DEF valueIdx
  <2>3. Len(here.values) \in Nat /\ Cardinality(here.internal) \in Nat
    BY <1>3, <2>1, BitmapFinite
  <2>4. bits = here.internal \ {bpos}
    OBVIOUS
  <2>5. here.internal \in Bitmap /\ bpos \in here.internal
    BY <1>1, <1>3
  <2> HIDE DEF vals, bits
  <2>6. vals \in Seq(Value) /\ Len(vals) = Len(here.values) - 1
    <3>1. /\ rank(here.internal, bpos) \in Nat
          /\ rank(here.internal, bpos) < Len(here.values)
      BY <2>1, <2>3, <2>5, RankInBounds
    <3>. QED BY ONLY <2>1, <2>2, <3>1, VecRemoveType
  <2>7. Cardinality(bits) = Cardinality(here.internal) - 1
    BY <2>4, <2>5, BitmapFinite, FS_RemoveElement
  <2>. QED BY <2>3, <2>6, <2>7
<1>5. heap' = [heap EXCEPT ![node] = n] /\ prune' = IsDead(n)
  BY DEF RemoveTarget
<1> HIDE DEF vals
<1>6. /\ n \in TbNode
      /\ n.internal = here.internal \ {bpos} /\ n.external = here.external
      /\ n.children = here.children /\ n.values = vals
  BY <1>3, <1>4 DEF TbNode
<1> HIDE DEF n
<1>7. /\ DOMAIN heap' = DOMAIN heap
      /\ \A s \in DOMAIN heap : heap'[s] = IF s = node THEN n ELSE heap[s]
  BY <1>3, <1>5
<1>8. /\ \A s \in DOMAIN heap' : heap'[s] \in TbNode
      /\ \A s \in DOMAIN heap' : heap'[s].external = heap[s].external
      /\ WellLinked' /\ ValuesBacked' /\ Anchored'
  <2>1. \A b \in n.internal : Slot(node, b)
    BY <1>1, <1>3, <1>6, NodeFacts
  <2>2. /\ Len(n.values) >= Cardinality(n.internal)
        /\ Len(n.values) > Cardinality(n.internal) => node = Root /\ DropMayPanic
    BY <1>1, <1>3, <1>4, <1>6 DEF TreeInv, ValuesBacked
  <2>3. n.external = heap[node].external /\ n.children = heap[node].children
    BY <1>3, <1>6
  <2>. QED BY <1>1, <1>3, <1>6, <1>7, <2>1, <2>2, <2>3, NodeRewritten
<1>9. IsFiniteSet(Keys') /\ Cardinality(Keys') = Cardinality(Keys) - 1
  <2>1. \A s \in DOMAIN heap :
          heap'[s].internal = IF s = node THEN heap[s].internal \ {bpos} ELSE heap[s].internal
    BY <1>3, <1>6, <1>7
  <2>. QED BY <1>1, <1>3, <1>7, <2>1, KeyRemoved
<1>10. /\ pc' = "unwind" /\ reply' \in Value /\ count' = count /\ req' = req
       /\ node' = node /\ hop' = hop /\ best' = best /\ stack' = stack
  BY <1>3 DEF RemoveTarget
<1>11. TypeOK'
  <2>1. prune' \in BOOLEAN
    BY <1>5 DEF IsDead
  <2>2. reply' \in ReplySet(req'.op) \cup {None}
    BY <1>2, <1>10 DEF ReplySet
  <2>. QED BY <1>1, <1>7, <1>8, <1>10, <2>1, <2>2 DEF TypeOK
<1>12. addr' = addr /\ fullHops' = fullHops
  BY <1>10, OperandsUnchanged
<1>13. Control'
  <2>1. prune' => IsDead(here')
    BY <1>3, <1>5, <1>7, <1>10 DEF here
  <2>2. hop' <= fullHops'
    BY <1>1, <1>10, <1>12 DEF TypeOK
  <2>. QED BY <1>2, <1>3, <1>7, <1>10, <1>12, <2>1, <2>2
           DEF Control, Ops, PrefixOps, LookupOps, PlainOps
<1>14. FramesValid'
  <2>1. ASSUME NEW i \in DOMAIN stack PROVE stack[i].node \in DOMAIN heap
    <3>1. i \in 1..hop /\ i - 1 \in 0..(hop - 1)
      BY <1>1, <1>2, LenProperties DEF TypeOK
    <3>2. stack[i].node = Path(addr, i - 1)
      BY DEF IInv, FramesValid
    <3>. QED BY <1>1, <1>2, <3>1, <3>2, AncestorFacts
  <2>. QED BY <1>7, <1>8, <1>10, <1>12, <2>1 DEF IInv, FramesValid
<1>15. NoDeadNodes'
  <2>1. \A s \in DOMAIN heap \ {Root} : heap[s].internal \cup heap[s].external # {}
    BY <1>1 DEF IInv, NoDeadNodes
  <2>2. n.internal \cup n.external = {} => prune'
    BY <1>5 DEF IsDead
  <2>. QED BY <1>7, <1>10, <2>1, <2>2 DEF NoDeadNodes
<1>16. CountExact'
  <2>1. reply' # None
    BY <1>10, NoneAssumption
  <2>2. Cardinality(Keys) \in Nat
    BY <1>1, FS_CardinalityType DEF TreeInv
  <2>. QED BY <1>1, <1>9, <1>10, <2>1, <2>2 DEF IInv, CountExact
<1>. QED
  BY <1>8, <1>9, <1>11, <1>13, <1>14, <1>15, <1>16 DEF IInv, TreeInv
------------------------------------------------------------------------------
(* Steps that change the shape of the tree.                                *)

(* A missing child is linked at its rank: every other link keeps its slot, *)
(* and the new node's ancestors are those of the walk.                     *)
LEMMA InsertGrowInv ==
  ASSUME IInv, InsertGrow
  PROVE  IInv'
<1> DEFINE new   == Child(node, nib)
           kids  == VecInsert(here.children, childIdx, new)
           ext   == here.external \cup {nib}
           grown == [here EXCEPT !.children = kids, !.external = ext]
<1>1. TypeOK /\ Control /\ TreeInv /\ pc = "insert" /\ hop < fullHops /\ nib \notin here.external
  BY DEF IInv, InsertGrow
<1>2. /\ pc \in KeyOps /\ Walking /\ req \in Request /\ req.op = "insert"
      /\ stack = <<>> /\ prune = FALSE
  BY <1>1 DEF Walking, KeyOps, Ops, Control, TypeOK
<1>3. fullHops \in 0..Strides
  BY <1>2, RequestFacts DEF KeyOps
<1>4. /\ addr \in Address /\ node = Path(addr, hop) /\ node \in DOMAIN heap /\ node \in IpPrefix
      /\ node.mask = 4 * hop /\ hop \in 0..(Strides - 1) /\ hop + 1 \in 0..Strides
      /\ here \in TbNode /\ here = heap[node] /\ here.external \in Bitmap /\ nib \in Nibble
  BY <1>1, <1>2, <1>3, WalkFacts, BitsType DEF here
<1>5. new = Path(addr, hop + 1)
  BY <1>4, ChildOnPath DEF nib
<1>6. /\ new \in IpPrefix /\ new.mask = 4 * (hop + 1) /\ new # node
      /\ new.mask \div STRIDE = hop + 1
  BY <1>4, <1>5, PathType, BitsType
<1>7. /\ \A h \in 0..(hop + 1) : Path(new.ip, h) = Path(addr, h)
      /\ \A h \in 0..hop : nibble(new.ip, h) = nibble(addr, h)
  BY <1>4, <1>5, PathOfPath
<1>8. new \notin DOMAIN heap
  <2>1. hop \in 0..((hop + 1) - 1)
    BY <1>4
  <2>2. ASSUME new \in DOMAIN heap
        PROVE  nibble(new.ip, hop) \in heap[Path(new.ip, hop)].external
    BY <1>1, <1>6, <2>1, <2>2 DEF TreeInv, Anchored
  <2>. QED BY <1>1, <1>4, <1>7, <2>2 DEF nib
<1>9. /\ kids \in Seq(IpPrefix) /\ Len(kids) = Len(here.children) + 1
      /\ Cardinality(ext) = Cardinality(here.external) + 1
      /\ At(kids, childIdx) = new
      /\ At(kids, rank(ext, nib)) = new
      /\ \A n \in here.external : At(kids, rank(ext, n)) = At(here.children, rank(here.external, n))
  <2>1. here.children \in Seq(IpPrefix) /\ Len(here.children) = Cardinality(here.external)
    BY <1>1, <1>4 DEF TbNode, TreeInv, WellLinked
  <2>2. Cardinality(here.external) \in Nat
    BY <1>4, BitmapFinite
  <2>3. Len(here.children) >= Cardinality(here.external)
    BY <2>1, <2>2
  <2>4. ext = here.external \cup {nib} /\ childIdx = rank(here.external, nib)
    BY DEF childIdx
  <2>5. kids = VecInsert(here.children, rank(here.external, nib), new)
    BY DEF childIdx
  <2>6. here.external \in Bitmap /\ nib \in Nibble /\ nib \notin here.external /\ new \in IpPrefix
    BY <1>1, <1>4, <1>6
  <2> HIDE DEF new, kids, ext
  <2>7. childIdx \in Nat /\ childIdx <= Len(here.children)
    BY ONLY <2>1, <2>4, <2>6, RankType DEF Nibble
  <2>8. Cardinality(ext) = Cardinality(here.external) + 1
    BY <2>4, <2>6, BitmapFinite, FS_AddElement
  <2>9. kids \in Seq(IpPrefix) /\ Len(kids) = Len(here.children) + 1 /\ At(kids, childIdx) = new
    BY ONLY <2>1, <2>4, <2>5, <2>6, <2>7, VecInsertType
  <2>10. ASSUME NEW n \in ext
         PROVE  At(kids, rank(ext, n))
                = IF n = nib THEN new ELSE At(here.children, rank(here.external, n))
    BY ONLY <2>1, <2>3, <2>4, <2>5, <2>6, <2>10, VecInsertAt
  <2>11. \A n \in here.external : n \in ext /\ n # nib
    BY <2>4, <2>6
  <2>12. nib \in ext
    BY <2>4
  <2>. QED BY <2>8, <2>9, <2>10, <2>11, <2>12
<1>10. /\ heap' = WithNode(WithNode(heap, new, EmptyNode), node, grown)
       /\ node' = At(grown.children, childIdx) /\ hop' = hop + 1
       /\ UNCHANGED <<count, pc, req, reply, best, stack, prune>>
  BY DEF InsertGrow
<1> HIDE DEF new, kids, ext
<1>11. /\ grown \in TbNode
       /\ grown.internal = here.internal /\ grown.external = ext
       /\ grown.values = here.values /\ grown.children = kids
  <2>1. ext \in SUBSET Nibble
    BY <1>4 DEF ext, Bitmap
  <2>. QED BY <1>4, <1>9, <2>1 DEF TbNode
<1> HIDE DEF grown
<1>12. node' = new
  BY <1>9, <1>10, <1>11
<1>13. /\ DOMAIN heap' = DOMAIN heap \cup {new}
       /\ heap'[node] = grown
       /\ heap'[new] = EmptyNode
       /\ \A s \in DOMAIN heap : s # node => heap'[s] = heap[s]
  BY <1>4, <1>6, <1>8, <1>10 DEF WithNode
<1>14. /\ EmptyNode \in TbNode
       /\ EmptyNode.internal = {} /\ EmptyNode.external = {}
       /\ Len(EmptyNode.values) = 0 /\ Len(EmptyNode.children) = 0
       /\ Cardinality(EmptyNode.internal) = 0 /\ Cardinality(EmptyNode.external) = 0
  BY FS_EmptySet DEF EmptyNode, TbNode
<1>15. \A s \in DOMAIN heap : /\ heap'[s].internal = heap[s].internal
                              /\ heap'[s].values = heap[s].values
                              /\ heap[s].external \subseteq heap'[s].external
  BY <1>4, <1>11, <1>13 DEF ext
<1>16. WellLinked'
  <2>1. ASSUME NEW s \in DOMAIN heap, s # node
        PROVE  /\ Len(heap'[s].children) = Cardinality(heap'[s].external)
               /\ \A n \in heap'[s].external :
                    /\ At(heap'[s].children, rank(heap'[s].external, n)) = Child(s, n)
                    /\ Child(s, n) \in DOMAIN heap'
    BY <1>1, <1>13, <2>1 DEF TreeInv, WellLinked
  <2>2. Len(heap'[node].children) = Cardinality(heap'[node].external)
    <3>1. Len(here.children) = Cardinality(here.external)
      BY <1>1, <1>4 DEF TreeInv, WellLinked
    <3>. QED BY <1>9, <1>11, <1>13, <3>1
  <2>3. ASSUME NEW n \in heap'[node].external
        PROVE  /\ At(heap'[node].children, rank(heap'[node].external, n)) = Child(node, n)
               /\ Child(node, n) \in DOMAIN heap'
    <3>1. n \in ext
      BY <1>11, <1>13
    <3>2. CASE n = nib
      BY <1>9, <1>11, <1>13, <3>1, <3>2 DEF new
    <3>3. CASE n # nib
      <4>1. n \in here.external
        BY <3>1, <3>3 DEF ext
      <4>2. At(here.children, rank(here.external, n)) = Child(node, n) /\ Child(node, n) \in DOMAIN heap
        BY <1>1, <1>4, <4>1 DEF TreeInv, WellLinked
      <4>3. At(kids, rank(ext, n)) = At(here.children, rank(here.external, n))
        BY <1>9, <4>1
      <4>4. heap'[node].children = kids /\ heap'[node].external = ext
        BY <1>11, <1>13
      <4>5. Child(node, n) \in DOMAIN heap'
        BY <1>13, <4>2
      <4>. QED BY <4>2, <4>3, <4>4, <4>5
    <3>. QED BY <3>2, <3>3
  <2>4. /\ Len(heap'[new].children) = Cardinality(heap'[new].external)
        /\ heap'[new].external = {}
    BY <1>13, <1>14
  <2>. QED BY <1>13, <2>1, <2>2, <2>3, <2>4 DEF WellLinked
<1>17. ValuesBacked'
  <2>1. ASSUME NEW s \in DOMAIN heap
        PROVE  /\ Len(heap'[s].values) >= Cardinality(heap'[s].internal)
               /\ Len(heap'[s].values) > Cardinality(heap'[s].internal)
                    => s = Root /\ DropMayPanic
    BY <1>1, <1>15 DEF TreeInv, ValuesBacked
  <2>2. Len(heap'[new].values) = 0 /\ Cardinality(heap'[new].internal) = 0
    BY <1>13, <1>14
  <2>. QED BY <1>13, <2>1, <2>2 DEF ValuesBacked
<1>18. Anchored'
  <2>1. Root \in DOMAIN heap'
    BY <1>1, <1>13 DEF TreeInv, Anchored
  <2>2. ASSUME NEW s \in DOMAIN heap
        PROVE  LET depth == s.mask \div STRIDE
               IN  /\ s = Path(s.ip, depth)
                   /\ \A h \in 0..(depth - 1) :
                        /\ Path(s.ip, h) \in DOMAIN heap'
                        /\ nibble(s.ip, h) \in heap'[Path(s.ip, h)].external
                   /\ depth = Strides => heap'[s].external = {} /\ heap'[s].internal \subseteq {1}
    <3>1. node.mask \div STRIDE # Strides
      BY <1>4, BitsType
    <3>. QED BY <1>1, <1>13, <1>15, <3>1 DEF TreeInv, Anchored
  <2>3. new = Path(new.ip, hop + 1)
    BY <1>4, <1>5, <1>7
  <2>4. ASSUME NEW h \in 0..hop
        PROVE  /\ Path(new.ip, h) \in DOMAIN heap'
               /\ nibble(new.ip, h) \in heap'[Path(new.ip, h)].external
    <3>1. Path(new.ip, h) = Path(addr, h) /\ nibble(new.ip, h) = nibble(addr, h)
      BY <1>4, <1>7
    <3>2. CASE h = hop
      BY <1>4, <1>11, <1>13, <3>1, <3>2 DEF nib, ext
    <3>3. CASE h # hop
      <4>1. h \in 0..(hop - 1)
        BY <1>4, <3>3
      <4>2. Path(addr, h) \in DOMAIN heap /\ nibble(addr, h) \in heap[Path(addr, h)].external
        BY <1>1, <1>2, <4>1, AncestorFacts
      <4>. QED BY <1>13, <1>15, <3>1, <4>2
    <3>. QED BY <3>2, <3>3
  <2>5. (hop + 1) - 1 = hop
    BY <1>4
  <2>6. heap'[new].external = {} /\ heap'[new].internal \subseteq {1}
    BY <1>13, <1>14
  <2>. QED BY <1>6, <1>13, <2>1, <2>2, <2>3, <2>4, <2>5, <2>6 DEF Anchored
<1>19. Keys' = Keys
  <2>1. heap'[new].internal = {}
    BY <1>13, <1>14
  <2>2. ASSUME NEW k, k \in Keys' PROVE k \in Keys
    <3>1. PICK s \in DOMAIN heap' : \E c \in heap'[s].internal : k = Entry(s, c)
      BY <2>2, KeyMembers
    <3>2. PICK c \in heap'[s].internal : k = Entry(s, c)
      BY <3>1
    <3>3. s \in DOMAIN heap
      BY <1>13, <2>1, <3>2
    <3>4. c \in heap[s].internal
      BY <1>15, <3>2, <3>3
    <3>. QED BY <3>2, <3>3, <3>4, KeyMembers
  <2>3. ASSUME NEW k, k \in Keys PROVE k \in Keys'
    <3>1. PICK s \in DOMAIN heap : \E c \in heap[s].internal : k = Entry(s, c)
      BY <2>3, KeyMembers
    <3>2. PICK c \in heap[s].internal : k = Entry(s, c)
      BY <3>1
    <3>3. s \in DOMAIN heap' /\ c \in heap'[s].internal
      BY <1>13, <1>15, <3>2
    <3>. QED BY <3>2, <3>3, KeyMembers
  <2>. QED BY <2>2, <2>3
<1>20. TypeOK'
  <2>1. \A s \in DOMAIN heap' : heap'[s] \in TbNode
    BY <1>1, <1>11, <1>13, <1>14 DEF TypeOK
  <2>2. DOMAIN heap' \subseteq IpPrefix
    BY <1>1, <1>6, <1>13 DEF TypeOK
  <2>. QED BY <1>1, <1>4, <1>6, <1>10, <1>12, <2>1, <2>2 DEF TypeOK
<1>21. Control'
  <2>1. addr' = addr /\ fullHops' = fullHops
    BY <1>10, OperandsUnchanged
  <2>2. hop' <= fullHops'
    BY <1>1, <1>3, <1>4, <1>10, <2>1
  <2>. QED BY <1>1, <1>2, <1>5, <1>10, <1>12, <1>13, <2>1, <2>2 DEF Control
<1>22. FramesValid'
  BY <1>2, <1>10 DEF FramesValid
<1>23. NoDeadNodes'
  <2>1. grown.external # {}
    BY <1>11 DEF ext
  <2>2. \A s \in DOMAIN heap \ {Root, node} : heap[s].internal \cup heap[s].external # {}
    BY DEF IInv, NoDeadNodes
  <2>3. \A s \in DOMAIN heap \ {Root} : heap'[s].internal \cup heap'[s].external # {}
    BY <1>13, <2>1, <2>2
  <2>. QED BY <1>1, <1>10, <1>12, <1>13, <2>3 DEF NoDeadNodes
<1>24. CountExact'
  BY <1>10, <1>19 DEF IInv, CountExact
<1>. QED
  BY <1>1, <1>16, <1>17, <1>18, <1>19, <1>20, <1>21, <1>22, <1>23, <1>24 DEF IInv, TreeInv

(* remove finds nothing: the unwinding starts with nothing to prune.       *)
LEMMA RemoveMissInv ==
  ASSUME IInv, RemoveMiss
  PROVE  IInv'
<1>1. TypeOK /\ Control /\ TreeInv /\ pc = "remove" /\ pc' = "unwind"
  BY DEF IInv, RemoveMiss
<1>2. UNCHANGED <<heap, count, req, reply, node, hop, best, stack, prune>>
  BY DEF RemoveMiss, locals
<1>3. TreeInv' /\ Keys' = Keys
  BY <1>1, <1>2, TreeUnchanged
<1>4. addr' = addr /\ fullHops' = fullHops
  BY <1>2, OperandsUnchanged
<1>5. /\ req \in Request /\ req.op = "remove" /\ reply = None /\ Len(stack) = hop
      /\ prune = FALSE /\ Walking /\ hop <= fullHops
  BY <1>1 DEF Control, Ops, PrefixOps, Walking, KeyOps, TypeOK
<1>6. TypeOK'
  BY <1>1, <1>2 DEF TypeOK
<1>7. Control'
  BY <1>1, <1>2, <1>4, <1>5 DEF Control, Ops, PrefixOps, LookupOps, PlainOps
<1>8. FramesValid'
  BY <1>2, <1>4 DEF IInv, FramesValid
<1>9. NoDeadNodes'
  BY <1>1, <1>2 DEF IInv, NoDeadNodes
<1>10. CountExact'
  BY <1>1, <1>2, <1>3, <1>5 DEF IInv, CountExact
<1>. QED
  BY <1>3, <1>6, <1>7, <1>8, <1>9, <1>10 DEF IInv

(* The frame an unwinding step returns to: its node is the parent of the   *)
(* one just left, and its child index still names that child.              *)
LEMMA UnwindFacts ==
  ASSUME IInv, pc = "unwind", stack # <<>>,
         NEW frame, frame = Last(stack)
  PROVE  /\ Walking /\ req \in Request /\ req.op = "remove"
         /\ hop \in 1..Strides /\ hop - 1 \in 0..(Strides - 1) /\ Len(stack) = hop
         /\ addr \in Address
         /\ frame.node = Path(addr, hop - 1) /\ frame.node \in IpPrefix
         /\ frame.node \in DOMAIN heap /\ frame.node.mask = 4 * (hop - 1)
         /\ frame.nib \in heap[frame.node].external /\ frame.nib \in Nibble
         /\ frame.idx = rank(heap[frame.node].external, frame.nib)
         /\ node = Child(frame.node, frame.nib) /\ node = Path(addr, hop)
         /\ node \in DOMAIN heap /\ node.mask = 4 * hop
         /\ node # frame.node /\ node # Root
         /\ At(heap[frame.node].children, frame.idx) = node
         /\ Front(stack) \in Seq(Frame) /\ Len(Front(stack)) = hop - 1
         /\ \A i \in 1..(hop - 1) : Front(stack)[i] = stack[i]
<1>1. TypeOK /\ Control /\ TreeInv
  BY DEF IInv
<1>2. /\ Walking /\ req \in Request /\ req.op = "remove" /\ Len(stack) = hop
      /\ stack \in Seq(Frame)
  BY <1>1 DEF Control, Walking, TypeOK
<1>3. hop \in 1..Strides /\ hop - 1 \in 0..(Strides - 1) /\ hop - 1 \in 0..Strides
  <2>1. hop \in 0..Strides
    BY <1>1 DEF TypeOK
  <2>2. hop # 0
    BY <1>2, EmptySeq
  <2>. QED BY <2>1, <2>2, BitsType
<1>4. frame = stack[hop] /\ hop \in DOMAIN stack
  BY <1>2, <1>3, LenProperties DEF Last
<1>5. /\ frame.node = Path(addr, hop - 1) /\ frame.nib = nibble(addr, hop - 1)
      /\ frame.nib \in heap[frame.node].external
      /\ frame.idx = rank(heap[frame.node].external, frame.nib)
  BY <1>4 DEF IInv, FramesValid
<1>6. addr \in Address /\ node = Path(addr, hop) /\ node \in DOMAIN heap /\ node.mask = 4 * hop
  BY <1>1, <1>2, WalkFacts
<1>7. frame.node \in IpPrefix /\ frame.node.mask = 4 * (hop - 1) /\ frame.nib \in Nibble
  BY <1>3, <1>5, <1>6, PathType, NibbleType
<1>8. frame.node \in DOMAIN heap
  BY <1>1, <1>2, <1>3, <1>5, AncestorFacts
<1>9. node = Child(frame.node, frame.nib)
  <2>1. (hop - 1) + 1 = hop
    BY <1>3
  <2>. QED BY <1>3, <1>5, <1>6, <2>1, ChildOnPath
<1>10. node # frame.node /\ node # Root
  BY <1>3, <1>6, <1>7 DEF Root
<1>11. At(heap[frame.node].children, frame.idx) = node
  BY <1>1, <1>5, <1>8, <1>9 DEF TreeInv, WellLinked
<1>12. /\ Front(stack) \in Seq(Frame) /\ Len(Front(stack)) = hop - 1
       /\ \A i \in 1..(hop - 1) : Front(stack)[i] = stack[i]
  <2>1. \A i \in 1..(hop - 1) : stack[i] \in Frame
    BY <1>2, <1>3
  <2>2. Front(stack) = SubSeq(stack, 1, hop - 1)
    BY <1>2 DEF Front
  <2>. QED BY <1>2, <1>3, <2>1, <2>2, SubSeqProperties
<1>. QED
  BY <1>2, <1>3, <1>5, <1>6, <1>7, <1>8, <1>9, <1>10, <1>11, <1>12

(* Back in a caller whose child is not empty: nothing changes, and the     *)
(* caller's node is not empty either.                                      *)
LEMMA UnwindKeepInv ==
  ASSUME IInv, RemoveUnwind, ~prune
  PROVE  IInv'
<1> DEFINE frame == Last(stack)
<1>1. TypeOK /\ Control /\ TreeInv /\ pc = "unwind" /\ stack # <<>> /\ prune = FALSE
  BY DEF IInv, RemoveUnwind, TypeOK
<1>2. frame = Last(stack)
  OBVIOUS
<1>3. /\ heap' = heap /\ prune' = IsDead(heap[frame.node]) /\ node' = frame.node
      /\ stack' = Front(stack) /\ hop' = hop - 1
      /\ UNCHANGED <<count, pc, req, reply, best>>
  BY DEF RemoveUnwind
<1> HIDE DEF frame
<1>4. /\ hop \in 1..Strides /\ hop - 1 \in 0..(Strides - 1)
      /\ frame.node = Path(addr, hop - 1) /\ frame.node \in DOMAIN heap
      /\ frame.node \in IpPrefix /\ frame.nib \in heap[frame.node].external
      /\ Front(stack) \in Seq(Frame) /\ Len(Front(stack)) = hop - 1
      /\ \A i \in 1..(hop - 1) : Front(stack)[i] = stack[i]
      /\ req \in Request /\ req.op = "remove" /\ Len(stack) = hop
  BY <1>1, <1>2, UnwindFacts
<1>5. prune' = FALSE
  BY <1>3, <1>4 DEF IsDead
<1>6. TreeInv' /\ Keys' = Keys
  BY <1>1, <1>3, TreeUnchanged
<1>7. addr' = addr /\ fullHops' = fullHops
  BY <1>3, OperandsUnchanged
<1>8. TypeOK'
  <2>1. hop' \in 0..Strides
    BY <1>3, <1>4, BitsType
  <2>. QED BY <1>1, <1>3, <1>4, <1>5, <2>1 DEF TypeOK
<1>9. Control'
  <2>1. hop' <= fullHops'
    <3>1. hop <= fullHops /\ fullHops \in 0..Strides
      BY <1>1, <1>4, RequestFacts DEF Control, KeyOps, PrefixOps
    <3>. QED BY <1>3, <1>4, <1>7, <3>1
  <2>. QED BY <1>1, <1>3, <1>4, <1>5, <1>7, <2>1
           DEF Control, Ops, PrefixOps, LookupOps, PlainOps
<1>10. FramesValid'
  <2>1. DOMAIN stack' = 1..(hop - 1) /\ \A i \in 1..(hop - 1) : i \in DOMAIN stack
    BY <1>1, <1>3, <1>4, LenProperties DEF TypeOK
  <2>. QED BY <1>3, <1>4, <1>7, <2>1 DEF IInv, FramesValid
<1>11. NoDeadNodes'
  BY <1>1, <1>3 DEF IInv, NoDeadNodes
<1>12. CountExact'
  BY <1>3, <1>6 DEF IInv, CountExact
<1>. QED
  BY <1>6, <1>8, <1>9, <1>10, <1>11, <1>12 DEF IInv

(* Back in a caller whose child is empty: exactly that child goes.  Its    *)
(* siblings keep their slots, and no other node hung below it.             *)
LEMMA UnwindPruneInv ==
  ASSUME IInv, RemoveUnwind, prune
  PROVE  IInv'
<1> DEFINE frame  == Last(stack)
           par    == frame.node
           k      == frame.nib
           kids   == VecRemove(heap[par].children, frame.idx)
           ext    == heap[par].external \ {k}
           left   == [heap[par] EXCEPT !.children = kids, !.external = ext]
<1>1. TypeOK /\ Control /\ TreeInv /\ pc = "unwind" /\ stack # <<>> /\ prune = TRUE
  BY DEF IInv, RemoveUnwind, TypeOK
<1>2. frame = Last(stack)
  OBVIOUS
<1> HIDE DEF frame
<1>3. /\ hop \in 1..Strides /\ hop - 1 \in 0..(Strides - 1) /\ Len(stack) = hop
      /\ addr \in Address /\ req \in Request /\ req.op = "remove"
      /\ par = Path(addr, hop - 1) /\ par \in IpPrefix
      /\ par \in DOMAIN heap /\ par.mask = 4 * (hop - 1)
      /\ k \in heap[par].external /\ k \in Nibble
      /\ frame.idx = rank(heap[par].external, k)
      /\ node = Child(par, k) /\ node = Path(addr, hop)
      /\ node \in DOMAIN heap /\ node.mask = 4 * hop
      /\ node # par /\ node # Root
      /\ At(heap[par].children, frame.idx) = node
      /\ Front(stack) \in Seq(Frame) /\ Len(Front(stack)) = hop - 1
      /\ \A i \in 1..(hop - 1) : Front(stack)[i] = stack[i]
  BY <1>1, <1>2, UnwindFacts
<1>4. heap[node].internal = {} /\ heap[node].external = {}
  BY <1>1 DEF Control, IsDead, here
<1>5. /\ heap' = WithNode(Without(heap, node), par, left)
      /\ prune' = IsDead(left) /\ node' = par /\ stack' = Front(stack) /\ hop' = hop - 1
      /\ UNCHANGED <<count, pc, req, reply, best>>
  BY <1>1, <1>2, <1>3 DEF RemoveUnwind
<1>6. /\ heap[par] \in TbNode /\ heap[par].external \in Bitmap
      /\ heap[par].children \in Seq(IpPrefix) /\ heap[par].external \subseteq Nibble
      /\ Len(heap[par].children) = Cardinality(heap[par].external)
      /\ Cardinality(heap[par].external) \in Nat
  <2>1. heap[par] \in TbNode /\ heap[par].external \in Bitmap
    BY <1>1, <1>3, NodeFacts
  <2>. QED BY <1>1, <1>3, <2>1, BitmapFinite DEF TbNode, TreeInv, WellLinked
<1>7. /\ kids \in Seq(IpPrefix)
      /\ Len(kids) = Cardinality(ext)
      /\ ext = heap[par].external \ {k}
  <2>1. frame.idx \in Nat /\ frame.idx < Len(heap[par].children)
    BY <1>3, <1>6, RankInBounds
  <2>2. kids \in Seq(IpPrefix) /\ Len(kids) = Len(heap[par].children) - 1
    BY <1>6, <2>1, VecRemoveType
  <2>3. Cardinality(ext) = Cardinality(heap[par].external) - 1
    BY <1>3, <1>6, BitmapFinite, FS_RemoveElement
  <2>. QED BY <1>6, <2>2, <2>3
<1>8. ASSUME NEW n \in ext
      PROVE  At(kids, rank(ext, n)) = Child(par, n)
  <2>1. /\ heap[par].children \in Seq(IpPrefix) /\ heap[par].external \in Bitmap
        /\ k \in heap[par].external
        /\ Len(heap[par].children) >= Cardinality(heap[par].external)
        /\ ext = heap[par].external \ {k}
        /\ kids = VecRemove(heap[par].children, rank(heap[par].external, k))
    BY <1>3, <1>6
  <2>2. n \in heap[par].external
    OBVIOUS
  <2>3. At(heap[par].children, rank(heap[par].external, n)) = Child(par, n)
    BY <1>1, <1>3, <2>2 DEF TreeInv, WellLinked
  <2> HIDE DEF kids, ext
  <2>4. At(kids, rank(ext, n)) = At(heap[par].children, rank(heap[par].external, n))
    BY ONLY <1>8, <2>1, VecRemoveAt
  <2>. QED BY <2>3, <2>4
<1> HIDE DEF kids, ext
<1>9. /\ left \in TbNode
      /\ left.internal = heap[par].internal /\ left.external = ext
      /\ left.values = heap[par].values /\ left.children = kids
  <2>1. ext \in SUBSET Nibble
    BY <1>6, <1>7
  <2>. QED BY <1>6, <1>7, <2>1 DEF TbNode
<1> HIDE DEF left
<1>10. /\ DOMAIN heap' = DOMAIN heap \ {node}
       /\ heap'[par] = left
       /\ \A s \in DOMAIN heap : s # node /\ s # par => heap'[s] = heap[s]
  BY <1>3, <1>5 DEF WithNode, Without, Restrict
<1>11. \A s \in DOMAIN heap' : /\ s \in DOMAIN heap /\ s # node
                               /\ heap'[s].internal = heap[s].internal
                               /\ heap'[s].values = heap[s].values
                               /\ heap'[s].external \subseteq heap[s].external
  BY <1>7, <1>9, <1>10
<1>12. WellLinked'
  <2>1. ASSUME NEW s \in DOMAIN heap', NEW n \in heap'[s].external
        PROVE  Child(s, n) \in DOMAIN heap'
    <3>1. s \in DOMAIN heap /\ n \in heap[s].external
      BY <1>11
    <3>2. Child(s, n) \in DOMAIN heap
      BY <1>1, <3>1 DEF TreeInv, WellLinked
    <3>3. s = par => n # k
      BY <1>7, <1>9, <1>10
    <3>4. /\ s \in IpPrefix /\ NodeRef(s) /\ s.mask < BITS /\ n \in Nibble
          /\ par \in IpPrefix /\ NodeRef(par) /\ par.mask < BITS
      <4>1. s \in IpPrefix /\ NodeRef(s) /\ s.mask < BITS /\ heap[s].external \in Bitmap
        BY <1>1, <3>1, NodeFacts
      <4>2. par \in IpPrefix /\ NodeRef(par) /\ par.mask < BITS
        BY <1>1, <1>3, NodeFacts
      <4>. QED BY <3>1, <4>1, <4>2 DEF Bitmap
    <3>5. Child(s, n) # node
      BY <1>3, <3>3, <3>4, ChildInjective
    <3>. QED BY <1>10, <3>2, <3>5
  <2>2. ASSUME NEW s \in DOMAIN heap', s # par
        PROVE  /\ Len(heap'[s].children) = Cardinality(heap'[s].external)
               /\ \A n \in heap'[s].external :
                    At(heap'[s].children, rank(heap'[s].external, n)) = Child(s, n)
    BY <1>1, <1>10, <2>2 DEF TreeInv, WellLinked
  <2>3. /\ Len(heap'[par].children) = Cardinality(heap'[par].external)
        /\ \A n \in heap'[par].external :
             At(heap'[par].children, rank(heap'[par].external, n)) = Child(par, n)
    BY <1>7, <1>8, <1>9, <1>10
  <2>. QED BY <2>1, <2>2, <2>3 DEF WellLinked
<1>13. ValuesBacked'
  BY <1>1, <1>11 DEF TreeInv, ValuesBacked
<1>14. Anchored'
  <2>1. Root \in DOMAIN heap'
    BY <1>1, <1>3, <1>10 DEF TreeInv, Anchored
  <2>2. ASSUME NEW s \in DOMAIN heap'
        PROVE  LET depth == s.mask \div STRIDE
               IN  /\ s = Path(s.ip, depth)
                   /\ depth = Strides => heap'[s].external = {} /\ heap'[s].internal \subseteq {1}
    BY <1>1, <1>11 DEF TreeInv, Anchored
  <2>3. ASSUME NEW s \in DOMAIN heap', NEW h \in 0..((s.mask \div STRIDE) - 1)
        PROVE  /\ Path(s.ip, h) \in DOMAIN heap'
               /\ nibble(s.ip, h) \in heap'[Path(s.ip, h)].external
    <3> DEFINE depth == s.mask \div STRIDE
               up    == Path(s.ip, h)
               link  == nibble(s.ip, h)
    <3>1. s \in DOMAIN heap /\ s # node
      BY <1>11
    <3>2. depth \in 0..Strides /\ s.ip \in Address /\ s = Path(s.ip, depth)
      BY <1>1, <3>1, NodeFacts DEF IpPrefix, STRIDE
    <3>3. up \in DOMAIN heap /\ link \in heap[up].external
      BY <1>1, <3>1 DEF TreeInv, Anchored
    <3>4. h \in 0..(Strides - 1) /\ h + 1 \in 0..depth
      BY <3>2, BitsType
    <3>5. Child(up, link) = Path(s.ip, h + 1)
      BY <3>2, <3>4, ChildOnPath
    <3>6. up # node
      BY <1>4, <3>3
    <3>7. Path(s.ip, h + 1) # node
      <4>1. CASE h + 1 = depth
        BY <3>1, <3>2, <4>1
      <4>2. CASE h + 1 # depth
        <5>1. h + 1 \in 0..((s.mask \div STRIDE) - 1)
          BY <3>2, <3>4, <4>2
        <5>2. nibble(s.ip, h + 1) \in heap[Path(s.ip, h + 1)].external
          BY <1>1, <3>1, <5>1 DEF TreeInv, Anchored
        <5>. QED BY <1>4, <5>2
      <4>. QED BY <4>1, <4>2
    <3>8. up = par => link # k
      BY <1>3, <3>5, <3>7
    <3> HIDE DEF up, link
    <3>9. up \in DOMAIN heap' /\ link \in heap'[up].external
      BY <1>7, <1>9, <1>10, <3>3, <3>6, <3>8
    <3>. QED BY <3>9 DEF up, link
  <2>. QED BY <2>1, <2>2, <2>3 DEF Anchored
<1>15. Keys' = Keys
  <2>1. ASSUME NEW e, e \in Keys' PROVE e \in Keys
    <3>1. PICK s \in DOMAIN heap' : \E c \in heap'[s].internal : e = Entry(s, c)
      BY <2>1, KeyMembers
    <3>2. PICK c \in heap'[s].internal : e = Entry(s, c)
      BY <3>1
    <3>3. s \in DOMAIN heap /\ c \in heap[s].internal
      BY <1>11, <3>2
    <3>. QED BY <3>2, <3>3, KeyMembers
  <2>2. ASSUME NEW e, e \in Keys PROVE e \in Keys'
    <3>1. PICK s \in DOMAIN heap : \E c \in heap[s].internal : e = Entry(s, c)
      BY <2>2, KeyMembers
    <3>2. PICK c \in heap[s].internal : e = Entry(s, c)
      BY <3>1
    <3>3. s \in DOMAIN heap'
      BY <1>4, <1>10, <3>2
    <3>4. c \in heap'[s].internal
      BY <1>11, <3>2, <3>3
    <3>. QED BY <3>2, <3>3, <3>4, KeyMembers
  <2>. QED BY <2>1, <2>2
<1>16. TypeOK'
  <2>1. \A s \in DOMAIN heap' : heap'[s] \in TbNode
    BY <1>1, <1>9, <1>10, <1>11 DEF TypeOK
  <2>2. DOMAIN heap' \subseteq IpPrefix
    BY <1>1, <1>10 DEF TypeOK
  <2>3. hop' \in 0..Strides /\ prune' \in BOOLEAN
    BY <1>3, <1>5, BitsType DEF IsDead
  <2>. QED BY <1>1, <1>3, <1>5, <2>1, <2>2, <2>3 DEF TypeOK
<1>17. addr' = addr /\ fullHops' = fullHops
  BY <1>5, OperandsUnchanged
<1>18. Control'
  <2>1. hop' <= fullHops'
    <3>1. hop <= fullHops /\ fullHops \in 0..Strides
      BY <1>1, <1>3, RequestFacts DEF Control, KeyOps, PrefixOps
    <3>. QED BY <1>3, <1>5, <1>17, <3>1
  <2>2. prune' => IsDead(here')
    BY <1>5, <1>10 DEF here
  <2>3. node' = Path(addr', hop') /\ node' \in DOMAIN heap' /\ Len(stack') = hop'
    BY <1>3, <1>5, <1>10, <1>17
  <2>. QED BY <1>1, <1>3, <1>5, <2>1, <2>2, <2>3
           DEF Control, Ops, PrefixOps, LookupOps, PlainOps
<1>19. FramesValid'
  <2>1. DOMAIN stack' = 1..(hop - 1) /\ \A i \in 1..(hop - 1) : i \in DOMAIN stack
    BY <1>1, <1>3, <1>5, LenProperties DEF TypeOK
  <2>2. ASSUME NEW i \in 1..(hop - 1)
        PROVE  /\ stack'[i] = stack[i]
               /\ heap'[stack[i].node] = heap[stack[i].node]
    <3>1. stack[i].node = Path(addr, i - 1)
      BY <2>1 DEF IInv, FramesValid
    <3>2. i - 1 \in 0..Strides /\ i - 1 \in 0..(hop - 1)
      BY <1>3, BitsType
    <3>3. stack[i].node.mask = 4 * (i - 1)
      BY <1>3, <3>1, <3>2, PathType
    <3>4. stack[i].node # par /\ stack[i].node # node
      BY <1>3, <3>3
    <3>5. stack[i].node \in DOMAIN heap
      BY <1>1, <1>3, <3>1, <3>2, AncestorFacts DEF Walking
    <3>. QED BY <1>3, <1>5, <1>10, <3>4, <3>5
  <2>. QED BY <1>17, <2>1, <2>2 DEF IInv, FramesValid
<1>20. NoDeadNodes'
  <2>1. ASSUME NEW s \in DOMAIN heap', s # Root, s # par
        PROVE  heap'[s].internal \cup heap'[s].external # {}
    BY <1>10, <2>1 DEF IInv, NoDeadNodes
  <2>2. left.internal \cup left.external = {} => prune'
    BY <1>5 DEF IsDead
  <2>. QED BY <1>1, <1>5, <1>10, <2>1, <2>2 DEF NoDeadNodes
<1>21. CountExact'
  BY <1>5, <1>15 DEF IInv, CountExact
<1>. QED
  BY <1>1, <1>12, <1>13, <1>14, <1>15, <1>16, <1>18, <1>19, <1>20, <1>21 DEF IInv, TreeInv

(* Back in the caller of remove_at: the root is never pruned, and the      *)
(* count falls in with the table again.                                    *)
LEMMA RemoveFinishInv ==
  ASSUME IInv, RemoveFinish
  PROVE  IInv'
<1>1. TypeOK /\ Control /\ TreeInv /\ pc = "unwind" /\ stack = <<>> /\ pc' = "return"
  BY DEF IInv, RemoveFinish
<1>2. UNCHANGED <<heap, req, reply, node, hop, best, stack, prune>>
  BY DEF RemoveFinish, locals
<1>3. TreeInv' /\ Keys' = Keys
  BY <1>1, <1>2, TreeUnchanged
<1>4. req \in Request /\ Walking /\ hop = 0
  <2>1. Len(stack) = 0
    BY <1>1, EmptySeq
  <2>. QED BY <1>1, <2>1 DEF Control, Walking
<1>5. node = Root
  BY <1>1, <1>4, WalkFacts, PathRoot
<1>6. count' = Cardinality(Keys) /\ Cardinality(Keys) \in Nat
  <2>1. Cardinality(Keys) \in Nat
    BY <1>1, FS_CardinalityType DEF TreeInv
  <2>2. count = Cardinality(Keys) + (IF reply # None THEN 1 ELSE 0)
    BY <1>1 DEF IInv, CountExact
  <2>3. count' = IF reply # None THEN count - 1 ELSE count
    BY DEF RemoveFinish, CountAfterRemove
  <2>. QED BY <2>1, <2>2, <2>3
<1>7. TypeOK'
  BY <1>1, <1>2, <1>6 DEF TypeOK
<1>8. Control'
  BY <1>1, <1>2, <1>4 DEF Control, Walking, KeyOps, Ops, PrefixOps, LookupOps, PlainOps
<1>9. FramesValid'
  BY <1>1, <1>2 DEF FramesValid
<1>10. NoDeadNodes'
  BY <1>2, <1>5 DEF IInv, NoDeadNodes
<1>11. CountExact'
  BY <1>1, <1>3, <1>6 DEF CountExact
<1>. QED
  BY <1>3, <1>7, <1>8, <1>9, <1>10, <1>11 DEF IInv

(* clear leaves the bare root, with at most values no bit refers to.       *)
LEMMA ClearRootInv ==
  ASSUME IInv, pc = "clear", NEW values \in Seq(Value), values = <<>> \/ DropMayPanic,
         NEW answer \in Done, ClearRoot(values), Finish(answer)
  PROVE  IInv'
<1> DEFINE n == [EmptyNode EXCEPT !.values = values]
<1>1. TypeOK /\ Control
  BY DEF IInv
<1>2. /\ DOMAIN heap' = {Root} /\ heap'[Root] = n
      /\ count' = 0 /\ pc' = "return" /\ reply' = answer
      /\ UNCHANGED <<req, node, hop, best, stack, prune>>
  BY DEF ClearRoot, Finish, locals
<1>3. /\ n \in TbNode /\ n.internal = {} /\ n.external = {}
      /\ n.children = <<>> /\ n.values = values
  <2>1. /\ EmptyNode \in TbNode /\ EmptyNode.internal = {} /\ EmptyNode.external = {}
        /\ EmptyNode.children = <<>>
    BY DEF EmptyNode, TbNode
  <2>. QED BY <2>1 DEF TbNode
<1> HIDE DEF n
<1>4. req \in Request /\ req.op = "clear" /\ stack = <<>>
  BY <1>1 DEF Control, Ops, PlainOps
<1>5. Keys' = {}
  BY <1>2, <1>3 DEF Keys
<1>6. Cardinality({}) = 0 /\ Len(<<>>) = 0 /\ IsFiniteSet({}) /\ Len(values) \in Nat
  BY FS_EmptySet
<1>7. WellLinked' /\ ValuesBacked'
  <2>1. /\ Len(heap'[Root].children) = Cardinality(heap'[Root].external)
        /\ heap'[Root].external = {}
    BY <1>2, <1>3, <1>6
  <2>2. /\ Len(heap'[Root].values) >= Cardinality(heap'[Root].internal)
        /\ Len(heap'[Root].values) > Cardinality(heap'[Root].internal) => DropMayPanic
    BY <1>2, <1>3, <1>6
  <2>. QED BY <1>2, <2>1, <2>2 DEF WellLinked, ValuesBacked
<1>8. Anchored'
  <2>1. Root.mask \div STRIDE = 0
    BY BitsType DEF Root
  <2>2. Root = Path(Root.ip, 0)
    BY RootType, PathRoot DEF IpPrefix
  <2>. QED BY <1>2, <1>3, <2>1, <2>2, BitsType DEF Anchored
<1>9. TypeOK'
  BY <1>1, <1>2, <1>3, <1>4, RootType DEF TypeOK, ReplySet
<1>10. Control'
  BY <1>2, <1>4 DEF Control, Walking, KeyOps, Ops, PrefixOps, LookupOps, PlainOps
<1>11. FramesValid'
  BY <1>2, <1>4 DEF FramesValid
<1>12. NoDeadNodes'
  BY <1>2 DEF NoDeadNodes
<1>13. CountExact'
  BY <1>2, <1>5, <1>6 DEF CountExact
<1>. QED
  BY <1>5, <1>6, <1>7, <1>8, <1>9, <1>10, <1>11, <1>12, <1>13 DEF IInv, TreeInv

(* A call is over: its locals are gone.                                    *)
LEMMA ReturnInv ==
  ASSUME IInv, Return
  PROVE  IInv'
<1>1. TypeOK /\ Control /\ TreeInv /\ pc = "return" /\ pc' = "idle"
  BY DEF IInv, Return
<1>2. /\ heap' = heap /\ count' = count /\ req' = NoRequest /\ reply' = None
      /\ node' = Root /\ hop' = 0 /\ best' = None /\ stack' = <<>> /\ prune' = FALSE
  BY DEF Return
<1>3. TreeInv' /\ Keys' = Keys
  BY <1>1, <1>2, TreeUnchanged
<1>4. TypeOK'
  <2>1. hop' \in 0..Strides /\ stack' \in Seq(Frame)
    BY <1>2, BitsType
  <2>. QED BY <1>1, <1>2, <2>1, RootType DEF TypeOK
<1>5. Control'
  BY <1>1, <1>2 DEF Control, Walking, KeyOps, Ops, PrefixOps, LookupOps, PlainOps
<1>6. FramesValid'
  BY <1>2 DEF FramesValid
<1>7. NoDeadNodes'
  BY <1>1, <1>2 DEF IInv, NoDeadNodes
<1>8. CountExact'
  BY <1>1, <1>2, <1>3 DEF IInv, CountExact
<1>. QED
  BY <1>3, <1>4, <1>5, <1>6, <1>7, <1>8 DEF IInv
------------------------------------------------------------------------------
(* What a lookup carries along and answers is well typed.                  *)

(* best keeps its type in every node: a hit is a set bit, its slot holds a *)
(* value, and its length fits the address.                                 *)
LEMMA BestHereType ==
  ASSUME TypeOK, Control, TreeInv, pc \in LookupOps, hop < Strides
  PROVE  bestHere \in Best \cup {None}
<1> DEFINE hits == here.internal \cap MatchMask(nib)
           hit  == HighestBit(hits)
<1>1. Walking
  BY DEF Walking
<1>2. /\ node \in DOMAIN heap /\ here = heap[node] /\ nib \in Nibble /\ hop \in 0..(Strides - 1)
  BY <1>1, WalkFacts, BitsType DEF here
<1>3. CASE hits = {}
  BY <1>3 DEF bestHere, TypeOK
<1>4. CASE hits # {}
  <2>1. hit \in hits
    BY <1>2, <1>4, HighestHit
  <2>2. hit \in here.internal /\ hit \in 1..15
    BY <1>2, <2>1, NodeFacts DEF TbNode
  <2>3. At(here.values, rank(here.internal, hit)) \in Value
    BY <1>2, <2>2, ValueFacts
  <2>4. RelLen(hit) \in 0..3
    BY <2>2, RelLenValues
  <2>5. hop * STRIDE + RelLen(hit) \in 0..BITS
    BY <1>2, <2>4, BitsType
  <2> HIDE DEF hit
  <2>6. [value |-> At(here.values, rank(here.internal, hit)),
         len   |-> hop * STRIDE + RelLen(hit)] \in Best
    BY <2>3, <2>5 DEF Best
  <2>. QED BY <1>4, <2>6 DEF bestHere, hit
<1>. QED
  BY <1>3, <1>4

(* The answer made of best is one the call may give.                       *)
LEMMA FoundType ==
  ASSUME req \in Request, req.op \in LookupOps, NEW b \in Best \cup {None}
  PROVE  Found(b) \in ReplySet(req.op)
<1>1. req.op \in {"longest_match", "longest_match_entry"} /\ req.addr \in Address
  BY AddrsAssumption DEF Request, LookupOps, PrefixOps, PlainOps
<1>2. CASE b = None
  BY <1>1, <1>2 DEF Found, ReplySet
<1>3. CASE b # None
  <2> DEFINE p == [ip |-> req.addr, mask |-> b.len]
             e == [prefix |-> masked(p), value |-> b.value]
  <2>1. b.value \in Value /\ b.len \in 0..BITS
    BY <1>3 DEF Best
  <2>2. p \in IpPrefix
    BY <1>1, <2>1 DEF IpPrefix
  <2>3. masked(p) \in IpPrefix
    BY <2>2, MaskedType
  <2> HIDE DEF p
  <2>4. e \in [prefix : IpPrefix, value : Value] /\ e.value \in Value
    BY <2>1, <2>3
  <2>5. Found(b) = LookupReply(req.op, e)
    BY <1>3 DEF Found, p
  <2> HIDE DEF e
  <2>6. LookupReply(req.op, e) \in ReplySet(req.op)
    BY <1>1, <2>4 DEF LookupReply, ReplySet
  <2>. QED BY <2>5, <2>6
<1>. QED
  BY <1>2, <1>3
------------------------------------------------------------------------------
(* Every step preserves the invariant: one case per action.                *)
LEMMA NextInv ==
  ASSUME IInv, [Next]_vars
  PROVE  IInv'
<1>1. TypeOK /\ Control /\ TreeInv
  BY DEF IInv
<1>2. CASE Call
  BY <1>2, CallInv
<1>3. CASE InsertFollow
  <2>1. pc = "insert" /\ hop < fullHops /\ Walking /\ fullHops \in 0..Strides
    BY <1>1, <1>3, RequestFacts DEF InsertFollow, Control, Walking, KeyOps, Ops
  <2>2. hop < Strides /\ nib \in here.external /\ Descend
    BY <1>1, <1>3, <2>1, BitsType DEF InsertFollow, TypeOK
  <2>. QED BY <1>1, <1>3, <2>1, <2>2, DescendInv DEF InsertFollow, TypeOK
<1>4. CASE InsertGrow
  BY <1>4, InsertGrowInv
<1>5. CASE InsertReplace
  BY <1>5, InsertReplaceInv
<1>6. CASE InsertNew
  BY <1>6, InsertNewInv
<1>7. CASE MatchDescend
  <2>1. pc \in LookupOps /\ pc \notin KeyOps \cup {"unwind"} /\ Walking
    BY <1>7 DEF MatchDescend, LookupOps, KeyOps, PrefixOps, Walking
  <2>2. best' \in Best \cup {None}
    BY <1>1, <1>7, <2>1, BestHereType DEF MatchDescend
  <2>. QED BY <1>7, <2>1, <2>2, DescendInv DEF MatchDescend, KeyOps, PrefixOps
<1>8. CASE MatchBreak
  <2>1. pc \in LookupOps /\ req \in Request /\ req.op = pc
    BY <1>1, <1>8 DEF MatchBreak, Control, Ops
  <2>2. Found(bestHere) \in ReplySet(req.op)
    BY <1>1, <1>8, <2>1, BestHereType, FoundType DEF MatchBreak
  <2>. QED BY <1>8, <2>1, <2>2, AnswerInv DEF MatchBreak, LookupOps, Ops
<1>9. CASE MatchBottom
  <2> DEFINE b == IF 1 \in here.internal
                  THEN [value |-> At(here.values, rank(here.internal, 1)), len |-> BITS]
                  ELSE best
  <2>1. pc \in LookupOps /\ req \in Request /\ req.op = pc /\ Walking
    BY <1>1, <1>9 DEF MatchBottom, Control, Ops, Walking
  <2>2. b \in Best \cup {None}
    <3>1. 1 \in here.internal => At(here.values, rank(here.internal, 1)) \in Value
      BY <1>1, <2>1, WalkFacts, ValueFacts DEF here
    <3>2. BITS \in 0..BITS
      BY BitsType
    <3>3. 1 \in here.internal => b \in Best
      BY <3>1, <3>2 DEF Best
    <3>. QED BY <1>1, <3>3 DEF TypeOK
  <2>3. Finish(Found(b)) /\ UNCHANGED <<heap, count, req, locals>>
    BY <1>9 DEF MatchBottom
  <2> HIDE DEF b
  <2>4. Found(b) \in ReplySet(req.op)
    BY <2>1, <2>2, FoundType
  <2>. QED BY <2>1, <2>3, <2>4, AnswerInv DEF LookupOps, Ops
<1>10. CASE ProbeDescend
  <2>1. /\ pc \in {"get", "contains"} /\ hop < fullHops /\ Walking /\ pc \in KeyOps
        /\ pc # "unwind" /\ pc # "remove" /\ fullHops \in 0..Strides
    BY <1>1, <1>10, RequestFacts DEF ProbeDescend, Probing, Control, Walking, KeyOps, PrefixOps, Ops
  <2>2. hop < Strides
    BY <1>1, <2>1, BitsType DEF TypeOK
  <2>. QED BY <1>1, <1>10, <2>1, <2>2, DescendInv DEF ProbeDescend, TypeOK
<1>11. CASE ProbeMiss
  <2> DEFINE answer == IF pc = "get" THEN None ELSE FALSE
  <2>1. pc \in {"get", "contains"} /\ req.op = pc
    BY <1>1, <1>11 DEF ProbeMiss, Probing, Control, Ops, PrefixOps
  <2>2. answer \in ReplySet(req.op)
    BY <2>1 DEF ReplySet
  <2>3. Finish(answer) /\ UNCHANGED <<heap, count, req, locals>>
    BY <1>11 DEF ProbeMiss
  <2> HIDE DEF answer
  <2>. QED BY <2>1, <2>2, <2>3, AnswerInv DEF Ops, PrefixOps
<1>12. CASE ProbeTarget
  <2> DEFINE present == bpos \in here.internal
             answer  == CASE pc = "contains"       -> present
                          [] pc = "get" /\ present -> At(here.values, valueIdx)
                          [] pc = "get" /\ ~present -> None
  <2>1. pc \in {"get", "contains"} /\ req.op = pc /\ pc \in KeyOps /\ hop = fullHops
    BY <1>1, <1>12 DEF ProbeTarget, Probing, Control, Ops, PrefixOps, KeyOps
  <2>2. present \in BOOLEAN /\ (present => At(here.values, valueIdx) \in Value)
    BY <1>1, <2>1, TargetFacts
  <2>3. Finish(answer) /\ UNCHANGED <<heap, count, req, locals>>
    BY <1>12 DEF ProbeTarget
  <2> HIDE DEF present
  <2>4. answer \in ReplySet(req.op)
    BY <2>1, <2>2 DEF ReplySet
  <2> HIDE DEF answer
  <2>. QED BY <2>1, <2>3, <2>4, AnswerInv DEF Ops, PrefixOps
<1>13. CASE RemoveDescend
  <2>1. /\ pc = "remove" /\ hop < fullHops /\ Walking /\ fullHops \in 0..Strides
    BY <1>1, <1>13, RequestFacts DEF RemoveDescend, Control, Walking, KeyOps, PrefixOps, Ops
  <2>2. hop < Strides
    BY <1>1, <2>1, BitsType DEF TypeOK
  <2>. QED BY <1>1, <1>13, <2>1, <2>2, DescendInv DEF RemoveDescend, TypeOK
<1>14. CASE RemoveMiss
  BY <1>14, RemoveMissInv
<1>15. CASE RemoveTarget
  BY <1>15, RemoveTargetInv
<1>16. CASE RemoveUnwind
  BY <1>16, UnwindKeepInv, UnwindPruneInv
<1>17. CASE RemoveFinish
  BY <1>17, RemoveFinishInv
<1>18. CASE ReadCount
  <2> DEFINE answer == IF pc = "len" THEN count ELSE count = 0
  <2>1. pc \in {"len", "is_empty"} /\ req.op = pc /\ count \in Nat
    BY <1>1, <1>18 DEF ReadCount, Control, Ops, PlainOps, TypeOK
  <2>2. Finish(answer) /\ UNCHANGED <<heap, count, req, locals>>
    BY <1>18 DEF ReadCount
  <2>3. answer \in ReplySet(req.op)
    BY <2>1 DEF ReplySet
  <2> HIDE DEF answer
  <2>. QED BY <2>1, <2>2, <2>3, AnswerInv DEF Ops, PlainOps
<1>19. CASE Clear
  <2>1. PICK answer \in Done : Finish(answer)
    BY <1>19 DEF Clear, Done
  <2>2. <<>> \in Seq(Value)
    OBVIOUS
  <2>. QED BY <1>19, <2>1, <2>2, ClearRootInv DEF Clear
<1>20. CASE ClearInterrupted
  <2>1. heap[Root].values \in Seq(Value)
    BY <1>1 DEF TypeOK, TreeInv, Anchored, TbNode
  <2>2. Panic \in Done /\ DropMayPanic
    BY <1>20 DEF ClearInterrupted, Done
  <2>. QED BY <1>20, <2>1, <2>2, ClearRootInv DEF ClearInterrupted
<1>21. CASE Return
  BY <1>21, ReturnInv
<1>22. CASE UNCHANGED vars
  <2>1. TreeInv' /\ Keys' = Keys
    BY <1>1, <1>22, TreeUnchanged DEF vars
  <2>. QED
    BY <1>22, <2>1 DEF vars, locals, IInv, TypeOK, Control, Walking, FramesValid, NoDeadNodes,
                       CountExact, here, addr, key, fullHops
<1>. QED
  BY <1>2, <1>3, <1>4, <1>5, <1>6, <1>7, <1>8, <1>9, <1>10, <1>11, <1>12, <1>13, <1>14,
     <1>15, <1>16, <1>17, <1>18, <1>19, <1>20, <1>21, <1>22 DEF Next, Step

(* A step frees a node only in clear, or when remove prunes it, and then   *)
(* the index the suspended frame kept leads to the node just found dead.   *)
LEMMA PruneStep ==
  ASSUME IInv, [Next]_vars, NEW r \in DOMAIN heap \ DOMAIN heap'
  PROVE  pc = "clear" \/ heap[r].internal \cup heap[r].external = {}
<1>1. TypeOK /\ Control /\ TreeInv
  BY DEF IInv
<1>2. heap' # heap
  OBVIOUS
<1>3. CASE InsertGrow
  BY <1>3 DEF InsertGrow, WithNode
<1>4. CASE InsertReplace
  BY <1>4 DEF InsertReplace
<1>5. CASE InsertNew
  BY <1>5 DEF InsertNew, WithNode
<1>6. CASE RemoveTarget
  BY <1>6 DEF RemoveTarget
<1>7. CASE RemoveUnwind
  <2> DEFINE frame == Last(stack)
  <2>1. /\ pc = "unwind" /\ stack # <<>> /\ prune
        /\ r \notin DOMAIN Without(heap, At(heap[frame.node].children, frame.idx))
    BY <1>2, <1>7 DEF RemoveUnwind, WithNode
  <2>2. At(heap[frame.node].children, frame.idx) = node
    BY <2>1, UnwindFacts
  <2>3. r = node
    BY <2>1, <2>2 DEF Without, Restrict
  <2>. QED BY <1>1, <2>1, <2>3 DEF Control, IsDead, here
<1>8. CASE Clear \/ ClearInterrupted
  BY <1>8 DEF Clear, ClearInterrupted
<1>9. CASE \/ Call \/ InsertFollow \/ MatchDescend \/ MatchBreak \/ MatchBottom
           \/ ProbeDescend \/ ProbeMiss \/ ProbeTarget
           \/ RemoveDescend \/ RemoveMiss \/ RemoveFinish \/ ReadCount \/ Return
           \/ UNCHANGED vars
  BY <1>2, <1>9 DEF Call, InsertFollow, MatchDescend, MatchBreak, MatchBottom, ProbeDescend,
                    ProbeMiss, ProbeTarget, RemoveDescend, RemoveMiss, RemoveFinish, ReadCount,
                    Return, vars
<1>. QED
  BY <1>3, <1>4, <1>5, <1>6, <1>7, <1>8, <1>9 DEF Next, Step
------------------------------------------------------------------------------
(* The inductive invariant holds of every reachable state.                 *)
THEOREM Inductive == Spec => []IInv
<1>1. Init => IInv
  BY InitInv
<1>2. IInv /\ [Next]_vars => IInv'
  BY NextInv
<1>. QED
  BY <1>1, <1>2, PTL DEF Spec

(* Every variable keeps its type, and every answer has the type its call   *)
(* declares.                                                               *)
THEOREM TypeCorrect == Spec => []TypeOK
<1>1. IInv => TypeOK
  BY DEF IInv
<1>. QED
  BY <1>1, Inductive, PTL

(* children[rank(external, nib)] is always the child for nib.              *)
THEOREM LinksCorrect == Spec => []WellLinked
<1>1. IInv => WellLinked
  BY DEF IInv, TreeInv
<1>. QED
  BY <1>1, Inductive, PTL

(* Every set internal bit has a value slot of its own; only an interrupted *)
(* clear leaves slots no bit refers to, and only in the root.              *)
THEOREM ValuesCorrect == Spec => []ValuesBacked
<1>1. IInv => ValuesBacked
  BY DEF IInv, TreeInv
<1>. QED
  BY <1>1, Inductive, PTL

(* A type whose destructor cannot panic never sees such slots: the length  *)
(* of values is internal.count_ones(), as node.rs says.                    *)
THEOREM ValuesCompact ==
  ASSUME ~DropMayPanic
  PROVE  Spec => []CompactValues
<1>1. IInv => CompactValues
  <2> SUFFICES ASSUME IInv, NEW r \in DOMAIN heap
               PROVE  Len(heap[r].values) = Cardinality(heap[r].internal)
    BY DEF CompactValues
  <2>1. TypeOK /\ TreeInv
    BY DEF IInv
  <2>2. heap[r].internal \in Bitmap /\ heap[r].values \in Seq(Value)
    BY <2>1, NodeFacts DEF TbNode
  <2>3. Cardinality(heap[r].internal) \in Nat /\ Len(heap[r].values) \in Nat
    BY <2>2, BitmapFinite
  <2>. QED BY <2>1, <2>3 DEF TreeInv, ValuesBacked
<1>. QED
  BY <1>1, Inductive, PTL

(* Every live node is reached from the root by the links on its prefix.    *)
THEOREM NodesAnchored == Spec => []Anchored
<1>1. IInv => Anchored
  BY DEF IInv, TreeInv
<1>. QED
  BY <1>1, Inductive, PTL

(* A suspended remove_at frame can trust the child index it holds.         *)
THEOREM FramesCorrect == Spec => []FramesValid
<1>1. IInv => FramesValid
  BY DEF IInv
<1>. QED
  BY <1>1, Inductive, PTL

(* Between calls the tree has no node without an entry or a child.         *)
THEOREM DeadNodesPruned == Spec => []NoDeadNodes
<1>1. IInv => NoDeadNodes
  BY DEF IInv
<1>. QED
  BY <1>1, Inductive, PTL

(* len() is the number of entries.                                         *)
THEOREM CountCorrect == Spec => []CountExact
<1>1. IInv => CountExact
  BY DEF IInv
<1>. QED
  BY <1>1, Inductive, PTL

(* Pruning never takes an entry or a subtree with it.                      *)
THEOREM PruningSafe == Spec => PruneOnlyDead
<1>1. IInv /\ [Next]_vars =>
        [\A r \in DOMAIN heap \ DOMAIN heap' :
           pc = "clear" \/ heap[r].internal \cup heap[r].external = {}]_vars
  BY PruneStep
<1>. QED
  BY <1>1, Inductive, PTL DEF Spec, PruneOnlyDead
------------------------------------------------------------------------------
(* What these invariants mean for the calls that run on the tree: no step  *)
(* of a call can panic, whatever was called before.                        *)

(* An element's rank is an index of a Vec with one slot per element, and   *)
(* the rank of any other position is a place to insert at.                 *)
LEMMA RankAtMost ==
  ASSUME NEW S \in Bitmap, NEW b \in Nibble
  PROVE  rank(S, b) \in 0..Cardinality(S)
<1>1. IsFiniteSet(S) /\ {x \in S : x < b} \subseteq S
  BY BitmapFinite
<1>. QED
  BY <1>1, FS_Subset, FS_CardinalityType, BitmapFinite DEF rank

LEMMA NibblesInRange ==
  ASSUME IInv
  PROVE  NibbleInRange
<1>1. ASSUME pc \in KeyOps, hop < fullHops \/ relLen > 0
      PROVE  hop < Strides
  <2>1. req \in Request /\ req.op \in KeyOps /\ hop <= fullHops /\ hop \in 0..Strides
    BY <1>1 DEF IInv, Control, TypeOK, Ops, KeyOps, PrefixOps
  <2>2. fullHops \in 0..Strides /\ (relLen > 0 => fullHops < Strides)
    BY <2>1, RequestFacts
  <2>. QED BY <1>1, <2>1, <2>2, BitsType
<1>. QED
  BY <1>1 DEF NibbleInRange, KeyOps, PrefixOps

LEMMA ChildrenInRange ==
  ASSUME IInv
  PROVE  ChildInRange
<1> SUFFICES ASSUME Walking, hop < Strides
             PROVE  IF nib \in here.external THEN childIdx < Len(here.children)
                                             ELSE childIdx <= Len(here.children)
  <2>1. pc \in KeyOps /\ hop < fullHops => hop < Strides
    BY NibblesInRange DEF NibbleInRange, KeyOps, PrefixOps
  <2>. QED BY <2>1 DEF ChildInRange, Walking, KeyOps, PrefixOps, LookupOps
<1>1. TypeOK /\ Control /\ TreeInv
  BY DEF IInv
<1>2. /\ node \in DOMAIN heap
      /\ here.external \in Bitmap
      /\ nib \in Nibble
  BY <1>1, WalkFacts
<1>3. Len(here.children) = Cardinality(here.external)
  BY <1>1, <1>2 DEF TreeInv, WellLinked, here
<1>4. childIdx \in 0..Cardinality(here.external) /\ Cardinality(here.external) \in Nat
  BY <1>2, RankAtMost, BitmapFinite DEF childIdx
<1>5. nib \in here.external => childIdx < Cardinality(here.external)
  BY <1>2, RankInBounds DEF childIdx
<1>. QED
  BY <1>3, <1>4, <1>5

LEMMA ValuesInRange ==
  ASSUME IInv
  PROVE  ValueInRange
<1> SUFFICES ASSUME pc \in KeyOps, hop = fullHops
             PROVE  IF bpos \in here.internal THEN valueIdx < Len(here.values)
                                              ELSE valueIdx <= Len(here.values)
  BY DEF ValueInRange, KeyOps, PrefixOps
<1>1. TypeOK /\ Control /\ TreeInv /\ Walking
  BY DEF IInv, Walking
<1>2. node \in DOMAIN heap /\ here \in TbNode /\ here.internal \in Bitmap
  BY <1>1, WalkFacts
<1>3. bpos \in 1..15 /\ bpos \in Nibble
  BY <1>1, TargetFacts DEF Nibble
<1>4. Len(here.values) >= Cardinality(here.internal) /\ Len(here.values) \in Nat
  BY <1>1, <1>2 DEF TreeInv, ValuesBacked, here, TbNode
<1>5. valueIdx \in 0..Cardinality(here.internal) /\ Cardinality(here.internal) \in Nat
  BY <1>2, <1>3, RankAtMost, BitmapFinite DEF valueIdx
<1>6. bpos \in here.internal => valueIdx < Cardinality(here.internal)
  BY <1>2, RankInBounds DEF valueIdx
<1>. QED
  BY <1>4, <1>5, <1>6

LEMMA LookupHitsInRange ==
  ASSUME IInv
  PROVE  HitsInRange
<1> SUFFICES ASSUME pc \in LookupOps
             PROVE  /\ best # None => best.len <= BITS
                    /\ \A b \in here.internal \cap (IF hop < Strides THEN MatchMask(nib) ELSE {1}) :
                         /\ rank(here.internal, b) < Len(here.values)
                         /\ hop * STRIDE + RelLen(b) <= BITS
  BY DEF HitsInRange
<1>1. TypeOK /\ Control /\ TreeInv /\ Walking
  BY DEF IInv, Walking
<1>2. best # None => best.len <= BITS
  BY <1>1, BitsType DEF TypeOK, Best
<1>3. /\ node \in DOMAIN heap /\ node \in IpPrefix /\ node.mask = 4 * hop
      /\ here = heap[node] /\ here \in TbNode /\ here.internal \in Bitmap
      /\ hop \in 0..Strides
  BY <1>1, WalkFacts DEF here
<1>4. ASSUME NEW b \in here.internal
      PROVE  rank(here.internal, b) < Len(here.values) /\ hop * STRIDE + RelLen(b) <= BITS
  <2>1. Len(here.values) >= Cardinality(here.internal) /\ Len(here.values) \in Nat
    BY <1>1, <1>3 DEF TreeInv, ValuesBacked, TbNode
  <2>2. /\ rank(here.internal, b) \in Nat
        /\ rank(here.internal, b) < Cardinality(here.internal)
        /\ Cardinality(here.internal) \in Nat
    BY <1>3, RankInBounds, BitmapFinite
  <2>3. NodeRef(node) /\ Slot(node, b)
    BY <1>1, <1>3, NodeFacts
  <2>4. node.mask + RelLen(b) <= BITS
    BY <1>3, <2>3, SlotFits
  <2>. QED BY <1>3, <2>1, <2>2, <2>4, BitsType
<1>. QED
  BY <1>2, <1>4

LEMMA UnwindsInRange ==
  ASSUME IInv
  PROVE  UnwindInRange
<1>1. ASSUME pc = "unwind", stack = <<>>, reply # None
      PROVE  CountAfterRemove(reply) >= 0
  <2>1. IsFiniteSet(Keys) /\ count = Cardinality(Keys) + 1
    BY <1>1 DEF IInv, TreeInv, CountExact
  <2>. QED BY <1>1, <2>1, FS_CardinalityType DEF CountAfterRemove
<1>2. ASSUME pc = "unwind", stack # <<>>
      PROVE  Last(stack).idx < Len(heap[Last(stack).node].children)
  <2> DEFINE frame == Last(stack)
  <2>1. /\ frame.node \in DOMAIN heap
        /\ frame.nib \in heap[frame.node].external
        /\ frame.idx = rank(heap[frame.node].external, frame.nib)
    BY <1>2, UnwindFacts
  <2>2. heap[frame.node].external \in Bitmap
    BY <2>1, NodeFacts DEF IInv
  <2>3. Len(heap[frame.node].children) = Cardinality(heap[frame.node].external)
    BY <2>1 DEF IInv, TreeInv, WellLinked
  <2>. QED BY <2>1, <2>2, <2>3, RankInBounds
<1>. QED
  BY <1>1, <1>2 DEF UnwindInRange

(* No call panics by itself, whatever was called before it: every slice    *)
(* index, shift amount and count is in range and longest_match_entry's     *)
(* unwrap gets a valid length.  This is what the fuzz target watches for.  *)
THEOREM CallsDoNotPanic == Spec => []NoPanic
<1>1. IInv => NoPanic
  BY NibblesInRange, ChildrenInRange, ValuesInRange, LookupHitsInRange, UnwindsInRange
     DEF NoPanic
<1>. QED
  BY <1>1, Inductive, PTL
=============================================================================
