------------------------- MODULE TreeBitmapIterProofs -------------------------
(***************************************************************************)
(* The iterator: its stack and its shifts, the order of what it returns,   *)
(* and that it hands out exactly the entries of the table.                 *)
(***************************************************************************)
EXTENDS TreeBitmapIterProps, TreeBitmapRefinement

CursorFrame == [node : IpPrefix, hop : 0..Strides, addr : Address,
                internal_cursor : 1..16, external_cursor : 0..16]

IterTyped ==
  /\ cursor \in {"none", "ready", "asked"}
  /\ frames \in Seq(CursorFrame)
  /\ item \in Item \cup {None}
  /\ seen \in Seq(IpPrefix)

(* The borrow of the iterator: while it is held the table is only read.    *)
Borrowed ==
  /\ cursor = "none" => frames = <<>> /\ seen = <<>> /\ item = None
  /\ cursor # "none" => pc = "idle" \/ req.op \in SharedOps

(* A frame stands on the path to every frame above it, and its external    *)
(* cursor has passed the nibble that path continues with.                  *)
Winding ==
  \A i, j \in DOMAIN frames :
    i < j => /\ Path(frames[j].node.ip, i - 1) = frames[i].node
             /\ nibble(frames[j].node.ip, i - 1) = frames[i].external_cursor - 1

(* The cursors of frame f have not come to entry q yet, in its node or     *)
(* below it.                                                               *)
Ahead(f, q) ==
  \/ Home(q) = f.node /\ BitOf(q) >= f.internal_cursor
  \/ /\ f.hop < Depth(q)
     /\ Path(q.ip, f.hop) = f.node
     /\ nibble(q.ip, f.hop) >= f.external_cursor

(* An entry has not been returned exactly if it is ahead of some frame.    *)
LeftAhead ==
  cursor # "none" =>
    \A q \in Keys : q \notin Range(seen) <=> \E i \in DOMAIN frames : Ahead(frames[i], q)

(* What was returned came in order, and what is left comes later.          *)
InOrder ==
  /\ DepthFirst
  /\ seen # <<>> => \A q \in Keys \ Range(seen) : Before(Last(seen), q)

IterInv ==
  /\ IInv /\ LookupInv
  /\ IterTyped /\ Borrowed /\ FramesOnPath /\ Winding /\ LeftAhead /\ InOrder
------------------------------------------------------------------------------
(* trailing_zeros finds the least bit of a bitmap that is not empty.       *)
LEMMA LeastBit ==
  ASSUME NEW S \in SUBSET Nibble, S # {}
  PROVE  NextBit(S) \in S /\ \A b \in S : NextBit(S) <= b
<1>1. S \in SUBSET Nat
  BY DEF Nibble
<1>2. PICK x \in S : \A y \in S : x <= y
  BY <1>1, LeastNatural
<1>. QED
  BY <1>2 DEF NextBit, Min

(* OR-ing bits into the zero bits of a node's address places them.         *)
LEMMA OrIsPlace ==
  ASSUME NEW r \in IpPrefix, NodeRef(r), NEW l \in 0..4, NEW v \in Nat
  PROVE  OrBits(r.ip, BITS - r.mask - l, l, v) = Place(r, l, v).ip
<1>. DEFINE bit(i) == (v \div Shl(l - (i - r.mask))) % 2
<1>1. r.mask \in Nat /\ r.ip \in Address
  BY BitsType DEF IpPrefix
<1>2. ASSUME NEW i \in 1..BITS, i \in (r.mask + 1)..(r.mask + l)
      PROVE  bit(i) \in {0, 1} /\ r.ip[i] = 0
  <2>1. i > r.mask /\ l - (i - r.mask) \in 0..3
    BY <1>1, <1>2
  <2>2. Shl(l - (i - r.mask)) \in {1, 2, 4, 8}
    BY <2>1, ShlValues
  <2>3. \A s \in {1, 2, 4, 8} : (v \div s) % 2 \in {0, 1}
    OBVIOUS
  <2>. QED BY <2>1, <2>2, <2>3, NodeRefBits
<1>. HIDE DEF bit
<1>3. \A i \in 1..BITS :
        (IF i \in (r.mask + 1)..(r.mask + l) /\ bit(i) = 1 THEN 1 ELSE r.ip[i])
          = IF i \in (r.mask + 1)..(r.mask + l) THEN bit(i) ELSE r.ip[i]
  BY <1>2
<1>4. BITS - (BITS - r.mask - l) - l = r.mask
  BY <1>1, BitsType
<1>. QED
  BY <1>3, <1>4 DEF OrBits, Place, bit

(* The address and the prefix the iterator puts together.                  *)
LEMMA ChildAddress ==
  ASSUME NEW r \in IpPrefix, NodeRef(r), NEW n \in Nibble
  PROVE  OrBits(r.ip, BITS - r.mask - STRIDE, STRIDE, n) = Child(r, n).ip
BY OrIsPlace, BitsType DEF Child, Nibble

LEMMA EntryAddress ==
  ASSUME NEW r \in IpPrefix, NodeRef(r), NEW b, Slot(r, b)
  PROVE  Entry(r, b).ip = IF IsShifted(b)
                          THEN OrBits(r.ip, BITS - r.mask - RelLen(b), RelLen(b), b - Shl(RelLen(b)))
                          ELSE r.ip
<1>1. RelLen(b) \in 0..4 /\ b - Shl(RelLen(b)) \in Nat
  BY RelLenValues, ShlValues DEF Slot
<1>2. CASE IsShifted(b)
  BY <1>1, <1>2, OrIsPlace DEF Entry
<1>3. CASE ~IsShifted(b)
  <2>1. RelLen(b) = 0 /\ r.mask \in Nat /\ r.ip = [i \in 1..BITS |-> r.ip[i]]
    BY <1>1, <1>3, BitsType DEF IsShifted, IpPrefix, Address
  <2>2. (r.mask + 1)..(r.mask + 0) = {}
    BY <2>1
  <2>. QED BY <1>3, <2>1, <2>2 DEF Entry, Place
<1>. QED
  BY <1>2, <1>3

------------------------------------------------------------------------------
(* The frame on top.                                                       *)
LEMMA TopFacts ==
  ASSUME frames \in Seq(CursorFrame), frames # <<>>
  PROVE  /\ Len(frames) \in Nat /\ Len(frames) >= 1 /\ Len(frames) \in DOMAIN frames
         /\ DOMAIN frames = 1..Len(frames)
         /\ top = frames[Len(frames)] /\ top \in CursorFrame
<1>1. Len(frames) \in Nat /\ DOMAIN frames = 1..Len(frames) /\ Len(frames) # 0
  BY EmptySeq, LenProperties
<1>. QED
  BY <1>1, ElementOfSeq DEF top, Last

(* What a frame stands on.                                                 *)
LEMMA FrameFacts ==
  ASSUME TypeOK, TreeInv, frames \in Seq(CursorFrame), FramesOnPath, NEW i \in DOMAIN frames
  PROVE  /\ frames[i] \in CursorFrame /\ i \in 1..Len(frames)
         /\ frames[i].node \in DOMAIN heap /\ frames[i].node \in IpPrefix
         /\ NodeRef(frames[i].node)
         /\ frames[i].hop = i - 1 /\ i - 1 \in 0..Strides
         /\ frames[i].node.mask = 4 * (i - 1)
         /\ frames[i].node = Path(frames[i].node.ip, i - 1)
         /\ frames[i].node.ip \in Address
         /\ frames[i].addr = frames[i].node.ip
         /\ heap[frames[i].node].internal \in SUBSET (1..15)
         /\ heap[frames[i].node].external \in SUBSET Nibble
         /\ heap[frames[i].node].external # {} => i - 1 < Strides
<1>1. frames[i] \in CursorFrame /\ i \in 1..Len(frames)
  BY LenProperties, ElementOfSeq
<1>2. /\ frames[i].node \in DOMAIN heap /\ frames[i].hop = i - 1 /\ i - 1 \in 0..Strides
      /\ frames[i].node.mask = 4 * (i - 1) /\ frames[i].addr = frames[i].node.ip
  BY <1>1, BitsType DEF FramesOnPath, CursorFrame
<1>3. /\ frames[i].node \in IpPrefix /\ NodeRef(frames[i].node)
      /\ heap[frames[i].node] \in TbNode
      /\ heap[frames[i].node].external # {} => frames[i].node.mask < BITS
      /\ frames[i].node = Path(frames[i].node.ip, frames[i].node.mask \div 4)
  BY <1>2, NodeFacts
<1>4. frames[i].node.mask \div 4 = i - 1
  <2>1. \A k \in 0..Strides : (4 * k) \div 4 = k
    BY BitsType
  <2>. QED BY <1>2, <2>1
<1>5. heap[frames[i].node].external # {} => i - 1 < Strides
  BY <1>2, <1>3, BitsType
<1>. QED
  BY <1>1, <1>2, <1>3, <1>4, <1>5 DEF TbNode, IpPrefix

(* An entry of a node on the stack is only ever ahead in that node.        *)
LEMMA OnStack ==
  ASSUME TypeOK, TreeInv, frames \in Seq(CursorFrame), FramesOnPath, Winding,
         NEW q \in Keys, NEW i \in DOMAIN frames, Home(q) = frames[i].node,
         NEW j \in DOMAIN frames, Ahead(frames[j], q)
  PROVE  j = i /\ BitOf(q) >= frames[i].internal_cursor
<1>1. /\ q.ip \in Address /\ Depth(q) \in 0..Strides /\ Home(q).mask = 4 * Depth(q)
      /\ Home(q) = Path(q.ip, Depth(q))
  BY KeyHome
<1>2. /\ i \in 1..Len(frames) /\ j \in 1..Len(frames)
      /\ frames[i].node.mask = 4 * (i - 1) /\ frames[j].node.mask = 4 * (j - 1)
      /\ frames[j].hop = j - 1 /\ j - 1 \in 0..Strides
      /\ frames[j].external_cursor \in 0..16
  BY FrameFacts DEF CursorFrame
<1>3. Len(frames) \in Nat
  BY LenProperties
<1>4. Depth(q) = i - 1
  <2>1. 4 * Depth(q) = 4 * (i - 1)
    BY ONLY <1>1, <1>2, Home(q) = frames[i].node
  <2>2. Depth(q) \in Nat /\ i \in Nat
    BY ONLY <1>1, <1>2, <1>3, BitsType
  <2>. QED BY ONLY <2>1, <2>2
<1>5. CASE Home(q) = frames[j].node /\ BitOf(q) >= frames[j].internal_cursor
  BY <1>2, <1>3, <1>5
<1>6. CASE /\ frames[j].hop < Depth(q) /\ nibble(q.ip, frames[j].hop) >= frames[j].external_cursor
  <2>1. j < i /\ j - 1 \in 0..Depth(q) /\ j - 1 < Depth(q)
    BY <1>1, <1>2, <1>3, <1>4, <1>6
  <2>2. nibble(frames[i].node.ip, j - 1) = frames[j].external_cursor - 1
    BY <2>1 DEF Winding
  <2>3. nibble(Home(q).ip, j - 1) = nibble(q.ip, j - 1)
    BY <1>1, <2>1, PathOfPath
  <2>4. nibble(q.ip, j - 1) = frames[j].external_cursor - 1
    BY <2>2, <2>3
  <2>5. \A e \in 0..16 : ~(e - 1 >= e)
    OBVIOUS
  <2>. QED BY <1>2, <1>6, <2>4, <2>5
<1>. QED
  BY <1>5, <1>6 DEF Ahead
------------------------------------------------------------------------------
(* An entry that comes before another is not below it.                     *)
LEMMA BeforeNotBelow ==
  ASSUME TypeOK, TreeInv, NEW p \in Keys, NEW q \in Keys, Before(p, q)
  PROVE  ~Iteration!Above(q, p)
<1>. SUFFICES ASSUME q.mask < p.mask, Covers(q, p.ip)
              PROVE  FALSE
  BY DEF Iteration!Above, Iteration!Covers, Covers
<1>. DEFINE hp == Depth(p)
            hq == Depth(q)
            bp == BitOf(p)
            bq == BitOf(q)
<1>1. /\ hp \in 0..Strides /\ hq \in 0..Strides /\ bp \in 1..15 /\ bq \in 1..15
      /\ p.mask = 4 * hp + RelLen(bp) /\ q.mask = 4 * hq + RelLen(bq)
      /\ p.ip \in Address /\ q.ip \in Address /\ q.mask \in 0..BITS
  BY KeyHome DEF IpPrefix
<1>2. \/ hp = hq /\ bp < bq
      \/ hp < hq
      \/ \E h \in 0..(Strides - 1) : h < hq /\ nibble(p.ip, h) < nibble(q.ip, h)
  BY DEF Before, Depth
<1>. HIDE DEF hp, hq, bp, bq
<1>3. RelLen(bp) \in 0..3 /\ RelLen(bq) \in 0..3 /\ (bp < bq => RelLen(bp) <= RelLen(bq))
  BY <1>1, RelLenValues
<1>4. ASSUME NEW h \in 0..(Strides - 1), h < hq
      PROVE  nibble(p.ip, h) = nibble(q.ip, h)
  <2>1. /\ 4 * h + 1 \in 1..q.mask /\ 4 * h + 2 \in 1..q.mask
        /\ 4 * h + 3 \in 1..q.mask /\ 4 * h + 4 \in 1..q.mask
    BY <1>1, <1>3, <1>4, BitsType
  <2>. QED BY <2>1, BitsType DEF nibble, Covers
<1>5. ASSUME NEW h \in 0..(Strides - 1), h < hq, nibble(p.ip, h) < nibble(q.ip, h)
      PROVE  FALSE
  BY <1>1, <1>4, <1>5, NibbleType DEF Nibble
<1>. QED
  BY <1>1, <1>2, <1>3, <1>5, BitsType

(* What next() is about to yield.                                          *)
LEMMA YieldFacts ==
  ASSUME TypeOK, TreeInv, frames \in Seq(CursorFrame), FramesOnPath, Winding, LeftAhead,
         cursor = "asked", frames # <<>>, internalLeft # {},
         NEW b, b = NextBit(internalLeft), NEW p, p = IterPrefix(top, b)
  PROVE  /\ b \in tree.internal /\ b \in 1..15 /\ b >= top.internal_cursor
         /\ \A c \in tree.internal : c >= top.internal_cursor => b <= c
         /\ p = Entry(top.node, b) /\ p \in Keys /\ p \notin Range(seen)
         /\ Home(p) = top.node /\ BitOf(p) = b /\ Depth(p) = top.hop
         /\ At(tree.values, rank(tree.internal, b)) = ValueOf(p)
         /\ ValueOf(p) \in Value
<1>1. Len(frames) \in DOMAIN frames /\ top = frames[Len(frames)]
  BY TopFacts
<1>2. /\ top \in CursorFrame /\ top.node \in DOMAIN heap /\ top.node \in IpPrefix /\ NodeRef(top.node)
      /\ top.node.mask = 4 * top.hop /\ top.addr = top.node.ip
      /\ tree.internal \in SUBSET (1..15) /\ top.hop \in 0..Strides
  BY <1>1, FrameFacts DEF tree
<1>3. /\ b \in tree.internal /\ b \in 1..15 /\ b >= top.internal_cursor
      /\ \A c \in tree.internal : c >= top.internal_cursor => b <= c
  <2>1. internalLeft \in SUBSET Nibble
    BY <1>2 DEF internalLeft, Nibble
  <2>2. b \in internalLeft /\ \A c \in internalLeft : b <= c
    BY <2>1, LeastBit
  <2>. QED BY <1>2, <2>2 DEF internalLeft
<1>4. Slot(top.node, b)
  BY <1>2, <1>3, NodeFacts DEF tree
<1>5. p = Entry(top.node, b)
  <2>1. top.hop * STRIDE = top.node.mask
    BY <1>2, BitsType
  <2>2. p.ip = Entry(top.node, b).ip
    BY <1>2, <1>4, <2>1, EntryAddress DEF IterPrefix, EntryShift
  <2>. QED BY <2>1, <2>2 DEF IterPrefix, Entry, Place
<1>6. p \in Keys /\ Home(p) = top.node /\ BitOf(p) = b
  BY <1>2, <1>3, <1>4, <1>5, KeyOfSlot, EntryHome DEF tree
<1>7. p \notin Range(seen)
  BY <1>1, <1>3, <1>6 DEF LeftAhead, Ahead
<1>8. Depth(p) = top.hop
  <2>1. Depth(p) \in 0..Strides /\ 4 * Depth(p) = 4 * top.hop
    BY <1>2, <1>6, KeyHome
  <2>. QED BY ONLY <1>2, <2>1, BitsType
<1>9. At(tree.values, rank(tree.internal, b)) = ValueOf(p)
  BY <1>2, <1>4, <1>5, EntryValue DEF tree
<1>10. ValueOf(p) \in Value
  BY <1>2, <1>3, <1>9, ValueFacts DEF tree
<1>. QED
  BY <1>3, <1>5, <1>6, <1>7, <1>8, <1>9, <1>10

(* It comes before all that is left.                                       *)
LEMMA YieldFirst ==
  ASSUME TypeOK, TreeInv, frames \in Seq(CursorFrame), FramesOnPath, Winding, LeftAhead,
         cursor = "asked", frames # <<>>, internalLeft # {},
         NEW b, b = NextBit(internalLeft), NEW p, p = IterPrefix(top, b),
         NEW q \in Keys \ Range(seen), q # p
  PROVE  Before(p, q)
<1>. DEFINE m == Len(frames)
<1>1. /\ m \in Nat /\ m \in DOMAIN frames /\ DOMAIN frames = 1..m /\ top = frames[m]
  BY TopFacts
<1>2. /\ top.node \in IpPrefix /\ top.hop = m - 1 /\ m - 1 \in 0..Strides
      /\ top.node = Path(top.node.ip, m - 1)
  BY <1>1, FrameFacts
<1>3. /\ b \in 1..15 /\ \A c \in tree.internal : c >= top.internal_cursor => b <= c
      /\ p = Entry(top.node, b) /\ p \in Keys
      /\ Home(p) = top.node /\ BitOf(p) = b /\ Depth(p) = m - 1
  BY <1>2, YieldFacts
<1>4. /\ p.ip \in Address /\ q.ip \in Address /\ Depth(q) \in 0..Strides
      /\ Home(q) = Path(q.ip, Depth(q)) /\ Path(p.ip, m - 1) = top.node
      /\ BitOf(q) \in heap[Home(q)].internal /\ BitOf(q) \in 1..15
      /\ q = Entry(Home(q), BitOf(q)) /\ Home(q).mask = 4 * Depth(q)
  BY <1>3, KeyHome
<1>5. PICK i \in DOMAIN frames : Ahead(frames[i], q)
  BY DEF LeftAhead
<1>6. /\ frames[i].hop = i - 1 /\ i - 1 \in 0..Strides /\ i \in 1..m
      /\ frames[i].node.mask = 4 * (i - 1)
  BY <1>1, FrameFacts
<1>. HIDE DEF m
<1>7. CASE Home(q) = frames[i].node /\ BitOf(q) >= frames[i].internal_cursor
  <2>1. i = m
    <3>. SUFFICES ASSUME i < m PROVE FALSE
      BY <1>1, <1>6
    <3>1. frames[i].internal_cursor = 16
      <4>1. i + 1 \in DOMAIN frames /\ i + 1 > 1 /\ (i + 1) - 1 = i
        BY <1>1, <1>6
      <4>. QED BY <4>1 DEF FramesOnPath
    <3>. QED BY <1>4, <1>7, <3>1
  <2>2. BitOf(q) \in tree.internal /\ BitOf(q) >= top.internal_cursor /\ BitOf(q) # b
    BY <1>1, <1>3, <1>4, <1>7, <2>1 DEF tree
  <2>3. b < BitOf(q)
    <3>1. b <= BitOf(q)
      BY ONLY <1>3, <2>2
    <3>. QED BY ONLY <1>3, <1>4, <2>2, <3>1
  <2>4. Depth(q) = m - 1
    <3>1. 4 * Depth(q) = 4 * (m - 1)
      BY ONLY <1>4, <1>6, <1>7, <2>1
    <3>2. Depth(q) \in Nat /\ m \in Nat
      BY ONLY <1>1, <1>4, BitsType
    <3>. QED BY ONLY <3>1, <3>2
  <2>. QED BY <1>1, <1>3, <1>4, <1>7, <2>1, <2>3, <2>4 DEF Before, Depth
<1>8. CASE /\ frames[i].hop < Depth(q) /\ Path(q.ip, frames[i].hop) = frames[i].node
           /\ nibble(q.ip, frames[i].hop) >= frames[i].external_cursor
  <2>1. CASE i = m
    BY <1>1, <1>2, <1>3, <1>4, <1>8, <2>1 DEF Before, Depth
  <2>2. CASE i < m
    <3>1. /\ Path(top.node.ip, i - 1) = frames[i].node
          /\ nibble(top.node.ip, i - 1) = frames[i].external_cursor - 1
      BY <1>1, <2>2 DEF Winding
    <3>2. i - 1 \in 0..(m - 1) /\ i - 1 < m - 1 /\ i - 1 \in 0..(Strides - 1)
      BY <1>1, <1>2, <1>6, <2>2, BitsType
    <3>3. /\ Path(p.ip, i - 1) = Path(top.node.ip, i - 1)
          /\ nibble(p.ip, i - 1) = nibble(top.node.ip, i - 1)
      BY <1>2, <1>4, <3>2, PathOfPath
    <3>4. frames[i].external_cursor \in Nat
      <4>1. frames[i] \in CursorFrame
        BY FrameFacts
      <4>. QED BY <4>1 DEF CursorFrame
    <3>5. nibble(q.ip, i - 1) \in Nat /\ nibble(p.ip, i - 1) \in Nat
      <4>1. nibble(q.ip, i - 1) \in Nibble /\ nibble(p.ip, i - 1) \in Nibble
        BY <1>4, <3>2, NibbleType
      <4>. QED BY <4>1 DEF Nibble
    <3>6. nibble(p.ip, i - 1) < nibble(q.ip, i - 1)
      <4>1. nibble(p.ip, i - 1) = frames[i].external_cursor - 1
        BY <3>1, <3>3
      <4>2. nibble(q.ip, i - 1) >= frames[i].external_cursor
        BY <1>6, <1>8
      <4>. QED BY ONLY <3>4, <3>5, <4>1, <4>2
    <3>. QED BY <1>3, <1>6, <1>8, <3>1, <3>2, <3>3, <3>6 DEF Before, Depth
  <2>. QED BY <1>1, <1>6, <2>1, <2>2
<1>. QED
  BY <1>5, <1>7, <1>8 DEF Ahead
------------------------------------------------------------------------------
(* Steps that leave the map alone.                                         *)
LEMMA MapKept ==
  ASSUME IterInv, UNCHANGED vars
  PROVE  /\ IInv' /\ LookupInv' /\ heap' = heap /\ Keys' = Keys /\ pc' = pc /\ req' = req
         /\ Table' = Table
<1>1. IInv /\ LookupInv /\ [Next]_vars
  BY DEF IterInv
<1>2. heap' = heap /\ pc' = pc /\ req' = req
  BY DEF vars
<1>3. Keys' = Keys
  BY <1>2 DEF Keys
<1>4. Table' = Table
  BY <1>2, <1>3 DEF Table, ValueOf
<1>. QED
  BY <1>1, <1>2, <1>3, <1>4, NextInv, LookupInvNext

(* Writing back the frame on top.                                          *)
LEMMA ReplaceTopFacts ==
  ASSUME frames \in Seq(CursorFrame), frames # <<>>, NEW f \in CursorFrame
  PROVE  /\ ReplaceTop(f) \in Seq(CursorFrame)
         /\ Len(ReplaceTop(f)) = Len(frames) /\ DOMAIN ReplaceTop(f) = DOMAIN frames
         /\ \A i \in DOMAIN frames : ReplaceTop(f)[i] = IF i = Len(frames) THEN f ELSE frames[i]
<1>1. Len(frames) \in 1..Len(frames) /\ DOMAIN frames = 1..Len(frames)
  BY TopFacts
<1>. QED
  BY <1>1, ExceptSeq, LenProperties DEF ReplaceTop

(* Appending to a sequence adds one element to its range.                  *)
LEMMA AppendRange ==
  ASSUME NEW S, NEW s \in Seq(S), NEW x \in S
  PROVE  Range(Append(s, x)) = Range(s) \cup {x}
<1>. DEFINE t == Append(s, x)
<1>1. /\ DOMAIN s = 1..Len(s) /\ Len(s) \in Nat /\ DOMAIN t = 1..(Len(s) + 1)
      /\ \A i \in 1..Len(s) : t[i] = s[i]
      /\ t[Len(s) + 1] = x
  BY AppendProperties, LenProperties
<1>. HIDE DEF t
<1>2. \A i \in DOMAIN t : i \in DOMAIN s \/ i = Len(s) + 1
  BY <1>1
<1>3. DOMAIN s \subseteq DOMAIN t /\ Len(s) + 1 \in DOMAIN t
  BY <1>1
<1>4. Range(t) = Range(s) \cup {x}
  BY <1>1, <1>2, <1>3 DEF Range
<1>. QED
  BY <1>4 DEF t

(* An entry is yielded.                                                    *)
LEMMA YieldInv ==
  ASSUME IterInv, Yield
  PROVE  IterInv'
<1>. DEFINE b == NextBit(internalLeft)
            p == IterPrefix(top, b)
            f == [top EXCEPT !.internal_cursor = b + 1]
            m == Len(frames)
<1>1. /\ IInv' /\ LookupInv' /\ heap' = heap /\ Keys' = Keys /\ pc' = pc /\ req' = req
      /\ TypeOK /\ TreeInv
  BY MapKept DEF Yield, IterInv, IInv
<1>2. /\ cursor = "asked" /\ frames # <<>> /\ internalLeft # {} /\ cursor' = "ready"
      /\ frames' = ReplaceTop(f) /\ seen' = Append(seen, p)
      /\ item' = [prefix |-> p, value |-> At(tree.values, rank(tree.internal, b))]
  BY DEF Yield
<1>3. /\ frames \in Seq(CursorFrame) /\ seen \in Seq(IpPrefix) /\ FramesOnPath /\ Winding
      /\ LeftAhead /\ InOrder /\ Borrowed
  BY DEF IterInv, IterTyped
<1>4. /\ b \in 1..15 /\ b >= top.internal_cursor
      /\ \A c \in tree.internal : c >= top.internal_cursor => b <= c
      /\ p = Entry(top.node, b) /\ p \in Keys /\ p \notin Range(seen)
      /\ Home(p) = top.node /\ BitOf(p) = b /\ Depth(p) = top.hop
      /\ At(tree.values, rank(tree.internal, b)) = ValueOf(p) /\ ValueOf(p) \in Value
  BY <1>1, <1>2, <1>3, YieldFacts
<1>5. \A q \in Keys \ Range(seen) : q # p => Before(p, q)
  BY <1>1, <1>2, <1>3, YieldFirst
<1>6. p \in IpPrefix
  BY <1>1, <1>4, KeyFacts
<1>. HIDE DEF b, p
<1>7. /\ m \in Nat /\ m \in DOMAIN frames /\ DOMAIN frames = 1..m /\ top = frames[m]
      /\ top \in CursorFrame
  BY <1>2, <1>3, TopFacts
<1>. HIDE DEF m
<1>8. /\ f \in CursorFrame /\ f.node = top.node /\ f.hop = top.hop /\ f.addr = top.addr
      /\ f.external_cursor = top.external_cursor /\ f.internal_cursor = b + 1
  <2>. DEFINE k == b + 1
  <2>1. k \in 1..16
    BY ONLY <1>4 DEF k
  <2>2. f = [top EXCEPT !.internal_cursor = k]
    BY DEF k
  <2>3. k = b + 1
    OBVIOUS
  <2>. HIDE DEF f, k
  <2>. QED BY ONLY <1>7, <2>1, <2>2, <2>3 DEF CursorFrame
<1>. HIDE DEF f
<1>9. /\ frames' \in Seq(CursorFrame) /\ DOMAIN frames' = DOMAIN frames
      /\ \A i \in DOMAIN frames : frames'[i] = IF i = m THEN f ELSE frames[i]
  BY <1>2, <1>3, <1>8, ReplaceTopFacts DEF m
<1>10. \A i \in DOMAIN frames :
         /\ frames'[i].node = frames[i].node /\ frames'[i].hop = frames[i].hop
         /\ frames'[i].addr = frames[i].addr
         /\ frames'[i].external_cursor = frames[i].external_cursor
         /\ i # m => frames'[i].internal_cursor = frames[i].internal_cursor
  BY <1>7, <1>8, <1>9
<1>11. IterTyped'
  <2>1. item' \in Item
    BY <1>2, <1>4, <1>6 DEF Item
  <2>2. seen' \in Seq(IpPrefix)
    BY <1>2, <1>3, <1>6, AppendProperties
  <2>. QED BY <1>2, <1>9, <2>1, <2>2 DEF IterTyped
<1>12. Borrowed'
  BY <1>1, <1>2, <1>3 DEF Borrowed
<1>13. FramesOnPath'
  <2>. SUFFICES ASSUME NEW i \in DOMAIN frames
                PROVE  /\ frames'[i].node \in DOMAIN heap /\ frames'[i].hop = i - 1
                       /\ frames'[i].node.mask = frames'[i].hop * STRIDE
                       /\ frames'[i].addr = frames'[i].node.ip
                       /\ i = 1 => frames'[i].node = Root
                       /\ i > 1 => LET up == frames'[i - 1]
                                   IN  /\ up.internal_cursor = 16
                                       /\ up.external_cursor - 1 \in heap[up.node].external
                                       /\ frames'[i].node = Child(up.node, up.external_cursor - 1)
    BY <1>1, <1>9 DEF FramesOnPath
  <2>1. /\ frames[i].node \in DOMAIN heap /\ frames[i].hop = i - 1
        /\ frames[i].node.mask = frames[i].hop * STRIDE
        /\ frames[i].addr = frames[i].node.ip
        /\ i = 1 => frames[i].node = Root
        /\ i > 1 => LET up == frames[i - 1]
                    IN  /\ up.internal_cursor = 16
                        /\ up.external_cursor - 1 \in heap[up.node].external
                        /\ frames[i].node = Child(up.node, up.external_cursor - 1)
    BY <1>3 DEF FramesOnPath
  <2>2. i > 1 => i - 1 \in DOMAIN frames /\ i - 1 # m
    BY <1>7
  <2>. QED BY <1>10, <2>1, <2>2
<1>14. Winding'
  <2>. SUFFICES ASSUME NEW i \in DOMAIN frames, NEW j \in DOMAIN frames, i < j
                PROVE  /\ Path(frames'[j].node.ip, i - 1) = frames'[i].node
                       /\ nibble(frames'[j].node.ip, i - 1) = frames'[i].external_cursor - 1
    BY <1>9 DEF Winding
  <2>. QED BY <1>3, <1>10 DEF Winding
<1>15. Range(seen') = Range(seen) \cup {p}
  BY <1>2, <1>3, <1>6, AppendRange
<1>16. LeftAhead'
  <2>1. ASSUME NEW q \in Keys
        PROVE  Ahead(f, q) <=> Ahead(top, q) /\ q # p
    <3>1. /\ BitOf(q) \in 1..15 /\ BitOf(q) \in heap[Home(q)].internal
          /\ q = Entry(Home(q), BitOf(q)) /\ Depth(q) \in 0..Strides
      BY <1>1, KeyHome
    <3>2. top.hop \in 0..Strides /\ top.internal_cursor \in 1..16
      BY <1>7 DEF CursorFrame
    <3>3. Home(q) = top.node =>
            (BitOf(q) >= b + 1 <=> BitOf(q) >= top.internal_cursor /\ q # p)
      <4>1. CASE q = p
        BY <1>4, <4>1
      <4>2. ASSUME q # p, Home(q) = top.node
            PROVE  BitOf(q) >= b + 1 <=> BitOf(q) >= top.internal_cursor
        <5>1. BitOf(q) # b /\ (BitOf(q) >= top.internal_cursor => b <= BitOf(q))
          BY <1>4, <3>1, <4>2 DEF tree
        <5>. QED BY <1>4, <3>1, <3>2, <5>1
      <4>. QED BY <4>1, <4>2
    <3>4. top.hop < Depth(q) => q # p
      BY <1>4, <3>1, <3>2
    <3>. QED BY <1>8, <3>3, <3>4 DEF Ahead
  <2>2. ASSUME NEW i \in DOMAIN frames, i # m, Ahead(frames[i], p)
        PROVE  FALSE
    BY <1>1, <1>3, <1>4, <1>7, <2>2, OnStack
  <2>3. ASSUME NEW q \in Keys
        PROVE  q \notin Range(seen') <=> \E i \in DOMAIN frames : Ahead(frames'[i], q)
    <3>1. q \notin Range(seen) <=> \E i \in DOMAIN frames : Ahead(frames[i], q)
      BY <1>2, <1>3 DEF LeftAhead
    <3>2. \A i \in DOMAIN frames : Ahead(frames'[i], q) <=> Ahead(frames[i], q) /\ q # p
      BY <1>7, <1>9, <2>1, <2>2
    <3>. QED BY <1>15, <3>1, <3>2
  <2>. QED BY <1>1, <1>9, <2>3 DEF LeftAhead
<1>17. InOrder'
  <2>1. /\ Len(seen) \in Nat /\ Len(seen') = Len(seen) + 1
        /\ \A i \in 1..Len(seen) : seen'[i] = seen[i]
        /\ seen'[Len(seen) + 1] = p /\ seen' # <<>>
    BY <1>2, <1>3, <1>6, AppendProperties, LenProperties
  <2>2. DepthFirst'
    <3>. SUFFICES ASSUME NEW i \in 1..Len(seen)
                  PROVE  Before(seen'[i], seen'[i + 1])
      BY <2>1 DEF DepthFirst
    <3>1. CASE i < Len(seen)
      BY <1>3, <2>1, <3>1 DEF InOrder, DepthFirst
    <3>2. CASE i = Len(seen)
      <4>1. seen # <<>> /\ Last(seen) = seen[i]
        BY <1>3, <2>1, <3>2, EmptySeq DEF Last
      <4>. QED BY <1>3, <1>4, <2>1, <3>2, <4>1 DEF InOrder
    <3>. QED BY <2>1, <3>1, <3>2
  <2>3. Last(seen') = p
    BY <2>1 DEF Last
  <2>4. \A q \in Keys \ Range(seen') : Before(p, q)
    BY <1>5, <1>15
  <2>. QED BY <1>1, <2>2, <2>3, <2>4 DEF InOrder
<1>. QED
  BY <1>1, <1>11, <1>12, <1>13, <1>14, <1>16, <1>17 DEF IterInv

(* The child next() is about to enter.                                     *)
LEMMA EnterFacts ==
  ASSUME TypeOK, TreeInv, frames \in Seq(CursorFrame), FramesOnPath,
         frames # <<>>, externalLeft # {}, NEW n, n = NextBit(externalLeft)
  PROVE  /\ n \in tree.external /\ n \in Nibble /\ n >= top.external_cursor
         /\ \A c \in tree.external : c >= top.external_cursor => n <= c
         /\ At(tree.children, rank(tree.external, n)) = Child(top.node, n)
         /\ Child(top.node, n) \in DOMAIN heap /\ Child(top.node, n) \in IpPrefix
         /\ OrBits(top.addr, ChildShift(top), STRIDE, n) = Child(top.node, n).ip
         /\ top.hop \in 0..(Strides - 1)
         /\ Child(top.node, n).mask = 4 * (top.hop + 1)
         /\ Path(Child(top.node, n).ip, top.hop) = top.node
         /\ nibble(Child(top.node, n).ip, top.hop) = n
         /\ \A k \in 0..(top.hop - 1) :
              /\ Path(Child(top.node, n).ip, k) = Path(top.node.ip, k)
              /\ nibble(Child(top.node, n).ip, k) = nibble(top.node.ip, k)
<1>1. Len(frames) \in DOMAIN frames /\ top = frames[Len(frames)]
  BY TopFacts
<1>2. /\ top \in CursorFrame /\ top.node \in DOMAIN heap /\ top.node \in IpPrefix /\ NodeRef(top.node)
      /\ top.node.mask = 4 * top.hop /\ top.addr = top.node.ip
      /\ tree.external \in SUBSET Nibble /\ top.hop \in 0..Strides
      /\ top.node = Path(top.node.ip, top.hop)
      /\ tree.external # {} => top.hop < Strides
  BY <1>1, FrameFacts DEF tree
<1>3. /\ n \in tree.external /\ n \in Nibble /\ n >= top.external_cursor
      /\ \A c \in tree.external : c >= top.external_cursor => n <= c
  <2>1. externalLeft \in SUBSET Nibble
    BY <1>2 DEF externalLeft
  <2>2. n \in externalLeft /\ \A c \in externalLeft : n <= c
    BY <2>1, LeastBit
  <2>. QED BY <1>2, <2>2 DEF externalLeft
<1>4. top.hop \in 0..(Strides - 1) /\ top.hop * STRIDE = top.node.mask
  BY <1>2, <1>3, BitsType
<1>5. /\ At(tree.children, rank(tree.external, n)) = Child(top.node, n)
      /\ Child(top.node, n) \in DOMAIN heap
  BY <1>2, <1>3 DEF TreeInv, WellLinked, tree
<1>6. OrBits(top.addr, ChildShift(top), STRIDE, n) = Child(top.node, n).ip
  <2>1. ChildShift(top) = BITS - top.node.mask - STRIDE
    BY <1>4, BitsType DEF ChildShift
  <2>. QED BY <1>2, <1>3, <2>1, ChildAddress
<1>. QED
  BY <1>2, <1>3, <1>4, <1>5, <1>6, ChildWinds

(* Between the node and the child the entries below it are divided.        *)
LEMMA AheadDivided ==
  ASSUME TypeOK, TreeInv, frames \in Seq(CursorFrame), FramesOnPath,
         frames # <<>>, internalLeft = {}, externalLeft # {},
         NEW n, n = NextBit(externalLeft), NEW f \in CursorFrame, NEW g \in CursorFrame,
         f.node = top.node, f.hop = top.hop, f.internal_cursor = 16, f.external_cursor = n + 1,
         g.node = Child(top.node, n), g.hop = top.hop + 1,
         g.internal_cursor = 1, g.external_cursor = 0,
         NEW q \in Keys
  PROVE  Ahead(top, q) <=> Ahead(f, q) \/ Ahead(g, q)
<1>. DEFINE h == top.hop
            c == Child(top.node, n)
            d == Depth(q)
<1>1. /\ n \in tree.external /\ n \in Nibble /\ n >= top.external_cursor
      /\ \A k \in tree.external : k >= top.external_cursor => n <= k
      /\ h \in 0..(Strides - 1) /\ c.mask = 4 * (h + 1) /\ c \in IpPrefix
      /\ Path(c.ip, h) = top.node /\ nibble(c.ip, h) = n
  BY EnterFacts
<1>2. /\ q.ip \in Address /\ d \in 0..Strides /\ Home(q) = Path(q.ip, d)
      /\ Home(q).mask = 4 * d
      /\ BitOf(q) \in heap[Home(q)].internal /\ BitOf(q) \in 1..15
      /\ \A k \in 0..(d - 1) : nibble(q.ip, k) \in heap[Path(q.ip, k)].external
  BY KeyHome
<1>3. top.external_cursor \in 0..16 /\ top.internal_cursor \in 1..16
  BY TopFacts DEF CursorFrame
<1>. DEFINE x == nibble(q.ip, h)
<1>4. h < d => x \in Nibble
  BY <1>1, <1>2, NibbleType
<1>5. h < d /\ Path(q.ip, h) = top.node => x \in tree.external
  BY <1>1, <1>2 DEF tree
<1>6. h < d /\ Path(q.ip, h) = top.node /\ x = n => Path(q.ip, h + 1) = c
  BY <1>1, <1>2, ChildOnPath
<1>7. ASSUME Path(q.ip, h + 1) = c, h + 1 <= d
      PROVE  Path(q.ip, h) = top.node /\ x = n
  <2>1. h + 1 \in 0..Strides /\ h \in 0..(h + 1) /\ h < h + 1
    BY <1>1, BitsType
  <2>. QED BY <1>1, <1>2, <1>7, <2>1, PathOfPath
<1>. HIDE DEF h, c, d, x
<1>8. Ahead(top, q) <=> h < d /\ Path(q.ip, h) = top.node /\ x >= top.external_cursor
  <2>1. ~(Home(q) = top.node /\ BitOf(q) >= top.internal_cursor)
    BY <1>2 DEF internalLeft, tree
  <2>. QED BY <2>1 DEF Ahead, h, d, x
<1>9. Ahead(f, q) <=> h < d /\ Path(q.ip, h) = top.node /\ x >= n + 1
  <2>1. ~(BitOf(q) >= f.internal_cursor)
    BY <1>2
  <2>. QED BY <2>1 DEF Ahead, h, d, x
<1>10. Ahead(g, q) <=> h + 1 <= d /\ Path(q.ip, h + 1) = c
  <2>1. Home(q) = c => d = h + 1
    BY <1>1, <1>2, BitsType
  <2>2. BitOf(q) >= 1
    BY <1>2
  <2>3. h + 1 < d => nibble(q.ip, h + 1) >= 0
    <3>. SUFFICES ASSUME h + 1 < d PROVE nibble(q.ip, h + 1) >= 0
      OBVIOUS
    <3>1. h + 1 \in 0..(Strides - 1)
      BY <1>1, <1>2, BitsType
    <3>2. nibble(q.ip, h + 1) \in Nibble
      BY <1>2, <3>1, NibbleType
    <3>. QED BY <3>2 DEF Nibble
  <2>4. Ahead(g, q) <=> \/ Home(q) = c /\ BitOf(q) >= 1
                        \/ h + 1 < d /\ Path(q.ip, h + 1) = c /\ nibble(q.ip, h + 1) >= 0
    BY DEF Ahead, h, c, d
  <2>. QED BY <1>1, <1>2, <2>1, <2>2, <2>3, <2>4
<1>11. h < d <=> h + 1 <= d
  BY <1>1, <1>2
<1>12. x \in Nibble /\ x \in tree.external => (x >= top.external_cursor <=> x >= n + 1 \/ x = n)
  <2>. SUFFICES ASSUME x \in Nibble, x \in tree.external
                PROVE  x >= top.external_cursor <=> x >= n + 1 \/ x = n
    OBVIOUS
  <2>1. x >= top.external_cursor => n <= x
    BY <1>1
  <2>2. x \in Int /\ n \in Int /\ top.external_cursor \in Int /\ n >= top.external_cursor
    BY <1>1, <1>3 DEF Nibble
  <2>. QED BY ONLY <2>1, <2>2
<1>. QED
  BY <1>4, <1>5, <1>6, <1>7, <1>8, <1>9, <1>10, <1>11, <1>12

(* The child is entered.                                                   *)
LEMMA EnterChildInv ==
  ASSUME IterInv, EnterChild
  PROVE  IterInv'
<1>. DEFINE n == NextBit(externalLeft)
            c == Child(top.node, n)
            f == [Exhausted EXCEPT !.external_cursor = n + 1]
            g == IterFrame(c, top.hop + 1, c.ip)
            m == Len(frames)
            under == ReplaceTop(f)
<1>1. /\ IInv' /\ LookupInv' /\ heap' = heap /\ Keys' = Keys /\ pc' = pc /\ req' = req
      /\ TypeOK /\ TreeInv
  BY MapKept DEF EnterChild, IterInv, IInv
<1>2. /\ frames \in Seq(CursorFrame) /\ FramesOnPath /\ Winding
      /\ LeftAhead /\ InOrder /\ Borrowed /\ IterTyped
  BY DEF IterInv, IterTyped
<1>3. /\ cursor = "asked" /\ frames # <<>> /\ internalLeft = {} /\ externalLeft # {}
      /\ cursor' = cursor /\ item' = item /\ seen' = seen
  BY DEF EnterChild
<1>4. /\ n \in tree.external /\ n \in Nibble
      /\ At(tree.children, rank(tree.external, n)) = c
      /\ c \in DOMAIN heap /\ c \in IpPrefix
      /\ OrBits(top.addr, ChildShift(top), STRIDE, n) = c.ip
      /\ top.hop \in 0..(Strides - 1) /\ c.mask = 4 * (top.hop + 1)
      /\ Path(c.ip, top.hop) = top.node /\ nibble(c.ip, top.hop) = n
      /\ \A k \in 0..(top.hop - 1) : /\ Path(c.ip, k) = Path(top.node.ip, k)
                                     /\ nibble(c.ip, k) = nibble(top.node.ip, k)
  BY <1>1, <1>2, <1>3, EnterFacts
<1>5. frames' = Append(under, g)
  BY <1>4 DEF EnterChild
<1>6. /\ m \in Nat /\ m \in DOMAIN frames /\ DOMAIN frames = 1..m /\ top = frames[m]
      /\ top \in CursorFrame /\ top.hop = m - 1
  BY <1>1, <1>2, <1>3, TopFacts, FrameFacts
<1>7. /\ f \in CursorFrame /\ f.node = top.node /\ f.hop = top.hop /\ f.addr = top.addr
      /\ f.internal_cursor = 16 /\ f.external_cursor = n + 1
  <2>1. n + 1 \in 0..16
    BY <1>4 DEF Nibble
  <2>. HIDE DEF n
  <2>2. /\ Exhausted \in CursorFrame /\ Exhausted.node = top.node /\ Exhausted.hop = top.hop
        /\ Exhausted.addr = top.addr /\ Exhausted.internal_cursor = 16
    <3>1. top \in CursorFrame
      BY <1>6
    <3>. QED BY ONLY <3>1 DEF Exhausted, CursorFrame
  <2>3. f = [Exhausted EXCEPT !.external_cursor = n + 1]
    OBVIOUS
  <2>. HIDE DEF f
  <2>. QED BY ONLY <2>1, <2>2, <2>3 DEF CursorFrame
<1>8. /\ g \in CursorFrame /\ g.node = c /\ g.hop = top.hop + 1 /\ g.addr = c.ip
      /\ g.internal_cursor = 1 /\ g.external_cursor = 0
  BY <1>4, BitsType DEF IterFrame, CursorFrame, IpPrefix
<1>9. \A q \in Keys : Ahead(top, q) <=> Ahead(f, q) \/ Ahead(g, q)
  <2>. HIDE DEF f, g
  <2>. QED BY <1>1, <1>2, <1>3, <1>7, <1>8, AheadDivided
<1>. HIDE DEF n, c, f, g, m
<1>10. /\ under \in Seq(CursorFrame) /\ Len(under) = m
       /\ \A i \in 1..m : under[i] = IF i = m THEN f ELSE frames[i]
  BY <1>2, <1>3, <1>6, <1>7, ReplaceTopFacts DEF m
<1>. HIDE DEF under
<1>11. /\ frames' \in Seq(CursorFrame) /\ DOMAIN frames' = 1..(m + 1) /\ Len(frames') = m + 1
       /\ frames'[m + 1] = g
       /\ \A i \in 1..m : frames'[i] = IF i = m THEN f ELSE frames[i]
  BY <1>5, <1>8, <1>10, AppendProperties, LenProperties
<1>12. \A i \in 1..m :
         /\ i \in DOMAIN frames /\ i \in DOMAIN frames'
         /\ frames'[i].node = frames[i].node /\ frames'[i].hop = frames[i].hop
         /\ frames'[i].addr = frames[i].addr
         /\ i # m => frames'[i] = frames[i]
  BY <1>6, <1>7, <1>11
<1>13. IterTyped' /\ Borrowed' /\ InOrder'
  <2>1. DepthFirst' <=> DepthFirst
    BY <1>3 DEF DepthFirst
  <2>. QED BY <1>1, <1>2, <1>3, <1>11, <2>1 DEF IterTyped, Borrowed, InOrder
<1>14. FramesOnPath'
  <2>. SUFFICES ASSUME NEW i \in 1..(m + 1)
                PROVE  /\ frames'[i].node \in DOMAIN heap /\ frames'[i].hop = i - 1
                       /\ frames'[i].node.mask = frames'[i].hop * STRIDE
                       /\ frames'[i].addr = frames'[i].node.ip
                       /\ i = 1 => frames'[i].node = Root
                       /\ i > 1 => LET up == frames'[i - 1]
                                   IN  /\ up.internal_cursor = 16
                                       /\ up.external_cursor - 1 \in heap[up.node].external
                                       /\ frames'[i].node = Child(up.node, up.external_cursor - 1)
    BY <1>1, <1>11 DEF FramesOnPath
  <2>1. CASE i = m + 1
    <3>1. /\ frames'[i] = g /\ i - 1 = m /\ frames'[i - 1] = f /\ i > 1
      BY <1>6, <1>11, <2>1
    <3>2. g.hop = i - 1 /\ g.node.mask = g.hop * STRIDE
      BY <1>4, <1>6, <1>8, <2>1, BitsType
    <3>3. f.external_cursor - 1 = n
      BY <1>4, <1>7 DEF Nibble
    <3>. QED BY <1>4, <1>7, <1>8, <3>1, <3>2, <3>3 DEF tree, c
  <2>2. CASE i \in 1..m
    <3>1. /\ frames[i].node \in DOMAIN heap /\ frames[i].hop = i - 1
          /\ frames[i].node.mask = frames[i].hop * STRIDE
          /\ frames[i].addr = frames[i].node.ip
          /\ i = 1 => frames[i].node = Root
          /\ i > 1 => LET up == frames[i - 1]
                      IN  /\ up.internal_cursor = 16
                          /\ up.external_cursor - 1 \in heap[up.node].external
                          /\ frames[i].node = Child(up.node, up.external_cursor - 1)
      BY <1>2, <1>12, <2>2 DEF FramesOnPath
    <3>2. i > 1 => i - 1 \in 1..m /\ i - 1 # m
      BY <1>6, <2>2
    <3>. QED BY <1>12, <2>2, <3>1, <3>2
  <2>. QED BY <1>6, <2>1, <2>2
<1>15. Winding'
  <2>. SUFFICES ASSUME NEW i \in 1..(m + 1), NEW j \in 1..(m + 1), i < j
                PROVE  /\ Path(frames'[j].node.ip, i - 1) = frames'[i].node
                       /\ nibble(frames'[j].node.ip, i - 1) = frames'[i].external_cursor - 1
    BY <1>11 DEF Winding
  <2>1. i \in 1..m /\ (j = m + 1 \/ j \in 1..m)
    BY <1>6
  <2>2. CASE j \in 1..m
    <3>1. i # m
      BY <1>6, <2>1, <2>2
    <3>2. i \in DOMAIN frames /\ j \in DOMAIN frames
      BY <1>12, <2>1, <2>2
    <3>3. /\ Path(frames[j].node.ip, i - 1) = frames[i].node
          /\ nibble(frames[j].node.ip, i - 1) = frames[i].external_cursor - 1
      BY <1>2, <3>2 DEF Winding
    <3>. QED BY <1>12, <2>1, <2>2, <3>1, <3>3
  <2>3. CASE j = m + 1 /\ i = m
    <3>1. f.external_cursor - 1 = n
      BY <1>4, <1>7 DEF Nibble
    <3>. QED BY <1>4, <1>6, <1>7, <1>8, <1>11, <2>1, <2>3, <3>1
  <2>4. CASE j = m + 1 /\ i < m
    <3>1. i - 1 \in 0..(top.hop - 1)
      BY <1>6, <2>1, <2>4
    <3>2. /\ Path(frames[m].node.ip, i - 1) = frames[i].node
          /\ nibble(frames[m].node.ip, i - 1) = frames[i].external_cursor - 1
      BY <1>2, <1>6, <2>1, <2>4 DEF Winding
    <3>3. frames'[i] = frames[i] /\ frames'[j].node = c
      BY <1>6, <1>8, <1>11, <1>12, <2>1, <2>4
    <3>. QED BY <1>4, <1>6, <3>1, <3>2, <3>3
  <2>. QED BY <1>6, <2>1, <2>2, <2>3, <2>4
<1>16. LeftAhead'
  <2>. SUFFICES ASSUME NEW q \in Keys
                PROVE  q \notin Range(seen) <=> \E i \in 1..(m + 1) : Ahead(frames'[i], q)
    BY <1>1, <1>3, <1>11 DEF LeftAhead
  <2>1. q \notin Range(seen) <=> \E i \in 1..m : Ahead(frames[i], q)
    BY <1>2, <1>3, <1>6 DEF LeftAhead
  <2>2. \A i \in 1..m : i # m => (Ahead(frames'[i], q) <=> Ahead(frames[i], q))
    BY <1>12
  <2>3. Ahead(frames[m], q) <=> Ahead(frames'[m], q) \/ Ahead(frames'[m + 1], q)
    BY <1>6, <1>9, <1>11
  <2>4. \A i : i \in 1..(m + 1) <=> i \in 1..m \/ i = m + 1
    BY <1>6
  <2>5. m \in 1..m
    BY <1>6
  <2>. QED BY <2>1, <2>2, <2>3, <2>4, <2>5
<1>. QED
  BY <1>1, <1>13, <1>14, <1>15, <1>16 DEF IterInv

(* A node is left: nothing was ahead of its cursors.                       *)
LEMMA LeaveNodeInv ==
  ASSUME IterInv, LeaveNode
  PROVE  IterInv'
<1>. DEFINE m == Len(frames)
<1>1. /\ IInv' /\ LookupInv' /\ heap' = heap /\ Keys' = Keys /\ pc' = pc /\ req' = req
      /\ TypeOK /\ TreeInv
  BY MapKept DEF LeaveNode, IterInv, IInv
<1>2. /\ frames \in Seq(CursorFrame) /\ FramesOnPath /\ Winding
      /\ LeftAhead /\ InOrder /\ Borrowed /\ IterTyped
  BY DEF IterInv, IterTyped
<1>3. /\ cursor = "asked" /\ frames # <<>> /\ internalLeft = {} /\ externalLeft = {}
      /\ cursor' = cursor /\ item' = item /\ seen' = seen /\ frames' = Front(frames)
  BY DEF LeaveNode
<1>4. /\ m \in Nat /\ m \in DOMAIN frames /\ DOMAIN frames = 1..m /\ top = frames[m]
      /\ top.hop \in 0..Strides
  BY <1>2, <1>3, TopFacts DEF CursorFrame
<1>5. /\ frames' \in Seq(CursorFrame) /\ DOMAIN frames' = 1..(m - 1)
      /\ \A i \in 1..(m - 1) : frames'[i] = frames[i]
  <2>1. \A i \in 1..(m - 1) : frames[i] \in CursorFrame
    BY <1>2, <1>4, ElementOfSeq
  <2>2. Front(frames) = SubSeq(frames, 1, m - 1)
    BY <1>2 DEF Front
  <2>3. /\ frames' \in Seq(CursorFrame) /\ Len(frames') = m - 1
        /\ \A i \in 1..(m - 1) : frames'[i] = frames[i]
    <3>. HIDE DEF m
    <3>. QED BY <1>3, <1>4, <2>1, <2>2, SubSeqProperties
  <2>. QED BY <2>3, LenProperties
<1>. HIDE DEF m
<1>6. \A i \in 1..(m - 1) : i \in 1..m
  BY <1>4
<1>7. IterTyped' /\ Borrowed' /\ InOrder'
  <2>1. DepthFirst' <=> DepthFirst
    BY <1>3 DEF DepthFirst
  <2>. QED BY <1>1, <1>2, <1>3, <1>5, <2>1 DEF IterTyped, Borrowed, InOrder
<1>8. FramesOnPath'
  <2>. SUFFICES ASSUME NEW i \in 1..(m - 1)
                PROVE  /\ frames'[i].node \in DOMAIN heap /\ frames'[i].hop = i - 1
                       /\ frames'[i].node.mask = frames'[i].hop * STRIDE
                       /\ frames'[i].addr = frames'[i].node.ip
                       /\ i = 1 => frames'[i].node = Root
                       /\ i > 1 => LET up == frames'[i - 1]
                                   IN  /\ up.internal_cursor = 16
                                       /\ up.external_cursor - 1 \in heap[up.node].external
                                       /\ frames'[i].node = Child(up.node, up.external_cursor - 1)
    BY <1>1, <1>5 DEF FramesOnPath
  <2>1. i > 1 => i - 1 \in 1..(m - 1)
    BY <1>4
  <2>. QED BY <1>2, <1>4, <1>5, <1>6, <2>1 DEF FramesOnPath
<1>9. Winding'
  BY <1>2, <1>4, <1>5, <1>6 DEF Winding
<1>10. LeftAhead'
  <2>. SUFFICES ASSUME NEW q \in Keys
                PROVE  q \notin Range(seen) <=> \E i \in 1..(m - 1) : Ahead(frames'[i], q)
    BY <1>1, <1>3, <1>5 DEF LeftAhead
  <2>1. q \notin Range(seen) <=> \E i \in 1..m : Ahead(frames[i], q)
    BY <1>2, <1>3, <1>4 DEF LeftAhead
  <2>2. ~Ahead(top, q)
    <3>1. /\ BitOf(q) \in heap[Home(q)].internal /\ Depth(q) \in 0..Strides
          /\ \A k \in 0..(Depth(q) - 1) : nibble(q.ip, k) \in heap[Path(q.ip, k)].external
      BY <1>1, KeyHome
    <3>2. ~(Home(q) = top.node /\ BitOf(q) >= top.internal_cursor)
      BY <1>3, <3>1 DEF internalLeft, tree
    <3>3. top.hop < Depth(q) => top.hop \in 0..(Depth(q) - 1)
      BY <1>4, <3>1
    <3>. QED BY <1>3, <3>1, <3>2, <3>3 DEF Ahead, externalLeft, tree
  <2>3. \A i \in 1..m : i = m \/ i \in 1..(m - 1)
    BY <1>4
  <2>. QED BY <1>4, <1>5, <1>6, <2>1, <2>2, <2>3
<1>. QED
  BY <1>1, <1>7, <1>8, <1>9, <1>10 DEF IterInv

(* A fresh iterator has everything ahead of it.                            *)
LEMMA OpenInv ==
  ASSUME IterInv, Open
  PROVE  IterInv'
<1>. DEFINE f == IterFrame(Root, 0, Root.ip)
<1>1. /\ IInv' /\ LookupInv' /\ heap' = heap /\ Keys' = Keys /\ pc' = pc /\ req' = req
      /\ TypeOK /\ TreeInv
  BY MapKept DEF Open, IterInv, IInv
<1>2. /\ cursor' = "ready" /\ frames' = <<f>> /\ item' = None /\ seen' = <<>>
      /\ pc = "idle" \/ req.op \in SharedOps
  BY DEF Open
<1>3. /\ f \in CursorFrame /\ f.node = Root /\ f.hop = 0 /\ f.addr = Root.ip
      /\ f.internal_cursor = 1 /\ f.external_cursor = 0
  BY RootType, BitsType DEF IterFrame, CursorFrame, IpPrefix
<1>. HIDE DEF f
<1>4. /\ frames' \in Seq(CursorFrame) /\ DOMAIN frames' = {1} /\ frames'[1] = f
      /\ seen' \in Seq(IpPrefix) /\ Len(seen') = 0 /\ Range(seen') = {}
  <2>1. frames' \in Seq(CursorFrame) /\ DOMAIN frames' = 1..1 /\ frames'[1] = f
    BY <1>2, <1>3
  <2>2. seen' \in Seq(IpPrefix) /\ Len(seen') = 0
    BY <1>2, EmptySeq
  <2>. QED BY <1>2, <2>1, <2>2 DEF Range
<1>5. IterTyped' /\ Borrowed' /\ InOrder'
  <2>1. DepthFirst'
    BY <1>4 DEF DepthFirst
  <2>. QED BY <1>1, <1>2, <1>4, <2>1 DEF IterTyped, Borrowed, InOrder
<1>6. FramesOnPath'
  BY <1>1, <1>3, <1>4, BitsType DEF FramesOnPath, TreeInv, Anchored, Root
<1>7. Winding'
  BY <1>4 DEF Winding
<1>8. LeftAhead'
  <2>. SUFFICES ASSUME NEW q \in Keys
                PROVE  Ahead(f, q)
    BY <1>1, <1>4 DEF LeftAhead
  <2>1. /\ q.ip \in Address /\ Depth(q) \in 0..Strides /\ Home(q) = Path(q.ip, Depth(q))
        /\ BitOf(q) \in 1..15
    BY <1>1, KeyHome
  <2>2. CASE Depth(q) = 0
    BY <1>3, <2>1, <2>2, PathRoot DEF Ahead
  <2>3. CASE Depth(q) > 0
    <3>1. 0 \in 0..(Strides - 1)
      BY BitsType
    <3>2. nibble(q.ip, 0) \in Nibble
      BY <2>1, <3>1, NibbleType
    <3>3. nibble(q.ip, 0) >= 0
      BY <3>2 DEF Nibble
    <3>. QED BY <1>3, <2>1, <2>3, <3>3, PathRoot DEF Ahead
  <2>. QED BY <2>1, <2>2, <2>3
<1>. QED
  BY <1>1, <1>5, <1>6, <1>7, <1>8 DEF IterInv

(* next() is called, answers None, or the iterator is dropped.             *)
LEMMA CursorInv ==
  ASSUME IterInv, Ask \/ End \/ Close \/ UNCHANGED <<vars, iterVars>>
  PROVE  IterInv'
<1>1. /\ IInv' /\ LookupInv' /\ heap' = heap /\ Keys' = Keys /\ pc' = pc /\ req' = req
  BY MapKept DEF Ask, End, Close
<1>2. /\ IterTyped /\ FramesOnPath /\ Winding /\ LeftAhead /\ InOrder /\ Borrowed
  BY DEF IterInv
<1>3. CASE Ask \/ End \/ UNCHANGED <<vars, iterVars>>
  <2>1. /\ frames' = frames /\ seen' = seen
        /\ (cursor' = "none") <=> (cursor = "none")
        /\ cursor' \in {"none", "ready", "asked"} /\ item' \in Item \cup {None}
        /\ cursor' = "none" => item' = item
    BY <1>2, <1>3 DEF Ask, End, iterVars, IterTyped
  <2>2. FramesOnPath' /\ Winding'
    BY <1>1, <1>2, <2>1 DEF FramesOnPath, Winding
  <2>3. DepthFirst'
    BY <1>2, <2>1 DEF InOrder, DepthFirst
  <2>4. IterTyped' /\ Borrowed'
    BY <1>1, <1>2, <2>1 DEF IterTyped, Borrowed
  <2>5. LeftAhead'
    BY <1>1, <1>2, <2>1 DEF LeftAhead
  <2>6. InOrder'
    BY <1>1, <1>2, <2>1, <2>3 DEF InOrder
  <2>. QED BY <1>1, <2>2, <2>4, <2>5, <2>6 DEF IterInv
<1>4. CASE Close
  <2>1. cursor' = "none" /\ frames' = <<>> /\ item' = None /\ seen' = <<>>
    BY <1>4 DEF Close
  <2>2. /\ frames' \in Seq(CursorFrame) /\ DOMAIN frames' = {}
        /\ seen' \in Seq(IpPrefix) /\ Len(seen') = 0
    BY <2>1, EmptySeq
  <2>3. DepthFirst'
    BY <2>2 DEF DepthFirst
  <2>. QED BY <1>1, <2>1, <2>2, <2>3
           DEF IterInv, IterTyped, Borrowed, FramesOnPath, Winding, LeftAhead, InOrder
<1>. QED
  BY <1>3, <1>4

(* While an iterator is held, calls do not change the tree.                *)
LEMMA ReadOnly ==
  ASSUME IterInv, TableStep, cursor # "none"
  PROVE  heap' = heap /\ (pc' = "idle" \/ req'.op \in SharedOps)
<1>1. Next /\ (pc = "idle" => req'.op \in SharedOps)
  BY DEF TableStep
<1>2. /\ pc = "idle" \/ req.op \in SharedOps
      /\ pc \in Ops => req.op = pc
      /\ pc = "unwind" => req.op = "remove"
  BY DEF IterInv, Borrowed, IInv, Control
<1>3. pc \notin {"insert", "remove", "clear", "unwind"}
  BY <1>2 DEF Ops, SharedOps, PrefixOps, LookupOps, PlainOps
<1>4. CASE Call
  BY <1>1, <1>4 DEF Call
<1>5. CASE Return
  BY <1>5 DEF Return
<1>6. CASE \/ MatchDescend \/ MatchBreak \/ MatchBottom
           \/ ProbeDescend \/ ProbeMiss \/ ProbeTarget \/ ReadCount
  <2>1. pc # "idle" /\ heap' = heap /\ req' = req
    BY <1>6 DEF MatchDescend, MatchBreak, MatchBottom, ProbeDescend, ProbeMiss, ProbeTarget,
                ReadCount, Probing, LookupOps
  <2>. QED BY <1>2, <2>1
<1>7. CASE \/ InsertFollow \/ InsertGrow \/ InsertReplace \/ InsertNew
           \/ RemoveDescend \/ RemoveMiss \/ RemoveTarget \/ RemoveUnwind \/ RemoveFinish
           \/ Clear \/ ClearInterrupted
  BY <1>3, <1>7 DEF InsertFollow, InsertGrow, InsertReplace, InsertNew, RemoveDescend,
     RemoveMiss, RemoveTarget, RemoveUnwind, RemoveFinish, Clear, ClearInterrupted
<1>. QED
  BY <1>1, <1>4, <1>5, <1>6, <1>7 DEF Next, Step

LEMMA TableStepInv ==
  ASSUME IterInv, TableStep
  PROVE  IterInv'
<1>1. /\ IInv /\ LookupInv /\ IterTyped /\ FramesOnPath /\ Winding /\ LeftAhead /\ InOrder
      /\ Borrowed
  BY DEF IterInv
<1>2. Next /\ cursor' = cursor /\ frames' = frames /\ item' = item /\ seen' = seen
  BY DEF TableStep, iterVars
<1>3. IInv' /\ LookupInv'
  BY <1>1, <1>2, NextInv, LookupInvNext
<1>4. IterTyped' /\ Borrowed'
  BY <1>1, <1>2, ReadOnly DEF IterTyped, Borrowed
<1>5. DepthFirst'
  BY <1>1, <1>2 DEF InOrder, DepthFirst
<1>6. CASE cursor = "none"
  <2>1. frames' = <<>> /\ seen' = <<>> /\ DOMAIN frames' = {}
    BY <1>1, <1>2, <1>6 DEF Borrowed
  <2>. QED BY <1>2, <1>3, <1>4, <1>5, <1>6, <2>1
           DEF IterInv, FramesOnPath, Winding, LeftAhead, InOrder
<1>7. CASE cursor # "none"
  <2>1. heap' = heap /\ Keys' = Keys
    BY <1>7, ReadOnly DEF Keys
  <2>2. FramesOnPath' /\ Winding' /\ LeftAhead' /\ InOrder'
    BY <1>1, <1>2, <1>5, <2>1 DEF FramesOnPath, Winding, LeftAhead, InOrder
  <2>. QED BY <1>3, <1>4, <2>2 DEF IterInv
<1>. QED
  BY <1>6, <1>7

LEMMA IterInitInv ==
  ASSUME IterInit
  PROVE  IterInv
<1>1. IInv /\ LookupInv
  BY InitInv, LookupInvInit DEF IterInit
<1>2. cursor = "none" /\ frames = <<>> /\ item = None /\ seen = <<>>
  BY DEF IterInit
<1>3. /\ frames \in Seq(CursorFrame) /\ DOMAIN frames = {}
      /\ seen \in Seq(IpPrefix) /\ Len(seen) = 0
  BY <1>2, EmptySeq
<1>4. DepthFirst
  BY <1>3 DEF DepthFirst
<1>. QED
  BY <1>1, <1>2, <1>3, <1>4
     DEF IterInv, IterTyped, Borrowed, FramesOnPath, Winding, LeftAhead, InOrder

LEMMA IterNextInv ==
  ASSUME IterInv, [IterNext]_<<vars, iterVars>>
  PROVE  IterInv'
BY TableStepInv, OpenInv, YieldInv, EnterChildInv, LeaveNodeInv, CursorInv DEF IterNext, IterStep

(***************************************************************************)
(* The inductive invariant of the table with its iterator holds of every   *)
(* reachable state, whatever calls precede, accompany or follow the walk.  *)
(***************************************************************************)
THEOREM IterInductive == IterSpec => []IterInv
<1>1. IterInit => IterInv
  BY IterInitInv
<1>2. IterInv /\ [IterNext]_<<vars, iterVars>> => IterInv'
  BY IterNextInv
<1>. QED
  BY <1>1, <1>2, PTL DEF IterSpec

(* Types, and the bounds of both cursors: neither leaves its bitmap.       *)
THEOREM IterTypes == IterSpec => []IterTypeOK
<1>1. IterInv => IterTypeOK
  <2>. SUFFICES ASSUME IterTyped PROVE IterTypeOK
    BY DEF IterInv
  <2>1. \A i \in DOMAIN frames : frames[i] \in CursorFrame
    BY LenProperties, ElementOfSeq DEF IterTyped
  <2>. QED BY <2>1 DEF IterTyped, IterTypeOK, CursorFrame
<1>. QED
  BY <1>1, IterInductive, PTL

(* The stack is the path to its top, and the address of every frame is the *)
(* address of its node.                                                    *)
THEOREM StackIsPath == IterSpec => []FramesOnPath
<1>1. IterInv => FramesOnPath
  BY DEF IterInv
<1>. QED
  BY <1>1, IterInductive, PTL

(* The capacity iter() reserves is never exceeded.                         *)
THEOREM StackFits == IterSpec => []StackWithinCapacity
<1>1. IterInv => StackWithinCapacity
  <2>. SUFFICES ASSUME IterInv, frames # <<>> PROVE Len(frames) <= Strides + 1
    BY BitsType, EmptySeq DEF StackWithinCapacity
  <2>1. TypeOK /\ TreeInv /\ frames \in Seq(CursorFrame) /\ FramesOnPath
    BY DEF IterInv, IInv, IterTyped
  <2>2. Len(frames) \in Nat /\ Len(frames) \in DOMAIN frames
    BY <2>1, TopFacts
  <2>3. Len(frames) - 1 \in 0..Strides
    BY <2>1, <2>2, FrameFacts
  <2>. QED BY <2>2, <2>3, BitsType
<1>. QED
  BY <1>1, IterInductive, PTL

(* No shift of the iterator underflows or is as wide as the address, and   *)
(* no prefix it makes is longer than one.                                  *)
THEOREM ShiftsFit == IterSpec => []ShiftsInRange
<1>1. IterInv => ShiftsInRange
  <2>. SUFFICES ASSUME IterInv, NEW i \in DOMAIN frames, NEW f, f = frames[i]
                PROVE  /\ \A b \in heap[f.node].internal :
                            /\ IsShifted(b) => EntryShift(f, b) \in 0..(BITS - 1)
                            /\ f.hop * STRIDE + RelLen(b) <= BITS
                       /\ heap[f.node].external # {} => ChildShift(f) \in 0..(BITS - 1)
    BY DEF ShiftsInRange
  <2>1. TypeOK /\ TreeInv /\ frames \in Seq(CursorFrame) /\ FramesOnPath
    BY DEF IterInv, IInv, IterTyped
  <2>2. /\ f.node \in DOMAIN heap /\ f.node \in IpPrefix /\ NodeRef(f.node)
        /\ f.hop \in 0..Strides /\ f.node.mask = 4 * f.hop
        /\ heap[f.node].external # {} => f.hop < Strides
    BY <2>1, FrameFacts
  <2>3. f.hop * STRIDE = f.node.mask
    BY <2>2, BitsType
  <2>4. \A b \in heap[f.node].internal : Slot(f.node, b)
    BY <2>1, <2>2, NodeFacts
  <2>5. ASSUME NEW b \in heap[f.node].internal
        PROVE  /\ IsShifted(b) => EntryShift(f, b) \in 0..(BITS - 1)
               /\ f.hop * STRIDE + RelLen(b) <= BITS
    <3>1. Slot(f.node, b) /\ f.hop * STRIDE + RelLen(b) <= BITS
      BY <2>2, <2>3, <2>4, <2>5, SlotFits
    <3>2. RelLen(b) \in 0..3
      BY <3>1, RelLenValues DEF Slot
    <3>3. f.hop * STRIDE \in Nat
      BY <2>2, <2>3
    <3>. QED BY <3>1, <3>2, <3>3, BitsType DEF IsShifted, EntryShift
  <2>6. ASSUME heap[f.node].external # {} PROVE ChildShift(f) \in 0..(BITS - 1)
    BY <2>2, <2>6, BitsType DEF ChildShift
  <2>. QED BY <2>5, <2>6
<1>. QED
  BY <1>1, IterInductive, PTL

(* Entries are returned in depth-first order, whatever the history of the  *)
(* table.                                                                  *)
THEOREM OrderDepthFirst == IterSpec => []DepthFirst
<1>1. IterInv => DepthFirst
  BY DEF IterInv, InOrder
<1>. QED
  BY <1>1, IterInductive, PTL
------------------------------------------------------------------------------
(* RouteIteration and RoutingTable speak of the same map.                  *)
LEMMA SameTable ==
  /\ Iteration!vars = Abstract!vars
  /\ Iteration!Init <=> Abstract!Init
  /\ Iteration!Next <=> Abstract!Next
  /\ Iteration!SharedOps = SharedOps
<1>1. Iteration!vars = Abstract!vars
  BY DEF Iteration!vars, Abstract!vars
<1>2. /\ Iteration!key = Abstract!key /\ Iteration!NoRequest = Abstract!NoRequest
      /\ Iteration!Done = Abstract!Done /\ Iteration!Unit = Abstract!Unit
  BY DEF Iteration!key, Abstract!key, Iteration!masked, Abstract!masked,
         Iteration!NoRequest, Abstract!NoRequest, Iteration!Done, Abstract!Done,
         Iteration!Unit, Abstract!Unit, Iteration!Panic, Abstract!Panic,
         Iteration!BITS, Abstract!BITS, Iteration!STRIDE, Abstract!STRIDE
<1>3. /\ Iteration!PrefixOps = Abstract!PrefixOps /\ Iteration!LookupOps = Abstract!LookupOps
      /\ Iteration!PlainOps = Abstract!PlainOps
      /\ Iteration!PrefixOps = PrefixOps /\ Iteration!LookupOps = LookupOps
      /\ Iteration!PlainOps = PlainOps
  BY DEF Iteration!PrefixOps, Abstract!PrefixOps, Iteration!LookupOps, Abstract!LookupOps,
         Iteration!PlainOps, Abstract!PlainOps, PrefixOps, LookupOps, PlainOps
<1>4. Iteration!Request = Abstract!Request
  BY <1>3 DEF Iteration!Request, Abstract!Request
<1>5. \A t, a : Iteration!LongestMatch(t, a) = Abstract!LongestMatch(t, a)
  <2>1. \A t, a : Iteration!Matches(t, a) = Abstract!Matches(t, a)
    BY DEF Iteration!Matches, Abstract!Matches, Iteration!Covers, Abstract!Covers
  <2>2. \A p, S : Iteration!IsLongest(p, S) = Abstract!IsLongest(p, S)
    BY DEF Iteration!IsLongest, Abstract!IsLongest
  <2>. QED BY <2>1, <2>2 DEF Iteration!LongestMatch, Abstract!LongestMatch
<1>6. \A op, found : Iteration!LookupReply(op, found) = Abstract!LookupReply(op, found)
  BY DEF Iteration!LookupReply, Abstract!LookupReply
<1>7. \A S : Iteration!Cardinality(S) = Abstract!Cardinality(S)
  BY DEF Iteration!Cardinality, Abstract!Cardinality
<1>8. \A op : Iteration!Answer(op) <=> Abstract!Answer(op)
  BY DEF Iteration!Answer, Abstract!Answer
<1>9. \A p : Iteration!Find(p) = Abstract!Find(p)
  BY DEF Iteration!Find, Abstract!Find
<1>10. Iteration!Init <=> Abstract!Init
  BY <1>2 DEF Iteration!Init, Abstract!Init
<1>11. (Iteration!Call <=> Abstract!Call) /\ (Iteration!Return <=> Abstract!Return)
  BY <1>2, <1>4 DEF Iteration!Call, Abstract!Call, Iteration!Return, Abstract!Return
<1>12. Iteration!Insert <=> Abstract!Insert
  BY <1>2, <1>8 DEF Iteration!Insert, Abstract!Insert
<1>13. Iteration!Remove <=> Abstract!Remove
  BY <1>2, <1>8, <1>9 DEF Iteration!Remove, Abstract!Remove
<1>14. Iteration!Get <=> Abstract!Get
  BY <1>2, <1>8, <1>9 DEF Iteration!Get, Abstract!Get
<1>15. Iteration!Contains <=> Abstract!Contains
  BY <1>2, <1>8 DEF Iteration!Contains, Abstract!Contains
<1>16. (Iteration!Len <=> Abstract!Len) /\ (Iteration!IsEmpty <=> Abstract!IsEmpty)
  BY <1>7, <1>8 DEF Iteration!Len, Abstract!Len, Iteration!IsEmpty, Abstract!IsEmpty
<1>17. Iteration!Clear <=> Abstract!Clear
  BY <1>2, <1>8 DEF Iteration!Clear, Abstract!Clear
<1>18. \A op : Iteration!Lookup(op) <=> Abstract!Lookup(op)
  BY <1>5, <1>6, <1>8 DEF Iteration!Lookup, Abstract!Lookup
<1>19. Iteration!Effect <=> Abstract!Effect
  BY <1>3, <1>12, <1>13, <1>14, <1>15, <1>16, <1>17, <1>18 DEF Iteration!Effect, Abstract!Effect
<1>20. Iteration!Next <=> Abstract!Next
  BY <1>11, <1>19 DEF Iteration!Next, Abstract!Next
<1>21. Iteration!SharedOps = SharedOps
  BY <1>3 DEF Iteration!SharedOps, SharedOps
<1>. QED
  BY <1>1, <1>10, <1>20, <1>21

(* What the iterator has still to return.                                  *)
LeftNow == IF cursor = "none" THEN {} ELSE Keys \ Range(seen)

(* Seen from outside an action of the iterator leaves the map alone.       *)
LEMMA MapHidden ==
  ASSUME IterInv, UNCHANGED vars
  PROVE  UNCHANGED Iteration!vars
<1>1. Table' = Table /\ pc' = pc /\ req' = req /\ reply' = reply
  BY MapKept DEF vars
<1>. QED
  BY <1>1 DEF Iteration!vars, Phase

LEMMA OpenIs ==
  ASSUME IterInv, Open
  PROVE  Iteration!Open
<1>1. /\ cursor = "none" /\ cursor' = "ready" /\ item' = None /\ seen' = <<>>
      /\ pc = "idle" \/ req.op \in SharedOps
  BY DEF Open
<1>2. UNCHANGED Iteration!vars /\ Keys' = Keys
  BY MapHidden, MapKept DEF Open
<1>3. Range(seen') = {}
  BY <1>1 DEF Range
<1>4. LeftNow' = DOMAIN Table
  BY <1>1, <1>2, <1>3 DEF LeftNow, Table
<1>5. Phase = "idle" \/ req.op \in Iteration!SharedOps
  BY <1>1, PhaseFacts, SameTable
<1>. QED
  BY <1>1, <1>2, <1>4, <1>5 DEF Iteration!Open, LeftNow

LEMMA CursorIs ==
  ASSUME IterInv, Ask \/ Close
  PROVE  Iteration!Ask \/ Iteration!Close
<1>1. UNCHANGED Iteration!vars /\ Keys' = Keys
  BY MapHidden, MapKept DEF Ask, Close
<1>2. CASE Ask
  BY <1>1, <1>2 DEF Ask, Iteration!Ask
<1>3. CASE Close
  BY <1>1, <1>3 DEF Close, Iteration!Close
<1>. QED
  BY <1>2, <1>3

(* None is answered when nothing is left.                                  *)
LEMMA EndIs ==
  ASSUME IterInv, End
  PROVE  Iteration!End
<1>1. cursor = "asked" /\ frames = <<>> /\ item' = None /\ cursor' = "ready" /\ seen' = seen
  BY DEF End
<1>2. UNCHANGED Iteration!vars /\ Keys' = Keys
  BY MapHidden, MapKept DEF End
<1>3. DOMAIN frames = {}
  BY <1>1
<1>4. LeftNow = {}
  BY <1>1, <1>3 DEF IterInv, LeftAhead, LeftNow
<1>5. LeftNow' = LeftNow
  BY <1>1, <1>2 DEF LeftNow
<1>. QED
  BY <1>1, <1>2, <1>4, <1>5 DEF Iteration!End, LeftNow

(* What is yielded was left, has its own value, and is below nothing left. *)
LEMMA YieldIs ==
  ASSUME IterInv, Yield
  PROVE  Iteration!Yield
<1>. DEFINE b == NextBit(internalLeft)
            p == IterPrefix(top, b)
<1>1. /\ cursor = "asked" /\ frames # <<>> /\ internalLeft # {} /\ cursor' = "ready"
      /\ seen' = Append(seen, p)
      /\ item' = [prefix |-> p, value |-> At(tree.values, rank(tree.internal, b))]
  BY DEF Yield
<1>2. /\ TypeOK /\ TreeInv /\ frames \in Seq(CursorFrame) /\ seen \in Seq(IpPrefix)
      /\ FramesOnPath /\ Winding /\ LeftAhead
  BY DEF IterInv, IInv, IterTyped
<1>3. UNCHANGED Iteration!vars /\ Keys' = Keys
  BY MapHidden, MapKept DEF Yield
<1>4. /\ p \in Keys /\ p \notin Range(seen)
      /\ At(tree.values, rank(tree.internal, b)) = ValueOf(p)
  BY <1>1, <1>2, YieldFacts
<1>5. \A q \in Keys \ Range(seen) : q # p => Before(p, q)
  BY <1>1, <1>2, YieldFirst
<1>. HIDE DEF b, p
<1>6. p \in IpPrefix
  BY <1>2, <1>4, KeyFacts
<1>7. Range(seen') = Range(seen) \cup {p}
  BY <1>1, <1>2, <1>6, AppendRange
<1>8. LeftNow = Keys \ Range(seen) /\ p \in LeftNow /\ LeftNow' = LeftNow \ {p}
  BY <1>1, <1>3, <1>4, <1>7 DEF LeftNow
<1>9. \A q \in LeftNow : ~Iteration!Above(q, p)
  <2>1. \A q \in Keys \ Range(seen) : q # p => ~Iteration!Above(q, p)
    BY <1>2, <1>4, <1>5, BeforeNotBelow
  <2>2. ~Iteration!Above(p, p)
    <3>1. p.mask \in Int
      BY <1>6, BitsType DEF IpPrefix
    <3>. QED BY <3>1 DEF Iteration!Above
  <2>. QED BY <1>8, <2>1, <2>2
<1>10. item' = [prefix |-> p, value |-> Table[p]]
  BY <1>1, <1>4 DEF Table
<1>. QED
  BY <1>1, <1>3, <1>8, <1>9, <1>10 DEF Iteration!Yield, LeftNow

(* Walking the tree does not show.                                         *)
LEMMA MoveHidden ==
  ASSUME IterInv, EnterChild \/ LeaveNode \/ UNCHANGED <<vars, iterVars>>
  PROVE  UNCHANGED <<Iteration!vars, Iteration!iterVars>>
<1>1. UNCHANGED Iteration!vars /\ Keys' = Keys
  BY MapHidden, MapKept DEF EnterChild, LeaveNode
<1>2. cursor' = cursor /\ seen' = seen /\ item' = item
  BY DEF EnterChild, LeaveNode, iterVars
<1>. QED
  BY <1>1, <1>2 DEF Iteration!iterVars

(* Calls go on beside an iterator as before.                               *)
LEMMA TableStepIs ==
  ASSUME IterInv, TableStep
  PROVE  Iteration!TableStep \/ UNCHANGED <<Iteration!vars, Iteration!iterVars>>
<1>1. /\ Next /\ (pc = "idle" /\ cursor # "none" => req'.op \in SharedOps)
      /\ cursor' = cursor /\ frames' = frames /\ item' = item /\ seen' = seen
  BY DEF TableStep, iterVars
<1>2. [Abstract!Next]_Abstract!vars
  BY <1>1, StepIs DEF IterInv
<1>3. UNCHANGED Iteration!iterVars
  <2>1. cursor # "none" => Keys' = Keys
    <3>. SUFFICES ASSUME cursor # "none" PROVE Keys' = Keys
      OBVIOUS
    <3>1. heap' = heap
      BY ReadOnly
    <3>. QED BY <3>1 DEF Keys
  <2>. QED BY <1>1, <2>1 DEF Iteration!iterVars
<1>4. Phase = "idle" /\ cursor # "none" => req'.op \in Iteration!SharedOps
  BY <1>1, SameTable DEF Phase
<1>5. CASE Abstract!Next
  BY <1>3, <1>4, <1>5, SameTable DEF Iteration!TableStep
<1>6. CASE UNCHANGED Abstract!vars
  BY <1>3, <1>6 DEF Abstract!vars, Iteration!vars
<1>. QED
  BY <1>2, <1>5, <1>6

LEMMA IterInitIs ==
  ASSUME IterInit
  PROVE  Iteration!IterInit
<1>1. Abstract!Init
  BY InitIs DEF IterInit
<1>. QED
  BY <1>1, SameTable DEF IterInit, Iteration!IterInit

LEMMA IterStepIs ==
  ASSUME IterInv, [IterNext]_<<vars, iterVars>>
  PROVE  [Iteration!IterNext]_<<Iteration!vars, Iteration!iterVars>>
BY TableStepIs, OpenIs, CursorIs, YieldIs, EndIs, MoveHidden
   DEF IterNext, IterStep, Iteration!IterNext

(* A client that iterates gets every entry of the table once, with its own *)
(* value and no entry before one that covers it, then None.                *)
THEOREM IterationRefinement == IterSpec => ImplementsIteration
<1>1. IterInit => IterInv /\ Iteration!IterInit
  BY IterInitInv, IterInitIs
<1>2. IterInv /\ [IterNext]_<<vars, iterVars>> => IterInv'
  BY IterNextInv
<1>3. IterInv /\ [IterNext]_<<vars, iterVars>>
        => [Iteration!IterNext]_<<Iteration!vars, Iteration!iterVars>>
  BY IterStepIs
<1>. QED
  BY <1>1, <1>2, <1>3, PTL DEF IterSpec, ImplementsIteration
=============================================================================
