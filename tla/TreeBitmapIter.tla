--------------------------- MODULE TreeBitmapIter ---------------------------
(***************************************************************************)
(* RouteMap::iter and Iter::next over the tree of TreeBitmap: a stack of   *)
(* frames, root first, each with a cursor into either bitmap of its node.  *)
(* An action is one iteration of the loop in next().                       *)
(*                                                                         *)
(* A frame rebuilds its address by OR-ing nibbles into that of its parent. *)
(* It is kept apart from the reference of the node, so a wrong shift gives *)
(* a wrong prefix here too.                                                *)
(***************************************************************************)
EXTENDS TreeBitmap

VARIABLES
  cursor,  \* "none", "ready" (the client holds an Iter) or "asked" (in next())
  frames,  \* Iter.stack
  item,    \* what the last next() returned
  seen     \* history: the prefixes returned since iter(), for the properties

iterVars == <<cursor, frames, item, seen>>

(* The functions that take &self; the borrow of the Iter excludes others.  *)
SharedOps == (PrefixOps \cup LookupOps \cup PlainOps) \ {"remove", "clear"}

TableStep ==
  /\ Next
  /\ pc = "idle" /\ cursor # "none" => req'.op \in SharedOps
  /\ UNCHANGED iterVars

(* Slip: one bit further down.                                             *)
OrBitsLow(bits, shift, n, v) ==
  LET from == BITS - shift - n
  IN  [i \in 1..BITS |->
         IF i \in (from + 2)..(from + n + 1) /\ (v \div Shl(n + 1 - (i - from))) % 2 = 1
         THEN 1
         ELSE bits[i]]

(* bits | v << shift, for a v of n bits                                    *)
OrBits(bits, shift, n, v) ==
  LET from == BITS - shift - n
  IN  [i \in 1..BITS |->
         IF i \in (from + 1)..(from + n) /\ (v \div Shl(n - (i - from))) % 2 = 1
         THEN 1
         ELSE bits[i]]

(* Slip: bit 0 of internal is scanned too.                                 *)
IterFrameFromZero(n, h, a) ==
  [node |-> n, hop |-> h, addr |-> a, internal_cursor |-> 0, external_cursor |-> 0]

IterFrame(n, h, a) ==
  [node |-> n, hop |-> h, addr |-> a, internal_cursor |-> 1, external_cursor |-> 0]

top  == Last(frames)
tree == heap[top.node]

(* bitmap >> cursor, its bits at their old places; none from cursor 16 on  *)
internalLeft == {b \in tree.internal : b >= top.internal_cursor}
externalLeft == {n \in tree.external : n >= top.external_cursor}

(* cursor + above.trailing_zeros()                                         *)
NextBit(bits) == Min(bits)

(* How far the bits of an entry and the nibble of a child are shifted.     *)
EntryShift(f, b) == BITS - f.hop * STRIDE - RelLen(b)
ChildShift(f) == BITS - (f.hop + 1) * STRIDE

(* Slip: the address of the node itself is shifted for, too.               *)
IsShiftedAlways(b) == TRUE

(* rel_len > 0                                                             *)
IsShifted(b) == RelLen(b) > 0

IterPrefix(f, b) ==
  [ip   |-> IF IsShifted(b)
            THEN OrBits(f.addr, EntryShift(f, b), RelLen(b), b - Shl(RelLen(b)))
            ELSE f.addr,
   mask |-> f.hop * STRIDE + RelLen(b)]

ReplaceTop(f) == [frames EXCEPT ![Len(frames)] = f]
------------------------------------------------------------------------------
Open ==
  /\ cursor = "none"
  /\ pc = "idle" \/ req.op \in SharedOps
  /\ cursor' = "ready"
  /\ frames' = <<IterFrame(Root, 0, Root.ip)>>
  /\ item' = None
  /\ seen' = <<>>
  /\ UNCHANGED vars

Ask ==
  /\ cursor = "ready"
  /\ cursor' = "asked"
  /\ UNCHANGED <<vars, frames, item, seen>>

Yield ==
  /\ cursor = "asked"
  /\ frames # <<>>
  /\ internalLeft # {}
  /\ LET b == NextBit(internalLeft)
         p == IterPrefix(top, b)
     IN  /\ frames' = ReplaceTop([top EXCEPT !.internal_cursor = b + 1])
         /\ item' = [prefix |-> p, value |-> At(tree.values, rank(tree.internal, b))]
         /\ seen' = Append(seen, p)
  /\ cursor' = "ready"
  /\ UNCHANGED vars

Exhausted == [top EXCEPT !.internal_cursor = 16]

(* Slip: the external cursor stays on the child entered.                   *)
EnterChildAgain ==
  /\ cursor = "asked"
  /\ frames # <<>>
  /\ internalLeft = {}
  /\ externalLeft # {}
  /\ LET n     == NextBit(externalLeft)
         child == At(tree.children, rank(tree.external, n))
     IN  frames' = Append(ReplaceTop([Exhausted EXCEPT !.external_cursor = n]),
                          IterFrame(child, top.hop + 1,
                                    OrBits(top.addr, ChildShift(top), STRIDE, n)))
  /\ UNCHANGED <<vars, cursor, item, seen>>

(* Slip: the children come before the entries of the node.                 *)
EnterChildFirst ==
  /\ cursor = "asked"
  /\ frames # <<>>
  /\ externalLeft # {}
  /\ LET n     == NextBit(externalLeft)
         child == At(tree.children, rank(tree.external, n))
     IN  frames' = Append(ReplaceTop([top EXCEPT !.external_cursor = n + 1]),
                          IterFrame(child, top.hop + 1,
                                    OrBits(top.addr, ChildShift(top), STRIDE, n)))
  /\ UNCHANGED <<vars, cursor, item, seen>>

(* Slip: the node is entered again instead of its child.                   *)
EnterSelf ==
  /\ cursor = "asked"
  /\ frames # <<>>
  /\ internalLeft = {}
  /\ externalLeft # {}
  /\ frames' = Append(frames, [top EXCEPT !.internal_cursor = 1])
  /\ UNCHANGED <<vars, cursor, item, seen>>

EnterChild ==
  /\ cursor = "asked"
  /\ frames # <<>>
  /\ internalLeft = {}
  /\ externalLeft # {}
  /\ LET n     == NextBit(externalLeft)
         child == At(tree.children, rank(tree.external, n))
     IN  frames' = Append(ReplaceTop([Exhausted EXCEPT !.external_cursor = n + 1]),
                          IterFrame(child, top.hop + 1,
                                    OrBits(top.addr, ChildShift(top), STRIDE, n)))
  /\ UNCHANGED <<vars, cursor, item, seen>>

(* Slip: the frame stays.                                                  *)
LeaveNodeKept ==
  /\ cursor = "asked"
  /\ frames # <<>>
  /\ internalLeft = {}
  /\ externalLeft = {}
  /\ UNCHANGED <<vars, cursor, frames, item, seen>>

(* Both cursors are exhausted: backtrack.                                  *)
LeaveNode ==
  /\ cursor = "asked"
  /\ frames # <<>>
  /\ internalLeft = {}
  /\ externalLeft = {}
  /\ frames' = Front(frames)
  /\ UNCHANGED <<vars, cursor, item, seen>>

End ==
  /\ cursor = "asked"
  /\ frames = <<>>
  /\ item' = None
  /\ cursor' = "ready"
  /\ UNCHANGED <<vars, frames, seen>>

Close ==
  /\ cursor = "ready"
  /\ cursor' = "none"
  /\ frames' = <<>>
  /\ item' = None
  /\ seen' = <<>>
  /\ UNCHANGED vars
------------------------------------------------------------------------------
IterInit == Init /\ cursor = "none" /\ frames = <<>> /\ item = None /\ seen = <<>>

IterStep == Yield \/ EnterChild \/ LeaveNode \/ End

IterNext == TableStep \/ Open \/ Ask \/ IterStep \/ Close

(* next() runs to its return; a client need not call it again.             *)
IterFairness == Fairness /\ WF_<<vars, iterVars>>(IterStep)

IterSpec == IterInit /\ [][IterNext]_<<vars, iterVars>> /\ IterFairness
==============================================================================
