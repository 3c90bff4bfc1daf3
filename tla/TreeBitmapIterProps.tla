------------------------- MODULE TreeBitmapIterProps -------------------------
(***************************************************************************)
(* What must hold of the iterator.                                         *)
(***************************************************************************)
EXTENDS TreeBitmapIter, TreeBitmapProps

Item == [prefix : IpPrefix, value : Value]

(* Types, and the bounds of both cursors.                                  *)
IterTypeOK ==
  /\ cursor \in {"none", "ready", "asked"}
  /\ \A i \in DOMAIN frames :
       frames[i] \in [node : IpPrefix, hop : 0..Strides, addr : Address,
                      internal_cursor : 1..16, external_cursor : 0..16]
  /\ item \in Item \cup {None}
  /\ seen \in Seq(IpPrefix)
------------------------------------------------------------------------------
Iteration == INSTANCE RouteIteration WITH
  table <- Table, phase <- Phase, left <- IF cursor = "none" THEN {} ELSE Keys \ Range(seen)

(* A client that iterates gets every entry of the table once, under the    *)
(* prefix it was inserted with and with its own value, covering entries    *)
(* first, and None only and always after the last: no entry is skipped by  *)
(* a cursor or met twice on the way back up.  Lookups made meanwhile are   *)
(* not disturbed.                                                          *)
ImplementsIteration == Iteration!IterInit /\ [][Iteration!IterNext]_<<Iteration!vars, Iteration!iterVars>>

(* The same with the promise that next() and every call return.            *)
ImplementsFairIteration == Iteration!IterSpec

(* The suspended frames of the iterator are the path to the node on top:   *)
(* each one is the child its parent's external cursor has just passed, the *)
(* parent has no entry left to yield, and the address OR-ed together on    *)
(* the way down is the address of the node.                                *)
FramesOnPath ==
  \A i \in DOMAIN frames :
    LET f == frames[i]
    IN  /\ f.node \in DOMAIN heap
        /\ f.hop = i - 1 /\ f.node.mask = f.hop * STRIDE
        /\ f.addr = f.node.ip
        /\ i = 1 => f.node = Root
        /\ i > 1 =>
             LET up == frames[i - 1]
             IN  /\ up.internal_cursor = 16
                 /\ up.external_cursor - 1 \in heap[up.node].external
                 /\ f.node = Child(up.node, up.external_cursor - 1)

(* iter() reserves total_strides + 1 frames, and no next() needs more.     *)
StackWithinCapacity == Len(frames) <= Strides + 1

(* No shift next() makes for an entry or a child of a node on its stack    *)
(* can panic, whatever calls made the tree: the amount is not below zero,  *)
(* in the deepest node either, and it is less than the width of the        *)
(* address, which for IPv6 is all of a u128; only the test of rel_len      *)
(* keeps the /0 in the root from being shifted by all 128.  Nor does       *)
(* IpPrefix::new(..).unwrap(): the lengths fit the address.                *)
ShiftsInRange ==
  \A i \in DOMAIN frames :
    LET f == frames[i]
        n == heap[f.node]
    IN  /\ \A b \in n.internal :
             /\ IsShifted(b) => EntryShift(f, b) \in 0..(BITS - 1)
             /\ f.hop * STRIDE + RelLen(b) <= BITS
        /\ n.external # {} => ChildShift(f) \in 0..(BITS - 1)

(* The order of the entries of a table in a depth-first walk: within a     *)
(* node by bit, a node before its children, children by nibble.            *)
Before(p, q) ==
  LET hp == p.mask \div STRIDE
      hq == q.mask \div STRIDE
      Agree(h) == Path(p.ip, h) = Path(q.ip, h)
  IN  \/ hp = hq /\ Agree(hp) /\ BitOf(p) < BitOf(q)
      \/ hp < hq /\ Agree(hp)
      \/ \E h \in 0..(Strides - 1) :
           /\ h < hp /\ h < hq /\ Agree(h)
           /\ nibble(p.ip, h) < nibble(q.ip, h)

(* Entries come in exactly that order, which iter_exact_dfs_order          *)
(* (mod.rs:947) tests for one table: the order depends on the entries      *)
(* alone, not on the history of the table.                                 *)
DepthFirst ==
  \A i \in 1..(Len(seen) - 1) : Before(seen[i], seen[i + 1])
==============================================================================
