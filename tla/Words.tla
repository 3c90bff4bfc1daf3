------------------------------- MODULE Words -------------------------------
(***************************************************************************)
(* The bitmaps and addresses of src/treebitmap as the u32 and u128 words   *)
(* they are.  The rest of the project takes a bitmap for the set of its    *)
(* one-bits and an address for the sequence of its bits (TreeBits); here   *)
(* the expressions the code evaluates on the words are compared with the   *)
(* operators that stand for them.                                          *)
(***************************************************************************)
EXTENDS Integers, FiniteSets, Bitwise

CONSTANTS
  Strides,
  MaxOnes    \* bound on the bits set in a bitmap at a time

VARIABLES
  bitmap,   \* TbNode.internal or TbNode.external
  addr,     \* IterFrame.addr
  hop,      \* IterFrame.hop
  ref       \* the reference TreeBitmap gives the node on this path

frame == <<addr, hop, ref>>

Bits == INSTANCE TreeBits WITH
  Value <- {}, None <- 0, Nets <- {}, Addrs <- {}, DropMayPanic <- FALSE

STRIDE    == 4
addr_bits == STRIDE * Strides

shl(v, n) == v * 2^n
------------------------------------------------------------------------------
(* Bitmaps: sixteen bits of a u32.                                         *)
Position == 0..15

(* (word >> b) & 1 == 1                                                    *)
IsSet(word, b) == shiftR(word, b) & 1 = 1

Ones(word) == {b \in Position : IsSet(word, b)}

(* The methods of u32.                                                     *)
count_ones(word)     == Cardinality(Ones(word))
leading_zeros(word)  == 32 - Cardinality({b \in Position : shl(1, b) <= word})
trailing_zeros(word) == CHOOSE n \in Position : word % 2^n = 0 /\ IsSet(word, n)

(* Slip: the bit at the position is counted too.                           *)
rankWithin(word, position) == count_ones(word & (shl(1, position + 1) - 1))

rank(word, position) == count_ones(word & (shl(1, position) - 1))

(* Slip: the shift of the two-bit position.                                *)
match_mask_shifted(nib) ==
  ((shl(1, 1) | shl(1, 2 | shiftR(nib, 3))) | shl(1, 4 | shiftR(nib, 1))) | shl(1, 8 | shiftR(nib, 1))

match_mask(nib) ==
  ((shl(1, 1) | shl(1, 2 | shiftR(nib, 3))) | shl(1, 4 | shiftR(nib, 2))) | shl(1, 8 | shiftR(nib, 1))

(* 31 - x.leading_zeros(): the best hit, and the length a bit stands for   *)
log2(x) == 31 - leading_zeros(x)

(* Slip: the cursor is not added back.                                     *)
ScanFromZero(word, cursor) == trailing_zeros(shiftR(word, cursor))

Scan(word, cursor) == cursor + trailing_zeros(shiftR(word, cursor))

(* word |= 1 << b                                                          *)
WithBit(word, b) == word | shl(1, b)

(* word &= !(1u32 << b); no bit above the sixteenth is ever set            *)
WithoutBit(word, b) == word & (65535 - shl(1, b))
------------------------------------------------------------------------------
(* Addresses: addr_bits bits of a u128.                                    *)
BitsOf(a) == [i \in 1..addr_bits |-> shiftR(a, addr_bits - i) & 1]

(* Slip: the nibbles are counted from the low end.                         *)
nibbleFromBelow(a, h) == shiftR(a, h * STRIDE) & 15

nibble(a, h) == shiftR(a, addr_bits - (h + 1) * STRIDE) & 15

(* Slip: the shift of the node's own hop.                                  *)
child_addr_high(nib) == addr | shl(nib, addr_bits - (IF hop = 0 THEN 1 ELSE hop) * STRIDE)

(* addr | (nib << (addr_bits - (hop + 1) * STRIDE))                        *)
child_addr(nib) == addr | shl(nib, addr_bits - (hop + 1) * STRIDE)

(* Slip: rel_len is left out of the shift.                                 *)
full_addr_low(bpos) ==
  addr | shl(bpos - shl(1, log2(bpos)), addr_bits - hop * STRIDE - STRIDE)

(* No shift for rel_len 0, where addr_bits - hop * STRIDE can be all 128.  *)
full_addr(bpos) ==
  LET rel_len == log2(bpos)
  IN  IF rel_len > 0
      THEN addr | shl(bpos - shl(1, rel_len), addr_bits - hop * STRIDE - rel_len)
      ELSE addr

(* (1 << rel_len) + (nibble >> (STRIDE - rel_len)), or bit 1 for rel_len 0 *)
bpos_of(a, h, rel_len) ==
  shl(1, rel_len) + (IF rel_len > 0 THEN shiftR(nibble(a, h), STRIDE - rel_len) ELSE 0)
------------------------------------------------------------------------------
(* Bitmaps and addresses do not meet.  To keep the product of their states *)
(* out, bits change in the root only, and paths are followed with an empty *)
(* bitmap.                                                                 *)
Init == bitmap = 0 /\ addr = 0 /\ hop = 0 /\ ref = Bits!Root

SetBit ==
  /\ hop = 0
  /\ count_ones(bitmap) < MaxOnes
  /\ \E b \in Position : bitmap' = WithBit(bitmap, b)
  /\ UNCHANGED frame

ClearBit ==
  /\ hop = 0
  /\ \E b \in Position : bitmap' = WithoutBit(bitmap, b)
  /\ UNCHANGED frame

Push ==
  /\ bitmap = 0
  /\ hop < Strides
  /\ \E nib \in Bits!Nibble : addr' = child_addr(nib) /\ ref' = Bits!Child(ref, nib)
  /\ hop' = hop + 1
  /\ UNCHANGED bitmap

Next == SetBit \/ ClearBit \/ Push

Spec == Init /\ [][Next]_<<bitmap, frame>>
------------------------------------------------------------------------------
(* The rank is that of the set, at every position.                         *)
RankAgrees ==
  \A p \in Position : rank(bitmap, p) = Bits!rank(Ones(bitmap), p)

(* The single AND finds the hits of all four lengths, and the two          *)
(* leading_zeros find the longest and its length.                          *)
HitAgrees ==
  \A nib \in Bits!Nibble :
    LET hits == bitmap & match_mask(nib)
    IN  /\ Ones(hits) = Ones(bitmap) \cap Bits!MatchMask(nib)
        /\ hits # 0 =>
             /\ log2(hits) = Bits!HighestBit(Ones(hits))
             /\ log2(log2(hits)) = Bits!RelLen(log2(hits))

(* The iterator's scan finds the next one-bit at or above its cursor, and  *)
(* sees that there is none.                                                *)
ScanAgrees ==
  \A cursor \in Position :
    LET left == {b \in Ones(bitmap) : b >= cursor}
    IN  IF shiftR(bitmap, cursor) = 0 THEN left = {}
        ELSE Scan(bitmap, cursor) \in left /\ \A b \in left : Scan(bitmap, cursor) <= b

(* The address OR-ed together on the way down is that of the node, every   *)
(* nibble falling into bits that are still zero, and nibble cuts out of it *)
(* what was put in, stride by stride.                                      *)
PathAgrees ==
  /\ BitsOf(addr) = ref.ip
  /\ hop * STRIDE = ref.mask
  /\ \A h \in 0..(Strides - 1) : nibble(addr, h) = Bits!nibble(ref.ip, h)

(* The prefix rebuilt for a bit of the node is the one insert stores       *)
(* there: it is the reference's entry, it fits the address, and the        *)
(* position computed from it is the bit.                                   *)
EntryAgrees ==
  \A bpos \in IF hop < Strides THEN 1..15 ELSE {1} :
    LET p == Bits!Entry(ref, bpos)
    IN  /\ BitsOf(full_addr(bpos)) = p.ip
        /\ hop * STRIDE + log2(bpos) = p.mask
        /\ full_addr(bpos) < 2^addr_bits
        /\ bpos_of(full_addr(bpos), hop, log2(bpos)) = bpos
==============================================================================
