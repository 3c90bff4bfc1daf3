------------------------------- MODULE TreeBits -------------------------------
(***************************************************************************)
(* The pure operators the tree bitmap is built from: nibbles and bitmap    *)
(* positions, ranks, compact Vecs, and node references.                    *)
(***************************************************************************)
EXTENDS RouteMapAPI, SequencesExt

(* 1u32 << n, for n in 0..=STRIDE *)
Shl(n) == <<1, 2, 4, 8, 16>>[n + 1]

Nibble == 0..15

nibble(a, h) == 8 * a[STRIDE * h + 1] + 4 * a[STRIDE * h + 2]
              + 2 * a[STRIDE * h + 3] + a[STRIDE * h + 4]

rank(bitmap, position) == Cardinality({b \in bitmap : b < position})

(* floor(log2(bpos)), spelled 31 - bpos.leading_zeros() *)
RelLen(bpos) == CASE bpos < 2 -> 0
                  [] bpos \in 2..3 -> 1
                  [] bpos \in 4..7 -> 2
                  [] OTHER -> 3

(* Slip: the nibble is not shifted down to its rel_len leading bits.       *)
PositionUnshifted(nib, rel_len) == Shl(rel_len) + nib

(* The bitmap position of the rel_len leading bits of a nibble.            *)
Position(nib, rel_len) == Shl(rel_len) + nib \div Shl(STRIDE - rel_len)

(* Slip: the three-bit position is left out.                               *)
MatchMaskShort(nib) == {1, 2 + nib \div 8, 4 + nib \div 4}

(* The four positions a nibble can match, one per relative length.         *)
MatchMask(nib) == {1, 2 + nib \div 8, 4 + nib \div 4, 8 + nib \div 2}

(* Slip: trailing_zeros where leading_zeros is meant.                      *)
LowestBit(bits) == Min(bits)

HighestBit(bits) == Max(bits)

(* bits | v << (BITS - mask - n): the n bits of v placed after mask bits.  *)
Place(ref, n, v) ==
  [ip |-> [i \in 1..BITS |->
             IF i \in (ref.mask + 1)..(ref.mask + n)
             THEN (v \div Shl(n - (i - ref.mask))) % 2
             ELSE ref.ip[i]],
   mask |-> ref.mask + n]

Root == [ip |-> [i \in 1..BITS |-> 0], mask |-> 0]

(* The reference of the child for a nibble; the prefix stored at a bit.    *)
Child(ref, nib) == Place(ref, STRIDE, nib)
Entry(ref, bpos) == Place(ref, RelLen(bpos), bpos - Shl(RelLen(bpos)))

(* The node reached after h hops along an address.                         *)
Path(a, h) == masked([ip |-> a, mask |-> STRIDE * h])
------------------------------------------------------------------------------
(* Vec::insert, Vec::remove and slice indexing, with Rust's 0-based index. *)
VecInsert(vec, idx, x) == InsertAt(vec, idx + 1, x)

VecRemove(vec, idx) == RemoveAt(vec, idx + 1)

At(vec, idx) == vec[idx + 1]

EmptyNode == [internal |-> {}, external |-> {}, values |-> <<>>, children |-> <<>>]

(* Slips: children are forgotten; nothing is ever pruned.                  *)
IsValueless(n) == n.internal = {}
IsNeverDead(n) == FALSE

(* internal == 0 && external == 0                                          *)
IsDead(n) == n.internal = {} /\ n.external = {}

WithNode(h, ref, n) == [r \in DOMAIN h \cup {ref} |-> IF r = ref THEN n ELSE h[r]]
Without(h, ref) == Restrict(h, DOMAIN h \ {ref})
==============================================================================
