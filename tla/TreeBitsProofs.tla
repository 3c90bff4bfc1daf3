---------------------------- MODULE TreeBitsProofs ----------------------------
(***************************************************************************)
(* Facts about the operators of TreeBits, for every number of strides.     *)
(***************************************************************************)
EXTENDS TreeBits, FiniteSetTheorems, SequenceTheorems, WellFoundedInduction, TLAPS

(* An address has 4 * Strides bits, and at least one stride.               *)
LEMMA BitsType == STRIDE = 4 /\ BITS \in Nat /\ BITS = 4 * Strides /\ Strides \in Nat /\ Strides > 0
BY StridesAssumption DEF STRIDE, BITS

(* A nibble of an address is one of the 16 external bit positions.         *)
LEMMA NibbleType ==
  ASSUME NEW a \in Address, NEW h \in 0..(Strides - 1)
  PROVE  nibble(a, h) \in Nibble
<1>1. \A k \in 1..4 : a[4 * h + k] \in {0, 1}
  BY BitsType DEF Address
<1>2. /\ a[4 * h + 1] \in {0, 1} /\ a[4 * h + 2] \in {0, 1}
      /\ a[4 * h + 3] \in {0, 1} /\ a[4 * h + 4] \in {0, 1}
  BY <1>1
<1>. QED
  BY <1>2, BitsType DEF nibble, Nibble

(* masked() yields a prefix.                                               *)
LEMMA MaskedType ==
  ASSUME NEW p \in IpPrefix
  PROVE  /\ masked(p) \in IpPrefix
         /\ masked(p).mask = p.mask
         /\ \A i \in 1..BITS : masked(p).ip[i] = IF i <= p.mask THEN p.ip[i] ELSE 0
BY BitsType DEF masked, IpPrefix, Address

(* The root's reference is a prefix, the one of length 0.                  *)
LEMMA RootType == Root \in IpPrefix
BY BitsType DEF Root, IpPrefix, Address

(* The bits of the node at depth h on an address: its first 4 * h.         *)
LEMMA PathType ==
  ASSUME NEW a \in Address, NEW h \in 0..Strides
  PROVE  /\ Path(a, h) \in IpPrefix
         /\ Path(a, h).mask = 4 * h
         /\ \A i \in 1..BITS : Path(a, h).ip[i] = IF i <= 4 * h THEN a[i] ELSE 0
<1>1. [ip |-> a, mask |-> STRIDE * h] \in IpPrefix
  BY BitsType DEF IpPrefix
<1>. QED
  BY <1>1, MaskedType, BitsType DEF Path

(* The powers of two a stride needs.                                       *)
LEMMA ShlValues == Shl(0) = 1 /\ Shl(1) = 2 /\ Shl(2) = 4 /\ Shl(3) = 8 /\ Shl(4) = 16
BY DEF Shl

(* Prefixes are equal bit by bit.                                          *)
LEMMA PrefixEqual ==
  ASSUME NEW p \in IpPrefix, NEW q \in IpPrefix, p.mask = q.mask,
         \A i \in 1..BITS : p.ip[i] = q.ip[i]
  PROVE  p = q
<1>1. p.ip \in [1..BITS -> {0, 1}] /\ q.ip \in [1..BITS -> {0, 1}]
  BY DEF IpPrefix, Address
<1>2. p.ip = q.ip
  <2>1. p.ip = [i \in 1..BITS |-> p.ip[i]] /\ q.ip = [i \in 1..BITS |-> q.ip[i]]
    BY <1>1
  <2>2. [i \in 1..BITS |-> p.ip[i]] = [i \in 1..BITS |-> q.ip[i]]
    OBVIOUS
  <2>. QED BY <2>1, <2>2
<1>3. p = [ip |-> p.ip, mask |-> p.mask] /\ q = [ip |-> q.ip, mask |-> q.mask]
  BY DEF IpPrefix
<1>. QED
  BY <1>2, <1>3

(* A node reference of depth less than Strides and a nibble make a         *)
(* reference; its four new bits are the nibble's.                          *)
LEMMA ChildType ==
  ASSUME NEW r \in IpPrefix, r.mask + 4 <= BITS, NEW n \in Nibble
  PROVE  /\ Child(r, n) \in IpPrefix
         /\ Child(r, n).mask = r.mask + 4
         /\ \A i \in 1..BITS : i \notin (r.mask + 1)..(r.mask + 4) => Child(r, n).ip[i] = r.ip[i]
         /\ Child(r, n).ip[r.mask + 1] = (n \div 8) % 2
         /\ Child(r, n).ip[r.mask + 2] = (n \div 4) % 2
         /\ Child(r, n).ip[r.mask + 3] = (n \div 2) % 2
         /\ Child(r, n).ip[r.mask + 4] = n % 2
<1> DEFINE m == r.mask
           bit(i) == (n \div Shl(4 - (i - m))) % 2
<1>0. m \in Nat /\ m + 4 \in 0..BITS /\ r.ip \in Address
  BY BitsType DEF IpPrefix
<1>1. /\ bit(m + 1) = (n \div 8) % 2
      /\ bit(m + 2) = (n \div 4) % 2
      /\ bit(m + 3) = (n \div 2) % 2
      /\ bit(m + 4) = (n \div 1) % 2
  <2>1. 4 - ((m + 1) - m) = 3 /\ 4 - ((m + 2) - m) = 2 /\ 4 - ((m + 3) - m) = 1 /\ 4 - ((m + 4) - m) = 0
    BY <1>0
  <2>. QED BY <2>1, ShlValues
<1>2. \A i \in (m + 1)..(m + 4) : bit(i) \in {0, 1}
  <2>1. /\ (n \div 8) % 2 \in {0, 1} /\ (n \div 4) % 2 \in {0, 1}
        /\ (n \div 2) % 2 \in {0, 1} /\ (n \div 1) % 2 \in {0, 1}
    BY DEF Nibble
  <2>2. \A i \in (m + 1)..(m + 4) : i = m + 1 \/ i = m + 2 \/ i = m + 3 \/ i = m + 4
    BY <1>0
  <2>. QED BY <1>1, <2>1, <2>2
<1>3. n \div 1 = n
  BY DEF Nibble
<1>4. Child(r, n) = [ip |-> [i \in 1..BITS |-> IF i \in (m + 1)..(m + 4) THEN bit(i) ELSE r.ip[i]],
                     mask |-> m + 4]
  BY BitsType DEF Child, Place
<1> HIDE DEF bit, m
<1>5. [i \in 1..BITS |-> IF i \in (m + 1)..(m + 4) THEN bit(i) ELSE r.ip[i]] \in Address
  BY <1>0, <1>2 DEF Address
<1>6. /\ Child(r, n) \in IpPrefix
      /\ Child(r, n).mask = m + 4
  BY <1>0, <1>4, <1>5, BitsType DEF IpPrefix
<1>7. \A i \in 1..BITS : Child(r, n).ip[i] = IF i \in (m + 1)..(m + 4) THEN bit(i) ELSE r.ip[i]
  BY <1>4
<1>8. /\ \A i \in 1..BITS : i \notin (m + 1)..(m + 4) => Child(r, n).ip[i] = r.ip[i]
      /\ Child(r, n).ip[m + 1] = bit(m + 1)
      /\ Child(r, n).ip[m + 2] = bit(m + 2)
      /\ Child(r, n).ip[m + 3] = bit(m + 3)
      /\ Child(r, n).ip[m + 4] = bit(m + 4)
  <2>1. \A k \in 1..4 : m + k \in 1..BITS /\ m + k \in (m + 1)..(m + 4)
    BY <1>0, BitsType
  <2>2. \A k \in 1..4 : Child(r, n).ip[m + k] = bit(m + k)
    BY <1>7, <2>1
  <2>. QED BY <1>7, <2>2
<1>. QED
  BY <1>1, <1>3, <1>6, <1>8 DEF m

(* The binary digits of a four-bit number.                                 *)
LEMMA FourBits ==
  \A x, y, z, w \in {0, 1} : \A v :
    v = 8 * x + 4 * y + 2 * z + w
      => (v \div 8) % 2 = x /\ (v \div 4) % 2 = y /\ (v \div 2) % 2 = z /\ v % 2 = w
OBVIOUS

(* One hop along an address leads from its node at depth h to its node at  *)
(* depth h + 1: the nibble read from the address is the one the child's    *)
(* reference is made of.                                                   *)
LEMMA ChildOnPath ==
  ASSUME NEW a \in Address, NEW h \in 0..(Strides - 1)
  PROVE  Child(Path(a, h), nibble(a, h)) = Path(a, h + 1)
<1> DEFINE r == Path(a, h)
           n == nibble(a, h)
           c == Child(r, n)
           m == 4 * h
<1>1. h \in 0..Strides /\ h + 1 \in 0..Strides /\ m \in Nat /\ m + 4 <= BITS
  BY BitsType
<1>2. r \in IpPrefix /\ r.mask = m /\ n \in Nibble
  BY <1>1, PathType, NibbleType
<1>3. /\ a[m + 1] \in {0, 1} /\ a[m + 2] \in {0, 1} /\ a[m + 3] \in {0, 1} /\ a[m + 4] \in {0, 1}
  <2>1. \A k \in 1..4 : m + k \in 1..BITS
    BY <1>1, BitsType
  <2>2. \A k \in 1..4 : a[m + k] \in {0, 1}
    BY <2>1 DEF Address
  <2>. QED BY <2>2
<1>4. n = 8 * a[m + 1] + 4 * a[m + 2] + 2 * a[m + 3] + a[m + 4]
  BY BitsType DEF nibble
<1>5. /\ (n \div 8) % 2 = a[m + 1] /\ (n \div 4) % 2 = a[m + 2]
      /\ (n \div 2) % 2 = a[m + 3] /\ n % 2 = a[m + 4]
  BY ONLY <1>3, <1>4, FourBits
<1>6. /\ c \in IpPrefix
      /\ c.mask = m + 4
      /\ \A i \in 1..BITS : i \notin (m + 1)..(m + 4) => c.ip[i] = r.ip[i]
      /\ c.ip[m + 1] = a[m + 1] /\ c.ip[m + 2] = a[m + 2]
      /\ c.ip[m + 3] = a[m + 3] /\ c.ip[m + 4] = a[m + 4]
  <2> HIDE DEF n, m, r
  <2>. QED BY <1>1, <1>2, <1>5, ChildType
<1>7. \A i \in (m + 1)..(m + 4) : c.ip[i] = a[i]
  <2> HIDE DEF c, m
  <2>1. \A i \in (m + 1)..(m + 4) : i = m + 1 \/ i = m + 2 \/ i = m + 3 \/ i = m + 4
    BY <1>1
  <2>. QED BY <1>6, <2>1
<1>8. /\ Path(a, h + 1) \in IpPrefix
      /\ Path(a, h + 1).mask = m + 4
      /\ \A i \in 1..BITS : Path(a, h + 1).ip[i] = IF i <= m + 4 THEN a[i] ELSE 0
  <2>1. 4 * (h + 1) = m + 4
    OBVIOUS
  <2>. QED BY <1>1, <2>1, PathType
<1>9. \A i \in 1..BITS : r.ip[i] = IF i <= m THEN a[i] ELSE 0
  BY <1>1, PathType
<1>10. \A i \in 1..BITS : c.ip[i] = Path(a, h + 1).ip[i]
  <2> HIDE DEF c, m, r
  <2>. QED BY <1>1, <1>6, <1>7, <1>8, <1>9
<1>. QED
  <2> HIDE DEF c
  <2>1. c = Path(a, h + 1)
    BY <1>6, <1>8, <1>10, PrefixEqual
  <2>. QED BY <2>1 DEF c
(* The nodes along an address are those along the reference of a deeper    *)
(* node of the same walk.                                                  *)
LEMMA PathOfPath ==
  ASSUME NEW a \in Address, NEW h \in 0..Strides, NEW k \in 0..h
  PROVE  /\ Path(Path(a, h).ip, k) = Path(a, k)
         /\ k < h => nibble(Path(a, h).ip, k) = nibble(a, k)
<1> DEFINE b == Path(a, h).ip
<1>1. /\ b \in Address
      /\ \A i \in 1..BITS : b[i] = IF i <= 4 * h THEN a[i] ELSE 0
      /\ k \in 0..Strides
  BY PathType, BitsType DEF IpPrefix
<1> HIDE DEF b
<1>2. Path(b, k) = Path(a, k)
  <2>1. /\ Path(a, k) \in IpPrefix /\ Path(a, k).mask = 4 * k
        /\ \A i \in 1..BITS : Path(a, k).ip[i] = IF i <= 4 * k THEN a[i] ELSE 0
    BY <1>1, PathType
  <2>2. /\ Path(b, k) \in IpPrefix /\ Path(b, k).mask = 4 * k
        /\ \A i \in 1..BITS : Path(b, k).ip[i] = IF i <= 4 * k THEN b[i] ELSE 0
    BY <1>1, PathType
  <2>3. \A i \in 1..BITS : Path(b, k).ip[i] = Path(a, k).ip[i]
    BY <1>1, <2>1, <2>2, BitsType
  <2>. QED BY <2>1, <2>2, <2>3, PrefixEqual
<1>3. ASSUME k < h PROVE nibble(b, k) = nibble(a, k)
  <2>1. \A j \in 1..4 : 4 * k + j \in 1..BITS /\ 4 * k + j <= 4 * h
    BY <1>3, BitsType
  <2>2. \A j \in 1..4 : b[4 * k + j] = a[4 * k + j]
    BY <1>1, <2>1
  <2>. QED BY <2>2, BitsType DEF nibble
<1>. QED
  BY <1>2, <1>3 DEF b

(* Every walk starts at the root.                                          *)
LEMMA PathRoot ==
  ASSUME NEW a \in Address
  PROVE  Path(a, 0) = Root
<1>1. 0 \in 0..Strides /\ 4 * 0 = 0
  BY BitsType
<1>2. /\ Path(a, 0) \in IpPrefix /\ Path(a, 0).mask = 0
      /\ \A i \in 1..BITS : Path(a, 0).ip[i] = 0
  BY <1>1, PathType
<1>3. Root \in IpPrefix /\ Root.mask = 0 /\ \A i \in 1..BITS : Root.ip[i] = 0
  BY RootType DEF Root
<1>. QED
  BY <1>2, <1>3, PrefixEqual

------------------------------------------------------------------------------
(* Ranks.  A bitmap is a set of bit positions; both bitmaps of a node have *)
(* theirs in 0..15, the values of a nibble.                                *)
Bitmap == SUBSET Nibble

(* A bitmap has at most 16 bits.                                           *)
LEMMA BitmapFinite ==
  ASSUME NEW S \in Bitmap
  PROVE  IsFiniteSet(S) /\ Cardinality(S) \in Nat /\ Cardinality(S) <= 16
<1>1. S \in SUBSET Nat /\ \A s \in S : s <= 15
  BY DEF Bitmap, Nibble
<1>2. IsFiniteSet(S) /\ Cardinality(S) <= 15 + 1
  BY <1>1, FS_BoundedSetOfNaturals
<1>3. Cardinality(S) \in Nat
  BY <1>2, FS_CardinalityType
<1>. QED
  BY <1>2, <1>3

(* A rank is an index into a compact Vec, or one past its end.             *)
LEMMA RankType ==
  ASSUME NEW S \in Bitmap, NEW b \in Int
  PROVE  rank(S, b) \in Nat /\ rank(S, b) <= Cardinality(S)
<1> DEFINE B == {c \in S : c < b}
<1>1. IsFiniteSet(S) /\ B \in SUBSET S
  BY BitmapFinite
<1>2. IsFiniteSet(B) /\ Cardinality(B) <= Cardinality(S) /\ Cardinality(B) \in Nat
  BY <1>1, FS_Subset, FS_CardinalityType
<1>. QED
  BY <1>2 DEF rank

(* The rank of a set bit is in bounds.                                     *)
LEMMA RankInBounds ==
  ASSUME NEW S \in Bitmap, NEW b \in S
  PROVE  /\ rank(S, b) \in Nat
         /\ rank(S, b) < Cardinality(S)
         /\ rank(S, b) <= 15
<1> DEFINE B == {c \in S : c < b}
<1>1. b \in Int /\ IsFiniteSet(S) /\ Cardinality(S) \in Nat /\ Cardinality(S) <= 16
  BY BitmapFinite DEF Bitmap, Nibble
<1>2. B \in SUBSET S /\ B # S
  BY <1>1
<1>3. Cardinality(B) <= Cardinality(S) /\ Cardinality(B) # Cardinality(S)
  BY <1>1, <1>2, FS_Subset
<1>4. rank(S, b) = Cardinality(B)
  BY DEF rank
<1>. QED
  BY <1>1, <1>3, <1>4, RankType

(* Distinct set bits have distinct ranks, in their order.                  *)
LEMMA RankMonotone ==
  ASSUME NEW S \in Bitmap, NEW b \in S, NEW c \in Int, b < c
  PROVE  rank(S, b) < rank(S, c)
<1> DEFINE B == {d \in S : d < b}
           C == {d \in S : d < c}
<1>1. b \in Int /\ S \subseteq Int /\ IsFiniteSet(S)
  BY BitmapFinite DEF Bitmap, Nibble
<1>2. IsFiniteSet(C) /\ B \in SUBSET C /\ b \in C /\ b \notin B
  <2>1. B \in SUBSET C /\ b \in C /\ b \notin B
    BY <1>1
  <2>2. C \in SUBSET S
    OBVIOUS
  <2>. QED BY <1>1, <2>1, <2>2, FS_Subset
<1>3. Cardinality(B) <= Cardinality(C) /\ Cardinality(B) # Cardinality(C)
  BY <1>2, FS_Subset
<1>4. rank(S, b) = Cardinality(B) /\ rank(S, c) = Cardinality(C)
  BY DEF rank
<1>. QED
  BY <1>1, <1>3, <1>4, RankType

(* Setting a bit moves the ranks of the bits above it up by one ...        *)
LEMMA RankAdd ==
  ASSUME NEW S \in Bitmap, NEW x \in Nibble, x \notin S, NEW b \in Int
  PROVE  rank(S \cup {x}, b) = IF x < b THEN rank(S, b) + 1 ELSE rank(S, b)
<1> DEFINE B == {c \in S : c < b}
<1>1. IsFiniteSet(S) /\ B \in SUBSET S
  BY BitmapFinite
<1>2. IsFiniteSet(B)
  BY <1>1, FS_Subset
<1>3. Cardinality(B \cup {x}) = Cardinality(B) + 1
  BY <1>2, FS_AddElement
<1>4. {c \in S \cup {x} : c < b} = IF x < b THEN B \cup {x} ELSE B
  OBVIOUS
<1>. QED
  BY <1>3, <1>4 DEF rank

(* ... and clearing it moves them back.                                    *)
LEMMA RankRemove ==
  ASSUME NEW S \in Bitmap, NEW x \in S, NEW b \in Int
  PROVE  rank(S \ {x}, b) = IF x < b THEN rank(S, b) - 1 ELSE rank(S, b)
<1>1. x \in Nibble /\ S \ {x} \in Bitmap /\ (S \ {x}) \cup {x} = S
  BY DEF Bitmap
<1>2. rank(S, b) = IF x < b THEN rank(S \ {x}, b) + 1 ELSE rank(S \ {x}, b)
  BY <1>1, RankAdd
<1>3. rank(S \ {x}, b) \in Nat
  BY <1>1, RankType
<1>. QED
  BY <1>2, <1>3
------------------------------------------------------------------------------
(* Vec::insert and Vec::remove, element by element.                        *)
LEMMA InsertAtElements ==
  ASSUME NEW T, NEW s \in Seq(T), NEW e \in T, NEW k \in Nat, k <= Len(s)
  PROVE  /\ InsertAt(s, k + 1, e) \in Seq(T)
         /\ Len(InsertAt(s, k + 1, e)) = Len(s) + 1
         /\ \A i \in 1..(Len(s) + 1) :
              InsertAt(s, k + 1, e)[i] = IF i <= k THEN s[i] ELSE IF i = k + 1 THEN e ELSE s[i - 1]
<1> DEFINE front == SubSeq(s, 1, k)
           back  == SubSeq(s, k + 1, Len(s))
<1>1. Len(s) \in Nat /\ \A i \in 1..Len(s) : s[i] \in T
  OBVIOUS
<1>2. /\ front \in Seq(T)
      /\ Len(front) = k
      /\ \A i \in 1..k : front[i] = s[i]
  <2>1. \A i \in 1..k : s[i] \in T
    BY <1>1
  <2>. QED BY <1>1, <2>1, SubSeqProperties
<1>3. /\ back \in Seq(T)
      /\ Len(back) = Len(s) - k
      /\ \A i \in 1..(Len(s) - k) : back[i] = s[k + i]
  <2>1. \A i \in (k + 1)..Len(s) : s[i] \in T
    BY <1>1
  <2>2. k + 1 \in Int
    OBVIOUS
  <2>. QED BY <1>1, <2>1, <2>2, SubSeqProperties
<1>4. /\ <<e>> \in Seq(T)
      /\ Len(<<e>>) = 1
      /\ <<e>>[1] = e
  OBVIOUS
<1> DEFINE mid == front \o <<e>>
           new == mid \o back
<1> HIDE DEF front, back
<1>5. /\ mid \in Seq(T)
      /\ Len(mid) = k + 1
      /\ \A i \in 1..(k + 1) : mid[i] = IF i <= k THEN s[i] ELSE e
  BY <1>2, <1>4, ConcatProperties
<1> HIDE DEF mid
<1>6. /\ new \in Seq(T)
      /\ Len(new) = Len(mid) + Len(back)
      /\ \A i \in 1..(Len(mid) + Len(back)) :
           new[i] = IF i <= Len(mid) THEN mid[i] ELSE back[i - Len(mid)]
  BY <1>3, <1>5, ConcatProperties
<1>7. InsertAt(s, k + 1, e) = new
  <2>1. (k + 1) - 1 = k
    OBVIOUS
  <2>. QED BY <2>1 DEF InsertAt, front, back, mid
<1> HIDE DEF new
<1>8. Len(mid) + Len(back) = Len(s) + 1
  BY <1>1, <1>3, <1>5
<1>9. \A i \in 1..(Len(s) + 1) :
        new[i] = IF i <= k THEN s[i] ELSE IF i = k + 1 THEN e ELSE s[i - 1]
  <2>1. TAKE i \in 1..(Len(s) + 1)
  <2>2. CASE i <= k + 1
    BY <1>5, <1>6, <1>8, <2>2
  <2>3. CASE i > k + 1
    <3>1. i - (k + 1) \in 1..(Len(s) - k) /\ k + (i - (k + 1)) = i - 1
      BY <1>1, <2>3
    <3>2. new[i] = back[i - (k + 1)]
      BY <1>5, <1>6, <1>8, <2>3
    <3>3. back[i - (k + 1)] = s[i - 1]
      BY <1>3, <3>1
    <3>. QED BY <2>3, <3>2, <3>3
  <2>. QED BY <2>2, <2>3
<1>. QED
  BY <1>6, <1>7, <1>8, <1>9

(* Vec::remove, element by element.                                        *)
LEMMA RemoveAtElements ==
  ASSUME NEW T, NEW s \in Seq(T), NEW k \in Nat, k < Len(s)
  PROVE  /\ RemoveAt(s, k + 1) \in Seq(T)
         /\ Len(RemoveAt(s, k + 1)) = Len(s) - 1
         /\ \A i \in 1..(Len(s) - 1) : RemoveAt(s, k + 1)[i] = IF i <= k THEN s[i] ELSE s[i + 1]
<1> DEFINE front == SubSeq(s, 1, k)
           back  == SubSeq(s, k + 2, Len(s))
<1>1. Len(s) \in Nat /\ \A i \in 1..Len(s) : s[i] \in T
  OBVIOUS
<1>2. /\ front \in Seq(T)
      /\ Len(front) = k
      /\ \A i \in 1..k : front[i] = s[i]
  <2>1. \A i \in 1..k : s[i] \in T
    BY <1>1
  <2>. QED BY <1>1, <2>1, SubSeqProperties
<1>3. /\ back \in Seq(T)
      /\ Len(back) = Len(s) - (k + 1)
      /\ \A i \in 1..(Len(s) - (k + 1)) : back[i] = s[(k + 1) + i]
  <2>1. \A i \in (k + 2)..Len(s) : s[i] \in T
    BY <1>1
  <2>2. k + 2 \in Int
    OBVIOUS
  <2>. QED BY <1>1, <2>1, <2>2, SubSeqProperties
<1> DEFINE new == front \o back
<1> HIDE DEF front, back
<1>4. /\ new \in Seq(T)
      /\ Len(new) = Len(front) + Len(back)
      /\ \A i \in 1..(Len(front) + Len(back)) :
           new[i] = IF i <= Len(front) THEN front[i] ELSE back[i - Len(front)]
  BY <1>2, <1>3, ConcatProperties
<1>5. RemoveAt(s, k + 1) = new
  <2>1. (k + 1) - 1 = k /\ (k + 1) + 1 = k + 2
    OBVIOUS
  <2>. QED BY <2>1 DEF RemoveAt, front, back
<1> HIDE DEF new
<1>6. Len(front) + Len(back) = Len(s) - 1
  BY <1>1, <1>2, <1>3
<1>7. \A i \in 1..(Len(s) - 1) : new[i] = IF i <= k THEN s[i] ELSE s[i + 1]
  <2>1. TAKE i \in 1..(Len(s) - 1)
  <2>2. CASE i <= k
    BY <1>2, <1>4, <1>6, <2>2
  <2>3. CASE i > k
    <3>1. i - k \in 1..(Len(s) - (k + 1)) /\ (k + 1) + (i - k) = i + 1
      BY <1>1, <2>3
    <3>2. new[i] = back[i - k]
      BY <1>2, <1>4, <1>6, <2>3
    <3>3. back[i - k] = s[i + 1]
      BY <1>3, <3>1
    <3>. QED BY <2>3, <3>2, <3>3
  <2>. QED BY <2>2, <2>3
<1>. QED
  BY <1>4, <1>5, <1>6, <1>7

(* The highest hit of a nibble is a hit, and no other hit is longer.       *)
LEMMA HighestHit ==
  ASSUME NEW n \in Nibble, NEW S, NEW hits, hits = S \cap MatchMask(n), hits # {}
  PROVE  HighestBit(hits) \in hits /\ \A b \in hits : b <= HighestBit(hits)
<1> DEFINE b1 == 2 + (n \div 8)
           b2 == 4 + (n \div 4)
           b3 == 8 + (n \div 2)
<1>1. b1 \in 2..3 /\ b2 \in 4..7 /\ b3 \in 8..15
  BY DEF Nibble
<1>2. \A b \in hits : b = 1 \/ b = b1 \/ b = b2 \/ b = b3
  BY DEF MatchMask
<1> HIDE DEF b1, b2, b3
<1>3. \E x \in hits : \A y \in hits : x >= y
  <2>1. CASE b3 \in hits
    BY <1>1, <1>2, <2>1
  <2>2. CASE b3 \notin hits /\ b2 \in hits
    BY <1>1, <1>2, <2>2
  <2>3. CASE b3 \notin hits /\ b2 \notin hits /\ b1 \in hits
    BY <1>1, <1>2, <2>3
  <2>4. CASE b3 \notin hits /\ b2 \notin hits /\ b1 \notin hits
    BY <1>1, <1>2, <2>4
  <2>. QED BY <2>1, <2>2, <2>3, <2>4
<1>4. HighestBit(hits) \in hits /\ \A y \in hits : HighestBit(hits) >= y
  BY <1>3 DEF HighestBit, Max
<1>5. \A b \in hits : b \in Int
  BY <1>1, <1>2
<1>. QED
  BY <1>4, <1>5

(* Vec::insert makes the Vec one longer and puts the element at its index. *)
LEMMA VecInsertType ==
  ASSUME NEW T, NEW vec \in Seq(T), NEW v \in T, NEW k \in Nat, k <= Len(vec)
  PROVE  /\ VecInsert(vec, k, v) \in Seq(T)
         /\ Len(VecInsert(vec, k, v)) = Len(vec) + 1
         /\ At(VecInsert(vec, k, v), k) = v
<1>1. Len(vec) \in Nat
  OBVIOUS
<1>2. k + 1 \in 1..(Len(vec) + 1) /\ ~(k + 1 <= k)
  BY <1>1
<1>3. /\ InsertAt(vec, k + 1, v) \in Seq(T)
      /\ Len(InsertAt(vec, k + 1, v)) = Len(vec) + 1
      /\ InsertAt(vec, k + 1, v)[k + 1] = v
  <2> DEFINE new == InsertAt(vec, k + 1, v)
  <2>1. /\ new \in Seq(T)
        /\ Len(new) = Len(vec) + 1
        /\ \A i \in 1..(Len(vec) + 1) :
             new[i] = IF i <= k THEN vec[i] ELSE IF i = k + 1 THEN v ELSE vec[i - 1]
    BY InsertAtElements
  <2> HIDE DEF new
  <2>2. new[k + 1] = v
    BY <1>2, <2>1
  <2>3. /\ new \in Seq(T) /\ Len(new) = Len(vec) + 1 /\ new[k + 1] = v
    BY <2>1, <2>2
  <2>. QED BY <2>3 DEF new
<1>. QED
  BY <1>3 DEF VecInsert, At

(* Compact Vecs: one slot per set bit, at its rank.  Vec::insert at the    *)
(* rank of a new bit keeps the slot of every other bit.                    *)
LEMMA VecInsertAt ==
  ASSUME NEW T, NEW vec \in Seq(T), NEW v \in T,
         NEW S \in Bitmap, NEW x \in Nibble, x \notin S, Len(vec) >= Cardinality(S),
         NEW U, U = S \cup {x}, NEW n \in U
  PROVE  At(VecInsert(vec, rank(S, x), v), rank(U, n)) = IF n = x THEN v ELSE At(vec, rank(S, n))
<1> DEFINE k   == rank(S, x)
           new == VecInsert(vec, k, v)
<1>1. k \in Nat /\ k <= Len(vec) /\ Len(vec) \in Nat
  <2>1. k \in Nat /\ k <= Cardinality(S)
    <3>1. x \in Int
      BY DEF Nibble
    <3>. QED BY <3>1, RankType
  <2>2. Cardinality(S) \in Nat
    BY BitmapFinite
  <2>3. Len(vec) \in Nat
    OBVIOUS
  <2>. QED BY <2>1, <2>2, <2>3
<1>2. /\ new \in Seq(T)
      /\ Len(new) = Len(vec) + 1
      /\ \A i \in 1..(Len(vec) + 1) :
           new[i] = IF i <= k THEN vec[i] ELSE IF i = k + 1 THEN v ELSE vec[i - 1]
  <2> HIDE DEF k
  <2>. QED BY <1>1, InsertAtElements DEF VecInsert
<1>3. \A m \in 0..Len(vec) :
        At(new, m) = IF m < k THEN At(vec, m) ELSE IF m = k THEN v ELSE At(vec, m - 1)
  BY <1>1, <1>2 DEF At
<1>4. At(new, rank(U, n)) = IF n = x THEN v ELSE At(vec, rank(S, n))
  <2>1. n \in Int /\ x \in Int
    BY DEF Bitmap, Nibble
  <2>2. rank(U, n) = IF x < n THEN rank(S, n) + 1 ELSE rank(S, n)
    BY <2>1, RankAdd
  <2>3. CASE n = x
    BY <1>1, <1>3, <2>1, <2>2, <2>3
  <2>4. CASE n < x
    <3>1. n \in S
      BY <2>1, <2>4
    <3>2. rank(S, n) \in Nat /\ rank(S, n) < k
      BY <2>1, <2>4, <3>1, RankMonotone, RankInBounds
    <3>. QED BY <1>1, <1>3, <2>1, <2>2, <2>4, <3>2
  <2>5. CASE x < n
    <3>1. n \in S
      BY <2>1, <2>5
    <3>2. rank(S, n) \in Nat /\ rank(S, n) < Len(vec) /\ k <= rank(S, n)
      <4>1. rank(S, n) \in Nat /\ rank(S, n) < Cardinality(S) /\ Cardinality(S) \in Nat
        BY <3>1, RankInBounds, BitmapFinite
      <4>2. {c \in S : c < x} \in SUBSET {c \in S : c < n}
        <5>1. \A c \in S : c < x => c < n
          BY <2>1, <2>5 DEF Bitmap, Nibble
        <5>. QED BY <5>1
      <4>3. IsFiniteSet({c \in S : c < n})
        BY BitmapFinite, FS_Subset
      <4>4. k <= rank(S, n)
        BY <4>2, <4>3, FS_Subset DEF rank
      <4>. QED BY <4>1, <4>4, <1>1
    <3>. QED BY <1>1, <1>3, <2>1, <2>2, <2>5, <3>2
  <2>. QED BY <2>1, <2>3, <2>4, <2>5
<1>. QED
  BY <1>4

(* Vec::remove makes the Vec one shorter.                                   *)
LEMMA VecRemoveType ==
  ASSUME NEW T, NEW vec \in Seq(T), NEW k \in Nat, k < Len(vec)
  PROVE  VecRemove(vec, k) \in Seq(T) /\ Len(VecRemove(vec, k)) = Len(vec) - 1
BY RemoveAtElements DEF VecRemove

(* Vec::remove at the rank of a set bit keeps the slot of every other bit. *)
LEMMA VecRemoveAt ==
  ASSUME NEW T, NEW vec \in Seq(T),
         NEW S \in Bitmap, NEW x \in S, Len(vec) >= Cardinality(S),
         NEW U, U = S \ {x}, NEW n \in U
  PROVE  At(VecRemove(vec, rank(S, x)), rank(U, n)) = At(vec, rank(S, n))
<1> DEFINE k   == rank(S, x)
           new == VecRemove(vec, k)
<1>1. k \in Nat /\ k < Len(vec) /\ Len(vec) \in Nat
  BY RankInBounds, BitmapFinite
<1>2. /\ new \in Seq(T)
      /\ Len(new) = Len(vec) - 1
      /\ \A i \in 1..(Len(vec) - 1) : new[i] = IF i <= k THEN vec[i] ELSE vec[i + 1]
  BY <1>1, RemoveAtElements DEF VecRemove
<1>3. \A m \in 0..(Len(vec) - 2) : At(new, m) = IF m < k THEN At(vec, m) ELSE At(vec, m + 1)
  BY <1>1, <1>2 DEF At
<1>4. At(new, rank(U, n)) = At(vec, rank(S, n))
  <2>1. n \in Int /\ x \in Int /\ n \in S /\ n # x
    BY DEF Bitmap, Nibble
  <2>2. rank(U, n) = IF x < n THEN rank(S, n) - 1 ELSE rank(S, n)
    BY <2>1, RankRemove
  <2>3. rank(S, n) \in Nat /\ rank(S, n) < Len(vec)
    BY <2>1, <1>1, RankInBounds, BitmapFinite
  <2>4. CASE n < x
    <3>1. rank(S, n) < k
      BY <2>1, <2>4, RankMonotone
    <3>. QED BY <1>1, <1>3, <2>1, <2>2, <2>3, <2>4, <3>1
  <2>5. CASE x < n
    <3>1. k < rank(S, n)
      BY <2>1, <2>5, RankMonotone
    <3>. QED BY <1>1, <1>3, <2>1, <2>2, <2>3, <2>5, <3>1
  <2>. QED BY <2>1, <2>4, <2>5
<1>. QED
  BY <1>4
------------------------------------------------------------------------------
(* Internal bit positions: 1 is the node's own prefix, 2..3 one bit longer,*)
(* 4..7 two, 8..15 three.                                                  *)
LEMMA RelLenValues ==
  ASSUME NEW b \in 1..15
  PROVE  /\ RelLen(b) \in 0..3
         /\ RelLen(b) = 0 => b = 1
         /\ RelLen(b) = 1 => b \in 2..3
         /\ RelLen(b) = 2 => b \in 4..7
         /\ RelLen(b) = 3 => b \in 8..15
         /\ b = 1 => RelLen(b) = 0
BY DEF RelLen

(* The position of a non-empty run of leading bits, by its length.         *)
LEMMA PositionType ==
  ASSUME NEW v \in Nibble, NEW l \in 1..3
  PROVE  Position(v, l) \in 2..15 /\ RelLen(Position(v, l)) = l
<1>1. /\ 2 + v \div 8 \in 2..3
      /\ 4 + v \div 4 \in 4..7
      /\ 8 + v \div 2 \in 8..15
  BY DEF Nibble
<1>2. l = 1 \/ l = 2 \/ l = 3
  OBVIOUS
<1>3. /\ l = 1 => Position(v, l) = 2 + v \div 8
      /\ l = 2 => Position(v, l) = 4 + v \div 4
      /\ l = 3 => Position(v, l) = 8 + v \div 2
  BY ShlValues, BitsType DEF Position
<1>. QED
  BY <1>1, <1>2, <1>3 DEF RelLen

(* The prefix stored at a bit: the node's bits, then the position's.       *)
LEMMA EntryBits ==
  ASSUME NEW r \in IpPrefix, NEW b \in 1..15, r.mask + RelLen(b) <= BITS
  PROVE  /\ Entry(r, b).mask = r.mask + RelLen(b)
         /\ \A i \in 1..r.mask : Entry(r, b).ip[i] = r.ip[i]
         /\ RelLen(b) = 1 => Entry(r, b).ip[r.mask + 1] = (b - 2) % 2
         /\ RelLen(b) = 2 => /\ Entry(r, b).ip[r.mask + 1] = ((b - 4) \div 2) % 2
                             /\ Entry(r, b).ip[r.mask + 2] = (b - 4) % 2
         /\ RelLen(b) = 3 => /\ Entry(r, b).ip[r.mask + 1] = ((b - 8) \div 4) % 2
                             /\ Entry(r, b).ip[r.mask + 2] = ((b - 8) \div 2) % 2
                             /\ Entry(r, b).ip[r.mask + 3] = (b - 8) % 2
<1> DEFINE m == r.mask
           l == RelLen(b)
           v == b - Shl(l)
           e == Entry(r, b)
<1>1. m \in 0..BITS /\ l \in 0..3
  BY RelLenValues DEF IpPrefix
<1>2. e = [ip |-> [i \in 1..BITS |-> IF i \in (m + 1)..(m + l) THEN (v \div Shl(l - (i - m))) % 2
                                     ELSE r.ip[i]],
           mask |-> m + l]
  BY DEF Entry, Place
<1>3. \A x \in Nat : x \div 1 = x
  OBVIOUS
<1> HIDE DEF m, l, v, e
<1>4. e.mask = m + l
  BY <1>2
<1>5. \A i \in 1..BITS : e.ip[i] = IF i \in (m + 1)..(m + l) THEN (v \div Shl(l - (i - m))) % 2
                                   ELSE r.ip[i]
  BY <1>2
<1>6. \A i \in 1..m : e.ip[i] = r.ip[i]
  BY <1>1, <1>5, BitsType
<1>7. \A k \in 1..l : e.ip[m + k] = (v \div Shl(l - k)) % 2
  <2>1. TAKE k \in 1..l
  <2>2. m + k \in 1..BITS /\ m + k \in (m + 1)..(m + l) /\ l - ((m + k) - m) = l - k
    BY <1>1, BitsType DEF m, l
  <2>. QED BY <1>5, <2>2
<1>8. l = 1 => v = b - 2 /\ v \in Nat /\ e.ip[m + 1] = v % 2
  BY <1>7, <1>3, ShlValues, RelLenValues DEF l, v
<1>9. l = 2 => v = b - 4 /\ v \in Nat /\ e.ip[m + 1] = (v \div 2) % 2 /\ e.ip[m + 2] = v % 2
  BY <1>7, <1>3, ShlValues, RelLenValues DEF l, v
<1>10. l = 3 => /\ v = b - 8 /\ v \in Nat /\ e.ip[m + 1] = (v \div 4) % 2
                /\ e.ip[m + 2] = (v \div 2) % 2 /\ e.ip[m + 3] = v % 2
  BY <1>7, <1>3, ShlValues, RelLenValues DEF l, v
<1>. QED
  BY <1>4, <1>6, <1>8, <1>9, <1>10 DEF m, l, e

(* A node reference: whole strides, the bits beyond them cleared.          *)
NodeRef(r) == \E h \in 0..Strides : r.mask = 4 * h /\ r = Path(r.ip, h)

(* A bit a node may have: below the last stride only its own prefix.       *)
Slot(r, b) == b \in 1..15 /\ (r.mask = BITS => b = 1)

(* The bits of a node reference beyond its length are zero.                *)
LEMMA NodeRefBits ==
  ASSUME NEW r \in IpPrefix, NodeRef(r)
  PROVE  \A i \in 1..BITS : i > r.mask => r.ip[i] = 0
BY PathType DEF NodeRef, IpPrefix

(* The prefix stored at a slot is no longer than the address.              *)
LEMMA SlotFits ==
  ASSUME NEW r \in IpPrefix, NodeRef(r), NEW b, Slot(r, b)
  PROVE  r.mask + RelLen(b) <= BITS /\ r.mask + RelLen(b) \in Nat
<1>1. PICK h \in 0..Strides : r.mask = 4 * h
  BY DEF NodeRef
<1>2. RelLen(b) \in 0..3 /\ (r.mask = BITS => RelLen(b) = 0)
  BY RelLenValues DEF Slot
<1>3. h < Strides => r.mask + 3 <= BITS
  BY <1>1, BitsType
<1>. QED
  BY <1>1, <1>2, <1>3, BitsType

(* No two bits of the tree stand for the same prefix.                      *)
LEMMA EntryInjective ==
  ASSUME NEW r \in IpPrefix, NodeRef(r), NEW b, Slot(r, b),
         NEW s \in IpPrefix, NodeRef(s), NEW c, Slot(s, c),
         Entry(r, b) = Entry(s, c)
  PROVE  r = s /\ b = c
<1>1. b \in 1..15 /\ c \in 1..15
  BY DEF Slot
<1>2. r.mask + RelLen(b) <= BITS /\ s.mask + RelLen(c) <= BITS
  BY SlotFits
<1>3. r.mask + RelLen(b) = s.mask + RelLen(c)
  BY <1>1, <1>2, EntryBits
<1>4. r.mask = s.mask /\ RelLen(b) = RelLen(c)
  <2>1. PICK h \in 0..Strides : r.mask = 4 * h
    BY DEF NodeRef
  <2>2. PICK k \in 0..Strides : s.mask = 4 * k
    BY DEF NodeRef
  <2>3. RelLen(b) \in 0..3 /\ RelLen(c) \in 0..3
    BY <1>1, RelLenValues
  <2>. QED BY <1>3, <2>1, <2>2, <2>3, BitsType
<1>5. r = s
  <2>1. r.mask \in 0..BITS
    BY DEF IpPrefix
  <2>2. \A i \in 1..r.mask : r.ip[i] = s.ip[i]
    BY <1>1, <1>2, <1>4, EntryBits
  <2>3. \A i \in 1..BITS : i > r.mask => r.ip[i] = s.ip[i]
    BY <1>4, NodeRefBits
  <2>4. \A i \in 1..BITS : r.ip[i] = s.ip[i]
    BY <2>1, <2>2, <2>3, BitsType
  <2>. QED BY <1>4, <2>4, PrefixEqual
<1>6. b = c
  <2> DEFINE l == RelLen(b)
  <2>1. /\ l \in 0..3
        /\ l = 0 => b = 1 /\ c = 1
        /\ l = 1 => b \in 2..3 /\ c \in 2..3
        /\ l = 2 => b \in 4..7 /\ c \in 4..7
        /\ l = 3 => b \in 8..15 /\ c \in 8..15
    BY <1>1, <1>4, RelLenValues
  <2>2. /\ l = 1 => (b - 2) % 2 = (c - 2) % 2
        /\ l = 2 => /\ ((b - 4) \div 2) % 2 = ((c - 4) \div 2) % 2
                    /\ (b - 4) % 2 = (c - 4) % 2
        /\ l = 3 => /\ ((b - 8) \div 4) % 2 = ((c - 8) \div 4) % 2
                    /\ ((b - 8) \div 2) % 2 = ((c - 8) \div 2) % 2
                    /\ (b - 8) % 2 = (c - 8) % 2
    <3>1. \A d \in {b, c} :
            /\ l = 1 => Entry(r, d).ip[r.mask + 1] = (d - 2) % 2
            /\ l = 2 => /\ Entry(r, d).ip[r.mask + 1] = ((d - 4) \div 2) % 2
                        /\ Entry(r, d).ip[r.mask + 2] = (d - 4) % 2
            /\ l = 3 => /\ Entry(r, d).ip[r.mask + 1] = ((d - 8) \div 4) % 2
                        /\ Entry(r, d).ip[r.mask + 2] = ((d - 8) \div 2) % 2
                        /\ Entry(r, d).ip[r.mask + 3] = (d - 8) % 2
      <4>1. TAKE d \in {b, c}
      <4>2. d \in 1..15 /\ RelLen(d) = l /\ r.mask + RelLen(d) <= BITS
        BY <1>1, <1>2, <1>4
      <4> HIDE DEF l
      <4>. QED BY <4>2, EntryBits
    <3>2. Entry(r, b) = Entry(r, c)
      BY <1>5
    <3> HIDE DEF l
    <3>. QED BY <3>1, <3>2
  <2> HIDE DEF l
  <2>3. l = 0 \/ l = 1 \/ l = 2 \/ l = 3
    BY <2>1
  <2>. QED BY <1>1, <2>1, <2>2, <2>3
<1>. QED
  BY <1>5, <1>6

(* No two links lead to the same child.                                    *)
LEMMA ChildInjective ==
  ASSUME NEW r \in IpPrefix, NodeRef(r), r.mask < BITS, NEW n \in Nibble,
         NEW s \in IpPrefix, NodeRef(s), s.mask < BITS, NEW k \in Nibble,
         Child(r, n) = Child(s, k)
  PROVE  r = s /\ n = k
<1>1. r.mask + 4 <= BITS /\ s.mask + 4 <= BITS
  BY BitsType DEF NodeRef
<1>2. r.mask = s.mask /\ r.mask \in 0..BITS
  <2>1. r.mask \in 0..BITS /\ s.mask \in 0..BITS
    BY DEF IpPrefix
  <2>2. r.mask + 4 = s.mask + 4
    BY <1>1, ChildType
  <2>. QED BY <2>1, <2>2, BitsType
<1>3. r = s
  <2>1. \A i \in 1..BITS : i \notin (r.mask + 1)..(r.mask + 4) => r.ip[i] = s.ip[i]
    BY <1>1, <1>2, ChildType
  <2>2. \A i \in 1..BITS : i > r.mask => r.ip[i] = s.ip[i]
    BY <1>2, NodeRefBits
  <2>3. \A i \in 1..BITS : r.ip[i] = s.ip[i]
    BY <1>2, <2>1, <2>2, BitsType
  <2>. QED BY <1>2, <2>3, PrefixEqual
<1>4. /\ (n \div 8) % 2 = (k \div 8) % 2 /\ (n \div 4) % 2 = (k \div 4) % 2
      /\ (n \div 2) % 2 = (k \div 2) % 2 /\ n % 2 = k % 2
  BY <1>1, <1>3, ChildType
<1>5. n \in 0..15 /\ k \in 0..15
  BY DEF Nibble
<1>6. n = k
  BY ONLY <1>4, <1>5
<1>. QED
  BY <1>3, <1>6

(* The address of a child continues that of its parent with the nibble.    *)
LEMMA ChildWinds ==
  ASSUME NEW r \in IpPrefix, NEW h \in 0..(Strides - 1), r.mask = 4 * h, r = Path(r.ip, h),
         NEW n \in Nibble
  PROVE  /\ Child(r, n) \in IpPrefix /\ Child(r, n).mask = 4 * (h + 1)
         /\ Path(Child(r, n).ip, h) = r /\ nibble(Child(r, n).ip, h) = n
         /\ \A k \in 0..(h - 1) : /\ Path(Child(r, n).ip, k) = Path(r.ip, k)
                                  /\ nibble(Child(r, n).ip, k) = nibble(r.ip, k)
<1>. DEFINE c == Child(r, n)
<1>1. h \in 0..Strides /\ r.mask + 4 <= BITS /\ 4 * h + 4 = 4 * (h + 1)
  BY BitsType
<1>2. /\ c \in IpPrefix /\ c.mask = r.mask + 4
      /\ \A i \in 1..BITS : i \notin (r.mask + 1)..(r.mask + 4) => c.ip[i] = r.ip[i]
      /\ c.ip[r.mask + 1] = (n \div 8) % 2 /\ c.ip[r.mask + 2] = (n \div 4) % 2
      /\ c.ip[r.mask + 3] = (n \div 2) % 2 /\ c.ip[r.mask + 4] = n % 2
  BY <1>1, ChildType
<1>. HIDE DEF c
<1>3. r.ip \in Address /\ c.ip \in Address
  BY <1>2 DEF IpPrefix
<1>4. Path(c.ip, h) = r
  <2>1. /\ Path(c.ip, h) \in IpPrefix /\ Path(c.ip, h).mask = 4 * h
        /\ \A i \in 1..BITS : Path(c.ip, h).ip[i] = IF i <= 4 * h THEN c.ip[i] ELSE 0
    BY <1>1, <1>3, PathType
  <2>2. \A i \in 1..BITS : r.ip[i] = IF i <= 4 * h THEN r.ip[i] ELSE 0
    BY <1>1, <1>3, PathType
  <2>3. \A i \in 1..BITS : Path(c.ip, h).ip[i] = r.ip[i]
    BY <1>2, <2>1, <2>2, BitsType
  <2>. QED BY <2>1, <2>3, PrefixEqual
<1>5. nibble(c.ip, h) = n
  <2>1. nibble(c.ip, h) = 8 * ((n \div 8) % 2) + 4 * ((n \div 4) % 2) + 2 * ((n \div 2) % 2) + (n % 2)
    BY <1>2, BitsType DEF nibble
  <2>2. \A x \in 0..15 : 8 * ((x \div 8) % 2) + 4 * ((x \div 4) % 2) + 2 * ((x \div 2) % 2) + (x % 2) = x
    OBVIOUS
  <2>. QED BY <2>1, <2>2 DEF Nibble
<1>6. ASSUME NEW k \in 0..(h - 1)
      PROVE  Path(c.ip, k) = Path(r.ip, k) /\ nibble(c.ip, k) = nibble(r.ip, k)
  BY <1>1, <1>3, <1>4, PathOfPath
<1>. QED
  BY <1>1, <1>2, <1>4, <1>5, <1>6 DEF c

(* A set of naturals that is not empty has a least element.                *)
LEMMA LeastNatural ==
  ASSUME NEW S \in SUBSET Nat, S # {}
  PROVE  \E x \in S : \A y \in S : x <= y
<1>. DEFINE R == OpToRel(<, Nat)
<1>1. IsWellFoundedOn(R, Nat)
  BY NatLessThanWellFounded, Zenon
<1>2. \A x, y \in Nat : <<x, y>> \in R <=> x < y
  BY DEF OpToRel
<1>. HIDE DEF R
<1>3. PICK x \in S : \A y \in S : ~(<<y, x>> \in R)
  BY <1>1, WFMin
<1>4. \A y \in S : ~(y < x)
  BY <1>2, <1>3
<1>5. \A y \in S : x <= y
  BY <1>4
<1>. QED
  BY <1>5

(* Every slot of a compact Vec is that of one set bit.                     *)
LEMMA SlotBits ==
  ASSUME NEW S \in Bitmap, NEW k \in Nat, k < Cardinality(S)
  PROVE  \E b \in S : rank(S, b) = k
<1>. DEFINE c == Cardinality(S)
           T == 0..(c - 1)
           f == [b \in S |-> rank(S, b)]
<1>1. c \in Nat /\ S \subseteq Int
  BY BitmapFinite DEF Bitmap, Nibble
<1>2. IsFiniteSet(T) /\ Cardinality(T) = c
  <2>1. 0 \in Int /\ c - 1 \in Int
    BY <1>1
  <2>2. IsFiniteSet(T) /\ Cardinality(T) = IF 0 > c - 1 THEN 0 ELSE c - 1 - 0 + 1
    BY ONLY <2>1, FS_Interval DEF T
  <2> HIDE DEF c, T
  <2>. QED BY <1>1, <2>2
<1>3. \A b \in S : rank(S, b) \in T
  BY <1>1, RankInBounds
<1>4. \A b, d \in S : rank(S, b) = rank(S, d) => b = d
  BY <1>1, <1>3, RankMonotone
<1>5. f \in [S -> T] /\ \A b, d \in S : f[b] = f[d] => b = d
  BY <1>3, <1>4
<1>6. f \in Injection(S, T)
  BY <1>5 DEF Injection, IsInjective
<1>7. f \in Surjection(S, T)
  BY <1>2, <1>6, FS_Injection
<1>8. k \in T
  BY <1>1
<1>9. PICK b \in S : f[b] = k
  <2> HIDE DEF T, f
  <2>. QED BY <1>7, <1>8 DEF Surjection
<1>. QED
  BY <1>9
=============================================================================
