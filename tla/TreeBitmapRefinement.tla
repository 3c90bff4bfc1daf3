------------------------- MODULE TreeBitmapRefinement -------------------------
(***************************************************************************)
(* The lookup finds the longest match (the loop invariant of               *)
(* longest_match_impl, and what it answers), and the tree bitmap           *)
(* implements the routing table: every call answers as the map does, for   *)
(* any number of strides and any clients.                                  *)
(***************************************************************************)
EXTENDS TreeBitmapProofs

(* The prefix stored at a bit is a canonical one.                          *)
LEMMA EntryType ==
  ASSUME NEW r \in IpPrefix, NodeRef(r), NEW b, Slot(r, b)
  PROVE  /\ Entry(r, b) \in IpPrefix
         /\ Entry(r, b).mask = r.mask + RelLen(b)
         /\ \A i \in 1..BITS : i > Entry(r, b).mask => Entry(r, b).ip[i] = 0
<1> DEFINE m == r.mask
           l == RelLen(b)
           v == b - Shl(l)
           ip == [i \in 1..BITS |-> IF i \in (m + 1)..(m + l) THEN (v \div Shl(l - (i - m))) % 2
                                    ELSE r.ip[i]]
<1>1. b \in 1..15 /\ m \in 0..BITS /\ l \in 0..3 /\ m + l \in 0..BITS /\ r.ip \in Address
  BY SlotFits, RelLenValues DEF Slot, IpPrefix
<1>2. Entry(r, b) = [ip |-> ip, mask |-> m + l]
  BY DEF Entry, Place
<1>3. v \in Nat
  BY <1>1, RelLenValues, ShlValues
<1>4. \A i \in 1..BITS : ip[i] = IF i \in (m + 1)..(m + l) THEN (v \div Shl(l - (i - m))) % 2
                                 ELSE r.ip[i]
  OBVIOUS
<1>5. DOMAIN ip = 1..BITS /\ ip = [i \in 1..BITS |-> ip[i]]
  OBVIOUS
<1> HIDE DEF m, l, v, ip
<1>6. ASSUME NEW i \in (m + 1)..(m + l)
      PROVE  (v \div Shl(l - (i - m))) % 2 \in {0, 1}
  <2>1. l - (i - m) \in 0..2
    BY <1>1
  <2>2. Shl(l - (i - m)) \in {1, 2, 4}
    BY <2>1, ShlValues
  <2>3. v \div Shl(l - (i - m)) \in Nat
    BY <1>3, <2>2
  <2>. QED BY <2>3
<1>7. \A i \in 1..BITS : ip[i] \in {0, 1}
  BY <1>1, <1>4, <1>6 DEF Address
<1>8. ip \in Address
  BY <1>5, <1>7 DEF Address
<1>9. \A i \in 1..BITS : i > m + l => ip[i] = 0
  BY <1>1, <1>4, NodeRefBits, BitsType DEF m
<1>. QED
  BY <1>1, <1>2, <1>8, <1>9 DEF IpPrefix, m, l

(* The bits of an address that a nibble is read from.                      *)
LEMMA NibbleBits ==
  ASSUME NEW a \in Address, NEW h \in 0..(Strides - 1)
  PROVE  /\ 4 * h + 1 \in 1..BITS /\ 4 * h + 2 \in 1..BITS
         /\ 4 * h + 3 \in 1..BITS /\ 4 * h + 4 \in 1..BITS
         /\ a[4 * h + 1] \in {0, 1} /\ a[4 * h + 2] \in {0, 1}
         /\ a[4 * h + 3] \in {0, 1} /\ a[4 * h + 4] \in {0, 1}
         /\ nibble(a, h) = 8 * a[4 * h + 1] + 4 * a[4 * h + 2] + 2 * a[4 * h + 3] + a[4 * h + 4]
<1>1. /\ 4 * h + 1 \in 1..BITS /\ 4 * h + 2 \in 1..BITS
      /\ 4 * h + 3 \in 1..BITS /\ 4 * h + 4 \in 1..BITS
  BY BitsType
<1>. QED
  BY <1>1, BitsType DEF Address, nibble

(* A nibble matches a bitmap position if it begins with the bits the       *)
(* position stands for.                                                    *)
LEMMA MaskBits ==
  ASSUME NEW n \in Nibble, NEW b \in 1..15
  PROVE  b \in MatchMask(n) <=>
           /\ RelLen(b) = 1 => (b - 2) % 2 = (n \div 8) % 2
           /\ RelLen(b) = 2 => /\ ((b - 4) \div 2) % 2 = (n \div 8) % 2
                               /\ (b - 4) % 2 = (n \div 4) % 2
           /\ RelLen(b) = 3 => /\ ((b - 8) \div 4) % 2 = (n \div 8) % 2
                               /\ ((b - 8) \div 2) % 2 = (n \div 4) % 2
                               /\ (b - 8) % 2 = (n \div 2) % 2
<1> DEFINE x == (n \div 8) % 2
           y == (n \div 4) % 2
           z == (n \div 2) % 2
<1>1. /\ n \div 8 = x /\ n \div 4 = 2 * x + y /\ n \div 2 = 4 * x + 2 * y + z
      /\ x \in {0, 1} /\ y \in {0, 1} /\ z \in {0, 1}
  BY DEF Nibble
<1> HIDE DEF x, y, z
<1>2. MatchMask(n) = {1, 2 + x, 4 + 2 * x + y, 8 + 4 * x + 2 * y + z}
  BY <1>1 DEF MatchMask
<1>3. b \in MatchMask(n) <=>
        /\ RelLen(b) = 1 => (b - 2) % 2 = x
        /\ RelLen(b) = 2 => ((b - 4) \div 2) % 2 = x /\ (b - 4) % 2 = y
        /\ RelLen(b) = 3 => /\ ((b - 8) \div 4) % 2 = x
                            /\ ((b - 8) \div 2) % 2 = y
                            /\ (b - 8) % 2 = z
  <2>1. CASE RelLen(b) = 0
    BY <1>2, <2>1, RelLenValues
  <2>2. CASE RelLen(b) = 1
    <3>1. b \in 2..3
      BY <2>2, RelLenValues
    <3>2. b = 2 + ((b - 2) % 2)
      BY <3>1
    <3>3. b \in MatchMask(n) <=> b = 2 + x
      BY <1>1, <1>2, <3>1
    <3>. QED BY <1>1, <2>2, <3>1, <3>2, <3>3
  <2>3. CASE RelLen(b) = 2
    <3>1. b \in 4..7
      BY <2>3, RelLenValues
    <3>2. b = 4 + 2 * (((b - 4) \div 2) % 2) + ((b - 4) % 2)
      BY <3>1
    <3>3. b \in MatchMask(n) <=> b = 4 + 2 * x + y
      BY <1>1, <1>2, <3>1
    <3>. QED BY <1>1, <2>3, <3>1, <3>2, <3>3
  <2>4. CASE RelLen(b) = 3
    <3>1. b \in 8..15
      BY <2>4, RelLenValues
    <3>2. b = 8 + 4 * (((b - 8) \div 4) % 2) + 2 * (((b - 8) \div 2) % 2) + ((b - 8) % 2)
      BY <3>1
    <3>3. b \in MatchMask(n) <=> b = 8 + 4 * x + 2 * y + z
      BY <1>1, <1>2, <3>1
    <3>. QED BY <1>1, <2>4, <3>1, <3>2, <3>3
  <2>. QED BY <2>1, <2>2, <2>3, <2>4, RelLenValues
<1>. QED
  BY <1>3 DEF x, y, z

(* An entry of the node a walk along a stands on covers a exactly if its   *)
(* bit is in the match mask of a's next nibble.                            *)
LEMMA EntryCovers ==
  ASSUME NEW a \in Address, NEW h \in 0..(Strides - 1),
         NEW r, r = Path(a, h), NEW b, Slot(r, b)
  PROVE  Covers(Entry(r, b), a) <=> b \in MatchMask(nibble(a, h))
<1> DEFINE e == Entry(r, b)
           m == 4 * h
<1>1. h \in 0..Strides /\ m \in Nat /\ m + 4 <= BITS
  BY BitsType
<1>2. /\ r \in IpPrefix /\ r.mask = m
      /\ \A i \in 1..BITS : r.ip[i] = IF i <= m THEN a[i] ELSE 0
  BY <1>1, PathType
<1>3. b \in 1..15 /\ RelLen(b) \in 0..3
  BY RelLenValues DEF Slot
<1>4. /\ e.mask = m + RelLen(b)
      /\ \A i \in 1..m : e.ip[i] = r.ip[i]
      /\ RelLen(b) = 1 => e.ip[m + 1] = (b - 2) % 2
      /\ RelLen(b) = 2 => e.ip[m + 1] = ((b - 4) \div 2) % 2 /\ e.ip[m + 2] = (b - 4) % 2
      /\ RelLen(b) = 3 => /\ e.ip[m + 1] = ((b - 8) \div 4) % 2
                          /\ e.ip[m + 2] = ((b - 8) \div 2) % 2
                          /\ e.ip[m + 3] = (b - 8) % 2
  <2> HIDE DEF m
  <2>1. r.mask + RelLen(b) <= BITS
    BY <1>1, <1>2, <1>3, BitsType
  <2>. QED BY <1>2, <1>3, <2>1, EntryBits
<1>5. /\ a[m + 1] \in {0, 1} /\ a[m + 2] \in {0, 1} /\ a[m + 3] \in {0, 1} /\ a[m + 4] \in {0, 1}
      /\ nibble(a, h) = 8 * a[m + 1] + 4 * a[m + 2] + 2 * a[m + 3] + a[m + 4]
  BY NibbleBits
<1> HIDE DEF e, m
<1>6. \A i \in 1..m : e.ip[i] = a[i]
  BY <1>1, <1>2, <1>4, BitsType
<1>7. Covers(e, a) <=> \A i \in (m + 1)..(m + RelLen(b)) : a[i] = e.ip[i]
  BY <1>1, <1>3, <1>4, <1>6 DEF Covers
<1>8. Covers(e, a) <=>
        /\ RelLen(b) = 1 => e.ip[m + 1] = a[m + 1]
        /\ RelLen(b) = 2 => e.ip[m + 1] = a[m + 1] /\ e.ip[m + 2] = a[m + 2]
        /\ RelLen(b) = 3 => /\ e.ip[m + 1] = a[m + 1] /\ e.ip[m + 2] = a[m + 2]
                            /\ e.ip[m + 3] = a[m + 3]
  BY <1>1, <1>3, <1>7
<1>9. b \in MatchMask(nibble(a, h)) <=>
        /\ RelLen(b) = 1 => (b - 2) % 2 = a[m + 1]
        /\ RelLen(b) = 2 => ((b - 4) \div 2) % 2 = a[m + 1] /\ (b - 4) % 2 = a[m + 2]
        /\ RelLen(b) = 3 => /\ ((b - 8) \div 4) % 2 = a[m + 1]
                            /\ ((b - 8) \div 2) % 2 = a[m + 2]
                            /\ (b - 8) % 2 = a[m + 3]
  <2> DEFINE n == nibble(a, h)
  <2>1. n \in Nibble
    BY NibbleType
  <2>2. /\ (n \div 8) % 2 = a[m + 1] /\ (n \div 4) % 2 = a[m + 2]
        /\ (n \div 2) % 2 = a[m + 3]
    BY ONLY <1>5, FourBits
  <2> HIDE DEF n
  <2>3. b \in MatchMask(n) <=>
          /\ RelLen(b) = 1 => (b - 2) % 2 = (n \div 8) % 2
          /\ RelLen(b) = 2 => /\ ((b - 4) \div 2) % 2 = (n \div 8) % 2
                              /\ (b - 4) % 2 = (n \div 4) % 2
          /\ RelLen(b) = 3 => /\ ((b - 8) \div 4) % 2 = (n \div 8) % 2
                              /\ ((b - 8) \div 2) % 2 = (n \div 4) % 2
                              /\ (b - 8) % 2 = (n \div 2) % 2
    BY <1>3, <2>1, MaskBits
  <2>. QED BY <2>2, <2>3 DEF n
<1>. QED
  BY <1>4, <1>8, <1>9 DEF e

(* An entry that covers an address is stored in a node on its path.        *)
LEMMA CoversOnPath ==
  ASSUME NEW a \in Address, NEW r \in IpPrefix, NodeRef(r), NEW b, Slot(r, b),
         NEW h \in 0..Strides, r.mask = 4 * h, Covers(Entry(r, b), a)
  PROVE  r = Path(a, h)
<1>1. b \in 1..15 /\ RelLen(b) \in 0..3 /\ r.mask + RelLen(b) <= BITS /\ r.mask \in 0..BITS
  BY SlotFits, RelLenValues DEF Slot, IpPrefix
<1>2. /\ Entry(r, b).mask = r.mask + RelLen(b)
      /\ \A i \in 1..r.mask : Entry(r, b).ip[i] = r.ip[i]
  BY <1>1, EntryBits
<1>3. \A i \in 1..r.mask : r.ip[i] = a[i]
  BY <1>1, <1>2 DEF Covers
<1>4. \A i \in 1..BITS : i > r.mask => r.ip[i] = 0
  BY NodeRefBits
<1>5. /\ Path(a, h) \in IpPrefix /\ Path(a, h).mask = r.mask
      /\ \A i \in 1..BITS : Path(a, h).ip[i] = IF i <= r.mask THEN a[i] ELSE 0
  BY PathType
<1>6. \A i \in 1..BITS : r.ip[i] = Path(a, h).ip[i]
  BY <1>1, <1>3, <1>4, <1>5, BitsType
<1>. QED
  BY <1>5, <1>6, PrefixEqual

(* A prefix is kept at one place: the canonical place of the prefix stored *)
(* at a bit is that bit of that node.                                      *)
LEMMA EntryHome ==
  ASSUME NEW r \in IpPrefix, NodeRef(r), NEW b, Slot(r, b)
  PROVE  Home(Entry(r, b)) = r /\ BitOf(Entry(r, b)) = b
<1> DEFINE e == Entry(r, b)
           l == RelLen(b)
<1>1. PICK h \in 0..Strides : r.mask = 4 * h /\ r = Path(r.ip, h)
  BY DEF NodeRef
<1>2. /\ e \in IpPrefix /\ e.ip \in Address /\ e.mask = r.mask + l
      /\ b \in 1..15 /\ l \in 0..3
      /\ l = 0 => b = 1
      /\ l > 0 => h < Strides
  <2>1. e \in IpPrefix /\ e.mask = r.mask + l /\ e.mask <= BITS
    BY EntryType, SlotFits
  <2>2. b \in 1..15 /\ l \in 0..3 /\ (l = 0 => b = 1)
    BY RelLenValues DEF Slot
  <2>. QED BY <1>1, <2>1, <2>2, BitsType DEF IpPrefix
<1>3. e.mask \div STRIDE = h /\ e.mask % STRIDE = l
  <2> HIDE DEF e, l
  <2>. QED BY <1>1, <1>2, BitsType
<1>4. Covers(e, e.ip)
  BY DEF Covers
<1>5. r = Path(e.ip, h)
  BY <1>1, <1>2, <1>4, CoversOnPath
<1>6. ASSUME l > 0
      PROVE  b = Position(nibble(e.ip, h), l)
  <2>1. h \in 0..(Strides - 1)
    BY <1>2, <1>6, BitsType
  <2>2. b \in MatchMask(nibble(e.ip, h))
    BY <1>2, <1>4, <1>5, <2>1, EntryCovers
  <2>3. nibble(e.ip, h) \in Nibble
    BY <1>2, <2>1, NibbleType
  <2> HIDE DEF e
  <2>4. \A n \in Nibble : /\ 2 + n \div 8 \in 2..3 /\ 4 + n \div 4 \in 4..7 /\ 8 + n \div 2 \in 8..15
    BY DEF Nibble
  <2>5. \A n \in Nibble : /\ Position(n, 1) = 2 + n \div 8
                          /\ Position(n, 2) = 4 + n \div 4
                          /\ Position(n, 3) = 8 + n \div 2
    BY ShlValues, BitsType DEF Position
  <2>6. /\ l = 1 => b \in 2..3
        /\ l = 2 => b \in 4..7
        /\ l = 3 => b \in 8..15
    BY <1>2, RelLenValues
  <2> HIDE DEF l
  <2>7. b \in {1, Position(nibble(e.ip, h), 1), Position(nibble(e.ip, h), 2),
              Position(nibble(e.ip, h), 3)}
    BY <2>2, <2>3, <2>5 DEF MatchMask
  <2>8. /\ Position(nibble(e.ip, h), 1) \in 2..3
        /\ Position(nibble(e.ip, h), 2) \in 4..7
        /\ Position(nibble(e.ip, h), 3) \in 8..15
    BY <2>3, <2>4, <2>5
  <2>. QED BY <1>2, <1>6, <2>6, <2>7, <2>8
<1>. QED
  BY <1>2, <1>3, <1>5, <1>6 DEF Home, BitOf

(* Two canonical prefixes of one length that cover the same address are    *)
(* the same.                                                               *)
LEMMA CoveringUnique ==
  ASSUME NEW a \in Address, NEW p \in IpPrefix, NEW q \in IpPrefix, p.mask = q.mask,
         \A i \in 1..BITS : i > p.mask => p.ip[i] = 0 /\ q.ip[i] = 0,
         Covers(p, a), Covers(q, a)
  PROVE  p = q
<1>1. p.mask \in 0..BITS
  BY DEF IpPrefix
<1>2. \A i \in 1..p.mask : p.ip[i] = a[i] /\ q.ip[i] = a[i]
  BY DEF Covers
<1>3. \A i \in 1..BITS : p.ip[i] = q.ip[i]
  BY <1>1, <1>2, BitsType
<1>. QED
  BY <1>3, PrefixEqual

(* What makes a prefix the longest match.                                  *)
LEMMA LongestIs ==
  ASSUME NEW t, NEW a, NEW p \in Matches(t, a),
         \A q \in Matches(t, a) : q.mask \in Nat /\ q.mask <= p.mask,
         \A q \in Matches(t, a) : q.mask = p.mask => q = p
  PROVE  LongestMatch(t, a) = [prefix |-> p, value |-> t[p]]
<1>1. IsLongest(p, Matches(t, a))
  BY DEF IsLongest
<1>2. ASSUME NEW q, IsLongest(q, Matches(t, a)) PROVE q = p
  <2>1. q \in Matches(t, a) /\ p.mask <= q.mask
    BY <1>2 DEF IsLongest
  <2>. QED BY <2>1
<1>3. (CHOOSE q \in Matches(t, a) : IsLongest(q, Matches(t, a))) = p
  BY <1>1, <1>2
<1>. QED
  BY <1>3 DEF LongestMatch
------------------------------------------------------------------------------
(* The entries of the tree are canonical, and each is in one place only.   *)
LEMMA KeyFacts ==
  ASSUME TypeOK, TreeInv, NEW q \in Keys
  PROVE  /\ q \in IpPrefix
         /\ \A i \in 1..BITS : i > q.mask => q.ip[i] = 0
         /\ \E r \in DOMAIN heap, b \in Nat :
              /\ r \in IpPrefix /\ NodeRef(r) /\ b \in heap[r].internal /\ Slot(r, b)
              /\ q = Entry(r, b) /\ q.mask = r.mask + RelLen(b)
<1>1. PICK r \in DOMAIN heap : \E b \in heap[r].internal : q = Entry(r, b)
  BY DEF Keys
<1>2. PICK b \in heap[r].internal : q = Entry(r, b)
  BY <1>1
<1>3. r \in IpPrefix /\ NodeRef(r) /\ Slot(r, b)
  BY NodeFacts
<1>4. b \in Nat
  BY <1>3 DEF Slot
<1>. QED
  BY <1>2, <1>3, <1>4, EntryType

(* The entries no longer than the strides a walk has left behind.          *)
Above(h) == {q \in Keys : q.mask < STRIDE * h}

(* One stride further on, the entries above that cover the address are     *)
(* joined by the hits of the node just looked at.                          *)
LEMMA AboveStep ==
  ASSUME TypeOK, TreeInv, NEW a \in Address, NEW h \in 0..(Strides - 1),
         NEW r \in DOMAIN heap, r = Path(a, h), NEW q
  PROVE  q \in Above(h + 1) /\ Covers(q, a) <=>
           \/ q \in Above(h) /\ Covers(q, a)
           \/ \E b \in heap[r].internal \cap MatchMask(nibble(a, h)) : q = Entry(r, b)
<1>1. /\ r \in IpPrefix /\ NodeRef(r) /\ r.mask = 4 * h /\ h \in 0..Strides
      /\ \A b \in heap[r].internal : Slot(r, b)
  BY NodeFacts, PathType, BitsType
<1>2. ASSUME q \in Above(h + 1), Covers(q, a), q \notin Above(h)
      PROVE  \E b \in heap[r].internal \cap MatchMask(nibble(a, h)) : q = Entry(r, b)
  <2>1. q \in Keys /\ q.mask < 4 * (h + 1) /\ ~(q.mask < 4 * h)
    BY <1>2, BitsType DEF Above
  <2>2. PICK s \in DOMAIN heap, b \in Nat :
          /\ s \in IpPrefix /\ NodeRef(s) /\ b \in heap[s].internal /\ Slot(s, b)
          /\ q = Entry(s, b) /\ q.mask = s.mask + RelLen(b)
    BY <2>1, KeyFacts
  <2>3. PICK k \in 0..Strides : s.mask = 4 * k
    BY <2>2 DEF NodeRef
  <2>4. RelLen(b) \in 0..3
    BY <2>2, RelLenValues DEF Slot
  <2>5. k = h
    BY <2>1, <2>2, <2>3, <2>4, BitsType
  <2>6. s = r
    BY <1>2, <2>2, <2>3, <2>5, CoversOnPath
  <2>7. b \in MatchMask(nibble(a, h))
    BY <1>2, <2>2, <2>6, EntryCovers
  <2>. QED BY <2>2, <2>6, <2>7
<1>3. ASSUME q \in Above(h)
      PROVE  q \in Above(h + 1)
  <2>1. q \in Keys /\ q.mask < 4 * h
    BY <1>3, BitsType DEF Above
  <2>2. q.mask \in Nat
    BY <2>1, KeyFacts, BitsType DEF IpPrefix
  <2>. QED BY <2>1, <2>2, BitsType DEF Above
<1>4. ASSUME NEW b \in heap[r].internal \cap MatchMask(nibble(a, h)), q = Entry(r, b)
      PROVE  q \in Above(h + 1) /\ Covers(q, a)
  <2>1. q \in Keys
    BY <1>4 DEF Keys
  <2>2. Slot(r, b) /\ RelLen(b) \in 0..3
    BY <1>1, <1>4, RelLenValues DEF Slot
  <2>3. q.mask = 4 * h + RelLen(b)
    BY <1>1, <1>4, <2>2, EntryType
  <2>4. q.mask < 4 * (h + 1)
    BY <2>2, <2>3
  <2>5. Covers(q, a)
    BY <1>4, <2>2, EntryCovers
  <2>. QED BY <2>1, <2>4, <2>5, BitsType DEF Above
<1>. QED
  BY <1>2, <1>3, <1>4

(* b is the best match for the looked-up address among the entries in S.   *)
LongestOf(b, S) ==
  \/ b = None /\ \A q \in S : ~Covers(q, addr)
  \/ \E p \in S : /\ Covers(p, addr)
                  /\ \A q \in S : Covers(q, addr) => q.mask <= p.mask
                  /\ b = [value |-> ValueOf(p), len |-> p.mask]

(* Looking at a node adds its highest hit, which beats all that came       *)
(* before.                                                                 *)
LEMMA LookStep ==
  ASSUME IInv, pc \in LookupOps, hop < Strides, LongestOf(best, Above(hop))
  PROVE  LongestOf(bestHere, Above(hop + 1))
<1> DEFINE hits == here.internal \cap MatchMask(nib)
           hit  == HighestBit(hits)
           p    == Entry(node, hit)
<1>1. TypeOK /\ Control /\ TreeInv /\ Walking
  BY DEF IInv, Walking
<1>2. /\ addr \in Address /\ node \in DOMAIN heap /\ node \in IpPrefix /\ node.mask = 4 * hop
      /\ node = Path(addr, hop) /\ hop \in 0..(Strides - 1) /\ here = heap[node]
      /\ nib = nibble(addr, hop) /\ nib \in Nibble
  BY <1>1, WalkFacts, BitsType DEF here, nib
<1>3. NodeRef(node) /\ \A b \in heap[node].internal : Slot(node, b)
  BY <1>1, <1>2, NodeFacts
<1>4. \A q : q \in Above(hop + 1) /\ Covers(q, addr) <=>
             \/ q \in Above(hop) /\ Covers(q, addr)
             \/ \E b \in hits : q = Entry(node, b)
  BY <1>1, <1>2, AboveStep
<1>5. CASE hits = {}
  <2>1. bestHere = best
    BY <1>5 DEF bestHere
  <2>2. \A q : q \in Above(hop + 1) /\ Covers(q, addr) <=> q \in Above(hop) /\ Covers(q, addr)
    BY <1>4, <1>5
  <2>. QED BY <2>1, <2>2 DEF LongestOf
<1>6. CASE hits # {}
  <2>1. hit \in hits /\ \A b \in hits : b <= hit
    BY <1>2, <1>6, HighestHit
  <2>2. /\ \A b \in hits : Slot(node, b) /\ b \in 1..15 /\ RelLen(b) \in 0..3
        /\ Slot(node, hit) /\ hit \in 1..15 /\ RelLen(hit) \in 0..3
    BY <1>2, <1>3, <2>1, RelLenValues DEF Slot
  <2> HIDE DEF hits, hit
  <2>3. \A b \in hits : Entry(node, b).mask = 4 * hop + RelLen(b)
    BY <1>2, <1>3, <2>2, EntryType
  <2>4. \A b \in hits : RelLen(b) <= RelLen(hit)
    <3>1. ASSUME NEW b \in 1..15, NEW c \in 1..15, b <= c
          PROVE  RelLen(b) <= RelLen(c)
      BY <3>1 DEF RelLen
    <3>. QED BY <2>1, <2>2, <3>1
  <2>5. Home(p) = node /\ BitOf(p) = hit
    BY <1>2, <1>3, <2>2, EntryHome
  <2>6. ValueOf(p) = At(here.values, rank(here.internal, hit))
    BY <1>2, <2>5 DEF ValueOf
  <2>7. p.mask = 4 * hop + RelLen(hit)
    BY <2>1, <2>3
  <2>8. bestHere = [value |-> ValueOf(p), len |-> p.mask]
    <3>1. bestHere = [value |-> At(here.values, rank(here.internal, hit)),
                      len   |-> hop * STRIDE + RelLen(hit)]
      BY <1>6 DEF bestHere, hits, hit
    <3>2. hop * STRIDE + RelLen(hit) = p.mask
      BY <1>2, <2>2, <2>7, BitsType
    <3>. QED BY <2>6, <3>1, <3>2
  <2>9. p \in Above(hop + 1) /\ Covers(p, addr)
    BY <1>4, <2>1
  <2>10. ASSUME NEW q \in Above(hop + 1), Covers(q, addr)
         PROVE  q.mask <= p.mask
    <3>1. CASE q \in Above(hop)
      <4>1. q \in Keys /\ q.mask < 4 * hop
        BY <3>1, BitsType DEF Above
      <4>2. q.mask \in Nat
        BY <1>1, <4>1, KeyFacts, BitsType DEF IpPrefix
      <4>. QED BY <1>2, <2>2, <2>7, <4>1, <4>2
    <3>2. CASE \E b \in hits : q = Entry(node, b)
      BY <1>2, <2>2, <2>3, <2>4, <2>7, <3>2
    <3>. QED BY <1>4, <2>10, <3>1, <3>2
  <2> HIDE DEF p
  <2>. QED BY <2>8, <2>9, <2>10 DEF LongestOf
<1>. QED
  BY <1>5, <1>6

(* LongestOf in the words of the specification.                            *)
LEMMA LongestOfMatch ==
  ASSUME TypeOK, TreeInv, addr \in Address, NEW S \in SUBSET Keys,
         NEW b \in Best \cup {None}, LongestOf(b, S),
         NEW t, t = [p \in S |-> Table[p]]
  PROVE  \/ b = None /\ LongestMatch(t, addr) = None
         \/ /\ b # None /\ LongestMatch(t, addr) # None
            /\ b.len = LongestMatch(t, addr).prefix.mask
            /\ LongestMatch(t, addr) =
                 [prefix |-> masked([ip |-> addr, mask |-> b.len]), value |-> b.value]
<1>1. Matches(t, addr) = {q \in S : Covers(q, addr)}
  BY DEF Matches
<1>2. CASE b = None /\ \A q \in S : ~Covers(q, addr)
  BY <1>1, <1>2 DEF LongestMatch
<1>3. ASSUME NEW p \in S, Covers(p, addr),
             \A q \in S : Covers(q, addr) => q.mask <= p.mask,
             b = [value |-> ValueOf(p), len |-> p.mask]
      PROVE  /\ b # None /\ LongestMatch(t, addr) # None
             /\ b.len = LongestMatch(t, addr).prefix.mask
             /\ LongestMatch(t, addr) =
                  [prefix |-> masked([ip |-> addr, mask |-> b.len]), value |-> b.value]
  <2>1. \A q \in S : q \in IpPrefix /\ (\A i \in 1..BITS : i > q.mask => q.ip[i] = 0)
    BY KeyFacts
  <2>2. \A q \in S : q.mask \in 0..BITS /\ q.mask \in Nat
    BY <2>1, BitsType DEF IpPrefix
  <2>3. \A q \in Matches(t, addr) : q.mask = p.mask => q = p
    BY <1>1, <1>3, <2>1, CoveringUnique
  <2>4. LongestMatch(t, addr) = [prefix |-> p, value |-> t[p]]
    BY <1>1, <1>3, <2>2, <2>3, LongestIs
  <2>5. t[p] = ValueOf(p)
    BY <1>3 DEF Table
  <2>6. PICK r \in DOMAIN heap, c \in Nat :
          r \in IpPrefix /\ NodeRef(r) /\ c \in heap[r].internal /\ Slot(r, c) /\ p = Entry(r, c)
    BY KeyFacts
  <2>7. ValueOf(p) \in Value
    BY <2>6, EntryHome, ValueFacts DEF ValueOf
  <2>8. b # None /\ LongestMatch(t, addr) # None
    <3>1. [value |-> ValueOf(p), len |-> p.mask] \in [value : Value, len : 0..BITS]
      BY <2>2, <2>7
    <3>2. [prefix |-> p, value |-> ValueOf(p)] \in [prefix : IpPrefix, value : Value]
      BY <2>1, <2>7
    <3>. QED BY <1>3, <2>4, <2>5, <3>1, <3>2, SomeAssumption
  <2>9. masked([ip |-> addr, mask |-> p.mask]) = p
    <3> DEFINE q == masked([ip |-> addr, mask |-> p.mask])
    <3>1. [ip |-> addr, mask |-> p.mask] \in IpPrefix
      BY <2>2 DEF IpPrefix
    <3>2. /\ q \in IpPrefix /\ q.mask = p.mask
          /\ \A i \in 1..BITS : q.ip[i] = IF i <= p.mask THEN addr[i] ELSE 0
      BY <3>1, MaskedType
    <3> HIDE DEF q
    <3>3. Covers(q, addr)
      BY <2>2, <3>2, BitsType DEF Covers
    <3>4. \A i \in 1..BITS : i > p.mask => p.ip[i] = 0 /\ q.ip[i] = 0
      BY <2>1, <2>2, <3>2, BitsType
    <3>5. q = p
      BY <1>3, <2>1, <3>2, <3>3, <3>4, CoveringUnique
    <3>. QED BY <3>5 DEF q
  <2>. QED BY <1>3, <2>4, <2>5, <2>8, <2>9
<1>. QED
  BY <1>2, <1>3 DEF LongestOf
------------------------------------------------------------------------------
(* The loop invariant, with the longest match so far named, not chosen.    *)
LookupInv == pc \in LookupOps => LongestOf(best, Above(hop))

LEMMA LookupInvInit ==
  ASSUME Init
  PROVE  LookupInv
BY DEF Init, LookupInv, LookupOps

LEMMA LookupInvNext ==
  ASSUME IInv, LookupInv, [Next]_vars
  PROVE  LookupInv'
<1> SUFFICES ASSUME pc' \in LookupOps
             PROVE  LongestOf(best, Above(hop))'
  BY DEF LookupInv
<1>1. TypeOK /\ Control /\ TreeInv
  BY DEF IInv
<1>2. CASE Call
  <2>1. best' = None /\ hop' = 0 /\ heap' = heap
    BY <1>1, <1>2 DEF Call, Control, locals
  <2>2. Keys' = Keys
    BY <1>1, <2>1, TreeUnchanged
  <2>3. \A q \in Keys : q.mask \in Nat
    BY <1>1, KeyFacts, BitsType DEF IpPrefix
  <2>4. Above(hop)' = {}
    BY <2>1, <2>2, <2>3, BitsType DEF Above
  <2>. QED BY <2>1, <2>4 DEF LongestOf
<1>3. CASE MatchDescend
  <2>1. /\ pc \in LookupOps /\ hop < Strides /\ heap' = heap /\ req' = req
        /\ best' = bestHere /\ hop' = hop + 1
    BY <1>3, BitsType DEF MatchDescend, Descend
  <2>2. LongestOf(bestHere, Above(hop + 1))
    BY <2>1, LookStep DEF LookupInv
  <2>3. Keys' = Keys /\ addr' = addr /\ Above(hop)' = Above(hop + 1)
    BY <1>1, <2>1, TreeUnchanged, OperandsUnchanged DEF Above
  <2>4. \A p : ValueOf(p)' = ValueOf(p)
    BY <2>1 DEF ValueOf
  <2>. QED BY <2>1, <2>2, <2>3, <2>4 DEF LongestOf
<1>4. CASE UNCHANGED vars
  <2>1. pc \in LookupOps /\ heap' = heap /\ req' = req /\ best' = best /\ hop' = hop
    BY <1>4 DEF vars, locals
  <2>2. Keys' = Keys /\ addr' = addr /\ Above(hop)' = Above(hop)
    BY <1>1, <2>1, TreeUnchanged, OperandsUnchanged DEF Above
  <2>3. \A p : ValueOf(p)' = ValueOf(p)
    BY <2>1 DEF ValueOf
  <2>. QED BY <2>1, <2>2, <2>3 DEF LongestOf, LookupInv
<1>5. CASE Step /\ ~MatchDescend
  BY <1>5
     DEF Step, InsertFollow, InsertGrow, InsertReplace, InsertNew, MatchBreak, MatchBottom,
         Probing, ProbeDescend, ProbeMiss, ProbeTarget, RemoveDescend, RemoveMiss, RemoveTarget,
         RemoveUnwind, RemoveFinish, ReadCount, Clear, ClearInterrupted, Return, Finish, LookupOps
<1>. QED
  BY <1>2, <1>3, <1>4, <1>5 DEF Next

(* While a lookup walks down, best is the longest match among the entries  *)
(* in the nodes already left behind.                                       *)
THEOREM LookupCorrect == Spec => []BestSoFar
<1>1. Init => IInv /\ LookupInv
  BY InitInv, LookupInvInit
<1>2. IInv /\ LookupInv /\ [Next]_vars => IInv' /\ LookupInv'
  BY NextInv, LookupInvNext
<1>3. IInv /\ LookupInv => BestSoFar
  <2> SUFFICES ASSUME IInv, LookupInv, pc \in LookupOps,
                      NEW above, above = [p \in Above(hop) |-> Table[p]],
                      NEW m, m = LongestMatch(above, req.addr)
               PROVE  best = IF m = None THEN None ELSE [value |-> m.value, len |-> m.prefix.mask]
    BY DEF BestSoFar, Above
  <2>1. TypeOK /\ TreeInv /\ req \in Request /\ req.op \in LookupOps
    BY DEF IInv, Control, LookupOps, Ops
  <2>2. addr \in Address /\ addr = req.addr
    BY <2>1, RequestFacts
  <2>3. LongestOf(best, Above(hop)) /\ best \in Best \cup {None} /\ Above(hop) \in SUBSET Keys
    BY <2>1 DEF LookupInv, TypeOK, Above
  <2>4. \/ best = None /\ m = None
        \/ best # None /\ m # None /\ best.len = m.prefix.mask /\ m.value = best.value
    <3> DEFINE S == Above(hop)
    <3>1. S \in SUBSET Keys /\ LongestOf(best, S) /\ above = [p \in S |-> Table[p]]
      BY <2>3
    <3> HIDE DEF S
    <3>2. \/ best = None /\ LongestMatch(above, addr) = None
          \/ /\ best # None /\ LongestMatch(above, addr) # None
             /\ best.len = LongestMatch(above, addr).prefix.mask
             /\ LongestMatch(above, addr) =
                  [prefix |-> masked([ip |-> addr, mask |-> best.len]), value |-> best.value]
      BY ONLY <2>1, <2>2, <2>3, <3>1, LongestOfMatch
    <3>. QED BY <2>2, <3>2
  <2>5. best # None => best = [value |-> best.value, len |-> best.len]
    BY <2>3 DEF Best
  <2>. QED BY <2>4, <2>5
<1>. QED
  BY <1>1, <1>2, <1>3, PTL DEF Spec
------------------------------------------------------------------------------
(* What is not in the nodes down to the end of the walk does not match.    *)
LEMMA NothingBelow ==
  ASSUME IInv, pc \in LookupOps, hop < Strides, nib \notin here.external,
         NEW q \in Keys, Covers(q, addr)
  PROVE  q \in Above(hop + 1)
<1>1. TypeOK /\ Control /\ TreeInv /\ Walking
  BY DEF IInv, Walking
<1>2. addr \in Address /\ node = Path(addr, hop) /\ hop \in 0..(Strides - 1)
  BY <1>1, WalkFacts, BitsType
<1>3. PICK s \in DOMAIN heap, b \in Nat :
        /\ s \in IpPrefix /\ NodeRef(s) /\ b \in heap[s].internal /\ Slot(s, b)
        /\ q = Entry(s, b) /\ q.mask = s.mask + RelLen(b)
  BY <1>1, KeyFacts
<1>4. PICK k \in 0..Strides : s.mask = 4 * k /\ s = Path(s.ip, k)
  BY <1>3 DEF NodeRef
<1>5. s = Path(addr, k)
  BY <1>2, <1>3, <1>4, CoversOnPath
<1>6. k <= hop
  <2> SUFFICES ASSUME k > hop PROVE FALSE
    BY <1>2, <1>4, BitsType
  <2>1. k - 1 \in 0..Strides /\ hop \in 0..(k - 1) /\ hop \in 0..k /\ s.mask \div STRIDE = k
    BY <1>2, <1>4, BitsType
  <2>2. /\ Path(s.ip, hop) \in DOMAIN heap
        /\ nibble(s.ip, hop) \in heap[Path(s.ip, hop)].external
    BY <1>1, <2>1 DEF TreeInv, Anchored
  <2>3. Path(s.ip, hop) = Path(addr, hop)
    BY <1>2, <1>4, <1>5, <2>1, PathOfPath
  <2>4. nibble(s.ip, hop) = nibble(addr, hop)
    BY <1>2, <1>4, <1>5, <2>1, PathOfPath
  <2>. QED BY <1>2, <2>2, <2>3, <2>4 DEF here, nib
<1>7. RelLen(b) \in 0..3
  BY <1>3, RelLenValues DEF Slot
<1>8. q.mask < 4 * (hop + 1)
  BY <1>2, <1>3, <1>4, <1>6, <1>7, BitsType
<1>. QED
  BY <1>8, BitsType DEF Above

(* Below the last stride there is only the full-length prefix, which beats *)
(* every other match.                                                      *)
LEMMA LookAtBottom ==
  ASSUME IInv, pc \in LookupOps, hop = Strides, LongestOf(best, Above(hop)),
         NEW b, b = IF 1 \in here.internal
                    THEN [value |-> At(here.values, rank(here.internal, 1)), len |-> BITS]
                    ELSE best
  PROVE  LongestOf(b, Keys) /\ b \in Best \cup {None}
<1> DEFINE p == Entry(node, 1)
<1>1. TypeOK /\ Control /\ TreeInv /\ Walking
  BY DEF IInv, Walking
<1>2. /\ addr \in Address /\ node = Path(addr, hop) /\ node \in DOMAIN heap /\ node \in IpPrefix
      /\ node.mask = BITS /\ here = heap[node] /\ NodeRef(node) /\ hop \in 0..Strides
  BY <1>1, WalkFacts, NodeFacts, BitsType DEF here
<1>3. ASSUME NEW q \in Keys, Covers(q, addr), q \notin Above(hop)
      PROVE  1 \in here.internal /\ q = p
  <2>1. PICK s \in DOMAIN heap, c \in Nat :
          /\ s \in IpPrefix /\ NodeRef(s) /\ c \in heap[s].internal /\ Slot(s, c)
          /\ q = Entry(s, c) /\ q.mask = s.mask + RelLen(c)
    BY <1>1, KeyFacts
  <2>2. PICK k \in 0..Strides : s.mask = 4 * k
    BY <2>1 DEF NodeRef
  <2>3. ~(q.mask < BITS) /\ RelLen(c) \in 0..3
    BY <1>3, <2>1, RelLenValues, BitsType DEF Above, Slot
  <2>4. k = Strides /\ s.mask = BITS
    BY <2>1, <2>2, <2>3, BitsType
  <2>5. s = node /\ c = 1
    BY <1>2, <1>3, <2>1, <2>2, <2>4, CoversOnPath DEF Slot
  <2>. QED BY <1>2, <2>1, <2>5
<1>4. CASE 1 \notin here.internal
  <2>1. \A q \in Keys : Covers(q, addr) => q \in Above(hop)
    BY <1>3, <1>4
  <2>2. Above(hop) \subseteq Keys
    BY DEF Above
  <2>. QED BY <1>1, <1>4, <2>1, <2>2 DEF LongestOf, TypeOK
<1>5. CASE 1 \in here.internal
  <2>1. Slot(node, 1) /\ p \in Keys
    BY <1>2, <1>5 DEF Slot, Keys
  <2>2. p.mask = BITS
    BY <1>2, <2>1, EntryType, RelLenValues, BitsType
  <2>3. Covers(p, addr)
    <3>1. \A i \in 1..node.mask : p.ip[i] = node.ip[i]
      <4>1. node.mask + RelLen(1) <= BITS
        BY <1>2, <2>1, SlotFits
      <4>. QED BY <1>2, <4>1, EntryBits
    <3>2. \A i \in 1..BITS : node.ip[i] = IF i <= 4 * hop THEN addr[i] ELSE 0
      BY <1>2, PathType
    <3>. QED BY <1>2, <2>2, <3>1, <3>2, BitsType DEF Covers
  <2>4. Home(p) = node /\ BitOf(p) = 1
    BY <1>2, <2>1, EntryHome
  <2>5. b = [value |-> ValueOf(p), len |-> p.mask]
    BY <1>2, <1>5, <2>2, <2>4 DEF ValueOf
  <2>6. \A q \in Keys : q.mask <= p.mask
    BY <1>1, <2>2, KeyFacts, BitsType DEF IpPrefix
  <2>7. ValueOf(p) \in Value
    BY <1>1, <1>2, <1>5, <2>4, ValueFacts DEF ValueOf
  <2> HIDE DEF p
  <2>8. b \in Best
    BY <2>2, <2>5, <2>7, BitsType DEF Best
  <2>. QED BY <2>1, <2>3, <2>5, <2>6, <2>8 DEF LongestOf
<1>. QED
  BY <1>4, <1>5

(* The answer made of the best match is the one the specification wants.   *)
LEMMA FoundIs ==
  ASSUME TypeOK, TreeInv, req \in Request, req.op \in LookupOps,
         NEW b \in Best \cup {None}, LongestOf(b, Keys)
  PROVE  Found(b) = LookupReply(req.op, LongestMatch(Table, req.addr))
<1>1. addr \in Address /\ addr = req.addr
  BY RequestFacts
<1>2. Table = [p \in Keys |-> Table[p]]
  BY DEF Table
<1>3. \/ b = None /\ LongestMatch(Table, addr) = None
      \/ /\ b # None
         /\ LongestMatch(Table, addr) =
              [prefix |-> masked([ip |-> addr, mask |-> b.len]), value |-> b.value]
  BY <1>1, <1>2, LongestOfMatch
<1>4. LookupReply(req.op, None) = None
  BY DEF LookupReply
<1>. QED
  BY <1>1, <1>3, <1>4 DEF Found

(* A lookup that returns has found the longest match in the whole table.   *)
LEMMA LookupAnswers ==
  ASSUME IInv, LookupInv, MatchBreak \/ MatchBottom
  PROVE  reply' = LookupReply(req.op, LongestMatch(Table, req.addr))
<1>1. TypeOK /\ Control /\ TreeInv /\ pc \in LookupOps /\ req \in Request /\ req.op \in LookupOps
  BY DEF IInv, Control, MatchBreak, MatchBottom, LookupOps, Ops
<1>2. CASE MatchBreak
  <2>1. hop < Strides /\ nib \notin here.external /\ reply' = Found(bestHere)
    BY <1>2 DEF MatchBreak, Finish
  <2>2. LongestOf(bestHere, Above(hop + 1))
    BY <1>1, <2>1, LookStep DEF LookupInv
  <2>3. Above(hop + 1) \subseteq Keys /\ \A q \in Keys : Covers(q, addr) => q \in Above(hop + 1)
    BY <1>1, <2>1, NothingBelow DEF Above
  <2>4. LongestOf(bestHere, Keys)
    BY <2>2, <2>3 DEF LongestOf
  <2>5. bestHere \in Best \cup {None}
    BY <1>1, <2>1, BestHereType
  <2>. QED BY <1>1, <2>1, <2>4, <2>5, FoundIs
<1>3. CASE MatchBottom
  <2> DEFINE b == IF 1 \in here.internal
                  THEN [value |-> At(here.values, rank(here.internal, 1)), len |-> BITS]
                  ELSE best
  <2>1. hop = Strides /\ reply' = Found(b)
    BY <1>3 DEF MatchBottom, Finish
  <2>2. LongestOf(best, Above(hop))
    BY <1>1 DEF LookupInv
  <2> HIDE DEF b
  <2>3. LongestOf(b, Keys) /\ b \in Best \cup {None}
    BY <1>1, <2>1, <2>2, LookAtBottom DEF b
  <2>. QED BY <1>1, <2>1, <2>3, FoundIs
<1>. QED
  BY <1>2, <1>3
------------------------------------------------------------------------------
(* The target of a call on a prefix is where that prefix is stored.        *)
LEMMA TargetEntry ==
  ASSUME IInv, pc \in KeyOps, hop = fullHops
  PROVE  /\ Entry(node, bpos) = key
         /\ Home(key) = node /\ BitOf(key) = bpos
         /\ key \in Keys <=> bpos \in here.internal
<1> DEFINE e == Entry(node, bpos)
<1>1. TypeOK /\ Control /\ TreeInv /\ Walking /\ req \in Request /\ req.op \in KeyOps
  BY DEF IInv, Walking, Control, Ops, KeyOps, PrefixOps
<1>2. /\ addr \in Address /\ addr = key.ip /\ key \in IpPrefix
      /\ key.mask = 4 * hop + relLen /\ relLen \in 0..3 /\ (relLen > 0 => hop < Strides)
  BY <1>1, RequestFacts
<1>3. /\ node \in DOMAIN heap /\ node \in IpPrefix /\ node.mask = 4 * hop /\ node = Path(addr, hop)
      /\ hop \in 0..Strides /\ NodeRef(node) /\ Slot(node, bpos) /\ here = heap[node]
  BY <1>1, WalkFacts, NodeFacts, TargetFacts DEF here
<1>4. RelLen(bpos) = relLen /\ bpos \in 1..15 /\ (relLen > 0 => bpos \in MatchMask(nib))
  <2>1. CASE relLen = 0
    BY <2>1, RelLenValues DEF bpos
  <2>2. CASE relLen > 0
    <3>1. nib \in Nibble /\ bpos = Position(nib, relLen) /\ relLen \in 1..3
      BY <1>1, <1>2, <2>2, WalkFacts DEF bpos
    <3>2. RelLen(bpos) = relLen /\ bpos \in 1..15
      BY <3>1, PositionType
    <3>3. /\ Position(nib, 1) = 2 + nib \div 8
          /\ Position(nib, 2) = 4 + nib \div 4
          /\ Position(nib, 3) = 8 + nib \div 2
      BY <3>1, ShlValues, BitsType DEF Position
    <3>. QED BY <3>1, <3>2, <3>3 DEF MatchMask
  <2>. QED BY <1>2, <2>1, <2>2
<1>5. /\ e \in IpPrefix /\ e.mask = key.mask
      /\ \A i \in 1..BITS : i > e.mask => e.ip[i] = 0
  BY <1>2, <1>3, <1>4, EntryType
<1>6. Covers(e, addr)
  <2>1. CASE relLen > 0
    BY <1>2, <1>3, <1>4, <2>1, EntryCovers, BitsType DEF nib
  <2>2. CASE relLen = 0
    <3>1. e.mask = 4 * hop
      BY ONLY <1>2, <1>3, <1>5, <2>2, BitsType
    <3>2. \A i \in 1..node.mask : e.ip[i] = node.ip[i]
      <4>1. node.mask + RelLen(bpos) <= BITS
        BY <1>3, SlotFits
      <4>. QED BY <1>3, <1>4, <4>1, EntryBits
    <3>3. \A i \in 1..BITS : node.ip[i] = IF i <= 4 * hop THEN addr[i] ELSE 0
      BY <1>2, <1>3, PathType
    <3>4. \A i \in 1..(4 * hop) : i \in 1..BITS
      BY <1>3, BitsType
    <3> HIDE DEF e
    <3>. QED BY <1>3, <3>1, <3>2, <3>3, <3>4 DEF Covers
  <2>. QED BY <1>2, <2>1, <2>2
<1>7. Covers(key, addr) /\ \A i \in 1..BITS : i > key.mask => key.ip[i] = 0
  <2>1. req.prefix \in IpPrefix
    BY <1>1, NetsAssumption DEF Request, KeyOps, PrefixOps, LookupOps, PlainOps
  <2>2. /\ key.mask = req.prefix.mask /\ key.mask \in 0..BITS
        /\ \A i \in 1..BITS : key.ip[i] = IF i <= req.prefix.mask THEN req.prefix.ip[i] ELSE 0
    BY <2>1, MaskedType DEF key, IpPrefix
  <2>. QED BY <1>2, <2>2, BitsType DEF Covers
<1>8. e = key
  <2> HIDE DEF e
  <2>. QED BY <1>2, <1>5, <1>6, <1>7, CoveringUnique
<1>. QED
  BY <1>1, <1>3, <1>8, EntryHome, KeyOfSlot

(* Where the link to the target is missing, the prefix is not stored.      *)
LEMMA TargetMissing ==
  ASSUME IInv, pc \in KeyOps, hop < fullHops, nib \notin here.external
  PROVE  key \notin Keys
<1>1. TypeOK /\ Control /\ TreeInv /\ Walking /\ req \in Request /\ req.op \in KeyOps
  BY DEF IInv, Walking, Control, Ops, KeyOps, PrefixOps
<1>2. /\ addr \in Address /\ addr = key.ip /\ key.mask = 4 * fullHops + relLen
      /\ fullHops \in 0..Strides /\ relLen \in 0..3
  BY <1>1, RequestFacts
<1>3. node = Path(addr, hop) /\ hop \in 0..Strides
  BY <1>1, WalkFacts
<1> SUFFICES ASSUME key \in Keys PROVE FALSE
  OBVIOUS
<1>4. PICK s \in DOMAIN heap, b \in Nat :
        /\ s \in IpPrefix /\ NodeRef(s) /\ b \in heap[s].internal /\ Slot(s, b)
        /\ key = Entry(s, b) /\ key.mask = s.mask + RelLen(b)
  BY <1>1, KeyFacts
<1>5. PICK k \in 0..Strides : s.mask = 4 * k /\ s = Path(s.ip, k)
  BY <1>4 DEF NodeRef
<1>6. RelLen(b) \in 0..3
  BY <1>4, RelLenValues DEF Slot
<1>7. k = fullHops
  BY <1>2, <1>4, <1>5, <1>6
<1>8. Covers(key, addr)
  BY <1>2 DEF Covers
<1>9. s = Path(addr, k)
  BY <1>2, <1>4, <1>5, <1>8, CoversOnPath
<1>10. hop \in 0..(k - 1) /\ hop \in 0..k /\ s.mask \div STRIDE = k
  BY <1>3, <1>5, <1>7, BitsType
<1>11. nibble(s.ip, hop) \in heap[Path(s.ip, hop)].external
  BY <1>1, <1>10 DEF TreeInv, Anchored
<1>12. Path(s.ip, hop) = Path(addr, hop) /\ nibble(s.ip, hop) = nibble(addr, hop)
  BY <1>2, <1>5, <1>9, <1>10, PathOfPath
<1>. QED
  BY <1>3, <1>11, <1>12 DEF here, nib

(* The value of an entry is in the slot of its bit.                        *)
LEMMA ValueOfEntry ==
  ASSUME TypeOK, TreeInv, NEW p \in Keys
  PROVE  \E r \in DOMAIN heap, b \in Nat :
           /\ b \in heap[r].internal /\ Home(p) = r /\ BitOf(p) = b /\ p = Entry(r, b)
           /\ ValueOf(p) = At(heap[r].values, rank(heap[r].internal, b))
BY KeyFacts, EntryHome DEF ValueOf

(* The value stored at a bit, before and after a step.                     *)
LEMMA EntryValue ==
  ASSUME NEW r \in IpPrefix, NodeRef(r), NEW b, Slot(r, b)
  PROVE  /\ ValueOf(Entry(r, b)) = At(heap[r].values, rank(heap[r].internal, b))
         /\ ValueOf(Entry(r, b))' = At(heap'[r].values, rank(heap'[r].internal, b))
<1>1. Home(Entry(r, b)) = r /\ BitOf(Entry(r, b)) = b
  BY EntryHome
<1>. QED
  BY <1>1 DEF ValueOf

(* A step that keeps the entries of every node, and creates and frees only *)
(* nodes without entries, is invisible.                                    *)
LEMMA TableKept ==
  ASSUME TypeOK, TreeInv,
         \A s \in DOMAIN heap \cap DOMAIN heap' :
           heap'[s].internal = heap[s].internal /\ heap'[s].values = heap[s].values,
         \A s \in DOMAIN heap' \ DOMAIN heap : heap'[s].internal = {},
         \A s \in DOMAIN heap \ DOMAIN heap' : heap[s].internal = {}
  PROVE  Table' = Table
<1>1. ASSUME NEW p, p \in Keys' PROVE p \in Keys
  <2>1. PICK r \in DOMAIN heap' : \E b \in heap'[r].internal : p = Entry(r, b)
    BY <1>1, KeyMembers
  <2>2. r \in DOMAIN heap /\ heap'[r].internal = heap[r].internal
    BY <2>1
  <2>. QED BY <2>1, <2>2, KeyMembers
<1>2. ASSUME NEW p, p \in Keys PROVE p \in Keys' /\ ValueOf(p)' = ValueOf(p)
  <2>1. PICK r \in DOMAIN heap : \E b \in heap[r].internal : p = Entry(r, b)
    BY <1>2, KeyMembers
  <2>2. PICK b \in heap[r].internal : p = Entry(r, b)
    BY <2>1
  <2>3. r \in DOMAIN heap' /\ heap'[r].internal = heap[r].internal /\ heap'[r].values = heap[r].values
    BY <2>2
  <2>4. r \in IpPrefix /\ NodeRef(r) /\ Slot(r, b)
    BY NodeFacts
  <2>5. p \in Keys'
    BY <2>2, <2>3, KeyMembers
  <2>. QED BY <2>2, <2>3, <2>4, <2>5, EntryValue
<1>. QED
  BY <1>1, <1>2 DEF Table

(* RoutingTable and the tree speak of calls in the same words.             *)
LEMMA SameWords ==
  /\ Abstract!key = key
  /\ Abstract!Done = Done /\ Abstract!Unit = Unit
  /\ Abstract!Request = Request /\ Abstract!NoRequest = NoRequest
  /\ Abstract!LookupOps = LookupOps
  /\ \A S : Abstract!Cardinality(S) = Cardinality(S)
  /\ \A op, found : Abstract!LookupReply(op, found) = LookupReply(op, found)
  /\ \A t, a : Abstract!LongestMatch(t, a) = LongestMatch(t, a)
<1>1. Abstract!key = key
  BY DEF Abstract!key, key, Abstract!masked, masked, Abstract!BITS, BITS, Abstract!STRIDE, STRIDE
<1>2. Abstract!Done = Done /\ Abstract!Unit = Unit
  BY DEF Abstract!Done, Done, Abstract!Unit, Unit, Abstract!Panic, Panic
<1>3. Abstract!Request = Request /\ Abstract!NoRequest = NoRequest /\ Abstract!LookupOps = LookupOps
  BY DEF Abstract!Request, Request, Abstract!NoRequest, NoRequest, Abstract!LookupOps, LookupOps,
         Abstract!PrefixOps, PrefixOps, Abstract!PlainOps, PlainOps
<1>4. \A op, found : Abstract!LookupReply(op, found) = LookupReply(op, found)
  BY DEF Abstract!LookupReply, LookupReply
<1>5. \A t, a : Abstract!Matches(t, a) = Matches(t, a)
  BY DEF Abstract!Matches, Matches, Abstract!Covers, Covers
<1>6. \A p, S : Abstract!IsLongest(p, S) = IsLongest(p, S)
  BY DEF Abstract!IsLongest, IsLongest
<1>7. \A t, a : Abstract!LongestMatch(t, a) = LongestMatch(t, a)
  BY <1>5, <1>6 DEF Abstract!LongestMatch, LongestMatch
<1>8. \A S : Abstract!Cardinality(S) = Cardinality(S)
  BY DEF Abstract!Cardinality, Cardinality
<1>. QED
  BY <1>1, <1>2, <1>3, <1>4, <1>7, <1>8
------------------------------------------------------------------------------
(* Where a call stands, seen from outside.                                 *)
LEMMA PhaseFacts ==
  /\ pc = "idle" => Phase = "idle"
  /\ pc \in Ops => Phase = "called"
  /\ pc \in {"unwind", "return"} => Phase = "answered"
  /\ pc' = "idle" => Phase' = "idle"
  /\ pc' \in Ops => Phase' = "called"
  /\ pc' \in {"unwind", "return"} => Phase' = "answered"
BY DEF Phase, Ops, PrefixOps, LookupOps, PlainOps

(* Walking down and back up does not show.                                 *)
LEMMA WalkHidden ==
  ASSUME IInv,
         \/ InsertFollow \/ MatchDescend \/ ProbeDescend \/ RemoveDescend
         \/ RemoveFinish \/ UNCHANGED vars
  PROVE  UNCHANGED Abstract!vars
<1>1. heap' = heap /\ req' = req /\ reply' = reply
  BY DEF InsertFollow, MatchDescend, ProbeDescend, RemoveDescend, RemoveFinish, vars
<1>2. Phase' = Phase
  BY DEF InsertFollow, MatchDescend, ProbeDescend, RemoveDescend, RemoveFinish, vars, Phase
<1>3. Table' = Table
  BY <1>1, TableKept DEF IInv
<1>. QED
  BY <1>1, <1>2, <1>3 DEF Abstract!vars

(* A new node has no entries.                                              *)
LEMMA GrowHidden ==
  ASSUME IInv, InsertGrow
  PROVE  UNCHANGED Abstract!vars
<1> DEFINE new   == Child(node, nib)
           kids  == VecInsert(here.children, childIdx, new)
           grown == [here EXCEPT !.children = kids, !.external = @ \cup {nib}]
<1>1. TypeOK /\ Control /\ TreeInv /\ pc = "insert" /\ hop < fullHops /\ nib \notin here.external
  BY DEF IInv, InsertGrow
<1>2. Walking /\ req \in Request /\ fullHops \in 0..Strides
  BY <1>1, RequestFacts DEF Control, Walking, KeyOps, Ops
<1>3. /\ addr \in Address /\ node = Path(addr, hop) /\ node \in DOMAIN heap
      /\ hop \in 0..(Strides - 1) /\ hop + 1 \in 0..Strides
      /\ here \in TbNode /\ here = heap[node]
  BY <1>1, <1>2, WalkFacts, BitsType DEF here
<1>4. new = Path(addr, hop + 1)
  BY <1>3, ChildOnPath DEF nib
<1>5. new \notin DOMAIN heap
  <2>1. new.mask \div STRIDE = hop + 1 /\ hop \in 0..((hop + 1) - 1)
    BY <1>3, <1>4, PathType, BitsType
  <2>2. Path(new.ip, hop) = node /\ nibble(new.ip, hop) = nib
    BY <1>3, <1>4, PathOfPath DEF nib
  <2>. QED BY <1>1, <1>3, <2>1, <2>2 DEF TreeInv, Anchored
<1>6. heap' = WithNode(WithNode(heap, new, EmptyNode), node, grown)
  BY DEF InsertGrow
<1>7. grown.internal = here.internal /\ grown.values = here.values
  BY <1>3 DEF TbNode
<1> HIDE DEF new, grown
<1>8. /\ DOMAIN heap' = DOMAIN heap \cup {new}
      /\ heap'[node] = grown
      /\ heap'[new] = EmptyNode
      /\ \A s \in DOMAIN heap : s # node => heap'[s] = heap[s]
  BY <1>3, <1>5, <1>6 DEF WithNode
<1>9. Table' = Table
  <2>1. \A s \in DOMAIN heap \cap DOMAIN heap' :
          heap'[s].internal = heap[s].internal /\ heap'[s].values = heap[s].values
    BY <1>3, <1>7, <1>8
  <2>2. \A s \in DOMAIN heap' \ DOMAIN heap : heap'[s].internal = {}
    BY <1>8 DEF EmptyNode
  <2>3. DOMAIN heap \ DOMAIN heap' = {}
    BY <1>8
  <2>. QED BY <1>1, <2>1, <2>2, <2>3, TableKept
<1>. QED
  BY <1>9 DEF InsertGrow, Phase, Abstract!vars

(* Pruning removes a node without entries, and only that one.              *)
LEMMA UnwindHidden ==
  ASSUME IInv, RemoveUnwind
  PROVE  UNCHANGED Abstract!vars
<1> DEFINE frame == Last(stack)
           par   == frame.node
           left  == [heap[par] EXCEPT !.children = VecRemove(@, frame.idx),
                                      !.external = @ \ {frame.nib}]
<1>1. TypeOK /\ Control /\ TreeInv /\ pc = "unwind" /\ stack # <<>>
  BY DEF IInv, RemoveUnwind
<1>2. frame = Last(stack)
  OBVIOUS
<1>3. heap' = IF prune THEN WithNode(Without(heap, At(heap[par].children, frame.idx)), par, left)
                       ELSE heap
  BY DEF RemoveUnwind
<1> HIDE DEF frame
<1>4. /\ Walking /\ par \in DOMAIN heap /\ node \in DOMAIN heap /\ node # par
      /\ At(heap[par].children, frame.idx) = node
  BY <1>1, <1>2, UnwindFacts
<1>5. prune => heap[node].internal = {}
  BY <1>1 DEF Control, IsDead, here
<1>6. left.internal = heap[par].internal /\ left.values = heap[par].values
  BY <1>1, <1>4 DEF TypeOK, TbNode
<1> HIDE DEF left
<1>7. Table' = Table
  <2>1. CASE prune
    <3>1. /\ DOMAIN heap' = DOMAIN heap \ {node}
          /\ heap'[par] = left
          /\ \A s \in DOMAIN heap : s # node /\ s # par => heap'[s] = heap[s]
      BY <1>3, <1>4, <2>1 DEF WithNode, Without, Restrict
    <3>2. \A s \in DOMAIN heap \cap DOMAIN heap' :
            heap'[s].internal = heap[s].internal /\ heap'[s].values = heap[s].values
      BY <1>6, <3>1
    <3>3. \A s \in DOMAIN heap \ DOMAIN heap' : heap[s].internal = {}
      BY <1>5, <2>1, <3>1
    <3>4. DOMAIN heap' \ DOMAIN heap = {}
      BY <3>1
    <3>. QED BY <1>1, <3>2, <3>3, <3>4, TableKept
  <2>2. CASE ~prune
    BY <1>1, <1>3, <2>2, TableKept
  <2>. QED BY <2>1, <2>2
<1>. QED
  BY <1>7 DEF RemoveUnwind, Phase, Abstract!vars
------------------------------------------------------------------------------
(* The steps at which a call takes effect.                                 *)

(* A node's slots rewritten, seen in the table: what the step does to the  *)
(* target's bit it does to the key, and every other entry keeps its value. *)
LEMMA OthersKept ==
  ASSUME TypeOK, TreeInv, NEW r \in DOMAIN heap, NEW b, Slot(r, b),
         DOMAIN heap' = DOMAIN heap,
         \A s \in DOMAIN heap : s # r => heap'[s] = heap[s],
         \A c \in heap[r].internal \ {b} :
           At(heap'[r].values, rank(heap'[r].internal, c))
             = At(heap[r].values, rank(heap[r].internal, c))
  PROVE  \A p \in Keys : p # Entry(r, b) => ValueOf(p)' = ValueOf(p)
<1> SUFFICES ASSUME NEW p \in Keys, p # Entry(r, b) PROVE ValueOf(p)' = ValueOf(p)
  OBVIOUS
<1>1. PICK s \in DOMAIN heap : \E c \in heap[s].internal : p = Entry(s, c)
  BY KeyMembers
<1>2. PICK c \in heap[s].internal : p = Entry(s, c)
  BY <1>1
<1>3. s \in IpPrefix /\ NodeRef(s) /\ Slot(s, c)
  BY NodeFacts
<1>4. At(heap'[s].values, rank(heap'[s].internal, c)) = At(heap[s].values, rank(heap[s].internal, c))
  <2>1. s = r => c # b
    BY <1>2
  <2>. QED BY <2>1
<1>. QED
  BY <1>2, <1>3, <1>4, EntryValue

(* The target of a call, in the words of the table.                        *)
LEMMA KeyIsEntry ==
  ASSUME IInv, pc \in KeyOps, hop = fullHops
  PROVE  /\ node \in DOMAIN heap /\ here = heap[node]
         /\ node \in IpPrefix /\ NodeRef(node) /\ Slot(node, bpos)
         /\ key = Entry(node, bpos)
         /\ key \in Keys <=> bpos \in here.internal
         /\ ValueOf(key) = At(here.values, valueIdx)
         /\ \A p : p = key => ValueOf(p)' = At(heap'[node].values, rank(heap'[node].internal, bpos))
<1>1. TypeOK /\ Control /\ TreeInv /\ Walking
  BY DEF IInv, Walking
<1>2. node \in DOMAIN heap /\ here = heap[node] /\ node \in IpPrefix
  BY <1>1, WalkFacts DEF here
<1>3. NodeRef(node) /\ Slot(node, bpos)
  BY <1>1, <1>2, NodeFacts, TargetFacts
<1>4. Entry(node, bpos) = key /\ (key \in Keys <=> bpos \in here.internal)
  BY TargetEntry
<1>. QED
  BY <1>2, <1>3, <1>4, EntryValue DEF valueIdx

LEMMA InsertReplaceIs ==
  ASSUME IInv, InsertReplace
  PROVE  Abstract!Insert
<1> DEFINE vals == [here.values EXCEPT ![valueIdx + 1] = req.value]
           n == [here EXCEPT !.values = vals]
<1>1. TypeOK /\ Control /\ TreeInv /\ pc = "insert" /\ hop = fullHops /\ bpos \in here.internal
  BY DEF IInv, InsertReplace
<1>2. pc \in KeyOps /\ pc \in Ops /\ Walking /\ req.op = "insert"
  BY <1>1 DEF Walking, KeyOps, Ops, Control
<1>3. /\ node \in DOMAIN heap /\ here = heap[node] /\ Slot(node, bpos)
      /\ key = Entry(node, bpos) /\ key \in Keys
      /\ \A p : p = key => ValueOf(p)' = At(heap'[node].values, rank(heap'[node].internal, bpos))
  BY <1>1, <1>2, KeyIsEntry
<1>4. /\ here \in TbNode /\ here.internal \in Bitmap /\ here.values \in Seq(Value)
      /\ valueIdx + 1 \in 1..Len(here.values) /\ valueIdx \in Nat
  BY <1>1, <1>2, WalkFacts, TargetFacts DEF TbNode
<1>5. heap' = [heap EXCEPT ![node] = n]
  BY <1>3 DEF InsertReplace
<1>6. n.internal = here.internal /\ n.values = vals
  BY <1>4 DEF TbNode
<1> HIDE DEF n
<1>7. /\ DOMAIN heap' = DOMAIN heap /\ heap'[node] = n
      /\ \A s \in DOMAIN heap : s # node => heap'[s] = heap[s]
  BY <1>3, <1>5
<1>8. \A p : p = key => ValueOf(p)' = req.value
  <2>1. valueIdx = rank(here.internal, bpos)
    BY DEF valueIdx
  <2>2. vals[valueIdx + 1] = req.value
    BY <1>4
  <2> HIDE DEF vals
  <2>. QED BY <1>3, <1>6, <1>7, <2>1, <2>2 DEF At
<1>9. ASSUME NEW c \in heap[node].internal \ {bpos}
      PROVE  At(heap'[node].values, rank(heap'[node].internal, c))
               = At(heap[node].values, rank(heap[node].internal, c))
  <2>1. rank(here.internal, c) # valueIdx /\ rank(here.internal, c) \in Nat
    <3>1. c \in here.internal /\ c # bpos /\ c \in Int /\ bpos \in Int
      BY <1>1, <1>3, <1>4, <1>9 DEF Bitmap, Nibble
    <3>2. rank(here.internal, c) \in Nat /\ rank(here.internal, bpos) \in Nat
      BY <1>1, <1>4, <3>1, RankInBounds
    <3>3. c < bpos => rank(here.internal, c) < rank(here.internal, bpos)
      BY <1>4, <3>1, RankMonotone
    <3>4. bpos < c => rank(here.internal, bpos) < rank(here.internal, c)
      BY <1>1, <1>4, <3>1, RankMonotone
    <3>. QED BY <3>1, <3>2, <3>3, <3>4 DEF valueIdx
  <2>2. vals[rank(here.internal, c) + 1] = here.values[rank(here.internal, c) + 1]
    BY <1>4, <2>1
  <2> HIDE DEF vals
  <2>. QED BY <1>3, <1>6, <1>7, <2>2 DEF At
<1>10. Keys' = Keys
  <2>1. \A s \in DOMAIN heap : heap'[s].internal = heap[s].internal
    BY <1>3, <1>6, <1>7
  <2>. QED BY <1>7, <2>1 DEF Keys
<1>11. \A p \in Keys : p # key => ValueOf(p)' = ValueOf(p)
  BY <1>1, <1>3, <1>7, <1>9, OthersKept
<1>12. Table' = [p \in DOMAIN Table \cup {key} |-> IF p = key THEN req.value ELSE Table[p]]
  BY <1>3, <1>8, <1>10, <1>11 DEF Table
<1>13. key \in DOMAIN Table /\ reply' \in Done
  BY <1>3 DEF Table, InsertReplace, Finish
<1>14. Phase = "called" /\ Phase' = "answered" /\ req' = req
  BY <1>2, PhaseFacts DEF InsertReplace, Finish
<1>. QED
  BY <1>2, <1>12, <1>13, <1>14, SameWords DEF Abstract!Insert, Abstract!Answer

LEMMA InsertNewIs ==
  ASSUME IInv, InsertNew
  PROVE  Abstract!Insert
<1> DEFINE vals == VecInsert(here.values, valueIdx, req.value)
           bits == here.internal \cup {bpos}
           n == [here EXCEPT !.values = vals, !.internal = bits]
<1>1. TypeOK /\ Control /\ TreeInv /\ pc = "insert" /\ hop = fullHops /\ bpos \notin here.internal
  BY DEF IInv, InsertNew
<1>2. /\ pc \in KeyOps /\ pc \in Ops /\ Walking /\ req.op = "insert" /\ req \in Request
      /\ req.value \in Value
  BY <1>1, RequestFacts DEF Walking, KeyOps, Ops, Control
<1>3. /\ node \in DOMAIN heap /\ here = heap[node] /\ Slot(node, bpos)
      /\ key = Entry(node, bpos) /\ key \notin Keys
      /\ \A p : p = key => ValueOf(p)' = At(heap'[node].values, rank(heap'[node].internal, bpos))
  BY <1>1, <1>2, KeyIsEntry
<1>4. /\ here \in TbNode /\ here.internal \in Bitmap /\ here.values \in Seq(Value)
      /\ bpos \in Nibble /\ Len(here.values) >= Cardinality(here.internal)
  BY <1>1, <1>2, <1>3, WalkFacts, TargetFacts DEF TbNode, Nibble, TreeInv, ValuesBacked
<1>5. ASSUME NEW c \in bits
      PROVE  At(vals, rank(bits, c)) = IF c = bpos THEN req.value ELSE At(here.values, rank(here.internal, c))
  <2>1. vals = VecInsert(here.values, rank(here.internal, bpos), req.value)
    BY DEF valueIdx
  <2>2. bits = here.internal \cup {bpos}
    OBVIOUS
  <2> HIDE DEF vals, bits
  <2>. QED BY ONLY <1>1, <1>2, <1>4, <1>5, <2>1, <2>2, VecInsertAt
<1>6. heap' = WithNode(heap, node, n)
  BY DEF InsertNew
<1> HIDE DEF vals
<1>7. n.internal = bits /\ n.values = vals
  BY <1>4 DEF TbNode
<1> HIDE DEF n
<1>8. /\ DOMAIN heap' = DOMAIN heap /\ heap'[node] = n
      /\ \A s \in DOMAIN heap : s # node => heap'[s] = heap[s]
  BY <1>3, <1>6 DEF WithNode
<1>9. \A p : p = key => ValueOf(p)' = req.value
  BY <1>3, <1>5, <1>7, <1>8
<1>10. ASSUME NEW c \in heap[node].internal \ {bpos}
       PROVE  At(heap'[node].values, rank(heap'[node].internal, c))
                = At(heap[node].values, rank(heap[node].internal, c))
  BY <1>3, <1>5, <1>7, <1>8, <1>10
<1>11. Keys' = Keys \cup {key}
  <2>1. \A s \in DOMAIN heap :
          heap'[s].internal = IF s = node THEN heap[s].internal \cup {bpos} ELSE heap[s].internal
    BY <1>3, <1>7, <1>8
  <2>. QED BY <1>1, <1>3, <1>8, <2>1, KeyAdded
<1>12. \A p \in Keys : p # key => ValueOf(p)' = ValueOf(p)
  BY <1>1, <1>3, <1>8, <1>10, OthersKept
<1>13. Table' = [p \in DOMAIN Table \cup {key} |-> IF p = key THEN req.value ELSE Table[p]]
  BY <1>3, <1>9, <1>11, <1>12 DEF Table
<1>14. key \notin DOMAIN Table /\ reply' = Unit
  BY <1>3 DEF Table, InsertNew, Finish
<1>15. Phase = "called" /\ Phase' = "answered" /\ req' = req
  BY <1>2, PhaseFacts DEF InsertNew, Finish
<1>. QED
  BY <1>2, <1>13, <1>14, <1>15, SameWords DEF Abstract!Insert, Abstract!Answer

LEMMA RemoveTargetIs ==
  ASSUME IInv, RemoveTarget
  PROVE  Abstract!Remove
<1> DEFINE vals == VecRemove(here.values, valueIdx)
           bits == here.internal \ {bpos}
           n == [here EXCEPT !.values = vals, !.internal = bits]
<1>1. TypeOK /\ Control /\ TreeInv /\ pc = "remove" /\ hop = fullHops /\ bpos \in here.internal
  BY DEF IInv, RemoveTarget
<1>2. pc \in KeyOps /\ pc \in Ops /\ Walking /\ req.op = "remove"
  BY <1>1 DEF Walking, KeyOps, PrefixOps, Ops, Control
<1>3. /\ node \in DOMAIN heap /\ here = heap[node] /\ Slot(node, bpos)
      /\ key = Entry(node, bpos) /\ key \in Keys
      /\ ValueOf(key) = At(here.values, valueIdx)
  BY <1>1, <1>2, KeyIsEntry
<1>4. /\ here \in TbNode /\ here.internal \in Bitmap /\ here.values \in Seq(Value)
      /\ Len(here.values) >= Cardinality(here.internal)
  BY <1>1, <1>2, <1>3, WalkFacts DEF TbNode, TreeInv, ValuesBacked
<1>5. ASSUME NEW c \in bits
      PROVE  At(vals, rank(bits, c)) = At(here.values, rank(here.internal, c))
  <2>1. vals = VecRemove(here.values, rank(here.internal, bpos))
    BY DEF valueIdx
  <2>2. bits = here.internal \ {bpos}
    OBVIOUS
  <2> HIDE DEF vals, bits
  <2>. QED BY ONLY <1>1, <1>4, <1>5, <2>1, <2>2, VecRemoveAt
<1>6. heap' = [heap EXCEPT ![node] = n]
  BY DEF RemoveTarget
<1> HIDE DEF vals
<1>7. n.internal = bits /\ n.values = vals
  BY <1>4 DEF TbNode
<1> HIDE DEF n
<1>8. /\ DOMAIN heap' = DOMAIN heap /\ heap'[node] = n
      /\ \A s \in DOMAIN heap : s # node => heap'[s] = heap[s]
  BY <1>3, <1>6
<1>9. ASSUME NEW c \in heap[node].internal \ {bpos}
      PROVE  At(heap'[node].values, rank(heap'[node].internal, c))
               = At(heap[node].values, rank(heap[node].internal, c))
  BY <1>3, <1>5, <1>7, <1>8, <1>9
<1>10. Keys' = Keys \ {key}
  <2>1. \A s \in DOMAIN heap :
          heap'[s].internal = IF s = node THEN heap[s].internal \ {bpos} ELSE heap[s].internal
    BY <1>3, <1>7, <1>8
  <2>. QED BY <1>1, <1>3, <1>8, <2>1, KeyRemoved
<1>11. \A p \in Keys : p # key => ValueOf(p)' = ValueOf(p)
  BY <1>1, <1>3, <1>8, <1>9, OthersKept
<1>12. Table' = [p \in DOMAIN Table \ {key} |-> Table[p]]
  BY <1>10, <1>11 DEF Table
<1>13. key \in DOMAIN Table /\ reply' = Table[key]
  BY <1>3 DEF Table, RemoveTarget
<1>14. Phase = "called" /\ Phase' = "answered" /\ req' = req
  BY <1>2, PhaseFacts DEF RemoveTarget
<1>. QED
  BY <1>2, <1>12, <1>13, <1>14, SameWords DEF Abstract!Remove, Abstract!Answer, Abstract!Find

(* A walk that stops short, or at a clear bit, has not missed the prefix.  *)
LEMMA RemoveMissIs ==
  ASSUME IInv, RemoveMiss
  PROVE  Abstract!Remove
<1>1. TypeOK /\ Control /\ pc = "remove" /\ pc' = "unwind"
  BY DEF IInv, RemoveMiss
<1>2. pc \in KeyOps /\ pc \in Ops /\ req.op = "remove" /\ reply = None
  BY <1>1 DEF KeyOps, PrefixOps, Ops, Control
<1>3. heap' = heap /\ req' = req /\ reply' = reply
  BY DEF RemoveMiss
<1>4. key \notin Keys
  BY <1>2, TargetMissing, KeyIsEntry DEF RemoveMiss
<1>5. Table' = Table
  BY <1>3, TableKept DEF IInv
<1>6. Table = [p \in DOMAIN Table \ {key} |-> Table[p]] /\ key \notin DOMAIN Table
  BY <1>4 DEF Table
<1>7. Phase = "called" /\ Phase' = "answered"
  BY <1>1, <1>2, PhaseFacts
<1>. QED
  BY <1>2, <1>3, <1>5, <1>6, <1>7, SameWords DEF Abstract!Remove, Abstract!Answer, Abstract!Find

LEMMA ProbeIs ==
  ASSUME IInv, ProbeMiss \/ ProbeTarget
  PROVE  Abstract!Get \/ Abstract!Contains
<1>1. /\ Control /\ pc \in {"get", "contains"} /\ pc' = "return" /\ heap' = heap /\ req' = req
  BY DEF IInv, ProbeMiss, ProbeTarget, Probing, Finish
<1>2. pc \in KeyOps /\ pc \in Ops /\ req.op = pc
  BY <1>1 DEF KeyOps, PrefixOps, Ops, Control
<1>3. /\ pc = "get" => reply' = IF key \in Keys THEN Table[key] ELSE None
      /\ pc = "contains" => reply' = (key \in Keys)
  <2>1. CASE ProbeMiss
    <3>1. key \notin Keys
      BY <1>2, <2>1, TargetMissing DEF ProbeMiss
    <3>2. (key \in Keys) = FALSE
      BY <3>1
    <3>3. reply' = IF pc = "get" THEN None ELSE FALSE
      BY <2>1 DEF ProbeMiss, Finish
    <3>4. pc = "contains" => reply' = FALSE
      BY <3>3
    <3>. QED BY <3>1, <3>2, <3>3, <3>4
  <2>2. CASE ProbeTarget
    <3> DEFINE present == bpos \in here.internal
    <3>1. /\ key \in Keys <=> present
          /\ ValueOf(key) = At(here.values, valueIdx)
      BY <1>2, <2>2, KeyIsEntry DEF ProbeTarget
    <3>2. /\ pc = "contains" => reply' = present
          /\ pc = "get" /\ present => reply' = At(here.values, valueIdx)
          /\ pc = "get" /\ ~present => reply' = None
      BY <1>1, <2>2 DEF ProbeTarget, Finish
    <3>3. key \in Keys => Table[key] = ValueOf(key)
      BY DEF Table
    <3> HIDE DEF present
    <3>4. present \in BOOLEAN
      BY DEF present
    <3>. QED BY <3>1, <3>2, <3>3, <3>4
  <2>. QED BY <2>1, <2>2
<1>4. Table' = Table /\ DOMAIN Table = Keys
  BY <1>1, TableKept DEF IInv, Table
<1>5. Phase = "called" /\ Phase' = "answered"
  BY <1>1, <1>2, PhaseFacts
<1>. QED
  BY <1>1, <1>2, <1>3, <1>4, <1>5, SameWords
     DEF Abstract!Get, Abstract!Contains, Abstract!Answer, Abstract!Find

LEMMA LookupIs ==
  ASSUME IInv, LookupInv, MatchBreak \/ MatchBottom
  PROVE  \E op \in Abstract!LookupOps : Abstract!Lookup(op)
<1>1. Control /\ pc \in LookupOps /\ pc' = "return" /\ heap' = heap /\ req' = req
  BY DEF IInv, MatchBreak, MatchBottom, Finish
<1>2. pc \in Ops /\ req.op = pc
  BY <1>1 DEF Ops, Control
<1>3. reply' = LookupReply(req.op, LongestMatch(Table, req.addr))
  BY LookupAnswers
<1>4. Table' = Table
  BY <1>1, TableKept DEF IInv
<1>5. Phase = "called" /\ Phase' = "answered"
  BY <1>1, <1>2, PhaseFacts
<1>6. Abstract!Lookup(pc)
  BY <1>1, <1>2, <1>3, <1>4, <1>5, SameWords DEF Abstract!Lookup, Abstract!Answer
<1>. QED
  BY <1>1, <1>6, SameWords

LEMMA CountIs ==
  ASSUME IInv, ReadCount
  PROVE  Abstract!Len \/ Abstract!IsEmpty
<1>1. /\ TypeOK /\ Control /\ TreeInv /\ CountExact
      /\ pc \in {"len", "is_empty"} /\ pc' = "return" /\ heap' = heap /\ req' = req
  BY DEF IInv, ReadCount, Finish
<1>2. pc \in Ops /\ req.op = pc
  BY <1>1 DEF Ops, PlainOps, Control
<1>3. count = Cardinality(Keys) /\ (count = 0 <=> Keys = {})
  <2>1. Cardinality(Keys) \in Nat /\ (Cardinality(Keys) = 0 <=> Keys = {})
    BY <1>1, FS_CardinalityType, FS_EmptySet DEF TreeInv
  <2>. QED BY <1>1, <2>1 DEF CountExact
<1>4. Table' = Table /\ DOMAIN Table = Keys
  BY <1>1, TableKept DEF Table
<1>5. Phase = "called" /\ Phase' = "answered"
  BY <1>1, <1>2, PhaseFacts
<1>6. /\ pc = "len" => reply' = Cardinality(DOMAIN Table)
      /\ pc = "is_empty" => reply' = (DOMAIN Table = {})
  BY <1>3, <1>4 DEF ReadCount, Finish
<1>. QED
  BY <1>1, <1>2, <1>4, <1>5, <1>6, SameWords DEF Abstract!Len, Abstract!IsEmpty, Abstract!Answer

LEMMA ClearIs ==
  ASSUME IInv, Clear \/ ClearInterrupted
  PROVE  Abstract!Clear
<1>1. Control /\ pc = "clear" /\ pc' = "return" /\ req' = req /\ reply' \in Done
  <2>1. CASE Clear
    BY <2>1 DEF IInv, Clear, ClearRoot, Finish, Done
  <2>2. CASE ClearInterrupted
    BY <2>2 DEF IInv, ClearInterrupted, ClearRoot, Finish, Done
  <2>. QED BY <2>1, <2>2
<1>2. pc \in Ops /\ req.op = "clear"
  BY <1>1 DEF Ops, PlainOps, Control
<1>3. PICK values : heap' = [r \in {Root} |-> [EmptyNode EXCEPT !.values = values]]
  BY DEF Clear, ClearInterrupted, ClearRoot
<1>4. Keys' = {}
  <2>1. DOMAIN heap' = {Root} /\ heap'[Root].internal = {}
    BY <1>3 DEF EmptyNode
  <2>. QED BY <2>1 DEF Keys
<1>5. Table' = [p \in {} |-> None]
  BY <1>4 DEF Table
<1>6. Phase = "called" /\ Phase' = "answered"
  BY <1>1, <1>2, PhaseFacts
<1>. QED
  BY <1>1, <1>2, <1>5, <1>6, SameWords DEF Abstract!Clear, Abstract!Answer
------------------------------------------------------------------------------
LEMMA CallIs ==
  ASSUME IInv, Call
  PROVE  Abstract!Call
<1>1. pc = "idle" /\ req' \in Request /\ pc' = req'.op /\ heap' = heap /\ reply' = reply
  BY DEF Call
<1>2. pc' \in Ops
  BY <1>1 DEF Request, Ops, PrefixOps, LookupOps, PlainOps
<1>3. Table' = Table
  BY <1>1, TableKept DEF IInv
<1>4. Phase = "idle" /\ Phase' = "called"
  BY <1>1, <1>2, PhaseFacts
<1>. QED
  BY <1>1, <1>3, <1>4, SameWords DEF Abstract!Call

LEMMA ReturnIs ==
  ASSUME IInv, Return
  PROVE  Abstract!Return
<1>1. pc = "return" /\ pc' = "idle" /\ heap' = heap /\ req' = NoRequest /\ reply' = None
  BY DEF Return
<1>2. Table' = Table
  BY <1>1, TableKept DEF IInv
<1>3. Phase = "answered" /\ Phase' = "idle"
  BY <1>1, PhaseFacts
<1>. QED
  BY <1>1, <1>2, <1>3, SameWords DEF Abstract!Return

(* The empty tree is the empty table.                                      *)
LEMMA InitIs ==
  ASSUME Init
  PROVE  Abstract!Init
<1>1. Keys = {}
  BY DEF Init, Keys, EmptyNode
<1>2. Table = [p \in {} |-> None]
  BY <1>1 DEF Table
<1>. QED
  BY <1>2, PhaseFacts, SameWords DEF Init, Abstract!Init

(* The table is read off the heap.                                         *)
LEMMA TableOfHeap ==
  ASSUME UNCHANGED heap
  PROVE  UNCHANGED <<Keys, Table>>
BY DEF Table, Keys, ValueOf

(* A running insert has either not shown yet or entered its value under    *)
(* its key and nothing else.                                               *)
LEMMA InsertEffect ==
  ASSUME IInv, InsertFollow \/ InsertGrow \/ InsertReplace \/ InsertNew
  PROVE  \/ pc' = "insert" /\ Table' = Table
         \/ /\ pc' = "return"
            /\ Table' = [p \in Keys \cup {key} |-> IF p = key THEN req.value ELSE Table[p]]
<1>1. CASE InsertFollow \/ InsertGrow
  <2>1. pc' = "insert"
    BY <1>1 DEF InsertFollow, InsertGrow
  <2>2. UNCHANGED Abstract!vars
    BY <1>1, WalkHidden, GrowHidden
  <2>. QED BY <2>1, <2>2 DEF Abstract!vars
<1>2. CASE InsertReplace \/ InsertNew
  <2>1. pc' = "return"
    BY <1>2 DEF InsertReplace, InsertNew, Finish
  <2>2. Abstract!Insert
    BY <1>2, InsertReplaceIs, InsertNewIs
  <2>3. DOMAIN Table = Keys
    BY DEF Table
  <2>. QED BY <2>1, <2>2, <2>3, SameWords DEF Abstract!Insert
<1>. QED
  BY <1>1, <1>2

(* Every step is a step of the routing table or invisible.                 *)
LEMMA StepIs ==
  ASSUME IInv, LookupInv, [Next]_vars
  PROVE  [Abstract!Next]_Abstract!vars
<1>1. CASE Call
  BY <1>1, CallIs DEF Abstract!Next
<1>2. CASE Return
  BY <1>2, ReturnIs DEF Abstract!Next
<1>3. CASE \/ InsertFollow \/ MatchDescend \/ ProbeDescend \/ RemoveDescend
           \/ RemoveFinish \/ UNCHANGED vars
  BY <1>3, WalkHidden
<1>4. CASE InsertGrow
  BY <1>4, GrowHidden
<1>5. CASE RemoveUnwind
  BY <1>5, UnwindHidden
<1>6. CASE InsertReplace \/ InsertNew
  BY <1>6, InsertReplaceIs, InsertNewIs DEF Abstract!Next, Abstract!Effect
<1>7. CASE RemoveMiss \/ RemoveTarget
  BY <1>7, RemoveMissIs, RemoveTargetIs DEF Abstract!Next, Abstract!Effect
<1>8. CASE ProbeMiss \/ ProbeTarget
  BY <1>8, ProbeIs DEF Abstract!Next, Abstract!Effect
<1>9. CASE MatchBreak \/ MatchBottom
  BY <1>9, LookupIs DEF Abstract!Next, Abstract!Effect
<1>10. CASE ReadCount
  BY <1>10, CountIs DEF Abstract!Next, Abstract!Effect
<1>11. CASE Clear \/ ClearInterrupted
  BY <1>11, ClearIs DEF Abstract!Next, Abstract!Effect
<1>. QED
  BY <1>1, <1>2, <1>3, <1>4, <1>5, <1>6, <1>7, <1>8, <1>9, <1>10, <1>11 DEF Next, Step

(* The tree bitmap is a map from canonical prefixes to values: whatever    *)
(* calls are made in whatever order, each answers as the map does.         *)
THEOREM Refinement == Spec => ImplementsRoutingTable
<1>1. Init => IInv /\ LookupInv /\ Abstract!Init
  BY InitInv, LookupInvInit, InitIs
<1>2. IInv /\ LookupInv /\ [Next]_vars => IInv' /\ LookupInv'
  BY NextInv, LookupInvNext
<1>3. IInv /\ LookupInv /\ [Next]_vars => [Abstract!Next]_Abstract!vars
  BY StepIs
<1>. QED
  BY <1>1, <1>2, <1>3, PTL DEF Spec, ImplementsRoutingTable
------------------------------------------------------------------------------
Depth(q) == q.mask \div STRIDE

(* Where the entries are, read off their prefixes.                         *)
LEMMA KeyHome ==
  ASSUME TypeOK, TreeInv, NEW q \in Keys
  PROVE  /\ q \in IpPrefix /\ q.ip \in Address
         /\ Depth(q) \in 0..Strides
         /\ Home(q) \in DOMAIN heap /\ Home(q).mask = 4 * Depth(q)
         /\ Home(q) = Path(q.ip, Depth(q))
         /\ BitOf(q) \in heap[Home(q)].internal /\ BitOf(q) \in 1..15
         /\ q = Entry(Home(q), BitOf(q))
         /\ q.mask = 4 * Depth(q) + RelLen(BitOf(q))
         /\ \A h \in 0..(Depth(q) - 1) :
              /\ Path(q.ip, h) \in DOMAIN heap
              /\ nibble(q.ip, h) \in heap[Path(q.ip, h)].external
<1>1. PICK r \in DOMAIN heap, b \in Nat :
        /\ r \in IpPrefix /\ NodeRef(r) /\ b \in heap[r].internal /\ Slot(r, b)
        /\ q = Entry(r, b) /\ q.mask = r.mask + RelLen(b)
  BY KeyFacts
<1>2. Home(q) = r /\ BitOf(q) = b
  BY <1>1, EntryHome
<1>3. q \in IpPrefix /\ q.ip \in Address
  BY KeyFacts DEF IpPrefix
<1>4. b \in 1..15 /\ RelLen(b) \in 0..3
  BY <1>1, RelLenValues DEF Slot
<1>. DEFINE d == r.mask \div 4
<1>5. d \in 0..Strides /\ r.mask = 4 * d /\ r = Path(r.ip, d)
  BY NodeFacts
<1>. HIDE DEF d
<1>6. Depth(q) = d
  BY <1>1, <1>4, <1>5, BitsType DEF Depth
<1>7. Home(q) = Path(q.ip, d)
  BY <1>6 DEF Home, Depth
<1>8. ASSUME NEW h \in 0..(d - 1)
      PROVE  Path(q.ip, h) \in DOMAIN heap /\ nibble(q.ip, h) \in heap[Path(q.ip, h)].external
  <2>1. Path(r.ip, h) \in DOMAIN heap /\ nibble(r.ip, h) \in heap[Path(r.ip, h)].external
    BY <1>5, BitsType DEF TreeInv, Anchored, d
  <2>2. Path(r.ip, h) = Path(q.ip, h) /\ nibble(r.ip, h) = nibble(q.ip, h)
    BY <1>2, <1>3, <1>5, <1>7, PathOfPath
  <2>. QED BY <2>1, <2>2
<1>. QED
  BY <1>1, <1>2, <1>3, <1>4, <1>5, <1>6, <1>7, <1>8
------------------------------------------------------------------------------
(* Every live node lies on the path to an entry once no call is running:   *)
(* of the live nodes at or below it a deepest one has no child, and so, not *)
(* being dead, it has an entry.                                            *)
LEMMA NodeUsed ==
  ASSUME IInv, pc = "idle", NEW r \in DOMAIN heap, r # Root
  PROVE  \E p \in Keys : \E h \in 0..Depth(p) : r = Path(p.ip, h)
<1>. DEFINE d == r.mask \div 4
            below == {s \in DOMAIN heap : s.mask \div 4 >= d /\ Path(s.ip, d) = r}
            rooms == {Strides - (s.mask \div 4) : s \in below}
<1>1. TypeOK /\ TreeInv /\ NoDeadNodes
  BY DEF IInv
<1>2. \A s \in DOMAIN heap :
        /\ s \in IpPrefix /\ NodeRef(s) /\ s.ip \in Address /\ s.mask \div 4 \in 0..Strides
        /\ s.mask = 4 * (s.mask \div 4) /\ s = Path(s.ip, s.mask \div 4)
        /\ heap[s] \in TbNode /\ heap[s].external \in Bitmap
        /\ \A b \in heap[s].internal : Slot(s, b)
        /\ heap[s].external # {} => s.mask < BITS
  BY <1>1, NodeFacts DEF IpPrefix
<1>3. d \in 0..Strides /\ r \in below
  BY <1>2
<1>4. rooms \in SUBSET Nat /\ rooms # {}
  BY <1>2, <1>3, BitsType
<1>5. PICK room \in rooms : \A x \in rooms : room <= x
  BY <1>4, LeastNatural
<1>6. PICK s \in below : room = Strides - (s.mask \div 4)
  BY <1>5
<1>. DEFINE e == s.mask \div 4
<1>7. /\ s \in DOMAIN heap /\ e \in 0..Strides /\ s.mask = 4 * e /\ s = Path(s.ip, e)
      /\ s \in IpPrefix /\ s.ip \in Address /\ e >= d /\ Path(s.ip, d) = r
  BY <1>2, <1>6
<1>8. \A x \in below : x.mask \div 4 <= e
  <2>1. \A x \in below : x.mask \div 4 \in 0..Strides /\ room <= Strides - (x.mask \div 4)
    BY <1>2, <1>5
  <2>. QED BY <1>6, <1>7, <2>1, BitsType
<1>. HIDE DEF d, below, rooms
<1>9. s # Root
  <2> SUFFICES ASSUME s = Root PROVE FALSE
    OBVIOUS
  <2>1. d = 0
    BY <1>3, <1>7 DEF Root
  <2>. QED BY <1>7, <2>1, PathRoot
<1>10. heap[s].external = {}
  <2> SUFFICES ASSUME NEW n \in heap[s].external PROVE FALSE
    OBVIOUS
  <2> DEFINE c == Child(s, n)
  <2>1. n \in Nibble /\ e \in 0..(Strides - 1) /\ c \in DOMAIN heap
    <3>1. n \in Nibble /\ s.mask < BITS /\ c \in DOMAIN heap
      BY <1>1, <1>2, <1>7 DEF TreeInv, WellLinked, Bitmap
    <3>. QED BY <1>7, <3>1, BitsType
  <2>2. c \in IpPrefix /\ c.mask = 4 * (e + 1) /\ Path(c.ip, e) = s
    BY <1>7, <2>1, ChildWinds
  <2> HIDE DEF c, e
  <2>3. c.ip \in Address /\ d \in 0..e /\ e \in 0..Strides
    BY <1>2, <1>3, <1>7, <2>1
  <2>4. Path(c.ip, d) = r
    BY <1>7, <2>2, <2>3, PathOfPath
  <2>5. c.mask \div 4 = e + 1
    BY <2>2, <2>3
  <2>6. c \in below
    BY <2>1, <2>3, <2>4, <2>5 DEF below
  <2>. QED BY <1>8, <2>3, <2>5, <2>6
<1>11. PICK b \in heap[s].internal : TRUE
  BY <1>1, <1>7, <1>9, <1>10 DEF NoDeadNodes
<1>. DEFINE p == Entry(s, b)
<1>12. p \in Keys /\ Home(p) = s
  BY <1>2, <1>7, EntryHome DEF Keys
<1>. HIDE DEF p
<1>13. Depth(p) \in 0..Strides /\ s.mask = 4 * Depth(p) /\ s = Path(p.ip, Depth(p)) /\ p.ip \in Address
  BY <1>1, <1>12, KeyHome
<1>14. Depth(p) = e
  <2> HIDE DEF e
  <2>. QED BY <1>7, <1>13
<1>. HIDE DEF e
<1>15. d \in 0..Depth(p) /\ r = Path(p.ip, d)
  <2>1. d \in 0..e
    BY <1>3, <1>7
  <2>. QED BY <1>7, <1>13, <1>14, <2>1, PathOfPath
<1>. QED
  BY <1>12, <1>15

(* The live nodes are the strides of the entries.                          *)
LEMMA RefsAre ==
  ASSUME IInv, pc = "idle"
  PROVE  Refs(Table) = DOMAIN heap
<1>1. TypeOK /\ TreeInv /\ DOMAIN Table = Keys /\ Root \in DOMAIN heap
  BY DEF IInv, Table, TreeInv, Anchored
<1>2. \A p \in Keys : \A h \in 0..Depth(p) : Path(p.ip, h) \in DOMAIN heap
  <2> SUFFICES ASSUME NEW p \in Keys, NEW h \in 0..Depth(p)
               PROVE  Path(p.ip, h) \in DOMAIN heap
    OBVIOUS
  <2>1. Depth(p) \in 0..Strides /\ Path(p.ip, Depth(p)) \in DOMAIN heap
    BY <1>1, KeyHome
  <2>2. h < Depth(p) => Path(p.ip, h) \in DOMAIN heap
    <3>1. h < Depth(p) => h \in 0..(Depth(p) - 1)
      BY <2>1
    <3>. QED BY <1>1, <3>1, KeyHome
  <2>. QED BY <2>1, <2>2
<1>3. \A x : x \in Refs(Table) <=> x = Root \/ \E p \in Keys : \E h \in 0..Depth(p) : x = Path(p.ip, h)
  BY <1>1 DEF Refs, Depth
<1>. QED
  BY <1>1, <1>2, <1>3, NodeUsed

(* The bits of a node are those of its entries and of the nodes below it.  *)
LEMMA InternalIs ==
  ASSUME IInv, NEW r \in DOMAIN heap
  PROVE  Internal(Table, r) = heap[r].internal
<1>1. TypeOK /\ TreeInv /\ DOMAIN Table = Keys
  BY DEF IInv, Table
<1>2. /\ r \in IpPrefix /\ r.mask \in Nat
      /\ heap[r].internal \subseteq 1..15 /\ \A b \in heap[r].internal : Slot(r, b)
  BY <1>1, NodeFacts, BitsType DEF IpPrefix, TbNode
<1>3. ASSUME NEW b \in 1..15
      PROVE  Entry(r, b) \in Keys <=> b \in heap[r].internal
  <2>1. CASE Slot(r, b)
    BY <1>1, <2>1, KeyOfSlot
  <2>2. CASE ~Slot(r, b)
    <3>1. r.mask = BITS /\ RelLen(b) \in 1..3
      BY <2>2, RelLenValues DEF Slot
    <3>2. Entry(r, b).mask = BITS + RelLen(b)
      BY <3>1 DEF Entry, Place
    <3>3. Entry(r, b) \notin IpPrefix
      BY <3>1, <3>2, BitsType DEF IpPrefix
    <3>. QED BY <1>1, <1>2, <2>2, <3>3, KeyFacts
  <2>. QED BY <2>1, <2>2
<1>. QED
  BY <1>1, <1>2, <1>3 DEF Internal

LEMMA ExternalIs ==
  ASSUME IInv, pc = "idle", NEW r \in DOMAIN heap
  PROVE  External(Table, r) = heap[r].external
<1>1. TypeOK /\ TreeInv /\ Refs(Table) = DOMAIN heap
  BY RefsAre DEF IInv
<1>2. r \in IpPrefix /\ heap[r].external \subseteq Nibble
  BY <1>1, NodeFacts DEF Bitmap
<1>. DEFINE h == r.mask \div 4
<1>3. h \in 0..Strides /\ r.mask = 4 * h /\ r = Path(r.ip, h)
  BY <1>1, NodeFacts
<1>. HIDE DEF h
<1>4. ASSUME NEW n \in Nibble, Child(r, n) \in DOMAIN heap
      PROVE  n \in heap[r].external
  <2> DEFINE c == Child(r, n)
  <2>1. h \in 0..(Strides - 1)
    <3>1. c.mask = r.mask + 4
      BY BitsType DEF Child, Place
    <3>2. c \in IpPrefix /\ c.mask <= BITS
      BY <1>1, <1>4, NodeFacts, BitsType DEF IpPrefix
    <3>. QED BY <1>3, <3>1, <3>2, BitsType
  <2>2. c \in IpPrefix /\ c.mask = 4 * (h + 1) /\ Path(c.ip, h) = r /\ nibble(c.ip, h) = n
    BY <1>2, <1>3, <2>1, ChildWinds
  <2> HIDE DEF c
  <2>3. c.mask \div STRIDE = h + 1 /\ h \in 0..(h + 1 - 1)
    BY <2>1, <2>2, BitsType
  <2>4. c \in DOMAIN heap
    BY <1>4 DEF c
  <2>5. nibble(c.ip, h) \in heap[Path(c.ip, h)].external
    BY <1>1, <2>3, <2>4 DEF TreeInv, Anchored
  <2>. QED BY <2>2, <2>5
<1>5. \A n \in heap[r].external : Child(r, n) \in DOMAIN heap
  BY <1>1 DEF TreeInv, WellLinked
<1>. QED
  BY <1>1, <1>2, <1>4, <1>5 DEF External

(* The bit of a slot is the one whose rank is the slot's index.            *)
LEMMA SlotsAre ==
  ASSUME NEW S \in Bitmap
  PROVE  /\ DOMAIN Slots(S) = 1..Cardinality(S)
         /\ \A i \in 1..Cardinality(S) : Slots(S)[i] \in S /\ rank(S, Slots(S)[i]) = i - 1
<1>1. Cardinality(S) \in Nat
  BY BitmapFinite
<1>2. ASSUME NEW i \in 1..Cardinality(S)
      PROVE  \E b \in S : rank(S, b) = i - 1
  <2>1. i - 1 \in Nat /\ i - 1 < Cardinality(S)
    BY <1>1
  <2>. QED BY <2>1, SlotBits
<1>. QED
  BY <1>2 DEF Slots

(* Between calls every node is the one its table's tree has there.         *)
LEMMA NodeIs ==
  ASSUME IInv, CompactValues, pc = "idle", NEW r \in DOMAIN heap
  PROVE  heap[r] = NodeOf(Table, r)
<1>. DEFINE n == heap[r]
            stored == Slots(n.internal)
            linked == Slots(n.external)
<1>1. TypeOK /\ TreeInv /\ DOMAIN Table = Keys /\ \A p \in Keys : Table[p] = ValueOf(p)
  BY DEF IInv, Table
<1>2. /\ r \in IpPrefix /\ NodeRef(r) /\ n \in TbNode /\ n.internal \in Bitmap /\ n.external \in Bitmap
      /\ \A b \in n.internal : Slot(r, b)
  BY <1>1, NodeFacts
<1>3. /\ Len(n.values) = Cardinality(n.internal) /\ Len(n.children) = Cardinality(n.external)
      /\ \A k \in n.external : At(n.children, rank(n.external, k)) = Child(r, k)
  BY <1>1 DEF CompactValues, TreeInv, WellLinked
<1>4. n.values \in Seq(Value) /\ n.children \in Seq(IpPrefix)
  BY <1>2 DEF TbNode
<1>. HIDE DEF n
<1>5. n.values = [i \in DOMAIN stored |-> Table[Entry(r, stored[i])]]
  <2>1. DOMAIN stored = 1..Len(n.values)
    BY <1>2, <1>3, SlotsAre
  <2>2. ASSUME NEW i \in 1..Len(n.values)
        PROVE  n.values[i] = Table[Entry(r, stored[i])]
    <3>1. stored[i] \in n.internal /\ rank(n.internal, stored[i]) = i - 1
      BY <1>2, <1>3, SlotsAre
    <3>2. Entry(r, stored[i]) \in Keys
      BY <3>1 DEF Keys, n
    <3>3. Table[Entry(r, stored[i])] = At(n.values, i - 1)
      BY <1>1, <1>2, <3>1, <3>2, EntryValue DEF n
    <3>. QED BY <1>4, <3>3 DEF At
  <2>3. n.values = [i \in 1..Len(n.values) |-> n.values[i]]
    BY <1>4
  <2> HIDE DEF stored
  <2>. QED BY <2>1, <2>2, <2>3
<1>6. n.children = [i \in DOMAIN linked |-> Child(r, linked[i])]
  <2>1. DOMAIN linked = 1..Len(n.children)
    BY <1>2, <1>3, SlotsAre
  <2>2. ASSUME NEW i \in 1..Len(n.children)
        PROVE  n.children[i] = Child(r, linked[i])
    <3>1. linked[i] \in n.external /\ rank(n.external, linked[i]) = i - 1
      BY <1>2, <1>3, SlotsAre
    <3>2. At(n.children, i - 1) = Child(r, linked[i])
      BY <1>3, <3>1
    <3>. QED BY <1>4, <3>2 DEF At
  <2>3. n.children = [i \in 1..Len(n.children) |-> n.children[i]]
    BY <1>4
  <2> HIDE DEF linked
  <2>. QED BY <2>1, <2>2, <2>3
<1>7. Internal(Table, r) = n.internal /\ External(Table, r) = n.external
  BY InternalIs, ExternalIs DEF n
<1>8. NodeOf(Table, r) = [internal |-> n.internal, external |-> n.external,
                          values |-> n.values, children |-> n.children]
  BY <1>5, <1>6, <1>7 DEF NodeOf
<1>9. n = [internal |-> n.internal, external |-> n.external,
           values |-> n.values, children |-> n.children]
  BY <1>2 DEF TbNode
<1>. QED
  BY <1>8, <1>9 DEF n

(* The heap is a map from references to nodes: TypeOK has the types of     *)
(* both, and this that there is nothing else to it.                        *)
HeapMap == heap = [r \in DOMAIN heap |-> heap[r]]

LEMMA HeapMapNext ==
  ASSUME HeapMap, [Next]_vars
  PROVE  HeapMap'
<1>1. CASE UNCHANGED heap
  BY <1>1 DEF HeapMap
<1>2. CASE InsertGrow
  BY <1>2 DEF InsertGrow, WithNode, HeapMap
<1>3. CASE InsertReplace
  BY <1>3 DEF InsertReplace, HeapMap
<1>4. CASE InsertNew
  BY <1>4 DEF InsertNew, WithNode, HeapMap
<1>5. CASE RemoveTarget
  BY <1>5 DEF RemoveTarget, HeapMap
<1>6. CASE RemoveUnwind
  BY <1>6 DEF RemoveUnwind, WithNode, HeapMap
<1>7. CASE Clear \/ ClearInterrupted
  BY <1>7 DEF Clear, ClearInterrupted, ClearRoot, HeapMap
<1>. QED
  BY <1>1, <1>2, <1>3, <1>4, <1>5, <1>6, <1>7
     DEF Next, Step, Call, Return, InsertFollow, MatchDescend, MatchBreak, MatchBottom,
         ProbeDescend, ProbeMiss, ProbeTarget, RemoveDescend, RemoveMiss, RemoveFinish,
         ReadCount, vars

(* A destructor that cannot panic leaves no slot without a bit.            *)
LEMMA NoSpareSlots ==
  ASSUME DropMayPanic = FALSE, IInv
  PROVE  CompactValues
<1> SUFFICES ASSUME NEW r \in DOMAIN heap
             PROVE  Len(heap[r].values) = Cardinality(heap[r].internal)
  BY DEF CompactValues
<1>1. heap[r].values \in Seq(Value) /\ heap[r].internal \in Bitmap
  BY NodeFacts DEF IInv, TbNode
<1>2. Len(heap[r].values) \in Nat /\ Cardinality(heap[r].internal) \in Nat
  BY <1>1, BitmapFinite
<1>3. /\ Len(heap[r].values) >= Cardinality(heap[r].internal)
      /\ ~(Len(heap[r].values) > Cardinality(heap[r].internal))
  BY DEF IInv, TreeInv, ValuesBacked
<1>. QED
  BY <1>2, <1>3

(* The whole tree is the tree of its table.                                *)
LEMMA TreeIs ==
  ASSUME IInv, HeapMap, CompactValues, pc = "idle"
  PROVE  heap = TreeOf(Table)
<1>1. Refs(Table) = DOMAIN heap /\ \A r \in DOMAIN heap : heap[r] = NodeOf(Table, r)
  BY RefsAre, NodeIs
<1>. QED
  BY <1>1 DEF HeapMap, TreeOf

(* Between calls the tree is a function of the table: two histories that   *)
(* leave the same entries leave the same nodes, with the same slots.  A    *)
(* value whose destructor panics in clear leaves slots behind, so that is  *)
(* excluded here.                                                          *)
THEOREM TreeShape ==
  ASSUME DropMayPanic = FALSE
  PROVE  Spec => []HistoryFree
<1>1. Init => IInv /\ HeapMap
  BY InitInv DEF Init, HeapMap
<1>2. IInv /\ HeapMap /\ [Next]_vars => IInv' /\ HeapMap'
  BY NextInv, HeapMapNext
<1>3. IInv /\ HeapMap => HistoryFree
  BY NoSpareSlots, TreeIs DEF HistoryFree
<1>. QED
  BY <1>1, <1>2, <1>3, PTL DEF Spec
=============================================================================
