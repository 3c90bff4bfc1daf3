----------------------- MODULE TreeBitmapCollectProofs -----------------------
(***************************************************************************)
(* Collecting the entries of a table gives the same table.                 *)
(***************************************************************************)
EXTENDS TreeBitmapCollect, TreeBitmapIterProofs

(* The table being built, as a tree bitmap whose client may pass any       *)
(* prefix: what is known of every tree bitmap is known of it.              *)
NewP == INSTANCE TreeBitmapRefinement WITH
  heap <- newHeap, count <- newCount, pc <- newPc, req <- newReq, reply <- newReply,
  node <- newNode, hop <- newHop, best <- newBest, stack <- newStack, prune <- newPrune,
  Nets <- IpPrefix

(* Both tables speak of addresses and prefixes in the same words.          *)
LEMMA SamePrefixes ==
  /\ NewP!STRIDE = STRIDE /\ NewP!BITS = BITS
  /\ NewP!Address = Address /\ NewP!IpPrefix = IpPrefix
  /\ NewP!Root = Root /\ NewP!EmptyNode = EmptyNode /\ NewP!NoRequest = NoRequest
  /\ \A p : NewP!masked(p) = masked(p)
  /\ \A S : NewP!Cardinality(S) = Cardinality(S)
<1>1. NewP!STRIDE = STRIDE /\ NewP!BITS = BITS
  BY DEF NewP!STRIDE, STRIDE, NewP!BITS, BITS
<1>2. NewP!Address = Address
  BY <1>1 DEF NewP!Address, Address
<1>3. NewP!IpPrefix = IpPrefix
  BY <1>1, <1>2 DEF NewP!IpPrefix, IpPrefix
<1>4. NewP!Root = Root /\ NewP!EmptyNode = EmptyNode /\ NewP!NoRequest = NoRequest
  BY <1>1 DEF NewP!Root, Root, NewP!EmptyNode, EmptyNode, NewP!NoRequest, NoRequest
<1>5. \A p : NewP!masked(p) = masked(p)
  BY <1>1 DEF NewP!masked, masked
<1>6. \A S : NewP!Cardinality(S) = Cardinality(S)
  BY DEF NewP!Cardinality, Cardinality
<1>. QED
  BY <1>1, <1>2, <1>3, <1>4, <1>5, <1>6

(* What is assumed of the constants of a tree bitmap holds of those of the *)
(* new one.                                                                *)
LEMMA NewAssumptions ==
  /\ Strides \in Nat \ {0}
  /\ None \notin Value
  /\ None \notin [prefix : NewP!IpPrefix, value : Value] \cup [value : Value, len : 0..NewP!BITS]
  /\ IpPrefix \subseteq NewP!IpPrefix
  /\ Addrs \subseteq NewP!Address
  /\ DropMayPanic \in BOOLEAN
BY SamePrefixes, StridesAssumption, NoneAssumption, SomeAssumption, AddrsAssumption, DropAssumption

LEMMA NewInitInv ==
  ASSUME NewP!Init
  PROVE  NewP!IInv /\ NewP!HeapMap
<1>1. NewP!IInv
  BY NewP!InitInv, NewAssumptions
<1>2. NewP!HeapMap
  BY DEF NewP!Init, NewP!HeapMap
<1>. QED
  BY <1>1, <1>2

LEMMA NewNextInv ==
  ASSUME NewP!IInv, NewP!HeapMap, [NewP!Next]_NewP!vars
  PROVE  NewP!IInv' /\ NewP!HeapMap'
<1>1. NewP!IInv'
  BY NewP!NextInv, NewAssumptions
<1>2. NewP!HeapMap'
  BY NewP!HeapMapNext, NewAssumptions
<1>. QED
  BY <1>1, <1>2
(* The actions of both views of the new table are the same.                *)
LEMMA SameOperands ==
  /\ New!masked(newReq.prefix) = NewP!masked(newReq.prefix)
  /\ New!addr = NewP!addr /\ New!fullHops = NewP!fullHops /\ New!relLen = NewP!relLen
  /\ New!here = NewP!here /\ New!nib = NewP!nib /\ New!bpos = NewP!bpos
  /\ New!valueIdx = NewP!valueIdx /\ New!childIdx = NewP!childIdx
<1>1. New!STRIDE = NewP!STRIDE /\ New!BITS = NewP!BITS
  BY DEF New!STRIDE, NewP!STRIDE, New!BITS, NewP!BITS
<1>2. \A p : New!masked(p) = NewP!masked(p)
  BY <1>1 DEF New!masked, NewP!masked
<1>3. New!key = NewP!key
  BY <1>2 DEF New!key, NewP!key
<1>4. New!addr = NewP!addr
  BY <1>3 DEF New!addr, NewP!addr, New!LookupOps, NewP!LookupOps
<1>5. New!fullHops = NewP!fullHops /\ New!relLen = NewP!relLen
  BY <1>1, <1>3 DEF New!fullHops, NewP!fullHops, New!relLen, NewP!relLen
<1>6. New!here = NewP!here
  BY DEF New!here, NewP!here
<1>7. \A a, h : New!nibble(a, h) = NewP!nibble(a, h)
  BY <1>1 DEF New!nibble, NewP!nibble
<1>8. New!nib = NewP!nib
  BY <1>4, <1>7 DEF New!nib, NewP!nib
<1>9. \A v, l : New!Position(v, l) = NewP!Position(v, l)
  BY <1>1 DEF New!Position, NewP!Position, New!Shl, NewP!Shl
<1>10. New!bpos = NewP!bpos
  BY <1>5, <1>8, <1>9 DEF New!bpos, NewP!bpos
<1>11. \A S, b : New!rank(S, b) = NewP!rank(S, b)
  BY DEF New!rank, NewP!rank, New!Cardinality, NewP!Cardinality
<1>12. New!valueIdx = NewP!valueIdx /\ New!childIdx = NewP!childIdx
  BY <1>6, <1>8, <1>10, <1>11 DEF New!valueIdx, NewP!valueIdx, New!childIdx, NewP!childIdx
<1>. QED
  BY <1>2, <1>4, <1>5, <1>6, <1>8, <1>10, <1>12

LEMMA SameVecs ==
  /\ \A vec, i, x : New!VecInsert(vec, i, x) = NewP!VecInsert(vec, i, x)
  /\ \A vec, i : New!At(vec, i) = NewP!At(vec, i)
  /\ \A r, n : New!Child(r, n) = NewP!Child(r, n)
  /\ \A h, r, n : New!WithNode(h, r, n) = NewP!WithNode(h, r, n)
  /\ New!EmptyNode = NewP!EmptyNode /\ New!Root = NewP!Root /\ New!NoRequest = NewP!NoRequest
  /\ New!Done = NewP!Done /\ New!Unit = NewP!Unit
<1>1. New!STRIDE = NewP!STRIDE /\ New!BITS = NewP!BITS
  BY DEF New!STRIDE, NewP!STRIDE, New!BITS, NewP!BITS
<1>2. \A vec, i, x : New!VecInsert(vec, i, x) = NewP!VecInsert(vec, i, x)
  BY DEF New!VecInsert, NewP!VecInsert, New!InsertAt, NewP!InsertAt
<1>3. \A vec, i : New!At(vec, i) = NewP!At(vec, i)
  BY DEF New!At, NewP!At
<1>4. \A r, n, v : New!Place(r, n, v) = NewP!Place(r, n, v)
  BY <1>1 DEF New!Place, NewP!Place, New!Shl, NewP!Shl
<1>5. \A r, n : New!Child(r, n) = NewP!Child(r, n)
  BY <1>1, <1>4 DEF New!Child, NewP!Child
<1>6. \A h, r, n : New!WithNode(h, r, n) = NewP!WithNode(h, r, n)
  BY DEF New!WithNode, NewP!WithNode
<1>7. New!EmptyNode = NewP!EmptyNode /\ New!Root = NewP!Root /\ New!NoRequest = NewP!NoRequest
  BY <1>1 DEF New!EmptyNode, NewP!EmptyNode, New!Root, NewP!Root, New!NoRequest, NewP!NoRequest
<1>8. New!Done = NewP!Done /\ New!Unit = NewP!Unit
  BY DEF New!Done, NewP!Done, New!Unit, NewP!Unit, New!Panic, NewP!Panic
<1>. QED
  BY <1>2, <1>3, <1>5, <1>6, <1>7, <1>8

LEMMA SameInit == New!Init <=> NewP!Init
BY SameVecs DEF New!Init, NewP!Init

LEMMA SameFollow == New!InsertFollow <=> NewP!InsertFollow
BY SameOperands, SameVecs DEF New!InsertFollow, NewP!InsertFollow, New!Descend, NewP!Descend

LEMMA SameGrow == New!InsertGrow <=> NewP!InsertGrow
BY SameOperands, SameVecs DEF New!InsertGrow, NewP!InsertGrow

LEMMA SameReplace == New!InsertReplace <=> NewP!InsertReplace
BY SameOperands, SameVecs
   DEF New!InsertReplace, NewP!InsertReplace, New!Finish, NewP!Finish, New!locals, NewP!locals

LEMMA SameNew == New!InsertNew <=> NewP!InsertNew
BY SameOperands, SameVecs
   DEF New!InsertNew, NewP!InsertNew, New!Finish, NewP!Finish, New!locals, NewP!locals

LEMMA SameReturn == New!Return <=> NewP!Return
BY SameVecs DEF New!Return, NewP!Return

(* All that runs while from_iter waits for an insert is that insert.       *)
LEMMA NewStepIs ==
  ASSUME New!Step, newPc \in {"insert", "return"}
  PROVE  /\ newPc = "insert" => \/ NewP!InsertFollow \/ NewP!InsertGrow
                                \/ NewP!InsertReplace \/ NewP!InsertNew
         /\ newPc = "return" => NewP!Return
<1>1. \/ New!InsertFollow \/ New!InsertGrow \/ New!InsertReplace \/ New!InsertNew
      \/ New!Return
  BY DEF New!Step, New!MatchDescend, New!MatchBreak, New!MatchBottom, New!LookupOps,
         New!ProbeDescend, New!ProbeMiss, New!ProbeTarget, New!Probing,
         New!RemoveDescend, New!RemoveMiss, New!RemoveTarget, New!RemoveUnwind, New!RemoveFinish,
         New!ReadCount, New!Clear, New!ClearInterrupted
<1>2. newPc = "insert" => ~New!Return
  BY DEF New!Return
<1>3. newPc = "return" => ~(New!InsertFollow \/ New!InsertGrow \/ New!InsertReplace \/ New!InsertNew)
  BY DEF New!InsertFollow, New!InsertGrow, New!InsertReplace, New!InsertNew
<1>. QED
  BY <1>1, <1>2, <1>3, SameFollow, SameGrow, SameReplace, SameNew, SameReturn
(* The tree of a table is the same in both.                                *)
LEMMA SameTrees == \A t : NewP!TreeOf(t) = TreeOf(t)
<1>1. NewP!STRIDE = STRIDE /\ NewP!BITS = BITS /\ NewP!Root = Root
      /\ \A p : NewP!masked(p) = masked(p)
      /\ \A S : NewP!Cardinality(S) = Cardinality(S)
  BY SamePrefixes
<1>2. \A a, h : NewP!Path(a, h) = Path(a, h)
  BY <1>1 DEF NewP!Path, Path
<1>3. \A t : NewP!Refs(t) = Refs(t)
  BY <1>1, <1>2 DEF NewP!Refs, Refs
<1>4. \A r, n, v : NewP!Place(r, n, v) = Place(r, n, v)
  BY <1>1 DEF NewP!Place, Place, NewP!Shl, Shl
<1>5. \A r, n : NewP!Child(r, n) = Child(r, n)
  BY <1>1, <1>4 DEF NewP!Child, Child
<1>6. \A r, b : NewP!Entry(r, b) = Entry(r, b)
  BY <1>4 DEF NewP!Entry, Entry, NewP!RelLen, RelLen, NewP!Shl, Shl
<1>7. \A t, r : NewP!Internal(t, r) = Internal(t, r)
  BY <1>6 DEF NewP!Internal, Internal
<1>8. \A t, r : NewP!External(t, r) = External(t, r)
  BY <1>3, <1>5 DEF NewP!External, External, NewP!Nibble, Nibble
<1>9. \A S, b : NewP!rank(S, b) = rank(S, b)
  BY <1>1 DEF NewP!rank, rank
<1>10. \A S : NewP!Slots(S) = Slots(S)
  BY <1>1, <1>9 DEF NewP!Slots, Slots
<1>11. \A t, r : NewP!NodeOf(t, r) = NodeOf(t, r)
  BY <1>5, <1>6, <1>7, <1>8, <1>10 DEF NewP!NodeOf, NodeOf
<1>. QED
  BY <1>3, <1>11 DEF NewP!TreeOf, TreeOf
------------------------------------------------------------------------------
(* The entry that was drawn from the iterator and is not in the new table  *)
(* yet.                                                                    *)
InFlight ==
  IF (stage = "put" /\ item # None) \/ (stage = "insert" /\ newPc = "insert")
  THEN {item.prefix}
  ELSE {}

(* Where both tables stand at each point of from_iter.                     *)
Stages ==
  /\ stage \in {"use", "pull", "next", "put", "insert", "done"}
  /\ stage # "use" => pc = "idle"
  /\ stage \in {"pull", "put", "insert"} => cursor = "ready"
  /\ stage = "next" => cursor = "asked"
  /\ stage = "done" => cursor = "none"
  /\ IF stage = "insert"
     THEN /\ newPc \in {"insert", "return"}
          /\ item # None
          /\ newReq = [op |-> "insert", prefix |-> item.prefix, value |-> item.value]
     ELSE newPc = "idle"

(* The new table has the entries the iterator has returned, but for the    *)
(* one in flight, with the values they have in the original.               *)
Copied ==
  /\ stage = "use" => newHeap = [r \in {Root} |-> EmptyNode]
  /\ stage \notin {"use", "done"} =>
       /\ Range(seen) \subseteq Keys
       /\ NewP!Table = [p \in Range(seen) \ InFlight |-> ValueOf(p)]
       /\ \A p \in InFlight : p \in Range(seen) /\ item.value = ValueOf(p)
       /\ stage = "put" /\ item = None => Keys \subseteq Range(seen)
  /\ stage = "done" => NewP!Table = Table

CollectInv ==
  /\ IterInv /\ HeapMap
  /\ NewP!IInv /\ NewP!HeapMap
  /\ Stages /\ Copied

(* A step on one table leaves the other alone.                             *)
LEMMA NewKept ==
  ASSUME NewP!IInv, NewP!HeapMap, UNCHANGED new
  PROVE  /\ NewP!IInv' /\ NewP!HeapMap' /\ NewP!Table' = NewP!Table
         /\ newHeap' = newHeap /\ newPc' = newPc /\ newReq' = newReq
<1>1. UNCHANGED NewP!vars /\ UNCHANGED <<newHeap, newPc, newReq>>
  BY DEF new, newLocals, NewP!vars, NewP!locals
<1>2. NewP!Table' = NewP!Table
  BY <1>1, NewP!TableOfHeap, NewAssumptions
<1>. QED
  BY <1>1, <1>2, NewNextInv

LEMMA OriginalKept ==
  ASSUME IterInv, HeapMap, UNCHANGED vars, [IterNext]_<<vars, iterVars>>
  PROVE  /\ IterInv' /\ HeapMap' /\ Keys' = Keys /\ Table' = Table /\ pc' = pc
         /\ \A p : ValueOf(p)' = ValueOf(p)
<1>1. heap' = heap /\ pc' = pc /\ Keys' = Keys /\ Table' = Table
  BY MapKept
<1>2. \A p : ValueOf(p)' = ValueOf(p)
  BY <1>1 DEF ValueOf
<1>3. HeapMap'
  BY <1>1 DEF HeapMap
<1>. QED
  BY <1>1, <1>2, <1>3, IterNextInv

LEMMA UseInv ==
  ASSUME CollectInv, Use
  PROVE  CollectInv'
<1>1. /\ IterInv /\ HeapMap /\ NewP!IInv /\ NewP!HeapMap /\ Stages /\ Copied
      /\ stage = "use" /\ stage' = "use" /\ IterNext /\ UNCHANGED new
  BY DEF CollectInv, Use
<1>2. IterInv'
  BY <1>1, IterNextInv
<1>3. [Next]_vars
  BY <1>1 DEF IterNext, TableStep, Open, Ask, IterStep, Yield, EnterChild, LeaveNode, End, Close
<1>4. HeapMap'
  BY <1>1, <1>3, HeapMapNext
<1>5. NewP!IInv' /\ NewP!HeapMap' /\ newHeap' = newHeap /\ newPc' = newPc
  BY <1>1, NewKept
<1>6. Stages'
  BY <1>1, <1>5 DEF Stages
<1>7. Copied'
  BY <1>1, <1>5 DEF Copied
<1>. QED
  BY <1>2, <1>4, <1>5, <1>6, <1>7 DEF CollectInv

(* An empty tree has no entries.                                           *)
LEMMA NewEmpty ==
  ASSUME newHeap = [r \in {Root} |-> EmptyNode]
  PROVE  \A f : NewP!Table = [p \in {} |-> f]
<1>1. NewP!Keys = {}
  BY DEF NewP!Keys, EmptyNode
<1>. QED
  BY <1>1 DEF NewP!Table

LEMMA BeginInv ==
  ASSUME CollectInv, Begin
  PROVE  CollectInv'
<1>1. /\ IterInv /\ HeapMap /\ NewP!IInv /\ NewP!HeapMap /\ Stages /\ Copied
      /\ stage = "use" /\ stage' = "pull" /\ pc = "idle" /\ Open /\ UNCHANGED new
  BY DEF CollectInv, Begin
<1>2. UNCHANGED vars /\ cursor' = "ready" /\ seen' = <<>> /\ item' = None
  BY <1>1 DEF Open
<1>3. IterInv' /\ HeapMap' /\ pc' = "idle"
  BY <1>1, <1>2, OriginalKept DEF IterNext
<1>4. NewP!IInv' /\ NewP!HeapMap' /\ NewP!Table' = NewP!Table /\ newPc' = newPc
  BY <1>1, NewKept
<1>5. Stages'
  BY <1>1, <1>2, <1>3, <1>4 DEF Stages
<1>6. Copied'
  <2>1. Range(seen)' = {} /\ InFlight' = {}
    BY <1>1, <1>2 DEF InFlight, Range
  <2>2. NewP!Table = [p \in {} |-> None]
    BY <1>1, NewEmpty DEF Copied
  <2>3. NewP!Table' = [p \in Range(seen) \ InFlight |-> ValueOf(p)]'
    BY <1>4, <2>1, <2>2
  <2>. QED BY <1>1, <2>1, <2>3 DEF Copied
<1>. QED
  BY <1>3, <1>4, <1>5, <1>6 DEF CollectInv

LEMMA PullInv ==
  ASSUME CollectInv, Pull
  PROVE  CollectInv'
<1>1. /\ IterInv /\ HeapMap /\ NewP!IInv /\ NewP!HeapMap /\ Stages /\ Copied
      /\ stage = "pull" /\ stage' = "next" /\ Ask /\ UNCHANGED new
  BY DEF CollectInv, Pull
<1>2. UNCHANGED <<vars, item, seen>> /\ cursor' = "asked"
  BY <1>1 DEF Ask
<1>3. /\ IterInv' /\ HeapMap' /\ pc' = pc /\ Keys' = Keys /\ \A p : ValueOf(p)' = ValueOf(p)
  BY <1>1, <1>2, OriginalKept DEF IterNext
<1>4. NewP!IInv' /\ NewP!HeapMap' /\ NewP!Table' = NewP!Table /\ newPc' = newPc
  BY <1>1, NewKept
<1>5. Stages'
  BY <1>1, <1>2, <1>3, <1>4 DEF Stages
<1>6. Copied'
  <2>1. Range(seen)' = Range(seen) /\ InFlight' = {} /\ InFlight = {}
    BY <1>1, <1>2 DEF InFlight, Range
  <2>2. NewP!Table = [p \in Range(seen) |-> ValueOf(p)] /\ Range(seen) \subseteq Keys
    BY <1>1, <2>1 DEF Copied
  <2>3. NewP!Table' = [p \in Range(seen) \ InFlight |-> ValueOf(p)]'
    BY <1>3, <1>4, <2>1, <2>2
  <2>. QED BY <1>1, <1>3, <2>1, <2>2, <2>3 DEF Copied
<1>. QED
  BY <1>3, <1>4, <1>5, <1>6 DEF CollectInv

(* The iterator returns an entry that was not drawn before: it is in       *)
(* flight.                                                                 *)
LEMMA AdvanceYield ==
  ASSUME CollectInv, Advance, Yield
  PROVE  CollectInv'
<1>. DEFINE b == NextBit(internalLeft)
            p == IterPrefix(top, b)
<1>1. /\ IterInv /\ HeapMap /\ NewP!IInv /\ NewP!HeapMap /\ Stages /\ Copied
      /\ stage = "next" /\ UNCHANGED new
  BY DEF CollectInv, Advance
<1>2. /\ UNCHANGED vars /\ cursor = "asked" /\ cursor' = "ready" /\ frames # <<>>
      /\ internalLeft # {} /\ seen' = Append(seen, p)
      /\ item' = [prefix |-> p, value |-> At(tree.values, rank(tree.internal, b))]
      /\ stage' = "put"
  BY DEF Yield, Advance
<1>3. /\ TypeOK /\ TreeInv /\ frames \in Seq(CursorFrame) /\ FramesOnPath /\ Winding /\ LeftAhead
      /\ seen \in Seq(IpPrefix)
  BY <1>1 DEF IterInv, IInv, IterTyped
<1>4. /\ p \in Keys /\ p \notin Range(seen)
      /\ At(tree.values, rank(tree.internal, b)) = ValueOf(p)
  BY <1>2, <1>3, YieldFacts
<1>5. p \in IpPrefix
  BY <1>3, <1>4, KeyFacts
<1>. HIDE DEF p, b
<1>6. /\ IterInv' /\ HeapMap' /\ pc' = pc /\ Keys' = Keys /\ \A q : ValueOf(q)' = ValueOf(q)
  BY <1>1, <1>2, OriginalKept DEF IterNext, IterStep, Advance
<1>7. NewP!IInv' /\ NewP!HeapMap' /\ NewP!Table' = NewP!Table /\ newPc' = newPc
  BY <1>1, NewKept
<1>8. item' # None /\ item'.prefix = p /\ item'.value = ValueOf(p)
  <2>1. item'.prefix = p /\ item'.value = ValueOf(p)
    BY <1>2, <1>4
  <2>2. item' \in Item \cup {None} /\ IterTyped'
    BY <1>6 DEF IterInv, IterTyped
  <2>3. ValueOf(p) \in Value
    BY <1>2, <1>3, YieldFacts DEF p, b
  <2>4. item' \in [prefix : IpPrefix, value : Value]
    BY <1>2, <1>4, <1>5, <2>3
  <2>. QED BY <2>1, <2>4, SomeAssumption
<1>9. Stages'
  BY <1>1, <1>2, <1>6, <1>7 DEF Stages
<1>10. Copied'
  <2>1. InFlight = {} /\ InFlight' = {p}
    BY <1>1, <1>2, <1>8 DEF InFlight
  <2>2. Range(seen)' = Range(seen) \cup {p}
    BY <1>2, <1>3, <1>5, AppendRange
  <2>3. NewP!Table = [q \in Range(seen) |-> ValueOf(q)] /\ Range(seen) \subseteq Keys
    BY <1>1, <2>1 DEF Copied
  <2>4. Range(seen)' \ InFlight' = Range(seen)
    BY <1>4, <2>1, <2>2
  <2>5. NewP!Table' = [q \in Range(seen) \ InFlight |-> ValueOf(q)]'
    BY <1>6, <1>7, <2>3, <2>4
  <2>6. Range(seen)' \subseteq Keys'
    BY <1>4, <1>6, <2>2, <2>3
  <2>7. \A q \in InFlight' : q \in Range(seen)' /\ item'.value = ValueOf(q)'
    BY <1>6, <1>8, <2>1, <2>2
  <2>. QED BY <1>2, <1>8, <2>5, <2>6, <2>7 DEF Copied
<1>. QED
  BY <1>6, <1>7, <1>9, <1>10 DEF CollectInv

(* Moving through the tree shows nothing, and the iterator ends only when  *)
(* it has returned every entry.                                            *)
LEMMA AdvanceMove ==
  ASSUME CollectInv, Advance, EnterChild \/ LeaveNode \/ End
  PROVE  CollectInv'
<1>1. /\ IterInv /\ HeapMap /\ NewP!IInv /\ NewP!HeapMap /\ Stages /\ Copied
      /\ stage = "next" /\ UNCHANGED new
  BY DEF CollectInv, Advance
<1>2. /\ UNCHANGED <<vars, seen>> /\ cursor = "asked"
      /\ \/ cursor' = "asked" /\ stage' = "next"
         \/ cursor' = "ready" /\ stage' = "put" /\ frames = <<>> /\ item' = None
  BY DEF EnterChild, LeaveNode, End, Advance
<1>3. /\ IterInv' /\ HeapMap' /\ pc' = pc /\ Keys' = Keys /\ \A q : ValueOf(q)' = ValueOf(q)
  BY <1>1, <1>2, OriginalKept DEF IterNext, IterStep
<1>4. NewP!IInv' /\ NewP!HeapMap' /\ NewP!Table' = NewP!Table /\ newPc' = newPc
  BY <1>1, NewKept
<1>5. Stages'
  BY <1>1, <1>2, <1>3, <1>4 DEF Stages
<1>6. Copied'
  <2>1. Range(seen)' = Range(seen) /\ InFlight' = {} /\ InFlight = {}
    BY <1>1, <1>2 DEF InFlight, Range
  <2>2. NewP!Table = [q \in Range(seen) |-> ValueOf(q)] /\ Range(seen) \subseteq Keys
    BY <1>1, <2>1 DEF Copied
  <2>3. NewP!Table' = [q \in Range(seen) \ InFlight |-> ValueOf(q)]'
    BY <1>3, <1>4, <2>1, <2>2
  <2>4. stage' = "put" => Keys' \subseteq Range(seen)'
    <3>1. frames = <<>> => \A q \in Keys : q \in Range(seen)
      BY <1>1, <1>2 DEF IterInv, LeftAhead
    <3>. QED BY <1>2, <1>3, <2>1, <3>1
  <2>. QED BY <1>2, <1>3, <2>1, <2>2, <2>3, <2>4 DEF Copied
<1>. QED
  BY <1>3, <1>4, <1>5, <1>6 DEF CollectInv

LEMMA AdvanceInv ==
  ASSUME CollectInv, Advance
  PROVE  CollectInv'
BY AdvanceYield, AdvanceMove DEF Advance, IterStep

(* The item is a prefix with a value: a request the new table accepts.     *)
LEMMA PutInv ==
  ASSUME CollectInv, Put
  PROVE  CollectInv'
<1>1. /\ IterInv /\ HeapMap /\ NewP!IInv /\ NewP!HeapMap /\ Stages /\ Copied
      /\ stage = "put" /\ stage' = "insert" /\ item # None
      /\ newReq' = [op |-> "insert", prefix |-> item.prefix, value |-> item.value]
      /\ newPc' = "insert"
      /\ UNCHANGED <<vars, iterVars, newHeap, newCount, newReply, newLocals>>
  BY DEF CollectInv, Put
<1>2. item \in [prefix : IpPrefix, value : Value]
  BY <1>1 DEF IterInv, IterTyped, Item
<1>3. UNCHANGED <<item, seen, cursor>>
  BY <1>1 DEF iterVars
<1>4. /\ IterInv' /\ HeapMap' /\ pc' = pc /\ Keys' = Keys /\ \A q : ValueOf(q)' = ValueOf(q)
  BY <1>1, OriginalKept
<1>5. newPc = "idle"
  BY <1>1 DEF Stages
<1>6. newReq' \in NewP!Request
  <2>1. newReq' \in [op : {"insert"}, prefix : IpPrefix, value : Value]
    BY <1>1, <1>2
  <2>. QED BY <2>1 DEF NewP!Request
<1>7. NewP!Call
  BY <1>1, <1>5, <1>6 DEF NewP!Call, newLocals, NewP!locals
<1>8. NewP!IInv' /\ NewP!HeapMap'
  BY <1>1, <1>7, NewNextInv DEF NewP!Next
<1>9. NewP!Table' = NewP!Table
  BY <1>1, NewP!TableOfHeap, NewAssumptions
<1>10. Stages'
  BY <1>1, <1>3, <1>4 DEF Stages
<1>11. Copied'
  <2>1. Range(seen)' = Range(seen) /\ InFlight' = InFlight
    BY <1>1, <1>3 DEF InFlight, Range
  <2>2. /\ Range(seen) \subseteq Keys
        /\ NewP!Table = [q \in Range(seen) \ InFlight |-> ValueOf(q)]
        /\ \A q \in InFlight : q \in Range(seen) /\ item.value = ValueOf(q)
    BY <1>1 DEF Copied
  <2>3. NewP!Table' = [q \in Range(seen) \ InFlight |-> ValueOf(q)]'
    BY <1>4, <1>9, <2>1, <2>2
  <2>. QED BY <1>1, <1>3, <1>4, <2>1, <2>2, <2>3 DEF Copied
<1>. QED
  BY <1>4, <1>8, <1>10, <1>11 DEF CollectInv

(* The prefixes an iterator returns are canonical: insert keeps them.      *)
LEMMA KeyMasked ==
  ASSUME TypeOK, TreeInv, NEW q \in Keys
  PROVE  masked(q) = q
<1>1. q \in IpPrefix /\ \A i \in 1..BITS : i > q.mask => q.ip[i] = 0
  BY KeyFacts
<1>2. /\ masked(q) \in IpPrefix /\ masked(q).mask = q.mask
      /\ \A i \in 1..BITS : masked(q).ip[i] = IF i <= q.mask THEN q.ip[i] ELSE 0
  BY <1>1, MaskedType
<1>3. \A i \in 1..BITS : masked(q).ip[i] = q.ip[i]
  BY <1>1, <1>2, BitsType DEF IpPrefix
<1>. QED
  BY <1>1, <1>2, <1>3, PrefixEqual

(* The insert runs, and when it answers the entry has arrived.             *)
LEMMA InsertRuns ==
  ASSUME CollectInv, Insert, newPc = "insert"
  PROVE  CollectInv'
<1>1. /\ IterInv /\ HeapMap /\ NewP!IInv /\ NewP!HeapMap /\ Stages /\ Copied
      /\ stage = "insert" /\ New!Step /\ UNCHANGED <<vars, iterVars>>
      /\ stage' = IF newPc' = "idle" THEN "pull" ELSE "insert"
  BY DEF CollectInv, Insert
<1>2. /\ item # None /\ cursor = "ready"
      /\ newReq = [op |-> "insert", prefix |-> item.prefix, value |-> item.value]
  BY <1>1 DEF Stages
<1>3. \/ NewP!InsertFollow \/ NewP!InsertGrow \/ NewP!InsertReplace \/ NewP!InsertNew
  BY <1>1, NewStepIs
<1>4. newReq' = newReq
  BY <1>3 DEF NewP!InsertFollow, NewP!InsertGrow, NewP!InsertReplace, NewP!InsertNew
<1>5. NewP!IInv' /\ NewP!HeapMap'
  BY <1>1, <1>3, NewNextInv DEF NewP!Next, NewP!Step
<1>6. /\ IterInv' /\ HeapMap' /\ pc' = pc /\ Keys' = Keys /\ \A q : ValueOf(q)' = ValueOf(q)
      /\ UNCHANGED <<item, seen, cursor>>
  BY <1>1, OriginalKept DEF iterVars
<1>. DEFINE p == item.prefix
<1>7. /\ InFlight = {p} /\ p \in Range(seen) /\ Range(seen) \subseteq Keys
      /\ NewP!Table = [q \in Range(seen) \ {p} |-> ValueOf(q)]
      /\ item.value = ValueOf(p)
  <2>1. InFlight = {p}
    BY <1>1 DEF InFlight
  <2>. QED BY <1>1, <2>1 DEF Copied
<1>8. NewP!key = p
  <2>1. NewP!key = masked(p)
    BY <1>2, SamePrefixes DEF NewP!key
  <2>2. TypeOK /\ TreeInv
    BY <1>1 DEF IterInv, IInv
  <2>. QED BY <1>7, <2>1, <2>2, KeyMasked
<1>9. newReq.value = ValueOf(p)
  BY <1>2, <1>7
<1>. HIDE DEF p
<1>10. \/ newPc' = "insert" /\ NewP!Table' = NewP!Table
       \/ /\ newPc' = "return"
          /\ NewP!Table' = [q \in NewP!Keys \cup {p} |->
                              IF q = p THEN newReq.value ELSE NewP!Table[q]]
  BY <1>1, <1>3, <1>8, NewP!InsertEffect, NewAssumptions
<1>11. stage' = "insert"
  BY <1>1, <1>10
<1>12. Stages'
  BY <1>1, <1>2, <1>4, <1>6, <1>10, <1>11 DEF Stages
<1>13. Range(seen)' = Range(seen)
  BY <1>6
<1>14. Copied'
  <2>1. CASE newPc' = "insert" /\ NewP!Table' = NewP!Table
    <3>1. InFlight' = {p}
      BY <1>6, <1>11, <2>1 DEF InFlight, p
    <3>2. NewP!Table' = [q \in Range(seen) \ InFlight |-> ValueOf(q)]'
      BY <1>6, <1>7, <1>13, <2>1, <3>1
    <3>3. \A q \in InFlight' : q \in Range(seen)' /\ item'.value = ValueOf(q)'
      BY <1>6, <1>7, <1>13, <3>1
    <3>. QED BY <1>6, <1>7, <1>11, <1>13, <3>2, <3>3 DEF Copied
  <2>2. CASE /\ newPc' = "return"
             /\ NewP!Table' = [q \in NewP!Keys \cup {p} |->
                                 IF q = p THEN newReq.value ELSE NewP!Table[q]]
    <3>1. InFlight' = {}
      BY <1>11, <2>2 DEF InFlight
    <3>2. NewP!Keys = Range(seen) \ {p}
      <4>1. DOMAIN NewP!Table = NewP!Keys
        BY DEF NewP!Table
      <4>. QED BY <1>7, <4>1
    <3>3. NewP!Keys \cup {p} = Range(seen)
      BY <1>7, <3>2
    <3>4. \A q \in Range(seen) : (IF q = p THEN newReq.value ELSE NewP!Table[q]) = ValueOf(q)
      BY <1>7, <1>9
    <3>5. NewP!Table' = [q \in Range(seen) |-> ValueOf(q)]
      BY <2>2, <3>3, <3>4
    <3>6. NewP!Table' = [q \in Range(seen) \ InFlight |-> ValueOf(q)]'
      BY <1>6, <1>13, <3>1, <3>5
    <3>. QED BY <1>6, <1>7, <1>11, <1>13, <3>1, <3>6 DEF Copied
  <2>. QED BY <1>10, <2>1, <2>2
<1>. QED
  BY <1>5, <1>6, <1>12, <1>14 DEF CollectInv

(* insert() returns, and from_iter draws the next entry.                   *)
LEMMA InsertReturns ==
  ASSUME CollectInv, Insert, newPc = "return"
  PROVE  CollectInv'
<1>1. /\ IterInv /\ HeapMap /\ NewP!IInv /\ NewP!HeapMap /\ Stages /\ Copied
      /\ stage = "insert" /\ New!Step /\ UNCHANGED <<vars, iterVars>>
      /\ stage' = IF newPc' = "idle" THEN "pull" ELSE "insert"
  BY DEF CollectInv, Insert
<1>2. NewP!Return
  BY <1>1, NewStepIs
<1>3. newPc' = "idle" /\ newHeap' = newHeap /\ stage' = "pull"
  BY <1>1, <1>2 DEF NewP!Return
<1>4. NewP!IInv' /\ NewP!HeapMap'
  BY <1>1, <1>2, NewNextInv DEF NewP!Next, NewP!Step
<1>5. NewP!Table' = NewP!Table
  BY <1>3, NewP!TableOfHeap, NewAssumptions
<1>6. /\ IterInv' /\ HeapMap' /\ pc' = pc /\ Keys' = Keys /\ \A q : ValueOf(q)' = ValueOf(q)
      /\ UNCHANGED <<item, seen, cursor>>
  BY <1>1, OriginalKept DEF iterVars
<1>7. Stages'
  BY <1>1, <1>3, <1>6 DEF Stages
<1>8. Copied'
  <2>1. Range(seen)' = Range(seen) /\ InFlight' = {} /\ InFlight = {}
    BY <1>1, <1>3, <1>6 DEF InFlight
  <2>2. NewP!Table = [q \in Range(seen) |-> ValueOf(q)] /\ Range(seen) \subseteq Keys
    BY <1>1, <2>1 DEF Copied
  <2>3. NewP!Table' = [q \in Range(seen) \ InFlight |-> ValueOf(q)]'
    BY <1>5, <1>6, <2>1, <2>2
  <2>. QED BY <1>3, <1>6, <2>1, <2>2, <2>3 DEF Copied
<1>. QED
  BY <1>4, <1>6, <1>7, <1>8 DEF CollectInv

LEMMA InsertInv ==
  ASSUME CollectInv, Insert
  PROVE  CollectInv'
<1>1. newPc \in {"insert", "return"}
  BY DEF CollectInv, Stages, Insert
<1>. QED
  BY <1>1, InsertRuns, InsertReturns

(* When the iterator has ended nothing is in flight, and every entry has   *)
(* arrived.                                                                *)
LEMMA CollectedInv ==
  ASSUME CollectInv, Collected
  PROVE  CollectInv'
<1>1. /\ IterInv /\ HeapMap /\ NewP!IInv /\ NewP!HeapMap /\ Stages /\ Copied
      /\ stage = "put" /\ stage' = "done" /\ item = None /\ Close /\ UNCHANGED new
  BY DEF CollectInv, Collected
<1>2. UNCHANGED vars /\ cursor' = "none"
  BY <1>1 DEF Close
<1>3. IterInv' /\ HeapMap' /\ pc' = pc /\ Table' = Table
  BY <1>1, <1>2, OriginalKept DEF IterNext
<1>4. NewP!IInv' /\ NewP!HeapMap' /\ NewP!Table' = NewP!Table /\ newPc' = newPc
  BY <1>1, NewKept
<1>5. Stages'
  BY <1>1, <1>2, <1>3, <1>4 DEF Stages
<1>6. Copied'
  <2>1. InFlight = {}
    BY <1>1 DEF InFlight
  <2>2. Range(seen) = Keys /\ NewP!Table = [q \in Range(seen) |-> ValueOf(q)]
    BY <1>1, <2>1 DEF Copied
  <2>3. NewP!Table = Table
    BY <2>2 DEF Table
  <2>. QED BY <1>1, <1>3, <1>4, <2>3 DEF Copied
<1>. QED
  BY <1>3, <1>4, <1>5, <1>6 DEF CollectInv

(* The new table is dropped: the next collect starts from an empty one.    *)
LEMMA DiscardInv ==
  ASSUME CollectInv, Discard
  PROVE  CollectInv'
<1>1. /\ IterInv /\ HeapMap /\ NewP!IInv /\ NewP!HeapMap /\ Stages /\ Copied
      /\ stage = "done" /\ stage' = "use"
      /\ newHeap' = [r \in {Root} |-> EmptyNode] /\ newCount' = 0
      /\ UNCHANGED <<vars, iterVars, newPc, newReq, newReply, newLocals>>
  BY DEF CollectInv, Discard
<1>2. IterInv' /\ HeapMap' /\ pc' = pc
  BY <1>1, OriginalKept
<1>3. newPc = "idle"
  BY <1>1 DEF Stages
<1>4. NewP!Init'
  <2>1. /\ newReq = NewP!NoRequest /\ newReply = None /\ newNode = NewP!Root /\ newHop = 0
        /\ newBest = None /\ newStack = <<>> /\ newPrune = FALSE
    BY <1>1, <1>3 DEF NewP!IInv, NewP!Control, NewP!TypeOK
  <2>. QED BY <1>1, <1>3, <2>1, SamePrefixes DEF NewP!Init, newLocals
<1>5. NewP!Init' => NewP!IInv' /\ NewP!HeapMap'
  BY NewInitInv, PTL
<1>6. Stages'
  BY <1>1, <1>3 DEF Stages
<1>7. Copied'
  BY <1>1 DEF Copied
<1>. QED
  BY <1>2, <1>4, <1>5, <1>6, <1>7 DEF CollectInv

LEMMA CollectInitInv ==
  ASSUME CollectInit
  PROVE  CollectInv
<1>1. IterInit /\ New!Init /\ stage = "use"
  BY DEF CollectInit
<1>2. IterInv
  BY <1>1, IterInitInv
<1>3. HeapMap
  BY <1>1 DEF IterInit, Init, HeapMap
<1>4. NewP!Init
  BY <1>1, SameInit
<1>5. NewP!IInv /\ NewP!HeapMap
  BY <1>4, NewInitInv
<1>6. newPc = "idle" /\ newHeap = [r \in {Root} |-> EmptyNode]
  BY <1>4, SamePrefixes DEF NewP!Init
<1>. QED
  BY <1>1, <1>2, <1>3, <1>5, <1>6 DEF CollectInv, Stages, Copied

LEMMA CollectNextInv ==
  ASSUME CollectInv, [CollectNext]_collectVars
  PROVE  CollectInv'
<1>1. CASE UNCHANGED collectVars
  <2>1. UNCHANGED <<vars, iterVars, stage, new>>
    BY <1>1 DEF collectVars
  <2>2. /\ IterInv /\ HeapMap /\ NewP!IInv /\ NewP!HeapMap /\ Stages /\ Copied
    BY DEF CollectInv
  <2>3. /\ IterInv' /\ HeapMap' /\ pc' = pc /\ Keys' = Keys /\ Table' = Table
        /\ \A q : ValueOf(q)' = ValueOf(q)
        /\ UNCHANGED <<item, seen, cursor>>
    BY <2>1, <2>2, OriginalKept DEF iterVars
  <2>4. /\ NewP!IInv' /\ NewP!HeapMap' /\ NewP!Table' = NewP!Table
        /\ newHeap' = newHeap /\ newPc' = newPc /\ newReq' = newReq
    BY <2>1, <2>2, NewKept
  <2>5. Stages'
    BY <2>1, <2>2, <2>3, <2>4 DEF Stages
  <2>6. Copied'
    <3>1. Range(seen)' = Range(seen) /\ InFlight' = InFlight
      BY <2>1, <2>3, <2>4 DEF InFlight
    <3>2. stage \notin {"use", "done"} =>
            NewP!Table' = [q \in Range(seen) \ InFlight |-> ValueOf(q)]'
      BY <2>2, <2>3, <2>4, <3>1 DEF Copied
    <3>. QED BY <2>1, <2>2, <2>3, <2>4, <3>1, <3>2 DEF Copied
  <2>. QED BY <2>3, <2>4, <2>5, <2>6 DEF CollectInv
<1>. QED
  BY <1>1, UseInv, BeginInv, PullInv, AdvanceInv, PutInv, InsertInv, CollectedInv, DiscardInv
     DEF CollectNext, CollectStep

(* What from_iter has drawn and what it has inserted agree at every point. *)
THEOREM CollectInductive == CollectSpec => []CollectInv
<1>1. CollectInit => CollectInv
  BY CollectInitInv
<1>2. CollectInv /\ [CollectNext]_collectVars => CollectInv'
  BY CollectNextInv
<1>. QED
  BY <1>1, <1>2, PTL DEF CollectSpec

(* Both tables have as many entries as their len() says.                   *)
LEMMA DoneAlike ==
  ASSUME CollectInv, stage = "done"
  PROVE  NewP!Table = Table /\ newCount = count /\ pc = "idle" /\ newPc = "idle"
<1>1. NewP!Table = Table /\ pc = "idle" /\ newPc = "idle"
  BY DEF CollectInv, Stages, Copied
<1>2. NewP!Keys = Keys
  BY <1>1 DEF NewP!Table, Table
<1>3. newCount = NewP!Cardinality(NewP!Keys) + 0
  BY <1>1 DEF CollectInv, NewP!IInv, NewP!CountExact
<1>4. count = Cardinality(Keys) + 0
  BY <1>1 DEF CollectInv, IterInv, IInv, CountExact
<1>. QED
  BY <1>1, <1>2, <1>3, <1>4, SamePrefixes

(* collect() gives a table with the same entries and the same len(), even  *)
(* if an interrupted clear has left the original with slots no bit refers  *)
(* to.                                                                     *)
THEOREM EntriesCopied == CollectSpec => [](stage = "done" => NewP!Table = Table /\ newCount = count)
BY CollectInductive, DoneAlike, PTL

(* collect() gives the very same tree: what was inserted, replaced,        *)
(* removed and pruned before in the original does not show in its shape.   *)
THEOREM RoundTripExact ==
  ASSUME DropMayPanic = FALSE
  PROVE  CollectSpec => []RoundTrip
<1>1. CollectInv => RoundTrip
  <2> SUFFICES ASSUME CollectInv, stage = "done"
               PROVE  newHeap = heap /\ newCount = count
    BY DEF RoundTrip
  <2>1. NewP!Table = Table /\ newCount = count /\ pc = "idle" /\ newPc = "idle"
    BY DoneAlike
  <2>2. IInv /\ HeapMap /\ NewP!IInv /\ NewP!HeapMap
    BY DEF CollectInv, IterInv
  <2>3. heap = TreeOf(Table)
    BY <2>1, <2>2, NoSpareSlots, TreeIs
  <2>4. NewP!CompactValues
    BY <2>2, NewP!NoSpareSlots, NewAssumptions
  <2>5. newHeap = NewP!TreeOf(NewP!Table)
    BY <2>1, <2>2, <2>4, NewP!TreeIs, NewAssumptions
  <2>. QED BY <2>1, <2>3, <2>5, SameTrees
<1>. QED
  BY <1>1, CollectInductive, PTL

(* from_iter is a client of the iterator: all that holds of an iteration   *)
(* holds of the one it makes.                                              *)
THEOREM CollectIterates == CollectSpec => IterSpec
<1>1. CollectInit => IterInit
  BY DEF CollectInit
<1>2. [CollectNext]_collectVars => [IterNext]_<<vars, iterVars>>
  BY DEF CollectNext, CollectStep, collectVars, Use, Begin, Pull, Advance, Put, Insert,
         Collected, Discard, IterNext
<1>. QED
  BY <1>1, <1>2, PTL DEF CollectSpec, IterSpec

(* The table collected from is iterated over as iter() promises.           *)
THEOREM CollectRefinement == CollectSpec => ImplementsIteration
BY CollectIterates, IterationRefinement, PTL
=============================================================================
