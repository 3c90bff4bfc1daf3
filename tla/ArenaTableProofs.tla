--------------------------- MODULE ArenaTableProofs ---------------------------
(***************************************************************************)
(* The arena's invariants, for every number of strides, every set of       *)
(* values and every set of prefixes and addresses clients may pass, as     *)
(* long as the Vec cannot outgrow its u32 indices, and that the arena      *)
(* implements the routing table: where a walk along an address ends, by    *)
(* induction on the bits walked, and from there what every call answers.   *)
(***************************************************************************)
EXTENDS ArenaTableProps, SequenceTheorems, WellFoundedInduction, TLAPS

NodeType == [children : [{0, 1} -> 0..NULL], value : Value \cup {None}]

FrameType == [cur : Nat, bit : {0, 1}]

(* The same words as in ArenaTableProps, said of any Vec.                  *)
IndexOf(ns)      == 0..(Len(ns) - 1)
LinkOf(ns, i, b) == ns[i + 1].children[b]
LinksOf(ns)      == {l \in IndexOf(ns) \X {0, 1} : LinkOf(ns, l[1], l[2]) # NULL}
LinkedOf(ns)     == {0} \cup {LinkOf(ns, l[1], l[2]) : l \in LinksOf(ns)}
ForwardOf(ns) ==
  /\ \A l \in LinksOf(ns) : /\ l[1] < LinkOf(ns, l[1], l[2])
                           /\ LinkOf(ns, l[1], l[2]) \in IndexOf(ns)
  /\ \A l, m \in LinksOf(ns) : LinkOf(ns, l[1], l[2]) = LinkOf(ns, m[1], m[2]) => l = m

(* The same, link by link.                                                 *)
LinkTo(ns, i, b, j) ==
  i \in IndexOf(ns) /\ b \in {0, 1} /\ LinkOf(ns, i, b) = j /\ j # NULL

Tree(ns) ==
  /\ ns \in Seq(NodeType) /\ ns # <<>>
  /\ \A i, b, j : LinkTo(ns, i, b, j) => i < j /\ j \in IndexOf(ns)
  /\ \A i, b, k, c, j : LinkTo(ns, i, b, j) /\ LinkTo(ns, k, c, j) => i = k /\ b = c

(* The three writes the code makes.                                        *)
WithValue(ns, c, v) == [ns EXCEPT ![c + 1].value = v]
WithoutLink(ns, c, b) == [ns EXCEPT ![c + 1] = [ns[c + 1] EXCEPT !.children[b] = NULL]]
WithNode(ns, c, b, new) == [Append(ns, ArenaNode) EXCEPT ![c + 1].children[b] = new]

(* Where the locals stand at each point of a call.                         *)
ArenaControl ==
  /\ pc = "idle" => req = NoRequest /\ reply = None /\ cur = 0 /\ depth = 0 /\ best = None
  /\ pc \in ArenaOps => req \in Request /\ req.op = pc /\ reply = None
  /\ pc = "unwind" => req \in Request /\ req.op = "remove"
  /\ pc = "return" => req \in Request
  /\ pc \in ArenaOps \cup {"unwind"} => depth <= len
  /\ IF pc \in {"remove", "unwind"} THEN Len(stack) = depth ELSE stack = <<>>
  /\ cur \in Linked
  /\ prune /\ pc # "return" => pc = "unwind" /\ Node(cur) = ArenaNode
  /\ Len(nodes) <= MaxNodes

(* The suspended frames go down from the root to the current node.         *)
FramesOrdered ==
  /\ \A i \in DOMAIN stack : stack[i].cur < cur
  /\ \A i, j \in DOMAIN stack : i < j => stack[i].cur < stack[j].cur
  /\ stack # <<>> => stack[1].cur = 0
  /\ pc \in {"remove", "unwind"} /\ stack = <<>> => cur = 0

ArenaInv ==
  /\ ArenaTypeOK /\ LinksForward /\ PrunedIsBlank /\ NoEmptyNodes /\ FramesLinked
  /\ ArenaControl /\ FramesOrdered
------------------------------------------------------------------------------
LEMMA NullType == NULL \in Nat /\ NULL > 0 /\ MaxNodes \in Nat /\ MaxNodes > 0
BY NULLAssumption, MaxNodesAssumption

LEMMA ArenaNodeType ==
  /\ ArenaNode \in NodeType
  /\ ArenaNode.value = None
  /\ \A b \in {0, 1} : ArenaNode.children[b] = NULL
BY NullType DEF ArenaNode, NodeType

(* A node without a value and without links is blank.                      *)
LEMMA BlankNode ==
  ASSUME NEW n \in NodeType, n.value = None, n.children[0] = NULL, n.children[1] = NULL
  PROVE  n = ArenaNode
<1>1. n = [children |-> n.children, value |-> None]
  BY DEF NodeType
<1>2. n.children = [b \in {0, 1} |-> NULL]
  BY DEF NodeType
<1>. QED
  BY <1>1, <1>2 DEF ArenaNode

LEMMA ShapeNow ==
  /\ Index = IndexOf(nodes)
  /\ LinksForward <=> ForwardOf(nodes)
  /\ Linked = LinkedOf(nodes)
BY DEF Index, Links, Target, Linked, LinksForward, Node,
       IndexOf, LinkOf, LinksOf, LinkedOf, ForwardOf

LEMMA ShapeNext ==
  /\ Index' = IndexOf(nodes')
  /\ LinksForward' <=> ForwardOf(nodes')
  /\ Linked' = LinkedOf(nodes')
BY DEF Index, Links, Target, Linked, LinksForward, Node,
       IndexOf, LinkOf, LinksOf, LinkedOf, ForwardOf

LEMMA LinkedMember ==
  ASSUME NEW ns, NEW j
  PROVE  j \in LinkedOf(ns) <=> j = 0 \/ \E i, b : LinkTo(ns, i, b, j)
<1>1. ASSUME NEW i, NEW b, LinkTo(ns, i, b, j)
      PROVE  j \in LinkedOf(ns)
  <2>1. <<i, b>> \in LinksOf(ns) /\ LinkOf(ns, <<i, b>>[1], <<i, b>>[2]) = j
    BY <1>1 DEF LinkTo, LinksOf
  <2>. QED BY <2>1 DEF LinkedOf
<1>2. ASSUME j \in LinkedOf(ns), j # 0
      PROVE  \E i, b : LinkTo(ns, i, b, j)
  <2>1. PICK l \in LinksOf(ns) : LinkOf(ns, l[1], l[2]) = j
    BY <1>2 DEF LinkedOf
  <2>2. LinkTo(ns, l[1], l[2], j)
    BY <2>1 DEF LinkTo, LinksOf
  <2>. QED BY <2>2
<1>. QED
  BY <1>1, <1>2 DEF LinkedOf

LEMMA TreeIs ==
  ASSUME NEW ns
  PROVE  Tree(ns) <=> ns \in Seq(NodeType) /\ ns # <<>> /\ ForwardOf(ns)
<1>1. \A i, b : <<i, b>> \in LinksOf(ns) <=> LinkTo(ns, i, b, LinkOf(ns, i, b))
  BY DEF LinkTo, LinksOf
<1>2. \A l \in LinksOf(ns) : l = <<l[1], l[2]>>
  BY DEF LinksOf
<1>3. ASSUME Tree(ns) PROVE ForwardOf(ns)
  <2>1. \A l \in LinksOf(ns) : LinkTo(ns, l[1], l[2], LinkOf(ns, l[1], l[2]))
    BY <1>1, <1>2
  <2>. QED BY <1>2, <1>3, <2>1 DEF Tree, ForwardOf
<1>4. ASSUME ForwardOf(ns)
      PROVE  /\ \A i, b, j : LinkTo(ns, i, b, j) => i < j /\ j \in IndexOf(ns)
             /\ \A i, b, k, c, j : LinkTo(ns, i, b, j) /\ LinkTo(ns, k, c, j) => i = k /\ b = c
  <2>1. ASSUME NEW i, NEW b, NEW j, LinkTo(ns, i, b, j)
        PROVE  \E l \in LinksOf(ns) : LinkOf(ns, l[1], l[2]) = j /\ l[1] = i /\ l[2] = b
    <3>. DEFINE l == <<i, b>>
    <3>1. l[1] = i /\ l[2] = b /\ l \in IndexOf(ns) \X {0, 1}
      BY <2>1 DEF LinkTo
    <3>. HIDE DEF l
    <3>. QED BY <2>1, <3>1 DEF LinkTo, LinksOf
  <2>2. ASSUME NEW i, NEW b, NEW j, LinkTo(ns, i, b, j)
        PROVE  i < j /\ j \in IndexOf(ns)
    <3>1. PICK l \in LinksOf(ns) : LinkOf(ns, l[1], l[2]) = j /\ l[1] = i
      BY ONLY <2>1, <2>2
    <3>. QED BY <1>4, <3>1 DEF ForwardOf
  <2>3. ASSUME NEW i, NEW b, NEW k, NEW c, NEW j, LinkTo(ns, i, b, j), LinkTo(ns, k, c, j)
        PROVE  i = k /\ b = c
    <3>1. PICK l \in LinksOf(ns) : LinkOf(ns, l[1], l[2]) = j /\ l[1] = i /\ l[2] = b
      BY ONLY <2>1, <2>3
    <3>2. PICK m \in LinksOf(ns) : LinkOf(ns, m[1], m[2]) = j /\ m[1] = k /\ m[2] = c
      BY ONLY <2>1, <2>3
    <3>3. l = m
      BY <1>4, <3>1, <3>2 DEF ForwardOf
    <3>. QED BY <3>1, <3>2, <3>3
  <2>. QED BY <2>2, <2>3
<1>. QED
  BY <1>3, <1>4 DEF Tree

LEMMA VecFacts ==
  ASSUME NEW ns, Tree(ns)
  PROVE  /\ Len(ns) \in Nat /\ Len(ns) > 0
         /\ 0 \in IndexOf(ns) /\ IndexOf(ns) \subseteq Nat
         /\ \A i \in IndexOf(ns) :
              /\ i + 1 \in 1..Len(ns) /\ i + 1 \in DOMAIN ns
              /\ ns[i + 1] \in NodeType
              /\ \A b \in {0, 1} : LinkOf(ns, i, b) \in 0..NULL
<1>1. ns \in Seq(NodeType) /\ ns # <<>>
  BY DEF Tree
<1>2. Len(ns) \in Nat /\ Len(ns) > 0
  BY <1>1
<1>3. \A i \in IndexOf(ns) : i + 1 \in 1..Len(ns)
  BY <1>2 DEF IndexOf
<1>4. \A i \in IndexOf(ns) : i + 1 \in DOMAIN ns /\ ns[i + 1] \in NodeType
  BY <1>1, <1>3
<1>. QED
  BY <1>2, <1>3, <1>4 DEF IndexOf, LinkOf, NodeType

LEMMA SlotWritten ==
  ASSUME NEW S, NEW ns \in Seq(S), NEW k \in 1..Len(ns), NEW n \in S, NEW ms,
         ms = [ns EXCEPT ![k] = n]
  PROVE  /\ ms \in Seq(S) /\ Len(ms) = Len(ns)
         /\ \A i \in 1..Len(ns) : ms[i] = IF i = k THEN n ELSE ns[i]
OBVIOUS

(* A write that keeps the links of its node.                               *)
LEMMA LinksKept ==
  ASSUME NEW ns, Tree(ns), NEW c \in IndexOf(ns), NEW ms \in Seq(NodeType),
         ms # <<>>, IndexOf(ms) = IndexOf(ns),
         ms[c + 1].children = ns[c + 1].children,
         \A i \in IndexOf(ns) : i # c => ms[i + 1] = ns[i + 1]
  PROVE  /\ Tree(ms)
         /\ \A i, b, j : LinkTo(ms, i, b, j) <=> LinkTo(ns, i, b, j)
<1>1. \A i \in IndexOf(ns), b \in {0, 1} : LinkOf(ms, i, b) = LinkOf(ns, i, b)
  BY DEF LinkOf
<1>2. \A i, b, j : LinkTo(ms, i, b, j) <=> LinkTo(ns, i, b, j)
  BY <1>1 DEF LinkTo
<1>. QED
  BY <1>2 DEF Tree

(* A write that clears one link.                                           *)
LEMMA LinkGone ==
  ASSUME NEW ns, Tree(ns), NEW c \in IndexOf(ns), NEW b \in {0, 1}, NEW ms \in Seq(NodeType),
         ms # <<>>, IndexOf(ms) = IndexOf(ns),
         \A d \in {0, 1} : ms[c + 1].children[d] =
                           IF d = b THEN NULL ELSE ns[c + 1].children[d],
         \A i \in IndexOf(ns) : i # c => ms[i + 1] = ns[i + 1]
  PROVE  /\ Tree(ms)
         /\ \A i, d, j : LinkTo(ms, i, d, j) <=> LinkTo(ns, i, d, j) /\ ~(i = c /\ d = b)
<1>1. \A i \in IndexOf(ns), d \in {0, 1} :
        LinkOf(ms, i, d) = IF i = c /\ d = b THEN NULL ELSE LinkOf(ns, i, d)
  BY DEF LinkOf
<1>2. \A i, d, j : LinkTo(ms, i, d, j) <=> LinkTo(ns, i, d, j) /\ ~(i = c /\ d = b)
  BY <1>1 DEF LinkTo
<1>. QED
  BY <1>2 DEF Tree

(* A blank node at the end of the Vec, and a link to it.                   *)
LEMMA LinkNew ==
  ASSUME NEW ns, Tree(ns), NEW c \in IndexOf(ns), NEW b \in {0, 1}, NEW ms \in Seq(NodeType),
         LinkOf(ns, c, b) = NULL, NEW new \in Nat, new = Len(ns), new < NULL,
         ms # <<>>, IndexOf(ms) = IndexOf(ns) \cup {new},
         ms[new + 1] = ArenaNode,
         \A d \in {0, 1} : ms[c + 1].children[d] =
                           IF d = b THEN new ELSE ns[c + 1].children[d],
         \A i \in IndexOf(ns) : i # c => ms[i + 1] = ns[i + 1]
  PROVE  /\ Tree(ms)
         /\ \A i, d, j : LinkTo(ms, i, d, j) <=>
                            LinkTo(ns, i, d, j) \/ (i = c /\ d = b /\ j = new)
<1>1. \A i \in IndexOf(ns), d \in {0, 1} :
        LinkOf(ms, i, d) = IF i = c /\ d = b THEN new ELSE LinkOf(ns, i, d)
  BY DEF LinkOf
<1>2. \A d \in {0, 1} : LinkOf(ms, new, d) = NULL
  BY ArenaNodeType DEF LinkOf
<1>3. new # NULL /\ c < new /\ new \notin IndexOf(ns)
  BY NullType DEF IndexOf
<1>4. \A i, d, j : LinkTo(ms, i, d, j) <=>
                     LinkTo(ns, i, d, j) \/ (i = c /\ d = b /\ j = new)
  BY <1>1, <1>2, <1>3 DEF LinkTo
<1>5. \A i, d, j : LinkTo(ns, i, d, j) => j \in IndexOf(ns) /\ j # new /\ i < j
  BY <1>3 DEF Tree
<1>6. \A i, d, j : LinkTo(ms, i, d, j) => i < j /\ j \in IndexOf(ms)
  BY <1>3, <1>4, <1>5
<1>7. \A i, d, j : LinkTo(ms, i, d, j) /\ j = new => i = c /\ d = b
  BY <1>4, <1>5
<1>8. \A i, d, k, e, j : LinkTo(ms, i, d, j) /\ LinkTo(ms, k, e, j) => i = k /\ d = e
  BY <1>4, <1>7 DEF Tree
<1>. QED
  BY <1>4, <1>6, <1>8 DEF Tree

(* A value is stored or taken away: the links stay.                        *)
LEMMA ValueWritten ==
  ASSUME NEW ns, Tree(ns), NEW c \in IndexOf(ns), NEW v \in Value \cup {None}, NEW ms,
         ms = WithValue(ns, c, v)
  PROVE  /\ Tree(ms)
         /\ Len(ms) = Len(ns) /\ IndexOf(ms) = IndexOf(ns)
         /\ ms[c + 1] \in NodeType /\ ms[c + 1].value = v
         /\ ms[c + 1].children = ns[c + 1].children
         /\ \A i \in IndexOf(ns) : i # c => ms[i + 1] = ns[i + 1]
         /\ \A i, b, j : LinkTo(ms, i, b, j) <=> LinkTo(ns, i, b, j)
<1>. DEFINE n == [ns[c + 1] EXCEPT !.value = v]
<1>0. Tree(ns) /\ c \in IndexOf(ns)
  OBVIOUS
<1>1. ns[c + 1] \in NodeType
  BY VecFacts
<1>2. n \in NodeType /\ n.value = v /\ n.children = ns[c + 1].children
  BY <1>1 DEF NodeType
<1>3. ms = [ns EXCEPT ![c + 1] = n]
  BY DEF WithValue
<1>. HIDE DEF n
<1>4. /\ ms \in Seq(NodeType) /\ ms # <<>>
      /\ Len(ms) = Len(ns) /\ IndexOf(ms) = IndexOf(ns)
      /\ ms[c + 1] = n
      /\ \A i \in IndexOf(ns) : i # c => ms[i + 1] = ns[i + 1]
  <2>1. ns \in Seq(NodeType) /\ c + 1 \in 1..Len(ns)
    BY ONLY <1>0, VecFacts DEF Tree
  <2>2. /\ ms \in Seq(NodeType) /\ Len(ms) = Len(ns)
        /\ \A k \in 1..Len(ns) : ms[k] = IF k = c + 1 THEN n ELSE ns[k]
    BY ONLY <1>2, <1>3, <2>1, SlotWritten
  <2>3. Len(ns) \in Nat /\ Len(ns) > 0
    BY ONLY <1>0, VecFacts
  <2>4. \A i \in IndexOf(ns) : i + 1 \in 1..Len(ns) /\ (i # c => i + 1 # c + 1)
    BY ONLY <1>0, <2>3 DEF IndexOf
  <2>5. IndexOf(ms) = IndexOf(ns) /\ ms # <<>>
    BY ONLY <2>2, <2>3 DEF IndexOf
  <2>. QED BY ONLY <2>1, <2>2, <2>4, <2>5
<1>5. Tree(ms) /\ \A i, b, j : LinkTo(ms, i, b, j) <=> LinkTo(ns, i, b, j)
  BY ONLY <1>0, <1>2, <1>4, LinksKept
<1>. QED
  BY <1>2, <1>4, <1>5

(* A link is cleared.                                                      *)
LEMMA LinkCut ==
  ASSUME NEW ns, Tree(ns), NEW c \in IndexOf(ns), NEW b \in {0, 1}, NEW ms,
         ms = WithoutLink(ns, c, b)
  PROVE  /\ Tree(ms)
         /\ Len(ms) = Len(ns) /\ IndexOf(ms) = IndexOf(ns)
         /\ ms[c + 1] \in NodeType /\ ms[c + 1].value = ns[c + 1].value
         /\ \A i \in IndexOf(ns) : i # c => ms[i + 1] = ns[i + 1]
         /\ \A i, d, j : LinkTo(ms, i, d, j) <=> LinkTo(ns, i, d, j) /\ ~(i = c /\ d = b)
<1>. DEFINE n == [ns[c + 1] EXCEPT !.children[b] = NULL]
<1>0. Tree(ns) /\ c \in IndexOf(ns) /\ b \in {0, 1}
  OBVIOUS
<1>1. ns[c + 1] \in NodeType
  BY VecFacts
<1>2. /\ n \in NodeType /\ n.value = ns[c + 1].value
      /\ \A d \in {0, 1} : n.children[d] = IF d = b THEN NULL ELSE ns[c + 1].children[d]
  BY <1>1, NullType DEF NodeType
<1>3. ms = [ns EXCEPT ![c + 1] = n]
  BY DEF WithoutLink
<1>. HIDE DEF n
<1>4. /\ ms \in Seq(NodeType) /\ ms # <<>>
      /\ Len(ms) = Len(ns) /\ IndexOf(ms) = IndexOf(ns)
      /\ ms[c + 1] = n
      /\ \A i \in IndexOf(ns) : i # c => ms[i + 1] = ns[i + 1]
  <2>1. ns \in Seq(NodeType) /\ c + 1 \in 1..Len(ns)
    BY ONLY <1>0, VecFacts DEF Tree
  <2>2. /\ ms \in Seq(NodeType) /\ Len(ms) = Len(ns)
        /\ \A k \in 1..Len(ns) : ms[k] = IF k = c + 1 THEN n ELSE ns[k]
    BY ONLY <1>2, <1>3, <2>1, SlotWritten
  <2>3. Len(ns) \in Nat /\ Len(ns) > 0
    BY ONLY <1>0, VecFacts
  <2>4. \A i \in IndexOf(ns) : i + 1 \in 1..Len(ns) /\ (i # c => i + 1 # c + 1)
    BY ONLY <1>0, <2>3 DEF IndexOf
  <2>5. IndexOf(ms) = IndexOf(ns) /\ ms # <<>>
    BY ONLY <2>2, <2>3 DEF IndexOf
  <2>. QED BY ONLY <2>1, <2>2, <2>4, <2>5
<1>5. /\ Tree(ms)
      /\ \A i, d, j : LinkTo(ms, i, d, j) <=> LinkTo(ns, i, d, j) /\ ~(i = c /\ d = b)
  BY ONLY <1>0, <1>2, <1>4, LinkGone
<1>. QED
  BY <1>2, <1>4, <1>5

(* A node is pushed and linked.                                            *)
LEMMA NodeGrown ==
  ASSUME NEW ns, Tree(ns), NEW c \in IndexOf(ns), NEW b \in {0, 1}, NEW ms,
         LinkOf(ns, c, b) = NULL, NEW new, new = Len(ns), new < NULL,
         ms = WithNode(ns, c, b, new)
  PROVE  /\ Tree(ms)
         /\ Len(ms) = new + 1 /\ IndexOf(ms) = IndexOf(ns) \cup {new}
         /\ ms[new + 1] = ArenaNode
         /\ ms[c + 1] \in NodeType /\ ms[c + 1].value = ns[c + 1].value
         /\ \A i \in IndexOf(ns) : i # c => ms[i + 1] = ns[i + 1]
         /\ \A i, d, j : LinkTo(ms, i, d, j) <=>
                            LinkTo(ns, i, d, j) \/ (i = c /\ d = b /\ j = new)
<1>. DEFINE n   == [ns[c + 1] EXCEPT !.children[b] = new]
            app == Append(ns, ArenaNode)
<1>0. /\ Tree(ns) /\ c \in IndexOf(ns) /\ b \in {0, 1}
      /\ LinkOf(ns, c, b) = NULL /\ new = Len(ns) /\ new < NULL
  OBVIOUS
<1>1. ns[c + 1] \in NodeType /\ ns \in Seq(NodeType) /\ new \in Nat /\ new \in 0..NULL /\ new > 0
  BY VecFacts, NullType DEF Tree
<1>2. /\ n \in NodeType /\ n.value = ns[c + 1].value
      /\ \A d \in {0, 1} : n.children[d] = IF d = b THEN new ELSE ns[c + 1].children[d]
  BY <1>1 DEF NodeType
<1>3. /\ IndexOf(ns) = 0..(new - 1) /\ c + 1 \in 1..new
      /\ \A i \in IndexOf(ns) : i + 1 \in 1..new
  BY <1>1 DEF IndexOf
<1>4. /\ app \in Seq(NodeType) /\ Len(app) = new + 1
      /\ app[new + 1] = ArenaNode
      /\ \A k \in 1..new : app[k] = ns[k]
  BY <1>1, ArenaNodeType
<1>5. ms = [app EXCEPT ![c + 1] = n]
  BY <1>3, <1>4 DEF WithNode
<1>. HIDE DEF n, app
<1>6. /\ ms \in Seq(NodeType) /\ Len(ms) = new + 1
      /\ \A k \in 1..(new + 1) : ms[k] = IF k = c + 1 THEN n ELSE app[k]
  <2>1. c + 1 \in 1..Len(app)
    BY <1>1, <1>3, <1>4
  <2>. QED BY ONLY <1>2, <1>4, <1>5, <2>1, SlotWritten
<1>7. /\ ms # <<>> /\ IndexOf(ms) = IndexOf(ns) \cup {new}
      /\ ms[new + 1] = ArenaNode
      /\ ms[c + 1] = n
      /\ \A i \in IndexOf(ns) : i # c => ms[i + 1] = ns[i + 1]
  <2>1. new + 1 # c + 1 /\ new + 1 \in 1..(new + 1) /\ c + 1 \in 1..(new + 1)
    BY ONLY <1>1, <1>3
  <2>2. \A i \in IndexOf(ns) : i + 1 \in 1..new /\ i + 1 \in 1..(new + 1) /\ (i # c => i + 1 # c + 1)
    BY ONLY <1>1, <1>3
  <2>3. IndexOf(ms) = 0..new
    BY ONLY <1>1, <1>6 DEF IndexOf
  <2>4. IndexOf(ms) = IndexOf(ns) \cup {new}
    BY ONLY <1>1, <1>3, <2>3
  <2>5. ms[new + 1] = ArenaNode /\ ms[c + 1] = n
    BY ONLY <1>4, <1>6, <2>1
  <2>6. \A i \in IndexOf(ns) : i # c => ms[i + 1] = ns[i + 1]
    BY ONLY <1>4, <1>6, <2>2
  <2>7. ms # <<>>
    BY ONLY <1>1, <1>6
  <2>. QED BY ONLY <2>4, <2>5, <2>6, <2>7
<1>8. /\ Tree(ms)
      /\ \A i, d, j : LinkTo(ms, i, d, j) <=>
                         LinkTo(ns, i, d, j) \/ (i = c /\ d = b /\ j = new)
  BY ONLY <1>0, <1>1, <1>2, <1>6, <1>7, LinkNew
<1>. QED
  BY <1>2, <1>6, <1>7, <1>8
------------------------------------------------------------------------------
LEMMA BitsNat == BITS \in Nat
BY StridesAssumption DEF BITS, STRIDE

(* The operands of a call are well formed.                                 *)
LEMMA RequestFacts ==
  ASSUME NEW r \in Request
  PROVE  /\ r.op \in ArenaOps \ {"longest_match"} =>
              /\ r.prefix \in IpPrefix /\ masked(r.prefix) \in IpPrefix
              /\ masked(r.prefix).ip \in Address /\ masked(r.prefix).mask \in 0..BITS
         /\ r.op = "longest_match" => r.addr \in Address
         /\ r.op = "insert" => r.value \in Value
<1>1. /\ r.op \in ArenaOps \ {"longest_match"} => r.prefix \in Nets
      /\ r.op = "longest_match" => r.addr \in Addrs
      /\ r.op = "insert" => r.value \in Value
  BY DEF Request, ArenaOps, PrefixOps, LookupOps, PlainOps
<1>2. \A p \in IpPrefix : masked(p) \in IpPrefix
  BY BitsNat DEF masked, IpPrefix, Address
<1>. QED
  BY <1>1, <1>2, NetsAssumption, AddrsAssumption DEF IpPrefix

LEMMA OperandFacts ==
  ASSUME req \in Request
  PROVE  /\ req.op \in ArenaOps => addr \in Address /\ len \in 0..BITS
         /\ req.op \in ArenaOps \ {"longest_match"} =>
              req.prefix \in IpPrefix /\ key \in IpPrefix /\ addr = key.ip /\ len = key.mask
         /\ req.op = "longest_match" => addr = req.addr /\ len = BITS
         /\ req.op = "insert" => req.value \in Value
BY RequestFacts, BitsNat DEF addr, len, key

LEMMA OperandFactsNext ==
  ASSUME req' \in Request, req'.op \in ArenaOps
  PROVE  len' \in 0..BITS
BY RequestFacts, BitsNat DEF len, key

LEMMA OperandsKept ==
  ASSUME req' = req
  PROVE  addr' = addr /\ len' = len /\ key' = key
BY DEF addr, len, key

(* The arena and the position in it, under the invariant.                  *)
LEMMA ArenaFacts ==
  ASSUME ArenaInv
  PROVE  /\ Tree(nodes)
         /\ cur \in IndexOf(nodes)
         /\ \A j : j \in Linked <=> j = 0 \/ \E i, b : LinkTo(nodes, i, b, j)
         /\ \A i \in IndexOf(nodes) : Node(i) \in NodeType
         /\ Len(nodes) \in Nat /\ Len(nodes) > 0
<1>1. nodes \in Seq(NodeType) /\ cur \in IndexOf(nodes)
  BY ShapeNow DEF ArenaInv, ArenaTypeOK, NodeType
<1>2. nodes # <<>>
  <2>1. Len(nodes) > 0
    BY <1>1 DEF IndexOf
  <2>. QED BY <2>1
<1>3. Tree(nodes)
  BY <1>1, <1>2, TreeIs, ShapeNow DEF ArenaInv
<1>. QED
  BY <1>1, <1>3, VecFacts, ShapeNow, LinkedMember DEF Node

LEMMA BitFacts ==
  ASSUME ArenaInv, pc \in ArenaOps, depth < len
  PROVE  /\ bit \in {0, 1} /\ bit = addr[depth + 1]
         /\ depth + 1 \in 0..BITS /\ depth + 1 <= len
         /\ child = LinkOf(nodes, cur, bit)
         /\ child \in 0..NULL
         /\ child # NULL => LinkTo(nodes, cur, bit, child)
<1>1. addr \in Address /\ len \in 0..BITS /\ depth \in 0..BITS
  BY OperandFacts DEF ArenaInv, ArenaControl, ArenaTypeOK
<1>2. depth + 1 \in 1..BITS /\ depth + 1 <= len
  BY <1>1, BitsNat
<1>3. bit \in {0, 1} /\ bit = addr[depth + 1]
  BY <1>1, <1>2 DEF bit, Address
<1>4. child = LinkOf(nodes, cur, bit)
  BY DEF child, LinkOf, Node
<1>. QED
  BY <1>2, <1>3, <1>4, ArenaFacts, VecFacts DEF LinkTo

LEMMA NodesKept ==
  ASSUME nodes' = nodes
  PROVE  /\ Index' = Index /\ Linked' = Linked
         /\ LinksForward <=> LinksForward'
         /\ PrunedIsBlank <=> PrunedIsBlank'
         /\ \A i : nodes'[i + 1] = Node(i)
BY DEF Index, Links, Target, Linked, LinksForward, PrunedIsBlank, Node

LEMMA ArenaInitInv ==
  ASSUME Init
  PROVE  ArenaInv
<1>1. /\ nodes = <<ArenaNode>> /\ Len(nodes) = 1 /\ nodes[1] = ArenaNode
      /\ Index = {0} /\ IndexOf(nodes) = {0}
  BY DEF Init, Index, IndexOf
<1>2. Links = {} /\ Linked = {0}
  BY <1>1, ArenaNodeType DEF Links, Linked, Node
<1>3. nodes \in Seq([children : [{0, 1} -> 0..NULL], value : Value \cup {None}])
  BY <1>1, ArenaNodeType DEF NodeType
<1>4. ArenaTypeOK
  <2>1. stack \in Seq([cur : Nat, bit : {0, 1}])
    BY DEF Init
  <2>2. /\ pc = "idle" /\ req = NoRequest /\ reply = None /\ cur = 0 /\ depth = 0
        /\ best = None /\ prune = FALSE
    BY DEF Init
  <2>3. cur \in Index /\ depth \in 0..BITS
    BY <1>1, <2>2, BitsNat
  <2>4. prune \in BOOLEAN
    BY <2>2
  <2>. QED BY <1>3, <2>1, <2>2, <2>3, <2>4 DEF ArenaTypeOK
<1>5. LinksForward /\ PrunedIsBlank
  BY <1>1, <1>2 DEF LinksForward, PrunedIsBlank
<1>6. NoEmptyNodes /\ FramesLinked /\ FramesOrdered
  BY <1>2 DEF NoEmptyNodes, FramesLinked, FramesOrdered, Init
<1>7. ArenaControl
  BY <1>1, <1>2, NullType DEF ArenaControl, Init, ArenaOps
<1>. QED
  BY <1>4, <1>5, <1>6, <1>7 DEF ArenaInv

(* A call starts at the root.                                              *)
LEMMA ArenaCallInv ==
  ASSUME ArenaInv, Call
  PROVE  ArenaInv'
<1>1. /\ pc = "idle" /\ cur = 0 /\ depth = 0 /\ stack = <<>> /\ reply = None /\ ~prune
      /\ req' \in Request /\ req'.op \in ArenaOps /\ pc' = req'.op
      /\ UNCHANGED <<nodes, reply, cur, depth, stack, prune>>
  BY DEF Call, ArenaInv, ArenaControl
<1>2. pc' \in ArenaOps /\ pc' \notin {"idle", "unwind", "return"} /\ pc # "return"
  BY <1>1 DEF ArenaOps
<1>3. best' \in Value \cup {None}
  <2>1. Node(0) \in NodeType
    BY ArenaFacts, VecFacts
  <2>. QED BY <1>1, <2>1 DEF Call, NodeType
<1>4. ArenaTypeOK'
  <2>1. prune' \in BOOLEAN /\ cur' \in Index' /\ reply' \in Value \cup {None}
    BY <1>1, NodesKept DEF ArenaInv, ArenaTypeOK
  <2>. QED BY <1>1, <1>2, <1>3, <2>1 DEF ArenaInv, ArenaTypeOK
<1>5. LinksForward' /\ PrunedIsBlank'
  BY <1>1, NodesKept DEF ArenaInv
<1>6. NoEmptyNodes'
  <2>1. \A i \in Linked \ {0} : Node(i) # ArenaNode
    BY <1>1 DEF ArenaInv, NoEmptyNodes
  <2>. QED BY <1>1, <2>1, NodesKept DEF NoEmptyNodes, Node
<1>7. FramesLinked' /\ FramesOrdered'
  BY <1>1 DEF FramesLinked, FramesOrdered
<1>8. ArenaControl'
  <2>1. depth' <= len'
    BY <1>1, OperandFactsNext, BitsNat
  <2>. QED BY <1>1, <2>1, <1>2, NodesKept DEF ArenaInv, ArenaControl
<1>. QED
  BY <1>4, <1>5, <1>6, <1>7, <1>8 DEF ArenaInv

LEMMA FrameFacts ==
  ASSUME ArenaInv
  PROVE  /\ stack \in Seq(FrameType)
         /\ Len(stack) \in Nat /\ DOMAIN stack = 1..Len(stack)
         /\ \A i \in 1..Len(stack) : stack[i].cur \in Nat /\ stack[i].bit \in {0, 1}
<1>1. stack \in Seq(FrameType)
  BY DEF ArenaInv, ArenaTypeOK, FrameType
<1>2. \A i \in 1..Len(stack) : stack[i] \in FrameType
  BY <1>1
<1>. QED
  BY <1>1, <1>2 DEF FrameType

LEMMA Pushed ==
  ASSUME NEW S, NEW s \in Seq(S), NEW x \in S, NEW t, t = Append(s, x)
  PROVE  /\ t \in Seq(S)
         /\ Len(t) = Len(s) + 1 /\ DOMAIN t = 1..(Len(s) + 1)
         /\ t[Len(s) + 1] = x
         /\ \A i \in DOMAIN s : t[i] = s[i]
OBVIOUS

(* Following a link, in any of the walks.                                  *)
LEMMA ArenaDescendInv ==
  ASSUME ArenaInv, pc \in ArenaOps, depth < len, child # NULL, Descend,
         UNCHANGED <<nodes, pc, req, reply, prune>>,
         best' \in Value \cup {None},
         stack' = IF pc = "remove" THEN Append(stack, Frame) ELSE stack
  PROVE  ArenaInv'
<1>1. /\ req \in Request /\ req.op = pc /\ reply = None /\ ~prune
      /\ pc \notin {"idle", "unwind", "return", "aborted"}
      /\ depth \in 0..BITS /\ cur \in Linked
      /\ stack \in Seq(FrameType)
  BY DEF ArenaInv, ArenaControl, ArenaTypeOK, ArenaOps, FrameType
<1>2. /\ cur' = child /\ depth' = depth + 1 /\ len' = len
  BY OperandsKept DEF Descend
<1>3. /\ bit \in {0, 1} /\ depth + 1 \in 0..BITS /\ depth + 1 <= len
      /\ LinkTo(nodes, cur, bit, child)
  BY BitFacts
<1>4. /\ cur < child /\ child \in Index /\ child \in Linked
      /\ cur \in Nat /\ child \in Nat
  BY <1>3, ArenaFacts, ShapeNow DEF Tree, IndexOf
<1>5. Frame \in FrameType /\ Frame.cur = cur /\ Frame.bit = bit
  BY <1>3, <1>4 DEF Frame, FrameType
<1>. DEFINE top == Frame
<1>. HIDE DEF top
<1>6. /\ stack' \in Seq(FrameType)
      /\ IF pc = "remove"
         THEN /\ Len(stack') = Len(stack) + 1 /\ DOMAIN stack' = 1..(Len(stack) + 1)
              /\ stack'[Len(stack) + 1] = top
              /\ \A i \in DOMAIN stack : stack'[i] = stack[i]
         ELSE stack' = <<>>
  <2>1. top \in FrameType
    BY <1>5 DEF top
  <2>2. pc = "remove" => stack' = Append(stack, top)
    BY DEF top
  <2>3. pc # "remove" => stack = <<>> /\ stack' = stack
    BY <1>1 DEF ArenaInv, ArenaControl
  <2>4. CASE pc = "remove"
    <3>1. stack' = Append(stack, top)
      BY <2>2, <2>4
    <3>. QED BY ONLY <1>1, <2>1, <2>4, <3>1, Pushed
  <2>5. CASE pc # "remove"
    <3>1. stack' = <<>>
      BY <2>3, <2>5
    <3>. QED BY ONLY <2>5, <3>1
  <2>. QED BY <2>4, <2>5
<1>7. ArenaTypeOK'
  <2>1. prune' \in BOOLEAN /\ cur' \in Index' /\ reply' \in Value \cup {None}
    BY <1>1, <1>2, <1>4, NodesKept DEF ArenaInv, ArenaTypeOK
  <2>. QED BY <1>1, <1>2, <1>3, <1>6, <2>1 DEF ArenaInv, ArenaTypeOK, FrameType
<1>8. LinksForward' /\ PrunedIsBlank'
  BY NodesKept DEF ArenaInv
<1>9. NoEmptyNodes'
  <2>1. Node(cur) # ArenaNode
    BY <1>3, ArenaNodeType DEF LinkTo, LinkOf, Node
  <2>2. \A i \in Linked \ {0} : Node(i) # ArenaNode
    BY <2>1 DEF ArenaInv, NoEmptyNodes
  <2>. QED BY <2>2, NodesKept DEF NoEmptyNodes, Node
<1>10. FramesLinked'
  <2>. SUFFICES ASSUME NEW i \in DOMAIN stack'
                PROVE  (Node(stack[i].cur).children[stack[i].bit])'
                         = IF i < Len(stack') THEN stack'[i + 1].cur ELSE cur'
    BY DEF FramesLinked
  <2>1. /\ pc = "remove" /\ i \in 1..(Len(stack) + 1) /\ Len(stack) \in Nat
        /\ DOMAIN stack = 1..Len(stack)
    BY <1>1, <1>6
  <2>2. (Node(stack[i].cur).children[stack[i].bit])' = LinkOf(nodes, stack'[i].cur, stack'[i].bit)
    BY DEF Node, LinkOf
  <2>3. CASE i = Len(stack) + 1
    BY <1>2, <1>3, <1>5, <1>6, <2>1, <2>2, <2>3 DEF LinkTo, top
  <2>4. CASE i \in 1..Len(stack)
    <3>1. LinkOf(nodes, stack[i].cur, stack[i].bit) = IF i < Len(stack) THEN stack[i + 1].cur ELSE cur
      BY <2>1, <2>4 DEF ArenaInv, FramesLinked, Node, LinkOf
    <3>2. i < Len(stack') /\ stack'[i] = stack[i]
      BY <1>6, <2>1, <2>4
    <3>3. stack'[i + 1].cur = IF i < Len(stack) THEN stack[i + 1].cur ELSE cur
      BY <1>5, <1>6, <2>1, <2>4 DEF top
    <3>. QED BY <2>2, <3>1, <3>2, <3>3
  <2>. QED BY <2>1, <2>3, <2>4
<1>11. FramesOrdered'
  <2>1. CASE pc # "remove"
    BY <1>1, <1>6, <2>1 DEF FramesOrdered
  <2>2. CASE pc = "remove"
    <3>1. Len(stack) \in Nat /\ DOMAIN stack = 1..Len(stack)
      BY <1>1
    <3>2. \A i \in 1..Len(stack) : stack[i].cur \in Nat /\ stack[i].cur < cur
      <4>1. \A i \in DOMAIN stack : stack[i].cur < cur
        BY DEF ArenaInv, FramesOrdered
      <4>. QED BY <3>1, <4>1, FrameFacts
    <3>3. \A i \in DOMAIN stack' : stack'[i].cur < cur'
      BY <1>2, <1>4, <1>5, <1>6, <2>2, <3>1, <3>2 DEF top
    <3>4. \A i, j \in DOMAIN stack' : i < j => stack'[i].cur < stack'[j].cur
      <4>. SUFFICES ASSUME NEW i \in 1..(Len(stack) + 1), NEW j \in 1..(Len(stack) + 1), i < j
                    PROVE  stack'[i].cur < stack'[j].cur
        BY <1>6, <2>2
      <4>1. i \in 1..Len(stack) /\ stack'[i] = stack[i]
        BY <1>6, <2>2, <3>1
      <4>2. CASE j = Len(stack) + 1
        BY <1>5, <1>6, <2>2, <3>2, <4>1, <4>2 DEF top
      <4>3. CASE j \in 1..Len(stack)
        BY <1>6, <2>2, <3>1, <4>1, <4>3 DEF ArenaInv, FramesOrdered
      <4>. QED BY <3>1, <4>2, <4>3
    <3>5. stack'[1].cur = 0
      <4>1. CASE stack = <<>>
        BY <1>5, <1>6, <2>2, <4>1 DEF top, ArenaInv, FramesOrdered
      <4>2. CASE stack # <<>>
        BY <1>6, <2>2, <3>1, <4>2 DEF ArenaInv, FramesOrdered
      <4>. QED BY <4>1, <4>2
    <3>6. stack' # <<>>
      BY <1>6, <2>2, <3>1
    <3>. QED BY <3>3, <3>4, <3>5, <3>6 DEF FramesOrdered
  <2>. QED BY <2>1, <2>2
<1>12. ArenaControl'
  <2>1. Linked' = Linked
    BY NodesKept
  <2>2. IF pc' \in {"remove", "unwind"} THEN Len(stack') = depth' ELSE stack' = <<>>
    BY <1>1, <1>2, <1>6 DEF ArenaInv, ArenaControl
  <2>. QED BY <1>1, <1>2, <1>3, <1>4, <2>1, <2>2 DEF ArenaInv, ArenaControl
<1>. QED
  BY <1>7, <1>8, <1>9, <1>10, <1>11, <1>12 DEF ArenaInv

(* A call ends with an answer of its type, or runs out of memory.          *)
LEMMA ArenaFinishInv ==
  ASSUME ArenaInv, UNCHANGED <<nodes, req, locals>>, pc \in ArenaOps \cup {"unwind"}, stack = <<>>,
         \/ pc' = "return" /\ reply' \in ReplySet(req.op) /\ pc # "insert"
         \/ pc = "insert" /\ pc' = "aborted" /\ reply' = reply
  PROVE  ArenaInv'
<1>1. /\ UNCHANGED <<nodes, req, cur, depth, best, stack, prune>>
      /\ req \in Request
      /\ pc' \in {"return", "aborted"} /\ pc' \notin ArenaOps \cup {"idle", "unwind"}
      /\ pc' = "aborted" => ~prune /\ reply' = None
  BY DEF locals, ArenaInv, ArenaControl, ArenaOps
<1>2. ArenaTypeOK'
  <2>1. /\ prune' \in BOOLEAN /\ cur' \in Index'
    BY <1>1, NodesKept DEF ArenaInv, ArenaTypeOK
  <2>2. IF pc' = "return" THEN reply' \in ReplySet(req.op)' ELSE reply' \in Value \cup {None}
    <3>1. ReplySet(req.op)' = ReplySet(req.op)
      BY <1>1 DEF ReplySet
    <3>. QED BY <1>1, <3>1
  <2>. QED BY <1>1, <2>1, <2>2 DEF ArenaInv, ArenaTypeOK
<1>3. LinksForward' /\ PrunedIsBlank'
  BY <1>1, NodesKept DEF ArenaInv
<1>4. NoEmptyNodes'
  <2>1. pc \in {"remove", "unwind"} => cur = 0
    BY DEF ArenaInv, FramesOrdered
  <2>2. \A i \in Linked \ {0} : Node(i) = ArenaNode => i = cur /\ pc' = "aborted"
    <3>. SUFFICES ASSUME NEW i \in Linked \ {0}, Node(i) = ArenaNode
                  PROVE  i = cur /\ pc' = "aborted"
      OBVIOUS
    <3>1. i = cur /\ (pc = "insert" \/ pc = "aborted" \/ pc = "unwind")
      BY DEF ArenaInv, NoEmptyNodes
    <3>2. pc # "aborted"
      BY DEF ArenaOps
    <3>. QED BY <2>1, <3>1, <3>2
  <2>. QED BY <1>1, <2>2, NodesKept DEF NoEmptyNodes, Node
<1>5. FramesLinked' /\ FramesOrdered'
  BY <1>1 DEF FramesLinked, FramesOrdered
<1>6. ArenaControl'
  <2>1. cur' \in Linked'
    BY <1>1, NodesKept DEF ArenaInv, ArenaControl
  <2>. QED BY <1>1, <2>1 DEF ArenaInv, ArenaControl
<1>. QED
  BY <1>2, <1>3, <1>4, <1>5, <1>6 DEF ArenaInv

LEMMA ArenaReturnInv ==
  ASSUME ArenaInv, Return
  PROVE  ArenaInv'
<1>1. /\ pc = "return" /\ pc' = "idle" /\ req' = NoRequest /\ reply' = None /\ cur' = 0
      /\ depth' = 0 /\ best' = None /\ stack' = <<>> /\ prune' = FALSE /\ nodes' = nodes
  BY DEF Return
<1>2. pc' \notin ArenaOps
  BY <1>1 DEF ArenaOps
<1>3. ArenaTypeOK'
  <2>1. cur' \in Index' /\ depth' \in 0..BITS
    BY <1>1, ArenaFacts, ShapeNow, NodesKept, VecFacts, BitsNat
  <2>2. stack' \in Seq([cur : Nat, bit : {0, 1}])
    BY <1>1
  <2>3. prune' \in BOOLEAN
    BY <1>1
  <2>. QED BY <1>1, <2>1, <2>2, <2>3 DEF ArenaInv, ArenaTypeOK
<1>4. LinksForward' /\ PrunedIsBlank'
  BY <1>1, NodesKept DEF ArenaInv
<1>5. NoEmptyNodes'
  <2>1. \A i \in Linked \ {0} : Node(i) # ArenaNode
    BY <1>1 DEF ArenaInv, NoEmptyNodes
  <2>. QED BY <1>1, <2>1, NodesKept DEF NoEmptyNodes, Node
<1>6. FramesLinked' /\ FramesOrdered'
  BY <1>1 DEF FramesLinked, FramesOrdered
<1>7. ArenaControl'
  <2>1. 0 \in Linked'
    BY DEF Linked
  <2>. QED BY <1>1, <1>2, <2>1 DEF ArenaInv, ArenaControl
<1>. QED
  BY <1>3, <1>4, <1>5, <1>6, <1>7 DEF ArenaInv

LEMMA ArenaMissInv ==
  ASSUME ArenaInv, RemoveMiss
  PROVE  ArenaInv'
<1>1. /\ pc = "remove" /\ pc' = "unwind" /\ ~prune /\ req \in Request /\ req.op = "remove"
      /\ reply = None
      /\ UNCHANGED <<nodes, req, reply, cur, depth, best, stack, prune>>
  BY DEF RemoveMiss, locals, ArenaInv, ArenaControl, ArenaOps
<1>2. ArenaTypeOK'
  <2>1. prune' \in BOOLEAN /\ cur' \in Index' /\ reply' \in Value \cup {None}
    BY <1>1, NodesKept DEF ArenaInv, ArenaTypeOK
  <2>. QED BY <1>1, <2>1 DEF ArenaInv, ArenaTypeOK
<1>3. LinksForward' /\ PrunedIsBlank'
  BY <1>1, NodesKept DEF ArenaInv
<1>4. NoEmptyNodes'
  <2>1. \A i \in Linked \ {0} : Node(i) # ArenaNode
    BY <1>1 DEF ArenaInv, NoEmptyNodes
  <2>. QED BY <1>1, <2>1, NodesKept DEF NoEmptyNodes, Node
<1>5. FramesLinked' /\ FramesOrdered'
  BY <1>1 DEF ArenaInv, FramesLinked, FramesOrdered, Node
<1>6. ArenaControl'
  <2>1. cur' \in Linked' /\ len' = len
    BY <1>1, NodesKept, OperandsKept DEF ArenaInv, ArenaControl
  <2>. QED BY <1>1, <2>1 DEF ArenaInv, ArenaControl, ArenaOps
<1>. QED
  BY <1>2, <1>3, <1>4, <1>5, <1>6 DEF ArenaInv

(* A value is stored in the target node, or taken out of it.               *)
LEMMA TargetWritten ==
  ASSUME ArenaInv, NEW v \in Value \cup {None},
         nodes' = WithValue(nodes, cur, v),
         pc \in {"insert", "remove"}
  PROVE  /\ nodes' \in Seq(NodeType) /\ Len(nodes') = Len(nodes)
         /\ Index' = Index /\ Linked' = Linked
         /\ LinksForward' /\ PrunedIsBlank'
         /\ nodes'[cur + 1] \in NodeType /\ nodes'[cur + 1].value = v
         /\ nodes'[cur + 1].children = Node(cur).children
         /\ \A i \in Index : i # cur => nodes'[i + 1] = Node(i)
         /\ \A i \in Linked \ {0} : i # cur => i \in Index /\ nodes'[i + 1] # ArenaNode
<1>1. /\ Tree(nodes) /\ cur \in IndexOf(nodes) /\ Index = IndexOf(nodes)
      /\ \A j : j \in Linked <=> j = 0 \/ \E i, b : LinkTo(nodes, i, b, j)
  BY ArenaFacts, ShapeNow
<1>2. /\ Tree(nodes') /\ Len(nodes') = Len(nodes) /\ IndexOf(nodes') = IndexOf(nodes)
      /\ nodes'[cur + 1] \in NodeType /\ nodes'[cur + 1].value = v
      /\ nodes'[cur + 1].children = nodes[cur + 1].children
      /\ \A i \in IndexOf(nodes) : i # cur => nodes'[i + 1] = nodes[i + 1]
      /\ \A i, b, j : LinkTo(nodes', i, b, j) <=> LinkTo(nodes, i, b, j)
  BY <1>1, ValueWritten
<1>3. Index' = Index /\ Linked' = Linked
  <2>1. \A j : j \in LinkedOf(nodes') <=> j \in LinkedOf(nodes)
    BY <1>2, LinkedMember
  <2>. QED BY <1>2, <2>1, ShapeNow, ShapeNext
<1>4. LinksForward' /\ nodes' \in Seq(NodeType)
  BY <1>2, TreeIs, ShapeNext
<1>5. cur \in Linked
  BY DEF ArenaInv, ArenaControl
<1>6. PrunedIsBlank'
  BY <1>1, <1>2, <1>3, <1>5 DEF ArenaInv, PrunedIsBlank, Node
<1>7. \A i \in Linked \ {0} : i # cur => i \in Index /\ nodes'[i + 1] # ArenaNode
  <2>1. \A i \in Linked \ {0} : i \in Index
    BY <1>1 DEF Tree
  <2>2. \A i \in Linked \ {0} : i # cur => Node(i) # ArenaNode
    BY DEF ArenaInv, NoEmptyNodes
  <2>. QED BY <1>1, <1>2, <2>1, <2>2 DEF Node
<1>. QED
  BY <1>1, <1>2, <1>3, <1>4, <1>6, <1>7 DEF Node

LEMMA ArenaStoreInv ==
  ASSUME ArenaInv, InsertStore
  PROVE  ArenaInv'
<1>1. /\ pc = "insert" /\ pc' = "return" /\ req \in Request /\ req.op = "insert"
      /\ nodes' = WithValue(nodes, cur, req.value)
      /\ reply' \in {Unit} \cup Done
      /\ UNCHANGED <<req, cur, depth, best, stack, prune>>
      /\ stack = <<>>
  BY DEF InsertStore, locals, ArenaInv, ArenaControl, ArenaOps, WithValue
<1>2. req.value \in Value /\ req.value # None
  BY <1>1, OperandFacts, NoneAssumption
<1>3. /\ nodes' \in Seq(NodeType) /\ Len(nodes') = Len(nodes)
      /\ Index' = Index /\ Linked' = Linked
      /\ LinksForward' /\ PrunedIsBlank'
      /\ nodes'[cur + 1].value = req.value
      /\ \A i \in Linked \ {0} : i # cur => nodes'[i + 1] # ArenaNode
  BY <1>1, <1>2, TargetWritten
<1>4. ArenaTypeOK'
  <2>1. prune' \in BOOLEAN /\ cur' \in Index'
    BY <1>1, <1>3 DEF ArenaInv, ArenaTypeOK
  <2>2. reply' \in ReplySet(req.op)'
    BY <1>1 DEF ReplySet, Done
  <2>3. nodes' \in Seq([children : [{0, 1} -> 0..NULL], value : Value \cup {None}])
    BY <1>3 DEF NodeType
  <2>. QED BY <1>1, <2>1, <2>2, <2>3 DEF ArenaInv, ArenaTypeOK
<1>5. NoEmptyNodes'
  <2>1. nodes'[cur + 1] # ArenaNode
    BY <1>2, <1>3, ArenaNodeType
  <2>. QED BY <1>3, <2>1 DEF NoEmptyNodes, Node
<1>6. FramesLinked' /\ FramesOrdered'
  BY <1>1 DEF FramesLinked, FramesOrdered
<1>7. ArenaControl'
  <2>1. cur' \in Linked'
    BY <1>1, <1>3 DEF ArenaInv, ArenaControl
  <2>. QED BY <1>1, <1>3, <2>1 DEF ArenaInv, ArenaControl, ArenaOps
<1>. QED
  BY <1>3, <1>4, <1>5, <1>6, <1>7 DEF ArenaInv

LEMMA ArenaTargetInv ==
  ASSUME ArenaInv, RemoveTarget
  PROVE  ArenaInv'
<1>1. /\ pc = "remove" /\ pc' = "unwind" /\ req \in Request /\ req.op = "remove"
      /\ nodes' = WithValue(nodes, cur, None)
      /\ reply' = Node(cur).value /\ prune' = IsLeaf(Node(cur))
      /\ UNCHANGED <<req, cur, depth, best, stack>>
  BY DEF RemoveTarget, ArenaInv, ArenaControl, ArenaOps, WithValue
<1>2. /\ nodes' \in Seq(NodeType) /\ Len(nodes') = Len(nodes)
      /\ Index' = Index /\ Linked' = Linked
      /\ LinksForward' /\ PrunedIsBlank'
      /\ nodes'[cur + 1] \in NodeType /\ nodes'[cur + 1].value = None
      /\ nodes'[cur + 1].children = Node(cur).children
      /\ \A i \in Index : i # cur => nodes'[i + 1] = Node(i)
      /\ \A i \in Linked \ {0} : i # cur => nodes'[i + 1] # ArenaNode
  BY <1>1, TargetWritten
<1>3. prune' <=> nodes'[cur + 1] = ArenaNode
  <2>1. prune' <=> Node(cur).children[0] = NULL /\ Node(cur).children[1] = NULL
    BY <1>1 DEF IsLeaf
  <2>. QED BY <1>2, <2>1, BlankNode, ArenaNodeType
<1>4. ArenaTypeOK'
  <2>1. cur' \in Index' /\ prune' \in BOOLEAN
    BY <1>1, <1>2 DEF ArenaInv, ArenaTypeOK, IsLeaf
  <2>2. reply' \in Value \cup {None}
    BY <1>1, ArenaFacts DEF NodeType
  <2>3. nodes' \in Seq([children : [{0, 1} -> 0..NULL], value : Value \cup {None}])
    BY <1>2 DEF NodeType
  <2>. QED BY <1>1, <2>1, <2>2, <2>3 DEF ArenaInv, ArenaTypeOK
<1>5. NoEmptyNodes'
  BY <1>1, <1>2, <1>3 DEF NoEmptyNodes, Node
<1>6. FramesLinked'
  <2>. SUFFICES ASSUME NEW i \in 1..Len(stack)
                PROVE  nodes'[stack[i].cur + 1].children[stack[i].bit]
                         = IF i < Len(stack) THEN stack[i + 1].cur ELSE cur
    BY <1>1, FrameFacts DEF FramesLinked, Node
  <2>1. stack[i].cur \in Nat /\ stack[i].cur < cur /\ cur \in Index
    BY FrameFacts DEF ArenaInv, FramesOrdered, ArenaTypeOK
  <2>2. stack[i].cur \in Index /\ stack[i].cur # cur
    BY <2>1, ArenaFacts DEF Index
  <2>. QED BY <1>2, <2>2, FrameFacts DEF ArenaInv, FramesLinked
<1>7. FramesOrdered'
  BY <1>1 DEF ArenaInv, FramesOrdered
<1>8. ArenaControl'
  <2>1. cur' \in Linked' /\ len' = len
    BY <1>1, <1>2, OperandsKept DEF ArenaInv, ArenaControl
  <2>2. prune' => (Node(cur) = ArenaNode)'
    BY <1>1, <1>3 DEF Node
  <2>. QED BY <1>1, <1>2, <2>1, <2>2 DEF ArenaInv, ArenaControl, ArenaOps
<1>. QED
  BY <1>2, <1>4, <1>5, <1>6, <1>7, <1>8 DEF ArenaInv

(* The child is missing and there is memory for it.                        *)
LEMMA GrowFacts ==
  ASSUME ArenaInv, InsertGrow, MaxNodes <= NULL
  PROVE  /\ pc = "insert" /\ depth < len /\ child = NULL
         /\ Len(nodes) \in Nat /\ Len(nodes) < NULL
         /\ nodes' = WithNode(nodes, cur, bit, Len(nodes))
         /\ cur' = Len(nodes) /\ depth' = depth + 1
         /\ UNCHANGED <<pc, req, reply, best, stack, prune>>
         /\ Tree(nodes') /\ Len(nodes') = Len(nodes) + 1
         /\ IndexOf(nodes') = IndexOf(nodes) \cup {Len(nodes)}
         /\ nodes'[Len(nodes) + 1] = ArenaNode
         /\ nodes'[cur + 1] \in NodeType /\ nodes'[cur + 1].value = Node(cur).value
         /\ \A i \in IndexOf(nodes) : i # cur => nodes'[i + 1] = Node(i)
         /\ \A i, d, j : LinkTo(nodes', i, d, j) <=>
                            LinkTo(nodes, i, d, j) \/ (i = cur /\ d = bit /\ j = Len(nodes))
<1>1. /\ pc = "insert" /\ depth < len /\ child = NULL /\ Len(nodes) < MaxNodes
      /\ nodes' = WithNode(nodes, cur, bit, AsIndex(Len(nodes)))
      /\ cur' = AsIndex(Len(nodes)) /\ depth' = depth + 1
      /\ UNCHANGED <<pc, req, reply, best, stack, prune>>
  BY DEF InsertGrow, WithNode
<1>2. Len(nodes) \in Nat /\ Tree(nodes) /\ cur \in IndexOf(nodes) /\ Len(nodes) < NULL
  BY <1>1, ArenaFacts, NullType
<1>3. AsIndex(Len(nodes)) = Len(nodes)
  BY <1>2, NullType DEF AsIndex
<1>4. bit \in {0, 1} /\ LinkOf(nodes, cur, bit) = NULL
  BY <1>1, BitFacts DEF ArenaOps
<1>5. nodes' = WithNode(nodes, cur, bit, Len(nodes)) /\ cur' = Len(nodes)
  BY ONLY <1>1, <1>3
<1>6. /\ Tree(nodes') /\ Len(nodes') = Len(nodes) + 1
      /\ IndexOf(nodes') = IndexOf(nodes) \cup {Len(nodes)}
      /\ nodes'[Len(nodes) + 1] = ArenaNode
      /\ nodes'[cur + 1] \in NodeType /\ nodes'[cur + 1].value = nodes[cur + 1].value
      /\ \A i \in IndexOf(nodes) : i # cur => nodes'[i + 1] = nodes[i + 1]
      /\ \A i, d, j : LinkTo(nodes', i, d, j) <=>
                         LinkTo(nodes, i, d, j) \/ (i = cur /\ d = bit /\ j = Len(nodes))
  <2>. DEFINE ms == nodes'
              new == Len(nodes)
  <2>1. ms = WithNode(nodes, cur, bit, new) /\ new = Len(nodes) /\ new < NULL
    BY <1>2, <1>5
  <2>. HIDE DEF ms, new
  <2>2. /\ Tree(ms) /\ Len(ms) = new + 1
        /\ IndexOf(ms) = IndexOf(nodes) \cup {new}
        /\ ms[new + 1] = ArenaNode
        /\ ms[cur + 1] \in NodeType /\ ms[cur + 1].value = nodes[cur + 1].value
        /\ \A i \in IndexOf(nodes) : i # cur => ms[i + 1] = nodes[i + 1]
        /\ \A i, d, j : LinkTo(ms, i, d, j) <=>
                           LinkTo(nodes, i, d, j) \/ (i = cur /\ d = bit /\ j = new)
    BY ONLY <1>2, <1>4, <2>1, NodeGrown
  <2>. QED BY <2>2 DEF ms, new
<1>. QED
  BY <1>1, <1>2, <1>5, <1>6 DEF Node

LEMMA ArenaGrowInv ==
  ASSUME ArenaInv, InsertGrow, MaxNodes <= NULL
  PROVE  ArenaInv'
<1>. DEFINE new == Len(nodes)
<1>1. /\ pc = "insert" /\ depth < len /\ child = NULL
      /\ new \in Nat /\ new < NULL
      /\ cur' = new /\ depth' = depth + 1
      /\ UNCHANGED <<pc, req, reply, best, stack, prune>>
      /\ Tree(nodes') /\ Len(nodes') = new + 1
      /\ IndexOf(nodes') = IndexOf(nodes) \cup {new}
      /\ nodes'[new + 1] = ArenaNode
      /\ nodes'[cur + 1] \in NodeType
      /\ \A i \in IndexOf(nodes) : i # cur => nodes'[i + 1] = Node(i)
      /\ \A i, d, j : LinkTo(nodes', i, d, j) <=>
                         LinkTo(nodes, i, d, j) \/ (i = cur /\ d = bit /\ j = new)
  BY GrowFacts
<1>2. Len(nodes') <= MaxNodes
  BY <1>1, NullType DEF InsertGrow
<1>. HIDE DEF new
<1>3. /\ cur \in Linked /\ cur \in IndexOf(nodes) /\ Index = IndexOf(nodes)
      /\ req \in Request /\ req.op = pc /\ reply = None /\ stack = <<>> /\ ~prune
      /\ \A j : j \in Linked <=> j = 0 \/ \E i, b : LinkTo(nodes, i, b, j)
  BY <1>1, ArenaFacts, ShapeNow DEF ArenaInv, ArenaControl, ArenaOps
<1>4. Index' = IndexOf(nodes') /\ LinksForward' /\ nodes' \in Seq(NodeType)
  BY <1>1, TreeIs, ShapeNext
<1>5. \A j : j \in Linked' <=> j \in Linked \/ j = new
  <2>1. \A j : j \in LinkedOf(nodes') <=> j = 0 \/ \E i, b : LinkTo(nodes', i, b, j)
    BY LinkedMember
  <2>. QED BY <1>1, <1>3, <2>1, ShapeNext
<1>6. new \notin IndexOf(nodes) /\ new > 0
  BY <1>1, ArenaFacts DEF IndexOf, new
<1>7. nodes'[cur + 1] # ArenaNode
  <2>1. LinkTo(nodes', cur, bit, new)
    BY <1>1
  <2>. QED BY <2>1, ArenaNodeType DEF LinkTo, LinkOf
<1>8. ArenaTypeOK'
  <2>1. cur' \in Index'
    BY <1>1, <1>4
  <2>2. nodes' \in Seq([children : [{0, 1} -> 0..NULL], value : Value \cup {None}])
    BY <1>4 DEF NodeType
  <2>3. depth' \in 0..BITS
    BY <1>1, BitFacts DEF ArenaOps
  <2>4. prune' \in BOOLEAN
    BY <1>1 DEF ArenaInv, ArenaTypeOK
  <2>5. reply' \in Value \cup {None}
    BY <1>1, <1>3
  <2>. QED BY <1>1, <2>1, <2>2, <2>3, <2>4, <2>5 DEF ArenaInv, ArenaTypeOK
<1>9. PrunedIsBlank'
  BY <1>1, <1>3, <1>4, <1>5 DEF ArenaInv, PrunedIsBlank, Node
<1>10. NoEmptyNodes'
  <2>. SUFFICES ASSUME NEW i \in Linked' \ {0}, nodes'[i + 1] = ArenaNode
                PROVE  i = cur'
    BY <1>1 DEF NoEmptyNodes, Node
  <2>1. CASE i = new
    BY <1>1, <2>1
  <2>2. CASE i \in Linked \ {0}
    <3>1. i \in IndexOf(nodes) /\ i # cur
      BY <1>3, <1>7, <2>2, ArenaFacts DEF Tree
    <3>2. Node(i) = ArenaNode
      BY <1>1, <3>1
    <3>. QED BY <2>2, <3>1, <3>2 DEF ArenaInv, NoEmptyNodes
  <2>. QED BY <1>5, <2>1, <2>2
<1>11. FramesLinked' /\ FramesOrdered'
  BY <1>1, <1>3 DEF FramesLinked, FramesOrdered
<1>12. ArenaControl'
  <2>1. cur' \in Linked' /\ len' = len /\ depth' <= len
    BY <1>1, <1>5, OperandsKept, BitFacts DEF ArenaOps
  <2>. QED BY <1>1, <1>2, <1>3, <2>1 DEF ArenaInv, ArenaControl, ArenaOps
<1>. QED
  BY <1>4, <1>8, <1>9, <1>10, <1>11, <1>12 DEF ArenaInv
(* The frame on top of the stack: the parent of the current node, and the  *)
(* side it is on.                                                          *)
Parent == stack[Len(stack)].cur
Side   == stack[Len(stack)].bit

LEMMA Popped ==
  ASSUME NEW S, NEW s \in Seq(S), s # <<>>, NEW t, t = Front(s)
  PROVE  /\ t \in Seq(S)
         /\ Len(t) = Len(s) - 1 /\ DOMAIN t = 1..(Len(s) - 1)
         /\ \A i \in 1..(Len(s) - 1) : t[i] = s[i]
<1>1. Len(s) \in Nat /\ Len(s) > 0 /\ \A i \in 1..Len(s) : s[i] \in S
  OBVIOUS
<1>2. t = SubSeq(s, 1, Len(s) - 1)
  BY DEF Front
<1>3. /\ t \in Seq(S) /\ Len(t) = IF 1 <= Len(s) - 1 THEN Len(s) - 1 - 1 + 1 ELSE 0
      /\ \A i \in 1..(Len(s) - 1 - 1 + 1) : t[i] = s[1 + i - 1]
  <2>1. Len(s) - 1 \in Int /\ \A i \in 1..(Len(s) - 1) : s[i] \in S
    BY <1>1
  <2>. QED BY ONLY <1>2, <2>1, 1 \in Int, SubSeqProperties
<1>. DEFINE n == Len(s)
<1>4. n \in Nat /\ n > 0 /\ Len(t) = IF 1 <= n - 1 THEN n - 1 - 1 + 1 ELSE 0
  BY <1>1, <1>3
<1>. HIDE DEF n
<1>5. Len(t) = n - 1 /\ \A i \in 1..(n - 1) : i \in 1..(n - 1 - 1 + 1) /\ 1 + i - 1 = i
  BY ONLY <1>4
<1>6. DOMAIN t = 1..(n - 1)
  BY ONLY <1>3, <1>5
<1>7. \A i \in 1..(n - 1) : t[i] = s[i]
  BY <1>3, <1>5 DEF n
<1>. QED
  BY <1>3, <1>5, <1>6, <1>7 DEF n

(* One suspended call of remove_recursive resumes.                         *)
LEMMA UnwindFacts ==
  ASSUME ArenaInv, RemoveUnwind, MaxNodes <= NULL
  PROVE  /\ pc = "unwind" /\ stack # <<>> /\ Len(stack) \in Nat /\ Len(stack) > 0
         /\ Parent \in IndexOf(nodes) /\ Side \in {0, 1} /\ LinkTo(nodes, Parent, Side, cur)
         /\ Parent < cur
         /\ nodes' = IF prune THEN WithoutLink(nodes, Parent, Side) ELSE nodes
         /\ cur' = Parent /\ depth' = depth - 1 /\ stack' = Front(stack)
         /\ UNCHANGED <<pc, req, reply, best>>
         /\ prune' = Empty(nodes'[Parent + 1])
<1>. DEFINE left == IF prune THEN [Node(Parent) EXCEPT !.children[Side] = NULL]
                             ELSE Node(Parent)
<1>1. /\ pc = "unwind" /\ stack # <<>>
      /\ Len(stack) \in Nat /\ Len(stack) > 0 /\ Len(stack) \in DOMAIN stack
      /\ Parent \in Nat /\ Side \in {0, 1}
  BY FrameFacts DEF RemoveUnwind, Parent, Side
<1>2. /\ nodes' = [nodes EXCEPT ![Parent + 1] = left]
      /\ prune' = Empty(left)
      /\ cur' = Parent /\ depth' = depth - 1 /\ stack' = Front(stack)
      /\ UNCHANGED <<pc, req, reply, best>>
  BY DEF RemoveUnwind, Parent, Side, Last
<1>3. Parent < cur
  BY <1>1 DEF Parent, ArenaInv, FramesOrdered
<1>4. cur \in 0..(Len(nodes) - 1) /\ Len(nodes) \in Nat /\ Len(nodes) <= MaxNodes
  BY ArenaFacts DEF ArenaInv, ArenaControl, IndexOf
<1>5. cur # NULL /\ Parent \in IndexOf(nodes)
  BY <1>1, <1>3, <1>4, NullType DEF IndexOf
<1>6. LinkOf(nodes, Parent, Side) = cur
  BY <1>1 DEF ArenaInv, FramesLinked, Parent, Side, Node, LinkOf
<1>7. LinkTo(nodes, Parent, Side, cur)
  BY <1>1, <1>5, <1>6 DEF LinkTo
<1>8. nodes \in Seq(NodeType) /\ Parent + 1 \in 1..Len(nodes)
  BY <1>5, ArenaFacts, VecFacts DEF Tree
<1>9. nodes' = IF prune THEN WithoutLink(nodes, Parent, Side) ELSE nodes
  <2>1. CASE prune
    BY <1>2, <2>1 DEF WithoutLink, Node
  <2>2. CASE ~prune
    <3>1. nodes' = [nodes EXCEPT ![Parent + 1] = nodes[Parent + 1]]
      BY <1>2, <2>2 DEF Node
    <3>2. nodes' = nodes
      BY ONLY <3>1, <1>8
    <3>. QED BY <2>2, <3>2
  <2>. QED BY <2>1, <2>2
<1>10. nodes'[Parent + 1] = left
  <2>. HIDE DEF left
  <2>. QED BY ONLY <1>2, <1>8
<1>. HIDE DEF left
<1>. QED
  BY <1>1, <1>2, <1>3, <1>5, <1>7, <1>9, <1>10

LEMMA Unwound ==
  ASSUME ArenaInv, RemoveUnwind, MaxNodes <= NULL
  PROVE  /\ Tree(nodes') /\ Len(nodes') = Len(nodes) /\ IndexOf(nodes') = IndexOf(nodes)
         /\ nodes'[Parent + 1] \in NodeType
         /\ nodes'[Parent + 1].value = Node(Parent).value
         /\ \A i \in IndexOf(nodes) : i # Parent => nodes'[i + 1] = Node(i)
         /\ \A i, d, j : LinkTo(nodes', i, d, j) <=>
              LinkTo(nodes, i, d, j) /\ ~(prune /\ i = Parent /\ d = Side)
         /\ \A j : j \in Linked' <=> j \in Linked /\ ~(prune /\ j = cur)
         /\ prune' \in BOOLEAN /\ (prune' <=> nodes'[Parent + 1] = ArenaNode)
<1>1. /\ Parent \in IndexOf(nodes) /\ Side \in {0, 1} /\ LinkTo(nodes, Parent, Side, cur)
      /\ Parent < cur /\ Parent \in Nat
      /\ nodes' = IF prune THEN WithoutLink(nodes, Parent, Side) ELSE nodes
      /\ prune' = Empty(nodes'[Parent + 1])
      /\ Tree(nodes)
      /\ Node(Parent) \in NodeType
      /\ \A j : j \in Linked <=> j = 0 \/ \E i, b : LinkTo(nodes, i, b, j)
  BY UnwindFacts, ArenaFacts DEF IndexOf
<1>2. /\ Tree(nodes') /\ Len(nodes') = Len(nodes) /\ IndexOf(nodes') = IndexOf(nodes)
      /\ nodes'[Parent + 1] \in NodeType
      /\ nodes'[Parent + 1].value = nodes[Parent + 1].value
      /\ \A i \in IndexOf(nodes) : i # Parent => nodes'[i + 1] = nodes[i + 1]
      /\ \A i, d, j : LinkTo(nodes', i, d, j) <=>
           LinkTo(nodes, i, d, j) /\ ~(prune /\ i = Parent /\ d = Side)
  <2>1. CASE prune
    <3>1. nodes' = WithoutLink(nodes, Parent, Side)
      BY <1>1, <2>1
    <3>. DEFINE ms == nodes'
                c == Parent
                b == Side
    <3>2. ms = WithoutLink(nodes, c, b) /\ c \in IndexOf(nodes) /\ b \in {0, 1} /\ Tree(nodes)
      BY <1>1, <3>1
    <3>. HIDE DEF ms, c, b
    <3>3. /\ Tree(ms)
          /\ Len(ms) = Len(nodes) /\ IndexOf(ms) = IndexOf(nodes)
          /\ ms[c + 1] \in NodeType /\ ms[c + 1].value = nodes[c + 1].value
          /\ \A i \in IndexOf(nodes) : i # c => ms[i + 1] = nodes[i + 1]
          /\ \A i, d, j : LinkTo(ms, i, d, j) <=> LinkTo(nodes, i, d, j) /\ ~(i = c /\ d = b)
      <4>1. Tree(ms) /\ Len(ms) = Len(nodes) /\ IndexOf(ms) = IndexOf(nodes)
        BY ONLY <3>2, LinkCut
      <4>2. ms[c + 1] \in NodeType /\ ms[c + 1].value = nodes[c + 1].value
        BY ONLY <3>2, LinkCut
      <4>3. \A i, d, j : LinkTo(ms, i, d, j) <=> LinkTo(nodes, i, d, j) /\ ~(i = c /\ d = b)
        BY ONLY <3>2, LinkCut
      <4>4. \A i \in IndexOf(nodes) : i # c => ms[i + 1] = nodes[i + 1]
        <5>1. nodes \in Seq(NodeType) /\ Len(nodes) \in Nat
          BY <3>2 DEF Tree
        <5>2. \A i \in IndexOf(nodes) : i + 1 \in 1..Len(nodes) /\ (i # c => i + 1 # c + 1)
          BY ONLY <3>2, <5>1 DEF IndexOf
        <5>3. \A k \in 1..Len(nodes) : k # c + 1 => ms[k] = nodes[k]
          BY ONLY <3>2, <5>1 DEF WithoutLink
        <5>. QED BY ONLY <5>2, <5>3
      <4>. QED BY ONLY <4>1, <4>2, <4>3, <4>4
    <3>. QED BY <2>1, <3>3 DEF ms, c, b
  <2>2. CASE ~prune
    BY <1>1, <2>2 DEF Node
  <2>. QED BY <2>1, <2>2
<1>3. \A j : j \in Linked' <=> j \in Linked /\ ~(prune /\ j = cur)
  <2>1. \A j : j \in Linked' <=> j = 0 \/ \E i, b : LinkTo(nodes', i, b, j)
    <3>1. \A j : j \in LinkedOf(nodes') <=> j = 0 \/ \E i, b : LinkTo(nodes', i, b, j)
      BY LinkedMember
    <3>. QED BY <3>1, ShapeNext
  <2>2. \A i, b : LinkTo(nodes, i, b, cur) => i = Parent /\ b = Side
    BY <1>1 DEF Tree
  <2>3. cur # 0
    BY <1>1, ArenaFacts DEF IndexOf
  <2>4. \A i, b : LinkTo(nodes, i, b, cur) => cur = cur
    OBVIOUS
  <2>5. \A i, b, j : LinkTo(nodes, i, b, j) /\ i = Parent /\ b = Side => j = cur
    BY <1>1 DEF LinkTo
  <2>6. ASSUME NEW j PROVE j \in Linked' <=> j \in Linked /\ ~(prune /\ j = cur)
    BY <1>1, <1>2, <2>1, <2>2, <2>3, <2>5
  <2>. QED BY <2>6
<1>4. prune' <=> nodes'[Parent + 1] = ArenaNode
  <2>. DEFINE n == nodes'[Parent + 1]
  <2>1. n \in NodeType /\ prune' = Empty(n)
    BY <1>1, <1>2
  <2>. HIDE DEF n
  <2>2. Empty(n) <=> n.value = None /\ n.children[0] = NULL /\ n.children[1] = NULL
    BY DEF Empty, IsLeaf
  <2>3. Empty(n) <=> n = ArenaNode
    BY <2>1, <2>2, BlankNode, ArenaNodeType
  <2>. QED BY <2>1, <2>3 DEF n
<1>5. prune' \in BOOLEAN
  BY <1>1 DEF Empty
<1>. QED
  BY <1>2, <1>3, <1>4, <1>5 DEF Node

LEMMA ArenaUnwindInv ==
  ASSUME ArenaInv, RemoveUnwind, MaxNodes <= NULL
  PROVE  ArenaInv'
<1>1. /\ pc = "unwind" /\ stack # <<>> /\ Len(stack) \in Nat /\ Len(stack) > 0
      /\ Parent \in IndexOf(nodes) /\ LinkTo(nodes, Parent, Side, cur)
      /\ Parent < cur /\ Parent \in Nat /\ cur \in Nat
      /\ cur' = Parent /\ depth' = depth - 1 /\ stack' = Front(stack)
      /\ UNCHANGED <<pc, req, reply, best>>
      /\ req \in Request /\ req.op = "remove"
      /\ depth \in 0..BITS /\ depth <= len /\ len \in 0..BITS /\ Len(stack) = depth
      /\ cur \in Linked
      /\ prune => Node(cur) = ArenaNode
  <2>1. cur \in Nat /\ Parent \in Nat
    BY UnwindFacts, ArenaFacts DEF IndexOf
  <2>2. req \in Request /\ req.op = "remove" /\ pc = "unwind"
    BY UnwindFacts DEF ArenaInv, ArenaControl
  <2>3. len \in 0..BITS
    BY <2>2, OperandFacts DEF ArenaOps
  <2>. QED BY UnwindFacts, <2>1, <2>2, <2>3 DEF ArenaInv, ArenaControl, ArenaTypeOK
<1>2. /\ Tree(nodes') /\ Len(nodes') = Len(nodes) /\ IndexOf(nodes') = IndexOf(nodes)
      /\ \A i \in IndexOf(nodes) : i # Parent => nodes'[i + 1] = Node(i)
      /\ \A j : j \in Linked' <=> j \in Linked /\ ~(prune /\ j = cur)
      /\ prune' \in BOOLEAN /\ (prune' <=> nodes'[Parent + 1] = ArenaNode)
  BY Unwound
<1>3. /\ stack \in Seq(FrameType) /\ stack' \in Seq(FrameType)
      /\ Len(stack') = Len(stack) - 1 /\ DOMAIN stack' = 1..(Len(stack) - 1)
      /\ DOMAIN stack = 1..Len(stack)
      /\ \A i \in 1..(Len(stack) - 1) : stack'[i] = stack[i]
  <2>1. stack \in Seq(FrameType) /\ stack # <<>>
    BY <1>1, FrameFacts
  <2>2. /\ stack' \in Seq(FrameType)
        /\ Len(stack') = Len(stack) - 1 /\ DOMAIN stack' = 1..(Len(stack) - 1)
        /\ \A i \in 1..(Len(stack) - 1) : stack'[i] = stack[i]
    <3>. DEFINE t == stack'
    <3>1. t = Front(stack)
      BY <1>1
    <3>. HIDE DEF t
    <3>2. /\ t \in Seq(FrameType)
          /\ Len(t) = Len(stack) - 1 /\ DOMAIN t = 1..(Len(stack) - 1)
          /\ \A i \in 1..(Len(stack) - 1) : t[i] = stack[i]
      BY ONLY <2>1, <3>1, Popped
    <3>. QED BY <3>2 DEF t
  <2>. QED BY <2>1, <2>2, FrameFacts
<1>4. Index' = Index /\ Index = IndexOf(nodes) /\ LinksForward' /\ nodes' \in Seq(NodeType)
  BY <1>2, TreeIs, ShapeNow, ShapeNext
<1>5. Parent \in Linked /\ Parent \in Linked'
  <2>1. Node(Parent) # ArenaNode
    BY <1>1, ArenaNodeType DEF LinkTo, LinkOf, Node
  <2>2. Parent \in Linked
    BY <1>1, <1>4, <2>1 DEF ArenaInv, PrunedIsBlank
  <2>. QED BY <1>1, <1>2, <2>2
<1>6. ArenaTypeOK'
  <2>1. cur' \in Index'
    BY <1>1, <1>4
  <2>2. nodes' \in Seq([children : [{0, 1} -> 0..NULL], value : Value \cup {None}])
    BY <1>4 DEF NodeType
  <2>3. depth' \in 0..BITS
    BY <1>1, BitsNat
  <2>4. reply' \in Value \cup {None}
    BY <1>1 DEF ArenaInv, ArenaTypeOK
  <2>5. stack' \in Seq([cur : Nat, bit : {0, 1}])
    BY <1>3 DEF FrameType
  <2>6. prune' \in BOOLEAN
    BY <1>2
  <2>. QED BY <1>1, <2>1, <2>2, <2>3, <2>4, <2>5, <2>6 DEF ArenaInv, ArenaTypeOK
<1>7. PrunedIsBlank'
  <2>. SUFFICES ASSUME NEW i \in IndexOf(nodes), i \notin Linked'
                PROVE  nodes'[i + 1] = ArenaNode
    BY <1>4 DEF PrunedIsBlank, Node
  <2>1. nodes'[i + 1] = Node(i)
    BY <1>2, <1>5
  <2>2. Node(i) = ArenaNode
    BY <1>1, <1>2, <1>4 DEF ArenaInv, PrunedIsBlank
  <2>. QED BY <2>1, <2>2
<1>8. NoEmptyNodes'
  <2>. SUFFICES ASSUME NEW i \in Linked' \ {0}, nodes'[i + 1] = ArenaNode
                PROVE  i = Parent /\ prune'
    BY <1>1 DEF NoEmptyNodes, Node
  <2>1. CASE i = Parent
    BY <1>2, <2>1
  <2>2. CASE i # Parent
    <3>1. i \in IndexOf(nodes)
      BY <1>2, ArenaFacts DEF Tree
    <3>2. Node(i) = ArenaNode /\ i \in Linked \ {0}
      BY <1>2, <2>2, <3>1
    <3>3. i = cur /\ prune
      BY <1>1, <3>2 DEF ArenaInv, NoEmptyNodes
    <3>. QED BY <1>2, <3>3
  <2>. QED BY <2>1, <2>2
<1>9. \A i \in 1..(Len(stack) - 1) :
         /\ i \in DOMAIN stack /\ i + 1 \in DOMAIN stack
         /\ stack[i].cur \in Nat /\ stack[i].cur < Parent
  <2>1. \A i, j \in DOMAIN stack : i < j => stack[i].cur < stack[j].cur
    BY DEF ArenaInv, FramesOrdered
  <2>2. \A i \in 1..(Len(stack) - 1) :
          /\ i \in 1..Len(stack) /\ i + 1 \in 1..Len(stack)
          /\ Len(stack) \in 1..Len(stack) /\ i < Len(stack)
    BY ONLY <1>1
  <2>. QED BY <1>3, <2>1, <2>2, FrameFacts DEF Parent
<1>10. FramesLinked'
  <2>. SUFFICES ASSUME NEW i \in 1..(Len(stack) - 1)
                PROVE  nodes'[stack[i].cur + 1].children[stack[i].bit]
                         = IF i < Len(stack) - 1 THEN stack'[i + 1].cur ELSE Parent
    BY <1>1, <1>3 DEF FramesLinked, Node
  <2>1. stack[i].cur \in IndexOf(nodes) /\ stack[i].cur # Parent
    BY <1>1, <1>9 DEF IndexOf
  <2>2. Node(stack[i].cur).children[stack[i].bit] = stack[i + 1].cur
    BY <1>1, <1>9, <1>3 DEF ArenaInv, FramesLinked
  <2>3. nodes'[stack[i].cur + 1] = Node(stack[i].cur)
    BY <1>2, <2>1
  <2>4. CASE i < Len(stack) - 1
    <3>1. stack'[i + 1] = stack[i + 1]
      BY <1>1, <1>3, <2>4
    <3>. QED BY <2>2, <2>3, <2>4, <3>1
  <2>5. CASE ~(i < Len(stack) - 1)
    <3>1. i + 1 = Len(stack)
      BY <1>1, <2>5
    <3>. QED BY <2>2, <2>3, <2>5, <3>1 DEF Parent
  <2>. QED BY <2>4, <2>5
<1>11. FramesOrdered'
  <2>1. \A i \in DOMAIN stack' : stack'[i].cur < cur'
    BY <1>1, <1>3, <1>9
  <2>2. \A i, j \in DOMAIN stack' : i < j => stack'[i].cur < stack'[j].cur
    <3>1. \A i, j \in DOMAIN stack : i < j => stack[i].cur < stack[j].cur
      BY DEF ArenaInv, FramesOrdered
    <3>2. \A i \in DOMAIN stack' : i \in DOMAIN stack /\ stack'[i] = stack[i]
      BY ONLY <1>3, <1>9
    <3>. QED BY ONLY <3>1, <3>2
  <2>3. stack[1].cur = 0
    BY <1>1 DEF ArenaInv, FramesOrdered
  <2>4. stack' # <<>> => stack'[1].cur = 0
    <3>1. stack' # <<>> => 1 \in 1..(Len(stack) - 1)
      BY <1>1, <1>3
    <3>. QED BY <1>3, <2>3, <3>1
  <2>5. stack' = <<>> => cur' = 0
    <3>1. stack' = <<>> => Len(stack) = 1
      BY <1>1, <1>3
    <3>. QED BY <1>1, <2>3, <3>1 DEF Parent
  <2>. QED BY <2>1, <2>2, <2>4, <2>5 DEF FramesOrdered
<1>12. ArenaControl'
  <2>1. cur' \in Linked' /\ len' = len
    BY <1>1, <1>5, OperandsKept
  <2>2. prune' => (Node(cur) = ArenaNode)'
    BY <1>1, <1>2 DEF Node
  <2>3. depth' <= len' /\ Len(stack') = depth'
    BY <1>1, <1>3, <2>1, BitsNat
  <2>. QED BY <1>1, <1>2, <2>1, <2>2, <2>3 DEF ArenaInv, ArenaControl, ArenaOps
<1>. QED
  BY <1>4, <1>6, <1>7, <1>8, <1>10, <1>11, <1>12 DEF ArenaInv
------------------------------------------------------------------------------
(* Every step keeps the invariant.                                         *)
LEMMA ArenaNextInv ==
  ASSUME ArenaInv, [Next]_vars, MaxNodes <= NULL
  PROVE  ArenaInv'
<1>1. CASE UNCHANGED vars
  <2>1. /\ UNCHANGED <<nodes, pc, req, reply, cur, depth, best, stack, prune>>
        /\ len' = len
    BY <1>1, OperandsKept DEF vars, locals
  <2>2. ArenaTypeOK'
    <3>1. /\ cur' \in Index' /\ prune' \in BOOLEAN
          /\ ReplySet(req.op)' = ReplySet(req.op)
      BY <2>1, NodesKept DEF ArenaInv, ArenaTypeOK, ReplySet
    <3>. QED BY <2>1, <3>1 DEF ArenaInv, ArenaTypeOK
  <2>3. LinksForward' /\ PrunedIsBlank'
    BY <2>1, NodesKept DEF ArenaInv
  <2>4. NoEmptyNodes' /\ FramesLinked' /\ FramesOrdered'
    BY <2>1, NodesKept DEF ArenaInv, NoEmptyNodes, FramesLinked, FramesOrdered, Node
  <2>5. ArenaControl'
    BY <2>1, NodesKept DEF ArenaInv, ArenaControl, Node
  <2>. QED BY <2>2, <2>3, <2>4, <2>5 DEF ArenaInv
<1>2. CASE Call
  BY <1>2, ArenaCallInv
<1>3. CASE Return
  BY <1>3, ArenaReturnInv
<1>4. CASE InsertGrow
  BY <1>4, ArenaGrowInv
<1>5. CASE InsertStore
  BY <1>5, ArenaStoreInv
<1>6. CASE RemoveMiss
  BY <1>6, ArenaMissInv
<1>7. CASE RemoveTarget
  BY <1>7, ArenaTargetInv
<1>8. CASE RemoveUnwind
  BY <1>8, ArenaUnwindInv
<1>9. CASE InsertFollow \/ ContainsDescend \/ RemoveDescend
  <2>1. /\ pc \in ArenaOps /\ depth < len /\ child # NULL /\ Descend
        /\ UNCHANGED <<nodes, pc, req, reply, best, prune>>
        /\ stack' = IF pc = "remove" THEN Append(stack, Frame) ELSE stack
    BY <1>9 DEF InsertFollow, ContainsDescend, RemoveDescend, ArenaOps
  <2>2. best' \in Value \cup {None}
    BY <2>1 DEF ArenaInv, ArenaTypeOK
  <2>. QED BY <2>1, <2>2, ArenaDescendInv
<1>10. CASE MatchDescend
  <2>1. /\ pc = "longest_match" /\ depth < len /\ child # NULL /\ Descend
        /\ UNCHANGED <<nodes, pc, req, reply, prune>>
        /\ best' = Better(best, Node(child).value)
        /\ stack' = IF pc = "remove" THEN Append(stack, Frame) ELSE stack
        /\ pc \in ArenaOps
    BY <1>10 DEF MatchDescend, ArenaOps
  <2>2. Node(child) \in NodeType
    BY <2>1, BitFacts, ArenaFacts DEF Tree
  <2>3. best' \in Value \cup {None}
    BY <2>1, <2>2 DEF Better, NodeType, ArenaInv, ArenaTypeOK
  <2>. QED BY <2>1, <2>3, ArenaDescendInv
<1>11. CASE InsertAbort
  <2>1. /\ pc \in ArenaOps \cup {"unwind"} /\ stack = <<>>
        /\ pc = "insert" /\ pc' = "aborted" /\ reply' = reply
        /\ UNCHANGED <<nodes, req, locals>>
    BY <1>11 DEF InsertAbort, ArenaInv, ArenaControl, ArenaOps
  <2>. QED BY <2>1, ArenaFinishInv
<1>12. CASE MatchEnd \/ ContainsEnd \/ RemoveFinish
  <2>1. /\ UNCHANGED <<nodes, req, locals>>
        /\ pc' = "return" /\ pc # "insert" /\ pc \in ArenaOps \cup {"unwind"}
    BY <1>12 DEF MatchEnd, ContainsEnd, RemoveFinish, Finish, ArenaOps
  <2>2. stack = <<>>
    BY <1>12 DEF MatchEnd, ContainsEnd, RemoveFinish, ArenaInv, ArenaControl
  <2>3. reply' \in ReplySet(req.op)
    <3>1. CASE MatchEnd
      <4>1. reply' = best /\ req.op = "longest_match"
        BY <3>1 DEF MatchEnd, Finish, ArenaInv, ArenaControl, ArenaOps
      <4>. QED BY <4>1 DEF ReplySet, ArenaInv, ArenaTypeOK
    <3>2. CASE ContainsEnd
      <4>1. reply' \in BOOLEAN /\ req.op = "contains"
        BY <3>2 DEF ContainsEnd, Finish, ArenaInv, ArenaControl, ArenaOps
      <4>. QED BY <4>1 DEF ReplySet
    <3>3. CASE RemoveFinish
      <4>1. reply' = reply /\ req.op = "remove" /\ pc = "unwind"
        BY <3>3 DEF RemoveFinish, Finish, ArenaInv, ArenaControl
      <4>. QED BY <4>1 DEF ReplySet, ArenaInv, ArenaTypeOK
    <3>. QED BY <1>12, <3>1, <3>2, <3>3
  <2>. QED BY <2>1, <2>2, <2>3, ArenaFinishInv
<1>. QED
  BY <1>1, <1>2, <1>3, <1>4, <1>5, <1>6, <1>7, <1>8, <1>9, <1>10, <1>11, <1>12
     DEF Next, Step

(* What every behaviour keeps while the memory holds fewer nodes than      *)
(* NULL + 1, so that `as u32' loses nothing.                               *)
THEOREM ArenaInductive ==
  ASSUME MaxNodes <= NULL
  PROVE  Spec => []ArenaInv
<1>1. Init => ArenaInv
  BY ArenaInitInv
<1>2. ArenaInv /\ [Next]_vars => ArenaInv'
  BY ArenaNextInv
<1>. QED
  BY <1>1, <1>2, PTL DEF Spec

(* The state of the arena is always well typed.                            *)
THEOREM ArenaTypeCorrect ==
  ASSUME MaxNodes <= NULL
  PROVE  Spec => []ArenaTypeOK
<1>1. ArenaInv => ArenaTypeOK
  BY DEF ArenaInv
<1>. QED
  BY <1>1, ArenaInductive, PTL

(* Links lead to younger nodes of the Vec, and to each from one place at   *)
(* most: a walk from the root ends, however often paths are pruned.        *)
THEOREM ArenaLinks ==
  ASSUME MaxNodes <= NULL
  PROVE  Spec => []LinksForward
<1>1. ArenaInv => LinksForward
  BY DEF ArenaInv
<1>. QED
  BY <1>1, ArenaInductive, PTL

(* What pruning leaves behind in the Vec holds no value and no link.       *)
THEOREM ArenaPruned ==
  ASSUME MaxNodes <= NULL
  PROVE  Spec => []PrunedIsBlank
<1>1. ArenaInv => PrunedIsBlank
  BY DEF ArenaInv
<1>. QED
  BY <1>1, ArenaInductive, PTL

(* Between calls every linked node has a value or a child: remove prunes   *)
(* all that it empties.                                                    *)
THEOREM ArenaNoEmptyNodes ==
  ASSUME MaxNodes <= NULL
  PROVE  Spec => []NoEmptyNodes
<1>1. ArenaInv => NoEmptyNodes
  BY DEF ArenaInv
<1>. QED
  BY <1>1, ArenaInductive, PTL

(* A suspended frame of remove_recursive still has the link it followed.   *)
THEOREM ArenaFrames ==
  ASSUME MaxNodes <= NULL
  PROVE  Spec => []FramesLinked
<1>1. ArenaInv => FramesLinked
  BY DEF ArenaInv
<1>. QED
  BY <1>1, ArenaInductive, PTL
------------------------------------------------------------------------------
(* The walk along an address.                                              *)
(* The links followed along address a, over any Vec.                       *)
Hop(ns, i, b) == IF i = NULL THEN NULL ELSE LinkOf(ns, i, b)

WalkStep(ns, a, f, n) ==
  [d \in 0..n |-> IF d = 0 THEN 0
                  ELSE IF f[d - 1] = NULL THEN NULL
                  ELSE ns[f[d - 1] + 1].children[a[d]]]

Walk(ns, a) == CHOOSE f : f = WalkStep(ns, a, f, BITS)

(* The node d bits down, or NULL.                                          *)
NodeAt(ns, a, d) == Walk(ns, a)[d]

(* The value kept for prefix p, or None.                                   *)
Found(ns, p) ==
  IF NodeAt(ns, p.ip, p.mask) = NULL THEN None ELSE ns[NodeAt(ns, p.ip, p.mask) + 1].value

(* The first d bits of a.                                                  *)
Cut(a, d) == masked([ip |-> a, mask |-> d])
------------------------------------------------------------------------------
(* Every set of naturals has a least element, and so an induction over the *)
(* numbers up to a bound.                                                  *)
LEMMA LeastNatural ==
  ASSUME NEW T \in SUBSET Nat, T # {}
  PROVE  \E x \in T : \A y \in T : x <= y
<1>. DEFINE R == OpToRel(<, Nat)
<1>1. IsWellFoundedOn(R, Nat)
  BY NatLessThanWellFounded, Zenon
<1>2. \A x, y \in Nat : <<x, y>> \in R <=> x < y
  BY DEF OpToRel
<1>. HIDE DEF R
<1>3. PICK x \in T : \A y \in T : ~(<<y, x>> \in R)
  BY <1>1, WFMin
<1>4. \A y \in T : ~(y < x)
  BY <1>2, <1>3
<1>. QED
  BY <1>4

LEMMA BoundedInduction ==
  ASSUME NEW n \in Nat, NEW S \in SUBSET Nat, 0 \in S,
         \A d \in 0..(n - 1) : d \in S => d + 1 \in S
  PROVE  \A d \in 0..n : d \in S
<1>. DEFINE T == {d \in 0..n : d \notin S}
<1>. SUFFICES ASSUME T # {} PROVE FALSE
  OBVIOUS
<1>1. PICK d \in T : \A e \in T : d <= e
  <2>. T \in SUBSET Nat /\ T # {}
    OBVIOUS
  <2>. HIDE DEF T
  <2>. QED BY LeastNatural
<1>2. d - 1 \in 0..(n - 1) /\ d # 0
  BY <1>1
<1>3. d - 1 \in S
  BY <1>1, <1>2
<1>. QED
  BY <1>1, <1>2, <1>3

(* The recursion of Reach has a solution for every number of bits.         *)
LEMMA WalkExists ==
  ASSUME NEW ns, NEW a
  PROVE  \E f : f = WalkStep(ns, a, f, BITS)
<1>. DEFINE S == {n \in Nat : \E f : f = WalkStep(ns, a, f, n)}
<1>1. 0 \in S
  <2>. DEFINE f == [d \in 0..0 |-> 0]
  <2>1. f = WalkStep(ns, a, f, 0)
    BY DEF WalkStep
  <2>. QED BY <2>1
<1>2. ASSUME NEW n \in 0..(BITS - 1), n \in S
      PROVE  n + 1 \in S
  <2>1. n \in Nat /\ n + 1 \in Nat
    BY BitsNat
  <2>2. PICK f : f = WalkStep(ns, a, f, n)
    BY <1>2
  <2>. DEFINE last == IF f[n] = NULL THEN NULL ELSE ns[f[n] + 1].children[a[n + 1]]
              g == [d \in 0..(n + 1) |-> IF d = n + 1 THEN last ELSE f[d]]
  <2>. HIDE DEF last
  <2>3. \A d \in 0..n : g[d] = f[d]
    BY <2>1
  <2>4. \A d \in 0..n : f[d] = IF d = 0 THEN 0
                               ELSE IF f[d - 1] = NULL THEN NULL
                               ELSE ns[f[d - 1] + 1].children[a[d]]
    BY <2>2 DEF WalkStep
  <2>5. ASSUME NEW d \in 0..(n + 1)
        PROVE  g[d] = IF d = 0 THEN 0
                      ELSE IF g[d - 1] = NULL THEN NULL
                      ELSE ns[g[d - 1] + 1].children[a[d]]
    <3>1. CASE d = n + 1
      <4>1. g[d] = last /\ d # 0 /\ d - 1 = n /\ g[d - 1] = f[n]
        BY <2>1, <2>3, <3>1
      <4>. HIDE DEF g
      <4>. QED BY <3>1, <4>1 DEF last
    <3>2. CASE d # n + 1
      <4>1. d \in 0..n /\ (d # 0 => d - 1 \in 0..n)
        BY <2>1, <3>2
      <4>2. g[d] = f[d] /\ (d # 0 => g[d - 1] = f[d - 1])
        BY <2>3, <4>1
      <4>. HIDE DEF g
      <4>. QED BY <2>4, <4>1, <4>2
    <3>. QED BY <3>1, <3>2
  <2>6. g = WalkStep(ns, a, g, n + 1)
    <3>1. g = [d \in 0..(n + 1) |-> g[d]]
      OBVIOUS
    <3>. HIDE DEF g
    <3>. QED BY <2>5, <3>1 DEF WalkStep
  <2>. HIDE DEF g
  <2>. QED BY <2>1, <2>6
<1>3. \A n \in 0..BITS : n \in S
  <2>. HIDE DEF S
  <2>1. S \in SUBSET Nat
    BY DEF S
  <2>. QED BY ONLY <1>1, <1>2, <2>1, BitsNat, BoundedInduction
<1>. QED
  BY <1>3, BitsNat

LEMMA WalkIs ==
  ASSUME NEW ns, NEW a
  PROVE  Walk(ns, a) = WalkStep(ns, a, Walk(ns, a), BITS)
<1>1. \E f : f = WalkStep(ns, a, f, BITS)
  BY WalkExists
<1>. QED
  BY <1>1 DEF Walk

LEMMA NodeAtIs ==
  ASSUME NEW ns, NEW a
  PROVE  /\ NodeAt(ns, a, 0) = 0
         /\ \A d \in 0..(BITS - 1) :
              NodeAt(ns, a, d + 1) = Hop(ns, NodeAt(ns, a, d), a[d + 1])
<1>. DEFINE f == Walk(ns, a)
<1>1. f = WalkStep(ns, a, f, BITS)
  BY WalkIs
<1>. HIDE DEF f
<1>2. \A d \in 0..BITS : f[d] = IF d = 0 THEN 0
                                ELSE IF f[d - 1] = NULL THEN NULL
                                ELSE ns[f[d - 1] + 1].children[a[d]]
  BY <1>1 DEF WalkStep
<1>3. f[0] = 0
  BY <1>2, BitsNat
<1>4. ASSUME NEW d \in 0..(BITS - 1)
      PROVE  f[d + 1] = IF f[d] = NULL THEN NULL ELSE ns[f[d] + 1].children[a[d + 1]]
  <2>1. d + 1 \in 0..BITS /\ d + 1 # 0 /\ (d + 1) - 1 = d
    BY BitsNat
  <2>. QED BY <1>2, <2>1
<1>. QED
  BY <1>3, <1>4 DEF NodeAt, Hop, LinkOf, f

(* Reach is such a walk.                                                   *)
LEMMA ReachIs ==
  ASSUME NEW p
  PROVE  /\ Reach(p) = NodeAt(nodes, p.ip, p.mask)
         /\ Reach(p)' = NodeAt(nodes', p.ip, p.mask)
BY DEF Reach, NodeAt, Walk, WalkStep, Node
------------------------------------------------------------------------------
(* Walks over a tree with fewer nodes than NULL + 1.                       *)
Indexed(ns) == Tree(ns) /\ Len(ns) <= NULL

LEMMA IndexedFacts ==
  ASSUME NEW ns, Indexed(ns)
  PROVE  /\ Tree(ns) /\ IndexOf(ns) \subseteq Nat /\ 0 \in IndexOf(ns) /\ NULL \notin IndexOf(ns)
         /\ 0 # NULL
BY VecFacts, NullType DEF Indexed, IndexOf

LEMMA NodeAtType ==
  ASSUME NEW ns, Indexed(ns), NEW a \in Address
  PROVE  \A d \in 0..BITS : NodeAt(ns, a, d) \in IndexOf(ns) \cup {NULL}
<1>. DEFINE S == {d \in Nat : NodeAt(ns, a, d) \in IndexOf(ns) \cup {NULL}}
<1>1. 0 \in S
  BY NodeAtIs, IndexedFacts
<1>2. ASSUME NEW d \in 0..(BITS - 1), d \in S
      PROVE  d + 1 \in S
  <2>1. d + 1 \in Nat /\ a[d + 1] \in {0, 1}
    BY BitsNat DEF Address
  <2>2. NodeAt(ns, a, d + 1) = Hop(ns, NodeAt(ns, a, d), a[d + 1])
    BY NodeAtIs
  <2>3. CASE NodeAt(ns, a, d) = NULL
    BY <2>1, <2>2, <2>3 DEF Hop
  <2>4. CASE NodeAt(ns, a, d) # NULL
    <3>. DEFINE i == NodeAt(ns, a, d)
                j == NodeAt(ns, a, d + 1)
    <3>1. i \in IndexOf(ns) /\ j = LinkOf(ns, i, a[d + 1])
      BY <1>2, <2>2, <2>4 DEF Hop
    <3>. HIDE DEF i, j
    <3>2. j # NULL => LinkTo(ns, i, a[d + 1], j)
      BY <2>1, <3>1 DEF LinkTo
    <3>3. j \in IndexOf(ns) \cup {NULL}
      BY <3>2, IndexedFacts DEF Tree
    <3>. QED BY <2>1, <3>3 DEF j
  <2>. QED BY <2>3, <2>4
<1>3. \A d \in 0..BITS : d \in S
  <2>. HIDE DEF S
  <2>1. S \in SUBSET Nat
    BY DEF S
  <2>. QED BY ONLY <1>1, <1>2, <2>1, BitsNat, BoundedInduction
<1>. QED
  BY <1>3

(* One hop, as a link of the tree.                                         *)
LEMMA HopIs ==
  ASSUME NEW ns, Indexed(ns), NEW a \in Address, NEW d \in 0..(BITS - 1)
  PROVE  /\ NodeAt(ns, a, d) = NULL => NodeAt(ns, a, d + 1) = NULL
         /\ NodeAt(ns, a, d + 1) # NULL =>
              /\ NodeAt(ns, a, d) # NULL
              /\ LinkTo(ns, NodeAt(ns, a, d), a[d + 1], NodeAt(ns, a, d + 1))
         /\ \A j : NodeAt(ns, a, d) # NULL /\ LinkTo(ns, NodeAt(ns, a, d), a[d + 1], j)
                     => NodeAt(ns, a, d + 1) = j
<1>. DEFINE i == NodeAt(ns, a, d)
            k == NodeAt(ns, a, d + 1)
            b == a[d + 1]
<1>1. k = Hop(ns, i, b)
  BY NodeAtIs
<1>2. i \in IndexOf(ns) \cup {NULL}
  <2>1. d \in 0..BITS
    BY BitsNat
  <2>. QED BY <2>1, NodeAtType
<1>3. b \in {0, 1}
  BY BitsNat DEF Address
<1>. HIDE DEF i, k, b
<1>4. /\ i = NULL => k = NULL
      /\ k # NULL => i # NULL /\ LinkTo(ns, i, b, k)
      /\ \A j : i # NULL /\ LinkTo(ns, i, b, j) => k = j
  BY <1>1, <1>2, <1>3 DEF Hop, LinkTo
<1>. QED
  BY <1>4 DEF i, k, b

(* A walk looks at no bit beyond its end.                                  *)
LEMMA NodeAtPrefix ==
  ASSUME NEW ns, NEW a, NEW b, NEW m \in 0..BITS, \A i \in 1..m : a[i] = b[i]
  PROVE  \A d \in 0..m : NodeAt(ns, a, d) = NodeAt(ns, b, d)
<1>. DEFINE S == {d \in Nat : NodeAt(ns, a, d) = NodeAt(ns, b, d)}
<1>1. 0 \in S
  BY NodeAtIs
<1>2. ASSUME NEW d \in 0..(m - 1), d \in S
      PROVE  d + 1 \in S
  <2>1. d \in 0..(BITS - 1) /\ d + 1 \in 1..m /\ d + 1 \in Nat
    BY BitsNat
  <2>. QED BY <1>2, <2>1, NodeAtIs
<1>3. \A d \in 0..m : d \in S
  <2>. HIDE DEF S
  <2>1. S \in SUBSET Nat /\ m \in Nat
    BY BitsNat DEF S
  <2>. QED BY ONLY <1>1, <1>2, <2>1, BoundedInduction
<1>. QED
  BY <1>3

(* Where a walk has ended it stays ended.                                  *)
LEMMA NodeAtEnded ==
  ASSUME NEW ns, Indexed(ns), NEW a \in Address, NEW m \in 0..BITS, NodeAt(ns, a, m) = NULL
  PROVE  \A d \in m..BITS : NodeAt(ns, a, d) = NULL
<1>. DEFINE S == {d \in Nat : m <= d => NodeAt(ns, a, d) = NULL}
<1>1. 0 \in S
  BY NodeAtIs, IndexedFacts, BitsNat
<1>2. ASSUME NEW d \in 0..(BITS - 1), d \in S
      PROVE  d + 1 \in S
  <2>1. d + 1 \in Nat /\ (m <= d \/ m = d + 1 \/ ~(m <= d + 1))
    BY BitsNat
  <2>2. m <= d => NodeAt(ns, a, d + 1) = NULL
    BY <1>2, HopIs
  <2>. QED BY <2>1, <2>2
<1>3. \A d \in 0..BITS : d \in S
  <2>. HIDE DEF S
  <2>1. S \in SUBSET Nat
    BY DEF S
  <2>. QED BY ONLY <1>1, <1>2, <2>1, BitsNat, BoundedInduction
<1>4. \A d \in m..BITS : d \in 0..BITS /\ m <= d
  BY BitsNat
<1>. QED
  BY <1>3, <1>4

(* Two walks meet in a node only if they took the same bits to it: nodes   *)
(* stand for prefixes.                                                     *)
LEMMA NodeAtOnce ==
  ASSUME NEW ns, Indexed(ns), NEW a \in Address, NEW b \in Address
  PROVE  \A d, e \in 0..BITS :
           NodeAt(ns, a, d) = NodeAt(ns, b, e) /\ NodeAt(ns, a, d) # NULL
             => d = e /\ \A i \in 1..d : a[i] = b[i]
<1>. DEFINE S == {d \in Nat : \A e \in 0..BITS :
                    NodeAt(ns, a, d) = NodeAt(ns, b, e) /\ NodeAt(ns, a, d) # NULL
                      => d = e /\ \A i \in 1..d : a[i] = b[i]}
<1>1. ASSUME NEW x \in Address, NEW d \in 0..BITS, d # 0, NodeAt(ns, x, d) # NULL
      PROVE  /\ NodeAt(ns, x, d - 1) # NULL
             /\ LinkTo(ns, NodeAt(ns, x, d - 1), x[d], NodeAt(ns, x, d))
             /\ NodeAt(ns, x, d) # 0
             /\ d - 1 \in 0..BITS
  <2>1. d - 1 \in 0..(BITS - 1) /\ (d - 1) + 1 = d /\ d - 1 \in 0..BITS
    BY <1>1, BitsNat
  <2>2. NodeAt(ns, x, d - 1) # NULL /\ LinkTo(ns, NodeAt(ns, x, d - 1), x[d], NodeAt(ns, x, d))
    <3>. DEFINE e == d - 1
    <3>1. e \in 0..(BITS - 1) /\ e + 1 = d
      BY <2>1
    <3>. HIDE DEF e
    <3>2. NodeAt(ns, x, e) # NULL /\ LinkTo(ns, NodeAt(ns, x, e), x[d], NodeAt(ns, x, d))
      BY <1>1, <3>1, HopIs
    <3>. QED BY <3>2 DEF e
  <2>3. NodeAt(ns, x, d - 1) \in Nat /\ NodeAt(ns, x, d - 1) < NodeAt(ns, x, d)
    BY <2>2, IndexedFacts DEF Tree, LinkTo
  <2>4. NodeAt(ns, x, d) # 0
    BY <2>3
  <2>. QED BY <2>1, <2>2, <2>4
<1>2. 0 \in S
  <2>1. \A e \in 0..BITS : NodeAt(ns, a, 0) = NodeAt(ns, b, e) /\ NodeAt(ns, a, 0) # NULL => 0 = e
    BY <1>1, NodeAtIs
  <2>. QED BY <2>1
<1>3. ASSUME NEW d \in 0..(BITS - 1), d \in S
      PROVE  d + 1 \in S
  <2>0. d + 1 \in Nat /\ d + 1 \in 0..BITS /\ d + 1 # 0 /\ (d + 1) - 1 = d /\ d \in Nat
    BY BitsNat
  <2>. SUFFICES ASSUME NEW e \in 0..BITS,
                       NodeAt(ns, a, d + 1) = NodeAt(ns, b, e), NodeAt(ns, a, d + 1) # NULL
                PROVE  d + 1 = e /\ \A i \in 1..(d + 1) : a[i] = b[i]
    BY <2>0
  <2>1. /\ NodeAt(ns, a, d) # NULL
        /\ LinkTo(ns, NodeAt(ns, a, d), a[d + 1], NodeAt(ns, a, d + 1))
        /\ NodeAt(ns, a, d + 1) # 0
    BY <1>1, <2>0
  <2>2. e # 0
    BY <2>1, NodeAtIs
  <2>3. /\ e - 1 \in 0..BITS
        /\ LinkTo(ns, NodeAt(ns, b, e - 1), b[e], NodeAt(ns, a, d + 1))
    BY <1>1, <2>2
  <2>4. NodeAt(ns, a, d) = NodeAt(ns, b, e - 1) /\ a[d + 1] = b[e]
    BY <2>1, <2>3, IndexedFacts DEF Tree
  <2>5. d = e - 1 /\ \A i \in 1..d : a[i] = b[i]
    BY <1>3, <2>1, <2>3, <2>4
  <2>6. d + 1 = e
    BY <2>0, <2>5
  <2>7. \A i \in 1..(d + 1) : i \in 1..d \/ i = d + 1
    BY <2>0
  <2>. QED BY <2>4, <2>5, <2>6, <2>7
<1>4. \A d \in 0..BITS : d \in S
  <2>. HIDE DEF S
  <2>1. S \in SUBSET Nat
    BY DEF S
  <2>. QED BY ONLY <1>2, <1>3, <2>1, BitsNat, BoundedInduction
<1>. QED
  BY <1>4
------------------------------------------------------------------------------
(* The canonical prefixes along an address.                                *)
LEMMA CutFacts ==
  ASSUME NEW a \in Address, NEW d \in 0..BITS
  PROVE  /\ Cut(a, d) \in Canonical /\ Cut(a, d) \in IpPrefix
         /\ Cut(a, d).mask = d /\ Cut(a, d).ip \in Address
         /\ \A i \in 1..d : Cut(a, d).ip[i] = a[i]
         /\ Covers(Cut(a, d), a)
<1>. DEFINE p == Cut(a, d)
            ip == [i \in 1..BITS |-> IF i <= d THEN a[i] ELSE 0]
<1>1. p = [ip |-> ip, mask |-> d]
  BY DEF Cut, masked
<1>2. ip \in Address /\ \A i \in 1..BITS : ip[i] = IF i <= d THEN a[i] ELSE 0
  BY DEF Address
<1>. HIDE DEF ip
<1>3. p \in IpPrefix /\ p.ip = ip /\ p.mask = d
  BY <1>1, <1>2 DEF IpPrefix
<1>. HIDE DEF p
<1>4. \A i \in 1..d : i \in 1..BITS /\ i <= d
  BY BitsNat
<1>5. masked(p) = p
  <2>1. [i \in 1..BITS |-> IF i <= d THEN ip[i] ELSE 0] = ip
    <3>1. \A i \in 1..BITS : ip[i] = IF i <= d THEN ip[i] ELSE 0
      BY <1>2
    <3>2. ip = [i \in 1..BITS |-> ip[i]]
      BY <1>2 DEF Address
    <3>. QED BY <3>1, <3>2
  <2>. QED BY <1>1, <1>3, <2>1 DEF masked, p
<1>. QED
  BY <1>2, <1>3, <1>4, <1>5 DEF Canonical, Covers, p

(* A canonical prefix is known by its length and its leading bits.         *)
LEMMA CanonicalUnique ==
  ASSUME NEW p \in Canonical, NEW q \in Canonical, p.mask = q.mask,
         \A i \in 1..p.mask : p.ip[i] = q.ip[i]
  PROVE  p = q
<1>1. p \in IpPrefix /\ q \in IpPrefix /\ masked(p) = p /\ masked(q) = q
  BY DEF Canonical
<1>2. p.mask \in 0..BITS
  BY <1>1 DEF IpPrefix
<1>3. \A i \in 1..BITS : i <= p.mask => p.ip[i] = q.ip[i]
  BY <1>2
<1>4. [i \in 1..BITS |-> IF i <= p.mask THEN p.ip[i] ELSE 0]
        = [i \in 1..BITS |-> IF i <= q.mask THEN q.ip[i] ELSE 0]
  BY <1>3
<1>. QED
  BY <1>1, <1>4 DEF masked

LEMMA CoveringIsCut ==
  ASSUME NEW p \in Canonical, NEW a \in Address, Covers(p, a)
  PROVE  p = Cut(a, p.mask)
<1>1. p \in IpPrefix /\ p.mask \in 0..BITS
  BY DEF Canonical, IpPrefix
<1>2. /\ Cut(a, p.mask) \in Canonical /\ Cut(a, p.mask).mask = p.mask
      /\ \A i \in 1..p.mask : Cut(a, p.mask).ip[i] = a[i]
  BY <1>1, CutFacts
<1>. QED
  BY <1>2, CanonicalUnique DEF Covers

LEMMA MaskedCanonical ==
  ASSUME NEW p \in IpPrefix
  PROVE  masked(p) \in Canonical /\ masked(p) = Cut(p.ip, p.mask)
<1>1. p.ip \in Address /\ p.mask \in 0..BITS
  BY DEF IpPrefix
<1>2. masked(p) = Cut(p.ip, p.mask)
  BY DEF Cut, masked
<1>. QED
  BY <1>1, <1>2, CutFacts

(* What is kept for the first d bits of an address is where the walk is    *)
(* after d bits.                                                           *)
LEMMA FoundOnPath ==
  ASSUME NEW ns, NEW a \in Address, NEW d \in 0..BITS
  PROVE  Found(ns, Cut(a, d)) =
           IF NodeAt(ns, a, d) = NULL THEN None ELSE ns[NodeAt(ns, a, d) + 1].value
<1>1. /\ Cut(a, d).mask = d
      /\ \A i \in 1..d : Cut(a, d).ip[i] = a[i]
  BY CutFacts
<1>2. NodeAt(ns, Cut(a, d).ip, d) = NodeAt(ns, a, d)
  <2>1. d \in 0..d
    BY BitsNat
  <2>. QED BY <1>1, <2>1, NodeAtPrefix
<1>. QED
  BY <1>1, <1>2 DEF Found

LEMMA FoundType ==
  ASSUME NEW ns, Indexed(ns), NEW p \in Canonical
  PROVE  Found(ns, p) \in Value \cup {None}
<1>1. p.ip \in Address /\ p.mask \in 0..BITS
  BY DEF Canonical, IpPrefix
<1>2. NodeAt(ns, p.ip, p.mask) \in IndexOf(ns) \cup {NULL}
  BY <1>1, NodeAtType
<1>. QED
  BY <1>2, IndexedFacts, VecFacts DEF Found, NodeType
------------------------------------------------------------------------------
(* The table as a function of the Vec.                                     *)
TableOf(ns) == [p \in {q \in Canonical : Found(ns, q) # None} |-> Found(ns, p)]

LEMMA TableIs ==
  Table = TableOf(nodes) /\ Table' = TableOf(nodes')
<1>1. \A p : /\ Holds(p) <=> Found(nodes, p) # None
             /\ Holds(p) => Node(Reach(p)).value = Found(nodes, p)
  BY ReachIs DEF Holds, Found, Node
<1>2. \A p : /\ Holds(p)' <=> Found(nodes', p) # None
             /\ Holds(p)' => Node(Reach(p))' .value = Found(nodes', p)
  BY ReachIs DEF Holds, Found, Node
<1>3. Canonical' = Canonical
  BY DEF Canonical, masked, IpPrefix
<1>4. Table = TableOf(nodes)
  BY <1>1 DEF Table, TableOf
<1>5. Table' = TableOf(nodes')
  BY <1>2, <1>3 DEF Table, TableOf
<1>. QED
  BY <1>4, <1>5

LEMMA SameTable ==
  ASSUME NEW ns, NEW ms, \A p \in Canonical : Found(ms, p) = Found(ns, p)
  PROVE  TableOf(ms) = TableOf(ns)
BY DEF TableOf

(* Trees that differ in one blank node and the link to it.                 *)
BlankApart(ns, ms, new) ==
  /\ Indexed(ns) /\ Indexed(ms)
  /\ \A i, b, j : LinkTo(ns, i, b, j) => LinkTo(ms, i, b, j)
  /\ \A i, b, j : LinkTo(ms, i, b, j) => LinkTo(ns, i, b, j) \/ j = new
  /\ \A b, j : ~LinkTo(ms, new, b, j)

LEMMA SameWalks ==
  ASSUME NEW ns, NEW ms, NEW new, BlankApart(ns, ms, new), NEW a \in Address
  PROVE  \A d \in 0..BITS : \/ NodeAt(ms, a, d) = NodeAt(ns, a, d)
                            \/ NodeAt(ns, a, d) = NULL /\ NodeAt(ms, a, d) = new
<1>. DEFINE S == {d \in Nat : \/ NodeAt(ms, a, d) = NodeAt(ns, a, d)
                              \/ NodeAt(ns, a, d) = NULL /\ NodeAt(ms, a, d) = new}
<1>0. Indexed(ns) /\ Indexed(ms)
  BY DEF BlankApart
<1>1. 0 \in S
  BY NodeAtIs
<1>2. ASSUME NEW d \in 0..(BITS - 1), d \in S
      PROVE  d + 1 \in S
  <2>. DEFINE i == NodeAt(ns, a, d)
              k == NodeAt(ms, a, d)
              j == NodeAt(ns, a, d + 1)
              l == NodeAt(ms, a, d + 1)
              b == a[d + 1]
  <2>1. /\ i = NULL => j = NULL
        /\ j # NULL => i # NULL /\ LinkTo(ns, i, b, j)
        /\ \A x : i # NULL /\ LinkTo(ns, i, b, x) => j = x
    BY <1>0, HopIs
  <2>2. /\ k = NULL => l = NULL
        /\ l # NULL => k # NULL /\ LinkTo(ms, k, b, l)
        /\ \A x : k # NULL /\ LinkTo(ms, k, b, x) => l = x
    BY <1>0, HopIs
  <2>3. d + 1 \in Nat /\ (k = i \/ (i = NULL /\ k = new))
    BY <1>2, BitsNat
  <2>. HIDE DEF i, j, k, l, b
  <2>4. l = j \/ (j = NULL /\ l = new)
    BY ONLY <2>1, <2>2, <2>3, BlankApart(ns, ms, new) DEF BlankApart
  <2>. QED BY <2>3, <2>4 DEF i, j, k, l
<1>3. \A d \in 0..BITS : d \in S
  <2>. HIDE DEF S
  <2>1. S \in SUBSET Nat
    BY DEF S
  <2>. QED BY ONLY <1>1, <1>2, <2>1, BitsNat, BoundedInduction
<1>. QED
  BY <1>3

(* Growing a path by a blank node, and pruning it, keep every answer.      *)
LEMMA BlankHidden ==
  ASSUME NEW ns, NEW ms, NEW new, BlankApart(ns, ms, new), ms[new + 1].value = None,
         \A i \in IndexOf(ns) : ms[i + 1].value = ns[i + 1].value
  PROVE  TableOf(ms) = TableOf(ns)
<1>. SUFFICES ASSUME NEW p \in Canonical
              PROVE  Found(ms, p) = Found(ns, p)
  BY SameTable
<1>1. p.ip \in Address /\ p.mask \in 0..BITS
  BY DEF Canonical, IpPrefix
<1>2. \/ NodeAt(ms, p.ip, p.mask) = NodeAt(ns, p.ip, p.mask)
      \/ NodeAt(ns, p.ip, p.mask) = NULL /\ NodeAt(ms, p.ip, p.mask) = new
  BY <1>1, SameWalks
<1>3. NodeAt(ns, p.ip, p.mask) \in IndexOf(ns) \cup {NULL}
  BY <1>1, NodeAtType DEF BlankApart
<1>. QED
  BY <1>2, <1>3 DEF Found

(* A value written where a prefix leads changes that prefix alone.         *)
LEMMA ValueFound ==
  ASSUME NEW ns, NEW ms, Indexed(ns), Indexed(ms),
         \A i, b, j : LinkTo(ms, i, b, j) <=> LinkTo(ns, i, b, j),
         NEW k \in Canonical, NEW c \in IndexOf(ns), NodeAt(ns, k.ip, k.mask) = c,
         \A i \in IndexOf(ns) : i # c => ms[i + 1] = ns[i + 1]
  PROVE  \A p \in Canonical : Found(ms, p) = IF p = k THEN ms[c + 1].value ELSE Found(ns, p)
<1>. SUFFICES ASSUME NEW p \in Canonical
              PROVE  Found(ms, p) = IF p = k THEN ms[c + 1].value ELSE Found(ns, p)
  OBVIOUS
<1>1. p.ip \in Address /\ p.mask \in 0..BITS /\ k.ip \in Address /\ k.mask \in 0..BITS
  BY DEF Canonical, IpPrefix
<1>2. NULL \notin IndexOf(ns)
  BY IndexedFacts
<1>3. BlankApart(ns, ms, NULL)
  <2>1. \A b, j : ~LinkTo(ms, NULL, b, j)
    BY <1>2 DEF LinkTo
  <2>. QED BY <2>1 DEF BlankApart
<1>4. /\ NodeAt(ms, p.ip, p.mask) = NodeAt(ns, p.ip, p.mask)
      /\ NodeAt(ns, p.ip, p.mask) \in IndexOf(ns) \cup {NULL}
  BY <1>1, <1>3, SameWalks, NodeAtType
<1>5. CASE p = k
  BY <1>2, <1>4, <1>5 DEF Found
<1>6. CASE p # k
  <2>1. NodeAt(ns, p.ip, p.mask) # c
    <3>. SUFFICES ASSUME NodeAt(ns, p.ip, p.mask) = c
                  PROVE  p = k
      BY <1>6
    <3>1. p.mask = k.mask /\ \A i \in 1..p.mask : p.ip[i] = k.ip[i]
      BY <1>1, <1>2, NodeAtOnce
    <3>. QED BY <3>1, CanonicalUnique
  <2>. QED BY <1>2, <1>4, <1>6, <2>1 DEF Found
<1>. QED
  BY <1>5, <1>6
------------------------------------------------------------------------------
(* The table cut down to the prefixes of at most n bits.                   *)
UpTo(t, n) == [p \in {q \in DOMAIN t : q.mask <= n} |-> t[p]]

(* v is the value of the longest prefix of a kept within its first n bits. *)
BestOf(ns, a, n, v) ==
  \/ v = None /\ \A d \in 0..n : Found(ns, Cut(a, d)) = None
  \/ /\ v # None
     /\ \E d \in 0..n : /\ Found(ns, Cut(a, d)) = v
                        /\ \A e \in (d + 1)..n : Found(ns, Cut(a, e)) = None

(* The prefixes that match an address are those along it.                  *)
LEMMA MatchesAre ==
  ASSUME NEW ns, NEW a \in Address, NEW n \in 0..BITS, NEW p
  PROVE  p \in Matches(UpTo(TableOf(ns), n), a)
           <=> \E d \in 0..n : p = Cut(a, d) /\ Found(ns, p) # None
<1>1. p \in Matches(UpTo(TableOf(ns), n), a)
        <=> p \in Canonical /\ Found(ns, p) # None /\ p.mask <= n /\ Covers(p, a)
  BY DEF Matches, UpTo, TableOf
<1>2. \A d \in 0..n : d \in 0..BITS
  BY BitsNat
<1>3. ASSUME NEW d \in 0..n, p = Cut(a, d)
      PROVE  p \in Canonical /\ p.mask <= n /\ Covers(p, a)
  <2>1. d \in 0..BITS /\ d <= n
    BY <1>2
  <2>. QED BY <1>3, <2>1, CutFacts
<1>4. ASSUME p \in Canonical, p.mask <= n, Covers(p, a)
      PROVE  \E d \in 0..n : p = Cut(a, d)
  <2>1. p.mask \in 0..n
    BY <1>4, BitsNat DEF Canonical, IpPrefix
  <2>2. p = Cut(a, p.mask)
    BY <1>4, CoveringIsCut
  <2>. QED BY <2>1, <2>2
<1>. QED
  BY <1>1, <1>3, <1>4

LEMMA BestIs ==
  ASSUME NEW ns, Indexed(ns), NEW a \in Address, NEW n \in 0..BITS, NEW v, BestOf(ns, a, n, v)
  PROVE  v = IF LongestMatch(UpTo(TableOf(ns), n), a) = None THEN None
             ELSE LongestMatch(UpTo(TableOf(ns), n), a).value
<1>. DEFINE t == UpTo(TableOf(ns), n)
            M == Matches(t, a)
<1>1. \A p : p \in M <=> \E d \in 0..n : p = Cut(a, d) /\ Found(ns, p) # None
  BY MatchesAre
<1>2. \A d \in 0..n : d \in 0..BITS
  BY BitsNat
<1>. HIDE DEF M
<1>3. CASE v = None /\ \A d \in 0..n : Found(ns, Cut(a, d)) = None
  <2>1. M = {}
    BY <1>1, <1>3
  <2>. QED BY <1>3, <2>1 DEF LongestMatch, M
<1>4. CASE /\ v # None
           /\ \E d \in 0..n : /\ Found(ns, Cut(a, d)) = v
                              /\ \A e \in (d + 1)..n : Found(ns, Cut(a, e)) = None
  <2>1. PICK d \in 0..n : /\ Found(ns, Cut(a, d)) = v
                          /\ \A e \in (d + 1)..n : Found(ns, Cut(a, e)) = None
    BY <1>4
  <2>. DEFINE p == Cut(a, d)
  <2>2. /\ p \in M /\ p \in Canonical /\ p \in IpPrefix /\ p.mask = d
        /\ v # None /\ Found(ns, p) = v
    BY <1>1, <1>2, <1>4, <2>1, CutFacts
  <2>3. IsLongest(p, M)
    <3>. SUFFICES ASSUME NEW q \in M PROVE q.mask <= d
      BY <2>2 DEF IsLongest
    <3>1. PICK e \in 0..n : q = Cut(a, e) /\ Found(ns, q) # None
      BY <1>1
    <3>2. q.mask = e
      BY <1>2, <3>1, CutFacts
    <3>3. e \notin (d + 1)..n
      BY <2>1, <3>1
    <3>. QED BY <3>2, <3>3
  <2>. HIDE DEF p
  <2>4. \A q \in M : IsLongest(q, M) => q = p
    <3>. SUFFICES ASSUME NEW q \in M, IsLongest(q, M) PROVE q = p
      OBVIOUS
    <3>1. PICK e \in 0..n : q = Cut(a, e)
      BY <1>1
    <3>2. q.mask = e
      BY <1>2, <3>1, CutFacts
    <3>3. d <= e /\ e <= d
      BY <2>2, <2>3, <3>2 DEF IsLongest
    <3>4. e = d
      BY <3>3
    <3>. QED BY <3>1, <3>4 DEF p
  <2>5. (CHOOSE q \in M : IsLongest(q, M)) = p
    BY <2>2, <2>3, <2>4
  <2>6. M # {} /\ LongestMatch(t, a) = [prefix |-> p, value |-> t[p]]
    BY <2>2, <2>5 DEF LongestMatch, M
  <2>7. t[p] = v
    BY <2>2, BitsNat DEF UpTo, TableOf
  <2>8. v \in Value
    BY <2>2, FoundType
  <2>9. [prefix |-> p, value |-> v] # None
    BY <2>2, <2>8, SomeAssumption
  <2>. QED BY <2>6, <2>7, <2>9
<1>. QED
  BY <1>3, <1>4 DEF BestOf

(* One bit further.                                                        *)
LEMMA BestGrows ==
  ASSUME NEW ns, NEW a, NEW n \in Nat, NEW v, BestOf(ns, a, n, v)
  PROVE  BestOf(ns, a, n + 1, Better(v, Found(ns, Cut(a, n + 1))))
<1>. DEFINE w == Found(ns, Cut(a, n + 1))
<1>1. \A d \in 0..(n + 1) : d \in 0..n \/ d = n + 1
  OBVIOUS
<1>2. CASE w # None
  <2>1. Better(v, w) = w
    BY <1>2 DEF Better
  <2>2. n + 1 \in 0..(n + 1) /\ (n + 1 + 1)..(n + 1) = {}
    OBVIOUS
  <2>. HIDE DEF w
  <2>3. Found(ns, Cut(a, n + 1)) = w
    BY DEF w
  <2>. QED BY <1>2, <2>1, <2>2, <2>3 DEF BestOf
<1>3. CASE w = None
  <2>1. Better(v, w) = v
    BY <1>3 DEF Better
  <2>2. CASE v = None /\ \A d \in 0..n : Found(ns, Cut(a, d)) = None
    BY <1>1, <1>3, <2>1, <2>2 DEF BestOf
  <2>3. CASE /\ v # None
             /\ \E d \in 0..n : /\ Found(ns, Cut(a, d)) = v
                                /\ \A e \in (d + 1)..n : Found(ns, Cut(a, e)) = None
    <3>1. PICK d \in 0..n : /\ Found(ns, Cut(a, d)) = v
                            /\ \A e \in (d + 1)..n : Found(ns, Cut(a, e)) = None
      BY <2>3
    <3>2. d \in 0..(n + 1) /\ \A e \in (d + 1)..(n + 1) : e \in (d + 1)..n \/ e = n + 1
      OBVIOUS
    <3>3. \A e \in (d + 1)..(n + 1) : Found(ns, Cut(a, e)) = None
      BY <1>3, <3>1, <3>2
    <3>4. BestOf(ns, a, n + 1, v)
      BY <2>3, <3>1, <3>2, <3>3 DEF BestOf
    <3>. QED BY <2>1, <3>4
  <2>. QED BY <2>2, <2>3 DEF BestOf
<1>. QED
  BY <1>2, <1>3

(* Where the walk ends the search is over.                                 *)
LEMMA BestEnds ==
  ASSUME NEW ns, Indexed(ns), NEW a \in Address, NEW n \in 0..BITS, NEW v, BestOf(ns, a, n, v),
         n < BITS => NodeAt(ns, a, n + 1) = NULL
  PROVE  v = IF LongestMatch(TableOf(ns), a) = None THEN None
             ELSE LongestMatch(TableOf(ns), a).value
<1>1. \A e \in (n + 1)..BITS : Found(ns, Cut(a, e)) = None
  <2>. SUFFICES ASSUME NEW e \in (n + 1)..BITS PROVE Found(ns, Cut(a, e)) = None
    OBVIOUS
  <2>1. n < BITS /\ n + 1 \in 0..BITS /\ e \in 0..BITS
    BY BitsNat
  <2>2. NodeAt(ns, a, e) = NULL
    BY <2>1, NodeAtEnded
  <2>. QED BY <2>1, <2>2, FoundOnPath
<1>2. BestOf(ns, a, BITS, v)
  <2>1. CASE v = None /\ \A d \in 0..n : Found(ns, Cut(a, d)) = None
    <3>1. \A d \in 0..BITS : d \in 0..n \/ d \in (n + 1)..BITS
      BY BitsNat
    <3>. QED BY <1>1, <2>1, <3>1 DEF BestOf
  <2>2. CASE /\ v # None
             /\ \E d \in 0..n : /\ Found(ns, Cut(a, d)) = v
                                /\ \A e \in (d + 1)..n : Found(ns, Cut(a, e)) = None
    <3>1. PICK d \in 0..n : /\ Found(ns, Cut(a, d)) = v
                            /\ \A e \in (d + 1)..n : Found(ns, Cut(a, e)) = None
      BY <2>2
    <3>2. d \in 0..BITS /\ \A e \in (d + 1)..BITS : e \in (d + 1)..n \/ e \in (n + 1)..BITS
      BY BitsNat
    <3>. QED BY <1>1, <2>2, <3>1, <3>2 DEF BestOf
  <2>. QED BY <2>1, <2>2 DEF BestOf
<1>3. UpTo(TableOf(ns), BITS) = TableOf(ns)
  <2>1. \A p \in Canonical : p.mask <= BITS
    BY BitsNat DEF Canonical, IpPrefix
  <2>2. {q \in DOMAIN TableOf(ns) : q.mask <= BITS} = DOMAIN TableOf(ns)
    BY <2>1 DEF TableOf
  <2>3. UpTo(TableOf(ns), BITS) = [p \in DOMAIN TableOf(ns) |-> TableOf(ns)[p]]
    BY <2>2 DEF UpTo
  <2>. QED BY <2>3 DEF TableOf
<1>4. BITS \in 0..BITS
  BY BitsNat
<1>. QED
  BY <1>2, <1>3, <1>4, BestIs
------------------------------------------------------------------------------
(* A call that is still walking stands where its address leads, and has    *)
(* the best value of the bits behind it.                                   *)
OnPath ==
  /\ pc \in ArenaOps => NodeAt(nodes, addr, depth) = cur
  /\ pc = "longest_match" => BestOf(nodes, addr, depth, best)

LEMMA IndexedNow ==
  ASSUME ArenaInv, MaxNodes <= NULL
  PROVE  Indexed(nodes) /\ cur \in IndexOf(nodes) /\ cur # NULL
<1>1. Tree(nodes) /\ cur \in IndexOf(nodes) /\ Len(nodes) \in Nat /\ Len(nodes) <= MaxNodes
  BY ArenaFacts DEF ArenaInv, ArenaControl
<1>2. Indexed(nodes)
  BY <1>1, NullType DEF Indexed
<1>. QED
  BY <1>1, <1>2, IndexedFacts

(* The walk of a running call.                                             *)
LEMMA WalkFacts ==
  ASSUME ArenaInv, OnPath, pc \in ArenaOps, MaxNodes <= NULL
  PROVE  /\ addr \in Address /\ len \in 0..BITS /\ depth \in 0..BITS /\ depth <= len
         /\ NodeAt(nodes, addr, depth) = cur
         /\ depth < len => /\ depth \in 0..(BITS - 1) /\ bit = addr[depth + 1]
                           /\ NodeAt(nodes, addr, depth + 1) = child
<1>1. /\ addr \in Address /\ len \in 0..BITS /\ depth \in 0..BITS /\ depth <= len
      /\ NodeAt(nodes, addr, depth) = cur
  BY OperandFacts DEF ArenaInv, ArenaControl, ArenaTypeOK, OnPath
<1>2. ASSUME depth < len
      PROVE  /\ depth \in 0..(BITS - 1) /\ bit = addr[depth + 1]
             /\ NodeAt(nodes, addr, depth + 1) = child
  <2>1. depth \in 0..(BITS - 1)
    BY <1>1, <1>2, BitsNat
  <2>2. bit = addr[depth + 1] /\ child = LinkOf(nodes, cur, bit)
    BY <1>2, BitFacts
  <2>3. NodeAt(nodes, addr, depth + 1) = Hop(nodes, cur, bit)
    BY <1>1, <2>1, <2>2, NodeAtIs
  <2>. QED BY <2>1, <2>2, <2>3, IndexedNow DEF Hop
<1>. QED
  BY <1>1, <1>2

LEMMA OnPathInit ==
  ASSUME Init
  PROVE  OnPath
BY DEF Init, OnPath, ArenaOps

LEMMA OnPathCall ==
  ASSUME ArenaInv, Call, MaxNodes <= NULL
  PROVE  OnPath'
<1>1. /\ nodes' = nodes /\ cur' = cur /\ depth' = depth /\ cur = 0 /\ depth = 0
      /\ req' \in Request /\ pc' = req'.op /\ pc' \in ArenaOps
      /\ best' = IF req'.op = "longest_match" THEN Node(0).value ELSE None
  BY DEF Call, ArenaInv, ArenaControl
<1>2. NodeAt(nodes, addr', 0) = 0
  BY NodeAtIs
<1>3. pc' = "longest_match" => BestOf(nodes, addr', 0, best')
  <2>. SUFFICES ASSUME pc' = "longest_match" PROVE BestOf(nodes, addr', 0, best')
    OBVIOUS
  <2>1. addr' \in Address /\ best' = nodes[0 + 1].value
    BY <1>1, RequestFacts DEF addr, Node
  <2>2. Found(nodes, Cut(addr', 0)) = best'
    <3>1. 0 \in 0..BITS /\ 0 # NULL
      BY BitsNat, NullType
    <3>. QED BY <1>2, <2>1, <3>1, FoundOnPath
  <2>3. 0..0 = {0} /\ (0 + 1)..0 = {}
    OBVIOUS
  <2>. QED BY <2>2, <2>3 DEF BestOf
<1>. QED
  BY <1>1, <1>2, <1>3 DEF OnPath

LEMMA OnPathDescend ==
  ASSUME ArenaInv, OnPath, MaxNodes <= NULL,
         InsertFollow \/ MatchDescend \/ ContainsDescend \/ RemoveDescend
  PROVE  OnPath'
<1>1. /\ pc \in ArenaOps /\ depth < len /\ child # NULL
      /\ UNCHANGED <<nodes, pc, req>> /\ cur' = child /\ depth' = depth + 1
      /\ pc = "longest_match" => best' = Better(best, Node(child).value)
  BY DEF InsertFollow, MatchDescend, ContainsDescend, RemoveDescend, Descend, ArenaOps
<1>2. /\ addr' = addr /\ addr \in Address
      /\ depth \in 0..(BITS - 1) /\ depth \in Nat /\ depth + 1 \in 0..BITS
      /\ NodeAt(nodes, addr, depth + 1) = child
  BY <1>1, WalkFacts, OperandsKept, BitsNat
<1>3. pc = "longest_match" => BestOf(nodes, addr, depth + 1, best')
  <2>1. Found(nodes, Cut(addr, depth + 1)) = Node(child).value
    BY <1>1, <1>2, FoundOnPath DEF Node
  <2>2. pc = "longest_match" =>
          BestOf(nodes, addr, depth + 1, Better(best, Found(nodes, Cut(addr, depth + 1))))
    BY <1>2, BestGrows DEF OnPath
  <2>. QED BY <1>1, <2>1, <2>2
<1>. QED
  BY <1>1, <1>2, <1>3 DEF OnPath

(* The new node is where the address leads from now on; the rest of the    *)
(* tree is as it was.                                                      *)
LEMMA GrownApart ==
  ASSUME ArenaInv, InsertGrow, MaxNodes <= NULL
  PROVE  /\ BlankApart(nodes, nodes', Len(nodes))
         /\ LinkTo(nodes', cur, bit, Len(nodes))
         /\ TableOf(nodes') = TableOf(nodes)
<1>. DEFINE new == Len(nodes)
            ms == nodes'
<1>1. /\ new \in Nat /\ new < NULL /\ Tree(ms) /\ Len(ms) = new + 1
      /\ IndexOf(ms) = IndexOf(nodes) \cup {new}
      /\ ms[new + 1] = ArenaNode
      /\ ms[cur + 1].value = nodes[cur + 1].value
      /\ \A i \in IndexOf(nodes) : i # cur => ms[i + 1] = nodes[i + 1]
      /\ \A i, d, j : LinkTo(ms, i, d, j) <=>
                         LinkTo(nodes, i, d, j) \/ (i = cur /\ d = bit /\ j = new)
  BY GrowFacts DEF Node
<1>2. Indexed(nodes)
  BY IndexedNow
<1>3. Indexed(ms)
  BY <1>1, NullType DEF Indexed
<1>. HIDE DEF new, ms
<1>4. \A b, j : ~LinkTo(ms, new, b, j)
  BY <1>1, ArenaNodeType DEF LinkTo, LinkOf
<1>5. BlankApart(nodes, ms, new)
  BY <1>1, <1>2, <1>3, <1>4 DEF BlankApart
<1>6. LinkTo(ms, cur, bit, new)
  BY <1>1
<1>7. TableOf(ms) = TableOf(nodes)
  <2>1. ms[new + 1].value = None
    BY <1>1, ArenaNodeType
  <2>2. \A i \in IndexOf(nodes) : ms[i + 1].value = nodes[i + 1].value
    BY <1>1
  <2>. QED BY ONLY <1>5, <2>1, <2>2, BlankHidden
<1>. QED
  BY <1>5, <1>6, <1>7 DEF new, ms

LEMMA OnPathGrow ==
  ASSUME ArenaInv, OnPath, MaxNodes <= NULL, InsertGrow
  PROVE  OnPath'
<1>1. /\ pc = "insert" /\ pc \in ArenaOps /\ depth < len /\ pc' = pc
      /\ cur' = Len(nodes) /\ depth' = depth + 1
      /\ addr' = addr
  BY GrowFacts, OperandsKept DEF ArenaOps
<1>2. /\ addr \in Address /\ depth \in 0..BITS /\ depth \in 0..(BITS - 1)
      /\ bit = addr[depth + 1] /\ NodeAt(nodes, addr, depth) = cur /\ cur # NULL
  BY <1>1, WalkFacts, IndexedNow
<1>3. BlankApart(nodes, nodes', Len(nodes)) /\ LinkTo(nodes', cur, bit, Len(nodes))
  BY GrownApart
<1>4. NodeAt(nodes', addr, depth) = cur
  BY <1>2, <1>3, SameWalks
<1>5. NodeAt(nodes', addr, depth + 1) = Len(nodes)
  <2>. DEFINE ms == nodes'
              new == Len(nodes)
  <2>1. Indexed(ms) /\ LinkTo(ms, cur, addr[depth + 1], new) /\ NodeAt(ms, addr, depth) = cur
    BY <1>2, <1>3, <1>4 DEF BlankApart
  <2>. HIDE DEF ms, new
  <2>2. NodeAt(ms, addr, depth + 1) = new
    BY ONLY <1>2, <2>1, HopIs
  <2>. QED BY <2>2 DEF ms, new
<1>. QED
  BY <1>1, <1>5 DEF OnPath

LEMMA OnPathNext ==
  ASSUME ArenaInv, OnPath, [Next]_vars, MaxNodes <= NULL
  PROVE  OnPath'
<1>1. CASE UNCHANGED vars
  BY <1>1, OperandsKept DEF vars, locals, OnPath
<1>2. CASE Call
  BY <1>2, OnPathCall
<1>3. CASE InsertFollow \/ MatchDescend \/ ContainsDescend \/ RemoveDescend
  BY <1>3, OnPathDescend
<1>4. CASE InsertGrow
  BY <1>4, OnPathGrow
<1>5. CASE \/ InsertAbort \/ InsertStore \/ MatchEnd \/ ContainsEnd \/ RemoveMiss
           \/ RemoveTarget \/ RemoveUnwind \/ RemoveFinish \/ Return
  <2>1. pc' \in {"aborted", "return", "unwind", "idle"}
    BY <1>5 DEF InsertAbort, InsertStore, MatchEnd, ContainsEnd, RemoveMiss,
                RemoveTarget, RemoveUnwind, RemoveFinish, Return, Finish
  <2>. QED BY <2>1 DEF OnPath, ArenaOps
<1>. QED
  BY <1>1, <1>2, <1>3, <1>4, <1>5 DEF Next, Step
------------------------------------------------------------------------------
(* The target of a call on a prefix is where that prefix is kept, and      *)
(* nothing is kept where the walk stops short of it.                       *)
KeyedOps == {"insert", "remove", "contains"}

LEMMA KeyFacts ==
  ASSUME ArenaInv, OnPath, pc \in KeyedOps, MaxNodes <= NULL
  PROVE  /\ pc \in ArenaOps /\ req.op = pc /\ req \in Request
         /\ key \in Canonical /\ addr = key.ip /\ len = key.mask
         /\ depth = len => /\ NodeAt(nodes, key.ip, key.mask) = cur
                           /\ Found(nodes, key) = Node(cur).value
         /\ depth < len /\ child = NULL => Found(nodes, key) = None
<1>1. pc \in ArenaOps /\ req.op = pc /\ req \in Request
  BY DEF KeyedOps, ArenaOps, ArenaInv, ArenaControl
<1>2. req.prefix \in IpPrefix /\ addr = key.ip /\ len = key.mask
  BY <1>1, OperandFacts DEF KeyedOps, ArenaOps
<1>3. key \in Canonical
  BY <1>2, MaskedCanonical DEF key
<1>4. /\ addr \in Address /\ len \in 0..BITS /\ depth \in 0..BITS
      /\ NodeAt(nodes, addr, depth) = cur
      /\ depth < len => /\ depth \in 0..(BITS - 1)
                        /\ NodeAt(nodes, addr, depth + 1) = child
      /\ Indexed(nodes) /\ cur # NULL
  BY <1>1, WalkFacts, IndexedNow
<1>5. depth = len => /\ NodeAt(nodes, key.ip, key.mask) = cur
                     /\ Found(nodes, key) = Node(cur).value
  BY <1>2, <1>4 DEF Found, Node
<1>6. ASSUME depth < len, child = NULL
      PROVE  Found(nodes, key) = None
  <2>1. depth + 1 \in 0..BITS /\ NodeAt(nodes, addr, depth + 1) = NULL /\ len \in (depth + 1)..BITS
    BY <1>4, <1>6, BitsNat
  <2>2. NodeAt(nodes, addr, len) = NULL
    BY <1>4, <2>1, NodeAtEnded
  <2>. QED BY <1>2, <2>2 DEF Found
<1>. QED
  BY <1>1, <1>2, <1>3, <1>5, <1>6

(* Writing the target's value writes the table at the key.                 *)
LEMMA KeyWritten ==
  ASSUME ArenaInv, OnPath, pc \in KeyedOps, depth = len, MaxNodes <= NULL,
         NEW v \in Value \cup {None}, nodes' = WithValue(nodes, cur, v)
  PROVE  \A p \in Canonical : Found(nodes', p) = IF p = key THEN v ELSE Found(nodes, p)
<1>. DEFINE ms == nodes'
            c  == cur
            k  == key
<1>1. /\ Indexed(nodes) /\ Tree(nodes) /\ c \in IndexOf(nodes) /\ ms = WithValue(nodes, c, v)
      /\ Len(nodes) \in Nat
  BY IndexedNow, ArenaFacts
<1>2. k \in Canonical /\ NodeAt(nodes, k.ip, k.mask) = c
  BY KeyFacts
<1>. HIDE DEF ms, c, k
<1>3. Tree(ms) /\ Len(ms) = Len(nodes) /\ ms[c + 1].value = v
  BY ONLY <1>1, v \in Value \cup {None}, ValueWritten
<1>4. \A i \in IndexOf(nodes) : i # c => ms[i + 1] = nodes[i + 1]
  BY ONLY <1>1, v \in Value \cup {None}, ValueWritten
<1>5. \A i, b, j : LinkTo(ms, i, b, j) <=> LinkTo(nodes, i, b, j)
  BY ONLY <1>1, v \in Value \cup {None}, ValueWritten
<1>6. Indexed(ms)
  BY <1>1, <1>3 DEF Indexed
<1>7. \A p \in Canonical : Found(ms, p) = IF p = k THEN ms[c + 1].value ELSE Found(nodes, p)
  BY ONLY <1>1, <1>2, <1>4, <1>5, <1>6, ValueFound
<1>. QED
  BY <1>3, <1>7 DEF ms, k

(* The routing table and the arena speak of calls in the same words.       *)
LEMMA SameWords ==
  /\ Abstract!key = key
  /\ Abstract!Done = Done /\ Abstract!Unit = Unit
  /\ Abstract!Request = Request /\ Abstract!NoRequest = NoRequest
  /\ Abstract!LookupOps = LookupOps
  /\ \A op, found : Abstract!LookupReply(op, found) = LookupReply(op, found)
  /\ \A t, a : Abstract!LongestMatch(t, a) = LongestMatch(t, a)
<1>1. Abstract!key = key
  BY DEF Abstract!key, key, Abstract!masked, masked, Abstract!BITS, BITS, Abstract!STRIDE, STRIDE
<1>2. Abstract!Done = Done /\ Abstract!Unit = Unit
  BY DEF Abstract!Done, Done, Abstract!Unit, Unit, Abstract!Panic, Panic
<1>3. Abstract!Request = Request /\ Abstract!NoRequest = NoRequest /\ Abstract!LookupOps = LookupOps
  BY DEF Abstract!Request, Request, Abstract!NoRequest, NoRequest, Abstract!LookupOps, LookupOps,
         Abstract!PrefixOps, PrefixOps, Abstract!PlainOps, PlainOps
<1>4. \A op, found : Abstract!LookupReply(op, found) = LookupReply(op, found)
  BY DEF Abstract!LookupReply, LookupReply
<1>5. \A t, a : Abstract!Matches(t, a) = Matches(t, a)
  BY DEF Abstract!Matches, Matches, Abstract!Covers, Covers
<1>6. \A p, S : Abstract!IsLongest(p, S) = IsLongest(p, S)
  BY DEF Abstract!IsLongest, IsLongest
<1>7. \A t, a : Abstract!LongestMatch(t, a) = LongestMatch(t, a)
  BY <1>5, <1>6 DEF Abstract!LongestMatch, LongestMatch
<1>. QED
  BY <1>1, <1>2, <1>3, <1>4, <1>7

(* Where a call stands, seen from outside.                                 *)
LEMMA PhaseFacts ==
  /\ pc = "idle" => Phase = "idle"
  /\ pc \in ArenaOps => Phase = "called"
  /\ pc \in {"unwind", "return"} => Phase = "answered"
  /\ pc' = "idle" => Phase' = "idle"
  /\ pc' \in ArenaOps \cup {"aborted"} => Phase' = "called"
  /\ pc' \in {"unwind", "return"} => Phase' = "answered"
BY DEF Phase, ArenaOps

LEMMA TableKept ==
  ASSUME nodes' = nodes
  PROVE  Table' = Table
BY TableIs

(* The empty arena is the empty table.                                     *)
LEMMA InitIs ==
  ASSUME Init
  PROVE  Abstract!Init
<1>1. nodes = <<ArenaNode>> /\ IndexOf(nodes) = {0} /\ nodes[0 + 1].value = None
  BY ArenaNodeType DEF Init, IndexOf
<1>2. Indexed(nodes)
  <2>1. Tree(nodes)
    BY ArenaInitInv, ArenaFacts
  <2>. QED BY <1>1, <2>1, NullType DEF Indexed
<1>3. \A p \in Canonical : Found(nodes, p) = None
  <2>. SUFFICES ASSUME NEW p \in Canonical PROVE Found(nodes, p) = None
    OBVIOUS
  <2>1. NodeAt(nodes, p.ip, p.mask) \in {0, NULL}
    BY <1>1, <1>2, NodeAtType DEF Canonical, IpPrefix
  <2>. QED BY <1>1, <2>1 DEF Found
<1>4. Table = [p \in {} |-> None]
  <2>1. {q \in Canonical : Found(nodes, q) # None} = {}
    BY <1>3
  <2>. QED BY <2>1, TableIs DEF TableOf
<1>. QED
  BY <1>4, PhaseFacts, SameWords DEF Init, Abstract!Init

(* Walking down and back up does not show.                                 *)
LEMMA WalkHidden ==
  ASSUME \/ InsertFollow \/ MatchDescend \/ ContainsDescend \/ RemoveDescend
         \/ InsertAbort \/ RemoveFinish \/ UNCHANGED vars
  PROVE  UNCHANGED Abstract!vars
<1>1. nodes' = nodes /\ req' = req /\ reply' = reply
  BY DEF InsertFollow, MatchDescend, ContainsDescend, RemoveDescend, InsertAbort,
         RemoveFinish, Finish, vars
<1>2. Phase' = Phase
  BY DEF InsertFollow, MatchDescend, ContainsDescend, RemoveDescend, InsertAbort,
         RemoveFinish, Finish, vars, Phase
<1>. QED
  BY <1>1, <1>2, TableKept DEF Abstract!vars

LEMMA GrowHidden ==
  ASSUME ArenaInv, InsertGrow, MaxNodes <= NULL
  PROVE  UNCHANGED Abstract!vars
<1>1. Table' = Table
  BY GrownApart, TableIs
<1>. QED
  BY <1>1 DEF InsertGrow, Phase, Abstract!vars

(* A pruned node is blank: the tree before differs from the tree after by  *)
(* a blank node.                                                           *)
LEMMA UnwindHidden ==
  ASSUME ArenaInv, RemoveUnwind, MaxNodes <= NULL
  PROVE  UNCHANGED Abstract!vars
<1>. DEFINE ms == nodes'
<1>1. /\ Parent \in IndexOf(nodes) /\ LinkTo(nodes, Parent, Side, cur)
      /\ Parent < cur /\ cur \in IndexOf(nodes)
      /\ Tree(nodes) /\ Indexed(nodes) /\ Parent \in Nat
      /\ ms = IF prune THEN WithoutLink(nodes, Parent, Side) ELSE nodes
      /\ pc = "unwind"
  BY UnwindFacts, IndexedNow, ArenaFacts DEF IndexOf
<1>2. /\ Tree(ms) /\ Len(ms) = Len(nodes) /\ IndexOf(ms) = IndexOf(nodes)
      /\ ms[Parent + 1].value = nodes[Parent + 1].value
      /\ \A i \in IndexOf(nodes) : i # Parent => ms[i + 1] = nodes[i + 1]
      /\ \A i, d, j : LinkTo(ms, i, d, j) <=>
           LinkTo(nodes, i, d, j) /\ ~(prune /\ i = Parent /\ d = Side)
  BY Unwound DEF Node
<1>3. TableOf(ms) = TableOf(nodes)
  <2>1. CASE prune
    <3>1. nodes[cur + 1] = ArenaNode
      BY <1>1, <2>1 DEF ArenaInv, ArenaControl, Node
    <3>2. Indexed(ms)
      BY <1>1, <1>2 DEF Indexed
    <3>. HIDE DEF ms
    <3>3. \A i, b, j : LinkTo(ms, i, b, j) => LinkTo(nodes, i, b, j)
      BY <1>2
    <3>4. \A i, b, j : LinkTo(nodes, i, b, j) => LinkTo(ms, i, b, j) \/ j = cur
      <4>1. \A j : LinkTo(nodes, Parent, Side, j) => j = cur
        BY <1>1 DEF LinkTo
      <4>. QED BY <1>2, <4>1
    <3>5. \A b, j : ~LinkTo(nodes, cur, b, j)
      BY <3>1, ArenaNodeType DEF LinkTo, LinkOf
    <3>6. BlankApart(ms, nodes, cur)
      BY <1>1, <3>2, <3>3, <3>4, <3>5 DEF BlankApart
    <3>7. /\ nodes[cur + 1].value = None
          /\ \A i \in IndexOf(ms) : nodes[i + 1].value = ms[i + 1].value
      BY <1>2, <3>1, ArenaNodeType
    <3>. QED BY ONLY <3>6, <3>7, BlankHidden
  <2>2. CASE ~prune
    BY <1>1, <2>2
  <2>. QED BY <2>1, <2>2
<1>4. Table' = Table
  BY <1>3, TableIs
<1>. QED
  BY <1>4 DEF RemoveUnwind, Phase, Abstract!vars
------------------------------------------------------------------------------
(* The steps at which a call takes effect.                                 *)
LEMMA CallIs ==
  ASSUME Call
  PROVE  Abstract!Call
<1>1. pc = "idle" /\ req' \in Request /\ pc' \in ArenaOps /\ nodes' = nodes /\ reply' = reply
  BY DEF Call
<1>2. Phase = "idle" /\ Phase' = "called"
  BY <1>1, PhaseFacts
<1>. QED
  BY <1>1, <1>2, TableKept, SameWords DEF Abstract!Call

LEMMA ReturnIs ==
  ASSUME Return
  PROVE  Abstract!Return
<1>1. pc = "return" /\ pc' = "idle" /\ nodes' = nodes /\ req' = NoRequest /\ reply' = None
  BY DEF Return
<1>2. Phase = "answered" /\ Phase' = "idle"
  BY <1>1, PhaseFacts
<1>. QED
  BY <1>1, <1>2, TableKept, SameWords DEF Abstract!Return

LEMMA InsertStoreIs ==
  ASSUME ArenaInv, OnPath, InsertStore, MaxNodes <= NULL
  PROVE  Abstract!Insert
<1>1. /\ pc = "insert" /\ depth = len /\ pc' = "return" /\ req' = req
      /\ nodes' = WithValue(nodes, cur, req.value)
      /\ reply' \in IF Node(cur).value # None THEN Done ELSE {Unit}
  BY DEF InsertStore, WithValue
<1>2. /\ pc \in KeyedOps /\ pc \in ArenaOps /\ req.op = "insert"
      /\ req.value \in Value /\ req.value # None
      /\ key \in Canonical /\ Found(nodes, key) = Node(cur).value
  BY <1>1, KeyFacts, OperandFacts, NoneAssumption DEF KeyedOps
<1>3. \A p \in Canonical : Found(nodes', p) = IF p = key THEN req.value ELSE Found(nodes, p)
  BY <1>1, <1>2, KeyWritten
<1>4. TableOf(nodes') = [p \in DOMAIN TableOf(nodes) \cup {key} |->
                           IF p = key THEN req.value ELSE TableOf(nodes)[p]]
  <2>1. {q \in Canonical : Found(nodes', q) # None}
          = {q \in Canonical : Found(nodes, q) # None} \cup {key}
    BY <1>2, <1>3
  <2>. QED BY <1>3, <2>1 DEF TableOf
<1>5. Table' = [p \in DOMAIN Table \cup {key} |-> IF p = key THEN req.value ELSE Table[p]]
  BY <1>4, TableIs
<1>6. key \in DOMAIN Table <=> Node(cur).value # None
  BY <1>2, TableIs DEF TableOf
<1>7. Phase = "called" /\ Phase' = "answered"
  BY <1>1, <1>2, PhaseFacts
<1>. QED
  BY <1>1, <1>2, <1>5, <1>6, <1>7, SameWords DEF Abstract!Insert, Abstract!Answer

LEMMA RemoveTargetIs ==
  ASSUME ArenaInv, OnPath, RemoveTarget, MaxNodes <= NULL
  PROVE  Abstract!Remove
<1>1. /\ pc = "remove" /\ depth = len /\ pc' = "unwind" /\ req' = req
      /\ nodes' = WithValue(nodes, cur, None)
      /\ reply' = Node(cur).value
  BY DEF RemoveTarget, WithValue
<1>2. /\ pc \in KeyedOps /\ pc \in ArenaOps /\ req.op = "remove"
      /\ key \in Canonical /\ Found(nodes, key) = Node(cur).value
  BY <1>1, KeyFacts DEF KeyedOps
<1>3. \A p \in Canonical : Found(nodes', p) = IF p = key THEN None ELSE Found(nodes, p)
  BY <1>1, <1>2, KeyWritten
<1>4. TableOf(nodes') = [p \in DOMAIN TableOf(nodes) \ {key} |-> TableOf(nodes)[p]]
  <2>1. {q \in Canonical : Found(nodes', q) # None}
          = {q \in Canonical : Found(nodes, q) # None} \ {key}
    BY <1>2, <1>3
  <2>. QED BY <1>3, <2>1 DEF TableOf
<1>5. Table' = [p \in DOMAIN Table \ {key} |-> Table[p]]
  BY <1>4, TableIs
<1>6. reply' = IF key \in DOMAIN Table THEN Table[key] ELSE None
  BY <1>1, <1>2, TableIs DEF TableOf
<1>7. Phase = "called" /\ Phase' = "answered"
  BY <1>1, <1>2, PhaseFacts
<1>. QED
  BY <1>1, <1>2, <1>5, <1>6, <1>7, SameWords DEF Abstract!Remove, Abstract!Answer, Abstract!Find

(* A walk that stops short has not missed the prefix.                      *)
LEMMA RemoveMissIs ==
  ASSUME ArenaInv, OnPath, RemoveMiss, MaxNodes <= NULL
  PROVE  Abstract!Remove
<1>1. /\ pc = "remove" /\ depth < len /\ child = NULL /\ pc' = "unwind"
      /\ nodes' = nodes /\ req' = req /\ reply' = reply
  BY DEF RemoveMiss
<1>2. /\ pc \in KeyedOps /\ pc \in ArenaOps /\ req.op = "remove" /\ reply = None
      /\ Found(nodes, key) = None
  BY <1>1, KeyFacts DEF KeyedOps, ArenaInv, ArenaControl
<1>3. key \notin DOMAIN Table
  BY <1>2, TableIs DEF TableOf
<1>4. Table = [p \in DOMAIN Table \ {key} |-> Table[p]]
  BY <1>3 DEF Table
<1>5. Phase = "called" /\ Phase' = "answered" /\ Table' = Table
  BY <1>1, <1>2, PhaseFacts, TableKept
<1>. QED
  BY <1>1, <1>2, <1>3, <1>4, <1>5, SameWords DEF Abstract!Remove, Abstract!Answer, Abstract!Find

LEMMA ContainsIs ==
  ASSUME ArenaInv, OnPath, ContainsEnd, MaxNodes <= NULL
  PROVE  Abstract!Contains
<1>1. pc = "contains" /\ pc' = "return" /\ nodes' = nodes /\ req' = req
  BY DEF ContainsEnd, Finish
<1>2. /\ pc \in ArenaOps /\ req.op = "contains" /\ key \in Canonical
      /\ depth = len => Found(nodes, key) = Node(cur).value
      /\ depth < len /\ child = NULL => Found(nodes, key) = None
  BY <1>1, KeyFacts DEF KeyedOps
<1>3. key \in DOMAIN Table <=> Found(nodes, key) # None
  BY <1>2, TableIs DEF TableOf
<1>4. reply' = (key \in DOMAIN Table)
  <2>1. CASE depth < len /\ child = NULL /\ reply' = FALSE
    <3>1. (key \in DOMAIN Table) = FALSE
      BY <1>2, <1>3, <2>1
    <3>. QED BY <2>1, <3>1
  <2>2. CASE depth = len /\ reply' = (Node(cur).value # None)
    BY <1>2, <1>3, <2>2
  <2>. QED BY <2>1, <2>2 DEF ContainsEnd, Finish
<1>5. Phase = "called" /\ Phase' = "answered" /\ Table' = Table
  BY <1>1, <1>2, PhaseFacts, TableKept
<1>. QED
  BY <1>1, <1>2, <1>4, <1>5, SameWords DEF Abstract!Contains, Abstract!Answer

LEMMA MatchIs ==
  ASSUME ArenaInv, OnPath, MatchEnd, MaxNodes <= NULL
  PROVE  Abstract!Lookup("longest_match")
<1>1. /\ pc = "longest_match" /\ pc \in ArenaOps /\ pc' = "return" /\ nodes' = nodes /\ req' = req
      /\ reply' = best /\ (depth < len => child = NULL)
  BY DEF MatchEnd, Finish, ArenaOps
<1>2. req \in Request /\ req.op = "longest_match" /\ addr = req.addr /\ len = BITS
  <2>1. req \in Request /\ req.op = pc
    BY <1>1 DEF ArenaInv, ArenaControl
  <2>. QED BY <1>1, <2>1, OperandFacts
<1>3. best = IF LongestMatch(TableOf(nodes), addr) = None THEN None
             ELSE LongestMatch(TableOf(nodes), addr).value
  <2>1. /\ addr \in Address /\ depth \in 0..BITS /\ Indexed(nodes)
        /\ depth < BITS => NodeAt(nodes, addr, depth + 1) = NULL
    BY <1>1, <1>2, WalkFacts, IndexedNow
  <2>2. BestOf(nodes, addr, depth, best)
    BY <1>1 DEF OnPath
  <2>. QED BY <2>1, <2>2, BestEnds
<1>4. reply' = LookupReply("longest_match", LongestMatch(Table, req.addr))
  BY <1>1, <1>2, <1>3, TableIs DEF LookupReply
<1>5. Phase = "called" /\ Phase' = "answered" /\ Table' = Table
  BY <1>1, PhaseFacts, TableKept
<1>. QED
  BY <1>1, <1>2, <1>4, <1>5, SameWords DEF Abstract!Lookup, Abstract!Answer

(* Every step is a step of the routing table or invisible.                 *)
LEMMA StepIs ==
  ASSUME ArenaInv, OnPath, [Next]_vars, MaxNodes <= NULL
  PROVE  [Abstract!Next]_Abstract!vars
<1>1. CASE Call
  BY <1>1, CallIs DEF Abstract!Next
<1>2. CASE Return
  BY <1>2, ReturnIs DEF Abstract!Next
<1>3. CASE \/ InsertFollow \/ MatchDescend \/ ContainsDescend \/ RemoveDescend
           \/ InsertAbort \/ RemoveFinish \/ UNCHANGED vars
  BY <1>3, WalkHidden
<1>4. CASE InsertGrow
  BY <1>4, GrowHidden
<1>5. CASE RemoveUnwind
  BY <1>5, UnwindHidden
<1>6. CASE InsertStore
  BY <1>6, InsertStoreIs DEF Abstract!Next, Abstract!Effect
<1>7. CASE RemoveMiss \/ RemoveTarget
  BY <1>7, RemoveMissIs, RemoveTargetIs DEF Abstract!Next, Abstract!Effect
<1>8. CASE ContainsEnd
  BY <1>8, ContainsIs DEF Abstract!Next, Abstract!Effect
<1>9. CASE MatchEnd
  <2>1. "longest_match" \in Abstract!LookupOps
    BY SameWords DEF LookupOps
  <2>. QED BY <1>9, <2>1, MatchIs DEF Abstract!Next, Abstract!Effect
<1>. QED
  BY <1>1, <1>2, <1>3, <1>4, <1>5, <1>6, <1>7, <1>8, <1>9 DEF Next, Step
------------------------------------------------------------------------------
(* At every point of a lookup the best value is that of the longest match  *)
(* among the prefixes no longer than the path walked.                      *)
THEOREM ArenaBest ==
  ASSUME MaxNodes <= NULL
  PROVE  Spec => []ArenaBestSoFar
<1>1. Init => ArenaInv /\ OnPath
  BY ArenaInitInv, OnPathInit
<1>2. ArenaInv /\ OnPath /\ [Next]_vars => ArenaInv' /\ OnPath'
  BY ArenaNextInv, OnPathNext
<1>3. ArenaInv /\ OnPath => ArenaBestSoFar
  <2>. SUFFICES ASSUME ArenaInv, OnPath, pc = "longest_match"
                PROVE  best = IF LongestMatch(UpTo(Table, depth), req.addr) = None THEN None
                              ELSE LongestMatch(UpTo(Table, depth), req.addr).value
    BY DEF ArenaBestSoFar, UpTo
  <2>1. pc \in ArenaOps /\ req \in Request /\ addr = req.addr
    BY OperandFacts DEF ArenaOps, ArenaInv, ArenaControl
  <2>2. addr \in Address /\ depth \in 0..BITS /\ Indexed(nodes) /\ BestOf(nodes, addr, depth, best)
    BY <2>1, WalkFacts, IndexedNow DEF OnPath
  <2>. QED BY <2>1, <2>2, BestIs, TableIs
<1>. QED
  BY <1>1, <1>2, <1>3, PTL DEF Spec

(* The arena is a map from canonical prefixes to values as long as its     *)
(* indices last: every call answers as the map does, over any history of   *)
(* grown and pruned paths.                                                 *)
THEOREM ArenaRefinement ==
  ASSUME MaxNodes <= NULL
  PROVE  Spec => ArenaImplementsTable
<1>1. Init => ArenaInv /\ OnPath /\ Abstract!Init
  BY ArenaInitInv, OnPathInit, InitIs
<1>2. ArenaInv /\ OnPath /\ [Next]_vars => ArenaInv' /\ OnPath'
  BY ArenaNextInv, OnPathNext
<1>3. ArenaInv /\ OnPath /\ [Next]_vars => [Abstract!Next]_Abstract!vars
  BY StepIs
<1>. QED
  BY <1>1, <1>2, <1>3, PTL DEF Spec, ArenaImplementsTable

(* What the test contains_inserted_prefix says holds for as long as the    *)
(* indices last: what an insert has answered for is in the table.          *)
THEOREM ArenaInserted ==
  ASSUME MaxNodes <= NULL
  PROVE  Spec => []InsertedIsContained
<1>. DEFINE I == ArenaInv /\ OnPath /\ InsertedIsContained
<1>1. Init => I
  BY ArenaInitInv, OnPathInit DEF Init, InsertedIsContained
<1>2. ASSUME ArenaInv, OnPath, InsertedIsContained, [Next]_vars
      PROVE  InsertedIsContained'
  <2>. SUFFICES ASSUME pc' = "return", req'.op = "insert"
                PROVE  Holds(key)'
    BY DEF InsertedIsContained
  <2>1. CASE InsertStore
    <3>1. /\ pc = "insert" /\ depth = len /\ key' = key
          /\ nodes' = WithValue(nodes, cur, req.value)
      BY <2>1, OperandsKept DEF InsertStore, WithValue
    <3>2. /\ key \in Canonical /\ req.value \in Value /\ req.value # None /\ pc \in KeyedOps
      <4>1. pc \in KeyedOps
        BY <3>1 DEF KeyedOps
      <4>2. key \in Canonical /\ req \in Request /\ req.op = "insert"
        BY <1>2, <3>1, <4>1, KeyFacts
      <4>. QED BY <4>1, <4>2, OperandFacts, NoneAssumption
    <3>3. Found(nodes', key) # None
      BY <1>2, <3>1, <3>2, KeyWritten
    <3>4. key \in DOMAIN TableOf(nodes')
      BY <3>2, <3>3 DEF TableOf
    <3>. QED BY <3>1, <3>4, TableIs DEF Table
  <2>2. CASE UNCHANGED vars
    <3>1. nodes' = nodes /\ key' = key /\ Holds(key)
      BY <1>2, <2>2, OperandsKept DEF vars, InsertedIsContained
    <3>. QED BY <3>1 DEF Holds, Reach, Node
  <2>3. CASE MatchEnd \/ ContainsEnd \/ RemoveFinish
    <3>1. req.op # "insert" /\ req' = req
      BY <1>2, <2>3 DEF MatchEnd, ContainsEnd, RemoveFinish, Finish, ArenaInv, ArenaControl, ArenaOps
    <3>. QED BY <3>1
  <2>4. CASE Call
    BY <2>4 DEF Call, ArenaOps
  <2>5. CASE InsertFollow \/ InsertGrow \/ MatchDescend \/ ContainsDescend \/ RemoveDescend
    BY <2>5 DEF InsertFollow, InsertGrow, MatchDescend, ContainsDescend, RemoveDescend
  <2>6. CASE InsertAbort \/ RemoveMiss \/ RemoveTarget \/ Return
    BY <2>6 DEF InsertAbort, RemoveMiss, RemoveTarget, Return
  <2>7. CASE RemoveUnwind
    BY <2>7 DEF RemoveUnwind
  <2>. QED BY <1>2, <2>1, <2>2, <2>3, <2>4, <2>5, <2>6, <2>7 DEF Next, Step
<1>3. I /\ [Next]_vars => I'
  BY <1>2, ArenaNextInv, OnPathNext
<1>. QED
  BY <1>1, <1>3, PTL DEF Spec
==============================================================================
