--------------------------- MODULE ArenaTableProps ---------------------------
(***************************************************************************)
(* What must hold of the arena: the invariants of its links, termination,  *)
(* and the routing table it implements as long as its indices last.        *)
(***************************************************************************)
EXTENDS ArenaTable

Index == 0..(Len(nodes) - 1)

(* The nodes some link leads to, and the root.                             *)
Links  == {l \in Index \X {0, 1} : Node(l[1]).children[l[2]] # NULL}
Target(l) == Node(l[1]).children[l[2]]
Linked == {0} \cup {Target(l) : l \in Links}

(* Where the links lead for a prefix: an index, or NULL.                   *)
Reach(p) ==
  LET at[d \in 0..BITS] ==
        IF d = 0 THEN 0
        ELSE IF at[d - 1] = NULL THEN NULL
        ELSE Node(at[d - 1]).children[p.ip[d]]
  IN  at[p.mask]

Holds(p) == Reach(p) # NULL /\ Node(Reach(p)).value # None

Canonical == {p \in IpPrefix : masked(p) = p}

Table == [p \in {q \in Canonical : Holds(q)} |-> Node(Reach(p)).value]

Phase == CASE pc = "idle"                -> "idle"
           [] pc \in {"unwind", "return"} -> "answered"
           [] OTHER                      -> "called"
------------------------------------------------------------------------------
Abstract == INSTANCE RoutingTable WITH table <- Table, phase <- Phase

(* The trie is a routing table: growing paths, walking and pruning are     *)
(* invisible, and every call answers what the table answers, over any      *)
(* history that leaves blank nodes behind.                                 *)
ArenaImplementsTable == Abstract!Init /\ [][Abstract!Next]_Abstract!vars

ReplySet(op) ==
  CASE op = "none"                         -> {None}
    [] op = "insert"                       -> Done
    [] op \in {"remove", "longest_match"}  -> Value \cup {None}
    [] op = "contains"                     -> BOOLEAN

(* Types.                                                                  *)
ArenaTypeOK ==
  /\ nodes \in Seq([children : [{0, 1} -> 0..NULL], value : Value \cup {None}])
  /\ pc \in ArenaOps \cup {"idle", "unwind", "return", "aborted"}
  /\ req \in Request \cup {NoRequest}
  /\ IF pc = "return" THEN reply \in ReplySet(req.op) ELSE reply \in Value \cup {None}
  /\ cur \in Index
  /\ depth \in 0..BITS
  /\ best \in Value \cup {None}
  /\ stack \in Seq([cur : Nat, bit : {0, 1}])
  /\ prune \in BOOLEAN

(* Links are indices of the Vec and lead to younger nodes, and no node is  *)
(* linked twice: the nodes form a tree, and a walk cannot loop.            *)
LinksForward ==
  /\ \A l \in Links : l[1] < Target(l) /\ Target(l) \in Index
  /\ \A l, m \in Links : Target(l) = Target(m) => l = m

(* A node that was pruned is blank: no value is kept alive in a node no    *)
(* call can reach any more, and nothing hangs below it.                    *)
PrunedIsBlank == \A i \in Index \ Linked : Node(i) = ArenaNode

(* A node that is linked but empty is the one an insert is about to fill   *)
(* or a remove about to prune.                                             *)
NoEmptyNodes ==
  \A i \in Linked \ {0} :
    Node(i) = ArenaNode => i = cur /\ (pc \in {"insert", "aborted"} \/ (pc = "unwind" /\ prune))

(* A suspended frame of remove_recursive still has the link it followed,   *)
(* whatever the recursion pruned below.                                    *)
FramesLinked ==
  \A i \in DOMAIN stack :
    Node(stack[i].cur).children[stack[i].bit] =
      IF i < Len(stack) THEN stack[i + 1].cur ELSE cur

(* The best value is that of the longest match among the prefixes no       *)
(* longer than the path walked.                                            *)
ArenaBestSoFar ==
  pc = "longest_match" =>
    LET above == [p \in {q \in DOMAIN Table : q.mask <= depth} |-> Table[p]]
        m     == LongestMatch(above, req.addr)
    IN  best = IF m = None THEN None ELSE m.value

(* Every call returns or runs out of memory.                               *)
ArenaResponds == pc # "idle" ~> pc \in {"idle", "aborted"}
------------------------------------------------------------------------------
(* The test contains_inserted_prefix (table.rs:424): what was inserted is  *)
(* in the table.                                                           *)
InsertedIsContained ==
  pc = "return" /\ req.op = "insert" => Holds(key)
==============================================================================
