----------------------------- MODULE ArenaTable -----------------------------
(***************************************************************************)
(* src/arena: the archived binary trie.  Nodes live in one Vec and link to *)
(* each other by u32 index; a level of the trie consumes one address bit.  *)
(* Pruning clears a link and leaves the node in the Vec for ever.          *)
(*                                                                         *)
(* As in TreeBitmap an action is one loop iteration, recursive descent or  *)
(* unwinding step of the running function.                                 *)
(***************************************************************************)
EXTENDS RouteMapAPI, SequencesExt

CONSTANTS
  NULL,      \* u32::MAX, the greatest index and the link to nowhere
  MaxNodes   \* the nodes there is memory for

ASSUME NULLAssumption     == NULL \in Nat \ {0}
ASSUME MaxNodesAssumption == MaxNodes \in Nat \ {0}

VARIABLES
  nodes,   \* the Vec: index i of the code is nodes[i + 1]
  pc,      \* "idle", the function being run, "unwind", "return" or "aborted"
  req,     \* the call in progress
  reply,   \* its answer
  cur,     \* index of the current node
  depth,   \* address bits consumed
  best,    \* longest_match's best, a value or None
  stack,   \* remove_recursive's suspended frames, root first
  prune    \* the bool remove_recursive returned

locals == <<cur, depth, best, stack, prune>>
vars == <<nodes, pc, req, reply, locals>>

ArenaOps == {"insert", "longest_match", "remove", "contains"}

ArenaNode == [children |-> [b \in {0, 1} |-> NULL], value |-> None]

(* Slips: the index is taken after the push, or is that of the last node.  *)
AsIndexAfterPush(n) == n + 1
AsIndexOfLast(n) == n - 1

(* `as u32' keeps the low bits.                                            *)
AsIndex(n) == n % (NULL + 1)

Node(i) == nodes[i + 1]
IsLeaf(n) == \A b \in {0, 1} : n.children[b] = NULL

key  == masked(req.prefix)
addr == IF req.op = "longest_match" THEN req.addr ELSE key.ip
len  == IF req.op = "longest_match" THEN BITS ELSE key.mask

(* (addr >> (A::BITS - 1 - depth)) & 1                                     *)
bit   == addr[depth + 1]
child == Node(cur).children[bit]
------------------------------------------------------------------------------
Init ==
  /\ nodes = <<ArenaNode>>
  /\ pc = "idle"
  /\ req = NoRequest
  /\ reply = None
  /\ cur = 0
  /\ depth = 0
  /\ best = None
  /\ stack = <<>>
  /\ prune = FALSE

(* Every function starts at the root; longest_match with the root's value. *)
Call ==
  /\ pc = "idle"
  /\ req' \in {r \in Request : r.op \in ArenaOps}
  /\ pc' = req'.op
  /\ best' = IF req'.op = "longest_match" THEN Node(0).value ELSE None
  /\ UNCHANGED <<nodes, reply, cur, depth, stack, prune>>

Return ==
  /\ pc = "return"
  /\ pc' = "idle"
  /\ req' = NoRequest
  /\ reply' = None
  /\ cur' = 0
  /\ depth' = 0
  /\ best' = None
  /\ stack' = <<>>
  /\ prune' = FALSE
  /\ UNCHANGED nodes

(* Slip: the loop body does not advance.                                   *)
DescendNowhere == UNCHANGED <<cur, depth>>

Descend == cur' = child /\ depth' = depth + 1

Finish(answer) ==
  /\ reply' = answer
  /\ pc' = "return"
  /\ UNCHANGED <<nodes, req, locals>>
------------------------------------------------------------------------------
InsertFollow ==
  /\ pc = "insert"
  /\ depth < len
  /\ child # NULL
  /\ Descend
  /\ UNCHANGED <<nodes, pc, req, reply, best, stack, prune>>

InsertGrow ==
  /\ pc = "insert"
  /\ depth < len
  /\ child = NULL
  /\ Len(nodes) < MaxNodes
  /\ LET new_idx == AsIndex(Len(nodes))
     IN  /\ nodes' = [Append(nodes, ArenaNode) EXCEPT ![cur + 1].children[bit] = new_idx]
         /\ cur' = new_idx
  /\ depth' = depth + 1
  /\ UNCHANGED <<pc, req, reply, best, stack, prune>>

(* push cannot allocate: the process aborts.                               *)
InsertAbort ==
  /\ pc = "insert"
  /\ depth < len
  /\ child = NULL
  /\ Len(nodes) = MaxNodes
  /\ pc' = "aborted"
  /\ UNCHANGED <<nodes, req, reply, locals>>

(* The old value is dropped, and its destructor may panic.                 *)
InsertStore ==
  /\ pc = "insert"
  /\ depth = len
  /\ nodes' = [nodes EXCEPT ![cur + 1].value = req.value]
  /\ reply' \in IF Node(cur).value # None THEN Done ELSE {Unit}
  /\ pc' = "return"
  /\ UNCHANGED <<req, locals>>
------------------------------------------------------------------------------
(* Slip: the node's value replaces best even where there is none.          *)
BetterLast(found, new) == new

Better(found, new) == IF new # None THEN new ELSE found

MatchDescend ==
  /\ pc = "longest_match"
  /\ depth < len
  /\ child # NULL
  /\ Descend
  /\ best' = Better(best, Node(child).value)
  /\ UNCHANGED <<nodes, pc, req, reply, stack, prune>>

MatchEnd ==
  /\ pc = "longest_match"
  /\ depth < len => child = NULL
  /\ Finish(best)

ContainsDescend ==
  /\ pc = "contains"
  /\ depth < len
  /\ child # NULL
  /\ Descend
  /\ UNCHANGED <<nodes, pc, req, reply, best, stack, prune>>

ContainsEnd ==
  /\ pc = "contains"
  /\ \/ depth < len /\ child = NULL /\ Finish(FALSE)
     \/ depth = len /\ Finish(Node(cur).value # None)
------------------------------------------------------------------------------
(* Slip: the frame remembers the last bit of the path.                     *)
FrameAtTarget == [cur |-> cur, bit |-> addr[len]]

Frame == [cur |-> cur, bit |-> bit]

(* The recursive call; cur and bit stay in the suspended frame.            *)
RemoveDescend ==
  /\ pc = "remove"
  /\ depth < len
  /\ child # NULL
  /\ stack' = Append(stack, Frame)
  /\ Descend
  /\ UNCHANGED <<nodes, pc, req, reply, best, prune>>

RemoveMiss ==
  /\ pc = "remove"
  /\ depth < len
  /\ child = NULL
  /\ pc' = "unwind"
  /\ UNCHANGED <<nodes, req, reply, locals>>

(* Slip: a node with children reports itself empty.                        *)
RemoveTargetAlways ==
  /\ pc = "remove"
  /\ depth = len
  /\ nodes' = [nodes EXCEPT ![cur + 1].value = None]
  /\ reply' = Node(cur).value
  /\ prune' = TRUE
  /\ pc' = "unwind"
  /\ UNCHANGED <<req, cur, depth, best, stack>>

RemoveTarget ==
  /\ pc = "remove"
  /\ depth = len
  /\ nodes' = [nodes EXCEPT ![cur + 1].value = None]
  /\ reply' = Node(cur).value
  /\ prune' = IsLeaf(Node(cur))
  /\ pc' = "unwind"
  /\ UNCHANGED <<req, cur, depth, best, stack>>

(* Slips: the value is not looked at; the parent is never reported empty.  *)
EmptyLeaf(n) == IsLeaf(n)
EmptyNever(n) == FALSE

Empty(n) == n.value = None /\ IsLeaf(n)

RemoveUnwind ==
  /\ pc = "unwind"
  /\ stack # <<>>
  /\ LET frame == Last(stack)
         left  == IF prune THEN [Node(frame.cur) EXCEPT !.children[frame.bit] = NULL]
                           ELSE Node(frame.cur)
     IN  /\ nodes' = [nodes EXCEPT ![frame.cur + 1] = left]
         /\ prune' = Empty(left)
         /\ cur' = frame.cur
  /\ stack' = Front(stack)
  /\ depth' = depth - 1
  /\ UNCHANGED <<pc, req, reply, best>>

RemoveFinish ==
  /\ pc = "unwind"
  /\ stack = <<>>
  /\ Finish(reply)
------------------------------------------------------------------------------
Step ==
  \/ InsertFollow \/ InsertGrow \/ InsertAbort \/ InsertStore
  \/ MatchDescend \/ MatchEnd \/ ContainsDescend \/ ContainsEnd
  \/ RemoveDescend \/ RemoveMiss \/ RemoveTarget \/ RemoveUnwind \/ RemoveFinish
  \/ Return

Next == Call \/ Step

(* A call runs on its caller's thread to the end.                          *)
Spec == Init /\ [][Next]_vars /\ WF_vars(Step)
==============================================================================
