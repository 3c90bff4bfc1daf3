------------------------------ MODULE TreeBitmap ------------------------------
(***************************************************************************)
(* src/treebitmap: RouteMap as it is built, a tree of nodes that each      *)
(* consume STRIDE = 4 address bits.  A node keeps two bitmaps and two      *)
(* compact Vecs; the Vec index of a bit is its rank in the bitmap.         *)
(*                                                                         *)
(* A bitmap is the set of its one-bits.  The Vec<TbNode> of a node owns    *)
(* its children; here it holds references into `heap', and a reference is  *)
(* the prefix of the addresses the node was created for (IterFrame's addr  *)
(* and hop).  Following children[rank] therefore leads to the right node   *)
(* only if every rank computation is right.                                *)
(*                                                                         *)
(* A call runs as the code does: one action per loop iteration, recursive  *)
(* descent or unwinding step, with the locals of the running function in   *)
(* `hop', `node', `best', `stack' and `prune'.                             *)
(***************************************************************************)
EXTENDS TreeBits

VARIABLES
  heap,    \* node reference -> TbNode, the live nodes
  count,   \* RouteMap.count
  pc,      \* "idle", the function being run, "unwind" or "return"
  req,     \* the call in progress
  reply,   \* its answer, None until there is one
  node,    \* the current node of the walk
  hop,     \* strides consumed by the walk
  best,    \* longest_match_impl's best: None or [value, len]
  stack,   \* remove_at's suspended frames, root first
  prune    \* the bool remove_at returned

locals == <<node, hop, best, stack, prune>>
vars == <<heap, count, pc, req, reply, locals>>
------------------------------------------------------------------------------
(* The operands of the running call.                                       *)
key      == masked(req.prefix)
addr     == IF req.op \in LookupOps THEN req.addr ELSE key.ip
fullHops == key.mask \div STRIDE
relLen   == key.mask % STRIDE

here == heap[node]
nib  == nibble(addr, hop)

(* bpos in the target node; the nibble is not read when rel_len is 0       *)
bpos == IF relLen > 0 THEN Position(nib, relLen) ELSE 1

valueIdx == rank(here.internal, bpos)
childIdx == rank(here.external, nib)

(* Slip: the loop body does not advance.                                   *)
DescendNowhere == UNCHANGED <<node, hop>>

(* node = &node.children[rank(node.external, nib)]; hop += 1               *)
Descend ==
  /\ node' = At(here.children, childIdx)
  /\ hop' = hop + 1

Finish(answer) ==
  /\ reply' = answer
  /\ pc' = "return"
------------------------------------------------------------------------------
Init ==
  /\ heap = [r \in {Root} |-> EmptyNode]
  /\ count = 0
  /\ pc = "idle"
  /\ req = NoRequest
  /\ reply = None
  /\ node = Root
  /\ hop = 0
  /\ best = None
  /\ stack = <<>>
  /\ prune = FALSE

Call ==
  /\ pc = "idle"
  /\ req' \in Request
  /\ pc' = req'.op
  /\ UNCHANGED <<heap, count, reply, locals>>

Return ==
  /\ pc = "return"
  /\ pc' = "idle"
  /\ req' = NoRequest
  /\ reply' = None
  /\ node' = Root
  /\ hop' = 0
  /\ best' = None
  /\ stack' = <<>>
  /\ prune' = FALSE
  /\ UNCHANGED <<heap, count>>
------------------------------------------------------------------------------
(* insert                                                                  *)

InsertFollow ==
  /\ pc = "insert"
  /\ hop < fullHops
  /\ nib \in here.external
  /\ Descend
  /\ UNCHANGED <<heap, count, pc, req, reply, best, stack, prune>>

(* Slip: the child is pushed, not inserted at its rank.                    *)
InsertGrowPushed ==
  /\ pc = "insert"
  /\ hop < fullHops
  /\ nib \notin here.external
  /\ LET new   == Child(node, nib)
         grown == [here EXCEPT !.children = Append(@, new),
                               !.external = @ \cup {nib}]
     IN  /\ heap' = WithNode(WithNode(heap, new, EmptyNode), node, grown)
         /\ node' = new
  /\ hop' = hop + 1
  /\ UNCHANGED <<count, pc, req, reply, best, stack, prune>>

(* The child is missing: it is created, linked and entered.                *)
InsertGrow ==
  /\ pc = "insert"
  /\ hop < fullHops
  /\ nib \notin here.external
  /\ LET new   == Child(node, nib)
         grown == [here EXCEPT !.children = VecInsert(@, childIdx, new),
                               !.external = @ \cup {nib}]
     IN  /\ heap' = WithNode(WithNode(heap, new, EmptyNode), node, grown)
         /\ node' = At(grown.children, childIdx)
  /\ hop' = hop + 1
  /\ UNCHANGED <<count, pc, req, reply, best, stack, prune>>

(* values[idx] = value drops the old value, whose destructor may panic;    *)
(* the new one is in place even then.                                      *)
InsertReplace ==
  /\ pc = "insert"
  /\ hop = fullHops
  /\ bpos \in here.internal
  /\ heap' = [heap EXCEPT ![node].values[valueIdx + 1] = req.value]
  /\ \E answer \in Done : Finish(answer)
  /\ UNCHANGED <<count, req, locals>>

InsertNew ==
  /\ pc = "insert"
  /\ hop = fullHops
  /\ bpos \notin here.internal
  /\ heap' = WithNode(heap, node,
               [here EXCEPT !.values = VecInsert(@, valueIdx, req.value),
                            !.internal = @ \cup {bpos}])
  /\ count' = count + 1
  /\ Finish(Unit)
  /\ UNCHANGED <<req, locals>>
------------------------------------------------------------------------------
(* longest_match and longest_match_entry                                   *)

(* best after the internal bitmap of the current node has been looked at   *)
bestHere ==
  LET hits == here.internal \cap MatchMask(nib)
      hit  == HighestBit(hits)
  IN  IF hits = {}
      THEN best
      ELSE [value |-> At(here.values, rank(here.internal, hit)),
            len   |-> hop * STRIDE + RelLen(hit)]

(* longest_match drops the length; longest_match_entry turns it into the   *)
(* canonical prefix of the address looked up.                              *)
Found(b) ==
  IF b = None
  THEN None
  ELSE LookupReply(req.op,
         [prefix |-> masked([ip |-> req.addr, mask |-> b.len]), value |-> b.value])

MatchDescend ==
  /\ pc \in LookupOps
  /\ hop < Strides
  /\ nib \in here.external
  /\ best' = bestHere
  /\ Descend
  /\ UNCHANGED <<heap, count, pc, req, reply, stack, prune>>

MatchBreak ==
  /\ pc \in LookupOps
  /\ hop < Strides
  /\ nib \notin here.external
  /\ Finish(Found(bestHere))
  /\ UNCHANGED <<heap, count, req, locals>>

(* All strides consumed: only a full-length prefix can be stored here.     *)
MatchBottom ==
  /\ pc \in LookupOps
  /\ hop = Strides
  /\ Finish(Found(IF 1 \in here.internal
                  THEN [value |-> At(here.values, rank(here.internal, 1)), len |-> BITS]
                  ELSE best))
  /\ UNCHANGED <<heap, count, req, locals>>
------------------------------------------------------------------------------
(* get and contains                                                        *)

Probing == pc \in {"get", "contains"}

ProbeDescend ==
  /\ Probing
  /\ hop < fullHops
  /\ nib \in here.external
  /\ Descend
  /\ UNCHANGED <<heap, count, pc, req, reply, best, stack, prune>>

ProbeMiss ==
  /\ Probing
  /\ hop < fullHops
  /\ nib \notin here.external
  /\ Finish(IF pc = "get" THEN None ELSE FALSE)
  /\ UNCHANGED <<heap, count, req, locals>>

ProbeTarget ==
  /\ Probing
  /\ hop = fullHops
  /\ LET present == bpos \in here.internal
     IN  Finish(CASE pc = "contains"             -> present
                  [] pc = "get" /\ present       -> At(here.values, valueIdx)
                  [] pc = "get" /\ ~present      -> None)
  /\ UNCHANGED <<heap, count, req, locals>>
------------------------------------------------------------------------------
(* remove                                                                  *)

(* Slip: the index is taken for the next nibble.                           *)
RemoveDescendLate ==
  /\ pc = "remove"
  /\ hop < fullHops
  /\ nib \in here.external
  /\ stack' = Append(stack, [node |-> node, nib |-> nib,
                             idx |-> rank(here.external, nib + 1)])
  /\ Descend
  /\ UNCHANGED <<heap, count, pc, req, reply, best, prune>>

(* The recursive call; nib and child_idx stay in the suspended frame.      *)
RemoveDescend ==
  /\ pc = "remove"
  /\ hop < fullHops
  /\ nib \in here.external
  /\ stack' = Append(stack, [node |-> node, nib |-> nib, idx |-> childIdx])
  /\ Descend
  /\ UNCHANGED <<heap, count, pc, req, reply, best, prune>>

RemoveMiss ==
  /\ pc = "remove"
  /\ \/ hop < fullHops /\ nib \notin here.external
     \/ hop = fullHops /\ bpos \notin here.internal
  /\ pc' = "unwind"
  /\ UNCHANGED <<heap, count, req, reply, locals>>

(* Slip: the bit is cleared and the value left in its slot.                *)
RemoveTargetKept ==
  /\ pc = "remove"
  /\ hop = fullHops
  /\ bpos \in here.internal
  /\ LET left == [here EXCEPT !.internal = @ \ {bpos}]
     IN  /\ heap' = [heap EXCEPT ![node] = left]
         /\ prune' = IsDead(left)
  /\ reply' = At(here.values, valueIdx)
  /\ pc' = "unwind"
  /\ UNCHANGED <<count, req, node, hop, best, stack>>

RemoveTarget ==
  /\ pc = "remove"
  /\ hop = fullHops
  /\ bpos \in here.internal
  /\ LET left == [here EXCEPT !.values = VecRemove(@, valueIdx),
                              !.internal = @ \ {bpos}]
     IN  /\ heap' = [heap EXCEPT ![node] = left]
         /\ prune' = IsDead(left)
  /\ reply' = At(here.values, valueIdx)
  /\ pc' = "unwind"
  /\ UNCHANGED <<count, req, node, hop, best, stack>>

(* Back in the caller's frame: drop the child if it reported itself empty, *)
(* by the index taken before the recursion, then report on this node.      *)
RemoveUnwind ==
  /\ pc = "unwind"
  /\ stack # <<>>
  /\ LET frame  == Last(stack)
         parent == heap[frame.node]
         child  == At(parent.children, frame.idx)
         left   == IF prune
                   THEN [parent EXCEPT !.children = VecRemove(@, frame.idx),
                                       !.external = @ \ {frame.nib}]
                   ELSE parent
     IN  /\ heap' = IF prune THEN WithNode(Without(heap, child), frame.node, left)
                             ELSE heap
         /\ prune' = IsDead(left)
         /\ node' = frame.node
  /\ stack' = Front(stack)
  /\ hop' = hop - 1
  /\ UNCHANGED <<count, pc, req, reply, best>>

(* Slip: the count drops even when nothing was found.                      *)
CountAfterEveryRemove(answer) == count - 1

CountAfterRemove(answer) == IF answer # None THEN count - 1 ELSE count

(* The root is never pruned; RouteMap::remove adjusts the count.           *)
RemoveFinish ==
  /\ pc = "unwind"
  /\ stack = <<>>
  /\ count' = CountAfterRemove(reply)
  /\ pc' = "return"
  /\ UNCHANGED <<heap, req, reply, locals>>
------------------------------------------------------------------------------
(* len, is_empty, clear                                                    *)

ReadCount ==
  /\ pc \in {"len", "is_empty"}
  /\ Finish(IF pc = "len" THEN count ELSE count = 0)
  /\ UNCHANGED <<heap, count, req, locals>>

(* Both bitmaps and the count are zeroed, then the children and the values *)
(* are dropped.  A destructor that panics among the children unwinds past  *)
(* values.clear(); one that panics among the values does so after Vec has  *)
(* set its length to 0.                                                    *)
ClearRoot(values) ==
  /\ heap' = [r \in {Root} |-> [EmptyNode EXCEPT !.values = values]]
  /\ count' = 0
  /\ UNCHANGED <<req, locals>>

Clear ==
  /\ pc = "clear"
  /\ ClearRoot(<<>>)
  /\ \E answer \in IF heap[Root].values = <<>> THEN {Unit} ELSE Done : Finish(answer)

(* Slip: the children are dropped before anything is reset.                *)
ClearInterruptedEarly ==
  /\ pc = "clear"
  /\ DropMayPanic
  /\ heap[Root].children # <<>>
  /\ heap' = [r \in {Root} |-> [heap[Root] EXCEPT !.children = <<>>]]
  /\ Finish(Panic)
  /\ UNCHANGED <<count, req, locals>>

ClearInterrupted ==
  /\ pc = "clear"
  /\ DropMayPanic
  /\ heap[Root].children # <<>>
  /\ ClearRoot(heap[Root].values)
  /\ Finish(Panic)
------------------------------------------------------------------------------
Step ==
  \/ InsertFollow \/ InsertGrow \/ InsertReplace \/ InsertNew
  \/ MatchDescend \/ MatchBreak \/ MatchBottom
  \/ ProbeDescend \/ ProbeMiss \/ ProbeTarget
  \/ RemoveDescend \/ RemoveMiss \/ RemoveTarget \/ RemoveUnwind \/ RemoveFinish
  \/ ReadCount \/ Clear \/ ClearInterrupted
  \/ Return

Next == Call \/ Step

(* A call runs on the caller's thread until it returns; clients are free   *)
(* never to call.                                                          *)
Fairness == WF_vars(Step)

Spec == Init /\ [][Next]_vars /\ Fairness
==============================================================================
