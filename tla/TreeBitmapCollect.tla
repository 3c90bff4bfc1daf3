-------------------------- MODULE TreeBitmapCollect --------------------------
(***************************************************************************)
(* original.iter().collect(): FromIterator::from_iter draws the entries of *)
(* one RouteMap from its iterator and inserts each into a new one.  The    *)
(* original is the table of TreeBitmapIter, after any calls its client has *)
(* made; the new table is a second instance of TreeBitmap.                 *)
(***************************************************************************)
EXTENDS TreeBitmapIterProps

VARIABLES
  stage,  \* "use" (the client uses the original), "pull", "next", "put",
          \* "insert" (in from_iter) or "done"
  newHeap, newCount, newPc, newReq, newReply,         \* the table being built
  newNode, newHop, newBest, newStack, newPrune

newLocals == <<newNode, newHop, newBest, newStack, newPrune>>
new == <<newHeap, newCount, newPc, newReq, newReply, newLocals>>

New == INSTANCE TreeBitmap WITH
  heap <- newHeap, count <- newCount, pc <- newPc, req <- newReq, reply <- newReply,
  node <- newNode, hop <- newHop, best <- newBest, stack <- newStack, prune <- newPrune

Use ==
  /\ stage = "use"
  /\ IterNext
  /\ UNCHANGED <<stage, new>>

(* let mut table = Self::new(); the iterator is made by the caller.        *)
Begin ==
  /\ stage = "use"
  /\ pc = "idle"
  /\ Open
  /\ stage' = "pull"
  /\ UNCHANGED new

Pull ==
  /\ stage = "pull"
  /\ Ask
  /\ stage' = "next"
  /\ UNCHANGED new

Advance ==
  /\ stage = "next"
  /\ IterStep
  /\ stage' = IF cursor' = "asked" THEN "next" ELSE "put"
  /\ UNCHANGED new

(* table.insert(prefix, value)                                             *)
Put ==
  /\ stage = "put"
  /\ item # None
  /\ newReq' = [op |-> "insert", prefix |-> item.prefix, value |-> item.value]
  /\ newPc' = "insert"
  /\ stage' = "insert"
  /\ UNCHANGED <<vars, iterVars, newHeap, newCount, newReply, newLocals>>

Insert ==
  /\ stage = "insert"
  /\ New!Step
  /\ stage' = IF newPc' = "idle" THEN "pull" ELSE "insert"
  /\ UNCHANGED <<vars, iterVars>>

Collected ==
  /\ stage = "put"
  /\ item = None
  /\ Close
  /\ stage' = "done"
  /\ UNCHANGED new

(* The client drops the new table and goes on with the original.           *)
Discard ==
  /\ stage = "done"
  /\ stage' = "use"
  /\ newHeap' = [r \in {Root} |-> EmptyNode]
  /\ newCount' = 0
  /\ UNCHANGED <<vars, iterVars, newPc, newReq, newReply, newLocals>>
------------------------------------------------------------------------------
CollectInit == IterInit /\ New!Init /\ stage = "use"

CollectStep == Pull \/ Advance \/ Put \/ Insert \/ Collected

CollectNext == Use \/ Begin \/ CollectStep \/ Discard

collectVars == <<vars, iterVars, stage, new>>

(* from_iter is a loop on its caller's thread.                             *)
CollectSpec ==
  CollectInit /\ [][CollectNext]_collectVars /\ IterFairness /\ WF_collectVars(CollectStep)
------------------------------------------------------------------------------
(* collect() of the entries of a table gives the same table: the same      *)
(* entries, the same count and the very same tree, node by node and slot   *)
(* by slot.  Whatever was inserted, replaced, removed and pruned before,   *)
(* the shape of a tree depends on its entries alone.                       *)
RoundTrip == stage = "done" => newHeap = heap /\ newCount = count

(* from_iter returns: the iterator ends and every insert does.             *)
CollectEnds == stage = "pull" ~> stage = "done"
==============================================================================
