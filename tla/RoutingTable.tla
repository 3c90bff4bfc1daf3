---------------------------- MODULE RoutingTable ----------------------------
(***************************************************************************)
(* What RouteMap promises its clients, with no tree in sight: a map from   *)
(* canonical prefixes to values, on which every call takes effect in one   *)
(* step somewhere between its invocation and its return.                   *)
(***************************************************************************)
EXTENDS RouteMapAPI

VARIABLES
  table,   \* canonical prefix -> value
  phase,   \* "idle", "called" (no effect yet) or "answered"
  req,     \* the call in progress
  reply    \* its answer, once phase = "answered"

vars == <<table, phase, req, reply>>

key == masked(req.prefix)

Init ==
  /\ table = [p \in {} |-> None]
  /\ phase = "idle"
  /\ req = NoRequest
  /\ reply = None

Call ==
  /\ phase = "idle"
  /\ req' \in Request
  /\ phase' = "called"
  /\ UNCHANGED <<table, reply>>

(* A call's effect: the new table and the answer.                          *)
Answer(op) ==
  /\ phase = "called"
  /\ req.op = op
  /\ phase' = "answered"
  /\ UNCHANGED req

(* Replacing a value drops the old one, which is all that may panic.       *)
Insert ==
  /\ Answer("insert")
  /\ table' = [p \in DOMAIN table \cup {key} |->
                 IF p = key THEN req.value ELSE table[p]]
  /\ reply' \in IF key \in DOMAIN table THEN Done ELSE {Unit}

Find(p) == IF p \in DOMAIN table THEN table[p] ELSE None

Remove ==
  /\ Answer("remove")
  /\ table' = [p \in DOMAIN table \ {key} |-> table[p]]
  /\ reply' = Find(key)

Get      == Answer("get") /\ reply' = Find(key) /\ UNCHANGED table
Contains == Answer("contains") /\ reply' = (key \in DOMAIN table) /\ UNCHANGED table

Lookup(op) ==
  /\ Answer(op)
  /\ reply' = LookupReply(op, LongestMatch(table, req.addr))
  /\ UNCHANGED table

Len     == Answer("len") /\ reply' = Cardinality(DOMAIN table) /\ UNCHANGED table
IsEmpty == Answer("is_empty") /\ reply' = (DOMAIN table = {}) /\ UNCHANGED table

(* A clear that panics half-way has emptied the table all the same.  What  *)
(* it failed to drop is dropped later, so even an empty table may panic.   *)
Clear ==
  /\ Answer("clear")
  /\ table' = [p \in {} |-> None]
  /\ reply' \in Done

Return ==
  /\ phase = "answered"
  /\ phase' = "idle"
  /\ req' = NoRequest
  /\ reply' = None
  /\ UNCHANGED table

Effect ==
  \/ Insert \/ Remove \/ Get \/ Contains \/ Len \/ IsEmpty \/ Clear
  \/ \E op \in LookupOps : Lookup(op)

Next == Call \/ Effect \/ Return

(* Every call returns: &mut self runs on the caller's thread to the end.   *)
Fairness == WF_vars(Effect) /\ WF_vars(Return)

Spec == Init /\ [][Next]_vars /\ Fairness
==============================================================================
