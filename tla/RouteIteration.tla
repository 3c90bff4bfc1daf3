--------------------------- MODULE RouteIteration ---------------------------
(***************************************************************************)
(* RoutingTable with the promise of iter(): a client that holds an         *)
(* iterator is handed every entry once, an entry before those it covers,   *)
(* and then None for as long as it asks.  The iterator borrows the table:  *)
(* until it is dropped only calls on &self can be made, from this thread   *)
(* or from others, while next() runs.                                      *)
(***************************************************************************)
EXTENDS RoutingTable

VARIABLES
  cursor,  \* "none", "ready" (an iterator is held) or "asked" (in next())
  left,    \* the prefixes next() has not returned yet
  item     \* what the last next() returned

iterVars == <<cursor, left, item>>

(* The functions that take &self.                                          *)
SharedOps == (PrefixOps \cup LookupOps \cup PlainOps) \ {"remove", "clear"}

TableStep ==
  /\ Next
  /\ phase = "idle" /\ cursor # "none" => req'.op \in SharedOps
  /\ UNCHANGED iterVars

Open ==
  /\ cursor = "none"
  /\ phase = "idle" \/ req.op \in SharedOps
  /\ cursor' = "ready"
  /\ left' = DOMAIN table
  /\ item' = None
  /\ UNCHANGED vars

Ask ==
  /\ cursor = "ready"
  /\ cursor' = "asked"
  /\ UNCHANGED <<vars, left, item>>

(* p covers q: p is strictly shorter and the addresses of q match it.      *)
Above(p, q) == p.mask < q.mask /\ Covers(p, q.ip)

Yield ==
  /\ cursor = "asked"
  /\ \E p \in left :
       /\ \A q \in left : ~Above(q, p)
       /\ item' = [prefix |-> p, value |-> table[p]]
       /\ left' = left \ {p}
  /\ cursor' = "ready"
  /\ UNCHANGED vars

End ==
  /\ cursor = "asked"
  /\ left = {}
  /\ item' = None
  /\ cursor' = "ready"
  /\ UNCHANGED <<vars, left>>

Close ==
  /\ cursor = "ready"
  /\ cursor' = "none"
  /\ left' = {}
  /\ item' = None
  /\ UNCHANGED vars

IterInit == Init /\ cursor = "none" /\ left = {} /\ item = None

IterNext == TableStep \/ Open \/ Ask \/ Yield \/ End \/ Close

(* next() returns.                                                         *)
IterFairness == Fairness /\ WF_<<vars, iterVars>>(Yield \/ End)

IterSpec == IterInit /\ [][IterNext]_<<vars, iterVars>> /\ IterFairness
==============================================================================
