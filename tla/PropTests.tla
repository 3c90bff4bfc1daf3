----------------------------- MODULE PropTests -----------------------------
(***************************************************************************)
(* The property tests of src/treebitmap (mod prop_tests) as clients of     *)
(* RouteMap.  Where proptest draws random inputs, every input from Ips,    *)
(* every prefix length and every Vec of up to MaxOps operations is tried.  *)
(*                                                                         *)
(* A test is a script: the calls it makes and the answers it asserts.  The *)
(* calls themselves run in TreeBitmap and TreeBitmapIter, step by step.    *)
(* The tests named ipv6_* make the calls of their IPv4 namesakes; they run *)
(* under a specification of their own, with Strides = 32.                  *)
(***************************************************************************)
EXTENDS TreeBitmapIter

CONSTANTS
  Ips,       \* the addresses drawn for any::<u32>() and any::<u128>()
  OpNets,    \* the prefixes drawn for the elements of ops
  MaxOps     \* the longest ops

ASSUME IpsAssumption    == Ips \subseteq Address
ASSUME OpNetsAssumption == OpNets \subseteq IpPrefix
ASSUME MaxOpsAssumption == MaxOps \in Nat

VARIABLES
  script,   \* the steps still to make
  kept,     \* an answer the test holds on to
  drained   \* the items of the last complete iteration

testVars == <<script, kept, drained>>
allVars  == <<vars, iterVars, testVars>>
------------------------------------------------------------------------------
(* Calls and steps.                                                        *)
Ins(p, v) == [op |-> "insert", prefix |-> p, value |-> v]
On(op, p) == [op |-> op, prefix |-> p]
Look(op, a) == [op |-> op, addr |-> a]
Plain(op) == [op |-> op]

Made(r)             == [do |-> "call", req |-> r]
Asserted(r, answer) == [do |-> "assert", req |-> r, want |-> {answer}]

Do(r)             == <<Made(r)>>
Keep(r)           == <<[do |-> "keep", req |-> r]>>
Expect(r, answer) == <<Asserted(r, answer)>>

Drain == <<[do |-> "drain"]>>   \* run an iterator to its end
Fresh == <<[do |-> "fresh"]>>   \* go on with another RouteMap::new()

(* Steps whose calls depend on answers and items obtained before.          *)
Later(what) == <<[do |-> "later", what |-> what]>>

(* A call for each element of a Vec of prefixes with values.               *)
InsertAll(ops) == [i \in DOMAIN ops |-> Made(Ins(ops[i].prefix, ops[i].value))]
GetAll(ops)    == [i \in DOMAIN ops |-> Asserted(On("get", ops[i].prefix), ops[i].value)]

Expand(step) ==
  CASE step.what = "get drained"    -> GetAll(drained)
    [] step.what = "insert drained" -> InsertAll(drained)
    [] step.what = "len is count"   -> Expect(Plain("len"), Len(drained))
    [] step.what = "len is kept"    -> Expect(Plain("len"), kept)
    [] step.what = "get kept"       -> IF kept = None THEN <<>> ELSE GetAll(<<kept>>)

(* longest_match after longest_match_entry of the same address.            *)
SameMatch(a) == <<[do |-> "same", req |-> Look("longest_match", a)]>>

Want(step) ==
  CASE step.do = "assert" -> step.want
    [] step.do = "same"   -> {IF kept = None THEN None ELSE kept.value}
    [] OTHER              -> {reply}
------------------------------------------------------------------------------
(* The inputs: prefixes with any host bits, two lengths one above the      *)
(* other (prop_assume keeps the longer within the address), Vecs of ops.   *)
AnyPrefix == [ip : Ips, mask : 0..BITS]

Nested == {bl \in (0..BITS) \X (0..BITS) : bl[2] - bl[1] \in 1..8}

OpVecs == SeqOf([prefix : OpNets, value : Value], MaxOps) \ {<<>>}

(* addr & mask4(len)                                                       *)
network(base, l) == masked([ip |-> base, mask |-> l]).ip

(* The tests are clients like others: what they pass is in Nets and Addrs. *)
ASSUME TestNetsAssumption ==
  \A p \in AnyPrefix \cup OpNets \cup {Root} : {p, masked(p)} \subseteq Nets
ASSUME TestAddrsAssumption ==
  \A p \in AnyPrefix : {p.ip, masked(p).ip} \subseteq Addrs

(* The ops that name a prefix first, and the last one for the same prefix. *)
Alike(ops, i, j) == masked(ops[i].prefix) = masked(ops[j].prefix)

Firsts(ops) == {i \in DOMAIN ops : \A j \in 1..(i - 1) : ~Alike(ops, i, j)}

LastAlike(ops, i) ==
  CHOOSE j \in DOMAIN ops :
    Alike(ops, i, j) /\ \A k \in DOMAIN ops : Alike(ops, i, k) => k <= j

(* The last op for each prefix, in the order of the first ones.            *)
Deduped(ops) ==
  LET first(n) == CHOOSE i \in Firsts(ops) :
                    Cardinality({j \in Firsts(ops) : j < i}) = n - 1
  IN  [n \in 1..Cardinality(Firsts(ops)) |->
         [prefix |-> masked(ops[first(n)].prefix), value |-> ops[LastAlike(ops, first(n))].value]]
------------------------------------------------------------------------------
insert_implies_contains_and_get(p, v) ==
  Do(Ins(p, v)) \o Expect(On("contains", p), TRUE) \o Expect(On("get", p), v)

insert_longest_match_hits_network_addr(p, v) ==
  Do(Ins(p, v)) \o Expect(Look("longest_match", network(p.ip, p.mask)), v)

overwrite_preserves_len_and_updates_value(p, v, w) ==
  Do(Ins(p, v)) \o Do(Ins(p, w)) \o Expect(Plain("len"), 1) \o Expect(On("get", p), w)

unmasked_insert_equals_masked_insert(p, v) ==
  Do(Ins(p, v)) \o Keep(Plain("len")) \o Drain \o Fresh
  \o Do(Ins(masked(p), v)) \o Later("len is kept") \o Later("get drained")

remove_clears_entry(p, v) ==
  Do(Ins(p, v)) \o Expect(On("remove", p), v) \o Expect(On("contains", p), FALSE)
  \o Expect(On("get", p), None) \o Expect(Plain("len"), 0)

len_equals_iter_count(ops) == InsertAll(ops) \o Drain \o Later("len is count")

(* The table of the tests with a broad and a more specific prefix.         *)
BroadAndSpecific(base, bl, v, w) ==
  Do(Ins([ip |-> base, mask |-> bl[1]], v)) \o Do(Ins([ip |-> base, mask |-> bl[2]], w))

more_specific_prefix_wins_lpm(base, bl, v, w) ==
  BroadAndSpecific(base, bl, v, w)
  \o Expect(Look("longest_match", network(base, bl[2])), w)

remove_specific_falls_back_to_broad(base, bl, v, w) ==
  BroadAndSpecific(base, bl, v, w)
  \o Do(On("remove", [ip |-> base, mask |-> bl[2]]))
  \o Expect(Look("longest_match", network(base, bl[2])), v)

default_route_matches_all_addresses(lookup, v) ==
  Do(Ins(Root, v)) \o Expect(Look("longest_match", lookup), v)

host_route_matches_only_exact_address(host, other, v) ==
  Do(Ins([ip |-> host, mask |-> BITS], v))
  \o Expect(Look("longest_match", host), v) \o Expect(Look("longest_match", other), None)

iter_collect_roundtrip(ops) ==
  InsertAll(ops) \o Keep(Plain("len")) \o Drain \o Fresh
  \o Later("insert drained") \o Later("len is kept") \o Later("get drained")

entry_value_agrees_with_longest_match(ops, lookup) ==
  InsertAll(ops) \o Keep(Look("longest_match_entry", lookup)) \o SameMatch(lookup)

entry_prefix_roundtrips_through_get(ops, lookup) ==
  InsertAll(ops) \o Keep(Look("longest_match_entry", lookup)) \o Later("get kept")

entry_hits_own_network_with_prefix(p, v) ==
  Do(Ins(p, v)) \o Expect(Look("longest_match_entry", network(p.ip, p.mask)),
                          [prefix |-> masked(p), value |-> v])

entry_returns_more_specific_prefix(base, bl, v, w) ==
  BroadAndSpecific(base, bl, v, w)
  \o Expect(Look("longest_match_entry", network(base, bl[2])),
            [prefix |-> [ip |-> network(base, bl[2]), mask |-> bl[2]], value |-> w])

remove_one_leaves_others_intact(ops, idx) ==
  LET entries == Deduped(ops)
  IN  InsertAll(entries) \o Do(On("remove", entries[idx].prefix)) \o GetAll(RemoveAt(entries, idx))

clear_then_reinsert_roundtrip(ops) ==
  InsertAll(ops) \o Do(Plain("clear")) \o Expect(Plain("len"), 0)
  \o Expect(Plain("is_empty"), TRUE) \o Drain \o Later("len is count")
  \o InsertAll(ops) \o GetAll(Deduped(ops))

ipv6_insert_implies_contains_and_get(p, v)   == insert_implies_contains_and_get(p, v)
ipv6_default_route_matches_all(lookup, v)    == default_route_matches_all_addresses(lookup, v)
ipv6_more_specific_prefix_wins_lpm(base, bl, v, w) == more_specific_prefix_wins_lpm(base, bl, v, w)
ipv6_entry_hits_own_network_with_prefix(p, v) == entry_hits_own_network_with_prefix(p, v)
ipv6_remove_clears_entry(p, v)               == remove_clears_entry(p, v)
ipv6_remove_specific_falls_back_to_broad(base, bl, v, w) ==
  remove_specific_falls_back_to_broad(base, bl, v, w)
------------------------------------------------------------------------------
(* The tests over one prefix, over two nested ones, and over a Vec of ops. *)
OnePrefix ==
  \E p \in AnyPrefix, v, w \in Value :
    \/ script = overwrite_preserves_len_and_updates_value(p, v, w)
    \/ /\ v = w
       /\ \/ script = insert_implies_contains_and_get(p, v)
          \/ script = insert_longest_match_hits_network_addr(p, v)
          \/ script = unmasked_insert_equals_masked_insert(p, v)
          \/ script = remove_clears_entry(p, v)
          \/ script = entry_hits_own_network_with_prefix(p, v)

TwoPrefixes ==
  \E base \in Ips, bl \in Nested, v, w \in Value :
    /\ v # w
    /\ \/ script = more_specific_prefix_wins_lpm(base, bl, v, w)
       \/ script = remove_specific_falls_back_to_broad(base, bl, v, w)
       \/ script = entry_returns_more_specific_prefix(base, bl, v, w)

TwoAddresses ==
  \E a, b \in Ips, v \in Value :
    \/ script = default_route_matches_all_addresses(a, v)
    \/ a # b /\ script = host_route_matches_only_exact_address(a, b, v)

ManyOps ==
  \E ops \in OpVecs :
    \/ script = len_equals_iter_count(ops)
    \/ script = iter_collect_roundtrip(ops)
    \/ script = clear_then_reinsert_roundtrip(ops)
    \/ \E lookup \in Ips : \/ script = entry_value_agrees_with_longest_match(ops, lookup)
                           \/ script = entry_prefix_roundtrips_through_get(ops, lookup)
    \/ \E idx \in DOMAIN Deduped(ops) : script = remove_one_leaves_others_intact(ops, idx)

Ipv6Tests ==
  \/ \E p \in AnyPrefix, v \in Value :
       \/ script = ipv6_insert_implies_contains_and_get(p, v)
       \/ script = ipv6_entry_hits_own_network_with_prefix(p, v)
       \/ script = ipv6_remove_clears_entry(p, v)
  \/ \E base \in Ips, bl \in Nested, v, w \in Value :
       /\ v # w
       /\ \/ script = ipv6_more_specific_prefix_wins_lpm(base, bl, v, w)
          \/ script = ipv6_remove_specific_falls_back_to_broad(base, bl, v, w)
  \/ \E lookup \in Ips, v \in Value : script = ipv6_default_route_matches_all(lookup, v)

Begin == IterInit /\ kept = None /\ drained = <<>>

TestInit     == Begin /\ (OnePrefix \/ TwoPrefixes \/ TwoAddresses \/ ManyOps)
Ipv6TestInit == Begin /\ Ipv6Tests

Now(what) == script # <<>> /\ Head(script).do = what
Resting   == pc = "idle" /\ cursor = "none"

MakeCall ==
  /\ Resting
  /\ \E do \in {"call", "keep", "assert", "same"} : Now(do)
  /\ req' = Head(script).req
  /\ pc' = req'.op
  /\ UNCHANGED <<heap, count, reply, locals, iterVars, testVars>>

RunCall ==
  /\ pc # "return"
  /\ Step
  /\ UNCHANGED <<iterVars, testVars>>

TakeAnswer ==
  /\ Return
  /\ kept' = IF Now("keep") THEN reply ELSE kept
  /\ script' = Tail(script)
  /\ UNCHANGED <<iterVars, drained>>

MakeLater ==
  /\ Resting
  /\ Now("later")
  /\ script' = Expand(Head(script)) \o Tail(script)
  /\ UNCHANGED <<vars, iterVars, kept, drained>>

MakeFresh ==
  /\ Resting
  /\ Now("fresh")
  /\ heap' = [r \in {Root} |-> EmptyNode]
  /\ count' = 0
  /\ script' = Tail(script)
  /\ UNCHANGED <<pc, req, reply, locals, iterVars, kept, drained>>

DrainOpen ==
  /\ Resting
  /\ Now("drain")
  /\ Open
  /\ drained' = <<>>
  /\ UNCHANGED <<script, kept>>

DrainNext ==
  /\ Now("drain")
  /\ Ask
  /\ UNCHANGED testVars

DrainStep ==
  /\ IterStep
  /\ drained' = IF cursor' = "ready" /\ item' # None THEN Append(drained, item') ELSE drained
  /\ script' = IF cursor' = "ready" /\ item' = None THEN Tail(script) ELSE script
  /\ UNCHANGED kept

DrainClose ==
  /\ ~Now("drain")
  /\ Close
  /\ UNCHANGED testVars

Passed == script = <<>> /\ Resting /\ UNCHANGED allVars

TestNext ==
  \/ MakeCall \/ RunCall \/ TakeAnswer \/ MakeLater \/ MakeFresh
  \/ DrainOpen \/ DrainNext \/ DrainStep \/ DrainClose \/ Passed

(* A test is a loop on one thread.                                         *)
TestSpec     == TestInit /\ [][TestNext]_allVars /\ WF_allVars(TestNext)
Ipv6TestSpec == Ipv6TestInit /\ [][TestNext]_allVars
------------------------------------------------------------------------------
(* Every prop_assert of every test passes, for every input: the answer of  *)
(* a call is the one the test wants, whatever was called before.           *)
AssertionsHold ==
  pc = "return" => reply \in Want(Head(script))

(* Every test comes to its end.                                            *)
TestsEnd == <>(script = <<>>)
==============================================================================
