--------------------------- MODULE PropTestsProofs ---------------------------
(***************************************************************************)
(* Every assertion of the property tests holds, for every input, of a      *)
(* table of any number of strides.                                         *)
(*                                                                         *)
(* A test is followed through the routing table: its script leads from one *)
(* stage of the test to the next, and each stage says what the table       *)
(* holds, what the test has kept and what it has drained.                  *)
(***************************************************************************)
EXTENDS PropTests, TreeBitmapIterProofs

(* What a call does to the routing table, and what it answers.             *)
Effect(r, t) ==
  CASE r.op = "insert" ->
         [p \in DOMAIN t \cup {masked(r.prefix)} |->
            IF p = masked(r.prefix) THEN r.value ELSE t[p]]
    [] r.op = "remove" -> [p \in DOMAIN t \ {masked(r.prefix)} |-> t[p]]
    [] r.op = "clear"  -> [p \in {} |-> None]
    [] OTHER           -> t

Answer(r, t) ==
  CASE r.op \in {"remove", "get"} ->
         IF masked(r.prefix) \in DOMAIN t THEN t[masked(r.prefix)] ELSE None
    [] r.op = "contains"     -> masked(r.prefix) \in DOMAIN t
    [] r.op \in LookupOps    -> LookupReply(r.op, LongestMatch(t, r.addr))
    [] r.op = "len"          -> Cardinality(DOMAIN t)
    [] r.op = "is_empty"     -> DOMAIN t = {}

(* The calls whose answer the table determines: a value dropped by insert  *)
(* or clear may panic.                                                     *)
Telling(r) == r.op \notin {"insert", "clear"}
------------------------------------------------------------------------------
(* A table of entries a client can pass, and a stage of a test.            *)
EmptyTable == [p \in {} |-> None]

IsTable(t) ==
  /\ t = [p \in DOMAIN t |-> t[p]]
  /\ \A p \in DOMAIN t : p \in Nets /\ masked(p) = p /\ t[p] \in Value

Stage(t, d, k) == [tab |-> t, dtab |-> d, kept |-> k]

Start == Stage(EmptyTable, EmptyTable, None)

CallSteps == {"call", "keep", "assert", "same"}

(* A step that calls the table, from stage g to stage h.                   *)
CallDoes(step, g, h) ==
  /\ step.do \in CallSteps
  /\ step.req \in Request
  /\ step.do # "call" => Telling(step.req)
  /\ step.do = "assert" => step.want = {Answer(step.req, g.tab)}
  /\ step.do = "same" =>
       Answer(step.req, g.tab) = IF g.kept = None THEN None ELSE g.kept.value
  /\ h = Stage(Effect(step.req, g.tab), g.dtab,
               IF step.do = "keep" THEN Answer(step.req, g.tab) ELSE g.kept)

(* A step whose calls depend on what was kept or drained.                  *)
LaterDoes(step, g, h) ==
  /\ step.do = "later"
  /\ g = Stage(g.tab, g.dtab, g.kept)
  /\ \/ step.what = "get drained" /\ g.dtab = g.tab /\ IsTable(g.tab) /\ h = g
     \/ /\ step.what = "insert drained"
        /\ g.tab = EmptyTable /\ IsTable(g.dtab)
        /\ h = Stage(g.dtab, g.dtab, g.kept)
     \/ step.what = "len is count" /\ g.dtab = g.tab /\ h = g
     \/ step.what = "len is kept" /\ g.kept = Cardinality(DOMAIN g.tab) /\ h = g
     \/ /\ step.what = "get kept"
        /\ \/ g.kept = None
           \/ \E p \in DOMAIN g.tab : g.kept = [prefix |-> p, value |-> g.tab[p]]
        /\ IsTable(g.tab)
        /\ h = g

Does(step, g, h) ==
  \/ CallDoes(step, g, h)
  \/ LaterDoes(step, g, h)
  \/ step.do = "drain" /\ IsTable(g.tab) /\ h = Stage(g.tab, g.tab, g.kept)
  \/ step.do = "fresh" /\ h = Stage(EmptyTable, g.dtab, g.kept)

(* A script leads from stage g to stage h.                                 *)
IsSeq(s) == s \in Seq(Range(s))

Leads(s, g, h) ==
  /\ IsSeq(s)
  /\ \E f : /\ f[1] = g /\ f[Len(s) + 1] = h
            /\ \A i \in 1..Len(s) : Does(s[i], f[i], f[i + 1])
------------------------------------------------------------------------------
LEMMA SeqFacts ==
  ASSUME NEW s, IsSeq(s)
  PROVE  Len(s) \in Nat /\ DOMAIN s = 1..Len(s) /\ s = [i \in 1..Len(s) |-> s[i]]
BY DEF IsSeq

LEMMA OneStep ==
  ASSUME NEW x
  PROVE  IsSeq(<<x>>) /\ Len(<<x>>) = 1 /\ <<x>>[1] = x
BY DEF IsSeq, Range

LEMMA SeqOfFunction ==
  ASSUME NEW n \in Nat, NEW s, s = [i \in 1..n |-> s[i]]
  PROVE  IsSeq(s) /\ Len(s) = n
<1>1. s \in Seq(Range(s))
  BY DEF Range
<1>. QED
  BY <1>1 DEF IsSeq

LEMMA Joined ==
  ASSUME NEW s, NEW u, IsSeq(s), IsSeq(u)
  PROVE  /\ IsSeq(s \o u) /\ Len(s \o u) = Len(s) + Len(u)
         /\ \A i \in 1..Len(s) : (s \o u)[i] = s[i]
         /\ \A i \in 1..Len(u) : (s \o u)[Len(s) + i] = u[i]
<1>. DEFINE S == Range(s) \cup Range(u)
<1>1. s \in Seq(S) /\ u \in Seq(S)
  BY DEF IsSeq
<1>. HIDE DEF S
<1>2. /\ s \o u \in Seq(S) /\ Len(s \o u) = Len(s) + Len(u)
      /\ \A i \in 1..Len(s) : (s \o u)[i] = s[i]
      /\ \A i \in 1..Len(u) : (s \o u)[Len(s) + i] = u[i]
  BY <1>1
<1>. DEFINE w == s \o u
<1>3. Len(w) \in Nat /\ w = [i \in 1..Len(w) |-> w[i]]
  <2>1. w \in Seq(S)
    BY <1>2
  <2>. HIDE DEF w
  <2>. QED BY <2>1
<1>. QED
  BY <1>2, <1>3, SeqOfFunction

LEMMA Rest ==
  ASSUME NEW s, IsSeq(s), s # <<>>
  PROVE  /\ Len(s) >= 1 /\ Head(s) = s[1]
         /\ IsSeq(Tail(s)) /\ Len(Tail(s)) = Len(s) - 1
         /\ \A i \in 1..(Len(s) - 1) : Tail(s)[i] = s[i + 1]
<1>1. s \in Seq(Range(s))
  BY DEF IsSeq
<1>2. /\ Len(s) >= 1 /\ Head(s) = s[1]
      /\ Tail(s) \in Seq(Range(s)) /\ Len(Tail(s)) = Len(s) - 1
      /\ \A i \in 1..(Len(s) - 1) : Tail(s)[i] = s[i + 1]
  BY <1>1
<1>. DEFINE w == Tail(s)
<1>3. Len(w) \in Nat /\ w = [i \in 1..Len(w) |-> w[i]]
  <2>1. w \in Seq(Range(s))
    BY <1>2
  <2>. HIDE DEF w
  <2>. QED BY <2>1
<1>. QED
  BY <1>2, <1>3, SeqOfFunction

(* One step leads where it does, and scripts lead on from where others led.*)
LEMMA LeadsOne ==
  ASSUME NEW x, NEW g, NEW h, Does(x, g, h)
  PROVE  Leads(<<x>>, g, h)
<1>. DEFINE f == [i \in 1..2 |-> IF i = 1 THEN g ELSE h]
<1>1. f[1] = g /\ f[2] = h
  OBVIOUS
<1>. HIDE DEF f
<1>2. \A i \in 1..1 : Does(<<x>>[i], f[i], f[i + 1])
  BY <1>1, OneStep
<1>. QED
  BY <1>1, <1>2, OneStep DEF Leads

LEMMA LeadsNowhere ==
  ASSUME NEW g
  PROVE  Leads(<<>>, g, g)
<1>. DEFINE f == [i \in 1..1 |-> g]
<1>1. f[1] = g /\ IsSeq(<<>>) /\ Len(<<>>) = 0
  BY DEF IsSeq
<1>. HIDE DEF f
<1>. QED
  BY <1>1 DEF Leads

LEMMA LeadsOn ==
  ASSUME NEW s, NEW u, NEW g, NEW h, NEW k, Leads(s, g, h), Leads(u, h, k)
  PROVE  Leads(s \o u, g, k)
<1>1. IsSeq(s) /\ IsSeq(u)
  BY DEF Leads
<1>2. PICK f1 : /\ f1[1] = g /\ f1[Len(s) + 1] = h
                /\ \A i \in 1..Len(s) : Does(s[i], f1[i], f1[i + 1])
  BY DEF Leads
<1>3. PICK f2 : /\ f2[1] = h /\ f2[Len(u) + 1] = k
                /\ \A i \in 1..Len(u) : Does(u[i], f2[i], f2[i + 1])
  BY DEF Leads
<1>. DEFINE m == Len(s)
            n == Len(u)
            f == [i \in 1..(m + n + 1) |-> IF i <= m THEN f1[i] ELSE f2[i - m]]
<1>4. m \in Nat /\ n \in Nat
  BY <1>1, SeqFacts
<1>5. /\ \A i \in 1..(m + 1) : f[i] = f1[i]
      /\ \A i \in 1..(n + 1) : f[m + i] = f2[i]
  <2>1. \A i \in 1..m : f[i] = f1[i]
    BY <1>4
  <2>2. \A i \in 1..(n + 1) : f[m + i] = f2[i]
    <3> TAKE i \in 1..(n + 1)
    <3>1. m + i \in 1..(m + n + 1) /\ ~(m + i <= m) /\ (m + i) - m = i
      BY <1>4
    <3>2. f[m + i] = f2[(m + i) - m]
      BY <3>1
    <3>. QED BY <3>1, <3>2
  <2>3. f[m + 1] = f1[m + 1]
    BY <1>2, <1>3, <1>4, <2>2
  <2>4. \A i \in 1..(m + 1) : i \in 1..m \/ i = m + 1
    BY <1>4
  <2>. HIDE DEF f
  <2>. QED BY <2>1, <2>2, <2>3, <2>4
<1>6. Len(s \o u) = m + n /\ IsSeq(s \o u)
  BY <1>1, Joined
<1>7. f[1] = g /\ f[m + n + 1] = k
  <2>. HIDE DEF f
  <2>3. n + 1 \in 1..(n + 1) /\ 1 \in 1..(m + 1) /\ m + (n + 1) = m + n + 1
    BY <1>4
  <2>1. f[m + (n + 1)] = f2[n + 1]
    BY <1>5, <2>3
  <2>2. f[1] = f1[1]
    BY <1>5, <2>3
  <2>. QED BY <1>2, <1>3, <2>1, <2>2, <2>3
<1>8. ASSUME NEW i \in 1..(m + n)
      PROVE  Does((s \o u)[i], f[i], f[i + 1])
  <2>. HIDE DEF f
  <2>1. CASE i <= m
    <3>1. i \in 1..m /\ i \in 1..(m + 1) /\ i + 1 \in 1..(m + 1)
      BY <1>4, <2>1
    <3>2. (s \o u)[i] = s[i] /\ f[i] = f1[i] /\ f[i + 1] = f1[i + 1]
      BY <1>1, <1>5, <3>1, Joined
    <3>. QED BY <1>2, <3>1, <3>2
  <2>2. CASE i > m
    <3>1. PICK j \in 1..n : i = m + j
      <4>1. i - m \in 1..n /\ i = m + (i - m)
        BY <1>4, <2>2
      <4>. QED BY <4>1
    <3>2. (s \o u)[i] = u[j]
      BY <1>1, <3>1, Joined
    <3>3. f[i] = f2[j] /\ f[i + 1] = f2[j + 1]
      <4>1. j \in 1..(n + 1) /\ j + 1 \in 1..(n + 1) /\ i + 1 = m + (j + 1)
        BY <1>4, <3>1
      <4>. QED BY <1>5, <3>1, <4>1
    <3>. QED BY <1>3, <3>2, <3>3
  <2>. QED BY <1>4, <2>1, <2>2
<1>. HIDE DEF f
<1>9. \A i \in 1..Len(s \o u) : Does((s \o u)[i], f[i], f[i + 1])
  BY <1>6, <1>8
<1>10. f[Len(s \o u) + 1] = k
  BY <1>6, <1>7
<1>. QED
  BY <1>6, <1>7, <1>9, <1>10 DEF Leads

(* The next step of a script, and where the rest of it starts.             *)
LEMMA LeadsFirst ==
  ASSUME NEW s, NEW g, NEW k, Leads(s, g, k), s # <<>>
  PROVE  \E h : Does(Head(s), g, h) /\ Leads(Tail(s), h, k)
<1>1. IsSeq(s)
  BY DEF Leads
<1>2. PICK f : /\ f[1] = g /\ f[Len(s) + 1] = k
               /\ \A i \in 1..Len(s) : Does(s[i], f[i], f[i + 1])
  BY DEF Leads
<1>3. /\ Len(s) \in Nat /\ Len(s) >= 1 /\ Head(s) = s[1]
      /\ IsSeq(Tail(s)) /\ Len(Tail(s)) = Len(s) - 1
      /\ \A i \in 1..(Len(s) - 1) : Tail(s)[i] = s[i + 1]
  BY <1>1, Rest, SeqFacts
<1>. DEFINE e == [i \in 1..Len(s) |-> f[i + 1]]
<1>4. Does(Head(s), g, f[2])
  BY <1>2, <1>3
<1>5. e[1] = f[2] /\ e[Len(Tail(s)) + 1] = k
  BY <1>2, <1>3
<1>6. ASSUME NEW i \in 1..Len(Tail(s))
      PROVE  Does(Tail(s)[i], e[i], e[i + 1])
  <2>1. i \in 1..(Len(s) - 1) /\ i + 1 \in 1..Len(s) /\ i \in 1..Len(s)
    BY <1>3
  <2>2. Tail(s)[i] = s[i + 1] /\ e[i] = f[i + 1] /\ e[i + 1] = f[(i + 1) + 1]
    BY <1>3, <2>1
  <2>. QED BY <1>2, <2>1, <2>2
<1>. HIDE DEF e
<1>7. Leads(Tail(s), f[2], k)
  BY <1>3, <1>5, <1>6 DEF Leads
<1>. QED
  BY <1>4, <1>7
------------------------------------------------------------------------------
(* The answers and the effects, call by call.                              *)
LEMMA AnswerIs ==
  ASSUME NEW r, NEW t
  PROVE  /\ r.op \in {"remove", "get"} =>
              Answer(r, t) = IF masked(r.prefix) \in DOMAIN t THEN t[masked(r.prefix)] ELSE None
         /\ r.op = "contains" => Answer(r, t) = (masked(r.prefix) \in DOMAIN t)
         /\ r.op \in LookupOps => Answer(r, t) = LookupReply(r.op, LongestMatch(t, r.addr))
         /\ r.op = "len" => Answer(r, t) = Cardinality(DOMAIN t)
         /\ r.op = "is_empty" => Answer(r, t) = (DOMAIN t = {})
<1>1. CASE r.op \in {"remove", "get"}
  BY <1>1 DEF Answer, LookupOps
<1>2. CASE r.op = "contains"
  BY <1>2 DEF Answer, LookupOps
<1>3. CASE r.op \in LookupOps
  BY <1>3 DEF Answer, LookupOps
<1>4. CASE r.op = "len"
  BY <1>4 DEF Answer, LookupOps
<1>5. CASE r.op = "is_empty"
  BY <1>5 DEF Answer, LookupOps
<1>. QED
  BY <1>1, <1>2, <1>3, <1>4, <1>5

LEMMA EffectIs ==
  ASSUME NEW r, NEW t
  PROVE  /\ r.op = "insert" =>
              Effect(r, t) = [p \in DOMAIN t \cup {masked(r.prefix)} |->
                                IF p = masked(r.prefix) THEN r.value ELSE t[p]]
         /\ r.op = "remove" => Effect(r, t) = [p \in DOMAIN t \ {masked(r.prefix)} |-> t[p]]
         /\ r.op = "clear" => Effect(r, t) = EmptyTable
         /\ r.op \notin {"insert", "remove", "clear"} => Effect(r, t) = t
BY DEF Effect, EmptyTable

(* A step of a running call does not show, or does what the call promises. *)
LEMMA CallRuns ==
  ASSUME IInv, Step, pc # "return"
  PROVE  pc # "idle" /\ pc' # "idle"
<1>1. pc \in Ops => pc # "idle"
  BY DEF Ops, PrefixOps, LookupOps, PlainOps
<1>2. pc \in LookupOps => pc # "idle"
  BY DEF LookupOps
<1>. QED
  BY <1>1, <1>2 DEF Step, InsertFollow, InsertGrow, InsertReplace, InsertNew,
     MatchDescend, MatchBreak, MatchBottom, ProbeDescend, ProbeMiss, ProbeTarget, Probing,
     RemoveDescend, RemoveMiss, RemoveTarget, RemoveUnwind, RemoveFinish, ReadCount,
     Clear, ClearInterrupted, ClearRoot, Return, Finish

LEMMA CallAnswered ==
  ASSUME IInv, LookupInv, Step, pc # "return"
  PROVE  /\ pc # "idle" /\ pc' # "idle" /\ req' = req
         /\ \/ Phase' = Phase /\ Table' = Table /\ reply' = reply
            \/ /\ Phase = "called" /\ Phase' = "answered" /\ Table' = Effect(req, Table)
               /\ Telling(req) => reply' = Answer(req, Table)
<1>1. pc # "idle" /\ pc' # "idle"
  BY CallRuns
<1>2. Phase # "idle" /\ Phase' # "idle"
  BY <1>1 DEF Phase
<1>3. [Abstract!Next]_Abstract!vars
  BY StepIs DEF Next
<1>4. CASE UNCHANGED Abstract!vars
  BY <1>1, <1>4 DEF Abstract!vars
<1>5. CASE Abstract!Effect
  <2>1. Phase = "called" /\ Phase' = "answered" /\ req' = req
    BY <1>5 DEF Abstract!Effect, Abstract!Insert, Abstract!Remove, Abstract!Get,
       Abstract!Contains, Abstract!Len, Abstract!IsEmpty, Abstract!Clear, Abstract!Lookup,
       Abstract!Answer
  <2>2. CASE Abstract!Insert
    <3>1. req.op = "insert"
      BY <2>2 DEF Abstract!Insert, Abstract!Answer
    <3>2. Table' = Effect(req, Table)
      BY <2>2, <3>1, SameWords DEF Abstract!Insert, Effect, key
    <3>. QED BY <1>1, <2>1, <3>1, <3>2 DEF Telling
  <2>3. CASE Abstract!Remove
    <3>1. req.op = "remove"
      BY <2>3 DEF Abstract!Remove, Abstract!Answer
    <3>2. Table' = Effect(req, Table)
      BY <2>3, <3>1, SameWords DEF Abstract!Remove, Effect, key
    <3>3. reply' = Answer(req, Table)
      BY <2>3, <3>1, SameWords, AnswerIs DEF Abstract!Remove, Abstract!Find, key
    <3>. QED BY <1>1, <2>1, <3>2, <3>3
  <2>4. CASE Abstract!Get \/ Abstract!Contains
    <3>1. req.op \in {"get", "contains"} /\ Table' = Table
      BY <2>4 DEF Abstract!Get, Abstract!Contains, Abstract!Answer
    <3>2. Table' = Effect(req, Table)
      BY <3>1 DEF Effect
    <3>3. CASE Abstract!Get
      <4>1. reply' = Answer(req, Table)
        BY <3>3, SameWords, AnswerIs DEF Abstract!Get, Abstract!Answer, Abstract!Find, key
      <4>. QED BY <1>1, <2>1, <3>2, <4>1
    <3>4. CASE Abstract!Contains
      <4>1. reply' = Answer(req, Table)
        BY <3>4, SameWords, AnswerIs DEF Abstract!Contains, Abstract!Answer, key
      <4>. QED BY <1>1, <2>1, <3>2, <4>1
    <3>. QED BY <2>4, <3>3, <3>4
  <2>5. CASE Abstract!Len \/ Abstract!IsEmpty
    <3>1. req.op \in {"len", "is_empty"} /\ Table' = Table
      BY <2>5 DEF Abstract!Len, Abstract!IsEmpty, Abstract!Answer
    <3>2. Table' = Effect(req, Table)
      BY <3>1 DEF Effect
    <3>3. CASE Abstract!Len
      <4>1. reply' = Answer(req, Table)
        BY <3>3, SameWords, AnswerIs DEF Abstract!Len, Abstract!Answer
      <4>. QED BY <1>1, <2>1, <3>2, <4>1
    <3>4. CASE Abstract!IsEmpty
      <4>1. reply' = Answer(req, Table)
        BY <3>4, SameWords, AnswerIs DEF Abstract!IsEmpty, Abstract!Answer
      <4>. QED BY <1>1, <2>1, <3>2, <4>1
    <3>. QED BY <2>5, <3>3, <3>4
  <2>6. CASE Abstract!Clear
    <3>1. req.op = "clear" /\ Table' = [p \in {} |-> None]
      BY <2>6 DEF Abstract!Clear, Abstract!Answer
    <3>2. Table' = Effect(req, Table)
      BY <3>1 DEF Effect
    <3>. QED BY <1>1, <2>1, <3>1, <3>2 DEF Telling
  <2>7. CASE \E op \in Abstract!LookupOps : Abstract!Lookup(op)
    <3>1. PICK op \in LookupOps : Abstract!Lookup(op)
      BY <2>7, SameWords
    <3>2. /\ req.op = op /\ Table' = Table
          /\ reply' = LookupReply(op, LongestMatch(Table, req.addr))
      BY <3>1, SameWords DEF Abstract!Lookup, Abstract!Answer
    <3>3. Table' = Effect(req, Table)
      BY <3>1, <3>2 DEF Effect, LookupOps
    <3>4. reply' = Answer(req, Table)
      BY <3>1, <3>2, AnswerIs
    <3>. QED BY <1>1, <2>1, <3>3, <3>4
  <2>. QED BY <1>5, <2>2, <2>3, <2>4, <2>5, <2>6, <2>7 DEF Abstract!Effect
<1>. QED
  BY <1>2, <1>3, <1>4, <1>5 DEF Abstract!Next, Abstract!Call, Abstract!Return
------------------------------------------------------------------------------
(* A Vec of operations, and the table after its first n inserts: every     *)
(* prefix has the value of the last one that names it.                     *)
Op == [prefix : {p \in Nets : masked(p) \in Nets}, value : Value]

Named(ops, n) == {masked(ops[i].prefix) : i \in 1..n}

IsLastFor(ops, n, p, j) ==
  /\ j \in 1..n
  /\ masked(ops[j].prefix) = p
  /\ \A k \in 1..n : masked(ops[k].prefix) = p => k <= j

LastFor(ops, n, p) == CHOOSE j : IsLastFor(ops, n, p, j)

Filled(ops, n) == [p \in Named(ops, n) |-> ops[LastFor(ops, n, p)].value]

LEMMA GreatestIndex ==
  ASSUME NEW n \in Nat, NEW S \in SUBSET (1..n), S # {}
  PROVE  \E j \in S : \A k \in S : k <= j
<1>. DEFINE T == {n - k : k \in S}
<1>1. T \in SUBSET Nat /\ T # {}
  <2>1. \A k \in S : k \in 1..n /\ n - k \in Nat
    OBVIOUS
  <2>. QED BY <2>1
<1>2. PICK x \in T : \A y \in T : x <= y
  <2>. HIDE DEF T
  <2>. QED BY <1>1, LeastNatural
<1>3. PICK j \in S : x = n - j
  BY <1>2
<1>4. \A k \in S : n - j <= n - k
  BY <1>2, <1>3
<1>. QED
  BY <1>3, <1>4

LEMMA LastForIs ==
  ASSUME NEW ops, NEW n \in Nat, NEW p \in Named(ops, n)
  PROVE  /\ LastFor(ops, n, p) \in 1..n
         /\ masked(ops[LastFor(ops, n, p)].prefix) = p
         /\ \A k \in 1..n : masked(ops[k].prefix) = p => k <= LastFor(ops, n, p)
<1>. DEFINE S == {j \in 1..n : masked(ops[j].prefix) = p}
<1>1. S \in SUBSET (1..n) /\ S # {}
  BY DEF Named
<1>2. PICK j \in S : \A k \in S : k <= j
  <2>. HIDE DEF S
  <2>. QED BY <1>1, GreatestIndex
<1>3. IsLastFor(ops, n, p, j)
  BY <1>2 DEF IsLastFor
<1>4. IsLastFor(ops, n, p, LastFor(ops, n, p))
  BY <1>3 DEF LastFor
<1>. QED
  BY <1>4 DEF IsLastFor

(* The last index for a prefix is the only one of its kind.                *)
LEMMA LastForEq ==
  ASSUME NEW ops, NEW n \in Nat, NEW p, NEW j \in 1..n, masked(ops[j].prefix) = p,
         \A k \in 1..n : masked(ops[k].prefix) = p => k <= j
  PROVE  p \in Named(ops, n) /\ LastFor(ops, n, p) = j
<1>1. p \in Named(ops, n)
  BY DEF Named
<1>2. /\ LastFor(ops, n, p) \in 1..n /\ masked(ops[LastFor(ops, n, p)].prefix) = p
      /\ \A k \in 1..n : masked(ops[k].prefix) = p => k <= LastFor(ops, n, p)
  BY <1>1, LastForIs
<1>3. LastFor(ops, n, p) <= j /\ j <= LastFor(ops, n, p)
  BY <1>2
<1>. QED
  BY <1>1, <1>2, <1>3

LEMMA FilledStart ==
  ASSUME NEW ops
  PROVE  Filled(ops, 0) = EmptyTable
<1>1. Named(ops, 0) = {}
  BY DEF Named
<1>. QED
  BY <1>1 DEF Filled, EmptyTable

LEMMA FilledStep ==
  ASSUME NEW ops, NEW n \in Nat
  PROVE  Filled(ops, n + 1) = Effect(Ins(ops[n + 1].prefix, ops[n + 1].value), Filled(ops, n))
<1>. DEFINE q == masked(ops[n + 1].prefix)
<1>1. Named(ops, n + 1) = Named(ops, n) \cup {q}
  <2>1. 1..(n + 1) = 1..n \cup {n + 1}
    OBVIOUS
  <2>. QED BY <2>1 DEF Named
<1>2. LastFor(ops, n + 1, q) = n + 1
  <2>1. n + 1 \in 1..(n + 1) /\ \A k \in 1..(n + 1) : k <= n + 1
    OBVIOUS
  <2>. QED BY <2>1, LastForEq
<1>3. ASSUME NEW p \in Named(ops, n), p # q
      PROVE  LastFor(ops, n + 1, p) = LastFor(ops, n, p)
  <2>. DEFINE j == LastFor(ops, n, p)
  <2>1. j \in 1..n /\ masked(ops[j].prefix) = p
        /\ \A k \in 1..n : masked(ops[k].prefix) = p => k <= j
    BY LastForIs
  <2>. HIDE DEF j
  <2>2. j \in 1..(n + 1) /\ \A k \in 1..(n + 1) : masked(ops[k].prefix) = p => k <= j
    <3>1. \A k \in 1..(n + 1) : k \in 1..n \/ k = n + 1
      OBVIOUS
    <3>. QED BY <1>3, <2>1, <3>1
  <2>3. n + 1 \in Nat
    OBVIOUS
  <2>4. LastFor(ops, n + 1, p) = j
    BY <2>1, <2>2, <2>3, LastForEq
  <2>. QED BY <2>4 DEF j
<1>. HIDE DEF q
<1>4. Filled(ops, n + 1) = [p \in Named(ops, n) \cup {q} |->
                              IF p = q THEN ops[n + 1].value ELSE Filled(ops, n)[p]]
  <2>1. \A p \in Named(ops, n) \cup {q} :
          ops[LastFor(ops, n + 1, p)].value
            = IF p = q THEN ops[n + 1].value ELSE Filled(ops, n)[p]
    BY <1>2, <1>3 DEF Filled
  <2>2. Filled(ops, n + 1)
          = [p \in Named(ops, n) \cup {q} |-> ops[LastFor(ops, n + 1, p)].value]
    BY <1>1 DEF Filled
  <2>. QED BY <2>1, <2>2
<1>5. DOMAIN Filled(ops, n) = Named(ops, n)
  BY DEF Filled
<1>. DEFINE r == Ins(ops[n + 1].prefix, ops[n + 1].value)
<1>6. r.op = "insert" /\ masked(r.prefix) = q /\ r.value = ops[n + 1].value
  BY DEF Ins, q
<1>. HIDE DEF r
<1>7. Effect(r, Filled(ops, n)) = [p \in Named(ops, n) \cup {q} |->
                              IF p = q THEN ops[n + 1].value ELSE Filled(ops, n)[p]]
  <2>1. Effect(r, Filled(ops, n))
          = [p \in DOMAIN Filled(ops, n) \cup {masked(r.prefix)} |->
               IF p = masked(r.prefix) THEN r.value ELSE Filled(ops, n)[p]]
    BY <1>6, EffectIs
  <2>. QED BY <1>5, <1>6, <2>1
<1>. QED
  BY <1>4, <1>7 DEF r

(* Canonical prefixes are masked already.                                  *)
LEMMA MaskedTwice ==
  ASSUME NEW p \in IpPrefix
  PROVE  masked(masked(p)) = masked(p)
<1>1. /\ masked(p) \in IpPrefix /\ masked(p).mask = p.mask
      /\ \A i \in 1..BITS : masked(p).ip[i] = IF i <= p.mask THEN p.ip[i] ELSE 0
  BY MaskedType
<1>2. /\ masked(masked(p)) \in IpPrefix /\ masked(masked(p)).mask = p.mask
      /\ \A i \in 1..BITS :
           masked(masked(p)).ip[i] = IF i <= p.mask THEN masked(p).ip[i] ELSE 0
  BY <1>1, MaskedType
<1>3. \A i \in 1..BITS : masked(masked(p)).ip[i] = masked(p).ip[i]
  BY <1>1, <1>2
<1>. QED
  BY <1>1, <1>2, <1>3, PrefixEqual

LEMMA OpFacts ==
  ASSUME NEW ops \in Seq(Op), NEW i \in 1..Len(ops)
  PROVE  /\ ops[i].prefix \in Nets /\ masked(ops[i].prefix) \in Nets /\ ops[i].value \in Value
         /\ ops[i].prefix \in IpPrefix
         /\ masked(masked(ops[i].prefix)) = masked(ops[i].prefix)
<1>1. ops[i] \in Op
  BY ElementOfSeq
<1>2. ops[i].prefix \in Nets /\ masked(ops[i].prefix) \in Nets /\ ops[i].value \in Value
  BY <1>1 DEF Op
<1>3. ops[i].prefix \in IpPrefix
  BY <1>2, NetsAssumption
<1>. QED
  BY <1>2, <1>3, MaskedTwice

LEMMA FilledTable ==
  ASSUME NEW ops \in Seq(Op)
  PROVE  IsTable(Filled(ops, Len(ops)))
<1>. DEFINE n == Len(ops)
            t == Filled(ops, n)
<1>1. n \in Nat
  OBVIOUS
<1>2. DOMAIN t = Named(ops, n) /\ t = [p \in DOMAIN t |-> t[p]]
  BY DEF Filled
<1>3. ASSUME NEW p \in Named(ops, n)
      PROVE  p \in Nets /\ masked(p) = p /\ t[p] \in Value
  <2>1. LastFor(ops, n, p) \in 1..n /\ masked(ops[LastFor(ops, n, p)].prefix) = p
    BY <1>1, LastForIs
  <2>2. t[p] = ops[LastFor(ops, n, p)].value
    BY DEF Filled
  <2>. HIDE DEF t
  <2>. QED BY <2>1, <2>2, OpFacts
<1>. HIDE DEF t
<1>. QED
  BY <1>2, <1>3 DEF IsTable, t

(* A call for every operation.                                             *)
LEMMA FillLeads ==
  ASSUME NEW ops \in Seq(Op), NEW d, NEW k
  PROVE  Leads(InsertAll(ops), Stage(EmptyTable, d, k), Stage(Filled(ops, Len(ops)), d, k))
<1>. DEFINE n == Len(ops)
            s == InsertAll(ops)
            f == [i \in 1..(n + 1) |-> Stage(Filled(ops, i - 1), d, k)]
<1>1. n \in Nat /\ DOMAIN ops = 1..n
  OBVIOUS
<1>2. s = [i \in 1..n |-> Made(Ins(ops[i].prefix, ops[i].value))]
  BY <1>1 DEF InsertAll
<1>3. IsSeq(s) /\ Len(s) = n
  <2>1. s = [i \in 1..n |-> s[i]]
    BY <1>2
  <2>. HIDE DEF s
  <2>. QED BY <1>1, <2>1, SeqOfFunction
<1>4. f[1] = Stage(EmptyTable, d, k) /\ f[n + 1] = Stage(Filled(ops, n), d, k)
  BY <1>1, FilledStart
<1>5. ASSUME NEW i \in 1..n
      PROVE  Does(s[i], f[i], f[i + 1])
  <2>. DEFINE r == Ins(ops[i].prefix, ops[i].value)
  <2>1. s[i] = Made(r)
    BY <1>2
  <2>2. r \in Request /\ r.op = "insert"
    BY OpFacts DEF Ins, Request
  <2>3. f[i] = Stage(Filled(ops, i - 1), d, k) /\ f[i + 1] = Stage(Filled(ops, i), d, k)
    BY <1>1
  <2>4. Filled(ops, i) = Effect(r, Filled(ops, i - 1))
    <3>1. i - 1 \in Nat /\ (i - 1) + 1 = i
      BY <1>1
    <3>2. Filled(ops, (i - 1) + 1)
            = Effect(Ins(ops[(i - 1) + 1].prefix, ops[(i - 1) + 1].value), Filled(ops, i - 1))
      BY <3>1, FilledStep
    <3>. QED BY <3>1, <3>2
  <2>. HIDE DEF r, f, s
  <2>5. CallDoes(s[i], f[i], f[i + 1])
    BY <2>1, <2>2, <2>3, <2>4 DEF CallDoes, Made, Stage, CallSteps
  <2>. QED BY <2>5 DEF Does
<1>. HIDE DEF s, f
<1>. QED
  BY <1>3, <1>4, <1>5 DEF Leads, s

(* A table that answers every get is left as it is.                        *)
LEMMA GetLeads ==
  ASSUME NEW ops \in Seq(Op), NEW t, NEW d, NEW k,
         \A i \in 1..Len(ops) : /\ masked(ops[i].prefix) \in DOMAIN t
                                /\ t[masked(ops[i].prefix)] = ops[i].value
  PROVE  Leads(GetAll(ops), Stage(t, d, k), Stage(t, d, k))
<1>. DEFINE n == Len(ops)
            s == GetAll(ops)
            f == [i \in 1..(n + 1) |-> Stage(t, d, k)]
<1>1. n \in Nat /\ DOMAIN ops = 1..n
  OBVIOUS
<1>2. s = [i \in 1..n |-> Asserted(On("get", ops[i].prefix), ops[i].value)]
  BY <1>1 DEF GetAll
<1>3. IsSeq(s) /\ Len(s) = n
  <2>1. s = [i \in 1..n |-> s[i]]
    BY <1>2
  <2>. HIDE DEF s
  <2>. QED BY <1>1, <2>1, SeqOfFunction
<1>4. f[1] = Stage(t, d, k) /\ f[n + 1] = Stage(t, d, k)
  BY <1>1
<1>5. ASSUME NEW i \in 1..n
      PROVE  Does(s[i], f[i], f[i + 1])
  <2>. DEFINE r == On("get", ops[i].prefix)
  <2>1. s[i] = Asserted(r, ops[i].value)
    BY <1>2
  <2>2. r \in Request /\ r.op = "get" /\ masked(r.prefix) = masked(ops[i].prefix)
    BY OpFacts DEF On, Request, PrefixOps
  <2>3. f[i] = Stage(t, d, k) /\ f[i + 1] = Stage(t, d, k)
    BY <1>1
  <2>. HIDE DEF r, f, s
  <2>4. Answer(r, t) = ops[i].value /\ Effect(r, t) = t
    <3>1. Answer(r, t) = IF masked(r.prefix) \in DOMAIN t THEN t[masked(r.prefix)] ELSE None
      BY <2>2, AnswerIs
    <3>2. Effect(r, t) = t
      BY <2>2, EffectIs
    <3>. QED BY <2>2, <3>1, <3>2
  <2>5. CallDoes(s[i], f[i], f[i + 1])
    BY <2>1, <2>2, <2>3, <2>4 DEF CallDoes, Asserted, Stage, CallSteps, Telling
  <2>. QED BY <2>5 DEF Does
<1>. HIDE DEF s, f
<1>. QED
  BY <1>3, <1>4, <1>5 DEF Leads, s
------------------------------------------------------------------------------
(* A Vec that lists the entries of a table, each of them once.             *)
Enumerates(s, t) ==
  /\ s \in Seq(Op)
  /\ t = [p \in DOMAIN t |-> t[p]]
  /\ \A i \in 1..Len(s) : /\ masked(s[i].prefix) = s[i].prefix
                          /\ s[i].prefix \in DOMAIN t
                          /\ t[s[i].prefix] = s[i].value
  /\ \A i, j \in 1..Len(s) : s[i].prefix = s[j].prefix => i = j
  /\ \A p \in DOMAIN t : \E i \in 1..Len(s) : s[i].prefix = p

(* Inserting its entries makes the table again.                            *)
LEMMA EnumeratesFilled ==
  ASSUME NEW s, NEW t, Enumerates(s, t)
  PROVE  Filled(s, Len(s)) = t
<1>. DEFINE n == Len(s)
<1>1. /\ n \in Nat /\ t = [p \in DOMAIN t |-> t[p]]
      /\ \A i \in 1..n : /\ masked(s[i].prefix) = s[i].prefix
                         /\ s[i].prefix \in DOMAIN t
                         /\ t[s[i].prefix] = s[i].value
      /\ \A i, j \in 1..n : s[i].prefix = s[j].prefix => i = j
      /\ \A p \in DOMAIN t : \E i \in 1..n : s[i].prefix = p
  BY DEF Enumerates
<1>. HIDE DEF n
<1>2. Named(s, n) = DOMAIN t
  BY <1>1 DEF Named
<1>3. ASSUME NEW p \in DOMAIN t
      PROVE  s[LastFor(s, n, p)].value = t[p]
  <2>1. LastFor(s, n, p) \in 1..n /\ masked(s[LastFor(s, n, p)].prefix) = p
    BY <1>1, <1>2, LastForIs
  <2>. QED BY <1>1, <2>1
<1>4. Filled(s, n) = [p \in DOMAIN t |-> s[LastFor(s, n, p)].value]
  BY <1>2 DEF Filled
<1>5. Filled(s, n) = [p \in DOMAIN t |-> t[p]]
  BY <1>3, <1>4
<1>. QED
  BY <1>1, <1>5 DEF n

(* It has as many elements as the table has entries.                       *)
LEMMA EnumeratesCount ==
  ASSUME NEW s, NEW t, Enumerates(s, t)
  PROVE  Len(s) = Cardinality(DOMAIN t)
<1>. DEFINE n == Len(s)
            f == [i \in 1..n |-> s[i].prefix]
            D == DOMAIN t
<1>1. /\ n \in Nat
      /\ \A i \in 1..n : s[i].prefix \in D
      /\ \A i, j \in 1..n : s[i].prefix = s[j].prefix => i = j
      /\ \A p \in D : \E i \in 1..n : s[i].prefix = p
  BY DEF Enumerates
<1>2. /\ f \in [1..n -> D]
      /\ \A i, j \in 1..n : f[i] = f[j] => i = j
      /\ \A p \in D : \E i \in 1..n : f[i] = p
  BY <1>1
<1>. HIDE DEF n, f, D
<1>3. f \in Bijection(1..n, D)
  BY <1>2 DEF Bijection, Injection, Surjection, IsInjective
<1>4. IsFiniteSet(1..n) /\ Cardinality(1..n) = n
  BY <1>1, FS_Interval
<1>5. Cardinality(1..n) = Cardinality(D)
  <2>1. ExistsBijection(1..n, D)
    BY <1>3 DEF ExistsBijection
  <2>. QED BY <1>4, <2>1, FS_Bijection
<1>. QED
  BY <1>4, <1>5 DEF n, D

LEMMA EnumeratesGet ==
  ASSUME NEW s, NEW t, NEW d, NEW k, Enumerates(s, t)
  PROVE  Leads(GetAll(s), Stage(t, d, k), Stage(t, d, k))
BY GetLeads DEF Enumerates

LEMMA EnumeratesInsert ==
  ASSUME NEW s, NEW t, NEW d, NEW k, Enumerates(s, t)
  PROVE  Leads(InsertAll(s), Stage(EmptyTable, d, k), Stage(t, d, k))
<1>1. Filled(s, Len(s)) = t /\ s \in Seq(Op)
  BY EnumeratesFilled DEF Enumerates
<1>2. Leads(InsertAll(s), Stage(EmptyTable, d, k), Stage(Filled(s, Len(s)), d, k))
  BY <1>1, FillLeads
<1>. QED
  BY <1>1, <1>2

LEMMA EnumeratesTable ==
  ASSUME NEW s, NEW t, Enumerates(s, t)
  PROVE  IsTable(t)
<1>1. s \in Seq(Op) /\ Filled(s, Len(s)) = t
  BY EnumeratesFilled DEF Enumerates
<1>. QED
  BY <1>1, FilledTable
------------------------------------------------------------------------------
(* The elements of a finite set of integers, by how many are below them.   *)
LEMMA BelowType ==
  ASSUME NEW S, IsFiniteSet(S), S \subseteq Int, NEW i \in S
  PROVE  Cardinality({j \in S : j < i}) \in 0..(Cardinality(S) - 1)
<1>. DEFINE B == {j \in S : j < i}
<1>1. B \in SUBSET S /\ i \notin B
  OBVIOUS
<1>. HIDE DEF B
<1>2. /\ IsFiniteSet(B) /\ Cardinality(B) <= Cardinality(S) /\ Cardinality(B) # Cardinality(S)
  BY <1>1, FS_Subset
<1>3. Cardinality(B) \in Nat /\ Cardinality(S) \in Nat
  BY <1>2, FS_CardinalityType
<1>. QED
  BY <1>2, <1>3 DEF B

LEMMA BelowLess ==
  ASSUME NEW S, IsFiniteSet(S), S \subseteq Int, NEW i \in S, NEW k \in S, i < k
  PROVE  Cardinality({j \in S : j < i}) < Cardinality({j \in S : j < k})
<1>. DEFINE B == {j \in S : j < i}
            C == {j \in S : j < k}
<1>1. B \in SUBSET C /\ i \in C /\ i \notin B /\ C \in SUBSET S
  <2>1. i \in Int /\ k \in Int
    OBVIOUS
  <2>2. i \in C /\ i \notin B
    BY <2>1
  <2>3. \A j \in B : j \in C
    BY <2>1
  <2>. QED BY <2>2, <2>3
<1>. HIDE DEF B, C
<1>2. IsFiniteSet(C)
  BY <1>1, FS_Subset
<1>3. IsFiniteSet(B) /\ Cardinality(B) <= Cardinality(C) /\ Cardinality(B) # Cardinality(C)
  BY <1>1, <1>2, FS_Subset
<1>4. Cardinality(B) \in Nat /\ Cardinality(C) \in Nat
  BY <1>2, <1>3, FS_CardinalityType
<1>. QED
  BY <1>3, <1>4 DEF B, C

LEMMA BelowOnto ==
  ASSUME NEW S, IsFiniteSet(S), S \subseteq Int, NEW k \in 0..(Cardinality(S) - 1)
  PROVE  \E i \in S : Cardinality({j \in S : j < i}) = k
<1>. DEFINE c == Cardinality(S)
            T == 0..(c - 1)
            f == [i \in S |-> Cardinality({j \in S : j < i})]
<1>1. c \in Nat
  BY FS_CardinalityType
<1>2. IsFiniteSet(T) /\ Cardinality(T) = c
  <2>1. 0 \in Int /\ c - 1 \in Int
    BY <1>1
  <2>2. IsFiniteSet(T) /\ Cardinality(T) = IF 0 > c - 1 THEN 0 ELSE c - 1 - 0 + 1
    BY ONLY <2>1, FS_Interval DEF T
  <2> HIDE DEF c, T
  <2>. QED BY <1>1, <2>2
<1>3. \A i \in S : Cardinality({j \in S : j < i}) \in T
  BY BelowType
<1>4. \A i, l \in S : i < l =>
        Cardinality({j \in S : j < i}) < Cardinality({j \in S : j < l})
  BY BelowLess
<1>5. /\ f \in [S -> T]
      /\ \A i \in S : f[i] = Cardinality({j \in S : j < i})
  BY <1>3
<1>6. \A i, l \in S : f[i] = f[l] => i = l
  <2>. HIDE DEF f
  <2>1. \A i, l \in S : i < l => f[i] < f[l]
    BY <1>4, <1>5
  <2>2. \A i \in S : f[i] \in Int
    BY <1>1, <1>5
  <2>. QED BY <2>1, <2>2
<1>7. f \in Injection(S, T)
  BY <1>5, <1>6 DEF Injection, IsInjective
<1>8. f \in Surjection(S, T)
  BY <1>2, <1>7, FS_Injection
<1>9. PICK i \in S : f[i] = k
  <2>. HIDE DEF T, f
  <2>1. k \in T
    BY DEF T
  <2>. QED BY <1>8, <2>1 DEF Surjection
<1>. QED
  BY <1>9

(* The deduplicated operations are the entries of the table that inserting *)
(* them all makes.                                                         *)
LEMMA DedupedIs ==
  ASSUME NEW ops \in Seq(Op)
  PROVE  Enumerates(Deduped(ops), Filled(ops, Len(ops)))
<1>. DEFINE n == Len(ops)
            t == Filled(ops, n)
            S == Firsts(ops)
            c == Cardinality(S)
            m(i) == masked(ops[i].prefix)
            first(l) == CHOOSE i \in S : Cardinality({j \in S : j < i}) = l - 1
            s == Deduped(ops)
<1>1. n \in Nat /\ DOMAIN ops = 1..n
  OBVIOUS
<1>2. S \subseteq 1..n /\ S \subseteq Int /\ IsFiniteSet(S) /\ c \in Nat
  <2>1. S \in SUBSET (1..n)
    BY <1>1 DEF Firsts
  <2>2. IsFiniteSet(1..n)
    BY <1>1, FS_Interval
  <2>. HIDE DEF n, S
  <2>3. IsFiniteSet(S)
    BY <2>1, <2>2, FS_Subset
  <2>4. 1..n \subseteq Int
    BY <1>1
  <2>. QED BY <2>1, <2>3, <2>4, FS_CardinalityType
<1>3. \A i, j \in S : m(i) = m(j) => i = j
  <2>1. \A i \in S : i \in 1..n /\ \A j \in 1..(i - 1) : m(i) # m(j)
    BY <1>1 DEF Firsts, Alike
  <2>2. \A i, j \in S : j < i => j \in 1..(i - 1)
    BY <2>1
  <2>. HIDE DEF S, n
  <2>3. \A i, j \in S : j < i => m(i) # m(j)
    BY <2>1, <2>2
  <2>. QED BY <1>2, <2>3
<1>4. \A p \in Named(ops, n) : \E i \in S : m(i) = p
  <2>. SUFFICES ASSUME NEW p \in Named(ops, n)
                PROVE  \E i \in S : m(i) = p
    OBVIOUS
  <2>. DEFINE T == {i \in 1..n : m(i) = p}
  <2>1. T \in SUBSET Nat /\ T # {}
    BY <1>1 DEF Named
  <2>2. PICK i \in T : \A j \in T : i <= j
    <3>. HIDE DEF T
    <3>. QED BY <2>1, LeastNatural
  <2>3. i \in 1..n /\ m(i) = p
    OBVIOUS
  <2>4. \A j \in 1..(i - 1) : m(j) # m(i)
    BY <1>1, <2>2, <2>3
  <2>5. i \in S
    BY <1>1, <2>3, <2>4 DEF Firsts, Alike
  <2>. QED BY <2>3, <2>5
<1>5. \A l \in 1..c : first(l) \in S /\ Cardinality({j \in S : j < first(l)}) = l - 1
  <2>. HIDE DEF S, c
  <2>. SUFFICES ASSUME NEW l \in 1..c
                PROVE  first(l) \in S /\ Cardinality({j \in S : j < first(l)}) = l - 1
    OBVIOUS
  <2>1. l - 1 \in 0..(c - 1)
    BY <1>2
  <2>2. \E i \in S : Cardinality({j \in S : j < i}) = l - 1
    BY <1>2, <2>1, BelowOnto DEF c
  <2>. QED BY <2>2
<1>6. \A i \in S : \E l \in 1..c : first(l) = i
  <2>. SUFFICES ASSUME NEW i \in S
                PROVE  \E l \in 1..c : first(l) = i
    OBVIOUS
  <2>. DEFINE k == Cardinality({j \in S : j < i})
  <2>. HIDE DEF S, first
  <2>1. k \in 0..(c - 1)
    BY <1>2, BelowType
  <2>2. k + 1 \in 1..c /\ (k + 1) - 1 = k
    BY <1>2, <2>1
  <2>3. first(k + 1) \in S /\ Cardinality({j \in S : j < first(k + 1)}) = k
    BY <1>5, <2>2
  <2>4. \A a, b \in S : a < b => Cardinality({j \in S : j < a}) < Cardinality({j \in S : j < b})
    BY <1>2, BelowLess
  <2>5. first(k + 1) = i
    <3>. DEFINE x == first(k + 1)
    <3>1. x \in S /\ Cardinality({j \in S : j < x}) = Cardinality({j \in S : j < i})
      BY <2>3
    <3>. HIDE DEF x, k
    <3>2. ~(x < i) /\ ~(i < x)
      <4>. DEFINE b(y) == Cardinality({j \in S : j < y})
      <4>1. b(i) \in Int /\ b(x) = b(i)
        BY <1>2, <2>1, <3>1 DEF k
      <4>2. \A a, y \in S : a < y => b(a) < b(y)
        BY <2>4
      <4>. HIDE DEF b
      <4>3. (x < i => b(x) < b(i)) /\ (i < x => b(i) < b(x))
        BY <3>1, <4>2
      <4>. QED BY <4>1, <4>3
    <3>3. x \in Int /\ i \in Int
      BY <1>2, <3>1
    <3>4. x = i
      BY <3>2, <3>3
    <3>. QED BY <3>4 DEF x
  <2>. QED BY <2>2, <2>5
<1>7. \A i \in S : LastAlike(ops, i) = LastFor(ops, n, m(i)) /\ m(i) \in Named(ops, n)
  <2>. SUFFICES ASSUME NEW i \in S
                PROVE  LastAlike(ops, i) = LastFor(ops, n, m(i)) /\ m(i) \in Named(ops, n)
    OBVIOUS
  <2>. HIDE DEF S
  <2>1. m(i) \in Named(ops, n)
    BY <1>2 DEF Named
  <2>. DEFINE L == LastFor(ops, n, m(i))
  <2>2. L \in 1..n /\ m(L) = m(i) /\ \A k \in 1..n : m(k) = m(i) => k <= L
    BY <1>1, <2>1, LastForIs
  <2>. HIDE DEF L
  <2>3. /\ L \in DOMAIN ops /\ Alike(ops, i, L)
        /\ \A k \in DOMAIN ops : Alike(ops, i, k) => k <= L
    BY <1>1, <2>2 DEF Alike
  <2>4. /\ LastAlike(ops, i) \in DOMAIN ops /\ Alike(ops, i, LastAlike(ops, i))
        /\ \A k \in DOMAIN ops : Alike(ops, i, k) => k <= LastAlike(ops, i)
    BY <2>3 DEF LastAlike
  <2>5. LastAlike(ops, i) <= L /\ L <= LastAlike(ops, i)
    BY <2>3, <2>4
  <2>6. LastAlike(ops, i) = L
    BY <1>1, <2>3, <2>4, <2>5
  <2>. QED BY <2>1, <2>6 DEF L
<1>8. /\ s = [l \in 1..c |-> [prefix |-> m(first(l)), value |-> ops[LastAlike(ops, first(l))].value]]
  BY DEF Deduped
<1>9. \A l \in 1..c :
        /\ s[l] \in Op /\ s[l].prefix = m(first(l))
        /\ masked(s[l].prefix) = s[l].prefix
        /\ s[l].prefix \in DOMAIN t /\ t[s[l].prefix] = s[l].value
  <2>. SUFFICES ASSUME NEW l \in 1..c
                PROVE  /\ s[l] \in Op /\ s[l].prefix = m(first(l))
                       /\ masked(s[l].prefix) = s[l].prefix
                       /\ s[l].prefix \in DOMAIN t /\ t[s[l].prefix] = s[l].value
    OBVIOUS
  <2>. DEFINE i == first(l)
              v == ops[LastAlike(ops, i)].value
  <2>1. s[l] = [prefix |-> m(i), value |-> v]
    BY <1>8
  <2>2. i \in S /\ i \in 1..n
    <3>. HIDE DEF S, c, first, n
    <3>. QED BY <1>2, <1>5
  <2>. HIDE DEF i, s, first
  <2>3. /\ m(i) \in Nets /\ masked(m(i)) = m(i) /\ ops[i].prefix \in IpPrefix
    BY <2>2, OpFacts
  <2>4. LastAlike(ops, i) = LastFor(ops, n, m(i)) /\ m(i) \in Named(ops, n)
    <3>. HIDE DEF S, n
    <3>. QED BY <1>7, <2>2
  <2>5. LastFor(ops, n, m(i)) \in 1..n
    BY <1>1, <2>4, LastForIs
  <2>6. v \in Value
    BY <2>4, <2>5, OpFacts
  <2>7. m(i) \in DOMAIN t /\ t[m(i)] = v
    BY <2>4 DEF Filled
  <2>. HIDE DEF v, t
  <2>8. [prefix |-> m(i), value |-> v] \in Op
    BY <2>3, <2>6 DEF Op
  <2>. QED BY <2>1, <2>3, <2>7, <2>8 DEF i
<1>10. s \in Seq(Op) /\ Len(s) = c
  <2>. HIDE DEF S, c, s, m, first, t
  <2>1. s = [l \in 1..c |-> s[l]]
    BY <1>8
  <2>. QED BY <1>2, <1>9, <2>1
<1>11. t = [p \in DOMAIN t |-> t[p]] /\ DOMAIN t = Named(ops, n)
  BY DEF Filled
<1>12. \A k, l \in 1..c : s[k].prefix = s[l].prefix => k = l
  <2>. SUFFICES ASSUME NEW k \in 1..c, NEW l \in 1..c, s[k].prefix = s[l].prefix
                PROVE  k = l
    OBVIOUS
  <2>. HIDE DEF S, c, s, first, t
  <2>1. first(k) \in S /\ first(l) \in S
    BY <1>5
  <2>2. m(first(k)) = m(first(l))
    BY <1>9
  <2>3. first(k) = first(l)
    BY <1>3, <2>1, <2>2
  <2>4. k - 1 = l - 1
    BY <1>5, <2>3
  <2>. QED BY <1>2, <2>4
<1>13. \A p \in DOMAIN t : \E l \in 1..c : s[l].prefix = p
  <2>. SUFFICES ASSUME NEW p \in DOMAIN t
                PROVE  \E l \in 1..c : s[l].prefix = p
    OBVIOUS
  <2>. HIDE DEF S, c, s, first, t
  <2>1. PICK i \in S : m(i) = p
    BY <1>4, <1>11
  <2>2. PICK l \in 1..c : first(l) = i
    BY <1>6
  <2>3. s[l].prefix = p
    BY <1>9, <2>1, <2>2
  <2>. QED BY <2>3
<1>. HIDE DEF S, c, s, m, first, t
<1>. QED
  BY <1>9, <1>10, <1>11, <1>12, <1>13 DEF Enumerates, s, t
------------------------------------------------------------------------------
(* What has been drained so far is what the iterator has returned, each    *)
(* entry once and with its value.                                          *)
Drawn ==
  /\ drained = [i \in 1..Len(seen) |-> [prefix |-> seen[i], value |-> Table[seen[i]]]]
  /\ \A i \in 1..Len(seen) : seen[i] \in Keys
  /\ \A i, j \in 1..Len(seen) : seen[i] = seen[j] => i = j

(* The test stands at stage g of its script, perhaps in the midst of its   *)
(* next step.                                                              *)
Standing(g) ==
  /\ g.kept = kept
  /\ Phase \in {"idle", "called"} => Table = g.tab
  /\ Phase # "idle" => /\ cursor = "none" /\ script # <<>>
                       /\ Head(script).do \in CallSteps /\ req = Head(script).req
  /\ Phase = "answered" => /\ Table = Effect(req, g.tab)
                           /\ Telling(req) => reply = Answer(req, g.tab)
  /\ cursor = "asked" => Now("drain")
  /\ Now("drain") /\ cursor # "none" => Drawn
  /\ ~Now("drain") => Enumerates(drained, g.dtab)

TestInv ==
  /\ IterInv
  /\ \E g, h : Leads(script, g, h) /\ Standing(g)

(* A call step does what a call does, and no other step is one.            *)
LEMMA CallStepDoes ==
  ASSUME NEW step, NEW g, NEW h, Does(step, g, h)
  PROVE  /\ step.do \in CallSteps => CallDoes(step, g, h)
         /\ step.do = "later" => LaterDoes(step, g, h)
         /\ step.do = "drain" => IsTable(g.tab) /\ h = Stage(g.tab, g.tab, g.kept)
         /\ step.do = "fresh" => h = Stage(EmptyTable, g.dtab, g.kept)
BY DEF Does, CallDoes, LaterDoes, CallSteps

(* The answer of the call just made is the one the test asserts.           *)
LEMMA InvAsserts ==
  ASSUME TestInv
  PROVE  AssertionsHold
<1>. SUFFICES ASSUME pc = "return"
              PROVE  reply \in Want(Head(script))
  BY DEF AssertionsHold
<1>1. PICK g, h : Leads(script, g, h) /\ Standing(g)
  BY DEF TestInv
<1>. DEFINE step == Head(script)
<1>2. /\ script # <<>> /\ step.do \in CallSteps /\ req = step.req
      /\ Telling(req) => reply = Answer(req, g.tab)
      /\ g.kept = kept
  BY <1>1, PhaseFacts DEF Standing
<1>3. PICK k : Does(step, g, k)
  BY <1>1, <1>2, LeadsFirst
<1>. HIDE DEF step
<1>4. CallDoes(step, g, k)
  BY <1>2, <1>3, CallStepDoes
<1>5. CASE step.do = "assert"
  <2>1. step.want = {reply}
    BY <1>2, <1>4, <1>5 DEF CallDoes
  <2>. QED BY <1>5, <2>1 DEF Want, step
<1>6. CASE step.do = "same"
  <2>1. reply = IF kept = None THEN None ELSE kept.value
    BY <1>2, <1>4, <1>6 DEF CallDoes
  <2>. QED BY <1>6, <2>1 DEF Want, step
<1>7. CASE step.do \notin {"assert", "same"}
  BY <1>7 DEF Want, step
<1>. QED
  BY <1>5, <1>6, <1>7
------------------------------------------------------------------------------
(* The next step of the test, where it leads, and that it may be taken.    *)
LEMMA NextStep ==
  ASSUME TestInv, script # <<>>
  PROVE  \E g, h, k : /\ Standing(g) /\ Does(Head(script), g, h)
                      /\ Leads(Tail(script), h, k) /\ Leads(script, g, k)
<1>1. PICK g, k : Leads(script, g, k) /\ Standing(g)
  BY DEF TestInv
<1>2. PICK h : Does(Head(script), g, h) /\ Leads(Tail(script), h, k)
  BY <1>1, LeadsFirst
<1>. QED
  BY <1>1, <1>2

LEMMA MakeCallInv ==
  ASSUME TestInv, MakeCall
  PROVE  TestInv'
<1>1. /\ pc = "idle" /\ cursor = "none" /\ script # <<>> /\ Head(script).do \in CallSteps
      /\ req' = Head(script).req /\ pc' = req'.op
      /\ UNCHANGED <<heap, count, reply, locals, iterVars, testVars>>
  BY DEF MakeCall, Resting, Now, CallSteps
<1>2. PICK g, h, k : Standing(g) /\ Does(Head(script), g, h) /\ Leads(script, g, k)
  BY <1>1, NextStep
<1>3. req' \in Request
  <2>1. CallDoes(Head(script), g, h)
    BY <1>1, <1>2, CallStepDoes
  <2>. QED BY <1>1, <2>1 DEF CallDoes
<1>4. Call
  BY <1>1, <1>3 DEF Call
<1>5. IterInv'
  <2>1. IterNext
    BY <1>1, <1>4 DEF IterNext, TableStep, Next
  <2>. QED BY <2>1, IterNextInv DEF TestInv
<1>6. Phase = "idle" /\ Phase' = "called"
  <2>1. pc' \in Ops
    BY <1>1, <1>3 DEF Request, Ops, PrefixOps, LookupOps, PlainOps
  <2>. QED BY <1>1, <2>1, PhaseFacts
<1>7. Table' = Table
  BY <1>1, TableOfHeap
<1>8. cursor' = cursor /\ script' = script /\ kept' = kept /\ drained' = drained
  BY <1>1 DEF iterVars, testVars
<1>9. Standing(g)'
  <2>1. ~Now("drain") /\ ~Now("drain")'
    BY <1>1, <1>8 DEF Now, CallSteps
  <2>. QED BY <1>1, <1>2, <1>6, <1>7, <1>8, <2>1 DEF Standing
<1>10. Leads(script, g, k)'
  BY <1>2, <1>8
<1>. QED
  BY <1>5, <1>9, <1>10 DEF TestInv

(* A running call goes on, and answers as the stage of the test tells.     *)
LEMMA RunCallInv ==
  ASSUME TestInv, RunCall
  PROVE  TestInv'
<1>1. pc # "return" /\ Step /\ UNCHANGED <<iterVars, testVars>>
  BY DEF RunCall
<1>2. PICK g, k : Standing(g) /\ Leads(script, g, k)
  BY DEF TestInv
<1>3. /\ pc # "idle" /\ pc' # "idle" /\ req' = req
      /\ \/ Phase' = Phase /\ Table' = Table /\ reply' = reply
         \/ /\ Phase = "called" /\ Phase' = "answered" /\ Table' = Effect(req, Table)
            /\ Telling(req) => reply' = Answer(req, Table)
  BY <1>1, CallAnswered DEF TestInv, IterInv
<1>4. IterInv'
  <2>1. IterNext
    BY <1>1, <1>3 DEF IterNext, TableStep, Next
  <2>. QED BY <2>1, IterNextInv DEF TestInv
<1>5. cursor' = cursor /\ script' = script /\ kept' = kept /\ drained' = drained
  BY <1>1 DEF iterVars, testVars
<1>6. /\ Phase # "idle" /\ cursor = "none"
      /\ Now("drain")' = Now("drain")
  <2>1. Phase # "idle"
    BY <1>3 DEF Phase
  <2>. QED BY <1>2, <1>5, <2>1 DEF Standing, Now
<1>7. Standing(g)'
  <2>1. CASE Phase' = Phase /\ Table' = Table /\ reply' = reply
    BY <1>2, <1>3, <1>5, <1>6, <2>1 DEF Standing
  <2>2. CASE /\ Phase = "called" /\ Phase' = "answered" /\ Table' = Effect(req, Table)
             /\ Telling(req) => reply' = Answer(req, Table)
    BY <1>2, <1>3, <1>5, <1>6, <2>2 DEF Standing
  <2>. QED BY <1>3, <2>1, <2>2
<1>8. Leads(script, g, k)'
  BY <1>2, <1>5
<1>. QED
  BY <1>4, <1>7, <1>8 DEF TestInv

(* The test takes the answer and goes on to its next stage.                *)
LEMMA TakeAnswerInv ==
  ASSUME TestInv, TakeAnswer
  PROVE  TestInv'
<1>1. /\ Return /\ kept' = (IF Now("keep") THEN reply ELSE kept)
      /\ script' = Tail(script) /\ UNCHANGED <<iterVars, drained>>
  BY DEF TakeAnswer
<1>2. pc = "return" /\ pc' = "idle" /\ heap' = heap
  BY <1>1 DEF Return
<1>3. Phase = "answered" /\ Phase' = "idle" /\ Table' = Table
  BY <1>2, PhaseFacts, TableOfHeap
<1>4. script # <<>>
  BY <1>3 DEF TestInv, Standing
<1>5. PICK g, h, k : /\ Standing(g) /\ Does(Head(script), g, h)
                     /\ Leads(Tail(script), h, k)
  BY <1>4, NextStep
<1>6. /\ cursor = "none" /\ cursor' = "none" /\ drained' = drained
      /\ Head(script).do \in CallSteps /\ req = Head(script).req
      /\ Table = Effect(req, g.tab) /\ g.kept = kept
      /\ Telling(req) => reply = Answer(req, g.tab)
  BY <1>1, <1>3, <1>5 DEF Standing, iterVars
<1>7. CallDoes(Head(script), g, h)
  BY <1>5, <1>6, CallStepDoes
<1>8. /\ h.tab = Table /\ h.dtab = g.dtab /\ h.kept = kept'
  <2>1. /\ h.tab = Effect(req, g.tab) /\ h.dtab = g.dtab
        /\ h.kept = IF Head(script).do = "keep" THEN Answer(req, g.tab) ELSE g.kept
        /\ Head(script).do = "keep" => Telling(req)
    BY <1>6, <1>7 DEF CallDoes, Stage
  <2>. QED BY <1>1, <1>4, <1>6, <2>1 DEF Now
<1>9. IterInv'
  <2>1. IterNext
    BY <1>1, <1>2 DEF IterNext, TableStep, Next, Step
  <2>. QED BY <2>1, IterNextInv DEF TestInv
<1>10. Enumerates(drained, g.dtab)
  BY <1>5, <1>6 DEF Standing, Now, CallSteps
<1>11. Standing(h)'
  BY <1>3, <1>6, <1>8, <1>10 DEF Standing
<1>12. Leads(script, h, k)'
  BY <1>1, <1>5
<1>. QED
  BY <1>9, <1>11, <1>12 DEF TestInv

(* The calls that depend on what was kept or drained are known now.        *)
LEMMA ExpandLeads ==
  ASSUME NEW g, NEW h, NEW step, LaterDoes(step, g, h), g.kept = kept,
         Enumerates(drained, g.dtab)
  PROVE  Leads(Expand(step), g, h)
<1>1. g = Stage(g.tab, g.dtab, g.kept)
  BY DEF LaterDoes
<1>2. CASE step.what = "get drained"
  <2>1. Expand(step) = GetAll(drained)
    BY <1>2 DEF Expand
  <2>2. g.dtab = g.tab /\ h = g
    BY <1>2 DEF LaterDoes
  <2>3. Leads(GetAll(drained), Stage(g.tab, g.dtab, g.kept), Stage(g.tab, g.dtab, g.kept))
    BY <2>2, EnumeratesGet
  <2>. QED BY <1>1, <2>1, <2>2, <2>3
<1>3. CASE step.what = "insert drained"
  <2>1. Expand(step) = InsertAll(drained)
    BY <1>3 DEF Expand
  <2>2. g.tab = EmptyTable /\ h = Stage(g.dtab, g.dtab, g.kept)
    BY <1>3 DEF LaterDoes
  <2>3. Leads(InsertAll(drained), Stage(EmptyTable, g.dtab, g.kept),
              Stage(g.dtab, g.dtab, g.kept))
    BY EnumeratesInsert
  <2>. QED BY <1>1, <2>1, <2>2, <2>3
<1>4. ASSUME NEW n, n = Cardinality(DOMAIN g.tab)
      PROVE  Leads(Expect(Plain("len"), n), g, g)
  <2>. DEFINE r == Plain("len")
              x == Asserted(r, n)
  <2>1. r \in Request /\ r.op = "len"
    BY DEF Plain, Request, PlainOps
  <2>. HIDE DEF r
  <2>2. Answer(r, g.tab) = n /\ Effect(r, g.tab) = g.tab
    <3>1. Answer(r, g.tab) = Cardinality(DOMAIN g.tab)
      BY <2>1, AnswerIs
    <3>2. Effect(r, g.tab) = g.tab
      BY <2>1, EffectIs
    <3>. QED BY <1>4, <3>1, <3>2
  <2>3. CallDoes(x, g, g)
    BY <1>1, <2>1, <2>2 DEF CallDoes, Asserted, CallSteps, Telling
  <2>4. Does(x, g, g)
    BY <2>3 DEF Does
  <2>. HIDE DEF x
  <2>5. Leads(<<x>>, g, g)
    BY <2>4, LeadsOne
  <2>. QED BY <2>5 DEF Expect, x, r
<1>5. CASE step.what = "len is count"
  <2>1. Expand(step) = Expect(Plain("len"), Len(drained))
    BY <1>5 DEF Expand
  <2>2. g.dtab = g.tab /\ h = g
    BY <1>5 DEF LaterDoes
  <2>3. Len(drained) = Cardinality(DOMAIN g.tab)
    BY <2>2, EnumeratesCount
  <2>. QED BY <1>4, <2>1, <2>2, <2>3
<1>6. CASE step.what = "len is kept"
  <2>1. Expand(step) = Expect(Plain("len"), kept)
    BY <1>6 DEF Expand
  <2>2. g.kept = Cardinality(DOMAIN g.tab) /\ h = g
    BY <1>6 DEF LaterDoes
  <2>. QED BY <1>4, <2>1, <2>2
<1>7. CASE step.what = "get kept"
  <2>1. Expand(step) = IF kept = None THEN <<>> ELSE GetAll(<<kept>>)
    BY <1>7 DEF Expand
  <2>2. /\ h = g /\ IsTable(g.tab)
        /\ \/ kept = None
           \/ \E p \in DOMAIN g.tab : kept = [prefix |-> p, value |-> g.tab[p]]
    BY <1>7 DEF LaterDoes
  <2>3. CASE kept = None
    BY <2>1, <2>2, <2>3, LeadsNowhere
  <2>4. CASE kept # None
    <3>1. PICK p \in DOMAIN g.tab : kept = [prefix |-> p, value |-> g.tab[p]]
      BY <2>2, <2>4
    <3>2. p \in Nets /\ masked(p) = p /\ g.tab[p] \in Value
      BY <2>2 DEF IsTable
    <3>3. kept \in Op /\ kept.prefix = p /\ kept.value = g.tab[p]
      BY <3>1, <3>2 DEF Op
    <3>. DEFINE s == <<kept>>
    <3>4. s \in Seq(Op) /\ Len(s) = 1 /\ s[1] = kept
      BY <3>3
    <3>. HIDE DEF s
    <3>5. \A i \in 1..Len(s) : /\ masked(s[i].prefix) \in DOMAIN g.tab
                               /\ g.tab[masked(s[i].prefix)] = s[i].value
      BY <3>2, <3>3, <3>4
    <3>6. Leads(GetAll(s), Stage(g.tab, g.dtab, g.kept), Stage(g.tab, g.dtab, g.kept))
      BY <3>4, <3>5, GetLeads
    <3>. QED BY <1>1, <2>1, <2>2, <2>4, <3>6 DEF s
  <2>. QED BY <2>3, <2>4
<1>. QED
  BY <1>2, <1>3, <1>5, <1>6, <1>7 DEF LaterDoes

LEMMA MakeLaterInv ==
  ASSUME TestInv, MakeLater
  PROVE  TestInv'
<1>1. /\ pc = "idle" /\ cursor = "none" /\ script # <<>> /\ Head(script).do = "later"
      /\ script' = Expand(Head(script)) \o Tail(script)
      /\ UNCHANGED <<vars, iterVars, kept, drained>>
  BY DEF MakeLater, Resting, Now
<1>2. PICK g, h, k : /\ Standing(g) /\ Does(Head(script), g, h)
                     /\ Leads(Tail(script), h, k)
  BY <1>1, NextStep
<1>3. LaterDoes(Head(script), g, h) /\ g.kept = kept
  BY <1>1, <1>2, CallStepDoes DEF Standing
<1>4. Enumerates(drained, g.dtab)
  BY <1>1, <1>2 DEF Standing, Now
<1>5. Leads(script', g, k)
  BY <1>1, <1>2, <1>3, <1>4, ExpandLeads, LeadsOn
<1>6. IterInv'
  <2>1. [IterNext]_<<vars, iterVars>>
    BY <1>1
  <2>. QED BY <2>1, IterNextInv DEF TestInv
<1>7. Table' = Table /\ Phase' = Phase /\ Phase = "idle"
  <2>1. heap' = heap /\ pc' = pc
    BY <1>1 DEF vars
  <2>. QED BY <1>1, <2>1, TableOfHeap, PhaseFacts
<1>8. Standing(g)'
  BY <1>1, <1>2, <1>4, <1>7 DEF Standing, iterVars
<1>. QED
  BY <1>5, <1>6, <1>8 DEF TestInv

(* Another table begins empty.                                             *)
LEMMA MakeFreshInv ==
  ASSUME TestInv, MakeFresh
  PROVE  TestInv'
<1>1. /\ pc = "idle" /\ cursor = "none" /\ script # <<>> /\ Head(script).do = "fresh"
      /\ heap' = [r \in {Root} |-> EmptyNode] /\ count' = 0 /\ script' = Tail(script)
      /\ UNCHANGED <<pc, req, reply, locals, iterVars, kept, drained>>
  BY DEF MakeFresh, Resting, Now
<1>2. PICK g, h, k : /\ Standing(g) /\ Does(Head(script), g, h)
                     /\ Leads(Tail(script), h, k)
  BY <1>1, NextStep
<1>3. h = Stage(EmptyTable, g.dtab, g.kept)
  BY <1>1, <1>2, CallStepDoes
<1>4. IterInit'
  <2>1. IterInv /\ IInv /\ Control /\ TypeOK
    BY DEF TestInv, IterInv, IInv
  <2>2. /\ req = NoRequest /\ reply = None /\ node = Root /\ hop = 0 /\ best = None
        /\ stack = <<>> /\ prune = FALSE
    BY <1>1, <2>1 DEF Control, TypeOK
  <2>3. frames = <<>> /\ seen = <<>> /\ item = None
    BY <1>1, <2>1 DEF IterInv, Borrowed
  <2>. QED BY <1>1, <2>2, <2>3 DEF IterInit, Init, locals, iterVars
<1>5. IterInv'
  <2>1. IterInit' => IterInv'
    BY IterInitInv, PTL
  <2>. QED BY <1>4, <2>1
<1>6. Table' = EmptyTable
  <2>1. Init' => Abstract!Init'
    BY InitIs, PTL
  <2>2. Abstract!Init' => Table' = EmptyTable
    BY DEF Abstract!Init, EmptyTable
  <2>. QED BY <1>4, <2>1, <2>2 DEF IterInit
<1>7. Phase = "idle" /\ Phase' = "idle"
  BY <1>1, PhaseFacts
<1>8. Enumerates(drained, g.dtab) /\ g.kept = kept
  BY <1>1, <1>2 DEF Standing, Now
<1>9. Standing(h)'
  BY <1>1, <1>3, <1>6, <1>7, <1>8 DEF Standing, iterVars, Stage
<1>10. Leads(script, h, k)'
  BY <1>1, <1>2
<1>. QED
  BY <1>5, <1>9, <1>10 DEF TestInv
------------------------------------------------------------------------------
(* The iterator of a test: what a step of it leaves alone.                 *)
LEMMA DrainKept ==
  ASSUME TestInv, Open \/ Ask \/ IterStep \/ Close, UNCHANGED vars
  PROVE  IterInv' /\ Table' = Table /\ Phase' = Phase /\ req' = req /\ reply' = reply /\ Keys' = Keys
<1>1. IterNext
  BY DEF IterNext
<1>2. IterInv'
  BY <1>1, IterNextInv DEF TestInv
<1>3. heap' = heap /\ pc' = pc /\ req' = req /\ reply' = reply
  BY DEF vars
<1>. QED
  BY <1>2, <1>3, TableOfHeap DEF Phase

LEMMA DrainOpenInv ==
  ASSUME TestInv, DrainOpen
  PROVE  TestInv'
<1>1. /\ pc = "idle" /\ script # <<>> /\ Head(script).do = "drain"
      /\ Open /\ UNCHANGED vars /\ cursor' = "ready" /\ seen' = <<>> /\ drained' = <<>>
      /\ script' = script /\ kept' = kept
  BY DEF DrainOpen, Resting, Now, Open
<1>2. PICK g, k : Standing(g) /\ Leads(script, g, k)
  BY DEF TestInv
<1>3. IterInv' /\ Table' = Table /\ Phase' = Phase /\ Phase = "idle"
  BY <1>1, DrainKept, PhaseFacts
<1>4. Drawn'
  <2>. DEFINE e == <<>>
              F(s) == [i \in 1..Len(s) |-> [prefix |-> s[i], value |-> Table'[s[i]]]]
  <2>1. Len(e) = 0 /\ 1..Len(e) = {}
    OBVIOUS
  <2>2. e = [i \in {} |-> [prefix |-> e[i], value |-> Table'[e[i]]]]
    OBVIOUS
  <2>3. seen' = e /\ drained' = e
    BY <1>1
  <2>. HIDE DEF e
  <2>. QED BY <2>1, <2>2, <2>3 DEF Drawn
<1>5. Now("drain")'
  BY <1>1 DEF Now
<1>6. Standing(g)'
  BY <1>1, <1>2, <1>3, <1>4, <1>5 DEF Standing
<1>7. Leads(script, g, k)'
  BY <1>1, <1>2
<1>. QED
  BY <1>3, <1>6, <1>7 DEF TestInv

LEMMA DrainNextInv ==
  ASSUME TestInv, DrainNext
  PROVE  TestInv'
<1>1. /\ Now("drain") /\ Ask /\ cursor = "ready" /\ cursor' = "asked"
      /\ UNCHANGED vars /\ seen' = seen
      /\ script' = script /\ kept' = kept /\ drained' = drained
  BY DEF DrainNext, Ask, testVars
<1>2. PICK g, k : Standing(g) /\ Leads(script, g, k)
  BY DEF TestInv
<1>3. IterInv' /\ Table' = Table /\ Phase' = Phase /\ Keys' = Keys
  BY <1>1, DrainKept
<1>4. Drawn /\ Phase = "idle"
  BY <1>1, <1>2 DEF Standing, Phase
<1>5. Drawn'
  BY <1>1, <1>3, <1>4 DEF Drawn
<1>6. Now("drain")'
  BY <1>1 DEF Now
<1>7. Standing(g)'
  BY <1>1, <1>2, <1>3, <1>4, <1>5, <1>6 DEF Standing
<1>8. Leads(script, g, k)'
  BY <1>1, <1>2
<1>. QED
  BY <1>3, <1>7, <1>8 DEF TestInv

LEMMA DrainCloseInv ==
  ASSUME TestInv, DrainClose
  PROVE  TestInv'
<1>1. /\ ~Now("drain") /\ Close /\ cursor = "ready" /\ cursor' = "none" /\ UNCHANGED vars
      /\ script' = script /\ kept' = kept /\ drained' = drained
  BY DEF DrainClose, Close, testVars
<1>2. PICK g, k : Standing(g) /\ Leads(script, g, k)
  BY DEF TestInv
<1>3. IterInv' /\ Table' = Table /\ Phase' = Phase
  BY <1>1, DrainKept
<1>4. Phase = "idle" /\ Enumerates(drained, g.dtab)
  BY <1>1, <1>2 DEF Standing, Phase
<1>5. ~Now("drain")'
  BY <1>1 DEF Now
<1>6. Standing(g)'
  BY <1>1, <1>2, <1>3, <1>4, <1>5 DEF Standing
<1>7. Leads(script, g, k)'
  BY <1>1, <1>2
<1>. QED
  BY <1>3, <1>6, <1>7 DEF TestInv

(* Walking the tree does not show in what is drained.                      *)
LEMMA DrainMoveInv ==
  ASSUME TestInv, DrainStep, EnterChild \/ LeaveNode
  PROVE  TestInv'
<1>1. /\ cursor = "asked" /\ cursor' = cursor /\ seen' = seen /\ UNCHANGED vars
  BY DEF EnterChild, LeaveNode
<1>2. script' = script /\ kept' = kept /\ drained' = drained
  BY <1>1 DEF DrainStep
<1>3. PICK g, k : Standing(g) /\ Leads(script, g, k)
  BY DEF TestInv
<1>4. IterInv' /\ Table' = Table /\ Phase' = Phase /\ Keys' = Keys
  BY <1>1, DrainKept DEF DrainStep
<1>5. Now("drain") /\ Drawn /\ Phase = "idle"
  BY <1>1, <1>3 DEF Standing, Phase
<1>6. Drawn' /\ Now("drain")'
  BY <1>1, <1>2, <1>4, <1>5 DEF Drawn, Now
<1>7. Standing(g)'
  BY <1>1, <1>2, <1>3, <1>4, <1>5, <1>6 DEF Standing
<1>8. Leads(script, g, k)'
  BY <1>2, <1>3
<1>. QED
  BY <1>4, <1>7, <1>8 DEF TestInv

(* The test receives an entry it has not seen, with its value.             *)
LEMMA DrainYieldInv ==
  ASSUME TestInv, DrainStep, Yield
  PROVE  TestInv'
<1>. DEFINE b == NextBit(internalLeft)
            p == IterPrefix(top, b)
<1>1. /\ cursor = "asked" /\ cursor' = "ready" /\ frames # <<>> /\ internalLeft # {}
      /\ item' = [prefix |-> p, value |-> At(tree.values, rank(tree.internal, b))]
      /\ seen' = Append(seen, p) /\ UNCHANGED vars
  BY DEF Yield
<1>2. /\ TypeOK /\ TreeInv /\ frames \in Seq(CursorFrame) /\ FramesOnPath /\ Winding
      /\ LeftAhead /\ seen \in Seq(IpPrefix)
  BY DEF TestInv, IterInv, IInv, IterTyped
<1>3. /\ p \in Keys /\ p \notin Range(seen) /\ ValueOf(p) \in Value
      /\ item' = [prefix |-> p, value |-> ValueOf(p)]
  BY <1>1, <1>2, YieldFacts
<1>. HIDE DEF b, p
<1>4. p \in IpPrefix /\ Table[p] = ValueOf(p)
  BY <1>2, <1>3, KeyFacts DEF Table
<1>5. item' # None
  BY <1>3, <1>4, SomeAssumption
<1>6. drained' = Append(drained, item') /\ script' = script /\ kept' = kept
  BY <1>1, <1>5 DEF DrainStep
<1>7. PICK g, k : Standing(g) /\ Leads(script, g, k)
  BY DEF TestInv
<1>8. IterInv' /\ Table' = Table /\ Phase' = Phase /\ Keys' = Keys
  BY <1>1, DrainKept DEF DrainStep
<1>9. Now("drain") /\ Drawn /\ Phase = "idle"
  BY <1>1, <1>7 DEF Standing, Phase
<1>10. Drawn' /\ Now("drain")'
  <2>. DEFINE n == Len(seen)
              x == [prefix |-> p, value |-> Table[p]]
              e == [i \in 1..n |-> [prefix |-> seen[i], value |-> Table[seen[i]]]]
              s == Append(seen, p)
              d == Append(e, x)
  <2>1. /\ n \in Nat /\ Len(s) = n + 1 /\ s[n + 1] = p
        /\ \A i \in 1..n : s[i] = seen[i]
    BY <1>2, <1>4
  <2>2. d = [i \in 1..(n + 1) |-> IF i = n + 1 THEN x ELSE e[i]]
    <3>1. e \in Seq({e[i] : i \in 1..n} \cup {x})
      BY <2>1
    <3>2. Len(e) = n
      BY <2>1
    <3>. HIDE DEF e, x, n
    <3>3. d \in Seq({e[i] : i \in 1..n} \cup {x})
      BY <3>1
    <3>4. /\ Len(d) = n + 1 /\ d[n + 1] = x
          /\ \A i \in 1..n : d[i] = e[i]
      BY <2>1, <3>1, <3>2
    <3>. HIDE DEF d
    <3>5. d = [i \in 1..Len(d) |-> d[i]]
      BY <3>3
    <3>6. \A i \in 1..(n + 1) : d[i] = IF i = n + 1 THEN x ELSE e[i]
      BY <2>1, <3>4
    <3>. QED BY <3>4, <3>5, <3>6
  <2>3. \A i \in 1..n : seen[i] \in Range(seen)
    BY DEF Range
  <2>4. \A i \in 1..(n + 1) : i \in 1..n \/ i = n + 1
    BY <2>1
  <2>5. drained' = d /\ seen' = s
    BY <1>1, <1>3, <1>4, <1>6, <1>9 DEF Drawn
  <2>6. \A i \in 1..(n + 1) :
          (IF i = n + 1 THEN x ELSE e[i]) = [prefix |-> s[i], value |-> Table[s[i]]]
    <3>. SUFFICES ASSUME NEW i \in 1..(n + 1)
                  PROVE  (IF i = n + 1 THEN x ELSE e[i]) = [prefix |-> s[i], value |-> Table[s[i]]]
      OBVIOUS
    <3>1. CASE i = n + 1
      BY <2>1, <3>1
    <3>2. CASE i \in 1..n
      <4>1. e[i] = [prefix |-> seen[i], value |-> Table[seen[i]]] /\ i # n + 1
        BY <2>1, <3>2
      <4>. HIDE DEF e, s
      <4>. QED BY <2>1, <3>2, <4>1
    <3>. QED BY <2>4, <3>1, <3>2
  <2>7. \A i \in 1..n : seen[i] \in Keys
    BY <1>9 DEF Drawn
  <2>8. \A i, j \in 1..n : seen[i] = seen[j] => i = j
    BY <1>9 DEF Drawn
  <2>. HIDE DEF n, x, e, s, d
  <2>9. d = [i \in 1..Len(s) |-> [prefix |-> s[i], value |-> Table[s[i]]]]
    BY <2>1, <2>2, <2>6
  <2>10. \A i \in 1..Len(s) : s[i] \in Keys
    BY <1>3, <2>1, <2>4, <2>7
  <2>11. \A i, j \in 1..Len(s) : s[i] = s[j] => i = j
    BY <1>3, <2>1, <2>3, <2>4, <2>8
  <2>12. Drawn'
    BY <1>8, <2>5, <2>9, <2>10, <2>11 DEF Drawn
  <2>. QED BY <1>6, <1>9, <2>12 DEF Now
<1>11. Standing(g)'
  BY <1>1, <1>6, <1>7, <1>8, <1>9, <1>10 DEF Standing
<1>12. Leads(script, g, k)'
  BY <1>6, <1>7
<1>. QED
  BY <1>8, <1>11, <1>12 DEF TestInv

(* The iterator has ended: what was drained are the entries of the table.  *)
LEMMA DrainEndInv ==
  ASSUME TestInv, DrainStep, End
  PROVE  TestInv'
<1>1. /\ cursor = "asked" /\ cursor' = "ready" /\ frames = <<>> /\ item' = None
      /\ seen' = seen /\ UNCHANGED vars
  BY DEF End
<1>2. drained' = drained /\ script' = Tail(script) /\ kept' = kept
  BY <1>1 DEF DrainStep
<1>3. Now("drain") /\ script # <<>> /\ Head(script).do = "drain"
  BY <1>1 DEF TestInv, Standing, Now
<1>4. PICK g, h, k : /\ Standing(g) /\ Does(Head(script), g, h)
                     /\ Leads(Tail(script), h, k)
  BY <1>3, NextStep
<1>5. IsTable(g.tab) /\ h = Stage(g.tab, g.tab, g.kept)
  BY <1>3, <1>4, CallStepDoes
<1>6. Drawn /\ Phase = "idle" /\ Table = g.tab /\ g.kept = kept
  BY <1>1, <1>3, <1>4 DEF Standing, Phase
<1>7. IterInv' /\ Table' = Table /\ Phase' = Phase /\ Keys' = Keys
  BY <1>1, DrainKept DEF DrainStep
<1>8. Drawn'
  BY <1>1, <1>2, <1>6, <1>7 DEF Drawn
<1>9. Enumerates(drained, Table)
  <2>. DEFINE n == Len(seen)
  <2>1. n \in Nat /\ DOMAIN seen = 1..n
    BY DEF TestInv, IterInv, IterTyped
  <2>2. /\ drained = [i \in 1..n |-> [prefix |-> seen[i], value |-> Table[seen[i]]]]
        /\ \A i \in 1..n : seen[i] \in DOMAIN Table
        /\ \A i, j \in 1..n : seen[i] = seen[j] => i = j
    BY <1>6 DEF Drawn, Table
  <2>3. \A q \in DOMAIN Table : \E i \in 1..n : seen[i] = q
    <3>1. DOMAIN frames = {}
      BY <1>1
    <3>2. \A q \in Keys : q \in Range(seen)
      BY <1>1, <3>1 DEF TestInv, IterInv, LeftAhead
    <3>. QED BY <2>1, <3>2 DEF Range, Table
  <2>. HIDE DEF n
  <2>4. \A i \in 1..n : /\ drained[i] = [prefix |-> seen[i], value |-> Table[seen[i]]]
                        /\ drained[i].prefix = seen[i] /\ drained[i].value = Table[seen[i]]
    BY <2>2
  <2>5. \A q \in DOMAIN Table : q \in Nets /\ masked(q) = q /\ Table[q] \in Value
    BY <1>5, <1>6 DEF IsTable
  <2>6. \A i \in 1..n : drained[i] \in Op
    BY <2>2, <2>4, <2>5 DEF Op
  <2>7. drained = [i \in 1..n |-> drained[i]]
    BY <2>2
  <2>8. drained \in Seq(Op) /\ Len(drained) = n
    BY <2>1, <2>6, <2>7
  <2>9. Table = [q \in DOMAIN Table |-> Table[q]]
    BY <1>5, <1>6 DEF IsTable
  <2>. QED BY <2>2, <2>3, <2>4, <2>5, <2>8, <2>9 DEF Enumerates
<1>10. Standing(h)'
  BY <1>1, <1>2, <1>5, <1>6, <1>7, <1>8, <1>9 DEF Standing, Stage
<1>11. Leads(script, h, k)'
  BY <1>2, <1>4
<1>. QED
  BY <1>7, <1>10, <1>11 DEF TestInv

(* Every step of a test leads on along its script.                         *)
LEMMA TestNextInv ==
  ASSUME TestInv, [TestNext]_allVars
  PROVE  TestInv'
<1>1. CASE UNCHANGED allVars
  <2>1. UNCHANGED <<vars, iterVars, testVars>>
    BY <1>1 DEF allVars
  <2>2. PICK g, k : Standing(g) /\ Leads(script, g, k)
    BY DEF TestInv
  <2>3. IterInv'
    BY <2>1, IterNextInv DEF TestInv
  <2>4. /\ Table' = Table /\ Phase' = Phase /\ Keys' = Keys /\ req' = req /\ reply' = reply
        /\ script' = script /\ kept' = kept /\ drained' = drained
        /\ cursor' = cursor /\ seen' = seen
    <3>1. /\ heap' = heap /\ pc' = pc /\ req' = req /\ reply' = reply
          /\ script' = script /\ kept' = kept /\ drained' = drained
          /\ cursor' = cursor /\ seen' = seen
      BY <2>1 DEF vars, iterVars, testVars
    <3>. QED BY <3>1, TableOfHeap DEF Phase
  <2>5. (Now("drain")' <=> Now("drain")) /\ (Drawn' <=> Drawn)
    BY <2>4 DEF Now, Drawn
  <2>6. Standing(g)'
    BY <2>2, <2>4, <2>5 DEF Standing
  <2>7. Leads(script, g, k)'
    BY <2>2, <2>4
  <2>. QED BY <2>3, <2>6, <2>7 DEF TestInv
<1>2. CASE DrainStep
  BY <1>2, DrainYieldInv, DrainMoveInv, DrainEndInv DEF DrainStep, IterStep
<1>. QED
  BY <1>1, <1>2, MakeCallInv, RunCallInv, TakeAnswerInv, MakeLaterInv, MakeFreshInv,
     DrainOpenInv, DrainNextInv, DrainCloseInv DEF TestNext, Passed
------------------------------------------------------------------------------
(* A table with one more entry, or with one less.                          *)
With(t, p, v) == [q \in DOMAIN t \cup {p} |-> IF q = p THEN v ELSE t[q]]
Lacking(t, p) == [q \in DOMAIN t \ {p} |-> t[q]]
One(p, v)     == With(EmptyTable, p, v)

(* An insert leads to the table with the entry.                            *)
LEMMA InsLeads ==
  ASSUME NEW p \in Nets, NEW v \in Value, NEW t, NEW d, NEW k
  PROVE  Leads(Do(Ins(p, v)), Stage(t, d, k), Stage(With(t, masked(p), v), d, k))
<1>. DEFINE r == Ins(p, v)
            g == Stage(t, d, k)
            h == Stage(With(t, masked(p), v), d, k)
<1>1. /\ r \in Request /\ r.op = "insert" /\ r.prefix = p /\ r.value = v
      /\ g.tab = t /\ g.dtab = d /\ g.kept = k
  BY DEF Ins, Request, Stage
<1>2. h = Stage(With(t, masked(p), v), d, k)
  OBVIOUS
<1>. HIDE DEF r, g, h
<1>3. Effect(r, t) = With(t, masked(p), v)
  <2>1. r.op = "insert" =>
          Effect(r, t) = [q \in DOMAIN t \cup {masked(r.prefix)} |->
                            IF q = masked(r.prefix) THEN r.value ELSE t[q]]
    BY EffectIs
  <2>. QED BY <1>1, <2>1 DEF With
<1>4. CallDoes(Made(r), g, h)
  BY <1>1, <1>2, <1>3 DEF CallDoes, Made, CallSteps
<1>5. Leads(<<Made(r)>>, g, h)
  BY <1>4, LeadsOne DEF Does
<1>. QED
  BY <1>5 DEF Do, r, g, h

(* A remove, asserted or not, leads to the table without it.               *)
LEMMA RemoveLeads ==
  ASSUME NEW p \in Nets, NEW t, NEW d, NEW k
  PROVE  /\ Leads(Do(On("remove", p)), Stage(t, d, k), Stage(Lacking(t, masked(p)), d, k))
         /\ \A v : masked(p) \in DOMAIN t /\ t[masked(p)] = v =>
              Leads(Expect(On("remove", p), v), Stage(t, d, k),
                    Stage(Lacking(t, masked(p)), d, k))
<1>. DEFINE r == On("remove", p)
            g == Stage(t, d, k)
            h == Stage(Lacking(t, masked(p)), d, k)
<1>1. /\ r \in Request /\ r.op = "remove" /\ r.prefix = p
      /\ g.tab = t /\ g.dtab = d /\ g.kept = k
  BY DEF On, Request, Stage, PrefixOps
<1>2. h = Stage(Lacking(t, masked(p)), d, k)
  OBVIOUS
<1>. HIDE DEF r, g, h
<1>3. Effect(r, t) = Lacking(t, masked(p))
  <2>1. r.op = "remove" => Effect(r, t) = [q \in DOMAIN t \ {masked(r.prefix)} |-> t[q]]
    BY EffectIs
  <2>. QED BY <1>1, <2>1 DEF Lacking
<1>4. Leads(<<Made(r)>>, g, h)
  <2>1. CallDoes(Made(r), g, h)
    BY <1>1, <1>2, <1>3 DEF CallDoes, Made, CallSteps
  <2>. QED BY <2>1, LeadsOne DEF Does
<1>5. ASSUME NEW v, masked(p) \in DOMAIN t, t[masked(p)] = v
      PROVE  Leads(<<Asserted(r, v)>>, g, h)
  <2>1. Answer(r, t) = IF masked(r.prefix) \in DOMAIN t THEN t[masked(r.prefix)] ELSE None
    BY <1>1, AnswerIs
  <2>2. Answer(r, t) = v
    BY <1>1, <1>5, <2>1
  <2>3. CallDoes(Asserted(r, v), g, h)
    BY <1>1, <1>2, <1>3, <2>2 DEF CallDoes, Asserted, CallSteps, Telling
  <2>. QED BY <2>3, LeadsOne DEF Does
<1>. QED
  BY <1>4, <1>5 DEF Do, Expect, r, g, h

(* A call that only looks, asserted or kept.                               *)
Reads(r) == r \in Request /\ r.op \notin {"insert", "remove", "clear"}

LEMMA ReadLeads ==
  ASSUME NEW r, Reads(r), NEW t, NEW d, NEW k
  PROVE  /\ Leads(Expect(r, Answer(r, t)), Stage(t, d, k), Stage(t, d, k))
         /\ Leads(Keep(r), Stage(t, d, k), Stage(t, d, Answer(r, t)))
<1>. DEFINE g == Stage(t, d, k)
            h == Stage(t, d, Answer(r, t))
            x == Asserted(r, Answer(r, t))
            y == [do |-> "keep", req |-> r]
<1>1. Effect(r, t) = t /\ Telling(r) /\ r \in Request
  BY EffectIs DEF Reads, Telling
<1>2. CallDoes(x, g, g)
  BY <1>1 DEF CallDoes, Asserted, CallSteps, Stage
<1>3. CallDoes(y, g, h)
  BY <1>1 DEF CallDoes, CallSteps, Stage
<1>. HIDE DEF g, h, x, y
<1>4. Leads(<<x>>, g, g) /\ Leads(<<y>>, g, h)
  BY <1>2, <1>3, LeadsOne DEF Does
<1>. QED
  BY <1>4 DEF Expect, Keep, g, h, x, y

(* Draining an iterator, and going on with a new RouteMap.                 *)
LEMMA DrainLeads ==
  ASSUME NEW t, IsTable(t), NEW d, NEW k
  PROVE  Leads(Drain, Stage(t, d, k), Stage(t, t, k))
<1>. DEFINE x == [do |-> "drain"]
<1>1. Does(x, Stage(t, d, k), Stage(t, t, k))
  BY DEF Does, Stage
<1>. HIDE DEF x
<1>2. Leads(<<x>>, Stage(t, d, k), Stage(t, t, k))
  BY <1>1, LeadsOne
<1>. QED
  BY <1>2 DEF Drain, x

LEMMA FreshLeads ==
  ASSUME NEW t, NEW d, NEW k
  PROVE  Leads(Fresh, Stage(t, d, k), Stage(EmptyTable, d, k))
<1>. DEFINE x == [do |-> "fresh"]
<1>1. Does(x, Stage(t, d, k), Stage(EmptyTable, d, k))
  BY DEF Does, Stage
<1>. HIDE DEF x
<1>2. Leads(<<x>>, Stage(t, d, k), Stage(EmptyTable, d, k))
  BY <1>1, LeadsOne
<1>. QED
  BY <1>2 DEF Fresh, x

LEMMA LaterLeads ==
  ASSUME NEW what, NEW g, NEW h, LaterDoes([do |-> "later", what |-> what], g, h)
  PROVE  Leads(Later(what), g, h)
<1>. DEFINE x == [do |-> "later", what |-> what]
<1>1. Does(x, g, h)
  BY DEF Does
<1>. HIDE DEF x
<1>2. Leads(<<x>>, g, h)
  BY <1>1, LeadsOne
<1>. QED
  BY <1>2 DEF Later, x
------------------------------------------------------------------------------
(* The inputs are what clients may pass.                                   *)
LEMMA InputFacts ==
  ASSUME NEW p \in AnyPrefix
  PROVE  /\ p \in IpPrefix /\ masked(p) \in IpPrefix /\ masked(p).mask = p.mask
         /\ p \in Nets /\ masked(p) \in Nets
         /\ p.ip \in Addrs /\ masked(p).ip \in Addrs
         /\ masked(masked(p)) = masked(p)
         /\ network(p.ip, p.mask) = masked(p).ip
         /\ Covers(masked(p), masked(p).ip)
<1>1. p \in IpPrefix /\ p = [ip |-> p.ip, mask |-> p.mask]
  BY IpsAssumption DEF AnyPrefix, IpPrefix
<1>2. masked(p) \in IpPrefix /\ masked(p).mask = p.mask /\ masked(masked(p)) = masked(p)
  BY <1>1, MaskedType, MaskedTwice
<1>3. p \in Nets /\ masked(p) \in Nets
  BY TestNetsAssumption
<1>4. p.ip \in Addrs /\ masked(p).ip \in Addrs
  BY TestAddrsAssumption
<1>5. network(p.ip, p.mask) = masked(p).ip
  BY <1>1 DEF network
<1>. QED
  BY <1>1, <1>2, <1>3, <1>4, <1>5 DEF Covers

LEMMA PrefixInput ==
  ASSUME NEW base \in Ips, NEW l \in 0..BITS
  PROVE  [ip |-> base, mask |-> l] \in AnyPrefix
BY DEF AnyPrefix

LEMMA IpIsInput ==
  ASSUME NEW a \in Ips
  PROVE  a \in Address /\ a \in Addrs
<1>1. 0 \in 0..BITS
  BY BitsType
<1>2. [ip |-> a, mask |-> 0] \in AnyPrefix
  BY <1>1, PrefixInput
<1>. QED
  BY <1>2, TestAddrsAssumption, IpsAssumption

(* A Vec of ops is a sequence of operations a client may make.             *)
LEMMA OpVecsType ==
  ASSUME NEW ops \in OpVecs
  PROVE  ops \in Seq(Op)
<1>1. PICK m \in 0..MaxOps : ops \in [1..m -> [prefix : OpNets, value : Value]]
  BY DEF OpVecs, SeqOf
<1>2. m \in Nat
  BY <1>1, MaxOpsAssumption
<1>3. \A i \in 1..m : ops[i] \in Op
  <2>. SUFFICES ASSUME NEW i \in 1..m PROVE ops[i] \in Op
    OBVIOUS
  <2>1. ops[i] \in [prefix : OpNets, value : Value]
    BY <1>1
  <2>2. ops[i].prefix \in Nets /\ masked(ops[i].prefix) \in Nets
    BY <2>1, TestNetsAssumption
  <2>. QED BY <2>1, <2>2 DEF Op
<1>4. ops \in [1..m -> Op]
  BY <1>1, <1>3
<1>. QED
  BY <1>2, <1>4
------------------------------------------------------------------------------
(* Tables of one and of two entries.                                       *)
LEMMA OneFacts ==
  ASSUME NEW p, NEW v
  PROVE  /\ DOMAIN One(p, v) = {p} /\ One(p, v)[p] = v
         /\ One(p, v) = [q \in {p} |-> v]
         /\ Cardinality(DOMAIN One(p, v)) = 1
         /\ Lacking(One(p, v), p) = EmptyTable
         /\ \A w : With(One(p, v), p, w) = One(p, w)
<1>1. One(p, v) = [q \in {p} |-> v]
  BY DEF One, With, EmptyTable
<1>2. DOMAIN One(p, v) = {p} /\ One(p, v)[p] = v
  BY <1>1
<1>3. Cardinality(DOMAIN One(p, v)) = 1
  BY <1>2, FS_Singleton
<1>4. Lacking(One(p, v), p) = EmptyTable
  BY <1>2 DEF Lacking, EmptyTable
<1>5. ASSUME NEW w
      PROVE  With(One(p, v), p, w) = One(p, w)
  <2>1. One(p, w) = [q \in {p} |-> w]
    BY DEF One, With, EmptyTable
  <2>. QED BY <1>2, <2>1 DEF With
<1>. QED
  BY <1>1, <1>2, <1>3, <1>4, <1>5

LEMMA OneTable ==
  ASSUME NEW p \in Nets, masked(p) = p, NEW v \in Value
  PROVE  IsTable(One(p, v))
<1>. DEFINE t == One(p, v)
<1>1. DOMAIN t = {p} /\ t[p] = v /\ t = [q \in {p} |-> v]
  BY OneFacts
<1>. HIDE DEF t
<1>2. t = [q \in DOMAIN t |-> t[q]] /\ \A q \in DOMAIN t : q = p
  BY <1>1
<1>. QED
  BY <1>1, <1>2 DEF IsTable, t

LEMMA EmptyFacts ==
  /\ DOMAIN EmptyTable = {} /\ IsTable(EmptyTable)
  /\ Cardinality(DOMAIN EmptyTable) = 0
BY FS_EmptySet DEF EmptyTable, IsTable

LEMMA TwoLacking ==
  ASSUME NEW p, NEW v, NEW q, NEW w, p # q
  PROVE  Lacking(With(One(p, v), q, w), q) = One(p, v)
<1>. DEFINE t == With(One(p, v), q, w)
<1>1. DOMAIN One(p, v) = {p} /\ One(p, v)[p] = v /\ One(p, v) = [x \in {p} |-> v]
  BY OneFacts
<1>2. DOMAIN t = {p, q} /\ t[p] = v
  BY <1>1 DEF With
<1>. HIDE DEF t
<1>3. Lacking(t, q) = [x \in {p} |-> t[x]]
  BY <1>2 DEF Lacking
<1>4. \A x \in {p} : t[x] = v
  BY <1>2
<1>. QED
  BY <1>1, <1>3, <1>4 DEF t

(* What a lookup finds in them.                                            *)
LEMMA OneMatch ==
  ASSUME NEW p \in IpPrefix, NEW v, NEW a
  PROVE  /\ Covers(p, a) => LongestMatch(One(p, v), a) = [prefix |-> p, value |-> v]
         /\ ~Covers(p, a) => LongestMatch(One(p, v), a) = None
<1>. DEFINE t == One(p, v)
<1>1. DOMAIN t = {p} /\ t[p] = v
  BY OneFacts
<1>. HIDE DEF t
<1>4. p.mask \in Nat
  BY DEF IpPrefix
<1>2. CASE Covers(p, a)
  <2>1. Matches(t, a) = {p}
    BY <1>1, <1>2 DEF Matches
  <2>2. LongestMatch(t, a) = [prefix |-> p, value |-> t[p]]
    BY <1>4, <2>1, LongestIs
  <2>. QED BY <1>1, <1>2, <2>2 DEF t
<1>3. CASE ~Covers(p, a)
  <2>1. Matches(t, a) = {}
    BY <1>1, <1>3 DEF Matches
  <2>. QED BY <1>3, <2>1 DEF LongestMatch, t
<1>. QED
  BY <1>2, <1>3

LEMMA TwoMatch ==
  ASSUME NEW p \in IpPrefix, NEW v, NEW q \in IpPrefix, NEW w, NEW a,
         p.mask < q.mask, Covers(q, a)
  PROVE  LongestMatch(With(One(p, v), q, w), a) = [prefix |-> q, value |-> w]
<1>. DEFINE t == With(One(p, v), q, w)
<1>1. p.mask \in Nat /\ q.mask \in Nat /\ p # q
  BY DEF IpPrefix
<1>2. DOMAIN t = {p, q} /\ t[q] = w
  <2>1. DOMAIN One(p, v) = {p}
    BY OneFacts
  <2>. QED BY <2>1 DEF With
<1>. HIDE DEF t
<1>3. q \in Matches(t, a) /\ Matches(t, a) \subseteq {p, q}
  BY <1>2 DEF Matches
<1>4. \A x \in Matches(t, a) : x.mask \in Nat /\ x.mask <= q.mask
  BY <1>1, <1>3
<1>5. \A x \in Matches(t, a) : x.mask = q.mask => x = q
  BY <1>1, <1>3
<1>6. LongestMatch(t, a) = [prefix |-> q, value |-> t[q]]
  BY <1>3, <1>4, <1>5, LongestIs
<1>. QED
  BY <1>2, <1>6 DEF t

(* A lookup finds nothing, or an entry of the table.                       *)
LEMMA EntryFound ==
  ASSUME NEW t, IsTable(t), NEW a
  PROVE  \/ LongestMatch(t, a) = None
         \/ \E p \in DOMAIN t : LongestMatch(t, a) = [prefix |-> p, value |-> t[p]]
<1>. DEFINE M == Matches(t, a)
            S == {p.mask + 1 : p \in M}
<1>1. \A p \in M : p \in DOMAIN t /\ p.mask \in 0..BITS
  BY NetsAssumption DEF IsTable, Matches, IpPrefix
<1>2. CASE M = {}
  BY <1>2 DEF LongestMatch
<1>3. CASE M # {}
  <2>1. BITS + 1 \in Nat /\ S \in SUBSET (1..(BITS + 1)) /\ S # {}
    BY <1>1, <1>3, BitsType
  <2>2. PICK n \in S : \A k \in S : k <= n
    <3>. HIDE DEF S
    <3>. QED BY <2>1, GreatestIndex
  <2>3. PICK q \in M : n = q.mask + 1
    BY <2>2
  <2>4. \A p \in M : p.mask <= q.mask
    <3>1. \A p \in M : p.mask + 1 \in S
      OBVIOUS
    <3>. HIDE DEF M, S
    <3>2. \A p \in M : p.mask \in Int /\ p.mask + 1 <= q.mask + 1
      BY <1>1, <2>2, <2>3, <3>1
    <3>. QED BY <2>3, <3>2
  <2>. DEFINE x == CHOOSE p \in M : IsLongest(p, M)
  <2>5. IsLongest(q, M)
    BY <2>3, <2>4 DEF IsLongest
  <2>6. x \in M
    BY <2>5
  <2>7. LongestMatch(t, a) = [prefix |-> x, value |-> t[x]]
    BY <1>3 DEF LongestMatch
  <2>. HIDE DEF x
  <2>. QED BY <1>1, <2>6, <2>7
<1>. QED
  BY <1>2, <1>3

(* An entry is Some(entry).                                                *)
LEMMA EntryIsSome ==
  ASSUME NEW p \in IpPrefix, NEW v \in Value
  PROVE  [prefix |-> p, value |-> v] # None
BY SomeAssumption
------------------------------------------------------------------------------
(* The answers that look at a table.                                       *)
LEMMA ReadsFacts ==
  ASSUME NEW p \in Nets, NEW a \in Addrs, NEW t, NEW d, NEW k
  PROVE  /\ Leads(Expect(On("get", p), IF masked(p) \in DOMAIN t THEN t[masked(p)] ELSE None),
                  Stage(t, d, k), Stage(t, d, k))
         /\ Leads(Expect(On("contains", p), masked(p) \in DOMAIN t),
                  Stage(t, d, k), Stage(t, d, k))
         /\ \A op \in LookupOps :
              /\ Leads(Expect(Look(op, a), LookupReply(op, LongestMatch(t, a))),
                       Stage(t, d, k), Stage(t, d, k))
              /\ Leads(Keep(Look(op, a)),
                       Stage(t, d, k), Stage(t, d, LookupReply(op, LongestMatch(t, a))))
<1>1. Leads(Expect(On("get", p), IF masked(p) \in DOMAIN t THEN t[masked(p)] ELSE None),
            Stage(t, d, k), Stage(t, d, k))
  <2>. DEFINE r == On("get", p)
  <2>1. Reads(r) /\ r.op = "get" /\ r.prefix = p
    BY DEF On, Reads, Request, PrefixOps
  <2>. HIDE DEF r
  <2>2. r.op \in {"remove", "get"} =>
          Answer(r, t) = IF masked(r.prefix) \in DOMAIN t THEN t[masked(r.prefix)] ELSE None
    BY AnswerIs
  <2>3. Answer(r, t) = IF masked(p) \in DOMAIN t THEN t[masked(p)] ELSE None
    BY <2>1, <2>2
  <2>4. Leads(Expect(r, Answer(r, t)), Stage(t, d, k), Stage(t, d, k))
    BY <2>1, ReadLeads
  <2>. QED BY <2>3, <2>4 DEF r
<1>2. Leads(Expect(On("contains", p), masked(p) \in DOMAIN t), Stage(t, d, k), Stage(t, d, k))
  <2>. DEFINE r == On("contains", p)
  <2>1. Reads(r) /\ r.op = "contains" /\ r.prefix = p
    BY DEF On, Reads, Request, PrefixOps
  <2>. HIDE DEF r
  <2>2. r.op = "contains" => Answer(r, t) = (masked(r.prefix) \in DOMAIN t)
    BY AnswerIs
  <2>3. Answer(r, t) = (masked(p) \in DOMAIN t)
    BY <2>1, <2>2
  <2>4. Leads(Expect(r, Answer(r, t)), Stage(t, d, k), Stage(t, d, k))
    BY <2>1, ReadLeads
  <2>. QED BY <2>3, <2>4 DEF r
<1>3. ASSUME NEW op \in LookupOps
      PROVE  /\ Leads(Expect(Look(op, a), LookupReply(op, LongestMatch(t, a))),
                      Stage(t, d, k), Stage(t, d, k))
             /\ Leads(Keep(Look(op, a)),
                      Stage(t, d, k), Stage(t, d, LookupReply(op, LongestMatch(t, a))))
  <2>. DEFINE r == Look(op, a)
  <2>1. Reads(r) /\ r.op = op /\ r.addr = a
    BY DEF Look, Reads, Request, LookupOps
  <2>. HIDE DEF r
  <2>2. r.op \in LookupOps => Answer(r, t) = LookupReply(r.op, LongestMatch(t, r.addr))
    BY AnswerIs
  <2>3. Answer(r, t) = LookupReply(op, LongestMatch(t, a))
    BY <2>1, <2>2
  <2>4. /\ Leads(Expect(r, Answer(r, t)), Stage(t, d, k), Stage(t, d, k))
        /\ Leads(Keep(r), Stage(t, d, k), Stage(t, d, Answer(r, t)))
    BY <2>1, ReadLeads
  <2>. QED BY <2>3, <2>4 DEF r
<1>. QED
  BY <1>1, <1>2, <1>3

LEMMA SizeFacts ==
  ASSUME NEW t, NEW d, NEW k
  PROVE  /\ Leads(Expect(Plain("len"), Cardinality(DOMAIN t)), Stage(t, d, k), Stage(t, d, k))
         /\ Leads(Keep(Plain("len")), Stage(t, d, k), Stage(t, d, Cardinality(DOMAIN t)))
         /\ Leads(Expect(Plain("is_empty"), DOMAIN t = {}), Stage(t, d, k), Stage(t, d, k))
         /\ Leads(Do(Plain("clear")), Stage(t, d, k), Stage(EmptyTable, d, k))
<1>1. /\ Leads(Expect(Plain("len"), Cardinality(DOMAIN t)), Stage(t, d, k), Stage(t, d, k))
      /\ Leads(Keep(Plain("len")), Stage(t, d, k), Stage(t, d, Cardinality(DOMAIN t)))
  <2>. DEFINE r == Plain("len")
  <2>1. Reads(r) /\ r.op = "len"
    BY DEF Plain, Reads, Request, PlainOps
  <2>. HIDE DEF r
  <2>2. Answer(r, t) = Cardinality(DOMAIN t)
    BY <2>1, AnswerIs
  <2>3. /\ Leads(Expect(r, Answer(r, t)), Stage(t, d, k), Stage(t, d, k))
        /\ Leads(Keep(r), Stage(t, d, k), Stage(t, d, Answer(r, t)))
    BY <2>1, ReadLeads
  <2>. QED BY <2>2, <2>3 DEF r
<1>2. Leads(Expect(Plain("is_empty"), DOMAIN t = {}), Stage(t, d, k), Stage(t, d, k))
  <2>. DEFINE r == Plain("is_empty")
  <2>1. Reads(r) /\ r.op = "is_empty"
    BY DEF Plain, Reads, Request, PlainOps
  <2>. HIDE DEF r
  <2>2. r.op = "is_empty" => Answer(r, t) = (DOMAIN t = {})
    BY AnswerIs
  <2>3. Leads(Expect(r, Answer(r, t)), Stage(t, d, k), Stage(t, d, k))
    BY <2>1, ReadLeads
  <2>4. Answer(r, t) = (DOMAIN t = {})
    BY <2>1, <2>2
  <2>. QED BY <2>3, <2>4 DEF r
<1>3. Leads(Do(Plain("clear")), Stage(t, d, k), Stage(EmptyTable, d, k))
  <2>. DEFINE r == Plain("clear")
              x == Made(r)
  <2>1. r \in Request /\ r.op = "clear"
    BY DEF Plain, Request, PlainOps
  <2>. HIDE DEF r
  <2>2. Effect(r, t) = EmptyTable
    BY <2>1, EffectIs
  <2>3. CallDoes(x, Stage(t, d, k), Stage(EmptyTable, d, k))
    BY <2>1, <2>2 DEF CallDoes, Made, CallSteps, Stage
  <2>. HIDE DEF x
  <2>4. Leads(<<x>>, Stage(t, d, k), Stage(EmptyTable, d, k))
    BY <2>3, LeadsOne DEF Does
  <2>. QED BY <2>4 DEF Do, x, r
<1>. QED
  BY <1>1, <1>2, <1>3

(* The first insert of a test.                                             *)
LEMMA FirstInsert ==
  ASSUME NEW p \in Nets, NEW v \in Value, NEW d, NEW k
  PROVE  Leads(Do(Ins(p, v)), Stage(EmptyTable, d, k), Stage(One(masked(p), v), d, k))
BY InsLeads DEF One
------------------------------------------------------------------------------
(* A test whose script leads from its start to an end.                     *)
Passes(s) == \E h : Leads(s, Start, h)

(* The tests over one prefix.                                              *)
LEMMA OnePrefixPasses ==
  ASSUME NEW p \in AnyPrefix, NEW v \in Value, NEW w \in Value
  PROVE  /\ Passes(insert_implies_contains_and_get(p, v))
         /\ Passes(insert_longest_match_hits_network_addr(p, v))
         /\ Passes(overwrite_preserves_len_and_updates_value(p, v, w))
         /\ Passes(unmasked_insert_equals_masked_insert(p, v))
         /\ Passes(remove_clears_entry(p, v))
         /\ Passes(entry_hits_own_network_with_prefix(p, v))
<1>. DEFINE q == masked(p)
            E == EmptyTable
            t == One(q, v)
            s == Stage(t, E, None)
<1>1. /\ p \in Nets /\ q \in Nets /\ q \in IpPrefix /\ masked(q) = q
      /\ q.ip \in Addrs /\ network(p.ip, p.mask) = q.ip /\ Covers(q, q.ip)
  BY InputFacts
<1>2. DOMAIN t = {q} /\ t[q] = v /\ Cardinality(DOMAIN t) = 1
  BY OneFacts
<1>. DEFINE ins == Do(Ins(p, v))
<1>3. Leads(ins, Start, s)
  BY <1>1, FirstInsert DEF Start
<1>4. Passes(insert_implies_contains_and_get(p, v))
  <2>. DEFINE x == Expect(On("contains", p), TRUE)
              y == Expect(On("get", p), v)
  <2>1. Leads(x, s, s)
    <3>1. Leads(Expect(On("contains", p), q \in DOMAIN t), s, s)
      BY <1>1, ReadsFacts
    <3>2. (q \in DOMAIN t) = TRUE
      BY <1>2
    <3>. HIDE DEF s, t, q
    <3>. QED BY <3>1, <3>2
  <2>2. Leads(y, s, s)
    <3>1. Leads(Expect(On("get", p), IF q \in DOMAIN t THEN t[q] ELSE None), s, s)
      BY <1>1, ReadsFacts
    <3>2. (IF q \in DOMAIN t THEN t[q] ELSE None) = v
      BY <1>2
    <3>. HIDE DEF s, t, q
    <3>. QED BY <3>1, <3>2
  <2>. HIDE DEF ins, s, x, y
  <2>3. Leads(ins \o x, Start, s)
    BY <1>3, <2>1, LeadsOn
  <2>4. Leads((ins \o x) \o y, Start, s)
    BY <2>2, <2>3, LeadsOn
  <2>. QED BY <2>4 DEF Passes, insert_implies_contains_and_get, ins, x, y
<1>5. \A op \in LookupOps :
        Leads(Expect(Look(op, network(p.ip, p.mask)),
                     LookupReply(op, [prefix |-> q, value |-> v])), s, s)
  <2>1. LongestMatch(t, q.ip) = [prefix |-> q, value |-> v]
    BY <1>1, OneMatch
  <2>2. \A op \in LookupOps :
          Leads(Expect(Look(op, q.ip), LookupReply(op, LongestMatch(t, q.ip))), s, s)
    BY <1>1, ReadsFacts
  <2>. HIDE DEF q, s
  <2>. QED BY <1>1, <2>1, <2>2
<1>6. /\ LookupReply("longest_match", [prefix |-> q, value |-> v]) = v
      /\ LookupReply("longest_match_entry", [prefix |-> q, value |-> v])
           = [prefix |-> q, value |-> v]
  BY <1>1, EntryIsSome DEF LookupReply
<1>7. Passes(insert_longest_match_hits_network_addr(p, v))
  <2>. DEFINE x == Expect(Look("longest_match", network(p.ip, p.mask)), v)
  <2>1. Leads(x, s, s)
    BY <1>5, <1>6 DEF LookupOps
  <2>. HIDE DEF ins, s, x
  <2>2. Leads(ins \o x, Start, s)
    BY <1>3, <2>1, LeadsOn
  <2>. QED BY <2>2 DEF Passes, insert_longest_match_hits_network_addr, ins, x
<1>8. Passes(entry_hits_own_network_with_prefix(p, v))
  <2>. DEFINE x == Expect(Look("longest_match_entry", network(p.ip, p.mask)),
                          [prefix |-> q, value |-> v])
  <2>1. Leads(x, s, s)
    BY <1>5, <1>6 DEF LookupOps
  <2>. HIDE DEF ins, s, x
  <2>2. Leads(ins \o x, Start, s)
    BY <1>3, <2>1, LeadsOn
  <2>. QED BY <2>2 DEF Passes, entry_hits_own_network_with_prefix, ins, x
<1>9. Passes(overwrite_preserves_len_and_updates_value(p, v, w))
  <2>. DEFINE u == One(q, w)
              z == Stage(u, E, None)
              again == Do(Ins(p, w))
              x == Expect(Plain("len"), 1)
              y == Expect(On("get", p), w)
  <2>1. DOMAIN u = {q} /\ u[q] = w /\ Cardinality(DOMAIN u) = 1
    BY OneFacts
  <2>2. Leads(again, s, z)
    <3>1. Leads(again, s, Stage(With(t, q, w), E, None))
      BY <1>1, InsLeads
    <3>2. \A val : With(t, q, val) = One(q, val)
      BY OneFacts
    <3>. HIDE DEF t
    <3>. QED BY <3>1, <3>2
  <2>3. Leads(x, z, z)
    <3>1. Leads(Expect(Plain("len"), Cardinality(DOMAIN u)), z, z)
      BY SizeFacts
    <3>. QED BY <2>1, <3>1
  <2>4. Leads(y, z, z)
    <3>1. Leads(Expect(On("get", p), IF q \in DOMAIN u THEN u[q] ELSE None), z, z)
      BY <1>1, ReadsFacts
    <3>2. (IF q \in DOMAIN u THEN u[q] ELSE None) = w
      BY <2>1
    <3>. HIDE DEF z, u, q
    <3>. QED BY <3>1, <3>2
  <2>. HIDE DEF ins, s, z, again, x, y
  <2>5. Leads(ins \o again, Start, z)
    BY <1>3, <2>2, LeadsOn
  <2>6. Leads((ins \o again) \o x, Start, z)
    BY <2>3, <2>5, LeadsOn
  <2>7. Leads(((ins \o again) \o x) \o y, Start, z)
    BY <2>4, <2>6, LeadsOn
  <2>. QED BY <2>7 DEF Passes, overwrite_preserves_len_and_updates_value, ins, again, x, y
<1>10. Passes(remove_clears_entry(p, v))
  <2>. DEFINE z == Stage(E, E, None)
              a == Expect(On("remove", p), v)
              b == Expect(On("contains", p), FALSE)
              c == Expect(On("get", p), None)
              e == Expect(Plain("len"), 0)
  <2>1. Leads(a, s, z)
    <3>1. Leads(a, s, Stage(Lacking(t, q), E, None))
      BY <1>1, <1>2, RemoveLeads
    <3>2. Lacking(t, q) = E
      BY OneFacts
    <3>. QED BY <3>1, <3>2
  <2>2. DOMAIN E = {} /\ Cardinality(DOMAIN E) = 0
    BY EmptyFacts
  <2>3. Leads(b, z, z)
    <3>1. Leads(Expect(On("contains", p), q \in DOMAIN E), z, z)
      BY <1>1, ReadsFacts
    <3>2. (q \in DOMAIN E) = FALSE
      BY <2>2
    <3>. HIDE DEF z, E, q
    <3>. QED BY <3>1, <3>2
  <2>4. Leads(c, z, z)
    <3>1. Leads(Expect(On("get", p), IF q \in DOMAIN E THEN E[q] ELSE None), z, z)
      BY <1>1, ReadsFacts
    <3>2. (IF q \in DOMAIN E THEN E[q] ELSE None) = None
      BY <2>2
    <3>. HIDE DEF z, E, q
    <3>. QED BY <3>1, <3>2
  <2>5. Leads(e, z, z)
    <3>1. Leads(Expect(Plain("len"), Cardinality(DOMAIN E)), z, z)
      BY SizeFacts
    <3>. QED BY <2>2, <3>1
  <2>. HIDE DEF ins, s, z, a, b, c, e
  <2>6. Leads(ins \o a, Start, z)
    BY <1>3, <2>1, LeadsOn
  <2>7. Leads((ins \o a) \o b, Start, z)
    BY <2>3, <2>6, LeadsOn
  <2>8. Leads(((ins \o a) \o b) \o c, Start, z)
    BY <2>4, <2>7, LeadsOn
  <2>9. Leads((((ins \o a) \o b) \o c) \o e, Start, z)
    BY <2>5, <2>8, LeadsOn
  <2>. QED BY <2>9 DEF Passes, remove_clears_entry, ins, a, b, c, e
<1>11. Passes(unmasked_insert_equals_masked_insert(p, v))
  <2>. DEFINE g1 == Stage(t, E, 1)
              g2 == Stage(t, t, 1)
              g3 == Stage(E, t, 1)
              a == Keep(Plain("len"))
              b == Drain
              c == Fresh
              e == Do(Ins(q, v))
              x == Later("len is kept")
              y == Later("get drained")
  <2>1. Leads(a, s, g1)
    <3>1. Leads(a, s, Stage(t, E, Cardinality(DOMAIN t)))
      BY SizeFacts
    <3>. QED BY <1>2, <3>1
  <2>2. IsTable(t)
    BY <1>1, OneTable
  <2>3. Leads(b, g1, g2)
    BY <2>2, DrainLeads
  <2>4. Leads(c, g2, g3)
    BY FreshLeads
  <2>5. Leads(e, g3, g2)
    BY <1>1, FirstInsert
  <2>6. Leads(x, g2, g2)
    <3>1. LaterDoes([do |-> "later", what |-> "len is kept"], g2, g2)
      BY <1>2 DEF LaterDoes, Stage
    <3>. QED BY <3>1, LaterLeads
  <2>7. Leads(y, g2, g2)
    <3>1. LaterDoes([do |-> "later", what |-> "get drained"], g2, g2)
      BY <2>2 DEF LaterDoes, Stage
    <3>. QED BY <3>1, LaterLeads
  <2>. HIDE DEF ins, s, g1, g2, g3, a, b, c, e, x, y
  <2>8. Leads((ins \o a) \o b, Start, g2)
    <3>1. Leads(ins \o a, Start, g1)
      BY <1>3, <2>1, LeadsOn
    <3>. QED BY <2>3, <3>1, LeadsOn
  <2>9. Leads((((ins \o a) \o b) \o c) \o e, Start, g2)
    <3>1. Leads(((ins \o a) \o b) \o c, Start, g3)
      BY <2>4, <2>8, LeadsOn
    <3>. QED BY <2>5, <3>1, LeadsOn
  <2>10. Leads((((((ins \o a) \o b) \o c) \o e) \o x) \o y, Start, g2)
    <3>1. Leads(((((ins \o a) \o b) \o c) \o e) \o x, Start, g2)
      BY <2>6, <2>9, LeadsOn
    <3>. QED BY <2>7, <3>1, LeadsOn
  <2>. QED
    BY <2>10 DEF Passes, unmasked_insert_equals_masked_insert, ins, a, b, c, e, x, y
<1>. QED
  BY <1>4, <1>7, <1>8, <1>9, <1>10, <1>11

(* The tests with a broad prefix and a more specific one.                  *)
LEMMA TwoPrefixesPass ==
  ASSUME NEW base \in Ips, NEW bl \in Nested, NEW v \in Value, NEW w \in Value
  PROVE  /\ Passes(more_specific_prefix_wins_lpm(base, bl, v, w))
         /\ Passes(remove_specific_falls_back_to_broad(base, bl, v, w))
         /\ Passes(entry_returns_more_specific_prefix(base, bl, v, w))
<1>. DEFINE broad == [ip |-> base, mask |-> bl[1]]
            specific == [ip |-> base, mask |-> bl[2]]
            p == masked(broad)
            q == masked(specific)
            E == EmptyTable
            t == One(p, v)
            u == With(t, q, w)
            s == Stage(u, E, None)
<1>1. bl[1] \in 0..BITS /\ bl[2] \in 0..BITS /\ bl[1] < bl[2]
  BY BitsType DEF Nested
<1>2. broad \in AnyPrefix /\ specific \in AnyPrefix
  BY <1>1, PrefixInput
<1>3. /\ broad \in Nets /\ p \in IpPrefix /\ p.mask = bl[1]
      /\ specific \in Nets /\ q \in IpPrefix /\ q.mask = bl[2]
      /\ q.ip \in Addrs /\ Covers(q, q.ip)
  BY <1>2, InputFacts
<1>4. network(base, bl[2]) = q.ip /\ q = [ip |-> q.ip, mask |-> bl[2]]
  BY DEF network, masked
<1>5. Covers(p, q.ip)
  <2>1. /\ \A i \in 1..BITS : p.ip[i] = IF i <= bl[1] THEN base[i] ELSE 0
        /\ \A i \in 1..BITS : q.ip[i] = IF i <= bl[2] THEN base[i] ELSE 0
    BY DEF masked
  <2>. HIDE DEF p, q
  <2>2. \A i \in 1..bl[1] : i \in 1..BITS /\ i <= bl[1] /\ i <= bl[2]
    BY <1>1, BitsType
  <2>. QED BY <1>3, <2>1, <2>2 DEF Covers
<1>6. Leads(BroadAndSpecific(base, bl, v, w), Start, s)
  <2>. DEFINE a == Do(Ins(broad, v))
              b == Do(Ins(specific, w))
  <2>1. Leads(a, Start, Stage(t, E, None))
    BY <1>3, FirstInsert DEF Start
  <2>2. Leads(b, Stage(t, E, None), s)
    BY <1>3, InsLeads
  <2>3. BroadAndSpecific(base, bl, v, w) = a \o b
    BY DEF BroadAndSpecific
  <2>. HIDE DEF s, a, b
  <2>. QED BY <2>1, <2>2, <2>3, LeadsOn
<1>7. LongestMatch(u, q.ip) = [prefix |-> q, value |-> w]
  BY <1>1, <1>3, TwoMatch
<1>8. \A op \in LookupOps :
        Leads(Expect(Look(op, q.ip), LookupReply(op, [prefix |-> q, value |-> w])), s, s)
  <2>1. \A op \in LookupOps :
          Leads(Expect(Look(op, q.ip), LookupReply(op, LongestMatch(u, q.ip))), s, s)
    BY <1>3, ReadsFacts
  <2>. HIDE DEF q, s, u
  <2>. QED BY <1>7, <2>1
<1>9. /\ LookupReply("longest_match", [prefix |-> q, value |-> w]) = w
      /\ LookupReply("longest_match_entry", [prefix |-> q, value |-> w])
           = [prefix |-> q, value |-> w]
      /\ LookupReply("longest_match", [prefix |-> p, value |-> v]) = v
  BY <1>3, EntryIsSome DEF LookupReply
<1>. DEFINE both == BroadAndSpecific(base, bl, v, w)
<1>10. Passes(more_specific_prefix_wins_lpm(base, bl, v, w))
  <2>. DEFINE x == Expect(Look("longest_match", q.ip), w)
  <2>1. Leads(x, s, s)
    BY <1>8, <1>9 DEF LookupOps
  <2>2. more_specific_prefix_wins_lpm(base, bl, v, w) = both \o x
    BY <1>4 DEF more_specific_prefix_wins_lpm
  <2>. HIDE DEF both, s, x
  <2>3. Leads(both \o x, Start, s)
    BY <1>6, <2>1, LeadsOn DEF both
  <2>. QED BY <2>2, <2>3 DEF Passes
<1>11. Passes(entry_returns_more_specific_prefix(base, bl, v, w))
  <2>. DEFINE x == Expect(Look("longest_match_entry", q.ip), [prefix |-> q, value |-> w])
  <2>1. Leads(x, s, s)
    BY <1>8, <1>9 DEF LookupOps
  <2>2. entry_returns_more_specific_prefix(base, bl, v, w) = both \o x
    <3>. HIDE DEF q
    <3>. QED BY <1>4 DEF entry_returns_more_specific_prefix
  <2>. HIDE DEF both, s, x
  <2>3. Leads(both \o x, Start, s)
    BY <1>6, <2>1, LeadsOn DEF both
  <2>. QED BY <2>2, <2>3 DEF Passes
<1>12. Passes(remove_specific_falls_back_to_broad(base, bl, v, w))
  <2>. DEFINE z == Stage(t, E, None)
              a == Do(On("remove", specific))
              x == Expect(Look("longest_match", q.ip), v)
  <2>1. Leads(a, s, z)
    <3>1. Leads(a, s, Stage(Lacking(u, q), E, None))
      BY <1>3, RemoveLeads
    <3>2. p # q
      BY <1>1, <1>3
    <3>3. Lacking(u, q) = t
      BY <3>2, TwoLacking
    <3>. HIDE DEF u
    <3>. QED BY <3>1, <3>3
  <2>2. Leads(x, z, z)
    <3>1. LongestMatch(t, q.ip) = [prefix |-> p, value |-> v]
      BY <1>3, <1>5, OneMatch
    <3>2. Leads(Expect(Look("longest_match", q.ip),
                       LookupReply("longest_match", LongestMatch(t, q.ip))), z, z)
      BY <1>3, ReadsFacts DEF LookupOps
    <3>. HIDE DEF t, z, p, q
    <3>. QED BY <1>9, <3>1, <3>2
  <2>3. remove_specific_falls_back_to_broad(base, bl, v, w) = (both \o a) \o x
    BY <1>4 DEF remove_specific_falls_back_to_broad
  <2>. HIDE DEF both, s, z, a, x
  <2>4. Leads(both \o a, Start, z)
    BY <1>6, <2>1, LeadsOn DEF both
  <2>5. Leads((both \o a) \o x, Start, z)
    BY <2>2, <2>4, LeadsOn
  <2>. QED BY <2>3, <2>5 DEF Passes
<1>. QED
  BY <1>10, <1>11, <1>12

(* The tests of the default route and of a host route.                     *)
LEMMA TwoAddressesPass ==
  ASSUME NEW a \in Ips, NEW b \in Ips, NEW v \in Value
  PROVE  /\ Passes(default_route_matches_all_addresses(a, v))
         /\ a # b => Passes(host_route_matches_only_exact_address(a, b, v))
<1>. DEFINE E == EmptyTable
<1>1. a \in Addrs /\ b \in Addrs /\ a \in Address /\ b \in Address
  BY IpIsInput
<1>2. Passes(default_route_matches_all_addresses(a, v))
  <2>. DEFINE p == masked(Root)
              t == One(p, v)
              s == Stage(t, E, None)
              ins == Do(Ins(Root, v))
              x == Expect(Look("longest_match", a), v)
  <2>1. Root \in Nets
    BY TestNetsAssumption
  <2>2. p \in IpPrefix /\ p.mask = 0
    BY RootType, MaskedType DEF Root
  <2>3. Covers(p, a)
    BY <2>2 DEF Covers
  <2>4. Leads(ins, Start, s)
    BY <2>1, FirstInsert DEF Start
  <2>5. LongestMatch(t, a) = [prefix |-> p, value |-> v]
    BY <2>2, <2>3, OneMatch
  <2>6. LookupReply("longest_match", [prefix |-> p, value |-> v]) = v
    BY <2>2, EntryIsSome DEF LookupReply
  <2>7. Leads(x, s, s)
    <3>1. Leads(Expect(Look("longest_match", a),
                       LookupReply("longest_match", LongestMatch(t, a))), s, s)
      BY <1>1, <2>1, ReadsFacts DEF LookupOps
    <3>. HIDE DEF t, s, p
    <3>. QED BY <2>5, <2>6, <3>1
  <2>. HIDE DEF ins, s, x
  <2>8. Leads(ins \o x, Start, s)
    BY <2>4, <2>7, LeadsOn
  <2>. QED BY <2>8 DEF Passes, default_route_matches_all_addresses, ins, x
<1>3. ASSUME a # b
      PROVE  Passes(host_route_matches_only_exact_address(a, b, v))
  <2>. DEFINE host == [ip |-> a, mask |-> BITS]
              p == masked(host)
              t == One(p, v)
              s == Stage(t, E, None)
              ins == Do(Ins(host, v))
              x == Expect(Look("longest_match", a), v)
              y == Expect(Look("longest_match", b), None)
  <2>1. host \in AnyPrefix
    BY BitsType, PrefixInput
  <2>2. host \in Nets /\ p \in IpPrefix /\ p.mask = BITS
    BY <2>1, InputFacts
  <2>3. \A i \in 1..BITS : p.ip[i] = a[i]
    BY <1>1, BitsType DEF masked, Address
  <2>. HIDE DEF p, host
  <2>4. Covers(p, a)
    BY <2>2, <2>3 DEF Covers
  <2>5. ~Covers(p, b)
    <3>. SUFFICES ASSUME Covers(p, b) PROVE FALSE
      OBVIOUS
    <3>1. \A i \in 1..BITS : a[i] = b[i]
      BY <2>2, <2>3 DEF Covers
    <3>2. a = [i \in 1..BITS |-> a[i]] /\ b = [i \in 1..BITS |-> b[i]]
      BY <1>1 DEF Address
    <3>3. a = b
      BY <3>1, <3>2
    <3>. QED BY <1>3, <3>3
  <2>6. Leads(ins, Start, s)
    BY <2>2, FirstInsert DEF Start, p
  <2>7. LongestMatch(t, a) = [prefix |-> p, value |-> v] /\ LongestMatch(t, b) = None
    BY <2>2, <2>4, <2>5, OneMatch
  <2>8. /\ LookupReply("longest_match", [prefix |-> p, value |-> v]) = v
        /\ LookupReply("longest_match", None) = None
    BY <2>2, EntryIsSome DEF LookupReply
  <2>9. Leads(x, s, s) /\ Leads(y, s, s)
    <3>1. /\ Leads(Expect(Look("longest_match", a),
                          LookupReply("longest_match", LongestMatch(t, a))), s, s)
          /\ Leads(Expect(Look("longest_match", b),
                          LookupReply("longest_match", LongestMatch(t, b))), s, s)
      BY <1>1, <2>2, ReadsFacts DEF LookupOps
    <3>. HIDE DEF t, s
    <3>. QED BY <2>7, <2>8, <3>1
  <2>. HIDE DEF ins, s, x, y
  <2>10. Leads(ins \o x, Start, s)
    BY <2>6, <2>9, LeadsOn
  <2>11. Leads((ins \o x) \o y, Start, s)
    BY <2>9, <2>10, LeadsOn
  <2>. QED BY <2>11 DEF Passes, host_route_matches_only_exact_address, ins, x, y, host
<1>. QED
  BY <1>2, <1>3

(* A Vec without the element at idx.                                       *)
LEMMA RemoveAtIs ==
  ASSUME NEW S, NEW s \in Seq(S), NEW idx \in 1..Len(s)
  PROVE  /\ RemoveAt(s, idx) \in Seq(S)
         /\ \A i \in 1..Len(RemoveAt(s, idx)) :
              \E j \in 1..Len(s) : j # idx /\ RemoveAt(s, idx)[i] = s[j]
<1>. DEFINE n == Len(s)
            a == SubSeq(s, 1, idx - 1)
            b == SubSeq(s, idx + 1, n)
<1>1. n \in Nat /\ idx \in Int /\ 1 <= idx /\ idx <= n
  OBVIOUS
<1>2. /\ a \in Seq(S) /\ Len(a) = idx - 1
      /\ \A i \in 1..(idx - 1) : a[i] = s[i]
  BY <1>1
<1>3. /\ b \in Seq(S) /\ Len(b) = n - idx
      /\ \A i \in 1..(n - idx) : b[i] = s[idx + i]
  BY <1>1
<1>4. RemoveAt(s, idx) = a \o b
  BY DEF RemoveAt
<1>. HIDE DEF a, b, n
<1>5. /\ a \o b \in Seq(S) /\ Len(a \o b) = n - 1
      /\ \A i \in 1..(idx - 1) : (a \o b)[i] = a[i]
      /\ \A i \in 1..(n - idx) : (a \o b)[(idx - 1) + i] = b[i]
  <2>1. /\ a \o b \in Seq(S) /\ Len(a \o b) = Len(a) + Len(b)
        /\ \A i \in 1..Len(a) : (a \o b)[i] = a[i]
        /\ \A i \in 1..Len(b) : (a \o b)[Len(a) + i] = b[i]
    <3>1. a \in Seq(S) /\ b \in Seq(S)
      BY <1>2, <1>3
    <3>. QED BY <3>1
  <2>2. (idx - 1) + (n - idx) = n - 1
    BY <1>1
  <2>. QED BY <1>2, <1>3, <2>1, <2>2
<1>6. ASSUME NEW i \in 1..(n - 1)
      PROVE  \E j \in 1..n : j # idx /\ (a \o b)[i] = s[j]
  <2>1. CASE i < idx
    <3>1. i \in 1..(idx - 1) /\ i \in 1..n /\ i # idx
      BY <1>1, <2>1
    <3>. QED BY <1>2, <1>5, <3>1
  <2>2. CASE i >= idx
    <3>1. PICK k \in 1..(n - idx) : i = (idx - 1) + k
      <4>1. i - (idx - 1) \in 1..(n - idx) /\ i = (idx - 1) + (i - (idx - 1))
        BY <1>1, <2>2
      <4>. QED BY <4>1
    <3>2. (a \o b)[i] = s[idx + k]
      BY <1>3, <1>5, <3>1
    <3>3. idx + k \in 1..n /\ idx + k # idx
      BY <1>1, <3>1
    <3>. QED BY <3>2, <3>3
  <2>3. i < idx \/ i >= idx
    BY <1>1
  <2>. QED BY <2>1, <2>2, <2>3
<1>. QED
  BY <1>4, <1>5, <1>6 DEF n

(* What longest_match_entry and longest_match answer over a table.         *)
LEMMA LookupsAgree ==
  ASSUME NEW found
  PROVE  /\ LookupReply("longest_match_entry", found) = found
         /\ LookupReply("longest_match", found) = IF found = None THEN None ELSE found.value
<1>1. CASE found = None
  BY <1>1 DEF LookupReply
<1>2. CASE found # None
  BY <1>2 DEF LookupReply
<1>. QED
  BY <1>1, <1>2

(* The tests over a Vec of operations.                                     *)
LEMMA IterationTestsPass ==
  ASSUME NEW ops \in OpVecs
  PROVE  /\ Passes(len_equals_iter_count(ops))
         /\ Passes(iter_collect_roundtrip(ops))
<1>. DEFINE E == EmptyTable
            t == Filled(ops, Len(ops))
            n == Cardinality(DOMAIN t)
            s == Stage(t, E, None)
            ins == InsertAll(ops)
<1>1. ops \in Seq(Op) /\ IsTable(t)
  BY OpVecsType, FilledTable
<1>2. Leads(ins, Start, s)
  BY <1>1, FillLeads DEF Start
<1>. HIDE DEF t
<1>3. Passes(len_equals_iter_count(ops))
  <2>. DEFINE z == Stage(t, t, None)
              a == Drain
              x == Later("len is count")
  <2>1. Leads(a, s, z)
    BY <1>1, DrainLeads
  <2>2. Leads(x, z, z)
    <3>1. LaterDoes([do |-> "later", what |-> "len is count"], z, z)
      BY DEF LaterDoes, Stage
    <3>. QED BY <3>1, LaterLeads
  <2>. HIDE DEF ins, s, z, a, x
  <2>3. Leads(ins \o a, Start, z)
    BY <1>2, <2>1, LeadsOn
  <2>4. Leads((ins \o a) \o x, Start, z)
    BY <2>2, <2>3, LeadsOn
  <2>. QED BY <2>4 DEF Passes, len_equals_iter_count, ins, a, x
<1>4. Passes(iter_collect_roundtrip(ops))
  <2>. DEFINE g1 == Stage(t, E, n)
              g2 == Stage(t, t, n)
              g3 == Stage(E, t, n)
              a == Keep(Plain("len"))
              b == Drain
              c == Fresh
              x == Later("insert drained")
              y == Later("len is kept")
              z == Later("get drained")
  <2>1. Leads(a, s, g1)
    BY SizeFacts
  <2>2. Leads(b, g1, g2)
    BY <1>1, DrainLeads
  <2>3. Leads(c, g2, g3)
    BY FreshLeads
  <2>4. Leads(x, g3, g2)
    <3>1. LaterDoes([do |-> "later", what |-> "insert drained"], g3, g2)
      BY <1>1 DEF LaterDoes, Stage
    <3>. QED BY <3>1, LaterLeads
  <2>5. Leads(y, g2, g2)
    <3>1. LaterDoes([do |-> "later", what |-> "len is kept"], g2, g2)
      BY DEF LaterDoes, Stage
    <3>. QED BY <3>1, LaterLeads
  <2>6. Leads(z, g2, g2)
    <3>1. LaterDoes([do |-> "later", what |-> "get drained"], g2, g2)
      BY <1>1 DEF LaterDoes, Stage
    <3>. QED BY <3>1, LaterLeads
  <2>. HIDE DEF ins, s, g1, g2, g3, a, b, c, x, y, z
  <2>7. Leads((ins \o a) \o b, Start, g2)
    <3>1. Leads(ins \o a, Start, g1)
      BY <1>2, <2>1, LeadsOn
    <3>. QED BY <2>2, <3>1, LeadsOn
  <2>8. Leads((((ins \o a) \o b) \o c) \o x, Start, g2)
    <3>1. Leads(((ins \o a) \o b) \o c, Start, g3)
      BY <2>3, <2>7, LeadsOn
    <3>. QED BY <2>4, <3>1, LeadsOn
  <2>9. Leads((((((ins \o a) \o b) \o c) \o x) \o y) \o z, Start, g2)
    <3>1. Leads(((((ins \o a) \o b) \o c) \o x) \o y, Start, g2)
      BY <2>5, <2>8, LeadsOn
    <3>. QED BY <2>6, <3>1, LeadsOn
  <2>. QED BY <2>9 DEF Passes, iter_collect_roundtrip, ins, a, b, c, x, y, z
<1>. QED
  BY <1>3, <1>4

LEMMA LookupTestsPass ==
  ASSUME NEW ops \in OpVecs, NEW lookup \in Ips
  PROVE  /\ Passes(entry_value_agrees_with_longest_match(ops, lookup))
         /\ Passes(entry_prefix_roundtrips_through_get(ops, lookup))
<1>. DEFINE E == EmptyTable
            t == Filled(ops, Len(ops))
            found == LongestMatch(t, lookup)
            s == Stage(t, E, None)
            z == Stage(t, E, found)
            ins == InsertAll(ops)
            a == Keep(Look("longest_match_entry", lookup))
<1>1. ops \in Seq(Op) /\ IsTable(t) /\ lookup \in Addrs
  BY OpVecsType, FilledTable, IpIsInput
<1>2. Leads(ins, Start, s)
  BY <1>1, FillLeads DEF Start
<1>3. Root \in Nets
  BY TestNetsAssumption
<1>. HIDE DEF t
<1>4. Leads(a, s, z)
  <2>1. Leads(a, s, Stage(t, E, LookupReply("longest_match_entry", found)))
    BY <1>1, <1>3, ReadsFacts DEF LookupOps
  <2>. HIDE DEF found
  <2>. QED BY <2>1, LookupsAgree
<1>5. Leads(ins \o a, Start, z)
  <2>. HIDE DEF ins, a, s, z
  <2>. QED BY <1>2, <1>4, LeadsOn
<1>6. Passes(entry_value_agrees_with_longest_match(ops, lookup))
  <2>. DEFINE r == Look("longest_match", lookup)
              x == [do |-> "same", req |-> r]
              y == SameMatch(lookup)
  <2>1. Reads(r) /\ r.op = "longest_match" /\ r.addr = lookup
    BY <1>1 DEF Look, Reads, Request, LookupOps
  <2>2. y = <<x>>
    BY DEF SameMatch
  <2>. HIDE DEF r, y
  <2>3. Answer(r, t) = IF found = None THEN None ELSE found.value
    <3>1. r.op \in LookupOps => Answer(r, t) = LookupReply(r.op, LongestMatch(t, r.addr))
      BY AnswerIs
    <3>2. Answer(r, t) = LookupReply("longest_match", found)
      BY <2>1, <3>1 DEF LookupOps
    <3>. HIDE DEF found
    <3>. QED BY <3>2, LookupsAgree
  <2>4. Effect(r, t) = t /\ Telling(r) /\ r \in Request
    BY <2>1, EffectIs DEF Reads, Telling
  <2>. HIDE DEF found
  <2>5. CallDoes(x, z, z)
    BY <2>3, <2>4 DEF CallDoes, CallSteps, Stage
  <2>. HIDE DEF x, z, ins, a
  <2>6. Leads(y, z, z)
    BY <2>2, <2>5, LeadsOne DEF Does
  <2>7. Leads((ins \o a) \o y, Start, z)
    BY <1>5, <2>6, LeadsOn
  <2>. QED BY <2>7 DEF Passes, entry_value_agrees_with_longest_match, ins, a, y
<1>7. Passes(entry_prefix_roundtrips_through_get(ops, lookup))
  <2>. DEFINE y == Later("get kept")
  <2>1. \/ found = None
        \/ \E p \in DOMAIN t : found = [prefix |-> p, value |-> t[p]]
    BY <1>1, EntryFound
  <2>2. Leads(y, z, z)
    <3>. HIDE DEF found
    <3>1. LaterDoes([do |-> "later", what |-> "get kept"], z, z)
      BY <1>1, <2>1 DEF LaterDoes, Stage
    <3>. QED BY <3>1, LaterLeads
  <2>. HIDE DEF ins, a, z, y
  <2>3. Leads((ins \o a) \o y, Start, z)
    BY <1>5, <2>2, LeadsOn
  <2>. QED BY <2>3 DEF Passes, entry_prefix_roundtrips_through_get, ins, a, y
<1>. QED
  BY <1>6, <1>7

LEMMA RemovalTestsPass ==
  ASSUME NEW ops \in OpVecs
  PROVE  /\ Passes(clear_then_reinsert_roundtrip(ops))
         /\ \A idx \in DOMAIN Deduped(ops) : Passes(remove_one_leaves_others_intact(ops, idx))
<1>. DEFINE E == EmptyTable
            t == Filled(ops, Len(ops))
            e == Deduped(ops)
            s == Stage(t, E, None)
            ins == InsertAll(ops)
<1>1. ops \in Seq(Op)
  BY OpVecsType
<1>2. Enumerates(e, t)
  BY <1>1, DedupedIs
<1>3. Leads(ins, Start, s)
  BY <1>1, FillLeads DEF Start
<1>4. Passes(clear_then_reinsert_roundtrip(ops))
  <2>. DEFINE z == Stage(E, E, None)
              a == Do(Plain("clear"))
              b == Expect(Plain("len"), 0)
              c == Expect(Plain("is_empty"), TRUE)
              d == Drain
              x == Later("len is count")
              y == GetAll(e)
  <2>1. Leads(a, s, z)
    BY SizeFacts
  <2>2. DOMAIN E = {} /\ Cardinality(DOMAIN E) = 0 /\ IsTable(E)
    BY EmptyFacts
  <2>3. Leads(b, z, z) /\ Leads(c, z, z)
    <3>1. /\ Leads(Expect(Plain("len"), Cardinality(DOMAIN E)), z, z)
          /\ Leads(Expect(Plain("is_empty"), DOMAIN E = {}), z, z)
      BY SizeFacts
    <3>2. (DOMAIN E = {}) = TRUE
      BY <2>2
    <3>. HIDE DEF z, E
    <3>. QED BY <2>2, <3>1, <3>2
  <2>4. Leads(d, z, z)
    BY <2>2, DrainLeads
  <2>5. Leads(x, z, z)
    <3>1. LaterDoes([do |-> "later", what |-> "len is count"], z, z)
      BY DEF LaterDoes, Stage
    <3>. QED BY <3>1, LaterLeads
  <2>6. Leads(ins, z, s)
    BY <1>1, FillLeads
  <2>7. Leads(y, s, s)
    BY <1>2, EnumeratesGet
  <2>. HIDE DEF ins, s, z, a, b, c, d, x, y
  <2>8. Leads((ins \o a) \o b, Start, z)
    <3>1. Leads(ins \o a, Start, z)
      BY <1>3, <2>1, LeadsOn
    <3>. QED BY <2>3, <3>1, LeadsOn
  <2>9. Leads((((ins \o a) \o b) \o c) \o d, Start, z)
    <3>1. Leads(((ins \o a) \o b) \o c, Start, z)
      BY <2>3, <2>8, LeadsOn
    <3>. QED BY <2>4, <3>1, LeadsOn
  <2>10. Leads((((((ins \o a) \o b) \o c) \o d) \o x) \o ins, Start, s)
    <3>1. Leads(((((ins \o a) \o b) \o c) \o d) \o x, Start, z)
      BY <2>5, <2>9, LeadsOn
    <3>. QED BY <2>6, <3>1, LeadsOn
  <2>11. Leads(((((((ins \o a) \o b) \o c) \o d) \o x) \o ins) \o y, Start, s)
    BY <2>7, <2>10, LeadsOn
  <2>. QED BY <2>11 DEF Passes, clear_then_reinsert_roundtrip, ins, a, b, c, d, x, y
<1>5. ASSUME NEW idx \in DOMAIN e
      PROVE  Passes(remove_one_leaves_others_intact(ops, idx))
  <2>. DEFINE q == e[idx].prefix
              u == Lacking(t, q)
              z == Stage(u, E, None)
              a == InsertAll(e)
              b == Do(On("remove", q))
              r == RemoveAt(e, idx)
              y == GetAll(r)
  <2>1. /\ e \in Seq(Op) /\ idx \in 1..Len(e)
        /\ \A i \in 1..Len(e) : /\ masked(e[i].prefix) = e[i].prefix
                                /\ e[i].prefix \in DOMAIN t /\ t[e[i].prefix] = e[i].value
        /\ \A i, j \in 1..Len(e) : e[i].prefix = e[j].prefix => i = j
    BY <1>2 DEF Enumerates
  <2>2. q \in Nets /\ masked(q) = q
    BY <2>1, OpFacts
  <2>3. Leads(a, Start, s)
    BY <1>2, EnumeratesInsert DEF Start
  <2>4. Leads(b, s, z)
    <3>1. Leads(b, s, Stage(Lacking(t, masked(q)), E, None))
      BY <2>2, RemoveLeads
    <3>. HIDE DEF q, s
    <3>. QED BY <2>2, <3>1
  <2>5. /\ r \in Seq(Op)
        /\ \A i \in 1..Len(r) : \E j \in 1..Len(e) : j # idx /\ r[i] = e[j]
    BY <2>1, RemoveAtIs
  <2>6. DOMAIN u = DOMAIN t \ {q} /\ \A p \in DOMAIN u : u[p] = t[p]
    BY DEF Lacking
  <2>. HIDE DEF e, t, u, r
  <2>7. \A i \in 1..Len(r) : /\ masked(r[i].prefix) \in DOMAIN u
                             /\ u[masked(r[i].prefix)] = r[i].value
    <3>. SUFFICES ASSUME NEW i \in 1..Len(r)
                  PROVE  /\ masked(r[i].prefix) \in DOMAIN u
                         /\ u[masked(r[i].prefix)] = r[i].value
      OBVIOUS
    <3>1. PICK j \in 1..Len(e) : j # idx /\ r[i] = e[j]
      BY <2>5
    <3>2. e[j].prefix # q
      BY <2>1, <3>1
    <3>3. /\ masked(e[j].prefix) = e[j].prefix
          /\ e[j].prefix \in DOMAIN t /\ t[e[j].prefix] = e[j].value
      BY <2>1
    <3>. QED BY <2>6, <3>1, <3>2, <3>3
  <2>8. Leads(y, z, z)
    BY <2>5, <2>7, GetLeads
  <2>. HIDE DEF a, b, y, s, z
  <2>9. Leads(a \o b, Start, z)
    BY <2>3, <2>4, LeadsOn
  <2>10. Leads((a \o b) \o y, Start, z)
    BY <2>8, <2>9, LeadsOn
  <2>. QED BY <2>10 DEF Passes, remove_one_leaves_others_intact, a, b, y, e, r
<1>. QED
  BY <1>4, <1>5
------------------------------------------------------------------------------
(* Every test starts in a state from which its script leads to an end.     *)
LEMMA BeginInv ==
  ASSUME Begin, Passes(script)
  PROVE  TestInv
<1>1. IterInit /\ kept = None /\ drained = <<>>
  BY DEF Begin
<1>2. IterInv
  BY <1>1, IterInitInv
<1>3. pc = "idle" /\ cursor = "none"
  BY <1>1 DEF IterInit, Init
<1>4. Table = EmptyTable
  BY <1>1, InitIs DEF IterInit, Abstract!Init, EmptyTable
<1>5. Enumerates(<<>>, EmptyTable)
  BY EmptyFacts DEF Enumerates, EmptyTable
<1>6. Phase = "idle"
  BY <1>3, PhaseFacts
<1>7. Standing(Start)
  BY <1>1, <1>3, <1>4, <1>5, <1>6 DEF Standing, Start, Stage
<1>. QED
  BY <1>2, <1>7 DEF TestInv, Passes

LEMMA TestInitInv ==
  ASSUME TestInit
  PROVE  TestInv
<1>1. CASE OnePrefix
  <2>1. Passes(script)
    BY <1>1, OnePrefixPasses DEF OnePrefix
  <2>. QED BY <2>1, BeginInv DEF TestInit
<1>2. CASE TwoPrefixes
  <2>1. Passes(script)
    BY <1>2, TwoPrefixesPass DEF TwoPrefixes
  <2>. QED BY <2>1, BeginInv DEF TestInit
<1>3. CASE TwoAddresses
  <2>1. Passes(script)
    BY <1>3, TwoAddressesPass DEF TwoAddresses
  <2>. QED BY <2>1, BeginInv DEF TestInit
<1>4. CASE ManyOps
  <2>1. Passes(script)
    BY <1>4, IterationTestsPass, LookupTestsPass, RemovalTestsPass DEF ManyOps
  <2>. QED BY <2>1, BeginInv DEF TestInit
<1>. QED
  BY <1>1, <1>2, <1>3, <1>4 DEF TestInit

LEMMA Ipv6TestInitInv ==
  ASSUME Ipv6TestInit
  PROVE  TestInv
<1>1. Ipv6Tests
  BY DEF Ipv6TestInit
<1>2. Passes(script)
  BY <1>1, OnePrefixPasses, TwoPrefixesPass, TwoAddressesPass
     DEF Ipv6Tests, ipv6_insert_implies_contains_and_get, ipv6_default_route_matches_all,
         ipv6_more_specific_prefix_wins_lpm, ipv6_entry_hits_own_network_with_prefix,
         ipv6_remove_clears_entry, ipv6_remove_specific_falls_back_to_broad
<1>. QED
  BY <1>2, BeginInv DEF Ipv6TestInit

(* Every prop_assert of every property test passes: for every address,     *)
(* prefix length, value and Vec of operations that proptest may draw, of   *)
(* any length, and a table of any number of strides, the answer of every   *)
(* call is the one the test wants.                                         *)
THEOREM TestsPass == TestSpec => []AssertionsHold
<1>1. TestInit => TestInv
  BY TestInitInv
<1>2. TestInv /\ [TestNext]_allVars => TestInv'
  BY TestNextInv
<1>3. TestInv => AssertionsHold
  BY InvAsserts
<1>. QED
  BY <1>1, <1>2, <1>3, PTL DEF TestSpec

(* So does every one of the ipv6_* tests.                                  *)
THEOREM Ipv6TestsPass == Ipv6TestSpec => []AssertionsHold
<1>1. Ipv6TestInit => TestInv
  BY Ipv6TestInitInv
<1>2. TestInv /\ [TestNext]_allVars => TestInv'
  BY TestNextInv
<1>3. TestInv => AssertionsHold
  BY InvAsserts
<1>. QED
  BY <1>1, <1>2, <1>3, PTL DEF Ipv6TestSpec
=============================================================================
