--------------------------- MODULE RtnlRecordsProofs ---------------------------
(***************************************************************************)
(* Proofs about RtnlRecords, for any number of clients, any rules and      *)
(* addresses, lists of any length and any faults.                          *)
(***************************************************************************)
EXTENDS RtnlRecords, TLAPS, SequenceTheorems

(* What netlinkUpdate has sent so far it has sent without an error, and    *)
(* there is a message left, unless there was none to begin with.           *)
Progress ==
  \A c \in Clients : pc[c] = "send" =>
    /\ made[c] = 1 .. call[c].sent
    /\ call[c].op = "AddAddrs" =>
         call[c].sent < Len(call[c].addrs) \/ call[c].addrs = <<>>
    /\ call[c].op # "AddAddrs" => call[c].sent = 0 /\ call[c].op \in RuleOps

RecordsInv == TypeOK /\ NoDuplicateRules /\ Progress

-----------------------------------------------------------------------------
(* Sequences.                                                              *)

(* InsertAt puts an element at its place and moves what follows.           *)
LEMMA InsertAtElements ==
  ASSUME NEW S, NEW s \in Seq(S), NEW x \in S, NEW i \in 1 .. Len(s) + 1
  PROVE  /\ InsertAt(s, i, x) \in Seq(S)
         /\ Len(InsertAt(s, i, x)) = Len(s) + 1
         /\ \A j \in 1 .. Len(s) + 1 :
              InsertAt(s, i, x)[j] = IF j < i THEN s[j]
                                     ELSE IF j = i THEN x ELSE s[j - 1]
<1> DEFINE front == SubSeq(s, 1, i - 1)
           back == SubSeq(s, i, Len(s))
<1>1. /\ front \in Seq(S) /\ Len(front) = i - 1
      /\ \A j \in 1 .. i - 1 : front[j] = s[j]
  BY SubSeqProperties
<1>2. /\ back \in Seq(S) /\ Len(back) = Len(s) + 1 - i
      /\ \A j \in 1 .. Len(s) + 1 - i : back[j] = s[i + j - 1]
  BY SubSeqProperties
<1>3. InsertAt(s, i, x) = front \o <<x>> \o back
  BY DEF InsertAt
<1> HIDE DEF front, back
<1>4. /\ front \o <<x>> \in Seq(S) /\ Len(front \o <<x>>) = i
      /\ \A j \in 1 .. i : (front \o <<x>>)[j] = IF j < i THEN s[j] ELSE x
  BY <1>1
<1>5. /\ (front \o <<x>>) \o back \in Seq(S)
      /\ Len((front \o <<x>>) \o back) = Len(s) + 1
  BY <1>2, <1>4
<1>6. ASSUME NEW j \in 1 .. Len(s) + 1
      PROVE  ((front \o <<x>>) \o back)[j] = IF j < i THEN s[j]
                                             ELSE IF j = i THEN x ELSE s[j - 1]
  <2>1. CASE j <= i
    BY <1>2, <1>4, <2>1
  <2>2. CASE j > i
    <3>1. ((front \o <<x>>) \o back)[j] = back[j - i]
      BY <1>2, <1>4, <2>2
    <3>2. /\ j - i \in 1 .. Len(s) + 1 - i /\ i + (j - i) - 1 = j - 1
          /\ ~(j < i) /\ j # i
      BY <2>2
    <3>3. back[j - i] = s[i + (j - i) - 1]
      BY <1>2, <3>2
    <3> QED
      BY <3>1, <3>2, <3>3
  <2>3. j <= i \/ j > i
    OBVIOUS
  <2> QED
    BY <2>1, <2>2, <2>3
<1> QED
  BY <1>3, <1>5, <1>6

(* The same as one fact, which the provers find more easily.               *)
IsInserted(t, S, s, i, x) ==
  /\ t \in Seq(S)
  /\ Len(t) = Len(s) + 1
  /\ \A j \in 1 .. Len(s) + 1 :
       t[j] = IF j < i THEN s[j] ELSE IF j = i THEN x ELSE s[j - 1]

LEMMA InsertAtInserts ==
  ASSUME NEW S, NEW s \in Seq(S), NEW x \in S, NEW i \in 1 .. Len(s) + 1
  PROVE  IsInserted(InsertAt(s, i, x), S, s, i, x)
BY InsertAtElements DEF IsInserted

(* RemoveAt takes one element out and moves what follows.                  *)
LEMMA RemoveAtElements ==
  ASSUME NEW S, NEW s \in Seq(S), NEW i \in 1 .. Len(s)
  PROVE  /\ RemoveAt(s, i) \in Seq(S)
         /\ Len(RemoveAt(s, i)) = Len(s) - 1
         /\ \A j \in 1 .. Len(s) - 1 :
              RemoveAt(s, i)[j] = IF j < i THEN s[j] ELSE s[j + 1]
<1> DEFINE front == SubSeq(s, 1, i - 1)
           back == SubSeq(s, i + 1, Len(s))
<1>1. /\ front \in Seq(S) /\ Len(front) = i - 1
      /\ \A j \in 1 .. i - 1 : front[j] = s[j]
  BY SubSeqProperties
<1>2. /\ back \in Seq(S) /\ Len(back) = Len(s) - i
      /\ \A j \in 1 .. Len(s) - i : back[j] = s[i + j]
  BY SubSeqProperties
<1>3. RemoveAt(s, i) = front \o back
  BY DEF RemoveAt
<1> HIDE DEF front, back
<1>4. front \o back \in Seq(S) /\ Len(front \o back) = Len(s) - 1
  BY <1>1, <1>2
<1>5. ASSUME NEW j \in 1 .. Len(s) - 1
      PROVE  (front \o back)[j] = IF j < i THEN s[j] ELSE s[j + 1]
  <2>1. CASE j < i
    BY <1>1, <1>2, <2>1
  <2>2. CASE j >= i
    <3>1. (front \o back)[j] = back[j - (i - 1)]
      BY <1>1, <1>2, <2>2
    <3>2. /\ j - (i - 1) \in 1 .. Len(s) - i /\ i + (j - (i - 1)) = j + 1
          /\ ~(j < i)
      BY <2>2
    <3>3. back[j - (i - 1)] = s[i + (j - (i - 1))]
      BY <1>2, <3>2
    <3> QED
      BY <3>1, <3>2, <3>3
  <2>3. j < i \/ j >= i
    OBVIOUS
  <2> QED
    BY <2>1, <2>2, <2>3
<1> QED
  BY <1>3, <1>4, <1>5

-----------------------------------------------------------------------------
(* Messages and rules.                                                     *)

LEMMA BoundTypes == MaxBatch \in Nat /\ MaxPref \in Nat /\ MaxPref >= 2
BY RecordsAssumption

(* A message asks for the table of its rule, whichever field carries it.   *)
LEMMA MessageOfRule ==
  ASSUME NEW op, NEW r \in RuleObject
  PROVE  LET q == RuleMessage(op, r) IN
         /\ q.type = IF op \in {"Add", "Present"} THEN "NEWRULE" ELSE "DELRULE"
         /\ q.family = r.family /\ q.priority = r.priority
         /\ q.match = r.match /\ q.excl /\ Asked(q) = r.table
<1>1. r.table \in Nat
  BY DEF RuleObject, Tables
<1> QED
  BY <1>1
     DEF RuleMessage, PriorityField, TableField, HdrTable, Exclusive, Asked

LEMMA MessagesOfCall ==
  ASSUME TypeOK, NEW c \in Clients
  PROVE  /\ call[c].op = "AddAddrs" =>
              /\ Messages(call[c]) = [i \in 1 .. Len(call[c].addrs) |->
                                       AddrMessage(call[c].addrs[i])]
              /\ Messages(call[c]) = <<>> <=> call[c].addrs = <<>>
              /\ Len(Messages(call[c])) = Len(call[c].addrs)
         /\ call[c].op # "AddAddrs" =>
              Messages(call[c]) = <<RuleMessage(call[c].op, call[c].rule)>>
<1>1. call[c].addrs \in Seq(Address)
  BY DEF TypeOK, Call
<1>2. ASSUME call[c].op = "AddAddrs"
      PROVE  Messages(call[c]) = [i \in 1 .. Len(call[c].addrs) |->
                                   AddrMessage(call[c].addrs[i])]
  BY <1>2 DEF Messages
<1>3. ASSUME call[c].op = "AddAddrs"
      PROVE  Len(Messages(call[c])) = Len(call[c].addrs)
  <2>1. Len(call[c].addrs) \in Nat
    BY <1>1
  <2> QED
    BY <1>2, <1>3, <2>1
<1>4. ASSUME call[c].op = "AddAddrs"
      PROVE  Messages(call[c]) = <<>> <=> call[c].addrs = <<>>
  <2>1. Messages(call[c]) \in Seq({AddrMessage(call[c].addrs[i]) :
                                    i \in 1 .. Len(call[c].addrs)})
    <3>1. Len(call[c].addrs) \in Nat
      BY <1>1
    <3> QED
      BY <1>2, <1>4, <3>1
  <2> QED
    BY <1>1, <1>3, <1>4, <2>1, EmptySeq
<1> QED
  BY <1>2, <1>3, <1>4 DEF Messages

(* A rule the kernel makes of a message has a table.                       *)
LEMMA NewRuleType ==
  ASSUME TypeOK, NEW op, NEW r \in RuleObject
  PROVE  NewRule(RuleMessage(op, r)) \in KernelRule
<1>1. DefaultPref \in 0 .. MaxPref
  <2>1. CASE Len(rules) >= 2 /\ rules[2].pref > 0
    <3>1. rules[2] \in KernelRule
      BY <2>1 DEF TypeOK
    <3>2. rules[2].pref \in 0 .. MaxPref
      BY <3>1 DEF KernelRule
    <3> QED
      BY <2>1, <3>2, BoundTypes DEF DefaultPref
  <2>2. CASE ~(Len(rules) >= 2 /\ rules[2].pref > 0)
    BY <2>2, BoundTypes DEF DefaultPref
  <2> QED
    BY <2>1, <2>2
<1>2. r.priority \in 0 .. MaxPref /\ r.table \in Nat
      /\ r.match \in Matches \cup {Every}
  BY DEF RuleObject, Tables
<1> QED
  BY <1>1, <1>2, MessageOfRule DEF NewRule, KernelRule, Tables, Empty

(* Elements that are all different stay so when another one is put in ...  *)
LEMMA NewRuleKeeps ==
  ASSUME TypeOK, NoDuplicateRules, NEW op, NEW r \in RuleObject, NEW e,
         RtmNewRule(RuleMessage(op, r), e)
  PROVE  rules' \in Seq(KernelRule) /\ NoDuplicateRules'
<1> DEFINE x == NewRule(RuleMessage(op, r))
<1>1. CASE UNCHANGED rules
  BY <1>1 DEF TypeOK, NoDuplicateRules
<1>2. CASE /\ ~\E i \in DOMAIN rules : rules[i] = x
           /\ \E i \in Place(x) : rules' = InsertAt(rules, i, x)
  <2>1. PICK i \in 1 .. Len(rules) + 1 : rules' = InsertAt(rules, i, x)
    BY <1>2 DEF Place
  <2>2. rules \in Seq(KernelRule) /\ x \in KernelRule
    BY NewRuleType DEF TypeOK
  <2> HIDE DEF x
  <2>3. /\ rules' \in Seq(KernelRule) /\ Len(rules') = Len(rules) + 1
        /\ \A j \in 1 .. Len(rules) + 1 :
             rules'[j] = IF j < i THEN rules[j]
                         ELSE IF j = i THEN x ELSE rules[j - 1]
    <3>1. IsInserted(InsertAt(rules, i, x), KernelRule, rules, i, x)
      BY <2>2, InsertAtInserts
    <3> QED
      BY <2>1, <3>1, Zenon DEF IsInserted
  <2>4. \A j, k \in 1 .. Len(rules) : rules[j] = rules[k] => j = k
    BY <2>2 DEF NoDuplicateRules
  <2>5. \A j \in 1 .. Len(rules) : rules[j] # x
    BY <1>2, <2>2
  <2>6. ASSUME NEW j \in 1 .. Len(rules) + 1, NEW k \in 1 .. Len(rules) + 1,
               j < k
        PROVE  rules'[j] # rules'[k]
    <3>1. CASE k < i
      BY <2>2, <2>3, <2>4, <2>6, <3>1
    <3>2. CASE k = i
      BY <2>2, <2>3, <2>5, <2>6, <3>2
    <3>3. CASE k > i /\ j = i
      BY <2>2, <2>3, <2>5, <2>6, <3>3
    <3>4. CASE k > i /\ j # i
      <4>1. k - 1 \in 1 .. Len(rules) /\ rules'[k] = rules[k - 1]
        BY <2>2, <2>3, <3>4
      <4>2. CASE j < i
        BY <2>2, <2>3, <2>4, <2>6, <3>4, <4>1, <4>2
      <4>3. CASE j > i
        <5>1. j - 1 \in 1 .. Len(rules) /\ rules'[j] = rules[j - 1]
          BY <2>2, <2>3, <4>3
        <5> QED
          BY <2>4, <2>6, <4>1, <5>1
      <4> QED
        BY <3>4, <4>2, <4>3
    <3> QED
      BY <3>1, <3>2, <3>3, <3>4
  <2>7. DOMAIN rules' = 1 .. Len(rules) + 1
    BY <2>2, <2>3
  <2>8. ASSUME NEW j \in DOMAIN rules', NEW k \in DOMAIN rules',
               rules'[j] = rules'[k]
        PROVE  j = k
    <3>1. ~(j < k) /\ ~(k < j)
      BY <2>6, <2>7, <2>8
    <3> QED
      BY <2>7, <3>1
  <2> QED
    BY <2>3, <2>8 DEF NoDuplicateRules
<1>3. \A i \in DOMAIN rules :
        rules[i] = x => SameRule(rules[i], RuleMessage(op, r))
  BY DEF SameRule, NewRule
<1> QED
  BY <1>1, <1>2, <1>3, MessageOfRule DEF RtmNewRule

(* ... and when one is taken out.                                          *)
LEMMA DelRuleKeeps ==
  ASSUME TypeOK, NoDuplicateRules, NEW q, NEW e, RtmDelRule(q, e)
  PROVE  rules' \in Seq(KernelRule) /\ NoDuplicateRules'
<1>1. CASE UNCHANGED rules
  BY <1>1 DEF TypeOK, NoDuplicateRules
<1>2. CASE \E i \in FirstFit(q) : rules' = RemoveAt(rules, i)
  <2>1. rules \in Seq(KernelRule)
    BY DEF TypeOK
  <2>2. PICK i \in 1 .. Len(rules) : rules' = RemoveAt(rules, i)
    BY <1>2, <2>1 DEF FirstFit
  <2>3. /\ rules' \in Seq(KernelRule) /\ Len(rules') = Len(rules) - 1
        /\ \A j \in 1 .. Len(rules) - 1 :
             rules'[j] = IF j < i THEN rules[j] ELSE rules[j + 1]
    BY <2>1, <2>2, RemoveAtElements
  <2>4. \A j, k \in 1 .. Len(rules) : rules[j] = rules[k] => j = k
    BY <2>1 DEF NoDuplicateRules
  <2>5. ASSUME NEW j \in 1 .. Len(rules) - 1, NEW k \in 1 .. Len(rules) - 1,
               rules'[j] = rules'[k]
        PROVE  j = k
    <3> DEFINE at(n) == IF n < i THEN n ELSE n + 1
    <3>1. /\ at(j) \in 1 .. Len(rules) /\ at(k) \in 1 .. Len(rules)
          /\ rules'[j] = rules[at(j)] /\ rules'[k] = rules[at(k)]
      BY <2>1, <2>3
    <3>2. at(j) = at(k)
      BY <2>4, <2>5, <3>1
    <3> QED
      BY <2>1, <3>2
  <2>6. DOMAIN rules' = 1 .. Len(rules) - 1
    BY <2>1, <2>3
  <2> QED
    BY <2>3, <2>5, <2>6 DEF NoDuplicateRules
<1> QED
  BY <1>1, <1>2 DEF RtmDelRule

-----------------------------------------------------------------------------
(* The steps.                                                              *)

LEMMA InitRecords == Init => RecordsInv
<1> SUFFICES ASSUME Init PROVE RecordsInv
  OBVIOUS
<1> USE DEF Init
<1>1. rules \in Seq(KernelRule) /\ NoDuplicateRules
  <2> DEFINE r1 == [pref |-> 0, match |-> Every, table |-> Local]
             r2 == [pref |-> MaxPref - 1, match |-> Every, table |-> Main]
             r3 == [pref |-> MaxPref, match |-> Every, table |-> Default]
  <2>1. r1 \in KernelRule /\ r2 \in KernelRule /\ r3 \in KernelRule
    BY BoundTypes DEF KernelRule, Tables, Local, Main, Default
  <2>2. r1 # r2 /\ r1 # r3 /\ r2 # r3
    BY DEF Local, Main, Default
  <2>3. rules = <<r1, r2, r3>>
    OBVIOUS
  <2> HIDE DEF r1, r2, r3
  <2> QED
    BY <2>1, <2>2, <2>3 DEF NoDuplicateRules
<1>2. NoCall \in Call /\ Len(NoCall.addrs) = 0 /\ NoCall.sent = 0
  BY BoundTypes DEF NoCall, Call, Blank, RuleObject, Tables
<1>3. TypeOK
  BY <1>1, <1>2, BoundTypes DEF TypeOK
<1> QED
  BY <1>1, <1>3 DEF RecordsInv, Progress

LEMMA EnvironmentRecords == RecordsInv /\ Environment => RecordsInv'
<1> SUFFICES ASSUME RecordsInv, Environment PROVE RecordsInv'
  OBVIOUS
<1>1. UNCHANGED <<rules, pc, call, ret, made>>
  BY DEF Environment
<1>2. /\ devs' \subseteq Ifs /\ addrs' \subseteq KernelAddress
      /\ \A a \in addrs' : a.idx \in devs'
  BY DEF Environment, RecordsInv, TypeOK
<1>3. TypeOK'
  BY <1>1, <1>2 DEF RecordsInv, TypeOK
<1> QED
  BY <1>1, <1>3 DEF RecordsInv, NoDuplicateRules, Progress

(* A call begins with nothing sent.                                        *)
LEMMA BeginRecords ==
  ASSUME RecordsInv, NEW c \in Clients,
         NEW op \in RuleOps \cup {"AddAddrs"}, NEW r \in RuleObject,
         NEW batch \in Seq(Address), Len(batch) <= MaxBatch, Begin(c, op, r, batch)
  PROVE  RecordsInv'
<1> DEFINE k == [op |-> op, rule |-> r, addrs |-> batch, sent |-> 0]
<1>1. k \in Call
  BY DEF Call
<1>2. TypeOK'
  <2>1. /\ call \in [Clients -> Call] /\ pc \in [Clients -> {"idle", "send"}]
        /\ made \in [Clients -> SUBSET (1 .. MaxBatch + 1)]
    BY DEF RecordsInv, TypeOK
  <2>2. /\ call' = [call EXCEPT ![c] = k] /\ pc' = [pc EXCEPT ![c] = "send"]
        /\ made' = [made EXCEPT ![c] = {}]
        /\ UNCHANGED <<rules, devs, addrs, ret>>
    BY DEF Begin
  <2>3. \A b \in Clients : /\ Len(call'[b].addrs) <= MaxBatch
                           /\ call'[b].sent <= Len(call'[b].addrs)
    <3>1. Len(k.addrs) <= MaxBatch
      OBVIOUS
    <3>2. k.sent <= Len(k.addrs)
      <4>1. k.addrs = batch
        OBVIOUS
      <4>2. k.sent = 0
        OBVIOUS
      <4>3. Len(batch) \in Nat
        OBVIOUS
      <4> HIDE DEF k
      <4> QED
        BY <4>1, <4>2, <4>3
    <3>3. \A b \in Clients : call'[b] = IF b = c THEN k ELSE call[b]
      BY <2>1, <2>2
    <3>4. \A b \in Clients : /\ Len(call[b].addrs) <= MaxBatch
                             /\ call[b].sent <= Len(call[b].addrs)
      BY DEF RecordsInv, TypeOK
    <3> HIDE DEF k
    <3> QED
      BY <3>1, <3>2, <3>3, <3>4
  <2>4. /\ call' \in [Clients -> Call] /\ pc' \in [Clients -> {"idle", "send"}]
        /\ made' \in [Clients -> SUBSET (1 .. MaxBatch + 1)]
    BY <1>1, <2>1, <2>2
  <2> QED
    BY <2>2, <2>3, <2>4 DEF RecordsInv, TypeOK
<1>3. ASSUME NEW b \in Clients, pc'[b] = "send"
      PROVE  /\ made'[b] = 1 .. call'[b].sent
             /\ call'[b].op = "AddAddrs" =>
                  call'[b].sent < Len(call'[b].addrs) \/ call'[b].addrs = <<>>
             /\ call'[b].op # "AddAddrs" =>
                  call'[b].sent = 0 /\ call'[b].op \in RuleOps
  <2>1. CASE b = c
    <3>1. call'[c] = k /\ made'[c] = {}
      BY DEF Begin, RecordsInv, TypeOK
    <3>2. 0 < Len(batch) \/ batch = <<>>
      <4>1. batch # <<>> => Len(batch) \in Nat \ {0}
        BY EmptySeq, Zenon
      <4>2. ASSUME NEW n \in Nat \ {0} PROVE 0 < n
        OBVIOUS
      <4> QED
        BY <4>1, <4>2, Zenon
    <3>3. made'[c] = 1 .. k.sent
      <4>1. k.sent = 0
        OBVIOUS
      <4> HIDE DEF k
      <4> QED
        BY <3>1, <4>1
    <3>4. /\ k.op = op /\ k.addrs = batch /\ k.sent = 0
      OBVIOUS
    <3> HIDE DEF k
    <3>5. op # "AddAddrs" => op \in RuleOps
      OBVIOUS
    <3> QED
      BY <2>1, <3>1, <3>2, <3>3, <3>4, <3>5
  <2>2. CASE b # c
    <3>1. pc'[b] = pc[b] /\ call'[b] = call[b] /\ made'[b] = made[b]
      BY <2>2 DEF Begin, RecordsInv, TypeOK
    <3> QED
      BY <1>3, <3>1 DEF RecordsInv, Progress
  <2> QED
    BY <2>1, <2>2
<1>4. NoDuplicateRules'
  BY DEF Begin, RecordsInv, NoDuplicateRules
<1> QED
  BY <1>2, <1>3, <1>4 DEF RecordsInv, Progress

LEMMA CallRuleRecords ==
  ASSUME RecordsInv, NEW c \in Clients, CallRule(c)
  PROVE  RecordsInv'
<1>1. PICK op \in RuleOps, r \in RuleInputs : Begin(c, op, r, <<>>)
  BY DEF CallRule
<1>2. r \in RuleObject /\ <<>> \in Seq(Address) /\ Len(<<>>) <= MaxBatch
  BY RecordsAssumption
<1> QED
  BY <1>1, <1>2, BeginRecords

LEMMA ListType ==
  ASSUME NEW S, NEW n \in Nat, NEW f \in [1 .. n -> S]
  PROVE  f \in Seq(S) /\ Len(f) = n
OBVIOUS

LEMMA CallAddAddrsRecords ==
  ASSUME RecordsInv, NEW c \in Clients, CallAddAddrs(c)
  PROVE  RecordsInv'
<1>1. PICK n \in 0 .. MaxBatch : \E batch \in [1 .. n -> AddrInputs] :
        Begin(c, "AddAddrs", Blank, batch)
  BY DEF CallAddAddrs
<1>2. PICK batch \in [1 .. n -> AddrInputs] : Begin(c, "AddAddrs", Blank, batch)
  BY <1>1
<1>3. batch \in Seq(Address) /\ Len(batch) <= MaxBatch
  <2>1. n \in Nat /\ n <= MaxBatch
    BY BoundTypes
  <2>2. batch \in [1 .. n -> Address]
    BY RecordsAssumption
  <2> HIDE DEF Address
  <2>3. batch \in Seq(Address)
    BY <2>1, <2>2, ListType, Zenon
  <2>4. Len(batch) = n
    BY <2>1, <2>2, ListType, Zenon
  <2>5. Len(batch) <= MaxBatch
    BY <2>1, <2>4, Zenon
  <2> QED
    BY <2>3, <2>5, Zenon
<1>4. Blank \in RuleObject
  BY BoundTypes DEF Blank, RuleObject, Tables
<1> QED
  BY <1>2, <1>3, <1>4, BeginRecords

(* The message a call sends next.                                          *)
LEMMA NextMessage ==
  ASSUME RecordsInv, NEW c \in Clients, pc[c] = "send",
         Messages(call[c]) # <<>>
  PROVE  LET k == call[c]
             q == Messages(k)[k.sent + 1]
         IN /\ k.sent + 1 \in 1 .. MaxBatch + 1
            /\ k.op = "AddAddrs" =>
                 /\ q.type = "NEWADDR" /\ q.addr \in Address
                 /\ k.sent < Len(k.addrs)
            /\ k.op # "AddAddrs" => q = RuleMessage(k.op, k.rule) /\ k.sent = 0
<1> DEFINE k == call[c]
<1>1. /\ k.addrs \in Seq(Address) /\ k.sent \in Nat /\ Len(k.addrs) \in Nat
      /\ k.sent <= Len(k.addrs) /\ Len(k.addrs) <= MaxBatch
  BY DEF RecordsInv, TypeOK, Call
<1>2. k.sent + 1 \in 1 .. MaxBatch + 1
  BY <1>1, BoundTypes
<1>3. ASSUME k.op = "AddAddrs"
      PROVE  /\ Messages(k)[k.sent + 1].type = "NEWADDR"
             /\ Messages(k)[k.sent + 1].addr \in Address
             /\ k.sent < Len(k.addrs)
  <2>1. k.sent < Len(k.addrs)
    BY <1>3, MessagesOfCall DEF RecordsInv, Progress
  <2>2. k.sent + 1 \in 1 .. Len(k.addrs)
    BY <1>1, <2>1
  <2>3. Messages(k)[k.sent + 1] = AddrMessage(k.addrs[k.sent + 1])
    BY <1>3, <2>2, MessagesOfCall DEF RecordsInv
  <2>4. k.addrs[k.sent + 1] \in Address
    BY <1>1, <2>2
  <2> QED
    BY <2>1, <2>3, <2>4 DEF AddrMessage
<1>4. ASSUME k.op # "AddAddrs"
      PROVE  Messages(k)[k.sent + 1] = RuleMessage(k.op, k.rule) /\ k.sent = 0
  <2>1. k.sent = 0
    BY <1>4 DEF RecordsInv, Progress
  <2>2. Messages(k) = <<RuleMessage(k.op, k.rule)>>
    BY <1>4, MessagesOfCall DEF RecordsInv
  <2> QED
    BY <2>1, <2>2
<1> QED
  BY <1>2, <1>3, <1>4

(* What the kernel makes of it.                                            *)
LEMMA RtmRecords ==
  ASSUME RecordsInv, NEW c \in Clients, pc[c] = "send",
         Messages(call[c]) # <<>>, NEW e,
         Rtm(Messages(call[c])[call[c].sent + 1], e)
  PROVE  /\ rules' \in Seq(KernelRule) /\ NoDuplicateRules'
         /\ devs' \subseteq Ifs /\ addrs' \subseteq KernelAddress
         /\ \A a \in addrs' : a.idx \in devs'
<1> DEFINE k == call[c]
           q == Messages(k)[k.sent + 1]
<1>1. k.op \in RuleOps \cup {"AddAddrs"} /\ k.rule \in RuleObject
  BY DEF RecordsInv, TypeOK, Call, Progress
<1>2. devs' = devs
  BY DEF Rtm
<1>3. CASE k.op = "AddAddrs"
  <2>1. q.type = "NEWADDR" /\ q.addr \in Address
    BY <1>3, NextMessage
  <2>2. RtmNewAddr(q.addr, e) /\ UNCHANGED rules
    BY <2>1 DEF Rtm
  <2>3. addrs' = addrs \/ (/\ addrs' = addrs \cup {q.addr}
                          /\ q.addr.idx \in devs /\ q.addr.prefix \notin Mapped)
    BY <2>2 DEF RtmNewAddr
  <2>4. ASSUME q.addr.idx \in devs, q.addr.prefix \notin Mapped
        PROVE  q.addr \in KernelAddress
    <3>1. devs \subseteq Ifs
      BY DEF RecordsInv, TypeOK
    <3> HIDE DEF q
    <3> QED
      BY <2>1, <2>4, <3>1 DEF Address, AnyPrefix, KernelAddress
  <2>5. /\ addrs \subseteq KernelAddress /\ \A a \in addrs : a.idx \in devs
        /\ devs \subseteq Ifs /\ rules \in Seq(KernelRule)
    BY DEF RecordsInv, TypeOK
  <2>6. addrs' \subseteq KernelAddress /\ \A a \in addrs' : a.idx \in devs
    BY <2>3, <2>4, <2>5
  <2> QED
    BY <1>2, <2>2, <2>5, <2>6 DEF RecordsInv, NoDuplicateRules
<1>4. CASE k.op # "AddAddrs"
  <2>1. q = RuleMessage(k.op, k.rule)
    BY <1>4, NextMessage
  <2>2. q.type = IF k.op \in {"Add", "Present"} THEN "NEWRULE" ELSE "DELRULE"
    BY <1>1, <2>1, MessageOfRule
  <2>3. CASE k.op \in {"Add", "Present"}
    <3>1. RtmNewRule(RuleMessage(k.op, k.rule), e) /\ UNCHANGED addrs
      BY <2>1, <2>2, <2>3 DEF Rtm
    <3> QED
      BY <1>1, <1>2, <3>1, NewRuleKeeps DEF RecordsInv, TypeOK
  <2>4. CASE k.op \notin {"Add", "Present"}
    <3>1. RtmDelRule(q, e) /\ UNCHANGED addrs
      BY <2>2, <2>4 DEF Rtm
    <3> QED
      BY <1>2, <3>1, DelRuleKeeps DEF RecordsInv, TypeOK
  <2> QED
    BY <2>3, <2>4
<1> QED
  BY <1>3, <1>4

LEMMA ResultType ==
  ASSUME NEW op, NEW e \in Errors \cup {"ok"}
  PROVE  Result(op, e) \in Errors \cup {"ok"}
BY DEF Result

(* A call that returns leaves the other clients alone.                     *)
LEMMA ReturnRecords ==
  ASSUME RecordsInv, NEW c \in Clients, NEW e \in Errors \cup {"ok"},
         Return(c, e)
  PROVE  /\ pc' \in [Clients -> {"idle", "send"}]
         /\ call' \in [Clients -> Call]
         /\ \A b \in Clients : /\ Len(call'[b].addrs) <= MaxBatch
                               /\ call'[b].sent <= Len(call'[b].addrs)
         /\ ret' \in [Clients -> Errors \cup {"ok"}]
         /\ pc'[c] = "idle" /\ ret'[c] = e
         /\ \A b \in Clients : b # c => pc'[b] = pc[b] /\ call'[b] = call[b]
<1>1. NoCall \in Call /\ Len(NoCall.addrs) = 0 /\ NoCall.sent = 0
  BY BoundTypes DEF NoCall, Call, Blank, RuleObject, Tables
<1>2. /\ call \in [Clients -> Call] /\ pc \in [Clients -> {"idle", "send"}]
      /\ ret \in [Clients -> Errors \cup {"ok"}]
      /\ \A b \in Clients : /\ Len(call[b].addrs) <= MaxBatch
                            /\ call[b].sent <= Len(call[b].addrs)
  BY DEF RecordsInv, TypeOK
<1>3. /\ pc' = [pc EXCEPT ![c] = "idle"] /\ ret' = [ret EXCEPT ![c] = e]
      /\ call' = [call EXCEPT ![c] = NoCall]
  BY DEF Return
<1>4. \A b \in Clients : call'[b] = IF b = c THEN NoCall ELSE call[b]
  BY <1>2, <1>3
<1>5. \A b \in Clients : /\ Len(call'[b].addrs) <= MaxBatch
                         /\ call'[b].sent <= Len(call'[b].addrs)
  BY <1>1, <1>2, <1>4, BoundTypes
<1> QED
  BY <1>1, <1>2, <1>3, <1>5

LEMMA ExecuteRecords ==
  ASSUME RecordsInv, NEW c \in Clients, Execute(c)
  PROVE  RecordsInv'
<1> DEFINE k == call[c]
           ms == Messages(k)
           i == k.sent + 1
<1>0. pc[c] = "send"
  BY DEF Execute
<1>1. ASSUME NEW e \in Errors \cup {"ok"}, Return(c, e),
             UNCHANGED <<rules, devs, addrs, made>>
      PROVE  RecordsInv'
  <2>1. TypeOK'
    BY <1>1, ReturnRecords DEF RecordsInv, TypeOK
  <2>2. NoDuplicateRules'
    BY <1>1 DEF RecordsInv, NoDuplicateRules
  <2>3. Progress'
    <3>1. ASSUME NEW b \in Clients, pc'[b] = "send"
          PROVE  pc[b] = "send" /\ call'[b] = call[b] /\ made'[b] = made[b]
      BY <1>1, <3>1, ReturnRecords
    <3> QED
      BY <3>1 DEF RecordsInv, Progress
  <2> QED
    BY <2>1, <2>2, <2>3 DEF RecordsInv
<1>2. CASE Return(c, Result(k.op, "EIO")) /\ UNCHANGED <<rules, devs, addrs, made>>
  <2>1. Result(k.op, "EIO") \in Errors \cup {"ok"}
    BY ResultType DEF Errors
  <2> QED
    BY <1>1, <1>2, <2>1
<1>3. CASE Return(c, "ok") /\ UNCHANGED <<rules, devs, addrs, made>>
  BY <1>1, <1>3
<1>4. ASSUME ms # <<>>, NEW answer \in Errors \cup {"ok"},
             NEW e \in Errors \cup {"ok"},
             Rtm(ms[i], answer), e = answer \/ e = "EIO",
             made' = [made EXCEPT ![c] = IF answer = "ok" THEN @ \cup {i} ELSE @],
             IF Continues(e, i < Len(ms))
             THEN call' = [call EXCEPT ![c].sent = i] /\ UNCHANGED <<pc, ret>>
             ELSE Return(c, Result(k.op, e))
      PROVE  RecordsInv'
  <2>1. /\ rules' \in Seq(KernelRule) /\ NoDuplicateRules'
        /\ devs' \subseteq Ifs /\ addrs' \subseteq KernelAddress
        /\ \A a \in addrs' : a.idx \in devs'
    BY <1>0, <1>4, RtmRecords
  <2>2. i \in 1 .. MaxBatch + 1
    BY <1>0, <1>4, NextMessage
  <2>3. /\ made' \in [Clients -> SUBSET (1 .. MaxBatch + 1)]
        /\ made'[c] = IF answer = "ok" THEN made[c] \cup {i} ELSE made[c]
        /\ \A b \in Clients : b # c => made'[b] = made[b]
    <3>1. made \in [Clients -> SUBSET (1 .. MaxBatch + 1)]
      BY DEF RecordsInv, TypeOK
    <3> HIDE DEF i
    <3> QED
      BY <1>4, <2>2, <3>1
  <2>4. CASE Continues(e, i < Len(ms))
    <3>1. e = "ok" /\ answer = "ok" /\ i < Len(ms)
      BY <1>4, <2>4 DEF Continues
    <3>2. call' = [call EXCEPT ![c].sent = i] /\ UNCHANGED <<pc, ret>>
      BY <1>4, <2>4
    <3>3. k.op = "AddAddrs" /\ i < Len(k.addrs)
      <4>1. ASSUME k.op # "AddAddrs" PROVE Len(ms) = 1 /\ i = 1
        <5>1. k.sent = 0
          BY <1>0, <1>4, <4>1, NextMessage
        <5>2. ms = <<RuleMessage(k.op, k.rule)>>
          BY <4>1, MessagesOfCall DEF RecordsInv
        <5>3. i = 1
          BY <5>1
        <5>4. Len(ms) = 1
          <6>1. \A x : Len(<<x>>) = 1
            OBVIOUS
          <6> QED
            BY <5>2, <6>1, Zenon
        <5> QED
          BY <5>3, <5>4
      <4>2. k.op = "AddAddrs"
        <5> HIDE DEF i, ms, k
        <5>1. SUFFICES ASSUME k.op # "AddAddrs" PROVE FALSE
          OBVIOUS
        <5>2. 1 < 1
          BY <3>1, <4>1, <5>1
        <5> QED
          BY <5>2
      <4>3. Len(ms) = Len(k.addrs)
        BY <4>2, MessagesOfCall DEF RecordsInv
      <4> QED
        BY <3>1, <4>2, <4>3
    <3>4. call \in [Clients -> Call] /\ k \in Call
      BY DEF RecordsInv, TypeOK
    <3>5. call' = [call EXCEPT ![c] = [k EXCEPT !.sent = i]]
      BY <3>2, <3>4 DEF Call
    <3>6. [k EXCEPT !.sent = i] \in Call
      <4>1. i \in Nat
        BY <2>2, BoundTypes
      <4> HIDE DEF k, i
      <4> QED
        BY <3>4, <4>1 DEF Call
    <3>7. /\ call' \in [Clients -> Call]
          /\ call'[c].op = k.op /\ call'[c].addrs = k.addrs /\ call'[c].sent = i
          /\ \A b \in Clients : b # c => call'[b] = call[b]
      BY <3>4, <3>5, <3>6 DEF Call
    <3>8. /\ k.sent \in Nat /\ Len(k.addrs) \in Nat /\ Len(k.addrs) <= MaxBatch
          /\ \A b \in Clients : /\ Len(call[b].addrs) <= MaxBatch
                                /\ call[b].sent <= Len(call[b].addrs)
      BY <3>4 DEF RecordsInv, TypeOK, Call
    <3>9. \A b \in Clients : /\ Len(call'[b].addrs) <= MaxBatch
                             /\ call'[b].sent <= Len(call'[b].addrs)
      BY <2>2, <3>3, <3>7, <3>8, BoundTypes
    <3>10. TypeOK'
      BY <2>1, <2>3, <3>2, <3>7, <3>9 DEF RecordsInv, TypeOK
    <3>11. made'[c] = 1 .. i
      <4>1. made[c] = 1 .. k.sent
        BY <1>0 DEF RecordsInv, Progress
      <4> QED
        BY <2>3, <3>1, <3>8, <4>1
    <3>12. Progress'
      BY <2>3, <3>2, <3>3, <3>7, <3>11 DEF RecordsInv, Progress
    <3> QED
      BY <2>1, <3>10, <3>12 DEF RecordsInv
  <2>5. CASE ~Continues(e, i < Len(ms))
    <3>1. Return(c, Result(k.op, e)) /\ Result(k.op, e) \in Errors \cup {"ok"}
      BY <1>4, <2>5, ResultType
    <3>2. TypeOK'
      BY <2>1, <2>3, <3>1, ReturnRecords DEF RecordsInv, TypeOK
    <3>3. ASSUME NEW b \in Clients, pc'[b] = "send"
          PROVE  pc[b] = "send" /\ call'[b] = call[b] /\ made'[b] = made[b]
      BY <2>3, <3>1, <3>3, ReturnRecords
    <3>4. Progress'
      BY <3>3 DEF RecordsInv, Progress
    <3> QED
      BY <2>1, <3>2, <3>4 DEF RecordsInv
  <2> QED
    BY <2>4, <2>5
<1> QED
  BY <1>2, <1>3, <1>4 DEF Execute

LEMMA NextRecords == RecordsInv /\ [Next]_vars => RecordsInv'
<1> SUFFICES ASSUME RecordsInv, [Next]_vars PROVE RecordsInv'
  OBVIOUS
<1>1. CASE UNCHANGED vars
  BY <1>1 DEF vars, RecordsInv, TypeOK, NoDuplicateRules, Progress
<1>2. CASE Environment
  BY <1>2, EnvironmentRecords
<1>3. ASSUME NEW c \in Clients, CallRule(c) PROVE RecordsInv'
  BY <1>3, CallRuleRecords
<1>4. ASSUME NEW c \in Clients, CallAddAddrs(c) PROVE RecordsInv'
  BY <1>4, CallAddAddrsRecords
<1>5. ASSUME NEW c \in Clients, Execute(c) PROVE RecordsInv'
  BY <1>5, ExecuteRecords
<1> QED
  BY <1>1, <1>2, <1>3, <1>4, <1>5 DEF Next

LEMMA RecordsInvariant == Spec => []RecordsInv
BY InitRecords, NextRecords, PTL DEF Spec

(* Types, the places of calls in their lists, and no address without its   *)
(* device, in every state.                                                 *)
THEOREM RecordTypes == Spec => []TypeOK
<1>1. RecordsInv => TypeOK
  BY DEF RecordsInv
<1> QED
  BY <1>1, RecordsInvariant, PTL

(* No two rules are equal in every state, whoever adds and ensures them    *)
(* at the same time (Rule.Modify, NLM_F_EXCL).                             *)
THEOREM RulesNotDoubled == Spec => []NoDuplicateRules
<1>1. RecordsInv => NoDuplicateRules
  BY DEF RecordsInv
<1> QED
  BY <1>1, RecordsInvariant, PTL

-----------------------------------------------------------------------------
(* What a call does when it returns.                                       *)

LEMMA ReturningStep ==
  ASSUME RecordsInv, Next, NEW c \in Clients, Returns(c)
  PROVE  Execute(c)
<1>0. pc \in [Clients -> {"idle", "send"}] /\ pc[c] = "send" /\ pc'[c] = "idle"
  BY DEF RecordsInv, TypeOK, Returns
<1>1. ~Environment
  BY <1>0 DEF Environment
<1>2. ASSUME NEW b \in Clients, NEW op, NEW r, NEW batch, Begin(b, op, r, batch)
      PROVE  FALSE
  BY <1>0, <1>2 DEF Begin
<1>3. ASSUME NEW b \in Clients PROVE ~CallRule(b) /\ ~CallAddAddrs(b)
  BY <1>2 DEF CallRule, CallAddAddrs
<1>4. PICK b \in Clients : Execute(b)
  BY <1>1, <1>3 DEF Next
<1>5. CASE b # c
  <2>1. pc'[c] = pc[c]
    BY <1>0, <1>4, <1>5 DEF Execute, Return
  <2> QED
    BY <1>0, <2>1
<1> QED
  BY <1>4, <1>5

(* It returns because there is no socket, because there is nothing to      *)
(* send, or with the answer to the message of its turn.                    *)
LEMMA LastExchange ==
  ASSUME RecordsInv, Next, NEW c \in Clients, Returns(c)
  PROVE  LET k == call[c]
             ms == Messages(k)
             i == k.sent + 1
         IN
         /\ pc[c] = "send"
         /\ \/ /\ k.sent = 0 /\ ret'[c] = Result(k.op, "EIO")
               /\ UNCHANGED <<rules, made>>
            \/ /\ ms = <<>> /\ ret'[c] = "ok"
               /\ UNCHANGED <<rules, made>>
            \/ /\ ms # <<>>
               /\ \E answer, e \in Errors \cup {"ok"} :
                    /\ Rtm(ms[i], answer)
                    /\ e = answer \/ e = "EIO"
                    /\ made'[c] = IF answer = "ok" THEN made[c] \cup {i}
                                  ELSE made[c]
                    /\ ~Continues(e, i < Len(ms))
                    /\ ret'[c] = Result(k.op, e)
<1>1. Execute(c) /\ pc[c] = "send" /\ pc'[c] = "idle"
  BY ReturningStep DEF Execute, Returns
<1>2. /\ ret \in [Clients -> Errors \cup {"ok"}]
      /\ made \in [Clients -> SUBSET (1 .. MaxBatch + 1)]
      /\ pc \in [Clients -> {"idle", "send"}]
  BY DEF RecordsInv, TypeOK
<1>3. \A e : Return(c, e) => ret'[c] = e
  BY <1>2 DEF Return
<1> DEFINE k == call[c]
           ms == Messages(k)
           i == k.sent + 1
<1>4. CASE /\ k.sent = 0 /\ Return(c, Result(k.op, "EIO"))
           /\ UNCHANGED <<rules, made>>
  BY <1>1, <1>3, <1>4
<1>5. CASE ms = <<>> /\ Return(c, "ok") /\ UNCHANGED <<rules, made>>
  BY <1>1, <1>3, <1>5
<1>6. ASSUME ms # <<>>, NEW answer \in Errors \cup {"ok"},
             NEW e \in Errors \cup {"ok"},
             Rtm(ms[i], answer), e = answer \/ e = "EIO",
             made' = [made EXCEPT ![c] = IF answer = "ok" THEN @ \cup {i} ELSE @],
             IF Continues(e, i < Len(ms))
             THEN call' = [call EXCEPT ![c].sent = i] /\ UNCHANGED <<pc, ret>>
             ELSE Return(c, Result(k.op, e))
      PROVE  /\ ~Continues(e, i < Len(ms)) /\ ret'[c] = Result(k.op, e)
             /\ made'[c] = IF answer = "ok" THEN made[c] \cup {i} ELSE made[c]
  <2>1. ~Continues(e, i < Len(ms))
    BY <1>1, <1>6
  <2>2. made'[c] = IF answer = "ok" THEN made[c] \cup {i} ELSE made[c]
    <3> HIDE DEF i, ms
    <3> QED
      BY <1>2, <1>6
  <2> QED
    BY <1>3, <1>6, <2>1, <2>2
<1> QED
  BY <1>1, <1>4, <1>5, <1>6 DEF Execute

(* The same for a method of a rule.                                        *)
LEMMA RuleExchange ==
  ASSUME RecordsInv, Next, NEW c \in Clients, Returns(c),
         call[c].op \in RuleOps
  PROVE  LET k == call[c]
             q == RuleMessage(k.op, k.rule)
         IN
         \/ ret'[c] = Result(k.op, "EIO") /\ UNCHANGED rules
         \/ \E answer, e \in Errors \cup {"ok"} :
              /\ IF k.op \in {"Add", "Present"} THEN RtmNewRule(q, answer)
                                               ELSE RtmDelRule(q, answer)
              /\ e = answer \/ e = "EIO"
              /\ ret'[c] = Result(k.op, e)
<1> DEFINE k == call[c]
           q == RuleMessage(k.op, k.rule)
<1>1. k.op # "AddAddrs" /\ k.rule \in RuleObject
  BY DEF RuleOps, RecordsInv, TypeOK, Call
<1>2. pc[c] = "send" /\ k.sent = 0
  BY <1>1, LastExchange DEF RecordsInv, Progress
<1>3. Messages(k) = <<q>> /\ Messages(k)[k.sent + 1] = q /\ Messages(k) # <<>>
  <2>1. Messages(k) = <<q>>
    BY <1>1, MessagesOfCall DEF RecordsInv
  <2>2. \A x : <<x>> # <<>> /\ <<x>>[0 + 1] = x
    OBVIOUS
  <2> QED
    BY <1>2, <2>1, <2>2, Zenon
<1>4. q.type = IF k.op \in {"Add", "Present"} THEN "NEWRULE" ELSE "DELRULE"
  BY <1>1, MessageOfRule
<1>5. \A answer : Rtm(q, answer) =>
        IF k.op \in {"Add", "Present"} THEN RtmNewRule(q, answer)
                                       ELSE RtmDelRule(q, answer)
  BY <1>4 DEF Rtm
<1> HIDE DEF k, q
<1> QED
  BY <1>3, <1>5, LastExchange DEF k, q

-----------------------------------------------------------------------------
(* An answer to RTM_NEWRULE that Present takes for success.                *)
LEMMA NewRuleAnswers ==
  ASSUME NEW q, NEW e, RtmNewRule(q, e)
  PROVE  \/ e \notin {"ok", "EEXIST"}
         \/ rules' = rules /\ \E i \in DOMAIN rules : SameRule(rules[i], q)
         \/ \E i \in 1 .. Len(rules) + 1 : rules' = InsertAt(rules, i, NewRule(q))
BY DEF RtmNewRule, Place

(* A Present that returns nil leaves a rule with all the fields its object *)
(* sets, its own or another client's (rule.go:258-268).                    *)
THEOREM PresentAlwaysEnsures == Spec => PresentEnsures
<1>1. ASSUME RecordsInv, Next, NEW c \in Clients, Returns(c),
             call[c].op = "Present", ret'[c] = "ok"
      PROVE  \E i \in DOMAIN rules' :
               /\ call[c].rule.priority \in {0, rules'[i].pref}
               /\ call[c].rule.match \in {Every, rules'[i].match}
               /\ call[c].rule.table \in {0, rules'[i].table}
  <2> DEFINE r == call[c].rule
             q == RuleMessage("Present", r)
             x == NewRule(q)
  <2>1. r \in RuleObject
    BY <1>1 DEF RecordsInv, TypeOK, Call
  <2>2. PICK answer, e \in Errors \cup {"ok"} :
          /\ RtmNewRule(q, answer)
          /\ e = answer \/ e = "EIO"
          /\ ret'[c] = Result("Present", e)
    <3>1. Result("Present", "EIO") # "ok"
      BY DEF Result
    <3> QED
      BY <1>1, <3>1, RuleExchange DEF RuleOps
  <2>3. answer \in {"ok", "EEXIST"}
    BY <1>1, <2>2 DEF Result
  <2>4. /\ r.priority \in {0, x.pref} /\ r.match = x.match
        /\ r.table \in {0, x.table}
    BY <2>1, MessageOfRule DEF NewRule
  <2>5. \E i \in DOMAIN rules' : rules'[i] = x \/ SameRule(rules'[i], q)
    <3>1. CASE rules' = rules /\ \E i \in DOMAIN rules : SameRule(rules[i], q)
      <4> HIDE DEF x, q
      <4> QED
        BY <3>1
    <3>2. CASE \E i \in 1 .. Len(rules) + 1 : rules' = InsertAt(rules, i, x)
      <4>1. PICK i \in 1 .. Len(rules) + 1 : rules' = InsertAt(rules, i, x)
        <5> HIDE DEF x
        <5> QED
          BY <3>2
      <4>2. rules \in Seq(KernelRule) /\ x \in KernelRule
        BY <1>1, <2>1, NewRuleType DEF RecordsInv, TypeOK
      <4> HIDE DEF x
      <4>3. IsInserted(InsertAt(rules, i, x), KernelRule, rules, i, x)
        BY <4>2, InsertAtInserts
      <4>4. i \in DOMAIN rules' /\ rules'[i] = x
        BY <4>1, <4>2, <4>3 DEF IsInserted
      <4> QED
        BY <4>4
    <3>3. RtmNewRule(q, answer)
      BY <2>2
    <3> HIDE DEF q
    <3>4. \/ rules' = rules /\ \E i \in DOMAIN rules : SameRule(rules[i], q)
          \/ \E i \in 1 .. Len(rules) + 1 : rules' = InsertAt(rules, i, x)
      BY <2>3, <3>3, NewRuleAnswers
    <3> HIDE DEF x
    <3> QED
      BY <3>1, <3>2, <3>4
  <2>6. \A y : SameRule(y, q) => /\ y.pref = x.pref /\ y.table = x.table
                                 /\ r.match \in {Every, y.match}
    BY <2>1, MessageOfRule DEF SameRule
  <2> HIDE DEF x, q
  <2> QED
    BY <2>4, <2>5, <2>6
<1>2. RecordsInv /\ [Next]_vars =>
        [\A c \in Clients :
           LET r == call[c].rule IN
           Returns(c) /\ call[c].op = "Present" /\ ret'[c] = "ok" =>
             \E i \in DOMAIN rules' :
               /\ r.priority \in {0, rules'[i].pref}
               /\ r.match \in {Every, rules'[i].match}
               /\ r.table \in {0, rules'[i].table}]_vars
  BY <1>1
<1> QED
  BY <1>2, RecordsInvariant, PTL DEF Spec, PresentEnsures

(* Present of a rule that ReadRules returned, with a priority, finds it:   *)
(* whatever its table, the message asks for the same rule.                 *)
THEOREM PresentAlwaysKeeps == Spec => PresentKeeps
<1>1. ASSUME RecordsInv, Next, NEW c \in Clients, Returns(c),
             call[c].op = "Present", NEW i \in DOMAIN rules,
             rules[i].pref # 0, call[c].rule = ReadRule(rules[i])
      PROVE  rules' = rules
  <2> DEFINE r == call[c].rule
             q == RuleMessage("Present", r)
  <2>1. r \in RuleObject /\ rules[i] \in KernelRule
    BY <1>1 DEF RecordsInv, TypeOK, Call
  <2>2. /\ q.family = "inet" /\ q.excl /\ q.priority = rules[i].pref
        /\ q.match = rules[i].match /\ Asked(q) = rules[i].table
    BY <1>1, <2>1, MessageOfRule DEF ReadRule
  <2>3. NewRule(q) = rules[i]
    <3>1. rules[i].table # 0
      BY <2>1 DEF KernelRule
    <3>2. rules[i] = [pref |-> rules[i].pref, match |-> rules[i].match,
                      table |-> rules[i].table]
      BY <2>1 DEF KernelRule
    <3> HIDE DEF q
    <3> QED
      BY <1>1, <2>2, <3>1, <3>2 DEF NewRule
  <2>4. SameRule(rules[i], q)
    BY <2>2, <2>3 DEF SameRule
  <2>5. \A answer : RtmNewRule(q, answer) => UNCHANGED rules
    BY <2>2, <2>4 DEF RtmNewRule
  <2> QED
    BY <1>1, <2>5, RuleExchange DEF RuleOps
<1>2. RecordsInv /\ [Next]_vars =>
        [\A c \in Clients :
           /\ Returns(c) /\ call[c].op = "Present"
           /\ \E i \in DOMAIN rules : /\ rules[i].pref # 0
                                      /\ call[c].rule = ReadRule(rules[i])
           => rules' = rules]_vars
  BY <1>1
<1> QED
  BY <1>2, RecordsInvariant, PTL DEF Spec, PresentKeeps

(* Del and Absent take away nothing but one rule that fits their object.   *)
THEOREM DelAlwaysFitting == Spec => DelOnlyFitting
<1>1. ASSUME RecordsInv, Next, NEW c \in Clients, Returns(c),
             call[c].op \in {"Del", "Absent"}
      PROVE  \/ rules' = rules
             \/ \E i \in DOMAIN rules :
                  /\ rules' = RemoveAt(rules, i)
                  /\ call[c].rule.priority \in {0, rules[i].pref}
                  /\ call[c].rule.match \in {Every, rules[i].match}
                  /\ call[c].rule.table \in {0, rules[i].table}
  <2> DEFINE r == call[c].rule
             q == RuleMessage(call[c].op, r)
  <2>1. r \in RuleObject
    BY <1>1 DEF RecordsInv, TypeOK, Call
  <2>2. q.priority = r.priority /\ q.match = r.match /\ Asked(q) = r.table
    BY <2>1, MessageOfRule
  <2>3. rules' = rules \/ \E answer : RtmDelRule(q, answer)
    BY <1>1, RuleExchange DEF RuleOps
  <2> HIDE DEF q
  <2>4. ASSUME NEW i \in FirstFit(q), rules' = RemoveAt(rules, i)
        PROVE  /\ i \in DOMAIN rules /\ r.priority \in {0, rules[i].pref}
               /\ r.match \in {Every, rules[i].match}
               /\ r.table \in {0, rules[i].table}
    BY <2>2, <2>4 DEF FirstFit, Fits
  <2> QED
    BY <2>3, <2>4 DEF RtmDelRule
<1>2. RecordsInv /\ [Next]_vars =>
        [\A c \in Clients :
           LET r == call[c].rule IN
           Returns(c) /\ call[c].op \in {"Del", "Absent"} =>
             \/ rules' = rules
             \/ \E i \in DOMAIN rules :
                  /\ rules' = RemoveAt(rules, i)
                  /\ r.priority \in {0, rules[i].pref}
                  /\ r.match \in {Every, rules[i].match}
                  /\ r.table \in {0, rules[i].table}]_vars
  BY <1>1
<1> QED
  BY <1>2, RecordsInvariant, PTL DEF Spec, DelOnlyFitting

(* The addresses AddAddrs has added when it returns are the first of its   *)
(* list, all of them if it returns nil (addr.go:239, rtnetlink.go:119).    *)
THEOREM BatchAlwaysPrefix == Spec => BatchPrefix
<1>1. ASSUME RecordsInv, Next, NEW c \in Clients, Returns(c),
             call[c].op = "AddAddrs"
      PROVE  \E n \in call[c].sent .. call[c].sent + 1 :
               /\ made'[c] = 1 .. n
               /\ ret'[c] = "ok" => n = Len(call[c].addrs)
  <2> DEFINE k == call[c]
             i == k.sent + 1
  <2>1. /\ k.sent \in Nat /\ Len(k.addrs) \in Nat /\ k.sent <= Len(k.addrs)
    BY <1>1 DEF RecordsInv, TypeOK, Call
  <2>2. pc[c] = "send" /\ made[c] = 1 .. k.sent
    BY <1>1, LastExchange DEF RecordsInv, Progress
  <2>3. \A e : Result("AddAddrs", e) = e
    BY DEF Result
  <2>4. CASE ret'[c] = "EIO" /\ UNCHANGED made
    BY <2>1, <2>2, <2>4
  <2>5. CASE Messages(k) = <<>> /\ UNCHANGED made
    <3>1. k.addrs = <<>>
      BY <1>1, <2>5, MessagesOfCall DEF RecordsInv
    <3>2. Len(k.addrs) = 0
      BY <3>1
    <3> QED
      BY <2>1, <2>2, <2>5, <3>2
  <2>6. ASSUME Messages(k) # <<>>, NEW answer, NEW e,
               e = answer \/ e = "EIO",
               made'[c] = IF answer = "ok" THEN made[c] \cup {i} ELSE made[c],
               ~Continues(e, i < Len(Messages(k))), ret'[c] = e
        PROVE  \E n \in k.sent .. k.sent + 1 :
                 /\ made'[c] = 1 .. n
                 /\ ret'[c] = "ok" => n = Len(k.addrs)
    <3>1. k.sent < Len(k.addrs) /\ Len(Messages(k)) = Len(k.addrs)
      BY <1>1, <2>2, <2>6, NextMessage, MessagesOfCall DEF RecordsInv
    <3> HIDE DEF k
    <3>2. CASE answer = "ok"
      <4>1. made'[c] = 1 .. i
        BY <2>1, <2>2, <2>6, <3>2
      <4>2. e = "ok" => i = Len(k.addrs)
        BY <2>1, <2>6, <3>1 DEF Continues
      <4> QED
        BY <2>1, <2>6, <4>1, <4>2
    <3>3. CASE answer # "ok"
      <4>1. made'[c] = 1 .. k.sent /\ ret'[c] # "ok"
        BY <2>2, <2>6, <3>3
      <4> QED
        BY <2>1, <4>1
    <3> QED
      BY <3>2, <3>3
  <2>7. \/ ret'[c] = "EIO" /\ UNCHANGED made
        \/ Messages(k) = <<>> /\ UNCHANGED made
        \/ /\ Messages(k) # <<>>
           /\ \E answer, e :
                /\ e = answer \/ e = "EIO"
                /\ made'[c] = IF answer = "ok" THEN made[c] \cup {i} ELSE made[c]
                /\ ~Continues(e, i < Len(Messages(k))) /\ ret'[c] = e
    <3>1. \/ k.sent = 0 /\ ret'[c] = Result(k.op, "EIO") /\ UNCHANGED <<rules, made>>
          \/ Messages(k) = <<>> /\ ret'[c] = "ok" /\ UNCHANGED <<rules, made>>
          \/ /\ Messages(k) # <<>>
             /\ \E answer, e \in Errors \cup {"ok"} :
                  /\ Rtm(Messages(k)[i], answer)
                  /\ e = answer \/ e = "EIO"
                  /\ made'[c] = IF answer = "ok" THEN made[c] \cup {i} ELSE made[c]
                  /\ ~Continues(e, i < Len(Messages(k)))
                  /\ ret'[c] = Result(k.op, e)
      BY <1>1, LastExchange, Zenon
    <3>2. \A e : Result(k.op, e) = e
      BY <1>1, <2>3, Zenon
    <3> HIDE DEF k, i
    <3> QED
      BY <3>1, <3>2
  <2> QED
    BY <2>4, <2>5, <2>6, <2>7, Zenon
<1>2. RecordsInv /\ [Next]_vars =>
        [\A c \in Clients : Returns(c) /\ call[c].op = "AddAddrs" =>
           \E n \in call[c].sent .. call[c].sent + 1 :
             /\ made'[c] = 1 .. n
             /\ ret'[c] = "ok" => n = Len(call[c].addrs)]_vars
  BY <1>1
<1> QED
  BY <1>2, RecordsInvariant, PTL DEF Spec, BatchPrefix
=============================================================================
