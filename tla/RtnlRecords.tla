----------------------------- MODULE RtnlRecords -----------------------------
(***************************************************************************)
(* Policy rules (src/rule.go) and addresses (src/addr.go): clients that    *)
(* add, delete and read them at the same time.  The changes go through     *)
(* netlinkUpdate (src/rtnetlink.go), which sends a list of messages over   *)
(* one socket, one Execute after the other, and stops at the first error:  *)
(* one message for a rule, one for every address of AddAddrs.              *)
(***************************************************************************)
EXTENDS Naturals, Sequences, SequencesExt

CONSTANTS
  Clients,      \* the goroutines
  Ifs,          \* the ifindexes of the devices that come and go
  RuleInputs,   \* the *Rule values the clients call methods on
  AddrInputs,   \* the *Address values the clients give AddAddrs
  Matches,      \* the selectors of rules: a Src, Dest, Oif, Iif or Fwmark
  Addressed,    \* those that are a Src or a Dest
  Inet, Inet6,  \* the prefixes of the two families
  Mapped,       \* IPv4-mapped prefixes, as ParseAddr makes them
  MaxBatch,     \* bound: the longest list for AddAddrs
  MaxRules,     \* bound: the number of rules at which clients stop adding
  MaxPref,      \* the largest priority in use (32767 after boot)
  Faults        \* "dial": no socket; "recv": the answer is lost

Every == "every"   \* no selector
Tables == Nat      \* uint32
Local == 255       \* RT_TABLE_LOCAL
Main == 254        \* RT_TABLE_MAIN
Default == 253     \* RT_TABLE_DEFAULT
Empty == 1         \* the table the kernel finds for a rule without one

(* Fib.Family, Priority, the selectors and Table of a Rule; zero is unset. *)
RuleObject == [family : {"unspec", "inet"}, priority : 0 .. MaxPref,
               match : Matches \cup {Every}, table : Tables]

AnyPrefix == Inet \cup Inet6 \cup Mapped

(* Msg.Index and Info.Address of an Address                                *)
Address == [idx : Ifs \cup {0}, prefix : AnyPrefix]

ASSUME RecordsAssumption ==
  /\ Ifs \subseteq Nat \ {0}
  /\ MaxBatch \in Nat /\ MaxRules \in Nat /\ MaxPref \in Nat \ {0, 1}
  /\ RuleInputs \subseteq RuleObject
  /\ AddrInputs \subseteq Address
  /\ Every \notin Matches /\ Addressed \subseteq Matches
  /\ Inet \cap Inet6 = {} /\ Mapped \cap (Inet \cup Inet6) = {}
  /\ Faults \subseteq {"dial", "recv"}

VARIABLES
  rules,   \* the IPv4 rules, in the order the kernel tries them
  devs,    \* the ifindexes in use
  addrs,   \* the addresses of the devices
  pc,      \* pc[c]: "send" while netlinkUpdate has messages to send
  call,    \* call[c]: the method and its argument, and how many are sent
  ret,     \* ret[c]: what the last call returned, "ok" for nil
  made     \* history: the messages of the call the kernel has carried out

vars == <<rules, devs, addrs, pc, call, ret, made>>

KernelRule == [pref : 0 .. MaxPref, match : Matches \cup {Every},
               table : Tables \ {0}]

KernelAddress == [idx : Ifs, prefix : Inet \cup Inet6]

Errors == {"EEXIST", "ENOENT", "ENODEV", "EINVAL", "EAFNOSUPPORT", "EIO"}

Blank == [family |-> "unspec", priority |-> 0, match |-> Every, table |-> 0]

NoCall == [op |-> "none", rule |-> Blank, addrs |-> <<>>, sent |-> 0]

RuleOps == {"Add", "Present", "Del", "Absent"}

Call == [op : RuleOps \cup {"AddAddrs", "none"}, rule : RuleObject,
         addrs : Seq(Address), sent : Nat]

(* Types, the reference from addresses to devices, and the place of a call *)
(* in its list of messages, which never lies behind the end.               *)
TypeOK ==
  /\ rules \in Seq(KernelRule)
  /\ devs \subseteq Ifs
  /\ addrs \subseteq KernelAddress
  /\ \A a \in addrs : a.idx \in devs
  /\ pc \in [Clients -> {"idle", "send"}]
  /\ call \in [Clients -> Call]
  /\ \A c \in Clients : /\ Len(call[c].addrs) <= MaxBatch
                        /\ call[c].sent <= Len(call[c].addrs)
  /\ made \in [Clients -> SUBSET (1 .. MaxBatch + 1)]
  /\ ret \in [Clients -> Errors \cup {"ok"}]

-----------------------------------------------------------------------------
(* The messages.                                                           *)

(* Mutants: FRA_TABLE only for tables above 256; no FRA_PRIORITY; no       *)
(* NLM_F_EXCL.                                                             *)
TableField256(r) == IF r.table > 256 THEN r.table ELSE 0
PriorityField0(r) == 0
NotExclusive(op) == FALSE

(* The table is in the header, eight bits wide, or in an attribute.        *)
TableField(r) == IF r.table >= 256 THEN r.table ELSE 0
PriorityField(r) == r.priority
Exclusive(op) == TRUE

(* From table 256 on the header keeps what an earlier use of the object    *)
(* has left there.  It is 0 here: the kernel does not look at it.          *)
HdrTable(r) == IF r.table < 256 THEN r.table ELSE 0

RuleMessage(op, r) ==
  [type |-> IF op \in {"Add", "Present"} THEN "NEWRULE" ELSE "DELRULE",
   family |-> r.family, priority |-> PriorityField(r), match |-> r.match,
   hdrTable |-> HdrTable(r), table |-> TableField(r), excl |-> Exclusive(op)]

(* Rule.Unmarshal of an entry of the dump ReadRules makes; it always has   *)
(* FRA_TABLE.                                                              *)
ReadRule(x) == [family |-> "inet", priority |-> x.pref, match |-> x.match,
                table |-> x.table]

(* Address.Family: an IPv4-mapped address is an IPv4 address, but keeps    *)
(* its prefix length of up to 128 bits.                                    *)
Family(p) == IF p \in Inet6 THEN "inet6" ELSE "inet"

AddrMessage(a) == [type |-> "NEWADDR", addr |-> a]

Messages(k) == IF k.op = "AddAddrs"
               THEN [i \in 1 .. Len(k.addrs) |-> AddrMessage(k.addrs[i])]
               ELSE <<RuleMessage(k.op, k.rule)>>

-----------------------------------------------------------------------------
(* The kernel (external).                                                  *)

Asked(q) == IF q.table # 0 THEN q.table ELSE q.hdrTable

(* fib_default_rule_pref: just before the second rule                      *)
DefaultPref == IF Len(rules) >= 2 /\ rules[2].pref > 0 THEN rules[2].pref - 1
               ELSE 0

NewRule(q) ==
  [pref |-> IF q.priority # 0 THEN q.priority ELSE DefaultPref,
   match |-> q.match, table |-> IF Asked(q) # 0 THEN Asked(q) ELSE Empty]

(* A new rule goes before the first rule of a greater priority.            *)
Place(x) == {i \in 1 .. Len(rules) + 1 :
               /\ \A j \in 1 .. i - 1 : rules[j].pref <= x.pref
               /\ i <= Len(rules) => rules[i].pref > x.pref}

(* DELRULE takes away the first rule that has the fields of the message;   *)
(* a field that is not there, or zero, matches every rule.                 *)
Fits(x, q) == /\ q.priority \in {0, x.pref}
              /\ q.match \in {Every, x.match}
              /\ Asked(q) \in {0, x.table}

FirstFit(q) == {i \in DOMAIN rules : /\ Fits(rules[i], q)
                                     /\ \A j \in 1 .. i - 1 : ~Fits(rules[j], q)}

(* What NLM_F_EXCL refuses: a Src or Dest that the message has not got     *)
(* counts as equal, every other selector is compared as it is.             *)
SameRule(x, q) == /\ x.pref = NewRule(q).pref /\ x.table = NewRule(q).table
                  /\ \/ x.match = q.match
                     \/ q.match = Every /\ x.match \in Addressed

RtmNewRule(q, e) ==
  LET exists == q.excl /\ \E i \in DOMAIN rules : SameRule(rules[i], q) IN
  \/ q.family = "unspec" /\ e = "EAFNOSUPPORT" /\ UNCHANGED rules
  \/ q.family = "inet" /\ exists /\ e = "EEXIST" /\ UNCHANGED rules
  \/ /\ q.family = "inet" /\ ~exists /\ e = "ok"
     /\ \E i \in Place(NewRule(q)) : rules' = InsertAt(rules, i, NewRule(q))

RtmDelRule(q, e) ==
  \/ q.family = "unspec" /\ e = "EAFNOSUPPORT" /\ UNCHANGED rules
  \/ q.family = "inet" /\ FirstFit(q) = {} /\ e = "ENOENT" /\ UNCHANGED rules
  \/ /\ q.family = "inet" /\ e = "ok"
     /\ \E i \in FirstFit(q) : rules' = RemoveAt(rules, i)

RtmNewAddr(a, e) ==
  \/ a.idx \notin devs /\ e = "ENODEV" /\ UNCHANGED addrs
  \/ a.idx \in devs /\ a.prefix \in Mapped /\ e = "EINVAL" /\ UNCHANGED addrs
  \/ a.idx \in devs /\ a \in addrs /\ e = "EEXIST" /\ UNCHANGED addrs
  \/ /\ a.idx \in devs /\ a.prefix \notin Mapped /\ a \notin addrs
     /\ e = "ok" /\ addrs' = addrs \cup {a}

Rtm(q, e) == /\ CASE q.type = "NEWRULE" -> RtmNewRule(q, e) /\ UNCHANGED addrs
                  [] q.type = "DELRULE" -> RtmDelRule(q, e) /\ UNCHANGED addrs
                  [] q.type = "NEWADDR" -> RtmNewAddr(q.addr, e) /\ UNCHANGED rules
             /\ UNCHANGED devs

(* Other programs plug and unplug devices and take addresses away.         *)
Environment ==
  /\ \/ \E i \in Ifs \ devs : devs' = devs \cup {i} /\ UNCHANGED addrs
     \/ \E i \in devs : /\ devs' = devs \ {i}
                        /\ addrs' = {a \in addrs : a.idx # i}
     \/ \E a \in addrs : addrs' = addrs \ {a} /\ UNCHANGED devs
  /\ UNCHANGED <<rules, pc, call, ret, made>>

-----------------------------------------------------------------------------
(* Clients.                                                                *)

Begin(c, op, r, batch) ==
  /\ pc[c] = "idle"
  /\ pc' = [pc EXCEPT ![c] = "send"]
  /\ call' = [call EXCEPT ![c] = [op |-> op, rule |-> r, addrs |-> batch,
                                  sent |-> 0]]
  /\ made' = [made EXCEPT ![c] = {}]
  /\ UNCHANGED <<rules, devs, addrs, ret>>

(* Add, Present, Del and Absent of a Rule                                  *)
CallRule(c) ==
  \E op \in RuleOps, r \in RuleInputs :
    /\ op \in {"Add", "Present"} => Len(rules) < MaxRules
    /\ Begin(c, op, r, <<>>)

(* AddAddrs; AddAddr and Link.AddAddr give it one address.                 *)
CallAddAddrs(c) ==
  \E n \in 0 .. MaxBatch : \E batch \in [1 .. n -> AddrInputs] :
    Begin(c, "AddAddrs", Blank, batch)

Return(c, e) == /\ pc' = [pc EXCEPT ![c] = "idle"]
                /\ ret' = [ret EXCEPT ![c] = e]
                /\ call' = [call EXCEPT ![c] = NoCall]

(* Present takes "file exists" for success.  Absent returns an error when  *)
(* it is "no such file", and nil for every other (rule.go:280).            *)
Result(op, e) ==
  CASE op = "Present" -> IF e = "EEXIST" THEN "ok" ELSE e
    [] op = "Absent" -> IF e = "ENOENT" THEN e ELSE "ok"
    [] OTHER -> e

(* Mutants: netlinkUpdate goes on after an error; it runs past the list.   *)
GoesOn(e, more) == more
RunsPast(e, more) == e = "ok"

Continues(e, more) == more /\ e = "ok"

(* One Execute of netlinkUpdate.  The socket is dialled before the first;  *)
(* without messages that is all there is.                                  *)
Execute(c) ==
  LET k == call[c]
      ms == Messages(k)
      i == k.sent + 1
  IN
  /\ pc[c] = "send"
  /\ \/ /\ "dial" \in Faults /\ k.sent = 0
        /\ Return(c, Result(k.op, "EIO"))
        /\ UNCHANGED <<rules, devs, addrs, made>>
     \/ /\ ms = <<>>
        /\ Return(c, "ok")
        /\ UNCHANGED <<rules, devs, addrs, made>>
     \/ /\ ms # <<>>
        /\ \E answer, e \in Errors \cup {"ok"} :
             /\ Rtm(ms[i], answer)
             /\ e = answer \/ ("recv" \in Faults /\ e = "EIO")
             /\ made' = [made EXCEPT ![c] = IF answer = "ok" THEN @ \cup {i}
                                                             ELSE @]
             /\ IF Continues(e, i < Len(ms))
                THEN /\ call' = [call EXCEPT ![c].sent = i]
                     /\ UNCHANGED <<pc, ret>>
                ELSE Return(c, Result(k.op, e))

-----------------------------------------------------------------------------
Init ==
  /\ rules = <<[pref |-> 0, match |-> Every, table |-> Local],
               [pref |-> MaxPref - 1, match |-> Every, table |-> Main],
               [pref |-> MaxPref, match |-> Every, table |-> Default]>>
  /\ devs = {}
  /\ addrs = {}
  /\ pc = [c \in Clients |-> "idle"]
  /\ call = [c \in Clients |-> NoCall]
  /\ ret = [c \in Clients |-> "ok"]
  /\ made = [c \in Clients |-> {}]

Next == \/ Environment
        \/ \E c \in Clients : CallRule(c) \/ CallAddAddrs(c) \/ Execute(c)

Spec == Init /\ [][Next]_vars

-----------------------------------------------------------------------------
(* Properties.                                                             *)

Steps(c) == pc'[c] # pc[c] \/ call'[c] # call[c]
Returns(c) == pc[c] # "idle" /\ pc'[c] = "idle"

(* No two rules of one priority have the same selectors and table, however *)
(* many clients add and ensure the same rule at the same time: Modify asks *)
(* the kernel to refuse what exists (rule.go:295) instead of looking first.*)
NoDuplicateRules ==
  \A i, j \in DOMAIN rules : rules[i] = rules[j] => i = j

(* When Present returns nil a rule with every field the object sets is     *)
(* there, whether this call added it or another client did.  It may have a *)
(* Src or a Dest that the object does not set: the kernel says that such a *)
(* rule exists, and Present believes it (rule.go:262).                     *)
PresentEnsures ==
  [][\A c \in Clients :
       LET r == call[c].rule IN
       Returns(c) /\ call[c].op = "Present" /\ ret'[c] = "ok" =>
         \E i \in DOMAIN rules' :
           /\ r.priority \in {0, rules'[i].pref}
           /\ r.match \in {Every, rules'[i].match}
           /\ r.table \in {0, rules'[i].table}]_vars

(* Present of a rule as ReadRules returned it (Unmarshal) changes nothing  *)
(* while the rule is there, provided it has a priority: tables below 256   *)
(* go out in the header and the others in an attribute, and both come back *)
(* in Table.  The rule of priority 0 does not come through: its priority   *)
(* reads as unset, and Present adds it again under another one.            *)
PresentKeeps ==
  [][\A c \in Clients :
       /\ Returns(c) /\ call[c].op = "Present"
       /\ \E i \in DOMAIN rules : /\ rules[i].pref # 0
                                  /\ call[c].rule = ReadRule(rules[i])
       => rules' = rules]_vars

(* Del and Absent take away at most one rule, and one that has every field *)
(* the object sets, whatever rules other clients have added meanwhile.     *)
(* Fields that are not set are wildcards: it need not be the rule the      *)
(* caller added.                                                           *)
DelOnlyFitting ==
  [][\A c \in Clients :
       LET r == call[c].rule IN
       Returns(c) /\ call[c].op \in {"Del", "Absent"} =>
         \/ rules' = rules
         \/ \E i \in DOMAIN rules :
              /\ rules' = RemoveAt(rules, i)
              /\ r.priority \in {0, rules[i].pref}
              /\ r.match \in {Every, rules[i].match}
              /\ r.table \in {0, rules[i].table}]_vars

(* AddAddrs is not atomic, but orderly: when it returns, the kernel has    *)
(* added the addresses up to some place of the list and none behind it,    *)
(* all of them if it returned nil, and if it returned an error at most the *)
(* one the error is about is unaccounted for (a lost answer).              *)
BatchPrefix ==
  [][\A c \in Clients : Returns(c) /\ call[c].op = "AddAddrs" =>
       \E n \in call[c].sent .. call[c].sent + 1 :
         /\ made'[c] = 1 .. n
         /\ ret'[c] = "ok" => n = Len(call[c].addrs)]_vars
=============================================================================
