------------------------------ MODULE RtnlCommands ------------------------------
(***************************************************************************)
(* The link and vrf commands of nl (src/cmd/nl/link.go, vrf.go): processes *)
(* that each run one command after another over the methods of RtnlLink.   *)
(* A command is a short script: look up a link by name, keep its index,    *)
(* and call one method; or dump the links and look up the master of each.  *)
(* Between two calls of a script the other processes run.  log.Fatal ends  *)
(* a command at the first error.                                           *)
(*                                                                         *)
(* Left out: --link of vxlan (a second lookup that only fills an attribute *)
(* of the kind), set and unset vlan (RtnlVlan), and of list the filter on  *)
(* the kind, the addresses, the VLANs (a Read that leaves the master as    *)
(* the dump had it and whose error is ignored), and what is printed.       *)
(***************************************************************************)
EXTENDS RtnlLink, FiniteSets

CONSTANTS
  Own,          \* the namespace of OpenDefaultContext
  Given         \* the commands that are given

Lookers == {"up", "down", "mtu", "delete"}
Makers == {"add bridge", "add vxlan", "add veth", "add wg", "vrf add", "vrf del"}

(* A command line.  Only veth can be in another namespace.                 *)
Command == [do : Lookers \cup Makers \cup {"list"}, ns : Namespaces,
            name : Names \cup {NoName}, bridge : Names \cup {NoName},
            peer : Names \cup {NoName}, arg : Mtus \cup {0}]

NoCommand == [do |-> "none", ns |-> Own, name |-> NoName, bridge |-> NoName,
              peer |-> NoName, arg |-> 0]

ASSUME CommandAssumption ==
  /\ Own \in Namespaces
  /\ Given \subseteq Command
  /\ \A k \in Given :
       /\ [ns |-> k.ns, target |-> NoNs] \in Contexts
       /\ k.ns # Own => k.do = "add veth"
       /\ k.do \in Lookers \cup Makers => k.name # NoName
       /\ k.bridge # NoName => k.do \in {"add vxlan", "add veth", "list"}
       /\ (k.peer # NoName) <=> (k.do = "add veth")

VARIABLES
  cmd,     \* cmd[c]: the command line of process c
  stage,   \* stage[c]: where its script is; "ok" or "failed" at its end
  found,   \* found[c]: the index its lookup has returned
  rows     \* rows[c]: of list, the links still to show that have a master

script == <<cmd, stage, found, rows>>
nlvars == <<links, last, obj, pc, call, ret, home, cmd, stage, found, rows>>

Row == [idx : Indices, master : Indices]

Done == {"ok", "failed"}
Stages == Done \cup {"dumped", "lookup", "found", "made", "act", "list", "row"}

NlTypeOK ==
  /\ cmd \in [Clients -> Command \cup {NoCommand}]
  /\ stage \in [Clients -> Stages]
  /\ found \in [Clients -> 0 .. MaxIndex]
  /\ rows \in [Clients -> SUBSET Row]

-----------------------------------------------------------------------------
(* The parts of the scripts.                                               *)

(* The link a script looks up by name before anything else.                *)
Sought(k) == IF k.do \in Lookers THEN k.name ELSE k.bridge

KindOf(do) == CASE do \in {"add bridge", "vrf add", "vrf del"} -> "bridge"
                [] do = "add veth" -> "veth"
                [] do \in {"add vxlan", "add wg"} -> "soft"

Method(do) == CASE do = "up" -> "Up" [] do = "down" -> "Down"
                [] do = "mtu" -> "SetMtu" [] do \in {"delete", "vrf del"} -> "Del"
                [] OTHER -> "Add"

(* Mutant: links without a master have their master looked up too.         *)
DumpAll(n) == {[idx |-> d.idx, master |-> d.master] :
                 d \in {e \in links : e.ns = n}}

(* ReadLinks(ctx, nil): the rows of the dump that have a master.           *)
Dump(n) == {[idx |-> d.idx, master |-> d.master] :
              d \in {e \in links : e.ns = n /\ e.master # 0}}

(* Mutant: the rows are dumped anew when the bridge has been found.        *)
DumpedAnew(rs, i) == {r \in UNION {Dump(n) : n \in Namespaces} :
                        r.master = i \/ r.idx = i}

(* bridgeFilter                                                            *)
Filtered(rs, i) == {r \in rs : r.master = i \/ r.idx = i}

Goto(c, s) == stage' = [stage EXCEPT ![c] = s]

(* os.Exit, or the end of main                                             *)
Exit(c, s) == /\ Goto(c, s)
              /\ cmd' = [cmd EXCEPT ![c] = NoCommand]
              /\ found' = [found EXCEPT ![c] = 0]
              /\ rows' = [rows EXCEPT ![c] = {}]

(* Mutant: only what a lookup may return is looked at.                     *)
FatalLookup(e) == e \in {"notfound", "notunique"}

(* log.Fatal after a call that has failed                                  *)
Fatal(e) == e # "ok"

-----------------------------------------------------------------------------
(* The steps of a process; each is a step of its RtnlLink client, or none. *)

(* nl opens contexts without a target.                                     *)
CallsIn(c, op) == /\ call'[c].op = op /\ call'[c].ns = cmd'[c].ns
                  /\ call'[c].target = NoNs

GetByName(c) == /\ CallGet(c) /\ CallsIn(c, "GetLink")
                /\ obj'[c].name = Sought(cmd'[c])
                /\ Goto(c, "lookup")

(* &rtnl.Link{Info: ...}, with the index of the bridge if there is one     *)
Make(c) == /\ Construct(c)
           /\ obj'[c] = NewLink(obj[c], cmd'[c].name,
                                IF cmd'[c].do = "add veth" THEN cmd'[c].ns ELSE NoNs,
                                KindOf(cmd'[c].do), cmd'[c].peer, found'[c])
           /\ Goto(c, "made")

Begin(c) ==
  /\ stage[c] \in Done
  /\ \E k \in Given : cmd' = [cmd EXCEPT ![c] = k]
  /\ UNCHANGED found
  /\ CASE cmd'[c].do = "list" ->
            /\ rows' = [rows EXCEPT ![c] = Dump(cmd'[c].ns)]
            /\ Goto(c, IF cmd'[c].bridge = NoName THEN "list" ELSE "dumped")
            /\ UNCHANGED vars
       [] cmd'[c].do # "list" /\ Sought(cmd'[c]) # NoName ->
            GetByName(c) /\ UNCHANGED rows
       [] OTHER -> Make(c) /\ UNCHANGED rows

(* list whose dump fails does not come further.                            *)
DumpFails(c) ==
  /\ stage[c] \in Done
  /\ Faults # {} /\ \E k \in Given : k.do = "list"
  /\ Exit(c, "failed")
  /\ UNCHANGED vars

(* list --bridge looks the bridge up after the dump.                       *)
LookupBridge(c) ==
  /\ stage[c] = "dumped"
  /\ UNCHANGED <<cmd, found, rows>>
  /\ GetByName(c)

(* With the link in hand: its method, or the object with its index.        *)
Act(c) ==
  /\ stage[c] = "found"
  /\ \/ /\ cmd[c].do \in Lookers
        /\ CallModify(c) \/ CallUpdate(c)
        /\ \/ /\ pc'[c] = "idle" /\ cmd[c].do = "mtu" /\ cmd[c].arg = 0
              /\ Exit(c, "ok")
           \/ /\ UNCHANGED <<cmd, found, rows>>
              /\ CallsIn(c, Method(cmd[c].do))
              /\ cmd[c].do = "mtu" => call'[c].arg = cmd[c].arg
              /\ Goto(c, "act")
     \/ /\ cmd[c].do \in Makers
        /\ UNCHANGED <<cmd, found, rows>>
        /\ Make(c)

(* Add, or Del of vrf del: that object has a name and no index.            *)
Send(c) ==
  /\ stage[c] = "made"
  /\ UNCHANGED <<cmd, found, rows>>
  /\ CallModify(c) /\ CallsIn(c, Method(cmd[c].do))
  /\ Goto(c, "act")

(* Mutant: the row that is shown is not done with.                         *)
ShownAgain(rs, r) == rs

(* The rows that are left when r is shown.                                 *)
RowsAfter(rs, r) == rs \ {r}

(* showLink: the name of the master                                        *)
Show(c) ==
  /\ stage[c] = "list"
  /\ \/ rows[c] = {} /\ Exit(c, "ok") /\ UNCHANGED vars
     \/ \E r \in rows[c] :
          /\ UNCHANGED <<cmd, found>>
          /\ CallGet(c) /\ CallsIn(c, "GetLinkByIndex") /\ obj'[c].idx = r.master
          /\ rows' = [rows EXCEPT ![c] = RowsAfter(@, r)]
          /\ Goto(c, "row")

(* The next exchange of the method that is running, and what the script    *)
(* makes of its result.                                                    *)
Work(c) ==
  /\ Continue(c)
  /\ CASE pc'[c] # "idle" -> UNCHANGED script
       [] pc'[c] = "idle" /\ Fatal(ret'[c]) -> Exit(c, "failed")
       [] pc'[c] = "idle" /\ ~Fatal(ret'[c]) ->
            \/ stage[c] = "act" /\ Exit(c, "ok")
            \/ /\ stage[c] = "row" /\ Goto(c, "list")
               /\ UNCHANGED <<cmd, found, rows>>
            \/ /\ stage[c] = "lookup"
               /\ found' = [found EXCEPT ![c] = obj'[c].idx]
               /\ rows' = [rows EXCEPT ![c] = Filtered(@, obj'[c].idx)]
               /\ Goto(c, IF cmd[c].do = "list" THEN "list" ELSE "found")
               /\ UNCHANGED cmd

-----------------------------------------------------------------------------
NlInit ==
  /\ Init
  /\ cmd = [c \in Clients |-> NoCommand]
  /\ stage = [c \in Clients |-> "ok"]
  /\ found = [c \in Clients |-> 0]
  /\ rows = [c \in Clients |-> {}]

Script(c) == LookupBridge(c) \/ Act(c) \/ Send(c) \/ Show(c) \/ Work(c)

NlNext == \E c \in Clients : Begin(c) \/ DumpFails(c) \/ Script(c)

NlSpec == NlInit /\ [][NlNext]_nlvars

(* A process that has been started gets the processor.                     *)
FairNlSpec == NlSpec /\ \A c \in Clients : WF_nlvars(Script(c))

-----------------------------------------------------------------------------
(* Properties.                                                             *)

(* Every command ends, whatever the other processes do to the links.       *)
CommandsEnd == \A c \in Clients : (stage[c] \notin Done) ~> (stage[c] \in Done)

(* The exchanges a running method may still make.                          *)
Exchanges(c) ==
  CASE pc[c] = "idle" -> 0
    [] pc[c] = "modify" /\ call[c].op \in {"Add", "Present"} -> 2
    [] pc[c] = "read" /\ call[c].op \notin {"GetLink", "GetLinkByIndex"} -> 2
    [] OTHER -> 1

(* The steps a command may still take.                                     *)
StepsLeft(c) ==
  LET showing == 2 * Cardinality(rows[c]) + 1
  IN CASE stage[c] \in Done -> 0
       [] stage[c] = "made" -> 3
       [] stage[c] = "found" -> 4
       [] stage[c] = "act" -> Exchanges(c)
       [] stage[c] = "list" -> showing
       [] stage[c] = "row" -> Exchanges(c) + showing
       [] stage[c] = "dumped" -> 2 + showing
       [] stage[c] = "lookup" ->
            Exchanges(c) + (IF cmd[c].do = "list" THEN showing ELSE 4)

(* A command takes at most five steps, and list at most two for each link  *)
(* that had a master when it was given, and three more: every step brings  *)
(* the end nearer, there is no loop that another process could feed, and   *)
(* nothing another process does to the links prolongs a command.           *)
CommandsBounded ==
  [][\A c \in Clients :
       IF Script(c) THEN StepsLeft(c)' < StepsLeft(c)
       ELSE stage[c] \notin Done => StepsLeft(c)' = StepsLeft(c)]_nlvars

Ends(c, s) == stage[c] \notin Done /\ stage'[c] = s

(* What a command that has exited with 0 has brought about.                *)
Effect(k, i) ==
  LET here == {d \in links' : d.ns = k.ns}
  IN CASE k.do = "up" -> \A d \in here : d.idx = i => "UP" \in d.flags
       [] k.do = "down" -> \A d \in here : d.idx = i => "UP" \notin d.flags
       [] k.do = "mtu" -> k.arg # 0 => \E d \in here : d.idx = i /\ d.mtu = k.arg
       [] k.do \in {"delete", "vrf del"} -> \A d \in here : d.name # k.name
       [] k.do = "list" -> TRUE
       [] OTHER -> \E d \in here : d.name = k.name

(* Exit status 0 means that it is done: the link that was looked up is up, *)
(* is down (or gone), has the MTU; no link of the name is left, or one is  *)
(* there.  Of add it does not mean that the link is the one added.  Of up  *)
(* and down, which exit with 0 when their Read fails, it is only said as   *)
(* in UpDownDone where sockets or answers get lost.                        *)
ZeroMeansDone ==
  [][\A c \in Clients :
       /\ Ends(c, "ok")
       /\ cmd[c].do \in {"up", "down"} /\ pc[c] = "read" /\ obj'[c] = obj[c]
          => Faults = {}
       => Effect(cmd[c], found[c])]_nlvars

(* up, down, mtu and delete change or remove the link that had the name    *)
(* when it was looked up, and its veth peer; never one that got the name   *)
(* in the meantime.  Other links at most lose their master.                *)
ActsOnFound ==
  [][\A c \in Clients : stage[c] = "act" /\ cmd[c].do \in Lookers /\ Steps(c) =>
       \A d \in links :
         \/ d \in links' \/ [d EXCEPT !.master = 0] \in links'
         \/ \E p \in links : /\ p.ns = cmd[c].ns /\ p.idx = found[c]
                             /\ p.name = cmd[c].name
                             /\ d = p \/ (p.pair # {} /\ d.pair = p.pair)]_nlvars

(* A link that is added with --bridge is a port of the bridge of that      *)
(* name, although the bridge may have been deleted and created anew since  *)
(* its index was read; one that is added without is nobody's port.         *)
EnslavesToNamed ==
  [][\A c \in Clients : stage[c] = "act" /\ Steps(c) =>
       \A h \in links' :
         /\ h.ns = cmd[c].ns /\ h.name = cmd[c].name
         /\ ~\E d \in links : d.ns = h.ns /\ d.name = h.name
         => IF cmd[c].bridge = NoName THEN h.master = 0
            ELSE \E b \in links : /\ b.ns = h.ns /\ b.idx = h.master
                                  /\ b.name = cmd[c].bridge]_nlvars

(* list gives up (and has printed nothing: the table is flushed at the     *)
(* end) only if an exchange has failed, or the bridge of --bridge, or the  *)
(* master of a row, has been deleted since the dump or is not there.       *)
ListFails ==
  [][\A c \in Clients :
       cmd[c].do = "list" /\ Ends(c, "failed") /\ ret'[c] # "EIO" =>
       \/ stage[c] = "lookup" /\ ~Taken(cmd[c].ns, cmd[c].bridge)
       \/ stage[c] = "row" /\ ~Used(cmd[c].ns, obj[c].idx)]_nlvars
=============================================================================
