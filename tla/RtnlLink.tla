------------------------------- MODULE RtnlLink -------------------------------
(***************************************************************************)
(* The link objects of package rtnl (src/link.go): goroutines or processes *)
(* ("clients"), each with one *Link in hand, that call its methods at the  *)
(* same time.  A method is a sequence of netlink exchanges; every exchange *)
(* dials a socket of its own and is atomic in the kernel, and between two  *)
(* exchanges of one call the other clients run.  The local work of a call  *)
(* belongs to the step of the exchange it follows, or to the call itself.  *)
(***************************************************************************)
EXTENDS RtnlKernel

CONSTANTS
  Clients,      \* the goroutines, each with a *Link of its own
  Contexts,     \* the *Context values the clients pass to the methods
  Kinds,        \* the kinds of the links the clients construct
  LinkNs,       \* the values the clients give Info.Ns, NoNs among them
  Ops,          \* the methods the clients call
  Faults,       \* "dial": no socket; "recv": the answer is lost
  Homed,        \* clients use a link only in the namespace it was read from
  Moves,        \* clients call Set on links with Info.Ns
  Enslave       \* clients give Info.Master an index they have read

Methods == {"Add", "Present", "Set", "Del", "Absent", "Up", "Down",
            "Promisc", "SetMtu", "SetMaster", "GetLink", "GetLinkByIndex"}

Context == [ns : Namespaces, target : Namespaces \cup {NoNs}]

ASSUME LinkAssumption ==
  /\ Contexts \subseteq Context
  /\ Kinds \subseteq Creatable \cup {"tun", "none"}
  /\ LinkNs \subseteq Namespaces \cup {NoNs}
  /\ Ops \subseteq Methods
  /\ Faults \subseteq {"dial", "recv"}
  /\ Homed \in BOOLEAN
  /\ Moves \in BOOLEAN
  /\ Enslave \in BOOLEAN

VARIABLES
  obj,    \* obj[c]: the *Link of client c
  pc,     \* pc[c]: the exchange c is about to make, "idle" between calls
  call,   \* call[c]: the method, the context and the argument of the call
  ret,    \* ret[c]: what the last call returned, "ok" for nil
  home    \* history: the namespace obj[c] was last read from

client == <<obj, pc, call, ret, home>>
vars == <<links, last, obj, pc, call, ret, home>>

Flags == Settable \cup {"BCAST", "MASTER"}

(* A Link: Msg.Index, Msg.Flags and Msg.Change, then the fields of Info    *)
(* that messages carry.  kind is "tun" for Tap and Tun and "none" for a    *)
(* physical link, peer is Veth.Peer.  A nil Info reads as an empty one.    *)
Object == [idx : 0 .. MaxIndex, flags : SUBSET Flags, change : SUBSET Flags,
           name : Names \cup {NoName}, ns : Namespaces \cup {NoNs},
           kind : Creatable \cup {"tun", "none"},
           peer : Names \cup {NoName},
           mtu : Mtus \cup {DefaultMtu, 0}, master : 0 .. MaxIndex]

Call == [op : Methods \cup {"none"}, ns : Namespaces \cup {NoNs},
         target : Namespaces \cup {NoNs}, arg : Nat]

Results == Errno \cup {"EIO", "notfound", "notunique"}

TypeOK ==
  /\ KernelTypeOK
  /\ obj \in [Clients -> Object]
  /\ pc \in [Clients -> {"idle", "modify", "readback", "read", "update"}]
  /\ call \in [Clients -> Call]
  /\ ret \in [Clients -> Results]
  /\ home \in [Clients -> Namespaces \cup {NoNs}]

-----------------------------------------------------------------------------
(* Data.                                                                   *)

EmptyLink == [idx |-> 0, flags |-> {}, change |-> {}, name |-> NoName,
              ns |-> NoNs, kind |-> "none", peer |-> NoName, mtu |-> 0,
              master |-> 0]

NoCall == [op |-> "none", ns |-> NoNs, target |-> NoNs, arg |-> 0]

(* The definitions marked "Mutant" are wrong versions of the ones after    *)
(* them: each property is known to fail with one of them in place.         *)

(* Mutant: an object used again keeps the index of its last link.          *)
ReusedLink(o, x, n, k, p, m) ==
  [EmptyLink EXCEPT !.idx = o.idx, !.name = x, !.ns = n, !.kind = k,
                    !.peer = p, !.master = m]

(* Mutant: the master is left out.                                         *)
NewLinkAlone(o, x, n, k, p, m) ==
  [EmptyLink EXCEPT !.name = x, !.ns = n, !.kind = k, !.peer = p]

(* &Link{Info: &LinkInfo{...}}: a new object, with no index and no flags.  *)
NewLink(o, x, n, k, p, m) ==
  [EmptyLink EXCEPT !.name = x, !.ns = n, !.kind = k, !.peer = p, !.master = m]

(* Mutant: IFLA_IFNAME is left out of the attributes.                      *)
MarshalNameless(o) ==
  IF o.change = {}
  THEN [o EXCEPT !.kind = IF @ \in Creatable THEN @ ELSE "none",
                 !.name = NoName]
  ELSE [EmptyLink EXCEPT !.idx = o.idx, !.flags = o.flags,
                         !.change = o.change]

(* Mutant: IFLA_NET_NS_FD is left out of the attributes.                   *)
MarshalWithoutNs(o) ==
  IF o.change = {}
  THEN [o EXCEPT !.kind = IF @ \in Creatable THEN @ ELSE "none", !.ns = NoNs]
  ELSE [EmptyLink EXCEPT !.idx = o.idx, !.flags = o.flags,
                         !.change = o.change]

(* Mutant: the index is left out of the header.                            *)
MarshalByName(o) == [o EXCEPT !.idx = 0]

(* The attributes go out only while no change mask is pending; the kinds   *)
(* Attributes() does not list go out without a kind.                       *)
Marshal(o) ==
  IF o.change = {}
  THEN [o EXCEPT !.kind = IF @ \in Creatable THEN @ ELSE "none"]
  ELSE [EmptyLink EXCEPT !.idx = o.idx, !.flags = o.flags,
                         !.change = o.change]

(* Mutant: SetMtu selects the link by its name.                            *)
NamedMessage(op, a, o) ==
  CASE op \in {"Up", "Down"} -> [o EXCEPT !.name = NoName]
    [] op = "SetMtu" -> [EmptyLink EXCEPT !.name = o.name, !.flags = o.flags, !.mtu = a]
    [] op = "SetMaster" -> [EmptyLink EXCEPT !.idx = o.idx, !.flags = o.flags,
                                  !.change = o.change, !.master = a]

(* A header and one attribute: the messages of SetMtu and SetMaster.       *)
IfInfomsg(o) == [EmptyLink EXCEPT !.idx = o.idx, !.flags = o.flags,
                                  !.change = o.change]

(* Mutant: the flags of the reply's header are not taken over.             *)
UnmarshalNoFlags(d) ==
  [EmptyLink EXCEPT !.idx = d.idx, !.flags = {"BCAST"}, !.name = d.name,
                    !.kind = d.kind, !.mtu = d.mtu, !.master = d.master]

(* What a reply about device d unmarshals to: no change mask, no namespace *)
(* descriptor, and no peer name, which the kernel does not report.         *)
Unmarshal(d) ==
  [EmptyLink EXCEPT !.idx = d.idx, !.flags = d.flags \cup {"BCAST"},
                    !.name = d.name, !.kind = d.kind, !.mtu = d.mtu,
                    !.master = d.master]

(* Mutant: a specification without a name is satisfied by nothing.         *)
SatisfiesNamed(d, o) == d.name = o.name

Satisfies(d, o) == o.name = NoName \/ d.name = o.name

(* RTM_GETLINK: the link of an index, or a dump of the namespace.          *)
RtmGetLink(n, o) == {d \in links : d.ns = n /\ (o.idx # 0 => d.idx = o.idx)}

(* Read, as the outcomes it may have: an error with the object as it was,  *)
(* or the object overwritten by the only link that satisfies it.           *)
Read(o, n) ==
  LET found == RtmGetLink(n, o)
      sat == {d \in found : Satisfies(d, o)}
      fail == {e \in {"ENODEV", "notfound", "notunique", "EIO"} :
                 \/ e = "ENODEV" /\ o.idx # 0 /\ found = {}
                 \/ e = "notfound" /\ sat = {} /\ (o.idx = 0 \/ found # {})
                 \/ e = "notunique" /\ \E d1, d2 \in sat : d1 # d2
                 \/ e = "EIO" /\ Faults # {}}
  IN {[err |-> e, obj |-> o] : e \in fail}
     \cup {[err |-> "ok", obj |-> Unmarshal(d)] : d \in {x \in sat : sat = {x}}}

(* One message through netlinkUpdate.                                      *)
NetlinkUpdate(type, n, q, e) ==
  \/ "dial" \in Faults /\ e = "EIO" /\ UNCHANGED kernel
  \/ \E k \in Errno :
       /\ e = k \/ ("recv" \in Faults /\ e = "EIO")
       /\ CASE type = "NEWLINK" -> RtmNewLink(n, q, k)
            [] type = "SETLINK" -> RtmSetLink(n, q, k)
            [] type = "DELLINK" -> RtmDelLink(n, q, k)

-----------------------------------------------------------------------------
(* The clients' own steps: the values they construct and the calls.        *)

Construct(c) ==
  /\ pc[c] = "idle"
  /\ \E x \in Names, n \in LinkNs, k \in Kinds,
        m \in {0} \cup {obj[b].idx : b \in {b \in Clients : Enslave}} :
       \E p \in IF k = "veth" THEN Names ELSE {NoName} :
         obj' = [obj EXCEPT ![c] = NewLink(@, x, n, k, p, m)]
  /\ home' = [home EXCEPT ![c] = NoNs]
  /\ UNCHANGED <<links, last, pc, call, ret>>

(* l.Info.Mtu = m, before Add or Set                                       *)
AssignMtu(c) ==
  /\ pc[c] = "idle" /\ obj[c].name # NoName
  /\ \E m \in Mtus : obj' = [obj EXCEPT ![c].mtu = m]
  /\ UNCHANGED <<links, last, pc, call, ret, home>>

(* The method has sent its last message, or none.                          *)
Return(c, e) == /\ pc' = [pc EXCEPT ![c] = "idle"]
                /\ ret' = [ret EXCEPT ![c] = e]
                /\ call' = [call EXCEPT ![c] = NoCall]

Invoke(c, op, x, a, stage) ==
  /\ pc[c] = "idle"
  /\ op \in Ops /\ x \in Contexts
  /\ pc' = [pc EXCEPT ![c] = stage]
  /\ call' = [call EXCEPT ![c] = [op |-> op, ns |-> x.ns,
                                  target |-> x.target, arg |-> a]]
  /\ UNCHANGED <<links, last, ret>>

(* A method of the object in hand, which is not the zero Link.             *)
AtHome(c, x) ==
  /\ obj[c].name # NoName \/ obj[c].idx # 0
  /\ Homed /\ home[c] # NoNs => x.ns = home[c]

(* Add, Present, Set, Del, Absent                                          *)
CallModify(c) ==
  \E op \in {"Add", "Present", "Set", "Del", "Absent"}, x \in Contexts :
    /\ AtHome(c, x)
    /\ op = "Set" => Moves \/ obj[c].ns = NoNs
    /\ Invoke(c, op, x, 0, "modify")
    /\ UNCHANGED <<obj, home>>

(* Promisc changes the object before it sends it, without a Read.          *)
CallPromisc(c) ==
  \E x \in Contexts, on \in BOOLEAN :
    /\ AtHome(c, x)
    /\ obj' = [obj EXCEPT ![c].change = @ \cup {"PROMISC"},
                          ![c].flags = IF on THEN @ \cup {"PROMISC"}
                                       ELSE @ \ {"PROMISC"}]
    /\ Invoke(c, "Promisc", x, 0, "modify")
    /\ UNCHANGED home

(* Up, Down, SetMtu and SetMaster begin with a Read; with an argument of   *)
(* zero the last two return at once.                                       *)
CallUpdate(c) ==
  \E op \in {"Up", "Down", "SetMtu", "SetMaster"}, x \in Contexts :
    \E a \in CASE op = "SetMtu" -> {0} \cup Mtus
               [] op = "SetMaster" -> {obj[b].idx : b \in Clients}
               [] OTHER -> {1} :
      /\ AtHome(c, x)
      /\ IF a = 0
         THEN /\ pc[c] = "idle" /\ op \in Ops
              /\ Return(c, "ok") /\ UNCHANGED <<links, last>>
         ELSE Invoke(c, op, x, a, "read")
      /\ UNCHANGED <<obj, home>>

(* GetLink and GetLinkByIndex read into a new object.                      *)
CallGet(c) ==
  \E x \in Contexts :
    /\ \/ \E y \in Names :
            /\ obj' = [obj EXCEPT ![c] = [EmptyLink EXCEPT !.name = y]]
            /\ Invoke(c, "GetLink", x, 0, "read")
       \/ \E i \in Indices :
            /\ obj' = [obj EXCEPT ![c] = [EmptyLink EXCEPT !.idx = i]]
            /\ Invoke(c, "GetLinkByIndex", x, 0, "read")
    /\ home' = [home EXCEPT ![c] = NoNs]

-----------------------------------------------------------------------------
(* The exchanges.                                                          *)

ReadNs(c) == IF call[c].target # NoNs THEN call[c].target ELSE call[c].ns

(* Mutants: a lost answer is retried; a name that is taken is waited for;  *)
(* the new link is not read back.                                          *)
RetryLost(op, e) == IF e = "EIO" THEN "modify"
                    ELSE IF e = "ok" \/ (op = "Present" /\ e = "EEXIST")
                    THEN "readback" ELSE "idle"
RetryTaken(op, e) == IF e = "EEXIST" THEN "modify"
                     ELSE IF e = "ok" THEN "readback" ELSE "idle"
NoReadBack(op, e) == IF op = "Present" /\ e = "EEXIST" THEN "readback" ELSE "idle"

(* Where Add and Present go with the answer to RTM_NEWLINK: both read the  *)
(* new link back, and Present also reads the link that exists already.     *)
AfterNewLink(op, e) ==
  IF e = "ok" \/ (op = "Present" /\ e = "EEXIST") THEN "readback" ELSE "idle"

(* Modify(ctx, RTM_NEWLINK), in Add and Present                            *)
SendNewLink(c) ==
  /\ pc[c] = "modify" /\ call[c].op \in {"Add", "Present"}
  /\ \E e \in Results :
       /\ NetlinkUpdate("NEWLINK", call[c].ns, Marshal(obj[c]), e)
       /\ IF AfterNewLink(call[c].op, e) = "idle" THEN Return(c, e)
          ELSE /\ pc' = [pc EXCEPT ![c] = AfterNewLink(call[c].op, e)]
               /\ UNCHANGED <<call, ret>>
  /\ UNCHANGED <<obj, home>>

(* The object and its history after a Read of outcome r from namespace n.  *)
Refresh(c, r, n) ==
  /\ obj' = [obj EXCEPT ![c] = r.obj]
  /\ home' = [home EXCEPT ![c] = IF r.err = "ok" THEN n ELSE @]

(* The Read that ends Add and Present                                      *)
ReadBack(c) ==
  /\ pc[c] = "readback"
  /\ \E r \in Read(obj[c], ReadNs(c)) :
       Refresh(c, r, ReadNs(c)) /\ Return(c, r.err)
  /\ UNCHANGED kernel

(* Modify(ctx, RTM_SETLINK), in Set and Promisc                            *)
SendSetLink(c) ==
  /\ pc[c] = "modify" /\ call[c].op \in {"Set", "Promisc"}
  /\ \E e \in Results :
       /\ NetlinkUpdate("SETLINK", call[c].ns, Marshal(obj[c]), e)
       /\ Return(c, e)
  /\ UNCHANGED <<obj, home>>

(* Modify(ctx, RTM_DELLINK), in Del and Absent                             *)
DelResult(op, e) == IF op = "Absent" /\ e = "ENODEV" THEN "ok" ELSE e

SendDelLink(c) ==
  /\ pc[c] = "modify" /\ call[c].op \in {"Del", "Absent"}
  /\ \E e \in Results :
       /\ NetlinkUpdate("DELLINK", call[c].ns, Marshal(obj[c]), e)
       /\ Return(c, DelResult(call[c].op, e))
  /\ UNCHANGED <<obj, home>>

(* Mutant: Up and Down set the flag without the change mask.               *)
EditedUnmasked(op, a, o) ==
  CASE op = "Up" -> [o EXCEPT !.flags = @ \cup {"UP"}]
    [] op = "Down" -> [o EXCEPT !.flags = @ \ {"UP"}]
    [] op = "SetMaster" -> [o EXCEPT !.change = @ \cup {"MASTER"},
                                     !.flags = @ \cup {"MASTER"}]
    [] op = "SetMtu" -> [o EXCEPT !.mtu = a]

(* What a method makes of the object it has just read; Up and Down send it *)
(* only if the flag is not yet as they want it.                            *)
Edited(op, a, o) ==
  CASE op = "Up" -> [o EXCEPT !.change = @ \cup {"UP"},
                              !.flags = @ \cup {"UP"}]
    [] op = "Down" -> [o EXCEPT !.change = @ \cup {"UP"},
                                !.flags = @ \ {"UP"}]
    [] op = "SetMaster" -> [o EXCEPT !.change = @ \cup {"MASTER"},
                                     !.flags = @ \cup {"MASTER"}]
    [] op = "SetMtu" -> [o EXCEPT !.mtu = a]

(* Mutant: the test of the flag is the wrong way round.                    *)
SendsIfSet(op, o) == CASE op = "Up" -> "UP" \in o.flags
                       [] op = "Down" -> "UP" \notin o.flags
                       [] op \in {"SetMtu", "SetMaster"} -> TRUE
                       [] OTHER -> FALSE

Sends(op, o) == CASE op = "Up" -> "UP" \notin o.flags
                  [] op = "Down" -> "UP" \in o.flags
                  [] op \in {"SetMtu", "SetMaster"} -> TRUE
                  [] OTHER -> FALSE

(* Up and Down return nil when the Read fails.                             *)
ReadResult(op, e) == IF op \in {"Up", "Down"} THEN "ok" ELSE e

(* The Read that begins Up, Down, SetMtu and SetMaster and is all of       *)
(* GetLink and GetLinkByIndex                                              *)
LeadingRead(c) ==
  /\ pc[c] = "read"
  /\ \E r \in Read(obj[c], call[c].ns) :
       IF r.err = "ok" /\ Sends(call[c].op, r.obj)
       THEN /\ Refresh(c, [r EXCEPT !.obj = Edited(call[c].op, call[c].arg, @)],
                       call[c].ns)
            /\ pc' = [pc EXCEPT ![c] = "update"]
            /\ UNCHANGED <<call, ret>>
       ELSE Refresh(c, r, call[c].ns) /\ Return(c, ReadResult(call[c].op, r.err))
  /\ UNCHANGED kernel

(* The message after a leading Read: the object for Up and Down, its       *)
(* header and one attribute for SetMtu and SetMaster.                      *)
UpdateMessage(op, a, o) ==
  CASE op \in {"Up", "Down"} -> Marshal(o)
    [] op = "SetMtu" -> [IfInfomsg(o) EXCEPT !.mtu = a]
    [] op = "SetMaster" -> [IfInfomsg(o) EXCEPT !.master = a]

SendUpdate(c) ==
  /\ pc[c] = "update"
  /\ \E e \in Results :
       /\ NetlinkUpdate("SETLINK", call[c].ns,
                        UpdateMessage(call[c].op, call[c].arg, obj[c]), e)
       /\ Return(c, e)
  /\ UNCHANGED <<obj, home>>

-----------------------------------------------------------------------------
Init ==
  /\ KernelInit
  /\ obj = [c \in Clients |-> EmptyLink]
  /\ pc = [c \in Clients |-> "idle"]
  /\ call = [c \in Clients |-> NoCall]
  /\ ret = [c \in Clients |-> "ok"]
  /\ home = [c \in Clients |-> NoNs]

(* What a call in progress does next.                                      *)
Continue(c) == \/ SendNewLink(c) \/ ReadBack(c) \/ SendSetLink(c)
               \/ SendDelLink(c) \/ LeadingRead(c) \/ SendUpdate(c)

Next == \E c \in Clients :
          \/ Construct(c) \/ AssignMtu(c)
          \/ CallModify(c) \/ CallPromisc(c) \/ CallUpdate(c) \/ CallGet(c)
          \/ Continue(c)

Spec == Init /\ [][Next]_vars

-----------------------------------------------------------------------------
(* Properties of every deployment.                                         *)

Steps(c) == pc'[c] # pc[c]
Returns(c) == pc[c] # "idle" /\ pc'[c] = "idle"

(* Set with Info.Ns (Test_VethNamespace, link_test.go:169) moves the link  *)
(* the object names out of the context's namespace into Info.Ns, and no    *)
(* answer of the kernel, conflicts of names and indices included, leaves   *)
(* it half way: a link that disappears from one namespace turns up in the  *)
(* other, under its name or the object's.                                  *)
SetMoves ==
  [][\A c \in Clients : Steps(c) /\ call[c].op = "Set" =>
       /\ Returns(c) /\ ret'[c] = "ok" /\ obj[c].change = {}
          /\ obj[c].ns \notin {NoNs, call[c].ns}
          => /\ \E h \in links' : h.ns = obj[c].ns /\ h.name = obj[c].name
             /\ ~\E h \in links' : h.ns = call[c].ns /\ h.name = obj[c].name
       /\ \A d \in links : ~(Used(d.ns, d.idx)')
          => \E h \in links' \ links :
               h.ns = obj[c].ns /\ h.name \in {d.name, obj[c].name}]_vars

-----------------------------------------------------------------------------
(* Properties of deployments in which a link keeps its name and namespace: *)
(* Homed clients, no Moves.                                                *)

(* The (ifindex, name) pair an object keeps between calls never denotes a  *)
(* link of another name, however often links are deleted and created anew  *)
(* meanwhile: Read overwrites the whole object (link.go:496), and Add      *)
(* sends the stale index back with the name it came with.                  *)
IndexNameAgree ==
  \A c \in Clients : \A d \in links :
    /\ obj[c].idx # 0 /\ obj[c].name # NoName
    /\ d.ns = home[c] /\ d.idx = obj[c].idx
    => d.name = obj[c].name

(* The link client c means: the one of its object's name, or of its index  *)
(* while it has no name (GetLinkByIndex).                                  *)
Means(c, d) == /\ d.ns = call[c].ns
               /\ IF obj[c].name # NoName THEN d.name = obj[c].name
                                          ELSE d.idx = obj[c].idx

(* A call changes or deletes the link its object names and that link's     *)
(* veth peer, and of the other links at most clears the master; a stale    *)
(* index never redirects Set, Del, Absent, Up, Down, Promisc, SetMtu or    *)
(* SetMaster to a link of another name, and no message renames a link.     *)
OnlyNamed ==
  [][\A c \in Clients : Steps(c) =>
       \A d \in links :
         \/ d \in links' \/ [d EXCEPT !.master = 0] \in links'
         \/ /\ Means(c, d)
            /\ \A h \in links' : h.ns = d.ns /\ h.idx = d.idx => h.name = d.name
         \/ \E p \in links : Means(c, p) /\ p.pair # {} /\ p.pair = d.pair]_vars

(* The fields of a link a method may change.                               *)
Untouched(op, d) ==
  CASE op \in {"Up", "Down"} -> [d EXCEPT !.flags = @ \ {"UP"}]
    [] op = "Promisc" -> [d EXCEPT !.flags = {}]
    [] op = "SetMaster" -> [d EXCEPT !.master = 0]

(* Up and Down change IFF_UP alone and SetMaster the master alone, although *)
(* they send flags they read before other clients changed the link: the    *)
(* change mask keeps the rest.  Promisc changes flags alone, but not       *)
(* IFF_PROMISC alone: it adds to the mask an earlier Up or Down has left   *)
(* in the object and repeats that call's flag, which may be stale by now.  *)
TouchesOnly ==
  [][\A c \in Clients :
       Steps(c) /\ call[c].op \in {"Up", "Down", "Promisc", "SetMaster"} =>
         \A d \in links : \E h \in links' :
           Untouched(call[c].op, h) = Untouched(call[c].op, d)]_vars

(* "Present ensures the link is present" (link.go:665), and so does Add:   *)
(* when they return nil, the namespace they read from has a link of the    *)
(* object's name (and index, if it has one), and the object is as the      *)
(* kernel has that link now, whatever became of the one that was created   *)
(* or found.                                                               *)
PresentEnsures ==
  [][\A c \in Clients :
       Returns(c) /\ ret'[c] = "ok" /\ call[c].op \in {"Add", "Present"} =>
         \E d \in links' : /\ d.ns = ReadNs(c) /\ Satisfies(d, obj[c])
                           /\ obj[c].idx # 0 => d.idx = obj[c].idx
                           /\ obj'[c] = Unmarshal(d)]_vars

(* SetMtu sends flags without a change mask, which rewrites all of them    *)
(* (link.go:330): whatever other clients have done since its Read, it gives *)
(* the link it has read its MTU and the flags it has read, undoing an Up,  *)
(* Down or Promisc made in between, and changes nothing else of that link  *)
(* and nothing of any other.                                               *)
SetMtuPutsBack ==
  [][\A c \in Clients : Steps(c) /\ call[c].op = "SetMtu" =>
       \A d \in links :
         \/ d \in links'
         \/ /\ d.ns = call[c].ns /\ d.idx = obj[c].idx
            /\ [d EXCEPT !.mtu = call[c].arg,
                         !.flags = obj[c].flags \cap Settable] \in links']_vars

(* When Up (Down) returns nil, no link of the object's index is down (up), *)
(* although both return nil when their Read fails (link.go:714, 732): it   *)
(* fails because the link is gone.  Where sockets or answers get lost this *)
(* is only said of the calls that sent a message or whose Read has left    *)
(* its mark on the object.                                                 *)
UpDownDone ==
  [][\A c \in Clients :
       /\ Returns(c) /\ ret'[c] = "ok" /\ call[c].op \in {"Up", "Down"}
       /\ pc[c] = "read" /\ obj'[c] = obj[c] => Faults = {}
       => \A d \in links' :
            d.ns = call[c].ns /\ d.idx = obj'[c].idx
            => (("UP" \in d.flags) <=> (call[c].op = "Up"))]_vars

-----------------------------------------------------------------------------
(* Properties of a client that nobody interferes with.                     *)

(* SetMtu changes the MTU and nothing else.  It sends flags without a      *)
(* change mask, which rewrites all of them, so that this rests on the Read *)
(* before it, and fails as soon as another client changes a flag between.  *)
SetMtuOnlyMtu ==
  [][\A c \in Clients : Steps(c) /\ call[c].op = "SetMtu" =>
       \A d \in links : \E h \in links' :
         [h EXCEPT !.mtu = 0] = [d EXCEPT !.mtu = 0]]_vars

(* The namespace an Add or Present of the object creates its link in.      *)
Target(c) == Destination(call[c].ns, obj[c])

(* An Add that read its link back from the namespace it was created in has *)
(* left the object as the kernel has the link: the object the caller goes  *)
(* on with has the index, the flags and the master of its own link.        *)
AddReadsBack ==
  [][\A c \in Clients :
       /\ Returns(c) /\ call[c].op = "Add" /\ ret'[c] = "ok"
       /\ ReadNs(c) = Target(c)
       => \E d \in links' : d.ns = Target(c) /\ obj'[c] = Unmarshal(d)
                           /\ d.name = obj[c].name /\ d.kind = obj[c].kind
                           /\ d.master = obj[c].master]_vars

-----------------------------------------------------------------------------
(* What the comments of src/link.go say, where the code does otherwise.    *)

(* "Absent ensures the link is absent" (link.go:699): no link of the       *)
(* object's name is there when Absent has returned nil.                    *)
AbsentEnsuresAbsent ==
  [][\A c \in Clients : Returns(c) /\ call[c].op = "Absent" /\ ret'[c] = "ok" =>
       ~\E d \in links' : d.ns = call[c].ns /\ d.name = obj[c].name]_vars

(* "Set sets link attributes" (link.go:685): the link the object names has *)
(* the object's MTU when Set has returned nil.                             *)
SetSetsAttributes ==
  [][\A c \in Clients :
       /\ Returns(c) /\ call[c].op = "Set" /\ ret'[c] = "ok"
       /\ obj[c].mtu # 0
       => \A d \in links' : d.ns = call[c].ns /\ d.idx = obj[c].idx
                            => d.mtu = obj[c].mtu]_vars
=============================================================================
