------------------------------ MODULE RtnlKernel ------------------------------
(***************************************************************************)
(* The rtnetlink side of Linux, as far as the rtnl library relies on it.   *)
(* The kernel is not part of the repository: everything here is external   *)
(* and is modelled from the messages src/link.go sends and from the        *)
(* answers it distinguishes.                                               *)
(*                                                                         *)
(* One netlink Execute is one atomic step.  A message handler is a         *)
(* relation  Rtm...(n, q, e)  between the state before, the namespace n of *)
(* the socket, the request q, the answer e and the state after.  Where a   *)
(* request is wrong for several reasons the handler may give any of the    *)
(* answers that apply: the library does not depend on which comes first.   *)
(***************************************************************************)
EXTENDS Naturals

CONSTANTS
  Namespaces,   \* the network namespaces
  Names,        \* the link names in use
  NoNs,         \* "no namespace given": a zero descriptor, a nil *Context
  NoName,       \* the empty name
  MaxIndex,     \* bound: the largest ifindex (INT_MAX in the kernel)
  Mtus          \* the MTU values in use

ASSUME KernelAssumption ==
  /\ MaxIndex \in Nat
  /\ Mtus \subseteq Nat \ {0}
  /\ NoNs \notin Namespaces
  /\ NoName \notin Names

VARIABLES
  links,        \* every link of every namespace
  last          \* last[n]: the last ifindex namespace n has handed out

kernel == <<links, last>>

Indices == 1 .. MaxIndex

(* IFF_UP and IFF_PROMISC are the flags a message can set.  "BCAST" stands *)
(* for the flags every device reports and no message changes, so that the  *)
(* flags of a reply are never zero; "MASTER" (IFF_MASTER) is one the       *)
(* library asks for and the kernel ignores.                                *)
Settable == {"UP", "PROMISC"}

(* "bridge" stands for the kinds that have ports (bridge, vrf), "soft" for *)
(* the kinds with neither ports nor a peer (vxlan, macvlan, wireguard).    *)
Creatable == {"bridge", "veth", "soft"}

DefaultMtu == 1   \* the MTU of a device nobody has asked an MTU of; never 0

Link == [ns : Namespaces, idx : Indices, name : Names, kind : Creatable,
         flags : SUBSET Settable, mtu : Mtus \cup {DefaultMtu},
         master : 0 .. MaxIndex,
         pair : SUBSET (Namespaces \X Indices)]

KernelTypeOK == /\ links \subseteq Link
                /\ last \in [Namespaces -> 0 .. MaxIndex]

KernelInit == /\ links = {}
              /\ last = [n \in Namespaces |-> 0]

Errno == {"ok", "EEXIST", "ENODEV", "EINVAL", "EOPNOTSUPP", "EBUSY"}

-----------------------------------------------------------------------------
(* Lookups.  A header with an index is looked up by that index and by      *)
(* nothing else; the name counts only when the index is zero.              *)

Lookup(n, q) ==
  {d \in links : /\ d.ns = n
                 /\ IF q.idx # 0 THEN d.idx = q.idx ELSE d.name = q.name}

Taken(n, x) == \E d \in links : d.ns = n /\ d.name = x

Used(n, i) == \E d \in links : d.ns = n /\ d.idx = i

(* dev_new_index: the first unused index after the last one handed out,    *)
(* so that the index of a deleted link is not handed out again.            *)
Fresh(n, after) == {i \in Indices :
                      /\ i > after
                      /\ ~Used(n, i)
                      /\ \A j \in (after + 1) .. (i - 1) : Used(n, j)}

(* rtnl_dev_combine_flags: a change mask of zero means all flags.          *)
Combined(flags, q) ==
  IF q.flags = {} /\ q.change = {} THEN flags
  ELSE IF q.change = {} THEN q.flags \cap Settable
  ELSE ((q.flags \cap q.change) \cup (flags \ q.change)) \cap Settable

(* do_set_master: the master has to exist in the device's own namespace    *)
(* and to take ports; a bridge cannot be a port of a bridge.               *)
BadMaster(n, kind, q) ==
  /\ q.master # 0
  /\ \/ kind = "bridge"
     \/ ~\E b \in links : b.ns = n /\ b.idx = q.master /\ b.kind = "bridge"

-----------------------------------------------------------------------------
(* RTM_NEWLINK with NLM_F_CREATE | NLM_F_EXCL.                             *)

NewDevice(m, q, i, pair) ==
  [ns |-> m, idx |-> i, name |-> q.name, kind |-> q.kind,
   flags |-> Combined({}, q),
   mtu |-> IF q.mtu = 0 THEN DefaultMtu ELSE q.mtu,
   master |-> q.master, pair |-> pair]

PeerDevice(n, q, j) ==
  [ns |-> n, idx |-> j, name |-> q.peer, kind |-> "veth", flags |-> {},
   mtu |-> DefaultMtu, master |-> 0, pair |-> {<<n, j>>}]

(* The namespace the device is created in.                                 *)
Destination(n, q) == IF q.ns = NoNs THEN n ELSE q.ns

(* The indices the device may get: the one the header names, if free.      *)
Assigned(m, q, after) ==
  IF q.idx # 0 THEN {i \in Indices : i = q.idx /\ ~Used(m, i)}
               ELSE Fresh(m, after)

Create(n, q) ==
  LET m == Destination(n, q) IN
  \E i \in Assigned(m, q, last[m]) :
    /\ links' = links \cup {NewDevice(m, q, i, {})}
    /\ last' = [last EXCEPT ![m] = IF q.idx # 0 THEN @ ELSE i]

(* The peer is registered first and always gets a fresh index.             *)
CreateVeth(n, q) ==
  LET m == Destination(n, q) IN
  \E j \in Fresh(n, last[n]) :
    \E i \in Assigned(m, q, IF m = n THEN j ELSE last[m]) :
      /\ m = n => i # j
      /\ links' = links \cup {PeerDevice(n, q, j),
                              NewDevice(m, q, i, {<<n, j>>})}
      /\ last' = [k \in Namespaces |->
                    IF k = m /\ q.idx = 0 THEN i
                    ELSE IF k = n THEN j ELSE last[k]]

(* An index is left for the device (and for its peer).                     *)
Room(n, q) ==
  LET m == Destination(n, q) IN
  IF q.kind # "veth" THEN Assigned(m, q, last[m]) # {}
  ELSE \E j \in Fresh(n, last[n]) :
         \E i \in Assigned(m, q, IF m = n THEN j ELSE last[m]) :
           m = n => i # j

NewLinkError(n, q, e) ==
  LET m == Destination(n, q) IN
  \/ Lookup(n, q) # {} /\ e = "EEXIST"
  \/ /\ Lookup(n, q) = {}
     /\ \/ q.kind \notin Creatable /\ e = "EOPNOTSUPP"
        \/ q.kind = "veth" /\ q.peer = NoName /\ e = "EINVAL"
        \/ Taken(m, q.name) /\ e = "EEXIST"
        \/ /\ q.kind = "veth"
           /\ Taken(n, q.peer) \/ (m = n /\ q.peer = q.name)
           /\ e = "EEXIST"
        \/ q.kind \in Creatable /\ ~Room(n, q) /\ e = "EBUSY"
        \/ BadMaster(m, q.kind, q) /\ e = "EINVAL"

RtmNewLink(n, q, e) ==
  \/ NewLinkError(n, q, e) /\ UNCHANGED kernel
  \/ /\ e = "ok"
     /\ ~\E k \in Errno : NewLinkError(n, q, k)
     /\ IF q.kind = "veth" THEN CreateVeth(n, q) ELSE Create(n, q)

-----------------------------------------------------------------------------
(* RTM_SETLINK.  The changes are made in the order of do_setlink and those *)
(* made before an error stay: namespace, MTU, name, master, flags.         *)

Unselected(q, e) == q.idx = 0 /\ q.name = NoName /\ e = "EINVAL"

Missing(n, q, e) ==
  (q.idx # 0 \/ q.name # NoName) /\ Lookup(n, q) = {} /\ e = "ENODEV"

LeavesNs(d, q) == q.ns # NoNs /\ q.ns # d.ns

MoveError(d, q, e) ==
  \/ d.kind = "bridge" /\ e = "EINVAL"
  \/ /\ Taken(q.ns, d.name) /\ (q.name = NoName \/ Taken(q.ns, q.name))
     /\ e = "EEXIST"
  \/ Used(q.ns, d.idx) /\ Fresh(q.ns, last[q.ns]) = {} /\ e = "EBUSY"

(* The device in its new namespace: down, without a master, under the same *)
(* index if that is free there.                                            *)
Moved(d, q) ==
  {[d EXCEPT !.ns = q.ns, !.idx = i, !.flags = @ \ {"UP"}, !.master = 0,
             !.name = IF Taken(q.ns, @) THEN q.name ELSE @] :
     i \in IF Used(q.ns, d.idx) THEN Fresh(q.ns, last[q.ns]) ELSE {d.idx}}

Landed(d, q) == IF LeavesNs(d, q) THEN Moved(d, q) ELSE {d}

WithMtu(g, q) == [g EXCEPT !.mtu = IF q.mtu = 0 THEN @ ELSE q.mtu]

(* A device selected by index is renamed to the name that comes with it.   *)
Renames(g, q) == q.idx # 0 /\ q.name # NoName /\ q.name # g.name

WithName(g, q) == [g EXCEPT !.name = IF Renames(g, q) THEN q.name ELSE @]

WithRest(g, q) == [g EXCEPT !.master = IF q.master = 0 THEN @ ELSE q.master,
                            !.flags = Combined(@, q)]

RenameError(g, q, e) ==
  /\ Renames(g, q)
  /\ \/ Taken(g.ns, q.name) /\ e = "EEXIST"
     \/ "UP" \in g.flags /\ e = "EBUSY"    \* kernels before 6.2

(* h is what SETLINK makes of g, the device once it is in its namespace.   *)
Changed(g, q, e, h) ==
  LET r == WithName(WithMtu(g, q), q) IN
  \/ RenameError(g, q, e) /\ h = WithMtu(g, q)
  \/ /\ ~(Renames(g, q) /\ Taken(g.ns, q.name))
     /\ BadMaster(g.ns, g.kind, q)
     /\ e = "EINVAL" /\ h = r
  \/ /\ ~(Renames(g, q) /\ Taken(g.ns, q.name))
     /\ ~BadMaster(g.ns, g.kind, q)
     /\ e = "ok" /\ h = WithRest(r, q)

RtmSetLink(n, q, e) ==
  \/ Unselected(q, e) /\ UNCHANGED kernel
  \/ Missing(n, q, e) /\ UNCHANGED kernel
  \/ \E d \in Lookup(n, q) :
       \/ LeavesNs(d, q) /\ MoveError(d, q, e) /\ UNCHANGED kernel
       \/ /\ LeavesNs(d, q) => ~\E k \in Errno : MoveError(d, q, k)
          /\ \E g \in Landed(d, q) :
               /\ \E h \in {WithMtu(g, q), WithName(WithMtu(g, q), q),
                            WithRest(WithName(WithMtu(g, q), q), q)} :
                    /\ Changed(g, q, e, h)
                    /\ links' = (links \ {d}) \cup {h}
               /\ last' = IF g.idx = d.idx THEN last
                          ELSE [last EXCEPT ![g.ns] = g.idx]

-----------------------------------------------------------------------------
(* RTM_DELLINK.  A veth goes with its peer; the ports of a bridge stay,    *)
(* without their master.                                                   *)

Gone(d) == {x \in links : x = d \/ (d.pair # {} /\ x.pair = d.pair)}

Released(d, gone) ==
  IF \E b \in gone : b.ns = d.ns /\ b.idx = d.master
  THEN [d EXCEPT !.master = 0] ELSE d

RtmDelLink(n, q, e) ==
  \/ Unselected(q, e) /\ UNCHANGED kernel
  \/ Missing(n, q, e) /\ UNCHANGED kernel
  \/ \E d \in Lookup(n, q) :
       /\ e = "ok"
       /\ links' = {Released(x, Gone(d)) : x \in links \ Gone(d)}
       /\ UNCHANGED last
=============================================================================
