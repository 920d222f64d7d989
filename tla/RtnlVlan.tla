------------------------------- MODULE RtnlVlan -------------------------------
(***************************************************************************)
(* SetVlan, SetTagged and SetUntagged (src/link.go): clients that set and  *)
(* unset VLANs of bridge ports through a *Link they have read, while other *)
(* programs create, enslave, release and delete the devices.  A call reads *)
(* the VLANs of the device by NAME, in a dump of family AF_BRIDGE, decides *)
(* from them, and changes one VLAN of the device by INDEX.                 *)
(*                                                                         *)
(* The other programs rename no device.  If one did, between the two       *)
(* exchanges or before them, a name and an index could mean two devices,   *)
(* and nothing below would hold.                                           *)
(***************************************************************************)
EXTENDS Naturals

CONSTANTS
  Clients,      \* the goroutines, each with a *Link of its own
  Names,        \* the device names in use
  MaxIndex,     \* bound: the largest ifindex
  Vids,         \* the VLANs the clients ask for
  Asks,         \* the calls of SetVlan that are made: its arguments
  Faults        \* "dial": no socket; "recv": the answer is lost

Arguments == [vid : Vids, unset : BOOLEAN, untagged : BOOLEAN,
              pvid : BOOLEAN, self : BOOLEAN]

ASSUME VlanAssumption ==
  /\ MaxIndex \in Nat
  /\ Vids \subseteq 0 .. 65535   \* uint16
  /\ Faults \subseteq {"dial", "recv"}

ASSUME AsksAssumption == Asks \subseteq Arguments

VARIABLES
  devs,   \* the devices of the namespace
  last,   \* the last ifindex handed out
  obj,    \* obj[c]: the *Link of client c
  pc,     \* pc[c]: the exchange c is about to make, "idle" between calls
  call,   \* call[c]: the arguments of the call
  ret     \* ret[c]: what the last call returned, "ok" for nil

vars == <<devs, last, obj, pc, call, ret>>

Indices == 1 .. MaxIndex
DefaultVid == 1    \* the kernel's default PVID
MaxVid == 4094
Vlans == (Vids \cap 1 .. MaxVid) \cup {DefaultVid}

Device == [idx : Indices, name : Names, kind : {"bridge", "soft"},
           port : BOOLEAN, untagged : SUBSET Vlans, tagged : SUBSET Vlans,
           pvid : Vlans \cup {0}]

(* Msg.Index and the fields Name, Untagged and Tagged of Info.             *)
Object == [idx : 0 .. MaxIndex, name : Names,
           untagged : SUBSET ((Vids \ {0}) \cup Vlans),
           tagged : SUBSET ((Vids \ {0}) \cup Vlans)]

Call == [vid : Vids \cup {0}, unset : BOOLEAN, untagged : BOOLEAN,
         pvid : BOOLEAN, self : BOOLEAN]

NoCall == [vid |-> 0, unset |-> FALSE, untagged |-> FALSE, pvid |-> FALSE,
           self |-> FALSE]

Errors == {"ENODEV", "EINVAL", "EOPNOTSUPP", "EIO", "notfound"}

TypeOK ==
  /\ devs \subseteq Device
  /\ last \in 0 .. MaxIndex
  /\ obj \in [Clients -> Object]
  /\ pc \in [Clients -> {"idle", "read", "send"}]
  /\ call \in [Clients -> Call]
  /\ ret \in [Clients -> Errors \cup {"ok"}]

-----------------------------------------------------------------------------
(* The kernel and the other programs (external).                           *)

(* A bridge, or a device that becomes a port, starts with the default PVID.*)
Start(d) == [d EXCEPT !.untagged = {DefaultVid}, !.tagged = {},
                      !.pvid = DefaultVid]

Plain(i, x, k) == [idx |-> i, name |-> x, kind |-> k, port |-> FALSE,
                   untagged |-> {}, tagged |-> {}, pvid |-> 0]

CreateDevice ==
  /\ last < MaxIndex
  /\ last' = last + 1
  /\ \E x \in Names \ {d.name : d \in devs} :
       \/ devs' = devs \cup {Plain(last', x, "soft")}
       \/ devs' = devs \cup {Start(Plain(last', x, "bridge"))}

ChangeDevice ==
  \E d \in devs :
    /\ \/ devs' = devs \ {d}
       \/ /\ d.kind = "soft" /\ ~d.port
          /\ devs' = (devs \ {d}) \cup {Start([d EXCEPT !.port = TRUE])}
       \/ /\ d.port
          /\ devs' = (devs \ {d}) \cup {Plain(d.idx, d.name, d.kind)}
    /\ UNCHANGED last

(* The answer to a dump of family AF_BRIDGE, as far as Satisfies keeps it. *)
BridgeLinks(x) == {d \in devs : d.name = x /\ (d.kind = "bridge" \/ d.port)}

(* br_vlan_info, for each of the VLANs of a request                        *)
VlanAdded(d, q) ==
  [d EXCEPT !.untagged = IF q.untagged THEN @ \cup q.vids ELSE @ \ q.vids,
            !.tagged = IF q.untagged THEN @ \ q.vids ELSE @ \cup q.vids,
            !.pvid = IF q.pvid THEN CHOOSE v \in q.vids : TRUE
                     ELSE IF @ \in q.vids THEN 0 ELSE @]

VlanDeleted(d, q) ==
  [d EXCEPT !.untagged = @ \ q.vids, !.tagged = @ \ q.vids,
            !.pvid = IF @ \in q.vids THEN 0 ELSE @]

(* Without BRIDGE_FLAGS_SELF a request is for the master of a port.        *)
Serves(d, q) == IF q.self THEN d.kind = "bridge" ELSE d.port

RtmVlanError(q, e) ==
  \/ ~(\E d \in devs : d.idx = q.idx) /\ e = "ENODEV"
  \/ \E d \in devs :
       /\ d.idx = q.idx
       /\ \/ ~Serves(d, q) /\ e = "EOPNOTSUPP"
          \/ ~(q.vids \subseteq 1 .. MaxVid) /\ e = "EINVAL"

RtmVlan(q, e) ==
  \/ RtmVlanError(q, e) /\ UNCHANGED devs
  \/ /\ ~\E k \in Errors : RtmVlanError(q, k)
     /\ e = "ok"
     /\ \E d \in devs :
          /\ d.idx = q.idx
          /\ devs' = (devs \ {d}) \cup
                     {IF q.type = "DELLINK" THEN VlanDeleted(d, q)
                                            ELSE VlanAdded(d, q)}

-----------------------------------------------------------------------------
(* Clients.                                                                *)

(* Mutant: an exchange is tried again when its answer has not come.        *)
ReturnUnlessLost(c, e) ==
  IF e = "EIO" THEN UNCHANGED <<pc, ret, call>>
  ELSE /\ pc' = [pc EXCEPT ![c] = "idle"]
       /\ ret' = [ret EXCEPT ![c] = e]
       /\ call' = [call EXCEPT ![c] = NoCall]

Return(c, e) == /\ pc' = [pc EXCEPT ![c] = "idle"]
                /\ ret' = [ret EXCEPT ![c] = e]
                /\ call' = [call EXCEPT ![c] = NoCall]

(* What an ordinary Read leaves in the lists: nothing, or VLAN 1 in one of *)
(* them, because Unmarshal takes the AF_INET part of IFLA_AF_SPEC, which   *)
(* has the number of IFLA_BRIDGE_VLAN_INFO, for a VLAN (link.go:264).      *)
Misread == {[untagged |-> u, tagged |-> t] :
              u, t \in SUBSET {DefaultVid}} \ {[untagged |-> {DefaultVid},
                                                tagged |-> {DefaultVid}]}

(* &Link{Info: &LinkInfo{Name: x}}, or GetLink(ctx, x)                     *)
Obtain(c) ==
  /\ pc[c] = "idle"
  /\ \/ \E x \in Names :
          obj' = [obj EXCEPT ![c] = [idx |-> 0, name |-> x, untagged |-> {},
                                     tagged |-> {}]]
     \/ \E d \in devs, m \in Misread :
          obj' = [obj EXCEPT ![c] = [idx |-> d.idx, name |-> d.name,
                                     untagged |-> m.untagged,
                                     tagged |-> m.tagged]]
  /\ UNCHANGED <<devs, last, pc, call, ret>>

(* SetVlan returns at once for VLAN 0.                                     *)
NeverIgnored(k) == FALSE   \* Mutant
Ignored(k) == k.vid = 0

CallSetVlan(c) ==
  /\ pc[c] = "idle"
  /\ \E k \in Asks :
       IF Ignored(k) THEN Return(c, "ok")
       ELSE /\ pc' = [pc EXCEPT ![c] = "read"]
            /\ call' = [call EXCEPT ![c] = k]
            /\ UNCHANGED ret
  /\ UNCHANGED <<devs, last, obj>>

(* Mutant: the lists are those of an earlier Read.                         *)
WithoutVlans(o, d) == o

(* Read in family AF_BRIDGE overwrites the lists and nothing else.         *)
WithVlans(o, d) == [o EXCEPT !.untagged = d.untagged, !.tagged = d.tagged]

Listed(k, o) == k.vid \in IF k.untagged THEN o.untagged ELSE o.tagged

Append(k, o) == IF k.untagged THEN [o EXCEPT !.untagged = @ \cup {k.vid}]
                              ELSE [o EXCEPT !.tagged = @ \cup {k.vid}]

(* There is something to send: the VLAN is to be set and not in the list   *)
(* of its tagging, or to be unset and in that list.                        *)
Wanted(k, o) == k.unset = Listed(k, o)

(* The Read of SetVlan and what it decides                                 *)
ReadVlans(c) ==
  /\ pc[c] = "read"
  /\ \/ /\ Faults # {}
        /\ Return(c, "EIO") /\ UNCHANGED obj
     \/ /\ BridgeLinks(obj[c].name) = {}
        /\ Return(c, "notfound") /\ UNCHANGED obj
     \/ \E d \in BridgeLinks(obj[c].name) :
          LET o == WithVlans(obj[c], d) IN
          IF Wanted(call[c], o)
          THEN /\ obj' = [obj EXCEPT ![c] = IF call[c].unset THEN o
                                            ELSE Append(call[c], o)]
               /\ pc' = [pc EXCEPT ![c] = "send"]
               /\ UNCHANGED <<call, ret>>
          ELSE obj' = [obj EXCEPT ![c] = o] /\ Return(c, "ok")
  /\ UNCHANGED <<devs, last>>

(* Mutant: all the VLANs of the list go out.                               *)
ListRequest(k, o) ==
  [type |-> IF k.unset THEN "DELLINK" ELSE "SETLINK", idx |-> o.idx,
   vids |-> {k.vid} \cup (IF k.untagged THEN o.untagged ELSE o.tagged),
   untagged |-> k.untagged, pvid |-> k.pvid, self |-> k.self]

VlanRequest(k, o) ==
  [type |-> IF k.unset THEN "DELLINK" ELSE "SETLINK", idx |-> o.idx,
   vids |-> {k.vid}, untagged |-> k.untagged, pvid |-> k.pvid,
   self |-> k.self]

SendVlan(c) ==
  /\ pc[c] = "send"
  /\ \E e \in Errors \cup {"ok"} :
       /\ \/ "dial" \in Faults /\ e = "EIO" /\ UNCHANGED devs
          \/ \E k \in Errors \cup {"ok"} :
               /\ RtmVlan(VlanRequest(call[c], obj[c]), k)
               /\ e = k \/ ("recv" \in Faults /\ e = "EIO")
       /\ Return(c, e)
  /\ UNCHANGED <<last, obj>>

-----------------------------------------------------------------------------
Init ==
  /\ devs = {}
  /\ last = 0
  /\ obj \in [Clients -> {[idx |-> 0, name |-> x, untagged |-> {},
                           tagged |-> {}] : x \in Names}]
  /\ pc = [c \in Clients |-> "idle"]
  /\ call = [c \in Clients |-> NoCall]
  /\ ret = [c \in Clients |-> "ok"]

Environment == /\ CreateDevice \/ ChangeDevice
               /\ UNCHANGED <<obj, pc, call, ret>>

ClientStep(c) == Obtain(c) \/ CallSetVlan(c) \/ ReadVlans(c) \/ SendVlan(c)

Next == Environment \/ \E c \in Clients : ClientStep(c)

Spec == Init /\ [][Next]_vars

-----------------------------------------------------------------------------
(* Properties.                                                             *)

Steps(c) == pc'[c] # pc[c]
Returns(c) == pc[c] # "idle" /\ pc'[c] = "idle"

InList(k, d) == k.vid \in IF k.untagged THEN d.untagged ELSE d.tagged

(* When SetVlan returns nil, the device of the object's name has the VLAN  *)
(* with the tagging asked for (does not have it, after unset), although    *)
(* the VLANs are read by name, the change is made by index, other clients  *)
(* change VLANs between the two and the device may be another by then.  It *)
(* takes that no device is renamed.                                        *)
VlanStands ==
  [][\A c \in Clients : Returns(c) /\ ret'[c] = "ok" =>
       IF call[c].unset
       THEN ~\E d \in devs' : d.name = obj[c].name /\ InList(call[c], d)
       ELSE \E d \in devs' : d.name = obj[c].name /\ InList(call[c], d)]_vars

(* SetVlan changes one VLAN of the device its object names: it never puts  *)
(* back or takes away what other clients set or unset since it read the    *)
(* lists, nor moves the PVID between VLANs that are not its own.           *)
OnlyItsVlan ==
  [][\A c \in Clients : Steps(c) =>
       \A d \in devs : \E h \in devs' :
         /\ [h EXCEPT !.untagged = {}, !.tagged = {}, !.pvid = 0]
            = [d EXCEPT !.untagged = {}, !.tagged = {}, !.pvid = 0]
         /\ h.untagged \ {call[c].vid} = d.untagged \ {call[c].vid}
         /\ h.tagged \ {call[c].vid} = d.tagged \ {call[c].vid}
         /\ h.pvid # d.pvid => call[c].vid \in {h.pvid, d.pvid}
         /\ h # d => d.name = obj[c].name]_vars

(* "already set" (link.go:832): SetVlan with pvid that returns nil leaves  *)
(* the VLAN as the device's PVID.                                          *)
AlreadySet ==
  [][\A c \in Clients :
       Returns(c) /\ ret'[c] = "ok" /\ ~call[c].unset /\ call[c].pvid =>
         \E d \in devs' : d.name = obj[c].name /\ d.pvid = call[c].vid]_vars
=============================================================================
