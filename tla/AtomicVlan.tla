------------------------------ MODULE AtomicVlan ------------------------------
(***************************************************************************)
(* What SetVlan promises, as if it were a single step: a call gives one    *)
(* VLAN to the device of a name, or takes it away, all at once, at most    *)
(* once and while it is under way, whatever others do to the device at the *)
(* same time.  If it succeeds the device is as asked when it returns; if   *)
(* it fails the device has been given all that was asked, or nothing.      *)
(* Otherwise VLANs change only as devices come, go, and start or cease to  *)
(* have any: a call that touched a device twice, or touched another one,   *)
(* would be doing what nobody does here.                                   *)
(***************************************************************************)
CONSTANTS Clients, Names, Vids, DefaultVid

VARIABLES
  vlans,     \* of each device its name, whether it is on (a bridge or a
             \* port, which have VLANs), its VLANs and its PVID
  asked,     \* asked[c]: {} between calls, {k} while the request k is served
  granted    \* granted[c]: the last call of c has succeeded

vlanVars == <<vlans, asked, granted>>

Requests == [name : Names, vid : Vids, unset : BOOLEAN, untagged : BOOLEAN,
             pvid : BOOLEAN]

VlanInit == /\ vlans = {}
            /\ asked = [c \in Clients |-> {}]
            /\ granted = [c \in Clients |-> TRUE]

AsAsked(k, d) == k.unset # (k.vid \in IF k.untagged THEN d.untagged ELSE d.tagged)

(* d as it is when k has been served: without the VLAN, or with it in one  *)
(* of the two ways, in which case it may become the PVID or cease to be it.*)
Served(k, d) ==
  LET less == [d EXCEPT !.untagged = @ \ {k.vid}, !.tagged = @ \ {k.vid},
                        !.pvid = IF @ = k.vid THEN 0 ELSE @]
      more == [less EXCEPT !.pvid = IF k.pvid THEN k.vid ELSE @]
  IN CASE k.unset -> less
       [] ~k.unset /\ k.untagged -> [more EXCEPT !.untagged = @ \cup {k.vid}]
       [] OTHER -> [more EXCEPT !.tagged = @ \cup {k.vid}]

Serve(c) == \E k \in asked[c], d \in vlans :
              /\ d.name = k.name /\ d.on
              /\ vlans' = (vlans \ {d}) \cup {Served(k, d)}

Returns(c, ok) == /\ asked' = [asked EXCEPT ![c] = {}]
                  /\ granted' = [granted EXCEPT ![c] = ok]

Ask(c) ==
  /\ asked[c] = {}
  /\ \E k \in Requests : asked' = [asked EXCEPT ![c] = {k}]
  /\ UNCHANGED <<vlans, granted>>

(* No request at all: VLAN 0.                                              *)
AskNothing(c) == asked[c] = {} /\ Returns(c, TRUE) /\ UNCHANGED vlans

Succeed(c) ==
  /\ asked[c] # {}
  /\ \/ Serve(c)
     \/ /\ \E k \in asked[c], d \in vlans : d.name = k.name /\ AsAsked(k, d)
        /\ UNCHANGED vlans
  /\ Returns(c, TRUE)

Fail(c) ==
  /\ asked[c] # {}
  /\ Serve(c) \/ UNCHANGED vlans
  /\ Returns(c, FALSE)

(* The device x as it is when it has just become a bridge or a port, or    *)
(* has just ceased to be one or never been.                                *)
Fresh(x, on) ==
  [name |-> x, on |-> on, untagged |-> IF on THEN {DefaultVid} ELSE {},
   tagged |-> {}, pvid |-> IF on THEN DefaultVid ELSE 0]

(* Devices come and go, and become ports or cease to be; nothing but a     *)
(* request changes the VLANs of a device that is on and stays on.          *)
Others ==
  /\ \/ \E x \in Names \ {d.name : d \in vlans}, on \in BOOLEAN :
          vlans' = vlans \cup {Fresh(x, on)}
     \/ \E d \in vlans : vlans' = vlans \ {d}
     \/ \E d \in vlans :
          vlans' = (vlans \ {d}) \cup {Fresh(d.name, ~d.on)}
  /\ UNCHANGED <<asked, granted>>

VlanNext ==
  \/ Others
  \/ \E c \in Clients : Ask(c) \/ AskNothing(c) \/ Succeed(c) \/ Fail(c)

VlanSpec == VlanInit /\ [][VlanNext]_vlanVars
=============================================================================
