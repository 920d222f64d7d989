-------------------------- MODULE RtnlVlanRefinement --------------------------
(* RtnlVlan implements AtomicVlan: two exchanges, a read by name and a     *)
(* change by index, are as good as one step.                               *)
EXTENDS RtnlVlan

(* What others can see of a device's VLANs.                                *)
VlansOf(d) == [name |-> d.name, on |-> d.kind = "bridge" \/ d.port,
               untagged |-> d.untagged, tagged |-> d.tagged, pvid |-> d.pvid]

(* What a call is for: the device is that of the object's name.            *)
Asked(c) ==
  IF pc[c] = "idle" THEN {}
  ELSE {[name |-> obj[c].name, vid |-> call[c].vid, unset |-> call[c].unset,
         untagged |-> call[c].untagged, pvid |-> call[c].pvid]}

Atomic == INSTANCE AtomicVlan WITH
  vlans <- {VlansOf(d) : d \in devs},
  asked <- [c \in Clients |-> Asked(c)],
  granted <- [c \in Clients |-> ret[c] = "ok"]

(* SetVlan reads, decides and changes in separate exchanges (link.go:805): *)
(* other clients set VLANs in between, and the device may be deleted and   *)
(* made anew.  It is as good as atomic all the same: a call that succeeds  *)
(* has changed the device it names as asked or found it so, one that fails *)
(* has changed it as asked or not at all, and neither changes it twice:    *)
(* the one step of a call that changes a device is the one that ends it.   *)
(* It takes that no device is renamed.                                     *)
ImplementsAtomicVlan == Atomic!VlanSpec
=============================================================================
