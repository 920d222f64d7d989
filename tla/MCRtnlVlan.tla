------------------------------ MODULE MCRtnlVlan ------------------------------
(* RtnlVlan on small instances.                                            *)
EXTENDS RtnlVlanRefinement, TLC

(* Clients and names are interchangeable.                                  *)
Symmetry == Permutations(Clients) \cup Permutations(Names)

(* Nothing reads ret but properties, in the step that returns; the lists   *)
(* of an object are overwritten by the Read that precedes their use.       *)
WithoutRet == <<devs, last, [c \in Clients |-> <<obj[c].idx, obj[c].name>>],
                pc, call>>

Ask(v, unset, untagged, pvid, self) ==
  [vid |-> v, unset |-> unset, untagged |-> untagged, pvid |-> pvid,
   self |-> self]

(* Two VLANs, of which one is the default, each to be set and to be unset: *)
(* on a port untagged and tagged, with and without PVID; and on a bridge.  *)
(* And VLAN 0.                                                             *)
SomeAsks ==
  {Ask(1, FALSE, TRUE, TRUE, FALSE), Ask(1, TRUE, TRUE, FALSE, FALSE),
   Ask(2, FALSE, FALSE, FALSE, FALSE), Ask(2, FALSE, FALSE, TRUE, FALSE),
   Ask(2, FALSE, TRUE, FALSE, FALSE), Ask(2, TRUE, FALSE, FALSE, FALSE),
   Ask(2, FALSE, FALSE, FALSE, TRUE), Ask(1, TRUE, TRUE, FALSE, TRUE),
   Ask(0, FALSE, FALSE, FALSE, FALSE)}
=============================================================================
