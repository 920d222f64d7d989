---------------------------- MODULE MCRtnlRecords ----------------------------
(* RtnlRecords on small instances.                                         *)
EXTENDS RtnlRecords, TLC

Rule(f, p, m, t) == [family |-> f, priority |-> p, match |-> m, table |-> t]

(* Rules with and without a priority: the kernel gives the latter the same *)
(* one; with a Src, with another selector, without any; tables on both     *)
(* sides of 256, and no table; no family.                                  *)
SomeRules == {Rule("inet", 1, Every, 256), Rule("inet", 1, "src", 256),
              Rule("inet", 1, "dev", 255), Rule("inet", 0, Every, 0),
              Rule("unspec", 1, Every, 255)}

(* One address the kernel takes, if the device is there and the address is *)
(* not, and one it refuses.                                                *)
SomeAddrs == {[idx |-> 1, prefix |-> "v4"], [idx |-> 1, prefix |-> "mapped"]}

Symmetry == Permutations(Clients)

(* Nothing reads ret but properties, in the step that returns; made is     *)
(* reset when the next call begins.                                        *)
InCall == <<rules, devs, addrs, pc, call,
            [c \in Clients |-> IF pc[c] = "idle" THEN {} ELSE made[c]]>>
=============================================================================
