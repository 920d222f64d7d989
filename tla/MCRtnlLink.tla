------------------------------ MODULE MCRtnlLink ------------------------------
(* RtnlLink on small instances.  The cfg files name the contexts of a      *)
(* deployment: one namespace, or two with a target.                        *)
EXTENDS RtnlLinkRefinement, TLC

CONSTANTS n1, n2

(* Clients are interchangeable: no action or property tells them apart.    *)
ClientSymmetry == Permutations(Clients)

NameSymmetry == Permutations(Clients) \cup Permutations(Names)

(* Nothing reads ret: only properties do, and only its new value in the    *)
(* step that returns, so that states that differ in it alone are one.      *)
WithoutRet == <<links, last, obj, pc, call, home>>

NoClientNs == {NoNs}
WithTarget == {NoNs, n2}
PlainContexts == {[ns |-> n1, target |-> NoNs]}
TargetContexts == {[ns |-> n1, target |-> n2], [ns |-> n2, target |-> NoNs]}
=============================================================================
