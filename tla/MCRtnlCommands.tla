----------------------------- MODULE MCRtnlCommands -----------------------------
(* RtnlCommands on a small instance: the command lines that are given.     *)
EXTENDS RtnlCommands, RtnlLinkRefinement, TLC

CONSTANTS n1, a, b

Line(do, x, y, arg) ==
  [do |-> do, ns |-> n1, name |-> x, bridge |-> y, peer |-> NoName, arg |-> arg]

Lines == {Line("add bridge", b, NoName, 0), Line("add vxlan", a, b, 0),
          [Line("add veth", a, NoName, 0) EXCEPT !.peer = b],
          Line("up", a, NoName, 0), Line("down", a, NoName, 0),
          Line("mtu", a, NoName, 2), Line("mtu", a, NoName, 0),
          Line("delete", a, NoName, 0), Line("vrf del", b, NoName, 0),
          Line("list", NoName, NoName, 0), Line("list", NoName, b, 0)}

(* What is left behind and never read again: ret is for properties, in the *)
(* step that returns, home is the only namespace there is, and the next    *)
(* command, and the next row of a list, have a new object.                 *)
WithoutRemains ==
  <<links, last, [c \in Clients |-> IF stage[c] \in Done \cup {"dumped", "list"}
                                   THEN EmptyLink ELSE obj[c]],
    pc, call, script>>

PlainContexts == {[ns |-> n1, target |-> NoNs]}
WithOwn == {NoNs, n1}
=============================================================================
