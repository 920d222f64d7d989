----------------------------- MODULE MCRtnlRoute -----------------------------
(* RtnlRoute on a small instance.                                          *)
EXTENDS RtnlRoute

CONSTANTS d, d6, g

Input(dest, class, gw, prio, table) ==
  [family |-> "unspec", dest |-> dest, class |-> class, gw |-> gw, oif |-> 0,
   prio |-> prio, hdrTable |-> 100, table |-> table]

(* With and without a gateway, a priority and a table; a header that has a *)
(* table already; a destination that does not go into the message.         *)
SomeInputs == {Input(d, "unset", g, 0, 0), Input(d, "unset", NoGw, 1, 256),
               Input(d6, "local", g, 0, 0)}

(* What a client makes of the first; the same with metrics; one without a  *)
(* gateway.                                                                *)
Foreigners == {[dest |-> d, gw |-> g, prio |-> 0, table |-> 254, mtu |-> FALSE],
               [dest |-> d, gw |-> g, prio |-> 0, table |-> 254, mtu |-> TRUE],
               [dest |-> d, gw |-> NoGw, prio |-> 1, table |-> 254, mtu |-> FALSE]}

OneBehind == [x \in Gateways |-> "eth0"]

(* Nothing reads ret but properties, in the step that returns.             *)
WithoutRet == <<names, plugged, routes, obj, pc, call>>
=============================================================================
