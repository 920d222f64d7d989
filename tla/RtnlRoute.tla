------------------------------- MODULE RtnlRoute -------------------------------
(***************************************************************************)
(* Routes (src/route.go) and `nl route` (src/cmd/nl/route.go): clients     *)
(* that add, delete and read IPv4 routes while devices come and go and     *)
(* other programs change the table.                                        *)
(*                                                                         *)
(* The class of a route is what its type and scope come to: "plain"        *)
(* (unicast, universe), "link" (unicast, scope link), "local", and "unset" *)
(* for an object whose Hdr.Type is zero.                                   *)
(***************************************************************************)
EXTENDS Naturals, Sequences, FiniteSets

CONSTANTS
  Clients,      \* goroutines and nl processes
  Dests,        \* IPv4 destinations with their prefix length
  Inet6,        \* destinations without an IPv4 form
  Gateways,     \* IPv4 gateways
  NoGw,         \* no gateway, a nil net.IP
  Names,        \* the names of devices
  Behind,       \* Behind[g]: the name of the device whose subnet has g
  RouteInputs,  \* the *Route values callers fill in themselves
  ForeignInputs,\* the routes other programs make
  MaxIndex,     \* bound: the devices that are ever plugged in
  MaxRoutes,    \* bound: the routes the kernel has room for
  Texts,        \* "bare": an error reads as its errno; "wrapped": with a prefix
  Faults        \* "dial": no socket; "recv": the answer is lost

Main == 254     \* RT_TABLE_MAIN
Compat == 252   \* RT_TABLE_COMPAT: a table that does not fit eight bits

Object == [family : {"unspec", "inet"}, dest : Dests \cup Inet6,
           class : {"unset", "plain", "link", "local"},
           gw : Gateways \cup {NoGw}, oif : Nat, prio : Nat,
           hdrTable : 0 .. 255, table : Nat]

ASSUME RouteAssumption ==
  /\ MaxIndex \in Nat /\ MaxRoutes \in Nat
  /\ RouteInputs \subseteq Object
  /\ ForeignInputs \subseteq [dest : Dests, gw : Gateways \cup {NoGw},
                             prio : Nat, table : Nat \ {0}, mtu : BOOLEAN]
  /\ Dests \cap Inet6 = {}
  /\ NoGw \notin Gateways
  /\ Behind \in [Gateways -> Names]
  /\ Texts \subseteq {"bare", "wrapped"} /\ Texts # {}
  /\ Faults \subseteq {"dial", "recv"}

VARIABLES
  names,    \* names[i]: the name of the device of index i
  plugged,  \* the indices of the devices that are there
  routes,   \* the routes of all tables
  obj,      \* obj[c]: the *Route in the hand of c
  pc,       \* pc[c]: the exchange c makes next
  call,     \* call[c]: the method, and the --oif of an nl command
  ret       \* ret[c]: what the last call returned, "ok" for nil

vars == <<names, plugged, routes, obj, pc, call, ret>>

NoName == ""    \* no --oif

Route == [dest : Dests, class : {"plain", "link", "local"},
          gw : Gateways \cup {NoGw}, oif : Nat, prio : Nat,
          table : Nat \ {0}, mtu : BOOLEAN]

RouteOps == {"Add", "Present", "Del", "Absent"}

NoCall == [op |-> "none", via |-> NoName]

Errors == {"EEXIST", "ENODEV", "ENETUNREACH", "ESRCH", "ENOENT", "EINVAL",
           "ENOBUFS", "EIO"}

(* Types; a route goes through a device that is there; a device that is    *)
(* there has its name to itself.                                           *)
TypeOK ==
  /\ names \in Seq(Names) /\ Len(names) <= MaxIndex
  /\ plugged \subseteq DOMAIN names
  /\ \A i, j \in plugged : names[i] = names[j] => i = j
  /\ routes \subseteq Route
  /\ \A x \in routes : x.oif \in plugged
  /\ obj \in [Clients -> Object]
  /\ pc \in [Clients -> {"idle", "lookup", "send"}]
  /\ call \in [Clients -> [op : RouteOps \cup {"none"},
                           via : Names \cup {NoName}]]
  /\ ret \in [Clients -> Errors \cup {"ok"}]

-----------------------------------------------------------------------------
(* Objects and messages.                                                   *)

(* Mutant: the table of the header is as wide as the attribute.            *)
WideHeader(t) == t

(* The table in the header, which has eight bits for it                    *)
Header(t) == IF t > 255 THEN Compat ELSE t

(* Route.Unmarshal of an entry of the dump.  The kernel puts the metrics   *)
(* before the gateway and the device; they are a nested attribute, the     *)
(* decoder takes them for a number, fails, and stops without a word.       *)
ReadRoute(x) ==
  [family |-> "inet", dest |-> x.dest, class |-> x.class,
   gw |-> IF x.mtu THEN NoGw ELSE x.gw, oif |-> IF x.mtu THEN 0 ELSE x.oif,
   prio |-> x.prio, hdrTable |-> Header(x.table), table |-> x.table]

(* Mutant: only a header without a table is given the default.             *)
KeepsHdrTable(r) ==
  [r EXCEPT !.family = "inet", !.class = IF @ = "unset" THEN "plain" ELSE @,
            !.hdrTable = IF @ = 0 THEN Main ELSE @]

(* What Modify writes to the caller's object before it marshals it.        *)
Defaulted(r) ==
  [r EXCEPT !.family = "inet", !.class = IF @ = "unset" THEN "plain" ELSE @,
            !.hdrTable = IF r.table = 0 THEN Main ELSE @]

Creates(op) == op \in {"Add", "Present"}

(* Mutant: NLM_F_EXCL is left out.                                         *)
NotExclusive(op) == FALSE

Exclusive(op) == TRUE

Message(op, r) ==
  [new |-> Creates(op), excl |-> Exclusive(op), dest |-> r.dest,
   class |-> r.class, gw |-> r.gw, oif |-> r.oif, prio |-> r.prio,
   table |-> IF r.table # 0 THEN r.table ELSE r.hdrTable]

-----------------------------------------------------------------------------
(* The kernel (external).                                                  *)

Key(x) == <<x.table, x.dest, x.prio>>

(* The devices a new route may go through: the one of its index, or with a *)
(* gateway the one the gateway is behind.                                  *)
Out(q) ==
  {i \in plugged : IF q.gw = NoGw THEN i = q.oif
                   ELSE names[i] = Behind[q.gw] /\ q.oif \in {0, i}}

(* Routes the kernel does not take whatever the others are, or for lack of *)
(* room                                                                    *)
RouteError(q, e) ==
  \/ (q.dest \in Inet6 \/ (q.gw # NoGw /\ q.class # "plain")) /\ e = "EINVAL"
  \/ Cardinality(routes) >= MaxRoutes /\ e = "ENOBUFS"
  \/ Out(q) = {} /\ e = IF q.gw = NoGw THEN "ENODEV" ELSE "ENETUNREACH"

NewRoute(q, i) == [dest |-> q.dest, class |-> q.class, gw |-> q.gw, oif |-> i,
                   prio |-> q.prio, table |-> q.table, mtu |-> FALSE]

(* fib_table_insert: routes of one table, destination and priority exclude *)
(* each other, whatever their nexthops.                                    *)
RtmNewRoute(q, e) ==
  LET valid == ~\E k \in Errors : RouteError(q, k)
      exists == q.excl /\ \E x \in routes : Key(x) = Key(q)
  IN
  \/ RouteError(q, e) /\ UNCHANGED routes
  \/ valid /\ exists /\ e = "EEXIST" /\ UNCHANGED routes
  \/ /\ valid /\ ~exists /\ e = "ok"
     /\ \E i \in Out(q) : routes' = routes \cup {NewRoute(q, i)}

(* fib_table_delete: no priority, gateway or device means any.             *)
Fits(x, q) == /\ x.table = q.table /\ x.dest = q.dest /\ x.class = q.class
              /\ q.prio \in {0, x.prio}
              /\ q.gw \in {NoGw, x.gw}
              /\ q.oif \in {0, x.oif}

FirstFits(q) == {x \in routes : /\ Fits(x, q)
                                /\ \A y \in routes : Fits(y, q) => x.prio <= y.prio}

RtmDelRoute(q, e) ==
  \/ q.dest \in Inet6 /\ e = "EINVAL" /\ UNCHANGED routes
  \/ q.dest \notin Inet6 /\ FirstFits(q) = {} /\ e = "ESRCH" /\ UNCHANGED routes
  \/ /\ q.dest \notin Inet6 /\ e = "ok"
     /\ \E x \in FirstFits(q) : routes' = routes \ {x}

Rtm(q, e) == IF q.new THEN RtmNewRoute(q, e) ELSE RtmDelRoute(q, e)

(* Devices are plugged in and go, with their routes; indices are not used  *)
(* again and nobody renames a device.                                      *)
PlugDevice ==
  /\ \/ /\ Len(names) < MaxIndex
        /\ \E n \in Names : /\ \A i \in plugged : names[i] # n
                            /\ names' = Append(names, n)
        /\ plugged' = plugged \cup {Len(names')}
        /\ UNCHANGED routes
     \/ \E i \in plugged : /\ plugged' = plugged \ {i}
                           /\ routes' = {x \in routes : x.oif # i}
                           /\ UNCHANGED names
  /\ UNCHANGED <<obj, pc, call, ret>>

(* Other programs append routes beside those of the clients and delete any *)
(* route.                                                                  *)
OtherPrograms ==
  /\ \/ /\ Cardinality(routes) < MaxRoutes
        /\ \E f \in ForeignInputs, i \in plugged :
             /\ f.gw # NoGw => names[i] = Behind[f.gw]
             /\ routes' = routes \cup
                  {[dest |-> f.dest, class |-> "plain", gw |-> f.gw, oif |-> i,
                    prio |-> f.prio, table |-> f.table, mtu |-> f.mtu]}
     \/ \E x \in routes : routes' = routes \ {x}
  /\ UNCHANGED <<names, plugged, obj, pc, call, ret>>

Environment == PlugDevice \/ OtherPrograms

-----------------------------------------------------------------------------
(* Clients.                                                                *)

(* The caller fills in a Route.                                            *)
Construct(c) ==
  /\ pc[c] = "idle"
  /\ \E r \in RouteInputs : obj' = [obj EXCEPT ![c] = r]
  /\ UNCHANGED <<names, plugged, routes, pc, call, ret>>

(* ReadRoutes; the caller keeps one of the results.                        *)
ReadRoutes(c) ==
  /\ pc[c] = "idle"
  /\ \E x \in routes : obj' = [obj EXCEPT ![c] = ReadRoute(x)]
  /\ UNCHANGED <<names, plugged, routes, pc, call, ret>>

(* Add, Present, Del and Absent up to netlinkUpdate                        *)
CallRoute(c) ==
  /\ pc[c] = "idle"
  /\ \E op \in RouteOps : call' = [call EXCEPT ![c] = [NoCall EXCEPT !.op = op]]
  /\ obj' = [obj EXCEPT ![c] = Defaulted(@)]
  /\ pc' = [pc EXCEPT ![c] = "send"]
  /\ UNCHANGED <<names, plugged, routes, ret>>

(* makeRoute fills in these fields and no other.                           *)
MadeRoute(r) ==
  [family |-> "unspec", dest |-> r.dest, class |-> "unset", gw |-> r.gw,
   oif |-> 0, prio |-> r.prio, hdrTable |-> 0, table |-> r.table]

(* nl route add and nl route del with --oif; makeRoute begins with the     *)
(* device.                                                                 *)
NlRoute(c) ==
  /\ pc[c] = "idle"
  /\ \E op \in {"Add", "Del"}, n \in Names, r \in RouteInputs :
       /\ obj' = [obj EXCEPT ![c] = MadeRoute(r)]
       /\ call' = [call EXCEPT ![c] = [op |-> op, via |-> n]]
  /\ pc' = [pc EXCEPT ![c] = "lookup"]
  /\ UNCHANGED <<names, plugged, routes, ret>>

Return(c, e) == /\ pc' = [pc EXCEPT ![c] = "idle"]
                /\ call' = [call EXCEPT ![c] = NoCall]
                /\ ret' = [ret EXCEPT ![c] = e]

(* Mutant: makeRoute goes on without the device it has not found.          *)
IndexOrNone(n) == LET found == {i \in plugged : names[i] = n}
                  IN IF found = {} THEN {0} ELSE found

IndexOf(n) == {i \in plugged : names[i] = n}

(* GetLink(ctx, oif); without the device nl exits (log.Fatal).             *)
Lookup(c) ==
  /\ pc[c] = "lookup"
  /\ \/ /\ "dial" \in Faults
        /\ Return(c, "EIO") /\ UNCHANGED obj
     \/ /\ IndexOf(call[c].via) = {}
        /\ Return(c, "ENODEV") /\ UNCHANGED obj
     \/ \E i \in IndexOf(call[c].via) :
          /\ obj' = [obj EXCEPT ![c] = Defaulted([@ EXCEPT !.oif = i])]
          /\ pc' = [pc EXCEPT ![c] = "send"]
          /\ UNCHANGED <<call, ret>>
  /\ UNCHANGED <<names, plugged, routes>>

(* Mutant: Absent takes every error for success.                           *)
AbsentAnyway(op, e, text) == IF op = "Absent" THEN "ok" ELSE e

(* Present takes "file exists" for success and Absent "no such file or     *)
(* directory", if that is the whole text.  The kernel's answer to Absent   *)
(* is "no such process", so that Absent never returns nil for it.          *)
Result(op, e, text) ==
  IF text = "bare" /\ <<op, e>> \in {<<"Present", "EEXIST">>, <<"Absent", "ENOENT">>}
  THEN "ok" ELSE e

(* netlinkUpdate of the one message                                        *)
Send(c) ==
  LET op == call[c].op IN
  /\ pc[c] = "send"
  /\ \/ /\ "dial" \in Faults
        /\ Return(c, Result(op, "EIO", "wrapped"))
        /\ UNCHANGED routes
     \/ \E answer, e \in Errors \cup {"ok"}, text \in Texts :
          /\ Rtm(Message(op, obj[c]), answer)
          /\ e = answer \/ ("recv" \in Faults /\ e = "EIO")
          /\ Return(c, Result(op, e, text))
  /\ UNCHANGED <<names, plugged, obj>>

-----------------------------------------------------------------------------
Init ==
  /\ names = <<>> /\ plugged = {} /\ routes = {}
  /\ obj \in [Clients -> RouteInputs]
  /\ pc = [c \in Clients |-> "idle"]
  /\ call = [c \in Clients |-> NoCall]
  /\ ret = [c \in Clients |-> "ok"]

ClientStep(c) == \/ Construct(c) \/ ReadRoutes(c) \/ CallRoute(c)
                 \/ NlRoute(c) \/ Lookup(c) \/ Send(c)

Next == Environment \/ \E c \in Clients : ClientStep(c)

Spec == Init /\ [][Next]_vars

-----------------------------------------------------------------------------
(* Properties.                                                             *)

Returns(c) == pc[c] # "idle" /\ pc'[c] = "idle"

Table(r) == IF r.table # 0 THEN r.table ELSE Main

(* When Present returns nil there is a route to the destination, in the    *)
(* table of the object (main if it names none, whatever its header says)   *)
(* and with its priority; it may be another's, with another gateway.       *)
PresentEnsures ==
  [][\A c \in Clients :
       Returns(c) /\ call[c].op = "Present" /\ ret'[c] = "ok" =>
         \E x \in routes' : Key(x) = <<Table(obj[c]), obj[c].dest, obj[c].prio>>]_vars

(* Present changes nothing while there is a route with the destination,    *)
(* table and priority of the object, however it goes, nor while there is   *)
(* the route that ReadRoutes made the object of, although what was read    *)
(* may lack the gateway and the device.                                    *)
PresentKeeps ==
  [][\A c \in Clients :
       /\ Returns(c) /\ call[c].op = "Present"
       /\ \E x \in routes :
            \/ Key(x) = <<Table(obj[c]), obj[c].dest, obj[c].prio>>
            \/ obj[c] = ReadRoute(x)
       => routes' = routes]_vars

(* Del and Absent take one route away if they return nil and at most one   *)
(* otherwise (a lost answer), and one that has every field the object      *)
(* sets.  In particular Absent of a route that is not there is an error.   *)
DelTakesOne ==
  [][\A c \in Clients :
       LET r == obj[c] IN
       Returns(c) /\ pc[c] = "send" /\ ~Creates(call[c].op) =>
         \/ routes' = routes /\ ret'[c] # "ok"
         \/ \E x \in routes :
              /\ routes' = routes \ {x}
              /\ x.table = Table(r) /\ x.dest = r.dest
              /\ r.prio \in {0, x.prio}
              /\ r.gw \in {NoGw, x.gw} /\ r.oif \in {0, x.oif}]_vars

(* nl route add and del with --oif add or delete a route through a device  *)
(* of that name or none at all, though the device may go, and another of   *)
(* its name come, between the lookup and the message.                      *)
ThroughNamed ==
  [][\A c \in Clients :
       Returns(c) /\ call[c].via # NoName =>
         \A x \in (routes' \ routes) \cup (routes \ routes') :
           names[x.oif] = call[c].via]_vars
=============================================================================
