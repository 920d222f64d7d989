--------------------------- MODULE RtnlRouteProofs ---------------------------
(***************************************************************************)
(* Proofs about RtnlRoute, for any number of clients, routes, devices and  *)
(* tables, any faults and either text of the errors.                       *)
(***************************************************************************)
EXTENDS RtnlRoute, TLAPS

(* What a call about to send its message holds: an object with the         *)
(* defaults, and the index of a device that has, or had, the name that nl  *)
(* was given.                                                              *)
Prepared ==
  \A c \in Clients :
    /\ pc[c] # "idle" => call[c].op \in RouteOps
    /\ pc[c] = "send" =>
         /\ obj[c] = Defaulted(obj[c])
         /\ call[c].via # NoName => /\ obj[c].oif \in DOMAIN names
                                    /\ names[obj[c].oif] = call[c].via

RouteInv == TypeOK /\ Prepared

-----------------------------------------------------------------------------
(* Objects.                                                                *)

LEMMA DefaultedType ==
  ASSUME NEW r \in Object
  PROVE  Defaulted(r) \in Object /\ Defaulted(r).oif = r.oif
<1> DEFINE class == IF r.class = "unset" THEN "plain" ELSE r.class
           table == IF r.table = 0 THEN Main ELSE r.hdrTable
<1>1. class \in {"unset", "plain", "link", "local"} /\ table \in 0 .. 255
  BY DEF Object, Main
<1>2. Defaulted(r) = [r EXCEPT !.family = "inet", !.class = class, !.hdrTable = table]
  BY DEF Defaulted
<1> HIDE DEF class, table
<1> QED
  BY <1>1, <1>2, ZenonT(60) DEF Object

(* Modify of an object that has the defaults leaves it as it is.           *)
LEMMA DefaultedOnce ==
  ASSUME NEW r \in Object
  PROVE  Defaulted(Defaulted(r)) = Defaulted(r)
<1> DEFINE s == Defaulted(r)
<1>1. s \in Object
  BY DefaultedType
<1>2. /\ s.family = "inet" /\ s.class # "unset"
      /\ s.table = 0 => s.hdrTable = Main
  BY DEF Object, Defaulted
<1> HIDE DEF s
<1>3. Defaulted(s) = s
  BY <1>1, <1>2 DEF Object, Defaulted
<1> QED
  BY <1>3 DEF s

(* A message about an object with the defaults asks for the table the      *)
(* object names, or for main.                                              *)
LEMMA MessageOfRoute ==
  ASSUME NEW op, NEW r \in Object, r = Defaulted(r)
  PROVE  LET q == Message(op, r) IN
         /\ q.new = Creates(op) /\ q.excl /\ q.dest = r.dest
         /\ q.class = r.class /\ q.gw = r.gw /\ q.oif = r.oif
         /\ q.prio = r.prio /\ q.table = Table(r)
<1>1. r.table = 0 => r.hdrTable = Main
  <2>1. Defaulted(r).hdrTable = IF r.table = 0 THEN Main ELSE r.hdrTable
    BY DEF Defaulted, Object
  <2> QED
    BY <2>1
<1> QED
  BY <1>1 DEF Message, Table, Exclusive

LEMMA ReadRouteType ==
  ASSUME NEW x \in Route
  PROVE  ReadRoute(x) \in Object
BY DEF ReadRoute, Header, Route, Object, Compat

(* The route that was read and the object agree on the key, for a table of *)
(* any size.                                                               *)
LEMMA ReadRouteKey ==
  ASSUME NEW x \in Route
  PROVE  Key(x) = <<Table(ReadRoute(x)), ReadRoute(x).dest, ReadRoute(x).prio>>
BY DEF ReadRoute, Route, Key, Table

-----------------------------------------------------------------------------
(* The kernel.                                                             *)

(* A message changes the table by one route, new or old, of the kind that  *)
(* the message is about.                                                   *)
LEMMA KernelStep ==
  ASSUME TypeOK, NEW op \in RouteOps, NEW r \in Object, r = Defaulted(r),
         NEW e \in Errors \cup {"ok"}, Rtm(Message(op, r), e)
  PROVE  \/ /\ routes' = routes /\ e # "ok"
            /\ ~Creates(op) => e # "ENOENT"
            /\ e = "EEXIST" => \E x \in routes : Key(x) = <<Table(r), r.dest, r.prio>>
         \/ /\ e = "ok" /\ Creates(op)
            /\ ~\E x \in routes : Key(x) = <<Table(r), r.dest, r.prio>>
            /\ \E i \in plugged : /\ r.oif \in {0, i}
                                  /\ routes' = routes \cup {NewRoute(Message(op, r), i)}
                                  /\ NewRoute(Message(op, r), i) \in Route
         \/ /\ e = "ok" /\ ~Creates(op)
            /\ \E x \in routes : routes' = routes \ {x} /\ Fits(x, Message(op, r))
<1> DEFINE q == Message(op, r)
<1>1. /\ q.new = Creates(op) /\ q.excl /\ q.dest = r.dest
      /\ q.class = r.class /\ q.gw = r.gw /\ q.oif = r.oif
      /\ q.prio = r.prio /\ q.table = Table(r)
  BY MessageOfRoute
<1>2. r.class # "unset" /\ Table(r) \in Nat \ {0}
  <2>1. Defaulted(r).class # "unset"
    BY DEF Defaulted, Object
  <2>2. r.table \in Nat
    BY DEF Object
  <2> QED
    BY <2>1, <2>2 DEF Table, Main
<1> HIDE DEF q
<1>3. CASE Creates(op)
  <2>1. RtmNewRoute(q, e)
    BY <1>1, <1>3 DEF Rtm, q
  <2>2. CASE RouteError(q, e) /\ UNCHANGED routes
    BY <1>3, <2>2 DEF RouteError, Errors
  <2>3. CASE /\ \E x \in routes : Key(x) = Key(q)
             /\ e = "EEXIST" /\ UNCHANGED routes
    BY <1>1, <1>3, <2>3 DEF Key
  <2>4. CASE /\ ~\E k \in Errors : RouteError(q, k)
             /\ ~(q.excl /\ \E x \in routes : Key(x) = Key(q))
             /\ e = "ok"
             /\ \E i \in Out(q) : routes' = routes \cup {NewRoute(q, i)}
    <3>1. q.dest \in Dests
      BY <1>1, <2>4 DEF RouteError, Errors, Object
    <3>2. Key(q) = <<Table(r), r.dest, r.prio>>
      BY <1>1 DEF Key
    <3>3. ASSUME NEW i \in Out(q)
          PROVE  i \in plugged /\ r.oif \in {0, i} /\ NewRoute(q, i) \in Route
      <4>1. i \in plugged /\ i \in Nat
        BY <3>3 DEF Out, TypeOK
      <4>2. r.oif \in {0, i}
        BY <1>1, <3>3 DEF Out
      <4>3. NewRoute(q, i) \in Route
        BY <1>1, <1>2, <3>1, <4>1 DEF NewRoute, Route, Object
      <4> QED
        BY <4>1, <4>2, <4>3
    <3> QED
      BY <1>1, <1>3, <2>4, <3>2, <3>3 DEF q
  <2> QED
    BY <2>1, <2>2, <2>3, <2>4 DEF RtmNewRoute
<1>4. CASE ~Creates(op)
  BY <1>1, <1>4 DEF Rtm, RtmDelRoute, FirstFits, q
<1> QED
  BY <1>3, <1>4

-----------------------------------------------------------------------------
(* The invariant.                                                          *)

LEMMA InitRoute == Init => RouteInv
BY RouteAssumption DEF Init, RouteInv, TypeOK, Prepared, NoCall

LEMMA PlugKeeps ==
  ASSUME RouteInv, PlugDevice
  PROVE  RouteInv'
<1> USE DEF RouteInv
<1>1. CASE /\ Len(names) < MaxIndex
           /\ \E n \in Names : /\ \A i \in plugged : names[i] # n
                               /\ names' = Append(names, n)
           /\ plugged' = plugged \cup {Len(names')}
           /\ UNCHANGED routes
  <2>1. PICK n \in Names : /\ \A i \in plugged : names[i] # n
                           /\ names' = Append(names, n)
    BY <1>1
  <2>2. /\ names' \in Seq(Names) /\ Len(names') = Len(names) + 1
        /\ DOMAIN names \subseteq DOMAIN names'
        /\ Len(names') \in DOMAIN names'
        /\ names'[Len(names')] = n
        /\ \A i \in DOMAIN names : names'[i] = names[i]
    BY <2>1 DEF TypeOK
  <2>3. Len(names') <= MaxIndex
    BY <1>1, <2>2, RouteAssumption DEF TypeOK
  <2>4. plugged' \subseteq DOMAIN names'
    BY <1>1, <2>2 DEF TypeOK
  <2>5. \A i, j \in plugged' : names'[i] = names'[j] => i = j
    BY <1>1, <2>1, <2>2 DEF TypeOK
  <2>6. TypeOK'
    BY <1>1, <2>2, <2>3, <2>4, <2>5 DEF TypeOK, PlugDevice
  <2>7. Prepared'
    BY <2>2 DEF Prepared, PlugDevice
  <2> QED
    BY <2>6, <2>7
<1>2. CASE \E i \in plugged : /\ plugged' = plugged \ {i}
                              /\ routes' = {x \in routes : x.oif # i}
                              /\ UNCHANGED names
  <2>1. TypeOK'
    BY <1>2 DEF TypeOK, PlugDevice
  <2>2. Prepared'
    BY <1>2 DEF Prepared, PlugDevice
  <2> QED
    BY <2>1, <2>2
<1> QED
  BY <1>1, <1>2 DEF PlugDevice

LEMMA OthersKeep ==
  ASSUME RouteInv, OtherPrograms
  PROVE  RouteInv'
<1> USE DEF RouteInv
<1>1. ASSUME NEW f \in ForeignInputs, NEW i \in plugged
      PROVE  [dest |-> f.dest, class |-> "plain", gw |-> f.gw, oif |-> i,
              prio |-> f.prio, table |-> f.table, mtu |-> f.mtu] \in Route
  <2>1. f \in [dest : Dests, gw : Gateways \cup {NoGw}, prio : Nat,
              table : Nat \ {0}, mtu : BOOLEAN]
    BY RouteAssumption
  <2>2. i \in Nat
    BY DEF TypeOK
  <2> QED
    BY <2>1, <2>2 DEF Route
<1>2. routes' \subseteq Route /\ \A x \in routes' : x.oif \in plugged
  <2>1. CASE \E x \in routes : routes' = routes \ {x}
    BY <2>1 DEF TypeOK
  <2>2. CASE \E f \in ForeignInputs, i \in plugged :
               routes' = routes \cup
                 {[dest |-> f.dest, class |-> "plain", gw |-> f.gw, oif |-> i,
                   prio |-> f.prio, table |-> f.table, mtu |-> f.mtu]}
    BY <1>1, <2>2 DEF TypeOK
  <2> QED
    BY <2>1, <2>2 DEF OtherPrograms
<1>3. TypeOK'
  BY <1>2 DEF TypeOK, OtherPrograms
<1>4. Prepared'
  BY DEF Prepared, OtherPrograms
<1> QED
  BY <1>3, <1>4

LEMMA InputType ==
  ASSUME NEW r \in RouteInputs
  PROVE  r \in Object /\ MadeRoute(r) \in Object
<1>1. r \in Object
  BY RouteAssumption
<1> QED
  BY <1>1 DEF Object, MadeRoute

(* A step of c that keeps the kernel's state, and leaves c with a call     *)
(* that is ready to be sent, or none.                                      *)
LEMMA LocalKeeps ==
  ASSUME RouteInv, NEW c \in Clients, UNCHANGED <<names, plugged>>,
         routes' \subseteq Route, \A x \in routes' : x.oif \in plugged,
         NEW o \in Object, obj' = [obj EXCEPT ![c] = o],
         NEW p \in {"idle", "lookup", "send"}, pc' = [pc EXCEPT ![c] = p],
         NEW k \in [op : RouteOps \cup {"none"}, via : Names \cup {NoName}],
         call' = [call EXCEPT ![c] = k],
         NEW e \in Errors \cup {"ok"}, ret' = [ret EXCEPT ![c] = e],
         p # "idle" => k.op \in RouteOps,
         p = "send" => /\ o = Defaulted(o)
                       /\ k.via # NoName => /\ o.oif \in DOMAIN names
                                            /\ names[o.oif] = k.via
  PROVE  RouteInv'
<1>1. TypeOK'
  BY DEF RouteInv, TypeOK
<1>2. Prepared'
  <2> SUFFICES ASSUME NEW d \in Clients
               PROVE  /\ pc'[d] # "idle" => call'[d].op \in RouteOps
                      /\ pc'[d] = "send" =>
                           /\ obj'[d] = Defaulted(obj'[d])
                           /\ call'[d].via # NoName =>
                                /\ obj'[d].oif \in DOMAIN names
                                /\ names[obj'[d].oif] = call'[d].via
    BY DEF Prepared, Defaulted
  <2>1. CASE d = c
    BY <2>1 DEF RouteInv, TypeOK
  <2>2. CASE d # c
    BY <2>2 DEF RouteInv, TypeOK, Prepared
  <2> QED
    BY <2>1, <2>2
<1> QED
  BY <1>1, <1>2 DEF RouteInv

(* Construct and ReadRoutes change the object of an idle client.           *)
LEMMA IdleKeeps ==
  ASSUME RouteInv, NEW c \in Clients, Construct(c) \/ ReadRoutes(c)
  PROVE  RouteInv'
<1>1. PICK o \in Object : obj' = [obj EXCEPT ![c] = o]
  BY InputType, ReadRouteType DEF Construct, ReadRoutes, RouteInv, TypeOK
<1>2. pc[c] = "idle" /\ UNCHANGED <<names, plugged, routes, pc, call, ret>>
  BY DEF Construct, ReadRoutes
<1>3. TypeOK'
  BY <1>1, <1>2 DEF RouteInv, TypeOK
<1>4. Prepared'
  <2> SUFFICES ASSUME NEW d \in Clients
               PROVE  /\ pc[d] # "idle" => call[d].op \in RouteOps
                      /\ pc[d] = "send" =>
                           /\ obj'[d] = Defaulted(obj'[d])
                           /\ call[d].via # NoName =>
                                /\ obj'[d].oif \in DOMAIN names
                                /\ names[obj'[d].oif] = call[d].via
    BY <1>2 DEF Prepared, Defaulted
  <2>1. pc[d] # "idle" => obj'[d] = obj[d]
    BY <1>1, <1>2 DEF RouteInv, TypeOK
  <2> QED
    BY <2>1 DEF RouteInv, Prepared
<1> QED
  BY <1>3, <1>4 DEF RouteInv

LEMMA CallKeeps ==
  ASSUME RouteInv, NEW c \in Clients, CallRoute(c)
  PROVE  RouteInv'
<1>1. PICK op \in RouteOps : call' = [call EXCEPT ![c] = [NoCall EXCEPT !.op = op]]
  BY DEF CallRoute
<1> DEFINE k == [NoCall EXCEPT !.op = op]
           o == Defaulted(obj[c])
<1>2. /\ k \in [op : RouteOps \cup {"none"}, via : Names \cup {NoName}]
      /\ k.op \in RouteOps /\ k.via = NoName
  BY DEF NoCall
<1>3. obj[c] \in Object
  BY DEF RouteInv, TypeOK
<1>4. o \in Object /\ o = Defaulted(o)
  BY <1>3, DefaultedType, DefaultedOnce
<1>5. obj' = [obj EXCEPT ![c] = o]
  BY DEF CallRoute
<1>6. call' = [call EXCEPT ![c] = k] /\ pc' = [pc EXCEPT ![c] = "send"]
  BY <1>1 DEF CallRoute
<1>7. ret[c] \in Errors \cup {"ok"} /\ ret' = [ret EXCEPT ![c] = ret[c]]
  BY DEF RouteInv, TypeOK, CallRoute
<1>8. UNCHANGED <<names, plugged, routes>>
  BY DEF CallRoute
<1>9. routes' \subseteq Route /\ \A x \in routes' : x.oif \in plugged
  BY <1>8 DEF RouteInv, TypeOK
<1> HIDE DEF k, o
<1> QED
  BY <1>2, <1>4, <1>5, <1>6, <1>7, <1>8, <1>9, LocalKeeps

LEMMA NlKeeps ==
  ASSUME RouteInv, NEW c \in Clients, NlRoute(c)
  PROVE  RouteInv'
<1>1. PICK op \in {"Add", "Del"}, n \in Names, r \in RouteInputs :
        /\ obj' = [obj EXCEPT ![c] = MadeRoute(r)]
        /\ call' = [call EXCEPT ![c] = [op |-> op, via |-> n]]
  BY DEF NlRoute
<1> DEFINE o == MadeRoute(r)
<1>2. o \in Object
  BY InputType
<1>3. obj' = [obj EXCEPT ![c] = o] /\ pc' = [pc EXCEPT ![c] = "lookup"]
  BY <1>1 DEF NlRoute
<1>4. [op |-> op, via |-> n] \in [op : RouteOps \cup {"none"}, via : Names \cup {NoName}]
  BY DEF RouteOps
<1>5. ret[c] \in Errors \cup {"ok"} /\ ret' = [ret EXCEPT ![c] = ret[c]]
  BY DEF RouteInv, TypeOK, NlRoute
<1>6. UNCHANGED <<names, plugged, routes>>
  BY DEF NlRoute
<1>7. routes' \subseteq Route /\ \A x \in routes' : x.oif \in plugged
  BY <1>6 DEF RouteInv, TypeOK
<1> HIDE DEF o
<1> QED
  BY <1>1, <1>2, <1>3, <1>4, <1>5, <1>6, <1>7, LocalKeeps

(* A call that returns is no longer about anything.                        *)
LEMMA ReturnKeeps ==
  ASSUME RouteInv, NEW c \in Clients, NEW e \in Errors \cup {"ok"}, Return(c, e),
         UNCHANGED <<names, plugged, obj>>,
         routes' \subseteq Route, \A x \in routes' : x.oif \in plugged
  PROVE  RouteInv'
<1>1. obj[c] \in Object /\ obj' = [obj EXCEPT ![c] = obj[c]]
  BY DEF RouteInv, TypeOK
<1>2. NoCall \in [op : RouteOps \cup {"none"}, via : Names \cup {NoName}]
  BY DEF NoCall
<1> QED
  BY <1>1, <1>2, LocalKeeps DEF Return

LEMMA LookupKeeps ==
  ASSUME RouteInv, NEW c \in Clients, Lookup(c)
  PROVE  RouteInv'
<1>1. UNCHANGED <<names, plugged, routes>>
  BY DEF Lookup
<1>2. routes' \subseteq Route /\ \A x \in routes' : x.oif \in plugged
  BY <1>1 DEF RouteInv, TypeOK
<1>3. CASE (Return(c, "EIO") \/ Return(c, "ENODEV")) /\ UNCHANGED obj
  BY <1>1, <1>2, <1>3, ReturnKeeps DEF Errors
<1>4. CASE \E i \in IndexOf(call[c].via) :
             /\ obj' = [obj EXCEPT ![c] = Defaulted([@ EXCEPT !.oif = i])]
             /\ pc' = [pc EXCEPT ![c] = "send"]
             /\ UNCHANGED <<call, ret>>
  <2>1. PICK i \in IndexOf(call[c].via) :
          /\ obj' = [obj EXCEPT ![c] = Defaulted([obj[c] EXCEPT !.oif = i])]
          /\ pc' = [pc EXCEPT ![c] = "send"]
          /\ UNCHANGED <<call, ret>>
    BY <1>4 DEF RouteInv, TypeOK
  <2> DEFINE r == [obj[c] EXCEPT !.oif = i]
  <2>2. i \in DOMAIN names /\ names[i] = call[c].via /\ i \in Nat
    BY DEF IndexOf, RouteInv, TypeOK
  <2>3. r \in Object /\ r.oif = i
    <3>1. obj[c] \in Object
      BY DEF RouteInv, TypeOK
    <3> QED
      BY <2>2, <3>1 DEF Object
  <2> HIDE DEF r
  <2>4. /\ Defaulted(r) \in Object /\ Defaulted(r).oif = i
        /\ Defaulted(Defaulted(r)) = Defaulted(r)
    BY <2>3, DefaultedType, DefaultedOnce
  <2>5. /\ obj' = [obj EXCEPT ![c] = Defaulted(r)]
        /\ call[c] \in [op : RouteOps \cup {"none"}, via : Names \cup {NoName}]
        /\ call' = [call EXCEPT ![c] = call[c]]
        /\ ret[c] \in Errors \cup {"ok"} /\ ret' = [ret EXCEPT ![c] = ret[c]]
    BY <2>1 DEF r, RouteInv, TypeOK
  <2>6. call[c].op \in RouteOps
    BY DEF RouteInv, Prepared, Lookup
  <2>7. /\ Defaulted(r).oif \in DOMAIN names
        /\ names[Defaulted(r).oif] = call[c].via
    BY <2>2, <2>4
  <2> DEFINE o == Defaulted(r)
             k == call[c]
             p == "send"
  <2>8. /\ o \in Object /\ o = Defaulted(o) /\ obj' = [obj EXCEPT ![c] = o]
        /\ pc' = [pc EXCEPT ![c] = p] /\ p \in {"idle", "lookup", "send"}
        /\ o.oif \in DOMAIN names /\ names[o.oif] = k.via
        /\ k \in [op : RouteOps \cup {"none"}, via : Names \cup {NoName}]
        /\ k.op \in RouteOps /\ call' = [call EXCEPT ![c] = k]
    BY <2>1, <2>4, <2>5, <2>6, <2>7
  <2> HIDE DEF o, k, p
  <2> QED
    BY <1>1, <1>2, <2>5, <2>8, LocalKeeps
<1> QED
  BY <1>1, <1>3, <1>4 DEF Lookup

(* The exchange of Send: the kernel's answer, or none, and the error that  *)
(* the method makes of it.                                                 *)
LEMMA SendExchange ==
  ASSUME RouteInv, NEW c \in Clients, Send(c)
  PROVE  \E answer, e \in Errors \cup {"ok"}, text \in {"bare", "wrapped"} :
           /\ \/ UNCHANGED routes /\ e = "EIO"
              \/ /\ Rtm(Message(call[c].op, obj[c]), answer)
                 /\ e \in {answer, "EIO"}
           /\ Return(c, Result(call[c].op, e, text))
<1>1. CASE Return(c, Result(call[c].op, "EIO", "wrapped")) /\ UNCHANGED routes
  BY <1>1 DEF Errors
<1>2. CASE \E answer, e \in Errors \cup {"ok"}, text \in Texts :
             /\ Rtm(Message(call[c].op, obj[c]), answer)
             /\ e = answer \/ ("recv" \in Faults /\ e = "EIO")
             /\ Return(c, Result(call[c].op, e, text))
  <2>1. Texts \subseteq {"bare", "wrapped"}
    BY RouteAssumption
  <2> QED
    BY <1>2, <2>1
<1> QED
  BY <1>1, <1>2 DEF Send

(* Only these two errors become nil.                                       *)
LEMMA ResultOf ==
  ASSUME NEW op, NEW e \in Errors \cup {"ok"}, NEW text
  PROVE  /\ Result(op, e, text) \in Errors \cup {"ok"}
         /\ Result(op, e, text) = "ok" =>
              \/ e = "ok"
              \/ op = "Present" /\ e = "EEXIST"
              \/ op = "Absent" /\ e = "ENOENT"
BY DEF Result

(* What a step that ends a call does to the routes, and when it returns    *)
(* nil.                                                                    *)
LEMMA SendOutcome ==
  ASSUME RouteInv, NEW c \in Clients, Send(c)
  PROVE  LET r == obj[c]
             op == call[c].op
             q == Message(op, r)
         IN
         /\ op \in RouteOps /\ r \in Object /\ r = Defaulted(r)
         /\ \/ /\ routes' = routes
               /\ ret'[c] = "ok" =>
                    /\ op = "Present"
                    /\ \E x \in routes : Key(x) = <<Table(r), r.dest, r.prio>>
            \/ /\ Creates(op)
               /\ ~\E x \in routes : Key(x) = <<Table(r), r.dest, r.prio>>
               /\ \E i \in plugged : /\ r.oif \in {0, i}
                                     /\ routes' = routes \cup {NewRoute(q, i)}
                                     /\ NewRoute(q, i) \in Route
            \/ /\ ~Creates(op)
               /\ \E x \in routes : routes' = routes \ {x} /\ Fits(x, q)
<1> DEFINE r == obj[c]
           op == call[c].op
           q == Message(op, r)
<1>1. op \in RouteOps /\ r \in Object /\ r = Defaulted(r)
  BY DEF RouteInv, Prepared, TypeOK, Send
<1>2. PICK answer, e \in Errors \cup {"ok"}, text \in {"bare", "wrapped"} :
        /\ \/ UNCHANGED routes /\ e = "EIO"
           \/ Rtm(q, answer) /\ e \in {answer, "EIO"}
        /\ Return(c, Result(op, e, text))
  BY SendExchange
<1>3. ret'[c] = Result(op, e, text)
  BY <1>2 DEF Return, RouteInv, TypeOK
<1>4. Creates(op) <=> op \in {"Add", "Present"}
  BY DEF Creates
<1>5. ret'[c] = "ok" =>
        \/ e = "ok"
        \/ op = "Present" /\ e = "EEXIST"
        \/ op = "Absent" /\ e = "ENOENT"
  BY <1>3 DEF Result
<1> HIDE DEF op, r
<1>6. CASE UNCHANGED routes /\ e = "EIO"
  BY <1>1, <1>5, <1>6 DEF q, op, r
<1>7. CASE Rtm(q, answer) /\ e \in {answer, "EIO"}
  <2>1. \/ /\ routes' = routes /\ answer # "ok"
           /\ ~Creates(op) => answer # "ENOENT"
           /\ answer = "EEXIST" =>
                \E x \in routes : Key(x) = <<Table(r), r.dest, r.prio>>
        \/ /\ answer = "ok" /\ Creates(op)
           /\ ~\E x \in routes : Key(x) = <<Table(r), r.dest, r.prio>>
           /\ \E i \in plugged : /\ r.oif \in {0, i}
                                 /\ routes' = routes \cup {NewRoute(q, i)}
                                 /\ NewRoute(q, i) \in Route
        \/ /\ answer = "ok" /\ ~Creates(op)
           /\ \E x \in routes : routes' = routes \ {x} /\ Fits(x, q)
    BY <1>1, <1>7, KernelStep DEF RouteInv
  <2> HIDE DEF q
  <2>2. CASE /\ routes' = routes /\ answer # "ok"
             /\ ~Creates(op) => answer # "ENOENT"
             /\ answer = "EEXIST" =>
                  \E x \in routes : Key(x) = <<Table(r), r.dest, r.prio>>
    BY <1>1, <1>4, <1>5, <1>7, <2>2 DEF op, r
  <2>3. CASE ~(routes' = routes /\ answer # "ok")
    BY <1>1, <2>1, <2>3 DEF q, op, r
  <2> QED
    BY <2>1, <2>2, <2>3
<1> QED
  BY <1>2, <1>6, <1>7

LEMMA SendKeeps ==
  ASSUME RouteInv, NEW c \in Clients, Send(c)
  PROVE  RouteInv'
<1>1. routes' \subseteq Route /\ \A x \in routes' : x.oif \in plugged
  <2>1. \A q, i : NewRoute(q, i).oif = i
    BY DEF NewRoute
  <2>2. \/ routes' = routes
        \/ \E q, i : /\ i \in plugged /\ NewRoute(q, i) \in Route
                     /\ routes' = routes \cup {NewRoute(q, i)}
        \/ \E x : routes' = routes \ {x}
    BY SendOutcome
  <2> QED
    BY <2>1, <2>2 DEF RouteInv, TypeOK
<1>2. PICK e \in Errors \cup {"ok"} : Return(c, e)
  BY SendExchange, ResultOf
<1>3. UNCHANGED <<names, plugged, obj>>
  BY DEF Send
<1> QED
  BY <1>1, <1>2, <1>3, ReturnKeeps

LEMMA NextKeeps == RouteInv /\ [Next]_vars => RouteInv'
<1> SUFFICES ASSUME RouteInv, [Next]_vars PROVE RouteInv'
  OBVIOUS
<1>1. CASE UNCHANGED vars
  BY <1>1 DEF RouteInv, TypeOK, Prepared, vars, Defaulted
<1>2. CASE Environment
  BY <1>2, PlugKeeps, OthersKeep DEF Environment
<1>3. ASSUME NEW c \in Clients, ClientStep(c) PROVE RouteInv'
  BY <1>3, IdleKeeps, CallKeeps, NlKeeps, LookupKeeps, SendKeeps DEF ClientStep
<1> QED
  BY <1>1, <1>2, <1>3 DEF Next

LEMMA RouteInvariant == Spec => []RouteInv
<1> QED
  BY InitRoute, NextKeeps, PTL DEF Spec

(* Types, the devices of the routes, and one device to a name.             *)
THEOREM RouteTypes == Spec => []TypeOK
<1>1. RouteInv => TypeOK
  BY DEF RouteInv
<1> QED
  BY <1>1, RouteInvariant, PTL

-----------------------------------------------------------------------------
(* The action properties.                                                  *)

(* A step that ends a call is the one of Send, or a lookup that failed.    *)
LEMMA ReturnStep ==
  ASSUME RouteInv, [Next]_vars, NEW c \in Clients, Returns(c)
  PROVE  \/ Send(c)
         \/ pc[c] = "lookup" /\ UNCHANGED routes /\ ret'[c] # "ok"
<1>1. ~UNCHANGED vars /\ ~Environment
  BY DEF Returns, vars, Environment, PlugDevice, OtherPrograms
<1>2. PICK d \in Clients : ClientStep(d)
  BY <1>1 DEF Next
<1>3. d = c
  BY <1>2 DEF ClientStep, Construct, ReadRoutes, CallRoute, NlRoute, Lookup, Send,
              Return, Returns, RouteInv, TypeOK
<1>4. ClientStep(c)
  BY <1>2, <1>3
<1>5. CASE Lookup(c)
  <2>1. \A e \in {"EIO", "ENODEV"} : Return(c, e) => ret'[c] # "ok"
    BY DEF Return, RouteInv, TypeOK
  <2>2. Return(c, "EIO") \/ Return(c, "ENODEV")
    BY <1>5 DEF Lookup, Returns, RouteInv, TypeOK
  <2> QED
    BY <1>5, <2>1, <2>2 DEF Lookup
<1>6. CASE Construct(c) \/ ReadRoutes(c) \/ CallRoute(c) \/ NlRoute(c)
  BY <1>6 DEF Construct, ReadRoutes, CallRoute, NlRoute, Returns
<1> QED
  BY <1>4, <1>5, <1>6 DEF ClientStep

(* PresentEnsures holds with any number of clients and other programs.     *)
THEOREM PresentAlwaysEnsures == Spec => PresentEnsures
<1>1. ASSUME RouteInv, [Next]_vars, NEW c \in Clients,
             Returns(c), call[c].op = "Present", ret'[c] = "ok"
      PROVE  \E x \in routes' :
               Key(x) = <<Table(obj[c]), obj[c].dest, obj[c].prio>>
  <2>1. CASE Send(c)
    <3>1. Creates(call[c].op)
      BY <1>1 DEF Creates
    <3>2. CASE /\ routes' = routes
               /\ \E x \in routes :
                    Key(x) = <<Table(obj[c]), obj[c].dest, obj[c].prio>>
      BY <3>2
    <3>3. CASE \E i \in plugged :
                 routes' = routes \cup {NewRoute(Message(call[c].op, obj[c]), i)}
      <4>1. obj[c] \in Object /\ obj[c] = Defaulted(obj[c])
        BY <1>1, <2>1, SendOutcome
      <4>2. \A i : Key(NewRoute(Message(call[c].op, obj[c]), i))
                     = <<Table(obj[c]), obj[c].dest, obj[c].prio>>
        BY <4>1, MessageOfRoute DEF NewRoute, Key
      <4> QED
        BY <3>3, <4>2
    <3> QED
      BY <1>1, <2>1, <3>1, <3>2, <3>3, SendOutcome
  <2> QED
    BY <1>1, <2>1, ReturnStep
<1>2. RouteInv /\ [Next]_vars =>
        [\A c \in Clients :
           Returns(c) /\ call[c].op = "Present" /\ ret'[c] = "ok" =>
             \E x \in routes' :
               Key(x) = <<Table(obj[c]), obj[c].dest, obj[c].prio>>]_vars
  BY <1>1
<1> QED
  BY <1>2, RouteInvariant, PTL DEF Spec, PresentEnsures

(* PresentKeeps likewise, for tables of any number.                        *)
THEOREM PresentAlwaysKeeps == Spec => PresentKeeps
<1>1. ASSUME RouteInv, [Next]_vars, NEW c \in Clients,
             Returns(c), call[c].op = "Present",
             NEW x \in routes,
             \/ Key(x) = <<Table(obj[c]), obj[c].dest, obj[c].prio>>
             \/ obj[c] = ReadRoute(x)
      PROVE  routes' = routes
  <2>1. Key(x) = <<Table(obj[c]), obj[c].dest, obj[c].prio>>
    BY <1>1, ReadRouteKey DEF RouteInv, TypeOK
  <2>2. CASE Send(c)
    BY <1>1, <2>1, <2>2, SendOutcome DEF Creates
  <2> QED
    BY <1>1, <2>2, ReturnStep
<1>2. RouteInv /\ [Next]_vars =>
        [\A c \in Clients :
           /\ Returns(c) /\ call[c].op = "Present"
           /\ \E x \in routes :
                \/ Key(x) = <<Table(obj[c]), obj[c].dest, obj[c].prio>>
                \/ obj[c] = ReadRoute(x)
           => routes' = routes]_vars
  BY <1>1
<1> QED
  BY <1>2, RouteInvariant, PTL DEF Spec, PresentKeeps

(* DelTakesOne likewise.                                                   *)
THEOREM DelAlwaysTakesOne == Spec => DelTakesOne
<1>1. ASSUME RouteInv, [Next]_vars, NEW c \in Clients,
             Returns(c), pc[c] = "send", ~Creates(call[c].op)
      PROVE  LET r == obj[c] IN
             \/ routes' = routes /\ ret'[c] # "ok"
             \/ \E x \in routes :
                  /\ routes' = routes \ {x}
                  /\ x.table = Table(r) /\ x.dest = r.dest
                  /\ r.prio \in {0, x.prio}
                  /\ r.gw \in {NoGw, x.gw} /\ r.oif \in {0, x.oif}
  <2> DEFINE r == obj[c]
             q == Message(call[c].op, r)
  <2>1. Send(c)
    BY <1>1, ReturnStep
  <2>2. r \in Object /\ r = Defaulted(r)
    BY <1>1, <2>1, SendOutcome
  <2>3. /\ q.dest = r.dest /\ q.gw = r.gw /\ q.oif = r.oif /\ q.prio = r.prio
        /\ q.table = Table(r)
    BY <2>2, MessageOfRoute
  <2>4. \/ routes' = routes /\ ret'[c] # "ok"
        \/ \E x \in routes : routes' = routes \ {x} /\ Fits(x, q)
    BY <1>1, <2>1, SendOutcome DEF Creates
  <2> HIDE DEF r, q
  <2>5. \/ routes' = routes /\ ret'[c] # "ok"
        \/ \E x \in routes :
             /\ routes' = routes \ {x}
             /\ x.table = Table(r) /\ x.dest = r.dest
             /\ r.prio \in {0, x.prio}
             /\ r.gw \in {NoGw, x.gw} /\ r.oif \in {0, x.oif}
    BY <2>3, <2>4 DEF Fits
  <2> QED
    BY <2>5 DEF r
<1>2. RouteInv /\ [Next]_vars =>
        [\A c \in Clients :
           LET r == obj[c] IN
           Returns(c) /\ pc[c] = "send" /\ ~Creates(call[c].op) =>
             \/ routes' = routes /\ ret'[c] # "ok"
             \/ \E x \in routes :
                  /\ routes' = routes \ {x}
                  /\ x.table = Table(r) /\ x.dest = r.dest
                  /\ r.prio \in {0, x.prio}
                  /\ r.gw \in {NoGw, x.gw} /\ r.oif \in {0, x.oif}]_vars
  BY <1>1
<1> QED
  BY <1>2, RouteInvariant, PTL DEF Spec, DelTakesOne

(* ThroughNamed likewise: the index that the lookup found is not handed    *)
(* out again, so that it denotes a device of that name or none.            *)
THEOREM AlwaysThroughNamed == Spec => ThroughNamed
<1>1. ASSUME RouteInv, [Next]_vars, NEW c \in Clients,
             Returns(c), call[c].via # NoName,
             NEW x \in (routes' \ routes) \cup (routes \ routes')
      PROVE  names[x.oif] = call[c].via
  <2> DEFINE r == obj[c]
             q == Message(call[c].op, r)
  <2>1. Send(c)
    BY <1>1, ReturnStep
  <2>2. r \in Object /\ r = Defaulted(r)
    BY <1>1, <2>1, SendOutcome
  <2>3. q.oif = r.oif
    BY <2>2, MessageOfRoute
  <2>4. r.oif \in DOMAIN names /\ names[r.oif] = call[c].via /\ r.oif # 0
    BY <1>1, <2>1 DEF RouteInv, Prepared, Send, TypeOK
  <2>5. \/ routes' = routes
        \/ \E i \in plugged : r.oif \in {0, i} /\ routes' = routes \cup {NewRoute(q, i)}
        \/ \E y \in routes : routes' = routes \ {y} /\ Fits(y, q)
    BY <1>1, <2>1, SendOutcome
  <2> HIDE DEF r, q
  <2>6. x.oif = r.oif
    BY <1>1, <2>3, <2>4, <2>5 DEF NewRoute, Fits
  <2> QED
    BY <2>4, <2>6
<1>2. RouteInv /\ [Next]_vars =>
        [\A c \in Clients :
           Returns(c) /\ call[c].via # NoName =>
             \A x \in (routes' \ routes) \cup (routes \ routes') :
               names[x.oif] = call[c].via]_vars
  BY <1>1
<1> QED
  BY <1>2, RouteInvariant, PTL DEF Spec, ThroughNamed
=============================================================================
