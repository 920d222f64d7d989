---------------------------- MODULE RtnlLinkProofs ----------------------------
(***************************************************************************)
(* Proofs about RtnlLink, for any number of clients, names, namespaces and *)
(* indices.                                                                *)
(***************************************************************************)
EXTENDS RtnlLink, TLAPS

(* A request the kernel can act on: what has a kind has a name.            *)
Request == {q \in Object : q.kind \in Creatable => q.name \in Names}

-----------------------------------------------------------------------------
(* The kernel's handlers keep the kernel's types.                          *)

LEMMA CombinedType ==
  ASSUME NEW flags \in SUBSET Settable, NEW q \in Request
  PROVE  Combined(flags, q) \in SUBSET Settable
BY DEF Combined, Request

LEMMA CreateType ==
  ASSUME KernelTypeOK, NEW n \in Namespaces, NEW q \in Request,
         q.kind \in Creatable, Create(n, q)
  PROVE  KernelTypeOK'
<1> DEFINE m == Destination(n, q)
<1>1. m \in Namespaces
  BY DEF Destination, Request, Object
<1>2. PICK i \in Assigned(m, q, last[m]) :
        /\ links' = links \cup {NewDevice(m, q, i, {})}
        /\ last' = [last EXCEPT ![m] = IF q.idx # 0 THEN @ ELSE i]
  BY DEF Create
<1>3. i \in Indices
  BY DEF Assigned, Fresh
<1>4. NewDevice(m, q, i, {}) \in Link
  BY <1>1, <1>3, CombinedType DEF NewDevice, Link, Request, Object, DefaultMtu
<1> QED
  BY <1>1, <1>2, <1>3, <1>4, KernelAssumption DEF KernelTypeOK, Indices

LEMMA CreateVethType ==
  ASSUME KernelTypeOK, NEW n \in Namespaces, NEW q \in Request,
         q.kind = "veth", q.peer # NoName, CreateVeth(n, q)
  PROVE  KernelTypeOK'
<1> DEFINE m == Destination(n, q)
<1>1. m \in Namespaces
  BY DEF Destination, Request, Object
<1>2. PICK j \in Fresh(n, last[n]) :
        \E i \in Assigned(m, q, IF m = n THEN j ELSE last[m]) :
          /\ links' = links \cup {PeerDevice(n, q, j),
                                  NewDevice(m, q, i, {<<n, j>>})}
          /\ last' = [k \in Namespaces |->
                        IF k = m /\ q.idx = 0 THEN i
                        ELSE IF k = n THEN j ELSE last[k]]
  BY DEF CreateVeth
<1>3. PICK i \in Assigned(m, q, IF m = n THEN j ELSE last[m]) :
        /\ links' = links \cup {PeerDevice(n, q, j),
                                NewDevice(m, q, i, {<<n, j>>})}
        /\ last' = [k \in Namespaces |->
                      IF k = m /\ q.idx = 0 THEN i
                      ELSE IF k = n THEN j ELSE last[k]]
  BY <1>2
<1>4. i \in Indices /\ j \in Indices
  BY <1>2, <1>3 DEF Assigned, Fresh
<1>5. NewDevice(m, q, i, {<<n, j>>}) \in Link
  BY <1>1, <1>4, CombinedType
  DEF NewDevice, Link, Request, Object, DefaultMtu, Creatable
<1>6. PeerDevice(n, q, j) \in Link
  BY <1>4, KernelAssumption
  DEF PeerDevice, Link, Request, Object, DefaultMtu, Creatable
<1>7. links' \subseteq Link
  BY <1>3, <1>5, <1>6 DEF KernelTypeOK
<1>8. last' \in [Namespaces -> 0 .. MaxIndex]
  BY <1>3, <1>4, KernelAssumption DEF KernelTypeOK, Indices
<1> QED
  BY <1>7, <1>8 DEF KernelTypeOK

LEMMA NewLinkType ==
  ASSUME KernelTypeOK, NEW n \in Namespaces, NEW q \in Request, NEW e,
         RtmNewLink(n, q, e)
  PROVE  KernelTypeOK'
<1>1. CASE UNCHANGED kernel
  BY <1>1 DEF KernelTypeOK, kernel
<1>2. CASE /\ ~\E k \in Errno : NewLinkError(n, q, k)
           /\ IF q.kind = "veth" THEN CreateVeth(n, q) ELSE Create(n, q)
  <2>1. ~NewLinkError(n, q, "EEXIST") /\ ~NewLinkError(n, q, "EINVAL")
        /\ ~NewLinkError(n, q, "EOPNOTSUPP")
    BY <1>2 DEF Errno
  <2>2. q.kind \in Creatable
    BY <2>1 DEF NewLinkError
  <2>3. q.kind = "veth" => q.peer # NoName
    BY <2>1 DEF NewLinkError
  <2> QED
    BY <1>2, <2>2, <2>3, CreateType, CreateVethType
<1> QED
  BY <1>1, <1>2 DEF RtmNewLink

LEMMA SetLinkType ==
  ASSUME KernelTypeOK, NEW n \in Namespaces, NEW q \in Request, NEW e,
         RtmSetLink(n, q, e)
  PROVE  KernelTypeOK'
<1>1. CASE UNCHANGED kernel
  BY <1>1 DEF KernelTypeOK, kernel
<1>2. ASSUME NEW d \in Lookup(n, q),
             LeavesNs(d, q) => ~\E k \in Errno : MoveError(d, q, k),
             NEW g \in Landed(d, q),
             NEW h \in {WithMtu(g, q), WithName(WithMtu(g, q), q),
                        WithRest(WithName(WithMtu(g, q), q), q)},
             links' = (links \ {d}) \cup {h},
             last' = IF g.idx = d.idx THEN last
                     ELSE [last EXCEPT ![g.ns] = g.idx]
      PROVE  KernelTypeOK'
  <2>1. d \in Link
    BY DEF Lookup, KernelTypeOK
  <2>2. g \in Link
    <3>1. CASE ~LeavesNs(d, q)
      BY <2>1, <3>1 DEF Landed
    <3>2. CASE LeavesNs(d, q)
      <4>1. q.ns \in Namespaces
        BY <3>2 DEF LeavesNs, Request, Object
      <4>2. Taken(q.ns, d.name) => q.name \in Names
        BY <3>2, <1>2 DEF MoveError, Errno, Request, Object
      <4>3. PICK i \in IF Used(q.ns, d.idx) THEN Fresh(q.ns, last[q.ns])
                       ELSE {d.idx} :
              g = [d EXCEPT !.ns = q.ns, !.idx = i, !.flags = @ \ {"UP"},
                            !.master = 0,
                            !.name = IF Taken(q.ns, @) THEN q.name ELSE @]
        BY <3>2 DEF Landed, Moved
      <4>4. i \in Indices
        BY <2>1 DEF Fresh, Link
      <4>5. (IF Taken(q.ns, d.name) THEN q.name ELSE d.name) \in Names
        BY <2>1, <4>2 DEF Link
      <4>6. d.flags \ {"UP"} \in SUBSET Settable /\ 0 \in 0 .. MaxIndex
        BY <2>1, KernelAssumption DEF Link
      <4> DEFINE x == IF Taken(q.ns, d.name) THEN q.name ELSE d.name
                 f == d.flags \ {"UP"}
      <4>7. g = [d EXCEPT !.ns = q.ns, !.idx = i, !.flags = f, !.master = 0,
                          !.name = x]
        BY <4>3
      <4> HIDE DEF x, f
      <4>8. x \in Names /\ f \in SUBSET Settable
        BY <4>5, <4>6 DEF x, f
      <4> QED
        BY <2>1, <4>1, <4>4, <4>6, <4>7, <4>8 DEF Link
    <3> QED
      BY <3>1, <3>2
  <2>3. WithMtu(g, q) \in Link
    BY <2>2 DEF WithMtu, Link, Request, Object, DefaultMtu
  <2>4. WithName(WithMtu(g, q), q) \in Link
    BY <2>3 DEF WithName, Renames, Link, Request, Object
  <2>5. WithRest(WithName(WithMtu(g, q), q), q) \in Link
    <3> DEFINE r == WithName(WithMtu(g, q), q)
    <3>1. r.flags \in SUBSET Settable
      BY <2>4 DEF Link
    <3>2. Combined(r.flags, q) \in SUBSET Settable
      BY <3>1, CombinedType
    <3>3. q.master \in 0 .. MaxIndex
      BY DEF Request, Object
    <3> HIDE DEF r
    <3> QED
      BY <2>4, <3>2, <3>3 DEF WithRest, Link, r
  <2>6. links' \subseteq Link
    BY <1>2, <2>3, <2>4, <2>5 DEF KernelTypeOK
  <2>7. last' \in [Namespaces -> 0 .. MaxIndex]
    BY <1>2, <2>2, KernelAssumption DEF KernelTypeOK, Link, Indices
  <2> QED
    BY <2>6, <2>7 DEF KernelTypeOK
<1> QED
  BY <1>1, <1>2 DEF RtmSetLink

LEMMA DelLinkType ==
  ASSUME KernelTypeOK, NEW n \in Namespaces, NEW q \in Request, NEW e,
         RtmDelLink(n, q, e)
  PROVE  KernelTypeOK'
<1>1. CASE UNCHANGED kernel
  BY <1>1 DEF KernelTypeOK, kernel
<1>2. ASSUME NEW d \in Lookup(n, q),
             links' = {Released(x, Gone(d)) : x \in links \ Gone(d)},
             UNCHANGED last
      PROVE  KernelTypeOK'
  <2>1. \A x \in links : Released(x, Gone(d)) \in Link
    BY KernelAssumption DEF Released, Link, KernelTypeOK
  <2> QED
    BY <1>2, <2>1 DEF KernelTypeOK
<1> QED
  BY <1>1, <1>2 DEF RtmDelLink

(* The kernel gives an index of a namespace to one link at a time.         *)
IndexUnique == \A d, h \in links : d.ns = h.ns /\ d.idx = h.idx => d = h

LEMMA NewLinkUnique ==
  ASSUME IndexUnique, NEW n \in Namespaces, NEW q \in Request, NEW e,
         RtmNewLink(n, q, e)
  PROVE  IndexUnique'
<1> DEFINE m == Destination(n, q)
<1>1. CASE UNCHANGED kernel
  BY <1>1 DEF IndexUnique, kernel
<1>2. CASE Create(n, q)
  <2>1. PICK i \in Assigned(m, q, last[m]) :
          links' = links \cup {NewDevice(m, q, i, {})}
    BY <1>2 DEF Create
  <2>2. ~Used(m, i)
    BY <2>1 DEF Assigned, Fresh
  <2> DEFINE h == NewDevice(m, q, i, {})
  <2>3. h.ns = m /\ h.idx = i
    BY DEF NewDevice
  <2>4. links' = links \cup {h}
    BY <2>1
  <2> HIDE DEF h, m
  <2> QED
    BY <2>2, <2>3, <2>4 DEF IndexUnique, Used
<1>3. CASE CreateVeth(n, q)
  <2>1. PICK j \in Fresh(n, last[n]) :
          \E i \in Assigned(m, q, IF m = n THEN j ELSE last[m]) :
            /\ m = n => i # j
            /\ links' = links \cup {PeerDevice(n, q, j),
                                    NewDevice(m, q, i, {<<n, j>>})}
    BY <1>3 DEF CreateVeth
  <2>2. PICK i \in Assigned(m, q, IF m = n THEN j ELSE last[m]) :
          /\ m = n => i # j
          /\ links' = links \cup {PeerDevice(n, q, j),
                                  NewDevice(m, q, i, {<<n, j>>})}
    BY <2>1
  <2>3. ~Used(m, i) /\ ~Used(n, j)
    BY <2>1, <2>2 DEF Assigned, Fresh
  <2> DEFINE h == NewDevice(m, q, i, {<<n, j>>})
             p == PeerDevice(n, q, j)
  <2>4. h.ns = m /\ h.idx = i /\ p.ns = n /\ p.idx = j
    BY DEF NewDevice, PeerDevice
  <2>5. links' = links \cup {p, h}
    BY <2>2
  <2> HIDE DEF h, p, m
  <2> QED
    BY <2>2, <2>3, <2>4, <2>5 DEF IndexUnique, Used
<1> QED
  BY <1>1, <1>2, <1>3 DEF RtmNewLink

LEMMA SetLinkUnique ==
  ASSUME KernelTypeOK, IndexUnique, NEW n \in Namespaces, NEW q \in Request,
         NEW e, RtmSetLink(n, q, e)
  PROVE  IndexUnique'
<1>1. CASE UNCHANGED kernel
  BY <1>1 DEF IndexUnique, kernel
<1>2. ASSUME NEW d \in Lookup(n, q), NEW g \in Landed(d, q),
             NEW h \in {WithMtu(g, q), WithName(WithMtu(g, q), q),
                        WithRest(WithName(WithMtu(g, q), q), q)},
             links' = (links \ {d}) \cup {h}
      PROVE  IndexUnique'
  <2>1. d \in links /\ d \in Link
    BY DEF Lookup, KernelTypeOK
  <2>2. /\ (g.ns = d.ns /\ g.idx = d.idx) \/ ~Used(g.ns, g.idx)
        /\ DOMAIN g = DOMAIN d
    <3>1. CASE ~LeavesNs(d, q)
      BY <3>1 DEF Landed
    <3>2. CASE LeavesNs(d, q)
      <4>1. PICK i \in IF Used(q.ns, d.idx) THEN Fresh(q.ns, last[q.ns])
                       ELSE {d.idx} :
              g = [d EXCEPT !.ns = q.ns, !.idx = i, !.flags = @ \ {"UP"},
                            !.master = 0,
                            !.name = IF Taken(q.ns, @) THEN q.name ELSE @]
        BY <3>2 DEF Landed, Moved
      <4>2. ~Used(q.ns, i)
        BY <4>1 DEF Fresh
      <4> HIDE DEF Taken
      <4>3. g.ns = q.ns /\ g.idx = i /\ DOMAIN g = DOMAIN d
        BY <2>1, <4>1 DEF Link
      <4> QED
        BY <4>2, <4>3
    <3> QED
      BY <3>1, <3>2
  <2>3. h.ns = g.ns /\ h.idx = g.idx
    BY <1>2, <2>1, <2>2 DEF WithMtu, WithName, WithRest, Link
  <2> QED
    BY <1>2, <2>1, <2>2, <2>3 DEF IndexUnique, Used
<1> QED
  BY <1>1, <1>2 DEF RtmSetLink

LEMMA UpdateUnique ==
  ASSUME KernelTypeOK, IndexUnique, NEW n \in Namespaces, NEW q \in Request,
         NEW e, NEW type \in {"NEWLINK", "SETLINK", "DELLINK"},
         NetlinkUpdate(type, n, q, e)
  PROVE  IndexUnique'
<1>1. CASE UNCHANGED kernel
  BY <1>1 DEF IndexUnique, kernel
<1>2. ASSUME NEW k \in Errno,
             CASE type = "NEWLINK" -> RtmNewLink(n, q, k)
               [] type = "SETLINK" -> RtmSetLink(n, q, k)
               [] type = "DELLINK" -> RtmDelLink(n, q, k),
             ~UNCHANGED kernel
      PROVE  IndexUnique'
  <2>1. CASE type = "NEWLINK"
    BY <1>2, <2>1, NewLinkUnique
  <2>2. CASE type = "SETLINK"
    BY <1>2, <2>2, SetLinkUnique
  <2>3. CASE type = "DELLINK"
    <3>1. PICK d \in Lookup(n, q) :
            links' = {Released(x, Gone(d)) : x \in links \ Gone(d)}
      BY <1>2, <2>3 DEF RtmDelLink
    <3>2. \A x \in links : LET y == Released(x, Gone(d)) IN
                           y.ns = x.ns /\ y.idx = x.idx
      BY DEF Released, Link, KernelTypeOK
    <3> QED
      BY <3>1, <3>2 DEF IndexUnique
  <2> QED
    BY <2>1, <2>2, <2>3
<1> QED
  BY <1>1, <1>2 DEF NetlinkUpdate

LEMMA UpdateType ==
  ASSUME KernelTypeOK, NEW n \in Namespaces, NEW q \in Request, NEW e,
         NEW type \in {"NEWLINK", "SETLINK", "DELLINK"},
         NetlinkUpdate(type, n, q, e)
  PROVE  KernelTypeOK'
<1>1. CASE UNCHANGED kernel
  BY <1>1 DEF KernelTypeOK, kernel
<1>2. ASSUME NEW k \in Errno,
             CASE type = "NEWLINK" -> RtmNewLink(n, q, k)
               [] type = "SETLINK" -> RtmSetLink(n, q, k)
               [] type = "DELLINK" -> RtmDelLink(n, q, k)
      PROVE  KernelTypeOK'
  <2>1. CASE type = "NEWLINK"
    BY <1>2, <2>1, NewLinkType
  <2>2. CASE type = "SETLINK"
    BY <1>2, <2>2, SetLinkType
  <2>3. CASE type = "DELLINK"
    BY <1>2, <2>3, DelLinkType
  <2> QED
    BY <2>1, <2>2, <2>3
<1> QED
  BY <1>1, <1>2 DEF NetlinkUpdate

-----------------------------------------------------------------------------
(* Type correctness.  Two facts strengthen TypeOK: an object with a kind   *)
(* has a name, so that no message creates a link without one, and a call   *)
(* in progress has the context and the argument its method takes.          *)

NamedKinds == \A c \in Clients : obj[c].kind \in Creatable => obj[c].name \in Names

CallOK ==
  \A c \in Clients :
    /\ pc[c] # "idle" => call[c].ns \in Namespaces
    /\ pc[c] = "read" => call[c].op \in {"Up", "Down", "SetMtu", "SetMaster",
                                         "GetLink", "GetLinkByIndex"}
    /\ pc[c] = "update" => call[c].op \in {"Up", "Down", "SetMtu", "SetMaster"}
    /\ call[c].op = "SetMtu" => call[c].arg \in Mtus
    /\ call[c].op = "SetMaster" => call[c].arg \in Indices

TypeInv == TypeOK /\ NamedKinds /\ CallOK

LEMMA EmptyLinkType == EmptyLink \in Object /\ EmptyLink.kind = "none"
BY KernelAssumption DEF EmptyLink, Object

LEMMA MarshalType ==
  ASSUME NEW o \in Object, o.kind \in Creatable => o.name \in Names
  PROVE  Marshal(o) \in Request
<1>1. CASE o.change = {}
  <2>1. o.kind \in Creatable \/ "none" \notin Creatable
    BY DEF Creatable
  <2> QED
    BY <1>1, <2>1 DEF Marshal, Request, Object
<1>2. CASE o.change # {}
  <2>1. Marshal(o) = [EmptyLink EXCEPT !.idx = o.idx, !.flags = o.flags,
                                       !.change = o.change]
    BY <1>2 DEF Marshal
  <2> QED
    BY <2>1, EmptyLinkType DEF Request, Object, Creatable
<1> QED
  BY <1>1, <1>2

LEMMA UnmarshalType ==
  ASSUME NEW d \in Link
  PROVE  /\ Unmarshal(d) \in Object
         /\ Unmarshal(d).kind \in Creatable => Unmarshal(d).name \in Names
<1>1. /\ d.idx \in 0 .. MaxIndex /\ d.flags \cup {"BCAST"} \in SUBSET Flags
      /\ d.mtu \in Mtus \cup {DefaultMtu, 0} /\ d.master \in 0 .. MaxIndex
      /\ d.kind \in Creatable \cup {"tun", "none"} /\ d.name \in Names
  BY KernelAssumption DEF Link, Indices, Flags
<1> QED
  BY <1>1, EmptyLinkType DEF Unmarshal, Object

(* Every outcome of a Read: the object as it was, or a link of n as the    *)
(* kernel has it.                                                          *)
LEMMA ReadOutcome ==
  ASSUME NEW o, NEW n, NEW r \in Read(o, n)
  PROVE  \/ r.obj = o /\ r.err \in {"ENODEV", "notfound", "notunique", "EIO"}
         \/ /\ r.err = "ok"
            /\ \E d \in links : /\ d.ns = n /\ Satisfies(d, o)
                                /\ o.idx # 0 => d.idx = o.idx
                                /\ r.obj = Unmarshal(d)
BY DEF Read, RtmGetLink

LEMMA UpdateMessageType ==
  ASSUME NEW o \in Object, o.kind \in Creatable => o.name \in Names,
         NEW op \in {"Up", "Down", "SetMtu", "SetMaster"},
         NEW a, op = "SetMtu" => a \in Mtus, op = "SetMaster" => a \in Indices
  PROVE  UpdateMessage(op, a, o) \in Request
<1>1. CASE op \in {"Up", "Down"}
  BY <1>1, MarshalType DEF UpdateMessage
<1>2. IfInfomsg(o) \in Object /\ IfInfomsg(o).kind = "none"
  BY EmptyLinkType DEF IfInfomsg, Object
<1>3. CASE op = "SetMtu"
  BY <1>2, <1>3 DEF UpdateMessage, Request, Object, Creatable
<1>4. CASE op = "SetMaster"
  BY <1>2, <1>4 DEF UpdateMessage, Request, Object, Creatable, Indices
<1> QED
  BY <1>1, <1>3, <1>4

LEMMA EditedType ==
  ASSUME NEW o \in Object, o.kind \in Creatable => o.name \in Names,
         NEW op \in {"Up", "Down", "SetMtu", "SetMaster"},
         NEW a, op = "SetMtu" => a \in Mtus
  PROVE  /\ Edited(op, a, o) \in Object
         /\ Edited(op, a, o).kind \in Creatable => Edited(op, a, o).name \in Names
BY DEF Edited, Object, Flags, Settable

LEMMA TypeInit == Init => TypeInv
<1> SUFFICES ASSUME Init PROVE TypeInv
  OBVIOUS
<1>1. KernelTypeOK
  BY KernelAssumption DEF Init, KernelInit, KernelTypeOK
<1>2. obj \in [Clients -> Object] /\ NamedKinds
  BY EmptyLinkType DEF Init, NamedKinds, Creatable
<1>3. call \in [Clients -> Call] /\ CallOK
  BY DEF Init, NoCall, Call, CallOK
<1> QED
  BY <1>1, <1>2, <1>3 DEF Init, TypeInv, TypeOK, Results, Errno

(* What a client's own steps leave in its object, its call and its stage.  *)
LEMMA ClientType ==
  ASSUME TypeInv, KernelTypeOK', NEW c \in Clients,
         NEW o \in Object, o.kind \in Creatable => o.name \in Names,
         obj' = [obj EXCEPT ![c] = o],
         NEW h \in Namespaces \cup {NoNs}, home' = [home EXCEPT ![c] = h],
         NEW st \in {"idle", "modify", "readback", "read", "update"},
         pc' = [pc EXCEPT ![c] = st],
         NEW k \in Call, call' = [call EXCEPT ![c] = k],
         NEW e \in Results, ret' = [ret EXCEPT ![c] = e],
         st # "idle" => k.ns \in Namespaces,
         st = "read" => k.op \in {"Up", "Down", "SetMtu", "SetMaster",
                                  "GetLink", "GetLinkByIndex"},
         st = "update" => k.op \in {"Up", "Down", "SetMtu", "SetMaster"},
         k.op = "SetMtu" => k.arg \in Mtus,
         k.op = "SetMaster" => k.arg \in Indices
  PROVE  TypeInv'
<1>1. TypeOK'
  BY DEF TypeInv, TypeOK
<1>2. NamedKinds'
  BY DEF TypeInv, TypeOK, NamedKinds
<1>3. CallOK'
  BY DEF TypeInv, TypeOK, CallOK
<1> QED
  BY <1>1, <1>2, <1>3 DEF TypeInv

(* The same where only the object, or only the call, changes.              *)
LEMMA Unchanged ==
  ASSUME TypeInv, NEW c \in Clients
  PROVE  /\ obj[c] \in Object
         /\ obj[c].kind \in Creatable => obj[c].name \in Names
         /\ obj = [obj EXCEPT ![c] = obj[c]]
         /\ home[c] \in Namespaces \cup {NoNs}
         /\ home = [home EXCEPT ![c] = home[c]]
         /\ pc[c] \in {"idle", "modify", "readback", "read", "update"}
         /\ pc = [pc EXCEPT ![c] = pc[c]]
         /\ call[c] \in Call /\ call = [call EXCEPT ![c] = call[c]]
         /\ ret[c] \in Results /\ ret = [ret EXCEPT ![c] = ret[c]]
         /\ pc[c] # "idle" => call[c].ns \in Namespaces
         /\ pc[c] = "read" => call[c].op \in {"Up", "Down", "SetMtu",
                                 "SetMaster", "GetLink", "GetLinkByIndex"}
         /\ pc[c] = "update" => call[c].op \in {"Up", "Down", "SetMtu", "SetMaster"}
         /\ call[c].op = "SetMtu" => call[c].arg \in Mtus
         /\ call[c].op = "SetMaster" => call[c].arg \in Indices
         /\ KernelTypeOK
BY DEF TypeInv, TypeOK, NamedKinds, CallOK

LEMMA ReturnType ==
  ASSUME TypeInv, KernelTypeOK', NEW c \in Clients,
         NEW o \in Object, o.kind \in Creatable => o.name \in Names,
         obj' = [obj EXCEPT ![c] = o],
         NEW h \in Namespaces \cup {NoNs}, home' = [home EXCEPT ![c] = h],
         NEW e \in Results, Return(c, e)
  PROVE  TypeInv'
<1>1. NoCall \in Call /\ NoCall.op = "none"
  BY DEF NoCall, Call
<1> QED
  BY <1>1, ClientType, Unchanged DEF Return

LEMMA InvokeType ==
  ASSUME TypeInv, NEW c \in Clients,
         NEW o \in Object, o.kind \in Creatable => o.name \in Names,
         obj' = [obj EXCEPT ![c] = o],
         NEW h \in Namespaces \cup {NoNs}, home' = [home EXCEPT ![c] = h],
         NEW st \in {"modify", "read"}, NEW op \in Methods,
         st = "read" => op \in {"Up", "Down", "SetMtu", "SetMaster",
                                "GetLink", "GetLinkByIndex"},
         NEW x \in Contexts, NEW a \in Nat,
         op = "SetMtu" => a \in Mtus, op = "SetMaster" => a \in Indices,
         Invoke(c, op, x, a, st)
  PROVE  TypeInv'
<1> DEFINE k == [op |-> op, ns |-> x.ns, target |-> x.target, arg |-> a]
<1>1. k \in Call /\ k.ns \in Namespaces /\ k.op = op /\ k.arg = a
  BY LinkAssumption DEF Call, Context
<1>2. KernelTypeOK'
  BY Unchanged DEF Invoke, KernelTypeOK
<1>3. ret[c] \in Results /\ ret' = [ret EXCEPT ![c] = ret[c]]
  BY Unchanged DEF Invoke
<1>4. pc' = [pc EXCEPT ![c] = st] /\ call' = [call EXCEPT ![c] = k]
  BY DEF Invoke
<1> HIDE DEF k
<1> QED
  BY <1>1, <1>2, <1>3, <1>4, ClientType

LEMMA LocalType ==
  ASSUME TypeInv, NEW c \in Clients,
         NEW o \in Object, o.kind \in Creatable => o.name \in Names,
         obj' = [obj EXCEPT ![c] = o],
         NEW h \in Namespaces \cup {NoNs}, home' = [home EXCEPT ![c] = h],
         UNCHANGED <<links, last, pc, call, ret>>
  PROVE  TypeInv'
BY DEF TypeInv, TypeOK, KernelTypeOK, NamedKinds, CallOK

LEMMA CallsType ==
  ASSUME TypeInv, NEW c \in Clients,
         \/ Construct(c) \/ AssignMtu(c)
         \/ CallModify(c) \/ CallPromisc(c) \/ CallUpdate(c) \/ CallGet(c)
  PROVE  TypeInv'
<1> USE Unchanged
<1>1. CASE Construct(c)
  <2>1. PICK x \in Names, n \in LinkNs, k \in Kinds,
             m \in {0} \cup {obj[b].idx : b \in {b \in Clients : Enslave}} :
          \E p \in IF k = "veth" THEN Names ELSE {NoName} :
            obj' = [obj EXCEPT ![c] = NewLink(@, x, n, k, p, m)]
    BY <1>1 DEF Construct
  <2>2. PICK p \in IF k = "veth" THEN Names ELSE {NoName} :
          obj' = [obj EXCEPT ![c] = NewLink(obj[c], x, n, k, p, m)]
    BY <2>1
  <2>3. m \in 0 .. MaxIndex
    BY KernelAssumption DEF TypeInv, TypeOK, Object
  <2>4. /\ NewLink(obj[c], x, n, k, p, m) \in Object
        /\ NewLink(obj[c], x, n, k, p, m).name \in Names
    BY <2>3, EmptyLinkType, LinkAssumption DEF NewLink, Object
  <2>5. /\ home' = [home EXCEPT ![c] = NoNs]
        /\ UNCHANGED <<links, last, pc, call, ret>>
    BY <1>1 DEF Construct
  <2> QED
    BY <2>2, <2>4, <2>5, LocalType
<1>2. CASE AssignMtu(c)
  <2>1. PICK m \in Mtus : obj' = [obj EXCEPT ![c] = [obj[c] EXCEPT !.mtu = m]]
    BY <1>2 DEF AssignMtu
  <2>2. /\ [obj[c] EXCEPT !.mtu = m] \in Object
        /\ [obj[c] EXCEPT !.mtu = m].kind = obj[c].kind
        /\ [obj[c] EXCEPT !.mtu = m].name = obj[c].name
    BY DEF Object
  <2>3. UNCHANGED <<links, last, pc, call, ret, home>>
    BY <1>2 DEF AssignMtu
  <2> QED
    BY <2>1, <2>2, <2>3, LocalType, ZenonT(60)
<1>3. CASE CallModify(c)
  <2>1. PICK op \in {"Add", "Present", "Set", "Del", "Absent"}, x \in Contexts :
          Invoke(c, op, x, 0, "modify")
    BY <1>3 DEF CallModify
  <2>2. UNCHANGED <<obj, home>> /\ op \in Methods
    BY <1>3 DEF CallModify, Methods
  <2> QED
    BY <2>1, <2>2, InvokeType
<1>4. CASE CallPromisc(c)
  <2>0. PICK x \in Contexts, on \in BOOLEAN :
          /\ obj' = [obj EXCEPT ![c].change = @ \cup {"PROMISC"},
                                ![c].flags = IF on THEN @ \cup {"PROMISC"}
                                             ELSE @ \ {"PROMISC"}]
          /\ Invoke(c, "Promisc", x, 0, "modify")
    BY <1>4 DEF CallPromisc
  <2> DEFINE ch == obj[c].change \cup {"PROMISC"}
             fl == IF on THEN obj[c].flags \cup {"PROMISC"}
                   ELSE obj[c].flags \ {"PROMISC"}
             o == [obj[c] EXCEPT !.change = ch, !.flags = fl]
  <2>1. obj' = [obj EXCEPT ![c] = o]
    <3>1. obj' = [obj EXCEPT ![c].change = ch, ![c].flags = fl]
      BY <2>0, Zenon
    <3> HIDE DEF ch, fl
    <3> QED
      BY <3>1, Zenon
  <2>2. ch \in SUBSET Flags /\ fl \in SUBSET Flags
    BY DEF Object, Flags, Settable
  <2>3. o \in Object /\ o.kind = obj[c].kind /\ o.name = obj[c].name
    <3> HIDE DEF ch, fl
    <3> QED
      BY <2>2, ZenonT(60) DEF Object
  <2>4. home' = home /\ "Promisc" \in Methods
    BY <1>4 DEF CallPromisc, Methods
  <2> HIDE DEF o
  <2> QED
    BY <2>0, <2>1, <2>3, <2>4, InvokeType
<1>5. CASE CallUpdate(c)
  <2> DEFINE Args(op) == CASE op = "SetMtu" -> {0} \cup Mtus
                           [] op = "SetMaster" -> {obj[b].idx : b \in Clients}
                           [] OTHER -> {1}
             Call0(op, x, a) == /\ pc[c] = "idle" /\ op \in Ops
                                /\ Return(c, "ok") /\ UNCHANGED <<links, last>>
  <2>0. PICK op \in {"Up", "Down", "SetMtu", "SetMaster"}, x \in Contexts :
          \E a \in Args(op) :
            /\ IF a = 0 THEN Call0(op, x, a) ELSE Invoke(c, op, x, a, "read")
            /\ UNCHANGED <<obj, home>>
    BY <1>5 DEF CallUpdate
  <2>1. PICK a \in Args(op) :
          /\ IF a = 0 THEN Call0(op, x, a) ELSE Invoke(c, op, x, a, "read")
          /\ UNCHANGED <<obj, home>>
    BY <2>0
  <2>2. CASE a = 0
    <3>1. KernelTypeOK' /\ "ok" \in Results
      BY <2>1, <2>2 DEF KernelTypeOK, Results, Errno
    <3> QED
      BY <2>1, <2>2, <3>1, ReturnType
  <2>3. CASE a # 0
    <3>1. op = "SetMtu" => a \in Mtus
      BY <2>1, <2>3
    <3>2. op = "SetMaster" => a \in Indices
      BY <2>1, <2>3, KernelAssumption DEF TypeInv, TypeOK, Object, Indices
    <3>3. a \in Nat
      BY <2>1, <3>1, <3>2, KernelAssumption DEF Indices
    <3>4. op \in Methods
      BY DEF Methods
    <3> QED
      BY <2>1, <2>3, <3>1, <3>2, <3>3, <3>4, InvokeType
  <2> QED
    BY <2>2, <2>3
<1>6. CASE CallGet(c)
  <2>1. /\ home' = [home EXCEPT ![c] = NoNs]
        /\ "GetLink" \in Methods /\ "GetLinkByIndex" \in Methods
        /\ "none" \notin Creatable
    BY <1>6 DEF CallGet, Methods, Creatable
  <2>2. CASE \E x \in Contexts : \E y \in Names :
               /\ obj' = [obj EXCEPT ![c] = [EmptyLink EXCEPT !.name = y]]
               /\ Invoke(c, "GetLink", x, 0, "read")
    <3>1. \A y \in Names : /\ [EmptyLink EXCEPT !.name = y] \in Object
                           /\ [EmptyLink EXCEPT !.name = y].kind = "none"
      BY EmptyLinkType DEF Object
    <3> QED
      BY <2>1, <2>2, <3>1, InvokeType, ZenonT(60)
  <2>3. CASE \E x \in Contexts : \E i \in Indices :
               /\ obj' = [obj EXCEPT ![c] = [EmptyLink EXCEPT !.idx = i]]
               /\ Invoke(c, "GetLinkByIndex", x, 0, "read")
    <3>1. \A i \in Indices : /\ [EmptyLink EXCEPT !.idx = i] \in Object
                             /\ [EmptyLink EXCEPT !.idx = i].kind = "none"
      BY EmptyLinkType, KernelAssumption DEF Object, Indices
    <3> QED
      BY <2>1, <2>3, <3>1, InvokeType, ZenonT(60)
  <2> QED
    BY <1>6, <2>2, <2>3 DEF CallGet
<1> QED
  BY <1>1, <1>2, <1>3, <1>4, <1>5, <1>6

LEMMA ContinueType ==
  ASSUME TypeInv, NEW c \in Clients, Continue(c)
  PROVE  TypeInv'
<1> USE Unchanged
<1>1. CASE SendNewLink(c)
  <2>1. PICK e \in Results :
          /\ NetlinkUpdate("NEWLINK", call[c].ns, Marshal(obj[c]), e)
          /\ IF AfterNewLink(call[c].op, e) = "idle" THEN Return(c, e)
             ELSE /\ pc' = [pc EXCEPT ![c] = AfterNewLink(call[c].op, e)]
                  /\ UNCHANGED <<call, ret>>
    BY <1>1 DEF SendNewLink
  <2>2. pc[c] = "modify" /\ UNCHANGED <<obj, home>>
    BY <1>1 DEF SendNewLink
  <2>3. KernelTypeOK'
    BY <2>1, <2>2, MarshalType, UpdateType
  <2>4. AfterNewLink(call[c].op, e) \in {"idle", "readback"}
    BY DEF AfterNewLink
  <2> QED
    BY <2>1, <2>2, <2>3, <2>4, ReturnType, ClientType
<1>2. CASE ReadBack(c)
  <2>1. PICK r \in Read(obj[c], ReadNs(c)) :
          Refresh(c, r, ReadNs(c)) /\ Return(c, r.err)
    BY <1>2 DEF ReadBack
  <2>2. KernelTypeOK'
    BY <1>2 DEF ReadBack, KernelTypeOK, kernel
  <2>3. r.err \in Results
    BY ReadOutcome DEF Results, Errno
  <2>4. ReadNs(c) \in Namespaces
    BY <1>2 DEF ReadBack, ReadNs, Call
  <2>5. r.obj \in Object /\ (r.obj.kind \in Creatable => r.obj.name \in Names)
    BY ReadOutcome, UnmarshalType DEF KernelTypeOK
  <2> QED
    BY <2>1, <2>2, <2>3, <2>4, <2>5, ReturnType DEF Refresh
<1>3. CASE SendSetLink(c) \/ SendDelLink(c) \/ SendUpdate(c)
  <2>1. PICK e \in Results, f \in Results, q \in Request,
             type \in {"SETLINK", "DELLINK"} :
          NetlinkUpdate(type, call[c].ns, q, e) /\ Return(c, f)
    <3>1. CASE SendSetLink(c)
      BY <3>1, MarshalType DEF SendSetLink
    <3>2. CASE SendDelLink(c)
      BY <3>2, MarshalType DEF SendDelLink, DelResult, Results, Errno
    <3>3. CASE SendUpdate(c)
      BY <3>3, UpdateMessageType DEF SendUpdate
    <3> QED
      BY <1>3, <3>1, <3>2, <3>3
  <2>2. pc[c] # "idle" /\ UNCHANGED <<obj, home>>
    BY <1>3 DEF SendSetLink, SendDelLink, SendUpdate
  <2>3. KernelTypeOK'
    BY <2>1, <2>2, UpdateType
  <2> QED
    BY <2>1, <2>2, <2>3, ReturnType
<1>4. CASE LeadingRead(c)
  <2>1. PICK r \in Read(obj[c], call[c].ns) :
          IF r.err = "ok" /\ Sends(call[c].op, r.obj)
          THEN /\ Refresh(c, [r EXCEPT !.obj = Edited(call[c].op, call[c].arg, @)],
                          call[c].ns)
               /\ pc' = [pc EXCEPT ![c] = "update"]
               /\ UNCHANGED <<call, ret>>
          ELSE /\ Refresh(c, r, call[c].ns)
               /\ Return(c, ReadResult(call[c].op, r.err))
    BY <1>4 DEF LeadingRead
  <2>2. KernelTypeOK' /\ pc[c] = "read"
    BY <1>4 DEF LeadingRead, KernelTypeOK, kernel
  <2>3. r.obj \in Object /\ (r.obj.kind \in Creatable => r.obj.name \in Names)
    BY ReadOutcome, UnmarshalType DEF KernelTypeOK
  <2>4. CASE r.err = "ok" /\ Sends(call[c].op, r.obj)
    <3>1. call[c].op \in {"Up", "Down", "SetMtu", "SetMaster"}
      BY <2>2, <2>4 DEF Sends
    <3> DEFINE o == Edited(call[c].op, call[c].arg, r.obj)
    <3>2. o \in Object /\ (o.kind \in Creatable => o.name \in Names)
      BY <2>3, <3>1, EditedType
    <3>3. [r EXCEPT !.obj = Edited(call[c].op, call[c].arg, @)].obj = o
          /\ [r EXCEPT !.obj = Edited(call[c].op, call[c].arg, @)].err = "ok"
      BY <2>4 DEF Read
    <3> HIDE DEF o
    <3>4. obj' = [obj EXCEPT ![c] = o] /\ home' = [home EXCEPT ![c] = call[c].ns]
      BY <2>1, <2>4, <3>3 DEF Refresh
    <3>5. /\ pc' = [pc EXCEPT ![c] = "update"]
          /\ call' = [call EXCEPT ![c] = call[c]]
          /\ ret' = [ret EXCEPT ![c] = ret[c]]
      BY <2>1, <2>4
    <3>6. /\ call[c] \in Call /\ ret[c] \in Results /\ call[c].ns \in Namespaces
          /\ call[c].op = "SetMtu" => call[c].arg \in Mtus
          /\ call[c].op = "SetMaster" => call[c].arg \in Indices
      BY <2>2
    <3> QED
      BY ONLY TypeInv, c \in Clients, <2>2, <3>1, <3>2, <3>4, <3>5, <3>6,
              ClientType
  <2>5. CASE ~(r.err = "ok" /\ Sends(call[c].op, r.obj))
    <3>1. ReadResult(call[c].op, r.err) \in Results
      BY ReadOutcome DEF ReadResult, Results, Errno
    <3> QED
      BY <2>1, <2>2, <2>3, <2>5, <3>1, ReturnType DEF Refresh
  <2> QED
    BY <2>4, <2>5
<1> QED
  BY <1>1, <1>2, <1>3, <1>4 DEF Continue

LEMMA TypeStep == TypeInv /\ [Next]_vars => TypeInv'
<1> SUFFICES ASSUME TypeInv, [Next]_vars PROVE TypeInv'
  OBVIOUS
<1>1. CASE Next
  BY <1>1, CallsType, ContinueType DEF Next
<1>2. CASE UNCHANGED vars
  BY <1>2 DEF vars, TypeInv, TypeOK, KernelTypeOK, NamedKinds, CallOK
<1> QED
  BY <1>1, <1>2

(* Links, objects, calls and results stay in their types: in particular no *)
(* message the library can send creates a link without a name.             *)
THEOREM TypeCorrect == Spec => []TypeOK
<1>1. TypeInv => TypeOK
  BY DEF TypeInv
<1> QED
  BY <1>1, TypeInit, TypeStep, PTL DEF Spec

-----------------------------------------------------------------------------
(* IndexNameAgree, for clients that use a link in the namespace it was     *)
(* read from and move none.  The kernel never hands out an index at or     *)
(* below the last one, so that a stale index can only come back through    *)
(* the object that kept it, whose Add sends it with the name it came with. *)
(* The invariant therefore relates the objects to the links, to the        *)
(* indices handed out and to one another.                                  *)

Holds(c) == obj[c].idx # 0 /\ obj[c].name # NoName

HandedOut == \A d \in links : d.idx <= last[d.ns]

HeldHandedOut ==
  \A c \in Clients : Holds(c) => /\ home[c] \in Namespaces
                                 /\ obj[c].idx <= last[home[c]]

HeldAgree ==
  \A b, c \in Clients :
    Holds(b) /\ Holds(c) /\ home[b] = home[c] /\ obj[b].idx = obj[c].idx
    => obj[b].name = obj[c].name

ReadHasNoNs == \A c \in Clients : obj[c].idx # 0 => obj[c].ns = NoNs

DataInv == IndexUnique /\ HandedOut /\ HeldHandedOut /\ IndexNameAgree /\ HeldAgree /\ ReadHasNoNs

(* What a call in progress sends, and where.                               *)
CallInv ==
  \A c \in Clients :
    /\ pc[c] # "idle" /\ home[c] # NoNs => call[c].ns = home[c]
    /\ pc[c] = "modify" /\ call[c].op = "Set" => obj[c].ns = NoNs
    /\ pc[c] = "modify" /\ call[c].op = "Promisc" => obj[c].change # {}
    /\ pc[c] = "update" => obj[c].ns = NoNs

AgreeInv == TypeInv /\ DataInv /\ CallInv

(* What the clients have to keep to: client c begins its calls in the      *)
(* namespace its object was last read from, and Set only without Info.Ns.  *)
Orderly(c) ==
  pc[c] = "idle" /\ pc'[c] # "idle" =>
    /\ home'[c] # NoNs => call'[c].ns = home'[c]
    /\ call'[c].op = "Set" => obj'[c].ns = NoNs

(* Deployments in which they do.                                           *)
AgreeDiscipline == Homed /\ ~Moves

(* What a message of client c makes of the links: each was there under its *)
(* index and name, or has a fresh index, or has the index and the name     *)
(* that c's object holds.                                                  *)
Evolves(c) ==
  /\ \A k \in Namespaces : last[k] <= last'[k]
  /\ \A h \in links' :
       \/ \E d \in links : d.ns = h.ns /\ d.idx = h.idx /\ d.name = h.name
       \/ last[h.ns] < h.idx /\ h.idx <= last'[h.ns]
       \/ /\ Holds(c) /\ h.ns = home[c]
          /\ h.idx = obj[c].idx /\ h.name = obj[c].name

LEMMA EvolvesUnchanged ==
  ASSUME TypeInv, UNCHANGED kernel, NEW c
  PROVE  Evolves(c)
BY KernelAssumption DEF Evolves, kernel, TypeInv, TypeOK, KernelTypeOK

(* A request of client c in namespace n, as all its messages are.          *)
Sound(c, n, q) ==
  /\ q.idx # 0 => q.ns = NoNs
  /\ q.idx # 0 /\ q.name # NoName
     => Holds(c) /\ home[c] = n /\ obj[c].idx = q.idx /\ obj[c].name = q.name

LEMMA CreateEvolves ==
  ASSUME AgreeInv, NEW c \in Clients, NEW n \in Namespaces, NEW q \in Request,
         q.kind \in Creatable, Sound(c, n, q), Create(n, q)
  PROVE  Evolves(c)
<1> DEFINE m == Destination(n, q)
<1>1. m \in Namespaces /\ last \in [Namespaces -> 0 .. MaxIndex] /\ q.name # NoName
  BY KernelAssumption
  DEF Destination, Request, Object, AgreeInv, TypeInv, TypeOK, KernelTypeOK
<1>2. PICK i \in Assigned(m, q, last[m]) :
        /\ links' = links \cup {NewDevice(m, q, i, {})}
        /\ last' = [last EXCEPT ![m] = IF q.idx # 0 THEN @ ELSE i]
  BY DEF Create
<1> DEFINE h == NewDevice(m, q, i, {})
<1>3. h.ns = m /\ h.idx = i /\ h.name = q.name
  BY DEF NewDevice
<1>4. CASE q.idx # 0
  <2>1. m = n /\ i = q.idx
    BY <1>4, <1>2 DEF Sound, Destination, Assigned
  <2> HIDE DEF m
  <2>2. Holds(c) /\ h.ns = home[c] /\ h.idx = obj[c].idx /\ h.name = obj[c].name
    BY <1>1, <1>3, <1>4, <2>1 DEF Sound
  <2>3. links' = links \cup {h} /\ last' = last
    BY <1>1, <1>2, <1>4
  <2> HIDE DEF h
  <2> QED
    BY <1>1, <2>2, <2>3, KernelAssumption DEF Evolves
<1>5. CASE q.idx = 0
  <2>1. i \in Fresh(m, last[m])
    BY <1>2, <1>5 DEF Assigned
  <2>2. i \in Nat /\ i > last[m]
    BY <2>1 DEF Fresh, Indices
  <2> HIDE DEF m
  <2>3. links' = links \cup {h} /\ last' = [last EXCEPT ![m] = i]
    BY <1>2, <1>5
  <2> HIDE DEF h
  <2> QED
    BY <1>1, <1>3, <2>2, <2>3, KernelAssumption DEF Evolves
<1> QED
  BY <1>4, <1>5

LEMMA CreateVethEvolves ==
  ASSUME AgreeInv, NEW c \in Clients, NEW n \in Namespaces, NEW q \in Request,
         q.kind = "veth", Sound(c, n, q), CreateVeth(n, q)
  PROVE  Evolves(c)
<1> DEFINE m == Destination(n, q)
<1>1. m \in Namespaces /\ last \in [Namespaces -> 0 .. MaxIndex] /\ q.name # NoName
  BY KernelAssumption
  DEF Destination, Request, Object, Creatable, AgreeInv, TypeInv, TypeOK,
      KernelTypeOK
<1>2. PICK j \in Fresh(n, last[n]) :
        \E i \in Assigned(m, q, IF m = n THEN j ELSE last[m]) :
          /\ links' = links \cup {PeerDevice(n, q, j),
                                  NewDevice(m, q, i, {<<n, j>>})}
          /\ last' = [k \in Namespaces |->
                        IF k = m /\ q.idx = 0 THEN i
                        ELSE IF k = n THEN j ELSE last[k]]
  BY DEF CreateVeth
<1>3. PICK i \in Assigned(m, q, IF m = n THEN j ELSE last[m]) :
        /\ links' = links \cup {PeerDevice(n, q, j),
                                NewDevice(m, q, i, {<<n, j>>})}
        /\ last' = [k \in Namespaces |->
                      IF k = m /\ q.idx = 0 THEN i
                      ELSE IF k = n THEN j ELSE last[k]]
  BY <1>2
<1> DEFINE h == NewDevice(m, q, i, {<<n, j>>})
           p == PeerDevice(n, q, j)
<1>4. h.ns = m /\ h.idx = i /\ h.name = q.name /\ p.ns = n /\ p.idx = j
  BY DEF NewDevice, PeerDevice
<1>5. j \in Nat /\ i \in Nat /\ j > last[n]
  BY <1>2, <1>3 DEF Fresh, Assigned, Indices
<1>6. q.idx = 0 => i > last[m] /\ (m = n => i > j)
  BY <1>1, <1>3, <1>5, KernelAssumption DEF Assigned, Fresh
<1>7. q.idx # 0 => /\ m = n /\ i = q.idx
                   /\ Holds(c) /\ m = home[c] /\ i = obj[c].idx
                   /\ q.name = obj[c].name
  BY <1>1, <1>3 DEF Sound, Destination, Assigned
<1> HIDE DEF h, p, m
<1>8. \A k \in Namespaces : last[k] <= last'[k]
  BY <1>1, <1>3, <1>5, <1>6, <1>7, KernelAssumption
<1>9. last[n] < p.idx /\ p.idx <= last'[n]
  BY <1>1, <1>3, <1>4, <1>5, <1>6, KernelAssumption
<1>10. q.idx = 0 => last[m] < h.idx /\ h.idx <= last'[m]
  BY <1>1, <1>3, <1>4, <1>5, <1>6, KernelAssumption
<1>11. \A x \in links' : x \in links \/ x = p \/ x = h
  BY <1>3 DEF p, h
<1> QED
  BY <1>4, <1>7, <1>8, <1>9, <1>10, <1>11 DEF Evolves

(* No link gets another index, name or namespace, and no index is handed   *)
(* out.                                                                    *)
LinksStay ==
  /\ last' = last
  /\ \A h \in links' : \E d \in links : d.ns = h.ns /\ d.idx = h.idx /\ d.name = h.name

LEMMA StayEvolves ==
  ASSUME TypeInv, LinksStay, NEW c
  PROVE  Evolves(c)
BY KernelAssumption DEF LinksStay, Evolves, TypeInv, TypeOK, KernelTypeOK

(* SETLINK neither moves a link nor renames it.                            *)
LEMMA SetLinkStays ==
  ASSUME AgreeInv, NEW c \in Clients, NEW n \in Namespaces, NEW q \in Request,
         Sound(c, n, q), q.ns = NoNs, NEW e, RtmSetLink(n, q, e)
  PROVE  LinksStay
<1>1. CASE UNCHANGED kernel
  BY <1>1 DEF LinksStay, kernel
<1>2. ASSUME NEW d \in Lookup(n, q), NEW g \in Landed(d, q),
             NEW h \in {WithMtu(g, q), WithName(WithMtu(g, q), q),
                        WithRest(WithName(WithMtu(g, q), q), q)},
             links' = (links \ {d}) \cup {h},
             last' = IF g.idx = d.idx THEN last
                     ELSE [last EXCEPT ![g.ns] = g.idx]
      PROVE  LinksStay
  <2>1. g = d /\ last' = last
    BY <1>2 DEF Landed, LeavesNs
  <2>2. d \in links /\ d.ns = n /\ d \in Link
    BY DEF Lookup, AgreeInv, TypeInv, TypeOK, KernelTypeOK
  <2>3. q.idx # 0 /\ q.name # NoName => d.name = q.name
    BY <2>2 DEF Lookup, Sound, AgreeInv, DataInv, IndexNameAgree, Holds
  <2>4. ~Renames(WithMtu(d, q), q)
    BY <2>2, <2>3 DEF Renames, WithMtu, Link
  <2>5. h.ns = d.ns /\ h.idx = d.idx /\ h.name = d.name
    BY <2>1, <2>2, <2>4 DEF WithMtu, WithName, WithRest, Link
  <2> QED
    BY <1>2, <2>1, <2>2, <2>5 DEF LinksStay
<1> QED
  BY <1>1, <1>2 DEF RtmSetLink

LEMMA DelLinkStays ==
  ASSUME AgreeInv, NEW n \in Namespaces, NEW q \in Request, NEW e,
         RtmDelLink(n, q, e)
  PROVE  LinksStay
<1>1. CASE UNCHANGED kernel
  BY <1>1 DEF LinksStay, kernel
<1>2. ASSUME NEW d \in Lookup(n, q),
             links' = {Released(x, Gone(d)) : x \in links \ Gone(d)},
             UNCHANGED last
      PROVE  LinksStay
  <2>1. \A x \in links : LET y == Released(x, Gone(d)) IN
                         y.ns = x.ns /\ y.idx = x.idx /\ y.name = x.name
    BY DEF Released, Link, AgreeInv, TypeInv, TypeOK, KernelTypeOK
  <2> QED
    BY <1>2, <2>1 DEF LinksStay
<1> QED
  BY <1>1, <1>2 DEF RtmDelLink

LEMMA UpdateEvolves ==
  ASSUME AgreeInv, NEW c \in Clients, NEW n \in Namespaces, NEW q \in Request,
         Sound(c, n, q), NEW type \in {"NEWLINK", "SETLINK", "DELLINK"},
         type = "SETLINK" => q.ns = NoNs,
         NEW e, NetlinkUpdate(type, n, q, e)
  PROVE  Evolves(c)
<1>1. CASE UNCHANGED kernel
  BY <1>1, EvolvesUnchanged DEF AgreeInv
<1>2. ASSUME NEW k \in Errno,
             CASE type = "NEWLINK" -> RtmNewLink(n, q, k)
               [] type = "SETLINK" -> RtmSetLink(n, q, k)
               [] type = "DELLINK" -> RtmDelLink(n, q, k),
             ~UNCHANGED kernel
      PROVE  Evolves(c)
  <2>1. CASE type = "NEWLINK"
    <3>1. /\ ~\E x \in Errno : NewLinkError(n, q, x)
          /\ IF q.kind = "veth" THEN CreateVeth(n, q) ELSE Create(n, q)
      BY <1>2, <2>1 DEF RtmNewLink
    <3>2. q.kind \in Creatable
      BY <3>1 DEF NewLinkError, Errno
    <3> QED
      BY <3>1, <3>2, CreateEvolves, CreateVethEvolves
  <2>2. CASE type = "SETLINK"
    BY <1>2, <2>2, SetLinkStays, StayEvolves DEF AgreeInv
  <2>3. CASE type = "DELLINK"
    BY <1>2, <2>3, DelLinkStays, StayEvolves DEF AgreeInv
  <2> QED
    BY <2>1, <2>2, <2>3
<1> QED
  BY <1>1, <1>2 DEF NetlinkUpdate

(* A message that leaves the objects alone keeps what is known of them.    *)
LEMMA SendKeepsData ==
  ASSUME AgreeInv, TypeInv', IndexUnique',
         NEW c \in Clients, Evolves(c), UNCHANGED <<obj, home>>
  PROVE  DataInv'
<1>1. /\ last \in [Namespaces -> 0 .. MaxIndex] /\ last' \in [Namespaces -> 0 .. MaxIndex]
      /\ links \subseteq Link /\ links' \subseteq Link
      /\ \A b \in Clients : obj[b].idx \in Nat
      /\ MaxIndex \in Nat
  BY KernelAssumption DEF AgreeInv, TypeInv, TypeOK, KernelTypeOK, Object
<1>2. HeldHandedOut'
  BY <1>1, KernelAssumption DEF HeldHandedOut, Evolves, AgreeInv, DataInv, Holds
<1>3. HeldAgree' /\ ReadHasNoNs'
  BY DEF HeldAgree, ReadHasNoNs, AgreeInv, DataInv, Holds
<1>4. HandedOut'
  <2> SUFFICES ASSUME NEW h \in links' PROVE h.idx <= last'[h.ns]
    BY DEF HandedOut
  <2>1. h.ns \in Namespaces /\ h.idx \in Nat
    BY <1>1 DEF Link, Indices
  <2>2. last[h.ns] <= last'[h.ns] /\ last[h.ns] \in Nat /\ last'[h.ns] \in Nat
    BY <1>1, <2>1, KernelAssumption DEF Evolves
  <2>3. CASE \E d \in links : d.ns = h.ns /\ d.idx = h.idx
    BY <2>1, <2>2, <2>3 DEF AgreeInv, DataInv, HandedOut
  <2>4. CASE Holds(c) /\ h.ns = home[c] /\ h.idx = obj[c].idx
    BY <2>1, <2>2, <2>4 DEF AgreeInv, DataInv, HeldHandedOut
  <2> QED
    BY <2>1, <2>2, <2>3, <2>4 DEF Evolves
<1>5. IndexNameAgree'
  <2> SUFFICES ASSUME NEW b \in Clients, NEW h \in links', Holds(b),
                      h.ns = home[b], h.idx = obj[b].idx
               PROVE  h.name = obj[b].name
    BY DEF IndexNameAgree, Holds
  <2>1. h.ns \in Namespaces /\ h.idx \in Nat /\ last[h.ns] \in Nat
    BY <1>1, KernelAssumption DEF Link, Indices
  <2>2. CASE \E d \in links : d.ns = h.ns /\ d.idx = h.idx /\ d.name = h.name
    BY <2>2 DEF AgreeInv, DataInv, IndexNameAgree, Holds
  <2>3. ~(last[h.ns] < h.idx)
    BY <2>1 DEF AgreeInv, DataInv, HeldHandedOut
  <2>4. CASE /\ Holds(c) /\ h.ns = home[c]
             /\ h.idx = obj[c].idx /\ h.name = obj[c].name
    BY <2>4 DEF AgreeInv, DataInv, HeldAgree
  <2> QED
    BY <2>2, <2>3, <2>4 DEF Evolves
<1> QED
  BY <1>2, <1>3, <1>4, <1>5 DEF DataInv

(* So does a step that leaves one object without a held index.             *)
LEMMA ForgetKeepsData ==
  ASSUME AgreeInv, NEW c \in Clients, NEW o \in Object,
         obj' = [obj EXCEPT ![c] = o], o.idx = 0 \/ o.name = NoName,
         o.idx # 0 => o.ns = NoNs,
         \A b \in Clients \ {c} : home'[b] = home[b], UNCHANGED kernel
  PROVE  DataInv'
<1>1. /\ \A b \in Clients \ {c} : obj'[b] = obj[b]
      /\ obj'[c] = o
  BY DEF AgreeInv, TypeInv, TypeOK
<1>2. IndexUnique' /\ HandedOut' /\ HeldHandedOut'
  BY <1>1 DEF AgreeInv, DataInv, IndexUnique, HandedOut, HeldHandedOut, Holds,
              kernel
<1>3. IndexNameAgree'
  BY <1>1 DEF AgreeInv, DataInv, IndexNameAgree, Holds, kernel
<1>4. HeldAgree' /\ ReadHasNoNs'
  BY <1>1 DEF AgreeInv, DataInv, HeldAgree, ReadHasNoNs, Holds
<1> QED
  BY <1>2, <1>3, <1>4 DEF DataInv

(* So does a Read, which takes index and name of one link together.        *)
LEMMA ReadKeepsData ==
  ASSUME AgreeInv, NEW c \in Clients, NEW d \in links, NEW o \in Object,
         o.idx = d.idx, o.name = d.name, o.ns = NoNs,
         obj' = [obj EXCEPT ![c] = o], home' = [home EXCEPT ![c] = d.ns],
         UNCHANGED kernel
  PROVE  DataInv'
<1>1. /\ \A b \in Clients \ {c} : obj'[b] = obj[b] /\ home'[b] = home[b]
      /\ obj'[c] = o /\ home'[c] = d.ns /\ d \in Link
  BY DEF AgreeInv, TypeInv, TypeOK, KernelTypeOK
<1>2. IndexUnique' /\ HandedOut' /\ HeldHandedOut'
  BY <1>1 DEF AgreeInv, DataInv, IndexUnique, HandedOut, HeldHandedOut, Holds,
              kernel, Link
<1>3. HeldAgree'
  BY <1>1 DEF AgreeInv, DataInv, HeldAgree, IndexNameAgree, Holds
<1>4. ReadHasNoNs'
  BY <1>1 DEF AgreeInv, DataInv, ReadHasNoNs
<1>5. IndexNameAgree'
  <2> SUFFICES ASSUME NEW b \in Clients, NEW h \in links,
                      obj'[b].idx # 0, obj'[b].name # NoName,
                      h.ns = home'[b], h.idx = obj'[b].idx
               PROVE  h.name = obj'[b].name
    BY DEF IndexNameAgree, kernel
  <2>1. CASE b # c
    BY <1>1, <2>1 DEF AgreeInv, DataInv, IndexNameAgree
  <2>2. CASE b = c
    BY <1>1, <2>2 DEF AgreeInv, DataInv, IndexUnique
  <2> QED
    BY <2>1, <2>2
<1> QED
  BY <1>2, <1>3, <1>4, <1>5 DEF DataInv

(* So does a step that changes neither index, name nor namespace.          *)
LEMMA EditKeepsData ==
  ASSUME AgreeInv, NEW c \in Clients, NEW o \in Object,
         o.idx = obj[c].idx, o.name = obj[c].name, o.ns = obj[c].ns,
         obj' = [obj EXCEPT ![c] = o], home' = home, UNCHANGED kernel
  PROVE  DataInv'
<1>1. \A b \in Clients : /\ obj'[b].idx = obj[b].idx
                         /\ obj'[b].name = obj[b].name
                         /\ obj'[b].ns = obj[b].ns
  BY DEF AgreeInv, TypeInv, TypeOK
<1>2. IndexUnique' /\ HandedOut' /\ HeldHandedOut'
  BY <1>1 DEF AgreeInv, DataInv, IndexUnique, HandedOut, HeldHandedOut, Holds,
              kernel
<1>3. IndexNameAgree'
  BY <1>1 DEF AgreeInv, DataInv, IndexNameAgree, Holds, kernel
<1>4. HeldAgree' /\ ReadHasNoNs'
  BY <1>1 DEF AgreeInv, DataInv, HeldAgree, ReadHasNoNs, Holds
<1> QED
  BY <1>2, <1>3, <1>4 DEF DataInv

(* A call in progress stays as CallInv says while other clients step.      *)
LEMMA CallKept ==
  ASSUME AgreeInv, NEW c \in Clients,
         NEW o \in Object, obj' = [obj EXCEPT ![c] = o],
         NEW h \in Namespaces \cup {NoNs}, home' = [home EXCEPT ![c] = h],
         NEW st \in {"idle", "modify", "readback", "read", "update"},
         pc' = [pc EXCEPT ![c] = st],
         NEW k \in Call, call' = [call EXCEPT ![c] = k],
         st # "idle" /\ h # NoNs => k.ns = h,
         st = "modify" /\ k.op = "Set" => o.ns = NoNs,
         st = "modify" /\ k.op = "Promisc" => o.change # {},
         st = "update" => o.ns = NoNs
  PROVE  CallInv'
BY DEF AgreeInv, TypeInv, TypeOK, CallInv

LEMMA NoCallKept ==
  ASSUME AgreeInv, NEW c \in Clients,
         NEW o \in Object, obj' = [obj EXCEPT ![c] = o],
         NEW h \in Namespaces \cup {NoNs}, home' = [home EXCEPT ![c] = h],
         pc' = [pc EXCEPT ![c] = "idle"],
         NEW k \in Call, call' = [call EXCEPT ![c] = k]
  PROVE  CallInv'
BY DEF AgreeInv, TypeInv, TypeOK, CallInv

(* The requests are sound, and no SETLINK carries a namespace.             *)
LEMMA MarshalSound ==
  ASSUME AgreeInv, NEW c \in Clients, pc[c] # "idle"
  PROVE  /\ Sound(c, call[c].ns, Marshal(obj[c]))
         /\ obj[c].ns = NoNs \/ obj[c].change # {} => Marshal(obj[c]).ns = NoNs
<1>1. obj[c] \in Object
  BY Unchanged DEF AgreeInv
<1>2. Holds(c) => home[c] = call[c].ns
  BY KernelAssumption DEF AgreeInv, DataInv, HeldHandedOut, CallInv
<1>3. obj[c].idx # 0 => obj[c].ns = NoNs
  BY DEF AgreeInv, DataInv, ReadHasNoNs
<1>4. CASE obj[c].change = {}
  <2>1. /\ Marshal(obj[c]).idx = obj[c].idx /\ Marshal(obj[c]).name = obj[c].name
        /\ Marshal(obj[c]).ns = obj[c].ns
    BY <1>1, <1>4 DEF Marshal, Object
  <2> QED
    BY <1>2, <1>3, <1>4, <2>1 DEF Sound, Holds
<1>5. CASE obj[c].change # {}
  <2>1. Marshal(obj[c]).name = NoName /\ Marshal(obj[c]).ns = NoNs
    BY <1>5 DEF Marshal, EmptyLink
  <2> QED
    BY <2>1 DEF Sound
<1> QED
  BY <1>4, <1>5

LEMMA UpdateMessageSound ==
  ASSUME AgreeInv, NEW c \in Clients, pc[c] = "update"
  PROVE  LET q == UpdateMessage(call[c].op, call[c].arg, obj[c])
         IN  Sound(c, call[c].ns, q) /\ q.ns = NoNs
<1>1. obj[c].ns = NoNs /\ call[c].op \in {"Up", "Down", "SetMtu", "SetMaster"}
  BY DEF AgreeInv, CallInv, TypeInv, CallOK
<1>2. CASE call[c].op \in {"Up", "Down"}
  BY <1>1, <1>2, MarshalSound DEF UpdateMessage
<1>3. IfInfomsg(obj[c]).name = NoName /\ IfInfomsg(obj[c]).ns = NoNs
  BY DEF IfInfomsg, EmptyLink
<1>4. CASE call[c].op = "SetMtu"
  BY <1>3, <1>4 DEF UpdateMessage, Sound, IfInfomsg, EmptyLink
<1>5. CASE call[c].op = "SetMaster"
  BY <1>3, <1>5 DEF UpdateMessage, Sound, IfInfomsg, EmptyLink
<1> QED
  BY <1>1, <1>2, <1>4, <1>5

LEMMA AgreeInit == Init => AgreeInv
<1> SUFFICES ASSUME Init PROVE AgreeInv
  OBVIOUS
<1>1. \A c \in Clients : obj[c].idx = 0 /\ pc[c] = "idle"
  BY DEF Init, EmptyLink
<1>2. DataInv
  BY <1>1 DEF Init, KernelInit, DataInv, IndexUnique, HandedOut, HeldHandedOut,
              IndexNameAgree, HeldAgree, ReadHasNoNs, Holds
<1>3. CallInv
  BY <1>1 DEF CallInv
<1> QED
  BY <1>2, <1>3, TypeInit DEF AgreeInv

LEMMA AgreeCalls ==
  ASSUME AgreeInv, NEW c \in Clients, Orderly(c),
         \/ Construct(c) \/ AssignMtu(c)
         \/ CallModify(c) \/ CallPromisc(c) \/ CallUpdate(c) \/ CallGet(c)
  PROVE  DataInv' /\ CallInv'
<1>1. /\ TypeInv /\ obj[c] \in Object
      /\ obj = [obj EXCEPT ![c] = obj[c]] /\ home = [home EXCEPT ![c] = home[c]]
      /\ pc = [pc EXCEPT ![c] = pc[c]] /\ call = [call EXCEPT ![c] = call[c]]
      /\ home[c] \in Namespaces \cup {NoNs}
      /\ pc[c] \in {"idle", "modify", "readback", "read", "update"}
      /\ call[c] \in Call /\ NoCall \in Call
  BY Unchanged DEF AgreeInv, NoCall, Call
<1>2. CASE Construct(c)
  <2>1. PICK x \in Names, n \in LinkNs, k \in Kinds,
             m \in {0} \cup {obj[b].idx : b \in {b \in Clients : Enslave}} :
          \E p \in IF k = "veth" THEN Names ELSE {NoName} :
            obj' = [obj EXCEPT ![c] = NewLink(@, x, n, k, p, m)]
    BY <1>2 DEF Construct
  <2>2. PICK p \in IF k = "veth" THEN Names ELSE {NoName} :
          obj' = [obj EXCEPT ![c] = NewLink(obj[c], x, n, k, p, m)]
    BY <2>1
  <2> DEFINE o == NewLink(obj[c], x, n, k, p, m)
  <2>3. m \in 0 .. MaxIndex
    BY <1>1, KernelAssumption DEF TypeInv, TypeOK, Object
  <2>4. o \in Object /\ o.idx = 0
    BY <2>3, EmptyLinkType, LinkAssumption DEF NewLink, EmptyLink, Object
  <2>5. /\ pc[c] = "idle" /\ home' = [home EXCEPT ![c] = NoNs]
        /\ UNCHANGED <<links, last, pc, call, ret>>
    BY <1>2 DEF Construct
  <2>6. obj' = [obj EXCEPT ![c] = o]
    BY <2>2
  <2> HIDE DEF o
  <2>7. \A b \in Clients \ {c} : home'[b] = home[b]
    BY <1>1, <2>5 DEF TypeInv, TypeOK
  <2>8. DataInv'
    BY <2>4, <2>5, <2>6, <2>7, ForgetKeepsData DEF kernel
  <2>9. CallInv'
    BY <1>1, <2>4, <2>5, <2>6, CallKept
  <2> QED
    BY <2>8, <2>9
<1>3. CASE AssignMtu(c)
  <2>1. PICK m \in Mtus : obj' = [obj EXCEPT ![c] = [obj[c] EXCEPT !.mtu = m]]
    BY <1>3 DEF AssignMtu
  <2> DEFINE o == [obj[c] EXCEPT !.mtu = m]
  <2>2. /\ o \in Object
        /\ o.idx = obj[c].idx /\ o.name = obj[c].name /\ o.ns = obj[c].ns
    BY <1>1 DEF Object
  <2>3. pc[c] = "idle" /\ UNCHANGED <<links, last, pc, call, ret, home>>
    BY <1>3 DEF AssignMtu
  <2>4. obj' = [obj EXCEPT ![c] = o]
    BY <2>1
  <2> HIDE DEF o
  <2>5. DataInv'
    BY <2>2, <2>3, <2>4, EditKeepsData DEF kernel
  <2>6. pc' = [pc EXCEPT ![c] = "idle"] /\ call' = [call EXCEPT ![c] = call[c]]
        /\ home' = [home EXCEPT ![c] = home[c]]
    BY <1>1, <2>3
  <2>7. CallInv'
    BY <1>1, <2>2, <2>4, <2>6, NoCallKept
  <2> QED
    BY <2>5, <2>7
<1>4. CASE CallModify(c)
  <2>1. PICK op \in {"Add", "Present", "Set", "Del", "Absent"}, x \in Contexts :
          /\ AtHome(c, x)
          /\ op = "Set" => Moves \/ obj[c].ns = NoNs
          /\ Invoke(c, op, x, 0, "modify")
          /\ UNCHANGED <<obj, home>>
    BY <1>4 DEF CallModify
  <2> DEFINE k == [op |-> op, ns |-> x.ns, target |-> x.target, arg |-> 0]
  <2>2. /\ pc' = [pc EXCEPT ![c] = "modify"] /\ call' = [call EXCEPT ![c] = k]
        /\ UNCHANGED kernel
    BY <2>1 DEF Invoke, kernel
  <2>3. /\ home[c] # NoNs => k.ns = home[c]
        /\ k.op = "Set" => obj[c].ns = NoNs
        /\ k.op # "Promisc" /\ k \in Call
    <3>1. call'[c] = k /\ pc[c] = "idle" /\ pc'[c] = "modify"
      BY <1>1, <2>1, <2>2 DEF Invoke, TypeInv, TypeOK
    <3>2. home'[c] = home[c] /\ obj'[c] = obj[c]
      BY <2>1
    <3>3. k.op # "Promisc" /\ k \in Call
      BY <2>1, LinkAssumption DEF Call, Context, Methods
    <3> HIDE DEF k
    <3> QED
      BY <3>1, <3>2, <3>3 DEF Orderly
  <2> HIDE DEF k
  <2>4. DataInv'
    BY <1>1, <2>1, <2>2, EditKeepsData
  <2>5. CallInv'
    BY <1>1, <2>1, <2>2, <2>3, CallKept, ZenonT(60)
  <2> QED
    BY <2>4, <2>5
<1>5. CASE CallPromisc(c)
  <2>1. PICK x \in Contexts, on \in BOOLEAN :
          /\ AtHome(c, x)
          /\ obj' = [obj EXCEPT ![c].change = @ \cup {"PROMISC"},
                                ![c].flags = IF on THEN @ \cup {"PROMISC"}
                                             ELSE @ \ {"PROMISC"}]
          /\ Invoke(c, "Promisc", x, 0, "modify")
          /\ UNCHANGED home
    BY <1>5 DEF CallPromisc
  <2> DEFINE ch == obj[c].change \cup {"PROMISC"}
             fl == IF on THEN obj[c].flags \cup {"PROMISC"}
                   ELSE obj[c].flags \ {"PROMISC"}
             o == [obj[c] EXCEPT !.change = ch, !.flags = fl]
             k == [op |-> "Promisc", ns |-> x.ns, target |-> x.target, arg |-> 0]
  <2>2. obj' = [obj EXCEPT ![c] = o]
    BY <1>1, <2>1 DEF TypeInv, TypeOK, Object
  <2>3. ch \in SUBSET Flags /\ fl \in SUBSET Flags /\ ch # {}
    BY <1>1 DEF Object, Flags, Settable
  <2>4. /\ o \in Object /\ o.change # {}
        /\ o.idx = obj[c].idx /\ o.name = obj[c].name /\ o.ns = obj[c].ns
    <3> HIDE DEF ch, fl
    <3> QED
      BY <1>1, <2>3 DEF Object
  <2>5. /\ pc' = [pc EXCEPT ![c] = "modify"] /\ call' = [call EXCEPT ![c] = k]
        /\ UNCHANGED kernel /\ home' = home
    BY <2>1 DEF Invoke, kernel
  <2>6. home[c] # NoNs => k.ns = home[c]
    <3>1. call'[c] = k /\ pc[c] = "idle" /\ pc'[c] = "modify"
      BY <1>1, <2>1, <2>5 DEF Invoke, TypeInv, TypeOK
    <3> QED
      BY <2>5, <3>1 DEF Orderly
  <2>7. k.op # "Set" /\ k \in Call
    BY <2>1, LinkAssumption DEF Call, Context, Methods
  <2> HIDE DEF k, o
  <2>8. DataInv'
    BY <1>1, <2>2, <2>4, <2>5, EditKeepsData
  <2>9. CallInv'
    <3>1. home' = [home EXCEPT ![c] = home[c]]
      BY <1>1, <2>5
    <3>2. obj[c] \in Object /\ home[c] \in Namespaces \cup {NoNs}
      BY <1>1
    <3> QED
      BY ONLY AgreeInv, c \in Clients, <2>2, <2>4, <2>5, <2>6, <2>7, <3>1,
              <3>2, CallKept
  <2> QED
    BY <2>8, <2>9
<1>6. CASE CallUpdate(c)
  <2>1. PICK op \in {"Up", "Down", "SetMtu", "SetMaster"}, x \in Contexts :
          \E a \in Nat :
                 /\ AtHome(c, x)
                 /\ IF a = 0
                    THEN Return(c, "ok") /\ UNCHANGED <<links, last>>
                    ELSE Invoke(c, op, x, a, "read")
                 /\ UNCHANGED <<obj, home>>
    <3>1. /\ {0} \cup Mtus \subseteq Nat /\ 1 \in Nat
          /\ {obj[b].idx : b \in Clients} \subseteq Nat
      BY <1>1, KernelAssumption DEF TypeInv, TypeOK, Object
    <3> QED
      BY <1>6, <3>1 DEF CallUpdate
  <2>2. PICK a \in Nat :
                 /\ AtHome(c, x)
                 /\ IF a = 0
                    THEN Return(c, "ok") /\ UNCHANGED <<links, last>>
                    ELSE Invoke(c, op, x, a, "read")
                 /\ UNCHANGED <<obj, home>>
    BY <2>1
  <2>3. UNCHANGED kernel
    BY <2>2 DEF Invoke, kernel
  <2>4. DataInv'
    BY <1>1, <2>2, <2>3, EditKeepsData
  <2>5. CallInv'
    <3>1. CASE a = 0
      BY <1>1, <2>2, <3>1, CallKept DEF Return
    <3>2. CASE a # 0
      <4> DEFINE k == [op |-> op, ns |-> x.ns, target |-> x.target, arg |-> a]
      <4>1. pc' = [pc EXCEPT ![c] = "read"] /\ call' = [call EXCEPT ![c] = k]
        BY <2>2, <3>2 DEF Invoke
      <4>2. (home[c] # NoNs => k.ns = home[c]) /\ k \in Call
        <5>1. call'[c] = k /\ pc[c] = "idle" /\ pc'[c] = "read"
          BY <1>1, <2>2, <3>2, <4>1 DEF Invoke, TypeInv, TypeOK
        <5>2. k \in Call
          BY LinkAssumption DEF Call, Context, Methods
        <5> QED
          BY <2>2, <5>1, <5>2 DEF Orderly
      <4> HIDE DEF k
      <4> QED
        BY <1>1, <2>2, <4>1, <4>2, CallKept
    <3> QED
      BY <3>1, <3>2
  <2> QED
    BY <2>4, <2>5
<1>7. CASE CallGet(c)
  <2>1. PICK o \in Object, op \in Methods, x \in Contexts :
          /\ obj' = [obj EXCEPT ![c] = o] /\ Invoke(c, op, x, 0, "read")
          /\ o.idx = 0 \/ o.name = NoName
          /\ o.ns = NoNs
    <3>1. \A y \in Names : LET o == [EmptyLink EXCEPT !.name = y] IN
            o \in Object /\ o.idx = 0 /\ o.ns = NoNs
      BY EmptyLinkType DEF Object, EmptyLink
    <3>2. \A i \in Indices : LET o == [EmptyLink EXCEPT !.idx = i] IN
            o \in Object /\ o.name = NoName /\ o.ns = NoNs
      BY EmptyLinkType, KernelAssumption DEF Object, EmptyLink, Indices
    <3> QED
      BY <1>7, <3>1, <3>2 DEF CallGet, Methods
  <2>2. home' = [home EXCEPT ![c] = NoNs]
    BY <1>7 DEF CallGet
  <2> DEFINE k == [op |-> op, ns |-> x.ns, target |-> x.target, arg |-> 0]
  <2>3. /\ pc' = [pc EXCEPT ![c] = "read"] /\ call' = [call EXCEPT ![c] = k]
        /\ UNCHANGED kernel
    BY <2>1 DEF Invoke, kernel
  <2>4. \A b \in Clients \ {c} : home'[b] = home[b]
    BY <1>1, <2>2 DEF TypeInv, TypeOK
  <2>5. k \in Call
    BY LinkAssumption DEF Call, Context
  <2> HIDE DEF k
  <2>6. DataInv'
    BY <2>1, <2>3, <2>4, ForgetKeepsData
  <2>7. CallInv'
    BY <1>1, <2>1, <2>5, <2>2, <2>3, CallKept
  <2> QED
    BY <2>6, <2>7
<1> QED
  BY <1>2, <1>3, <1>4, <1>5, <1>6, <1>7

LEMMA AgreeContinue ==
  ASSUME AgreeInv, TypeInv', NEW c \in Clients, Continue(c)
  PROVE  DataInv' /\ CallInv'
<1>1. /\ TypeInv /\ KernelTypeOK /\ IndexUnique /\ obj[c] \in Object
      /\ obj[c].kind \in Creatable => obj[c].name \in Names
      /\ obj = [obj EXCEPT ![c] = obj[c]] /\ home = [home EXCEPT ![c] = home[c]]
      /\ pc = [pc EXCEPT ![c] = pc[c]] /\ call = [call EXCEPT ![c] = call[c]]
      /\ home[c] \in Namespaces \cup {NoNs}
      /\ call[c] \in Call /\ NoCall \in Call
      /\ pc[c] # "idle" => call[c].ns \in Namespaces
  BY Unchanged DEF AgreeInv, DataInv, NoCall, Call
<1>2. CASE SendNewLink(c) \/ SendSetLink(c) \/ SendDelLink(c) \/ SendUpdate(c)
  <2>1. PICK e \in Results, q \in Request,
             type \in {"NEWLINK", "SETLINK", "DELLINK"} :
          /\ NetlinkUpdate(type, call[c].ns, q, e)
          /\ Sound(c, call[c].ns, q)
          /\ type = "SETLINK" => q.ns = NoNs
    <3>1. pc[c] # "idle"
      BY <1>2 DEF SendNewLink, SendSetLink, SendDelLink, SendUpdate
    <3>2. /\ Marshal(obj[c]) \in Request
          /\ Sound(c, call[c].ns, Marshal(obj[c]))
      BY <1>1, <3>1, MarshalType, MarshalSound
    <3>3. CASE SendNewLink(c)
      BY <3>2, <3>3 DEF SendNewLink
    <3>4. CASE SendDelLink(c)
      BY <3>2, <3>4 DEF SendDelLink
    <3>5. CASE SendSetLink(c)
      <4>1. obj[c].ns = NoNs \/ obj[c].change # {}
        BY <3>5 DEF SendSetLink, AgreeInv, CallInv
      <4>2. Marshal(obj[c]).ns = NoNs
        BY <3>1, <4>1, MarshalSound
      <4> QED
        BY <3>2, <3>5, <4>2 DEF SendSetLink
    <3>6. CASE SendUpdate(c)
      <4> DEFINE m == UpdateMessage(call[c].op, call[c].arg, obj[c])
      <4>1. pc[c] = "update"
        BY <3>6 DEF SendUpdate
      <4>2. Sound(c, call[c].ns, m) /\ m.ns = NoNs
        BY <4>1, UpdateMessageSound
      <4>3. m \in Request
        BY <1>1, <4>1, Unchanged, UpdateMessageType
      <4>4. \E e \in Results : NetlinkUpdate("SETLINK", call[c].ns, m, e)
        BY <3>6 DEF SendUpdate
      <4> HIDE DEF m
      <4> QED
        BY <4>2, <4>3, <4>4
    <3> QED
      BY <1>2, <3>3, <3>4, <3>5, <3>6
  <2>2. pc[c] # "idle" /\ UNCHANGED <<obj, home>>
    BY <1>2 DEF SendNewLink, SendSetLink, SendDelLink, SendUpdate
  <2>3. Evolves(c) /\ IndexUnique'
    BY <1>1, <2>1, <2>2, UpdateEvolves, UpdateUnique
  <2>4. DataInv'
    BY <2>2, <2>3, SendKeepsData DEF AgreeInv, DataInv
  <2>5. CallInv'
    <3>1. CASE \E k \in Results : Return(c, k)
      <4>1. /\ pc' = [pc EXCEPT ![c] = "idle"]
            /\ call' = [call EXCEPT ![c] = NoCall]
            /\ obj' = [obj EXCEPT ![c] = obj[c]]
            /\ home' = [home EXCEPT ![c] = home[c]]
        BY <1>1, <2>2, <3>1 DEF Return
      <4> QED
        BY <1>1, <4>1, NoCallKept
    <3>2. CASE pc' = [pc EXCEPT ![c] = "readback"] /\ call' = call
      <4>1. home[c] # NoNs => call[c].ns = home[c]
        BY <2>2 DEF AgreeInv, CallInv
      <4>2. /\ obj' = [obj EXCEPT ![c] = obj[c]]
            /\ home' = [home EXCEPT ![c] = home[c]]
            /\ call' = [call EXCEPT ![c] = call[c]]
        BY <1>1, <2>2, <3>2
      <4>3. obj[c] \in Object /\ home[c] \in Namespaces \cup {NoNs} /\ call[c] \in Call
        BY <1>1
      <4> QED
        BY ONLY AgreeInv, c \in Clients, <3>2, <4>1, <4>2, <4>3, CallKept
    <3>3. \A op, k : AfterNewLink(op, k) \in {"idle", "readback"}
      BY DEF AfterNewLink
    <3>4. \A op, k : k \in Results => DelResult(op, k) \in Results
      BY DEF DelResult, Results, Errno
    <3> QED
      BY <1>2, <3>1, <3>2, <3>3, <3>4
      DEF SendNewLink, SendSetLink, SendDelLink, SendUpdate
  <2> QED
    BY <2>4, <2>5
<1>3. CASE ReadBack(c)
  <2>1. PICK r \in Read(obj[c], ReadNs(c)) :
          Refresh(c, r, ReadNs(c)) /\ Return(c, r.err)
    BY <1>3 DEF ReadBack
  <2>2. UNCHANGED kernel /\ pc[c] # "idle" /\ ReadNs(c) \in Namespaces
    BY <1>1, <1>3 DEF ReadBack, ReadNs, Call
  <2>3. pc' = [pc EXCEPT ![c] = "idle"] /\ call' = [call EXCEPT ![c] = NoCall]
    BY <2>1 DEF Return
  <2>4. CASE r.obj = obj[c] /\ r.err # "ok"
    <3>1. obj' = [obj EXCEPT ![c] = obj[c]] /\ home' = home
      BY <1>1, <2>1, <2>4 DEF Refresh
    <3> QED
      BY <1>1, <2>2, <2>3, <3>1, EditKeepsData, CallKept
  <2>5. CASE r.err = "ok" /\ \E d \in links : d.ns = ReadNs(c) /\ r.obj = Unmarshal(d)
    <3>1. PICK d \in links : d.ns = ReadNs(c) /\ r.obj = Unmarshal(d)
      BY <2>5
    <3>2. d \in Link /\ Unmarshal(d) \in Object
      BY <1>1, UnmarshalType DEF KernelTypeOK
    <3>3. r.obj.idx = d.idx /\ r.obj.name = d.name /\ r.obj.ns = NoNs
      BY <3>1 DEF Unmarshal, EmptyLink
    <3>4. /\ obj' = [obj EXCEPT ![c] = r.obj]
          /\ home' = [home EXCEPT ![c] = d.ns]
      BY <2>1, <2>5, <3>1 DEF Refresh
    <3>5. DataInv'
      BY <2>2, <3>1, <3>2, <3>3, <3>4, ReadKeepsData
    <3>6. CallInv'
      BY <1>1, <2>2, <2>3, <3>1, <3>2, <3>4, CallKept
    <3> QED
      BY <3>5, <3>6
  <2> QED
    BY <2>4, <2>5, ReadOutcome
<1>4. CASE LeadingRead(c)
  <2>1. PICK r \in Read(obj[c], call[c].ns) :
          IF r.err = "ok" /\ Sends(call[c].op, r.obj)
          THEN /\ Refresh(c, [r EXCEPT !.obj = Edited(call[c].op, call[c].arg, @)],
                          call[c].ns)
               /\ pc' = [pc EXCEPT ![c] = "update"]
               /\ UNCHANGED <<call, ret>>
          ELSE /\ Refresh(c, r, call[c].ns)
               /\ Return(c, ReadResult(call[c].op, r.err))
    BY <1>4 DEF LeadingRead
  <2>2. UNCHANGED kernel /\ pc[c] = "read" /\ call[c].ns \in Namespaces
    BY <1>1, <1>4 DEF LeadingRead
  <2>3. CASE r.obj = obj[c] /\ r.err # "ok"
    <3>1. obj' = [obj EXCEPT ![c] = obj[c]] /\ home' = home
      BY <1>1, <2>1, <2>3 DEF Refresh
    <3>2. pc' = [pc EXCEPT ![c] = "idle"] /\ call' = [call EXCEPT ![c] = NoCall]
      BY <2>1, <2>3 DEF Return
    <3> QED
      BY <1>1, <2>2, <3>1, <3>2, EditKeepsData, CallKept
  <2>4. CASE r.err = "ok" /\ \E d \in links : d.ns = call[c].ns /\ r.obj = Unmarshal(d)
    <3>1. PICK d \in links : d.ns = call[c].ns /\ r.obj = Unmarshal(d)
      BY <2>4
    <3>2. /\ d \in Link /\ r.obj \in Object
          /\ r.obj.kind \in Creatable => r.obj.name \in Names
      BY <1>1, <3>1, UnmarshalType DEF KernelTypeOK
    <3>3. r.obj.idx = d.idx /\ r.obj.name = d.name /\ r.obj.ns = NoNs
      BY <3>1 DEF Unmarshal, EmptyLink
    <3>4. CASE Sends(call[c].op, r.obj)
      <4> DEFINE o == Edited(call[c].op, call[c].arg, r.obj)
      <4>1. /\ call[c].op \in {"Up", "Down", "SetMtu", "SetMaster"}
            /\ call[c].op = "SetMtu" => call[c].arg \in Mtus
        BY <1>1, <3>4, Unchanged DEF Sends
      <4>2. o \in Object
        BY <3>2, <4>1, EditedType
      <4>3. o.idx = d.idx /\ o.name = d.name /\ o.ns = NoNs
        BY <3>2, <3>3, <4>1 DEF Edited, Object
      <4>4. [r EXCEPT !.obj = Edited(call[c].op, call[c].arg, @)].obj = o
            /\ [r EXCEPT !.obj = Edited(call[c].op, call[c].arg, @)].err = "ok"
        BY <2>4 DEF Read
      <4> HIDE DEF o
      <4>5. /\ obj' = [obj EXCEPT ![c] = o]
            /\ home' = [home EXCEPT ![c] = d.ns]
        BY <2>1, <2>4, <3>1, <3>4, <4>4 DEF Refresh
      <4>6. pc' = [pc EXCEPT ![c] = "update"] /\ call' = [call EXCEPT ![c] = call[c]]
        BY <1>1, <2>1, <2>4, <3>4
      <4>7. DataInv'
        BY <2>2, <4>2, <4>3, <4>5, ReadKeepsData
      <4>8. CallInv'
        BY <1>1, <2>2, <3>1, <4>2, <4>3, <4>5, <4>6, CallKept
      <4> QED
        BY <4>7, <4>8
    <3>5. CASE ~Sends(call[c].op, r.obj)
      <4>1. /\ obj' = [obj EXCEPT ![c] = r.obj]
            /\ home' = [home EXCEPT ![c] = d.ns]
        BY <2>1, <2>4, <3>1, <3>5 DEF Refresh
      <4>2. pc' = [pc EXCEPT ![c] = "idle"] /\ call' = [call EXCEPT ![c] = NoCall]
        BY <2>1, <3>5 DEF Return
      <4>3. DataInv'
        BY <2>2, <3>2, <3>3, <4>1, ReadKeepsData
      <4>4. CallInv'
        BY <1>1, <2>2, <3>1, <3>2, <4>1, <4>2, CallKept
      <4> QED
        BY <4>3, <4>4
    <3> QED
      BY <3>4, <3>5
  <2> QED
    BY <2>3, <2>4, ReadOutcome
<1> QED
  BY <1>2, <1>3, <1>4 DEF Continue

LEMMA OrderlyStep ==
  ASSUME AgreeInv, \A c \in Clients : Orderly(c), [Next]_vars
  PROVE  AgreeInv'
<1>1. TypeInv'
  BY TypeStep DEF AgreeInv
<1>2. CASE Next
  BY <1>1, <1>2, AgreeCalls, AgreeContinue DEF Next, AgreeInv
<1>3. CASE UNCHANGED vars
  BY <1>1, <1>3
  DEF vars, AgreeInv, DataInv, CallInv, IndexUnique, HandedOut, HeldHandedOut,
      IndexNameAgree, HeldAgree, ReadHasNoNs, Holds
<1> QED
  BY <1>2, <1>3

(* Only the call of a method that is not running makes an idle client busy.*)
LEMMA DisciplineOrderly ==
  ASSUME AgreeDiscipline, TypeInv, [Next]_vars, NEW c \in Clients
  PROVE  Orderly(c)
<1> SUFFICES ASSUME pc[c] = "idle", pc'[c] # "idle"
             PROVE  /\ home'[c] # NoNs => call'[c].ns = home'[c]
                    /\ call'[c].op = "Set" => obj'[c].ns = NoNs
  BY DEF Orderly
<1>1. /\ pc \in [Clients -> {"idle", "modify", "readback", "read", "update"}]
      /\ call \in [Clients -> Call] /\ home \in [Clients -> Namespaces \cup {NoNs}]
      /\ obj \in [Clients -> Object]
  BY DEF TypeInv, TypeOK
<1>2. PICK b \in Clients :
        \/ Construct(b) \/ AssignMtu(b)
        \/ CallModify(b) \/ CallPromisc(b) \/ CallUpdate(b) \/ CallGet(b)
        \/ Continue(b)
  BY DEF Next, vars
<1>3. b = c /\ pc[b] = "idle"
  BY <1>1, <1>2
  DEF Construct, AssignMtu, CallModify, CallPromisc, CallUpdate, CallGet, Invoke,
      Continue, SendNewLink, ReadBack, SendSetLink, SendDelLink, LeadingRead,
      SendUpdate, Return
<1>4. CASE CallModify(c)
  <2>1. PICK op \in {"Add", "Present", "Set", "Del", "Absent"}, x \in Contexts :
          /\ AtHome(c, x)
          /\ op = "Set" => obj[c].ns = NoNs
          /\ call' = [call EXCEPT ![c] = [op |-> op, ns |-> x.ns,
                                         target |-> x.target, arg |-> 0]]
          /\ UNCHANGED <<obj, home>>
    BY <1>4 DEF CallModify, Invoke, AgreeDiscipline
  <2>2. call'[c].op = op /\ call'[c].ns = x.ns
    BY <1>1, <2>1
  <2> QED
    BY <2>1, <2>2 DEF AtHome, AgreeDiscipline
<1>5. CASE CallPromisc(c)
  <2>1. PICK x \in Contexts :
          /\ AtHome(c, x) /\ UNCHANGED home
          /\ call' = [call EXCEPT ![c] = [op |-> "Promisc", ns |-> x.ns,
                                         target |-> x.target, arg |-> 0]]
    BY <1>5 DEF CallPromisc, Invoke
  <2>2. call'[c].op = "Promisc" /\ call'[c].ns = x.ns
    BY <1>1, <2>1
  <2> QED
    BY <2>1, <2>2 DEF AtHome, AgreeDiscipline
<1>6. CASE CallUpdate(c)
  <2>1. PICK op \in {"Up", "Down", "SetMtu", "SetMaster"}, x \in Contexts :
          \E a : /\ AtHome(c, x) /\ UNCHANGED home
                 /\ \/ Return(c, "ok")
                    \/ call' = [call EXCEPT ![c] = [op |-> op, ns |-> x.ns,
                                                 target |-> x.target, arg |-> a]]
    BY <1>6 DEF CallUpdate, Invoke
  <2>2. PICK a : /\ AtHome(c, x) /\ UNCHANGED home
                 /\ \/ Return(c, "ok")
                    \/ call' = [call EXCEPT ![c] = [op |-> op, ns |-> x.ns,
                                                 target |-> x.target, arg |-> a]]
    BY <2>1
  <2>3. ~Return(c, "ok")
    BY <1>1 DEF Return
  <2>4. call'[c].op = op /\ call'[c].ns = x.ns
    BY <1>1, <2>2, <2>3
  <2> QED
    BY <2>2, <2>4 DEF AtHome, AgreeDiscipline
<1>7. CASE CallGet(c)
  <2>1. home'[c] = NoNs
    BY <1>1, <1>7 DEF CallGet
  <2>2. \E op \in {"GetLink", "GetLinkByIndex"}, x \in Contexts :
          call' = [call EXCEPT ![c] = [op |-> op, ns |-> x.ns,
                                       target |-> x.target, arg |-> 0]]
    BY <1>7 DEF CallGet, Invoke
  <2>3. call'[c].op # "Set"
    BY <1>1, <2>2
  <2> QED
    BY <2>1, <2>3
<1>8. ~(Construct(c) \/ AssignMtu(c))
  BY DEF Construct, AssignMtu
<1>9. ~Continue(c)
  BY DEF Continue, SendNewLink, ReadBack, SendSetLink, SendDelLink, LeadingRead,
         SendUpdate
<1> QED
  BY <1>2, <1>3, <1>4, <1>5, <1>6, <1>7, <1>8, <1>9

LEMMA AgreeStep == AgreeDiscipline /\ AgreeInv /\ [Next]_vars => AgreeInv'
BY DisciplineOrderly, OrderlyStep DEF AgreeInv

(* Where every client uses a link only in the namespace it was read from   *)
(* and gives Set no namespace, no (ifindex, name) pair an object keeps     *)
(* between its calls ever denotes a link of another name, for any number   *)
(* of clients and links and however often links are deleted and created    *)
(* anew.  Orderly asks it of what the clients do, not of their deployment. *)
THEOREM OrderlyNamesAgree ==
  Spec /\ [][\A c \in Clients : Orderly(c)]_vars => []IndexNameAgree
<1>1. AgreeInv => IndexNameAgree
  BY DEF AgreeInv, DataInv
<1>2. AgreeInv /\ [Next]_vars /\ [\A c \in Clients : Orderly(c)]_vars => AgreeInv'
  <2>1. UNCHANGED vars => \A c \in Clients : Orderly(c)
    BY DEF vars, Orderly
  <2> QED
    BY <2>1, OrderlyStep
<1> QED
  BY <1>1, <1>2, AgreeInit, PTL DEF Spec

(* The deployments of Homed clients that move no links are such.           *)
THEOREM IndexNamesAgree == AgreeDiscipline /\ Spec => []IndexNameAgree
<1>1. AgreeInv => IndexNameAgree
  BY DEF AgreeInv, DataInv
<1>2. AgreeDiscipline => (AgreeInv /\ [Next]_vars => AgreeInv')
  BY AgreeStep
<1> QED
  <2> SUFFICES ASSUME AgreeDiscipline PROVE Spec => []IndexNameAgree
    OBVIOUS
  <2>1. AgreeInv /\ [Next]_vars => AgreeInv'
    BY <1>2
  <2> QED
    BY <1>1, <2>1, AgreeInit, PTL DEF Spec
=============================================================================
