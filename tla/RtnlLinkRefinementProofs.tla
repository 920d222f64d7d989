------------------------ MODULE RtnlLinkRefinementProofs ------------------------
(***************************************************************************)
(* Proof that RtnlLink implements LinkDirectory, for any number of         *)
(* clients, names, namespaces and indices.                                 *)
(***************************************************************************)
EXTENDS RtnlLinkRefinement, RtnlLinkEffects

(* What the clients have to keep to besides: Add, Present, Set, Del and    *)
(* Absent are called of an object that has a name.                         *)
Named(c) == pc[c] = "idle" /\ pc'[c] = "modify" => obj'[c].name # NoName

(* Deployments in which they do: every object has one.                     *)
NamedDiscipline == AgreeDiscipline /\ "GetLinkByIndex" \notin Ops

-----------------------------------------------------------------------------
(* What the kernel keeps to: a name is given to one link of a namespace at *)
(* a time; a veth has one peer, and the mark the two share, made of an     *)
(* index handed out when they were created, is nobody else's.              *)

PairHandedOut ==
  \A d \in links : \A n \in Namespaces, j \in Indices :
    <<n, j>> \in d.pair => j <= last[n]

PairsAreTwo ==
  \A d, h, k \in links :
    d.pair # {} /\ h.pair = d.pair /\ k.pair = d.pair => d = h \/ d = k \/ h = k

KernelNames == NameUnique /\ PairHandedOut /\ PairsAreTwo

Entry(d) == <<d.ns, d.name>>

Dir == {Entry(d) : d \in links}

LEMMA CreateNames ==
  ASSUME KernelTypeOK, KernelNames, NEW n \in Namespaces, NEW q \in Request,
         q.kind \in Creatable, ~Taken(Destination(n, q), q.name), Create(n, q)
  PROVE  /\ KernelNames'
         /\ Dir' = Dir \cup {<<Destination(n, q), q.name>>}
<1> DEFINE m == Destination(n, q)
<1>1. m \in Namespaces /\ m # NoNs
  BY KernelAssumption DEF Destination, Request, Object
<1>2. PICK i \in Assigned(m, q, last[m]) :
        /\ links' = links \cup {NewDevice(m, q, i, {})}
        /\ last' = [last EXCEPT ![m] = IF q.idx # 0 THEN @ ELSE i]
  BY DEF Create
<1> DEFINE h == NewDevice(m, q, i, {})
<1>3. h.ns = m /\ h.name = q.name /\ h.pair = {}
  BY DEF NewDevice
<1>4. \A k \in Namespaces : last[k] <= last'[k]
  <2>1. q.idx = 0 => last[m] < i
    BY <1>2 DEF Assigned, Fresh
  <2> QED
    BY <1>1, <1>2, <2>1, KernelAssumption
    DEF KernelTypeOK, Assigned, Fresh, Indices
<1>5. last' \in [Namespaces -> 0 .. MaxIndex]
  BY <1>1, <1>2 DEF KernelTypeOK, Assigned, Fresh, Indices
<1>6. links' = links \cup {h} /\ links \subseteq Link
  BY <1>2 DEF KernelTypeOK
<1> HIDE DEF h, m
<1>7. NameUnique'
  BY <1>3, <1>6 DEF KernelNames, NameUnique, Taken, m
<1>8. PairHandedOut'
  BY <1>3, <1>4, <1>5, <1>6, KernelAssumption
  DEF KernelNames, PairHandedOut, KernelTypeOK, Indices
<1>9. PairsAreTwo'
  BY <1>3, <1>6 DEF KernelNames, PairsAreTwo
<1>10. Dir' = Dir \cup {<<m, q.name>>}
  BY <1>3, <1>6 DEF Dir, Entry
<1> QED
  BY <1>7, <1>8, <1>9, <1>10 DEF KernelNames, m

LEMMA CreateVethNames ==
  ASSUME KernelTypeOK, KernelNames, NEW n \in Namespaces, NEW q \in Request,
         q.kind = "veth", q.peer # NoName,
         ~Taken(Destination(n, q), q.name), ~Taken(n, q.peer),
         ~(Destination(n, q) = n /\ q.peer = q.name), CreateVeth(n, q)
  PROVE  /\ KernelNames'
         /\ Dir' = Dir \cup {<<Destination(n, q), q.name>>, <<n, q.peer>>}
<1> DEFINE m == Destination(n, q)
<1>1. m \in Namespaces /\ m # NoNs
  BY KernelAssumption DEF Destination, Request, Object
<1>2. PICK j \in Fresh(n, last[n]) :
        \E i \in Assigned(m, q, IF m = n THEN j ELSE last[m]) :
          /\ links' = links \cup {PeerDevice(n, q, j),
                                  NewDevice(m, q, i, {<<n, j>>})}
          /\ last' = [k \in Namespaces |->
                        IF k = m /\ q.idx = 0 THEN i
                        ELSE IF k = n THEN j ELSE last[k]]
  BY DEF CreateVeth
<1>3. PICK i \in Assigned(m, q, IF m = n THEN j ELSE last[m]) :
        /\ links' = links \cup {PeerDevice(n, q, j), NewDevice(m, q, i, {<<n, j>>})}
        /\ last' = [k \in Namespaces |-> IF k = m /\ q.idx = 0 THEN i
                                         ELSE IF k = n THEN j ELSE last[k]]
  BY <1>2
<1> DEFINE h == NewDevice(m, q, i, {<<n, j>>})
           g == PeerDevice(n, q, j)
<1>4. /\ h.ns = m /\ h.name = q.name /\ h.pair = {<<n, j>>}
      /\ g.ns = n /\ g.name = q.peer /\ g.pair = {<<n, j>>}
  BY DEF NewDevice, PeerDevice
<1>5. j \in Indices /\ i \in Indices /\ last[n] < j
  BY DEF Fresh, Assigned
<1>6. \A k \in Namespaces : last[k] <= last'[k]
  <2>1. q.idx = 0 => i > IF m = n THEN j ELSE last[m]
    BY DEF Assigned, Fresh
  <2> QED
    BY <1>1, <1>3, <1>5, <2>1 DEF KernelTypeOK, Indices
<1>7. j <= last'[n]
  <2>1. q.idx = 0 /\ m = n => i > j
    BY DEF Assigned, Fresh
  <2> QED
    BY <1>1, <1>3, <1>5, <2>1 DEF Indices
<1>8. last' \in [Namespaces -> 0 .. MaxIndex] /\ last \in [Namespaces -> 0 .. MaxIndex]
  BY <1>3, <1>5 DEF KernelTypeOK, Indices
<1>9. links' = links \cup {g, h} /\ links \subseteq Link
  BY <1>3 DEF KernelTypeOK
<1>10. \A d \in links : d.pair # {<<n, j>>}
  <2>1. ~(j <= last[n])
    BY <1>5, <1>8 DEF Indices
  <2>2. \A d \in links : <<n, j>> \notin d.pair
    BY <1>5, <2>1 DEF KernelNames, PairHandedOut
  <2> QED
    BY <2>2
<1> HIDE DEF h, g, m
<1>11. NameUnique'
  <2>1. \A d \in links : ~(d.ns = m /\ d.name = q.name) /\ ~(d.ns = n /\ d.name = q.peer)
    BY DEF Taken, m
  <2>2. ~(m = n /\ q.peer = q.name)
    BY DEF m
  <2> QED
    BY <1>4, <1>9, <2>1, <2>2 DEF KernelNames, NameUnique
<1>12. PairHandedOut'
  <2> SUFFICES ASSUME NEW d \in links', NEW k \in Namespaces, NEW x \in Indices,
                      <<k, x>> \in d.pair
               PROVE  x <= last'[k]
    BY DEF PairHandedOut
  <2>1. CASE d \in links
    BY <1>6, <1>8, <2>1 DEF KernelNames, PairHandedOut, Indices
  <2>2. CASE d \in {g, h}
    BY <1>4, <1>7, <2>2
  <2> QED
    BY <1>9, <2>1, <2>2
<1>13. PairsAreTwo'
  BY <1>4, <1>9, <1>10 DEF KernelNames, PairsAreTwo
<1>14. Dir' = Dir \cup {<<m, q.name>>, <<n, q.peer>>}
  BY <1>4, <1>9 DEF Dir, Entry
<1> QED
  BY <1>11, <1>12, <1>13, <1>14 DEF KernelNames, m

(* RTM_NEWLINK of object q: its entries are new, and inserted, or nothing  *)
(* is.                                                                     *)
LEMMA NewLinkNames ==
  ASSUME KernelTypeOK, KernelNames, NEW n \in Namespaces, NEW q \in Request, NEW e,
         RtmNewLink(n, q, e)
  PROVE  /\ KernelNames'
         /\ \/ links' = links
            \/ LET m == Destination(n, q)
                   s == {<<m, q.name>>}
                        \cup IF q.kind = "veth" /\ q.peer # NoName
                             THEN {<<n, q.peer>>} ELSE {}
               IN q.kind \in Creatable /\ s \cap Dir = {} /\ Dir' = Dir \cup s
<1>1. CASE UNCHANGED kernel
  <2>1. links' = links /\ last' = last
    BY <1>1 DEF kernel
  <2> QED
    BY <2>1 DEF KernelNames, NameUnique, PairHandedOut, PairsAreTwo
<1>2. CASE /\ ~\E k \in Errno : NewLinkError(n, q, k)
           /\ IF q.kind = "veth" THEN CreateVeth(n, q) ELSE Create(n, q)
  <2> DEFINE m == Destination(n, q)
  <2>1. ~NewLinkError(n, q, "EEXIST") /\ ~NewLinkError(n, q, "EOPNOTSUPP")
        /\ ~NewLinkError(n, q, "EINVAL")
    BY <1>2 DEF Errno
  <2>2. q.kind \in Creatable /\ ~Taken(m, q.name)
    BY <2>1 DEF NewLinkError
  <2>3. q.kind = "veth" => /\ q.peer # NoName /\ ~Taken(n, q.peer)
                           /\ ~(m = n /\ q.peer = q.name)
    BY <2>1 DEF NewLinkError
  <2>4. <<m, q.name>> \notin Dir
    BY <2>2 DEF Dir, Entry, Taken
  <2>5. CASE q.kind = "veth"
    <3>1. <<n, q.peer>> \notin Dir
      BY <2>3, <2>5 DEF Dir, Entry, Taken
    <3>2. KernelNames' /\ Dir' = Dir \cup {<<m, q.name>>, <<n, q.peer>>}
      BY <1>2, <2>2, <2>3, <2>5, CreateVethNames
    <3> QED
      BY <2>2, <2>3, <2>4, <2>5, <3>1, <3>2
  <2>6. CASE q.kind # "veth"
    <3>1. KernelNames' /\ Dir' = Dir \cup {<<m, q.name>>}
      BY <1>2, <2>2, <2>6, CreateNames
    <3> QED
      BY <2>2, <2>4, <2>6, <3>1
  <2> QED
    BY <2>5, <2>6
<1> QED
  BY <1>1, <1>2 DEF RtmNewLink

(* RTM_SETLINK of clients that move no link.                               *)
LEMMA SetLinkNames ==
  ASSUME AgreeInv, KernelNames, NEW c \in Clients, NEW n \in Namespaces,
         NEW q \in Request, Sound(c, n, q), q.ns = NoNs, NEW e, RtmSetLink(n, q, e)
  PROVE  KernelNames' /\ Dir' = Dir
<1>1. links \subseteq Link
  BY DEF AgreeInv, TypeInv, TypeOK, KernelTypeOK
<1>2. CASE UNCHANGED kernel
  <2>1. links' = links /\ last' = last
    BY <1>2 DEF kernel
  <2> QED
    BY <2>1 DEF KernelNames, NameUnique, PairHandedOut, PairsAreTwo, Dir
<1>3. ASSUME NEW d \in Lookup(n, q), NEW g \in Landed(d, q),
             NEW h \in {WithMtu(g, q), WithName(WithMtu(g, q), q),
                        WithRest(WithName(WithMtu(g, q), q), q)},
             links' = (links \ {d}) \cup {h},
             last' = IF g.idx = d.idx THEN last ELSE [last EXCEPT ![g.ns] = g.idx]
      PROVE  KernelNames' /\ Dir' = Dir
  <2>1. g = d /\ last' = last
    BY <1>3 DEF Landed, LeavesNs
  <2>2. d \in links /\ d.ns = n /\ d \in Link
    BY <1>1 DEF Lookup
  <2>3. q.idx # 0 /\ q.name # NoName => d.name = q.name
    BY <2>2 DEF Lookup, Sound, AgreeInv, DataInv, IndexNameAgree, Holds
  <2>4. ~Renames(WithMtu(d, q), q)
    BY <2>2, <2>3 DEF Renames, WithMtu, Link
  <2>5. h.ns = d.ns /\ h.name = d.name /\ h.pair = d.pair
    BY <2>1, <2>2, <2>4 DEF WithMtu, WithName, WithRest, Link
  <2> HIDE DEF Lookup
  <2>6. links' = (links \ {d}) \cup {h}
    BY <1>3
  <2>7. NameUnique'
    BY <2>2, <2>5, <2>6 DEF KernelNames, NameUnique
  <2>8. PairHandedOut'
    BY <2>1, <2>2, <2>5, <2>6 DEF KernelNames, PairHandedOut
  <2>9. PairsAreTwo'
    BY <2>2, <2>5, <2>6 DEF KernelNames, PairsAreTwo
  <2>10. Dir' = Dir
    BY <2>2, <2>5, <2>6 DEF Dir, Entry
  <2> QED
    BY <2>7, <2>8, <2>9, <2>10 DEF KernelNames
<1> QED
  BY <1>2, <1>3 DEF RtmSetLink

(* RTM_DELLINK takes the entry of the link it selects and at most one      *)
(* other with it.                                                          *)
LEMMA DelLinkNames ==
  ASSUME KernelTypeOK, KernelNames, NEW n \in Namespaces, NEW q \in Request, NEW e,
         RtmDelLink(n, q, e)
  PROVE  /\ KernelNames'
         /\ \/ links' = links
            \/ \E d \in Lookup(n, q) : \E peer \in {{}} \cup {{y} : y \in Dir} :
                 Dir' = Dir \ ({Entry(d)} \cup peer)
<1>1. CASE UNCHANGED kernel
  <2>1. links' = links /\ last' = last
    BY <1>1 DEF kernel
  <2> QED
    BY <2>1 DEF KernelNames, NameUnique, PairHandedOut, PairsAreTwo
<1>2. CASE \E d \in Lookup(n, q) :
             /\ links' = {Released(x, Gone(d)) : x \in links \ Gone(d)}
             /\ UNCHANGED last
  <2>1. PICK d \in Lookup(n, q) :
          /\ links' = {Released(x, Gone(d)) : x \in links \ Gone(d)}
          /\ last' = last
    BY <1>2
  <2>2. d \in links /\ links \subseteq Link
    BY DEF Lookup, KernelTypeOK
  <2>3. \A x \in links : LET r == Released(x, Gone(d)) IN
                           r.ns = x.ns /\ r.name = x.name /\ r.pair = x.pair
    BY <2>2 DEF Released, Link
  <2> DEFINE rest == links \ Gone(d)
  <2>4. \A h \in links' : \E x \in rest :
          h = Released(x, Gone(d)) /\ h.ns = x.ns /\ h.name = x.name /\ h.pair = x.pair
    BY <2>1, <2>3
  <2>5. NameUnique'
    BY <2>4 DEF KernelNames, NameUnique
  <2>6. PairHandedOut'
    BY <2>1, <2>4 DEF KernelNames, PairHandedOut
  <2>7. PairsAreTwo'
    BY <2>4 DEF KernelNames, PairsAreTwo
  <2>8. Dir' = {Entry(x) : x \in rest}
    <3>1. \A x \in rest : Entry(Released(x, Gone(d))) = Entry(x)
      BY <2>3 DEF Entry
    <3> QED
      BY <2>1, <3>1 DEF Dir
  <2> DEFINE peer == {Entry(x) : x \in Gone(d) \ {d}}
  <2>9. Gone(d) \subseteq links /\ d \in Gone(d)
    BY <2>2 DEF Gone
  <2>10. \A x, y \in links : Entry(x) = Entry(y) => x = y
    BY DEF KernelNames, NameUnique, Entry
  <2>11. Dir' = Dir \ ({Entry(d)} \cup peer)
    BY <2>8, <2>9, <2>10 DEF Dir
  <2>12. peer \in {{}} \cup {{y} : y \in Dir}
    <3>1. \A x, y \in Gone(d) \ {d} : x = y
      BY <2>2, <2>9 DEF Gone, KernelNames, PairsAreTwo
    <3>2. CASE Gone(d) \ {d} = {}
      BY <3>2
    <3>3. CASE Gone(d) \ {d} # {}
      <4>1. PICK x \in Gone(d) \ {d} : TRUE
        BY <3>3
      <4>2. peer = {Entry(x)} /\ Entry(x) \in Dir
        BY <2>9, <3>1, <4>1 DEF Dir
      <4> QED
        BY <4>2
    <3> QED
      BY <3>2, <3>3
  <2> QED
    BY <2>1, <2>5, <2>6, <2>7, <2>11, <2>12 DEF KernelNames
<1> QED
  BY <1>1, <1>2 DEF RtmDelLink

-----------------------------------------------------------------------------
(* The object of a call that is about to send a message has a name.        *)
NamedCalls == \A c \in Clients : pc[c] = "modify" => obj[c].name # NoName

(* A step of c, and what it leaves of the other clients.                   *)
LEMMA ClientAlone ==
  ASSUME TypeInv, NEW c \in Clients,
         \/ Construct(c) \/ AssignMtu(c) \/ CallModify(c) \/ CallPromisc(c)
         \/ CallUpdate(c) \/ CallGet(c) \/ Continue(c)
  PROVE  /\ \A b \in Clients \ {c} :
              obj'[b] = obj[b] /\ call'[b] = call[b] /\ pc'[b] = pc[b]
         /\ pc'[c] = "modify" => pc[c] = "idle"
<1>1. /\ obj \in [Clients -> Object] /\ call \in [Clients -> Call]
      /\ pc \in [Clients -> {"idle", "modify", "readback", "read", "update"}]
  BY DEF TypeInv, TypeOK
<1>2. obj' = obj \/ \E o : obj' = [obj EXCEPT ![c] = o]
  <2>1. CASE Construct(c) \/ CallGet(c)
    BY <2>1 DEF Construct, CallGet
  <2>2. CASE AssignMtu(c)
    <3>1. PICK m \in Mtus : obj' = [obj EXCEPT ![c] = [obj[c] EXCEPT !.mtu = m]]
      BY <2>2 DEF AssignMtu
    <3> QED
      BY <3>1
  <2>3. CASE CallPromisc(c)
    <3>1. PICK on \in BOOLEAN :
            obj' = [obj EXCEPT ![c].change = @ \cup {"PROMISC"},
                               ![c].flags = IF on THEN @ \cup {"PROMISC"}
                                            ELSE @ \ {"PROMISC"}]
      BY <2>3 DEF CallPromisc
    <3> DEFINE fl == IF on THEN obj[c].flags \cup {"PROMISC"}
                     ELSE obj[c].flags \ {"PROMISC"}
    <3>2. obj' = [obj EXCEPT ![c] = [obj[c] EXCEPT !.change = @ \cup {"PROMISC"},
                                                   !.flags = fl]]
      BY <1>1, <3>1 DEF Object
    <3> QED
      BY <3>2
  <2>4. CASE CallModify(c) \/ CallUpdate(c) \/ Continue(c)
    BY <2>4 DEF CallModify, CallUpdate, Continue, SendNewLink, ReadBack,
                SendSetLink, SendDelLink, LeadingRead, SendUpdate, Refresh
  <2> QED
    BY <2>1, <2>2, <2>3, <2>4
<1>3. /\ pc' = pc \/ \E s : pc' = [pc EXCEPT ![c] = s]
      /\ call' = call \/ \E k : call' = [call EXCEPT ![c] = k]
  BY DEF Construct, AssignMtu, CallModify, CallPromisc, CallUpdate, CallGet, Invoke,
         Continue, SendNewLink, ReadBack, SendSetLink, SendDelLink, LeadingRead,
         SendUpdate, Return
<1>4. pc'[c] = "modify" => pc[c] = "idle"
  BY <1>1
  DEF Construct, AssignMtu, CallModify, CallPromisc, CallUpdate, CallGet, Invoke,
      Continue, SendNewLink, ReadBack, SendSetLink, SendDelLink, LeadingRead,
      SendUpdate, Return, AfterNewLink
<1> QED
  BY <1>1, <1>2, <1>3, <1>4

LEMMA NamedCallsStep ==
  ASSUME TypeInv, NamedCalls, \A c \in Clients : Named(c), [Next]_vars
  PROVE  NamedCalls'
<1>1. CASE UNCHANGED vars
  BY <1>1 DEF vars, NamedCalls
<1>2. CASE Next
  <2>1. PICK c \in Clients :
          \/ Construct(c) \/ AssignMtu(c) \/ CallModify(c) \/ CallPromisc(c)
          \/ CallUpdate(c) \/ CallGet(c) \/ Continue(c)
    BY <1>2 DEF Next
  <2> QED
    BY <2>1, ClientAlone DEF NamedCalls, Named
<1> QED
  BY <1>1, <1>2

(* In deployments without GetLinkByIndex an object without a name has no   *)
(* index either, and the object of a call in progress has a name.          *)
NamedObjects ==
  \A c \in Clients : /\ obj[c].name = NoName => obj[c].idx = 0
                     /\ pc[c] # "idle" => obj[c].name # NoName

(* What an action of client c leaves of the other clients, and what it     *)
(* makes of the name of its object.                                        *)
LEMMA ClientStep ==
  ASSUME TypeInv, "GetLinkByIndex" \notin Ops, NamedObjects, NEW c \in Clients,
         \/ Construct(c) \/ AssignMtu(c) \/ CallModify(c) \/ CallPromisc(c)
         \/ CallUpdate(c) \/ CallGet(c) \/ Continue(c)
  PROVE  /\ \A b \in Clients \ {c} :
              obj'[b] = obj[b] /\ call'[b] = call[b] /\ pc'[b] = pc[b]
         /\ \/ obj'[c].name # NoName
            \/ /\ obj'[c].name = NoName /\ obj'[c].idx = 0
               /\ pc'[c] = "idle"
<1>1. /\ obj \in [Clients -> Object] /\ call \in [Clients -> Call]
      /\ pc \in [Clients -> {"idle", "modify", "readback", "read", "update"}]
  BY DEF TypeInv, TypeOK
<1>2. \A o \in Object : DOMAIN o = DOMAIN EmptyLink
  BY DEF Object, EmptyLink
<1>3. CASE Construct(c)
  <2>1. PICK x \in Names, n \in LinkNs, k \in Kinds :
          \E m, p : obj' = [obj EXCEPT ![c] = NewLink(obj[c], x, n, k, p, m)]
    BY <1>3 DEF Construct
  <2>2. \A m, p : NewLink(obj[c], x, n, k, p, m).name = x
    BY DEF NewLink, EmptyLink
  <2> QED
    BY <1>1, <1>3, <2>1, <2>2, KernelAssumption DEF Construct
<1>4. CASE AssignMtu(c)
  <2>1. PICK m \in Mtus : obj' = [obj EXCEPT ![c].mtu = m]
    BY <1>4 DEF AssignMtu
  <2>2. obj'[c].name = obj[c].name
    BY <1>1, <1>2, <2>1 DEF EmptyLink
  <2> QED
    BY <1>1, <1>4, <2>1, <2>2 DEF AssignMtu
<1>5. CASE CallModify(c) \/ CallUpdate(c)
  <2>1. /\ obj' = obj /\ \E x : AtHome(c, x)
        /\ \E s : pc' = [pc EXCEPT ![c] = s]
        /\ \E k : call' = [call EXCEPT ![c] = k]
    BY <1>5 DEF CallModify, CallUpdate, Invoke, Return
  <2>2. obj[c].name # NoName
    BY <2>1 DEF AtHome, NamedObjects
  <2> QED
    BY <1>1, <2>1, <2>2
<1>6. CASE CallPromisc(c)
  <2>1. PICK on \in BOOLEAN :
          obj' = [obj EXCEPT ![c].change = @ \cup {"PROMISC"},
                             ![c].flags = IF on THEN @ \cup {"PROMISC"}
                                          ELSE @ \ {"PROMISC"}]
    BY <1>6 DEF CallPromisc
  <2>2. /\ \E x : AtHome(c, x)
        /\ \E s : pc' = [pc EXCEPT ![c] = s]
        /\ \E k : call' = [call EXCEPT ![c] = k]
    BY <1>6 DEF CallPromisc, Invoke
  <2>3. obj'[c].name = obj[c].name /\ \A b \in Clients \ {c} : obj'[b] = obj[b]
    BY <1>1, <1>2, <2>1 DEF EmptyLink
  <2>4. obj[c].name # NoName
    BY <2>2 DEF AtHome, NamedObjects
  <2> QED
    BY <1>1, <2>2, <2>3, <2>4
<1>7. CASE CallGet(c)
  <2>1. PICK y \in Names : obj' = [obj EXCEPT ![c] = [EmptyLink EXCEPT !.name = y]]
    BY <1>7 DEF CallGet, Invoke
  <2>2. /\ \E s : pc' = [pc EXCEPT ![c] = s]
        /\ \E k : call' = [call EXCEPT ![c] = k]
    BY <1>7 DEF CallGet, Invoke
  <2>3. [EmptyLink EXCEPT !.name = y].name = y
    BY DEF EmptyLink
  <2> QED
    BY <1>1, <2>1, <2>2, <2>3, KernelAssumption
<1>8. CASE SendNewLink(c) \/ SendSetLink(c) \/ SendDelLink(c) \/ SendUpdate(c)
  <2>1. /\ obj' = obj /\ pc[c] # "idle"
        /\ \E s : pc' = [pc EXCEPT ![c] = s]
        /\ call' = call \/ \E k : call' = [call EXCEPT ![c] = k]
    BY <1>8 DEF SendNewLink, SendSetLink, SendDelLink, SendUpdate, Return
  <2> QED
    BY <1>1, <2>1 DEF NamedObjects
<1>9. ASSUME NEW n, NEW r \in Read(obj[c], n)
      PROVE  /\ r.obj.name # NoName \/ r.obj = obj[c]
             /\ r.err = "ok" => r.obj.name # NoName
             /\ r.err = "ok" => DOMAIN r.obj = DOMAIN EmptyLink
             /\ DOMAIN r = {"err", "obj"}
  <2>1. CASE r.err = "ok"
    <3>1. PICK d \in links : r.obj = Unmarshal(d)
      BY <2>1, ReadOutcome
    <3>2. r.obj.name = d.name /\ DOMAIN r.obj = DOMAIN EmptyLink
      BY <3>1 DEF Unmarshal, EmptyLink
    <3>3. d.name # NoName
      BY KernelAssumption DEF TypeInv, TypeOK, KernelTypeOK, Link
    <3> QED
      BY <3>2, <3>3 DEF Read
  <2>2. CASE r.err # "ok"
    BY <2>2, ReadOutcome DEF Read
  <2> QED
    BY <2>1, <2>2
<1>10. CASE ReadBack(c)
  <2>1. PICK r \in Read(obj[c], ReadNs(c)) : obj' = [obj EXCEPT ![c] = r.obj]
    BY <1>10 DEF ReadBack, Refresh
  <2>2. /\ pc[c] # "idle" /\ pc' = [pc EXCEPT ![c] = "idle"]
        /\ call' = [call EXCEPT ![c] = NoCall]
    BY <1>10 DEF ReadBack, Return
  <2>3. r.obj.name # NoName
    BY <1>9, <2>2 DEF NamedObjects
  <2> QED
    BY <1>1, <2>1, <2>2, <2>3
<1>11. CASE LeadingRead(c)
  <2>1. PICK r \in Read(obj[c], call[c].ns) :
          \/ /\ r.err = "ok" /\ Sends(call[c].op, r.obj)
             /\ obj' = [obj EXCEPT
                          ![c] = [r EXCEPT !.obj = Edited(call[c].op, call[c].arg,
                                                          @)].obj]
             /\ pc' = [pc EXCEPT ![c] = "update"] /\ call' = call
          \/ /\ ~(r.err = "ok" /\ Sends(call[c].op, r.obj))
             /\ obj' = [obj EXCEPT ![c] = r.obj]
             /\ pc' = [pc EXCEPT ![c] = "idle"]
             /\ call' = [call EXCEPT ![c] = NoCall]
    BY <1>11 DEF LeadingRead, Refresh, Return
  <2>2. pc[c] # "idle"
    BY <1>11 DEF LeadingRead
  <2>3. r.obj.name # NoName
    BY <1>9, <2>2 DEF NamedObjects
  <2>4. CASE r.err = "ok" /\ Sends(call[c].op, r.obj)
    <3> DEFINE o == Edited(call[c].op, call[c].arg, r.obj)
    <3>1. call[c].op \in {"Up", "Down", "SetMtu", "SetMaster"}
      BY <2>4 DEF Sends
    <3>2. DOMAIN r.obj = DOMAIN EmptyLink /\ DOMAIN r = {"err", "obj"}
      BY <1>9, <2>4
    <3>3. o.name = r.obj.name
      BY <3>1, <3>2 DEF Edited, EmptyLink
    <3>4. [r EXCEPT !.obj = Edited(call[c].op, call[c].arg, @)].obj = o
      BY <3>2
    <3> HIDE DEF o
    <3>5. obj' = [obj EXCEPT ![c] = o] /\ pc' = [pc EXCEPT ![c] = "update"]
          /\ call' = call
      BY <2>1, <2>4, <3>4
    <3> QED
      BY <1>1, <2>3, <3>3, <3>5
  <2>5. CASE ~(r.err = "ok" /\ Sends(call[c].op, r.obj))
    BY <1>1, <2>1, <2>3, <2>5
  <2> QED
    BY <2>4, <2>5
<1> QED
  BY <1>3, <1>4, <1>5, <1>6, <1>7, <1>8, <1>10, <1>11 DEF Continue

LEMMA NamedStep ==
  ASSUME TypeInv, "GetLinkByIndex" \notin Ops, NamedObjects, [Next]_vars
  PROVE  NamedObjects'
<1>1. CASE UNCHANGED vars
  BY <1>1 DEF vars, NamedObjects
<1>2. CASE Next
  BY <1>2, ClientStep DEF Next, NamedObjects
<1> QED
  BY <1>1, <1>2

-----------------------------------------------------------------------------
(* The mapping.                                                            *)

PhaseBar == [c \in Clients |-> PhaseOf(c)]

Unserved(p) == p.what \in {"insert", "remove"}

LEMMA PhaseType ==
  TypeInv /\ NamedCalls =>
    \A c \in Clients : /\ PhaseOf(c) \in Directory!Phase
                       /\ ~Unserved(PhaseOf(c)) => PhaseOf(c).entries = {}
<1> SUFFICES ASSUME TypeInv, NamedCalls, NEW c \in Clients
             PROVE  /\ PhaseOf(c) \in Directory!Phase
                    /\ ~Unserved(PhaseOf(c)) => PhaseOf(c).entries = {}
  OBVIOUS
<1>1. CASE pc[c] = "idle"
  BY <1>1 DEF PhaseOf, Directory!Phase
<1>2. CASE pc[c] # "idle" /\ pc[c] # "modify"
  BY <1>2 DEF PhaseOf, Directory!Phase, Unserved
<1>3. CASE pc[c] = "modify"
  <2>1. /\ call[c].ns \in Namespaces /\ obj[c].name \in Names
        /\ obj[c].ns \in Namespaces \cup {NoNs}
        /\ obj[c].peer \in Names \cup {NoName}
    BY <1>3 DEF TypeInv, CallOK, TypeOK, Object, NamedCalls
  <2>2. Inserts(c) \in SUBSET Directory!Entries
    BY <2>1 DEF Inserts, Destination, Directory!Entries
  <2>3. {<<call[c].ns, obj[c].name>>} \in SUBSET Directory!Entries
    BY <2>1 DEF Directory!Entries
  <2> HIDE DEF Inserts
  <2> QED
    BY <1>3, <2>2, <2>3 DEF PhaseOf, Directory!Phase, Unserved
<1> QED
  BY <1>1, <1>2, <1>3

LEMMA PhaseTypeNext ==
  (TypeInv /\ NamedCalls =>
    \A c \in Clients : /\ PhaseOf(c) \in Directory!Phase
                       /\ ~Unserved(PhaseOf(c)) => PhaseOf(c).entries = {})'
BY PhaseType, PTL

(* Only the phase of the client that steps changes.                        *)
LEMMA PhaseStep ==
  ASSUME NEW c \in Clients,
         \A b \in Clients \ {c} :
           obj'[b] = obj[b] /\ call'[b] = call[b] /\ pc'[b] = pc[b]
  PROVE  PhaseBar' = [PhaseBar EXCEPT ![c] = PhaseOf(c)']
<1>1. ASSUME NEW b \in Clients \ {c} PROVE PhaseOf(b)' = PhaseOf(b)
  <2>1. obj'[b] = obj[b] /\ call'[b] = call[b] /\ pc'[b] = pc[b]
    OBVIOUS
  <2> QED
    BY <2>1 DEF PhaseOf, Inserts, Destination
<1> QED
  BY <1>1 DEF PhaseBar

(* The steps of the directory.                                             *)
LEMMA BeginStep ==
  ASSUME NEW c \in Clients, PhaseOf(c) = Directory!Idle, Dir' = Dir,
         PhaseOf(c)' \in Directory!Phase,
         ~Unserved(PhaseOf(c)') => PhaseOf(c)'.entries = {},
         PhaseBar' = [PhaseBar EXCEPT ![c] = PhaseOf(c)']
  PROVE  Directory!DirNext
BY DEF Directory!DirNext, Directory!Begin, Dir, Entry, PhaseBar, Unserved

LEMMA EndStep ==
  ASSUME NEW c \in Clients, PhaseOf(c) # Directory!Idle, Dir' = Dir,
         PhaseOf(c)' \in {Directory!Idle, Directory!Served},
         PhaseBar' = [PhaseBar EXCEPT ![c] = PhaseOf(c)']
  PROVE  Directory!DirNext
BY DEF Directory!DirNext, Directory!End, Directory!Ends, Dir, Entry, PhaseBar

LEMMA InsertStep ==
  ASSUME NEW c \in Clients, PhaseOf(c).what = "insert",
         PhaseOf(c).entries \cap Dir = {}, Dir' = Dir \cup PhaseOf(c).entries,
         PhaseOf(c)' \in {Directory!Idle, Directory!Served},
         PhaseBar' = [PhaseBar EXCEPT ![c] = PhaseOf(c)']
  PROVE  Directory!DirNext
BY DEF Directory!DirNext, Directory!Insert, Directory!Ends, Dir, Entry, PhaseBar

LEMMA RemoveStep ==
  ASSUME NEW c \in Clients, PhaseOf(c).what = "remove",
         PhaseOf(c).entries \subseteq Dir,
         NEW peer \in {{}} \cup {{e} : e \in Dir}, Dir' = Dir \ (PhaseOf(c).entries \cup peer),
         PhaseOf(c)' \in {Directory!Idle, Directory!Served},
         PhaseBar' = [PhaseBar EXCEPT ![c] = PhaseOf(c)']
  PROVE  Directory!DirNext
<1>1. Directory!Ends(c)
  BY DEF Directory!Ends, PhaseBar
<1>2. Directory!Remove(c)
  BY <1>1 DEF Directory!Remove, Dir, Entry, PhaseBar
<1> QED
  BY <1>2 DEF Directory!DirNext

LEMMA Stutter ==
  ASSUME Dir' = Dir, PhaseBar' = PhaseBar
  PROVE  UNCHANGED Directory!dirVars
BY DEF Directory!dirVars, Dir, Entry, PhaseBar

-----------------------------------------------------------------------------
(* The messages of a client, in the terms of the directory.                *)

LEMMA SendNames ==
  ASSUME AgreeInv, KernelNames, NEW c \in Clients,
         pc[c] \in {"modify", "update"}, Type(c) = "SETLINK",
         NEW e, NetlinkUpdate("SETLINK", call[c].ns, Message(c), e)
  PROVE  KernelNames' /\ Dir' = Dir
<1>1. call[c].ns \in Namespaces /\ Message(c) \in Request
  BY MessageNames DEF AgreeInv, TypeInv, CallOK
<1>2. Sound(c, call[c].ns, Message(c)) /\ Message(c).ns = NoNs
  BY MessageSound
<1>3. CASE UNCHANGED kernel
  <2>1. links' = links /\ last' = last
    BY <1>3 DEF kernel
  <2> QED
    BY <2>1 DEF KernelNames, NameUnique, PairHandedOut, PairsAreTwo, Dir
<1>4. CASE ~UNCHANGED kernel
  <2>1. PICK k : RtmSetLink(call[c].ns, Message(c), k)
    BY <1>4 DEF NetlinkUpdate
  <2> QED
    BY <1>1, <1>2, <2>1, SetLinkNames
<1> QED
  BY <1>3, <1>4

LEMMA InsertNames ==
  ASSUME AgreeInv, KernelNames, NEW c \in Clients, pc[c] = "modify",
         call[c].op \in {"Add", "Present"},
         NEW e, NetlinkUpdate("NEWLINK", call[c].ns, Marshal(obj[c]), e)
  PROVE  /\ KernelNames'
         /\ \/ Dir' = Dir
            \/ Inserts(c) \cap Dir = {} /\ Dir' = Dir \cup Inserts(c)
<1> DEFINE q == Marshal(obj[c])
           n == call[c].ns
<1>1. n \in Namespaces /\ q \in Request /\ KernelTypeOK /\ obj[c] \in Object
  BY MessageNames DEF AgreeInv, TypeInv, TypeOK, CallOK, Message
<1>2. CASE UNCHANGED kernel
  <2>1. links' = links /\ last' = last
    BY <1>2 DEF kernel
  <2> QED
    BY <2>1 DEF KernelNames, NameUnique, PairHandedOut, PairsAreTwo, Dir
<1>3. CASE ~UNCHANGED kernel
  <2>1. PICK k : RtmNewLink(n, q, k)
    BY <1>3 DEF NetlinkUpdate
  <2>2. q.kind \in Creatable => /\ q.kind = obj[c].kind /\ q.name = obj[c].name
                                /\ q.ns = obj[c].ns /\ q.peer = obj[c].peer
    <3>1. CASE obj[c].change = {}
      BY <1>1, <3>1 DEF Marshal, Object, Creatable
    <3>2. CASE obj[c].change # {}
      BY <3>2 DEF Marshal, EmptyLink, Creatable
    <3> QED
      BY <3>1, <3>2
  <2> HIDE DEF q, n
  <2>3. /\ KernelNames'
        /\ \/ links' = links
           \/ LET m == Destination(n, q)
                  s == {<<m, q.name>>}
                       \cup IF q.kind = "veth" /\ q.peer # NoName
                            THEN {<<n, q.peer>>} ELSE {}
              IN q.kind \in Creatable /\ s \cap Dir = {} /\ Dir' = Dir \cup s
    BY <1>1, <2>1, NewLinkNames
  <2> QED
    BY <2>2, <2>3 DEF Dir, Inserts, Destination, n
<1> QED
  BY <1>2, <1>3

LEMMA RemoveNames ==
  ASSUME AgreeInv, KernelNames, NamedCalls, NEW c \in Clients, pc[c] = "modify",
         call[c].op \in {"Del", "Absent"},
         NEW e, NetlinkUpdate("DELLINK", call[c].ns, Marshal(obj[c]), e)
  PROVE  LET s == {<<call[c].ns, obj[c].name>>} IN
         /\ KernelNames'
         /\ \/ Dir' = Dir
            \/ /\ s \subseteq Dir
               /\ \E peer \in {{}} \cup {{y} : y \in Dir} : Dir' = Dir \ (s \cup peer)
<1> DEFINE q == Marshal(obj[c])
           n == call[c].ns
<1>1. n \in Namespaces /\ q \in Request /\ KernelTypeOK /\ q = Message(c)
  BY MessageNames DEF AgreeInv, TypeInv, TypeOK, CallOK, Message
<1>2. CASE UNCHANGED kernel
  <2>1. links' = links /\ last' = last
    BY <1>2 DEF kernel
  <2> QED
    BY <2>1 DEF KernelNames, NameUnique, PairHandedOut, PairsAreTwo, Dir
<1>3. CASE ~UNCHANGED kernel
  <2>1. PICK k : RtmDelLink(n, q, k)
    BY <1>3 DEF NetlinkUpdate
  <2>2. \A d \in Lookup(n, q) : Entry(d) = <<n, obj[c].name>> /\ Entry(d) \in Dir
    <3> SUFFICES ASSUME NEW d \in Lookup(n, q)
                 PROVE  Entry(d) = <<n, obj[c].name>> /\ Entry(d) \in Dir
      OBVIOUS
    <3>1. Means(c, d)
      BY <1>1, SelectsMeant
    <3>2. obj[c].name # NoName
      BY DEF NamedCalls
    <3> QED
      BY <3>1, <3>2 DEF Means, Entry, Dir, Lookup
  <2> HIDE DEF q
  <2>3. /\ KernelNames'
        /\ \/ links' = links
           \/ \E d \in Lookup(n, q) : \E peer \in {{}} \cup {{y} : y \in Dir} :
                Dir' = Dir \ ({Entry(d)} \cup peer)
    BY <1>1, <2>1, DelLinkNames
  <2>4. CASE links' = links
    BY <2>3, <2>4 DEF Dir
  <2>5. CASE links' # links
    <3>1. PICK d \in Lookup(n, q) : \E peer \in {{}} \cup {{y} : y \in Dir} :
            Dir' = Dir \ ({Entry(d)} \cup peer)
      BY <2>3, <2>5
    <3>2. Entry(d) = <<n, obj[c].name>> /\ Entry(d) \in Dir
      BY <2>2
    <3> QED
      BY <2>3, <3>1, <3>2
  <2> QED
    BY <2>4, <2>5
<1> QED
  BY <1>2, <1>3

-----------------------------------------------------------------------------
LEMMA RefineContinue ==
  ASSUME AgreeInv, KernelNames, NamedCalls, NEW c \in Clients, Continue(c),
         PhaseBar' = [PhaseBar EXCEPT ![c] = PhaseOf(c)']
  PROVE  KernelNames' /\ [Directory!DirNext]_Directory!dirVars
<1>1. pc \in [Clients -> {"idle", "modify", "readback", "read", "update"}]
  BY DEF AgreeInv, TypeInv, TypeOK
<1>2. /\ pc'[c] = "idle" => PhaseOf(c)' = Directory!Idle
      /\ pc'[c] \in {"readback", "read", "update"} => PhaseOf(c)' = Directory!Served
  BY DEF PhaseOf, Directory!Idle, Directory!Served
<1>3. CASE SendNewLink(c)
  <2>1. /\ pc[c] = "modify" /\ call[c].op \in {"Add", "Present"}
        /\ \E e : NetlinkUpdate("NEWLINK", call[c].ns, Marshal(obj[c]), e)
        /\ pc' = [pc EXCEPT ![c] = "idle"] \/ pc' = [pc EXCEPT ![c] = "readback"]
    BY <1>3 DEF SendNewLink, Return, AfterNewLink
  <2>2. PhaseOf(c) = [what |-> "insert", entries |-> Inserts(c)]
    BY <2>1 DEF PhaseOf
  <2>3. PhaseOf(c)' \in {Directory!Idle, Directory!Served}
    BY <1>1, <1>2, <2>1
  <2>4. /\ KernelNames'
        /\ \/ Dir' = Dir
           \/ Inserts(c) \cap Dir = {} /\ Dir' = Dir \cup Inserts(c)
    BY <2>1, InsertNames
  <2>5. PhaseOf(c) # Directory!Idle
    BY <2>2 DEF Directory!Idle
  <2>6. CASE Dir' = Dir
    BY <2>3, <2>4, <2>5, <2>6, EndStep
  <2>7. CASE Dir' # Dir
    <3>1. /\ PhaseOf(c).what = "insert" /\ PhaseOf(c).entries \cap Dir = {}
          /\ Dir' = Dir \cup PhaseOf(c).entries
      BY <2>2, <2>4, <2>7
    <3> QED
      BY <2>3, <2>4, <3>1, InsertStep
  <2> QED
    BY <2>6, <2>7
<1>4. CASE SendDelLink(c)
  <2>1. /\ pc[c] = "modify" /\ call[c].op \in {"Del", "Absent"}
        /\ \E e : NetlinkUpdate("DELLINK", call[c].ns, Marshal(obj[c]), e)
        /\ pc' = [pc EXCEPT ![c] = "idle"]
    BY <1>4 DEF SendDelLink, Return
  <2> DEFINE s == {<<call[c].ns, obj[c].name>>}
  <2>2. PhaseOf(c) = [what |-> "remove", entries |-> s]
    BY <2>1 DEF PhaseOf
  <2>3. PhaseOf(c)' = Directory!Idle
    BY <1>1, <1>2, <2>1
  <2>4. /\ KernelNames'
        /\ \/ Dir' = Dir
           \/ /\ s \subseteq Dir
              /\ \E peer \in {{}} \cup {{y} : y \in Dir} : Dir' = Dir \ (s \cup peer)
    BY <2>1, RemoveNames
  <2>5. PhaseOf(c) # Directory!Idle
    BY <2>2 DEF Directory!Idle
  <2> HIDE DEF s
  <2>6. CASE Dir' = Dir
    BY <2>3, <2>4, <2>5, <2>6, EndStep
  <2>7. CASE Dir' # Dir
    <3>1. PICK peer \in {{}} \cup {{y} : y \in Dir} : Dir' = Dir \ (s \cup peer)
      BY <2>4, <2>7
    <3>2. PhaseOf(c).what = "remove" /\ PhaseOf(c).entries = s /\ s \subseteq Dir
      BY <2>2, <2>4, <2>7
    <3> QED
      BY <2>3, <2>4, <3>1, <3>2, RemoveStep
  <2> QED
    BY <2>6, <2>7
<1>5. CASE SendSetLink(c) \/ SendUpdate(c)
  <2>1. /\ pc[c] \in {"modify", "update"} /\ Type(c) = "SETLINK"
        /\ \E e : NetlinkUpdate("SETLINK", call[c].ns, Message(c), e)
        /\ pc' = [pc EXCEPT ![c] = "idle"]
    BY <1>5 DEF SendSetLink, SendUpdate, Return, Type, Message
  <2>2. PhaseOf(c) = Directory!Served
    BY <1>5 DEF SendSetLink, SendUpdate, PhaseOf, Directory!Served
  <2>3. KernelNames' /\ Dir' = Dir
    BY <2>1, SendNames
  <2>4. PhaseOf(c) # Directory!Idle
    BY <2>2 DEF Directory!Served, Directory!Idle
  <2>5. PhaseOf(c)' = Directory!Idle
    BY <1>1, <1>2, <2>1
  <2> QED
    BY <2>3, <2>4, <2>5, EndStep
<1>6. CASE ReadBack(c) \/ LeadingRead(c)
  <2>1. links' = links /\ last' = last
    BY <1>6 DEF ReadBack, LeadingRead, kernel
  <2>2. KernelNames' /\ Dir' = Dir
    BY <2>1 DEF KernelNames, NameUnique, PairHandedOut, PairsAreTwo, Dir
  <2>3. PhaseOf(c) = Directory!Served
    BY <1>6 DEF ReadBack, LeadingRead, PhaseOf, Directory!Served
  <2>4. pc' = [pc EXCEPT ![c] = "idle"] \/ pc' = [pc EXCEPT ![c] = "update"]
    BY <1>6 DEF ReadBack, LeadingRead, Return
  <2>5. PhaseOf(c)' \in {Directory!Idle, Directory!Served}
    BY <1>1, <1>2, <2>4
  <2>6. PhaseOf(c) # Directory!Idle
    BY <2>3 DEF Directory!Served, Directory!Idle
  <2> QED
    BY <2>2, <2>5, <2>6, EndStep
<1> QED
  BY <1>3, <1>4, <1>5, <1>6 DEF Continue

LEMMA RefineStep ==
  ASSUME AgreeInv, AgreeInv', KernelNames, NamedCalls, NamedCalls', [Next]_vars
  PROVE  KernelNames' /\ [Directory!DirNext]_Directory!dirVars
<1>1. CASE UNCHANGED vars
  <2>1. links' = links /\ last' = last /\ obj' = obj /\ pc' = pc /\ call' = call
    BY <1>1 DEF vars
  <2>2. KernelNames' /\ Dir' = Dir
    BY <2>1 DEF KernelNames, NameUnique, PairHandedOut, PairsAreTwo, Dir
  <2>3. PhaseBar' = PhaseBar
    BY <2>1 DEF PhaseBar, PhaseOf, Inserts, Destination
  <2> QED
    BY <2>2, <2>3, Stutter
<1>2. CASE Next
  <2>1. PICK c \in Clients :
          \/ Construct(c) \/ AssignMtu(c) \/ CallModify(c) \/ CallPromisc(c)
          \/ CallUpdate(c) \/ CallGet(c) \/ Continue(c)
    BY <1>2 DEF Next
  <2>2. TypeInv /\ TypeInv'
    BY DEF AgreeInv
  <2>3. PhaseBar' = [PhaseBar EXCEPT ![c] = PhaseOf(c)']
    BY <2>1, <2>2, ClientAlone, PhaseStep
  <2>4. CASE Continue(c)
    BY <2>3, <2>4, RefineContinue
  <2>5. CASE ~Continue(c)
    <3>1. links' = links /\ last' = last /\ pc[c] = "idle"
      BY <2>1, <2>5
      DEF Construct, AssignMtu, CallModify, CallPromisc, CallUpdate, CallGet, Invoke
    <3>2. KernelNames' /\ Dir' = Dir
      BY <3>1 DEF KernelNames, NameUnique, PairHandedOut, PairsAreTwo, Dir
    <3>3. PhaseOf(c) = Directory!Idle
      BY <3>1 DEF PhaseOf, Directory!Idle
    <3>4. /\ PhaseOf(c)' \in Directory!Phase
          /\ ~Unserved(PhaseOf(c)') => PhaseOf(c)'.entries = {}
      BY <2>2, PhaseTypeNext DEF Unserved, Directory!Phase, Directory!Entries
    <3> QED
      BY <2>3, <3>2, <3>3, <3>4, BeginStep
  <2> QED
    BY <2>4, <2>5
<1> QED
  BY <1>1, <1>2

LEMMA DirectoryInit ==
  Init => Directory!DirInit /\ KernelNames /\ NamedCalls /\ NamedObjects
<1>1. Init => Directory!DirInit
  BY DEF Init, KernelInit, Directory!DirInit, Directory!Idle, PhaseOf
<1>2. Init => KernelNames /\ NamedCalls /\ NamedObjects
  BY DEF Init, KernelInit, KernelNames, NameUnique, PairHandedOut, PairsAreTwo,
         NamedCalls, NamedObjects, EmptyLink
<1> QED
  BY <1>1, <1>2

(* Clients that use a link where they read it, give Set no namespace and   *)
(* name what they add and delete: the methods implement the directory.  A  *)
(* call inserts or removes its own entries at most once, in one step, and  *)
(* replaces nothing.                                                       *)
THEOREM OrderlyImplementsDirectory ==
  Spec /\ [][\A c \in Clients : Orderly(c) /\ Named(c)]_vars => ImplementsDirectory
<1>1. ASSUME [\A c \in Clients : Orderly(c) /\ Named(c)]_vars
      PROVE  \A c \in Clients : Orderly(c) /\ Named(c)
  BY <1>1 DEF vars, Orderly, Named
<1>2. AgreeInv /\ [Next]_vars /\ [\A c \in Clients : Orderly(c) /\ Named(c)]_vars
      => AgreeInv'
  BY <1>1, OrderlyStep
<1>3. /\ AgreeInv /\ NamedCalls /\ [Next]_vars
      /\ [\A c \in Clients : Orderly(c) /\ Named(c)]_vars
      => NamedCalls'
  BY <1>1, NamedCallsStep DEF AgreeInv
<1>4. AgreeInv /\ AgreeInv' /\ KernelNames /\ NamedCalls /\ NamedCalls' /\ [Next]_vars
      => KernelNames' /\ [Directory!DirNext]_Directory!dirVars
  BY RefineStep
<1> QED
  BY <1>2, <1>3, <1>4, DirectoryInit, AgreeInit, PTL
  DEF Spec, ImplementsDirectory, Directory!DirSpec

(* Only CallModify and CallPromisc make a call that begins with a message. *)
LEMMA DisciplineNamed ==
  ASSUME TypeInv, "GetLinkByIndex" \notin Ops, NamedObjects, [Next]_vars,
         NEW c \in Clients
  PROVE  Named(c)
BY NamedStep DEF Named, NamedObjects

(* The deployments of Homed clients that move no links and do not look     *)
(* links up by their index are such.                                       *)
THEOREM LinksImplementDirectory == NamedDiscipline /\ Spec => ImplementsDirectory
<1> SUFFICES ASSUME NamedDiscipline PROVE Spec => ImplementsDirectory
  OBVIOUS
<1>1. AgreeInv /\ [Next]_vars => AgreeInv'
  BY AgreeStep DEF NamedDiscipline
<1>2. AgreeInv /\ NamedObjects /\ [Next]_vars => NamedObjects'
  BY NamedStep DEF NamedDiscipline, AgreeInv
<1>3. AgreeInv /\ NamedObjects /\ NamedCalls /\ [Next]_vars => NamedCalls'
  BY DisciplineNamed, NamedCallsStep DEF NamedDiscipline, AgreeInv
<1>4. AgreeInv /\ AgreeInv' /\ KernelNames /\ NamedCalls /\ NamedCalls' /\ [Next]_vars
      => KernelNames' /\ [Directory!DirNext]_Directory!dirVars
  BY RefineStep
<1> QED
  BY <1>1, <1>2, <1>3, <1>4, DirectoryInit, AgreeInit, PTL
  DEF Spec, ImplementsDirectory, Directory!DirSpec
=============================================================================
