---------------------------- MODULE RtnlLinkEffects ----------------------------
(***************************************************************************)
(* Proofs about what the messages of RtnlLink do to the links, for any     *)
(* number of clients, names, namespaces and indices.                       *)
(***************************************************************************)
EXTENDS RtnlLinkProofs

(* The message client c sends next, and its type.                          *)
Message(c) == IF pc[c] = "update"
              THEN UpdateMessage(call[c].op, call[c].arg, obj[c])
              ELSE Marshal(obj[c])

Type(c) == IF pc[c] = "update" \/ call[c].op \in {"Set", "Promisc"} THEN "SETLINK"
           ELSE IF call[c].op \in {"Add", "Present"} THEN "NEWLINK"
           ELSE "DELLINK"

(* Only an exchange of a client that goes on to its next one, or returns,  *)
(* changes links.                                                          *)
LEMMA ExchangeChanges ==
  ASSUME TypeInv, [Next]_vars, NEW c \in Clients, Steps(c)
  PROVE  \/ UNCHANGED kernel
         \/ /\ Continue(c) /\ UNCHANGED <<obj, home>>
            /\ \/ pc[c] = "update"
               \/ /\ pc[c] = "modify"
                  /\ call[c].op \in {"Add", "Present", "Set", "Promisc", "Del",
                                    "Absent"}
            /\ \E e \in Results :
                 /\ NetlinkUpdate(Type(c), call[c].ns, Message(c), e)
                 /\ ret'[c] \in {ret[c], e, DelResult(call[c].op, e)}
                 /\ Type(c) = "SETLINK" => ret'[c] = e
<1>1. PICK b \in Clients :
        \/ UNCHANGED kernel
        \/ Continue(b)
  BY ZenonT(60)
  DEF Next, vars, Steps, kernel, Construct, AssignMtu, CallModify, CallPromisc,
      CallUpdate, CallGet, Invoke
<1>2. CASE UNCHANGED kernel
  BY <1>2
<1>3. CASE Continue(b) /\ ~UNCHANGED kernel
  <2>1. SendNewLink(b) \/ SendSetLink(b) \/ SendDelLink(b) \/ SendUpdate(b)
    BY <1>3 DEF Continue, ReadBack, LeadingRead
  <2>2. \A x \in Clients : x # b => pc'[x] = pc[x]
    BY <2>1 DEF SendNewLink, SendSetLink, SendDelLink, SendUpdate, Return, TypeInv,
                TypeOK
  <2>3. b = c
    BY <2>2 DEF Steps
  <2>4. ret \in [Clients -> Results]
    BY DEF TypeInv, TypeOK
  <2>5. CASE SendNewLink(c)
    <3>1. PICK e \in Results :
            /\ NetlinkUpdate("NEWLINK", call[c].ns, Marshal(obj[c]), e)
            /\ Return(c, e) \/ ret' = ret
      BY <2>5 DEF SendNewLink
    <3>2. ret'[c] \in {ret[c], e}
      BY <2>4, <3>1 DEF Return
    <3>3. Type(c) = "NEWLINK" /\ Message(c) = Marshal(obj[c])
      BY <2>5 DEF SendNewLink, Type, Message
    <3>4. /\ UNCHANGED <<obj, home>> /\ pc[c] = "modify"
          /\ call[c].op \in {"Add", "Present"}
      BY <2>5 DEF SendNewLink
    <3> QED
      BY <1>3, <2>3, <3>1, <3>2, <3>3, <3>4
  <2>6. CASE SendSetLink(c)
    <3>1. PICK e \in Results :
            /\ NetlinkUpdate("SETLINK", call[c].ns, Marshal(obj[c]), e)
            /\ Return(c, e)
      BY <2>6 DEF SendSetLink
    <3>2. ret'[c] = e
      BY <2>4, <3>1 DEF Return
    <3>3. Type(c) = "SETLINK" /\ Message(c) = Marshal(obj[c])
      BY <2>6 DEF SendSetLink, Type, Message
    <3>4. /\ UNCHANGED <<obj, home>> /\ pc[c] = "modify"
          /\ call[c].op \in {"Set", "Promisc"}
      BY <2>6 DEF SendSetLink
    <3> QED
      BY <1>3, <2>3, <3>1, <3>2, <3>3, <3>4
  <2>7. CASE SendDelLink(c)
    <3>1. PICK e \in Results :
            /\ NetlinkUpdate("DELLINK", call[c].ns, Marshal(obj[c]), e)
            /\ Return(c, DelResult(call[c].op, e))
      BY <2>7 DEF SendDelLink
    <3>2. ret'[c] = DelResult(call[c].op, e)
      BY <2>4, <3>1 DEF Return
    <3>3. Type(c) = "DELLINK" /\ Message(c) = Marshal(obj[c])
      BY <2>7 DEF SendDelLink, Type, Message
    <3>4. /\ UNCHANGED <<obj, home>> /\ pc[c] = "modify"
          /\ call[c].op \in {"Del", "Absent"}
      BY <2>7 DEF SendDelLink
    <3> QED
      BY <1>3, <2>3, <3>1, <3>2, <3>3, <3>4
  <2>8. CASE SendUpdate(c)
    <3>1. PICK e \in Results :
            /\ NetlinkUpdate("SETLINK", call[c].ns,
                             UpdateMessage(call[c].op, call[c].arg, obj[c]), e)
            /\ Return(c, e)
      BY <2>8 DEF SendUpdate
    <3>2. ret'[c] = e
      BY <2>4, <3>1 DEF Return
    <3>3. /\ Type(c) = "SETLINK"
          /\ Message(c) = UpdateMessage(call[c].op, call[c].arg, obj[c])
      BY <2>8 DEF SendUpdate, Type, Message
    <3>4. UNCHANGED <<obj, home>> /\ pc[c] = "update"
      BY <2>8 DEF SendUpdate
    <3> QED
      BY <1>3, <2>3, <3>1, <3>2, <3>3, <3>4
  <2> QED
    BY <2>1, <2>3, <2>5, <2>6, <2>7, <2>8
<1> QED
  BY <1>1, <1>2, <1>3

(* Messages name the object's link by the index the object holds, by the   *)
(* name it holds, or by neither.                                           *)
LEMMA MessageNames ==
  ASSUME TypeInv, NEW c \in Clients, pc[c] \in {"modify", "update"}
  PROVE  /\ Message(c) \in Request
         /\ Message(c).idx = obj[c].idx
         /\ Message(c).name \in {NoName, obj[c].name}
<1>1. /\ KernelTypeOK /\ obj[c] \in Object
      /\ obj[c].kind \in Creatable => obj[c].name \in Names
  BY Unchanged
<1>2. /\ Marshal(obj[c]) \in Request /\ Marshal(obj[c]).idx = obj[c].idx
      /\ Marshal(obj[c]).name \in {NoName, obj[c].name}
  BY <1>1, MarshalType DEF Marshal, EmptyLink, Object
<1>3. CASE pc[c] = "modify"
  BY <1>2, <1>3 DEF Message
<1>4. CASE pc[c] = "update"
  <2>1. /\ call[c].op \in {"Up", "Down", "SetMtu", "SetMaster"}
        /\ call[c].op = "SetMtu" => call[c].arg \in Mtus
        /\ call[c].op = "SetMaster" => call[c].arg \in Indices
    BY <1>4 DEF TypeInv, CallOK
  <2>2. UpdateMessage(call[c].op, call[c].arg, obj[c]) \in Request
    BY <1>1, <2>1, UpdateMessageType
  <2>3. /\ IfInfomsg(obj[c]).idx = obj[c].idx /\ IfInfomsg(obj[c]).name = NoName
    BY DEF IfInfomsg, EmptyLink
  <2>4. /\ UpdateMessage(call[c].op, call[c].arg, obj[c]).idx = obj[c].idx
        /\ UpdateMessage(call[c].op, call[c].arg, obj[c]).name
             \in {NoName, obj[c].name}
    BY <1>2, <2>1, <2>3 DEF UpdateMessage, IfInfomsg, EmptyLink
  <2> QED
    BY <1>4, <2>2, <2>4 DEF Message
<1> QED
  BY <1>3, <1>4

-----------------------------------------------------------------------------
(* What a message may do to the links: the link it selects changes or      *)
(* goes, with its veth peer, and others lose their master.                 *)
Confined(n, q) ==
  \A d \in links :
    \/ d \in links' \/ [d EXCEPT !.master = 0] \in links'
    \/ /\ d \in Lookup(n, q)
       /\ \A h \in links' : h.ns = d.ns /\ h.idx = d.idx => h.name = d.name
    \/ \E p \in Lookup(n, q) : p.pair # {} /\ p.pair = d.pair

LEMMA UpdateConfined ==
  ASSUME AgreeInv, NEW c \in Clients, NEW n \in Namespaces, NEW q \in Request,
         Sound(c, n, q), NEW type \in {"NEWLINK", "SETLINK", "DELLINK"},
         type = "SETLINK" => q.ns = NoNs,
         NEW e, NetlinkUpdate(type, n, q, e)
  PROVE  Confined(n, q)
<1>1. links \subseteq Link /\ IndexUnique
  BY DEF AgreeInv, DataInv, TypeInv, TypeOK, KernelTypeOK
<1>2. CASE links' = links
  BY <1>2 DEF Confined
<1>3. ASSUME NEW k, type = "NEWLINK", RtmNewLink(n, q, k)
      PROVE  Confined(n, q)
  <2>1. links \subseteq links'
    BY <1>3 DEF RtmNewLink, kernel, Create, CreateVeth
  <2> QED
    BY <2>1 DEF Confined
<1>4. ASSUME NEW d \in Lookup(n, q), NEW g \in Landed(d, q), q.ns = NoNs,
             NEW h \in {WithMtu(g, q), WithName(WithMtu(g, q), q),
                        WithRest(WithName(WithMtu(g, q), q), q)},
             links' = (links \ {d}) \cup {h}
      PROVE  Confined(n, q)
  <2>1. g = d
    BY <1>4 DEF Landed, LeavesNs
  <2>2. d \in links /\ d.ns = n /\ d \in Link
    BY <1>1 DEF Lookup
  <2>3. q.idx # 0 /\ q.name # NoName => d.name = q.name
    BY <2>2 DEF Lookup, Sound, AgreeInv, DataInv, IndexNameAgree, Holds
  <2>4. ~Renames(WithMtu(d, q), q)
    BY <2>2, <2>3 DEF Renames, WithMtu, Link
  <2>5. h.ns = d.ns /\ h.idx = d.idx /\ h.name = d.name
    BY <2>1, <2>2, <2>4 DEF WithMtu, WithName, WithRest, Link
  <2> HIDE DEF Lookup
  <2> QED
    BY <1>1, <1>4, <2>2, <2>5 DEF Confined, IndexUnique
<1>5. ASSUME NEW d \in Lookup(n, q),
             links' = {Released(x, Gone(d)) : x \in links \ Gone(d)}
      PROVE  Confined(n, q)
  <2> SUFFICES ASSUME NEW x \in links
               PROVE  \/ x \in links' \/ [x EXCEPT !.master = 0] \in links'
                      \/ /\ x = d
                         /\ ~\E h \in links' : h.ns = x.ns /\ h.idx = x.idx
                      \/ d.pair # {} /\ d.pair = x.pair
    BY DEF Confined
  <2>1. CASE x \notin Gone(d)
    BY <1>5, <2>1 DEF Released
  <2>2. CASE x = d
    <3>1. \A y \in links : LET r == Released(y, Gone(d)) IN
                            r.ns = y.ns /\ r.idx = y.idx
      BY <1>1 DEF Released, Link
    <3>2. x \in Gone(d)
      BY <2>2 DEF Gone
    <3> QED
      BY <1>1, <1>5, <2>2, <3>1, <3>2 DEF IndexUnique
  <2>3. CASE x \in Gone(d) /\ x # d
    BY <2>3 DEF Gone
  <2> QED
    BY <2>1, <2>2, <2>3
<1>6. CASE UNCHANGED kernel
  BY <1>2, <1>6 DEF kernel
<1>7. ASSUME NEW k, ~UNCHANGED kernel,
             CASE type = "NEWLINK" -> RtmNewLink(n, q, k)
               [] type = "SETLINK" -> RtmSetLink(n, q, k)
               [] type = "DELLINK" -> RtmDelLink(n, q, k)
      PROVE  Confined(n, q)
  <2>1. CASE type = "NEWLINK"
    BY <1>3, <1>7, <2>1
  <2>2. CASE type = "SETLINK"
    <3>1. RtmSetLink(n, q, k)
      BY <1>7, <2>2
    <3>2. PICK d \in Lookup(n, q) : \E g \in Landed(d, q) :
            \E h \in {WithMtu(g, q), WithName(WithMtu(g, q), q),
                      WithRest(WithName(WithMtu(g, q), q), q)} :
              links' = (links \ {d}) \cup {h}
      BY <1>7, <3>1 DEF RtmSetLink
    <3> QED
      BY <1>4, <2>2, <3>2
  <2>3. CASE type = "DELLINK"
    BY <1>5, <1>7, <2>3 DEF RtmDelLink
  <2> QED
    BY <2>1, <2>2, <2>3
<1> QED
  BY <1>6, <1>7 DEF NetlinkUpdate

(* The link client c means is the one its message selects.                 *)
LEMMA SelectsMeant ==
  ASSUME AgreeInv, NEW c \in Clients, pc[c] \in {"modify", "update"},
         NEW d \in Lookup(call[c].ns, Message(c))
  PROVE  Means(c, d)
<1> DEFINE q == Message(c)
<1>1. q.idx = obj[c].idx /\ q.name \in {NoName, obj[c].name}
  BY MessageNames DEF AgreeInv
<1>2. d \in links /\ d.ns = call[c].ns /\ d.name # NoName
  BY KernelAssumption
  DEF Lookup, AgreeInv, TypeInv, TypeOK, KernelTypeOK, Link
<1>3. Holds(c) => home[c] = call[c].ns
  BY KernelAssumption DEF AgreeInv, DataInv, HeldHandedOut, CallInv
<1> HIDE DEF q
<1>4. CASE q.idx # 0
  <2>1. d.idx = obj[c].idx /\ obj[c].idx # 0
    BY <1>1, <1>4 DEF Lookup, q
  <2>2. obj[c].name # NoName => d.name = obj[c].name
    BY <1>2, <1>3, <2>1 DEF AgreeInv, DataInv, IndexNameAgree, Holds
  <2> QED
    BY <1>2, <2>1, <2>2 DEF Means
<1>5. CASE q.idx = 0
  <2>1. d.name = q.name
    BY <1>5 DEF Lookup, q
  <2> QED
    BY <1>1, <1>2, <2>1 DEF Means
<1> QED
  BY <1>4, <1>5

(* The messages of clients that move no link are sound.                    *)
LEMMA MessageSound ==
  ASSUME AgreeInv, NEW c \in Clients, pc[c] \in {"modify", "update"}
  PROVE  /\ Sound(c, call[c].ns, Message(c))
         /\ Type(c) = "SETLINK" => Message(c).ns = NoNs
<1>1. CASE pc[c] = "update"
  BY <1>1, UpdateMessageSound DEF Message
<1>2. CASE pc[c] = "modify"
  <2>1. Sound(c, call[c].ns, Message(c))
    BY <1>2, MarshalSound DEF Message
  <2>2. call[c].op \in {"Set", "Promisc"} => obj[c].ns = NoNs \/ obj[c].change # {}
    BY <1>2 DEF AgreeInv, CallInv
  <2>3. Type(c) = "SETLINK" => call[c].op \in {"Set", "Promisc"}
    BY <1>2 DEF Type
  <2> QED
    BY <1>2, <2>1, <2>2, <2>3, MarshalSound DEF Message
<1> QED
  BY <1>1, <1>2

LEMMA StepOnlyNamed ==
  ASSUME AgreeInv, [Next]_vars, NEW c \in Clients, Steps(c), NEW d \in links
  PROVE  \/ d \in links' \/ [d EXCEPT !.master = 0] \in links'
         \/ /\ Means(c, d)
            /\ \A h \in links' : h.ns = d.ns /\ h.idx = d.idx => h.name = d.name
         \/ \E p \in links : Means(c, p) /\ p.pair # {} /\ p.pair = d.pair
<1>1. CASE UNCHANGED kernel
  BY <1>1 DEF kernel
<1>2. CASE ~UNCHANGED kernel
  <2>1. TypeInv
    BY DEF AgreeInv
  <2>2. PICK e \in Results : /\ pc[c] \in {"modify", "update"}
                             /\ NetlinkUpdate(Type(c), call[c].ns, Message(c), e)
    BY <1>2, <2>1, ExchangeChanges
  <2>3. call[c].ns \in Namespaces
    BY <2>1, <2>2 DEF TypeInv, CallOK
  <2>4. Message(c) \in Request
    BY <2>1, <2>2, MessageNames
  <2>5. /\ Sound(c, call[c].ns, Message(c))
        /\ Type(c) = "SETLINK" => Message(c).ns = NoNs
    BY <2>2, MessageSound
  <2>6. Type(c) \in {"NEWLINK", "SETLINK", "DELLINK"}
    BY DEF Type
  <2>7. Confined(call[c].ns, Message(c))
    BY <2>2, <2>3, <2>4, <2>5, <2>6, UpdateConfined
  <2>8. \A p \in Lookup(call[c].ns, Message(c)) : p \in links /\ Means(c, p)
    BY <2>2, SelectsMeant DEF Lookup
  <2> QED
    BY <2>7, <2>8 DEF Confined
<1> QED
  BY <1>1, <1>2

(* Clients that use a link where they read it and move none: a call        *)
(* changes or deletes the link its object names and that link's veth peer, *)
(* renames none, and of the others at most clears the master.              *)
THEOREM AlwaysOnlyNamed == AgreeDiscipline /\ Spec => OnlyNamed
<1>1. AgreeInv /\ [Next]_vars =>
        [\A c \in Clients : Steps(c) =>
           \A d \in links :
             \/ d \in links' \/ [d EXCEPT !.master = 0] \in links'
             \/ /\ Means(c, d)
                /\ \A h \in links' : h.ns = d.ns /\ h.idx = d.idx => h.name = d.name
             \/ \E p \in links : Means(c, p) /\ p.pair # {} /\ p.pair = d.pair]_vars
  BY StepOnlyNamed
<1> QED
  <2> SUFFICES ASSUME AgreeDiscipline PROVE Spec => OnlyNamed
    OBVIOUS
  <2>1. AgreeInv /\ [Next]_vars => AgreeInv'
    BY AgreeStep
  <2> QED
    BY <1>1, <2>1, AgreeInit, PTL DEF Spec, OnlyNamed

-----------------------------------------------------------------------------
(* The change mask, in every deployment.                                   *)

(* What is known of the mask and the flag of a message before it goes out. *)
Masked ==
  \A c \in Clients :
    /\ pc[c] = "update" /\ call[c].op \in {"Up", "Down"} =>
         /\ obj[c].change = {"UP"}
         /\ ("UP" \in obj[c].flags) <=> (call[c].op = "Up")
    /\ pc[c] = "update" /\ call[c].op = "SetMaster" => obj[c].change = {"MASTER"}
    /\ pc[c] = "update" /\ call[c].op = "SetMtu" =>
         obj[c].change = {} /\ "BCAST" \in obj[c].flags
    /\ pc[c] = "modify" /\ call[c].op = "Promisc" => obj[c].change # {}

LEMMA MaskStep ==
  ASSUME TypeInv, Masked, [Next]_vars
  PROVE  Masked'
<1>1. CASE UNCHANGED vars
  BY <1>1 DEF vars, Masked
<1>2. ASSUME NEW c \in Clients,
             NEW st, pc' = [pc EXCEPT ![c] = st],
             \A b \in Clients \ {c} : obj'[b] = obj[b] /\ call'[b] = call[b],
             st = "update" /\ call'[c].op \in {"Up", "Down"} =>
               /\ obj'[c].change = {"UP"}
               /\ ("UP" \in obj'[c].flags) <=> (call'[c].op = "Up"),
             st = "update" /\ call'[c].op = "SetMaster" =>
               obj'[c].change = {"MASTER"},
             st = "update" /\ call'[c].op = "SetMtu" =>
               obj'[c].change = {} /\ "BCAST" \in obj'[c].flags,
             st = "modify" /\ call'[c].op = "Promisc" => obj'[c].change # {}
      PROVE  Masked'
  BY <1>2 DEF Masked, TypeInv, TypeOK
<1>3. ASSUME NEW c \in Clients,
             \/ Construct(c) \/ AssignMtu(c) \/ CallModify(c) \/ CallPromisc(c)
             \/ CallUpdate(c) \/ CallGet(c) \/ Continue(c)
      PROVE  Masked'
  <2>1. /\ obj \in [Clients -> Object] /\ call \in [Clients -> Call]
        /\ pc \in [Clients -> {"idle", "modify", "readback", "read", "update"}]
        /\ pc = [pc EXCEPT ![c] = pc[c]]
    BY DEF TypeInv, TypeOK
  <2>2. CASE Construct(c) \/ AssignMtu(c)
    BY <1>2, <2>1, <2>2 DEF Construct, AssignMtu
  <2>3. CASE CallModify(c)
    <3>1. PICK op \in {"Add", "Present", "Set", "Del", "Absent"}, x \in Contexts :
            Invoke(c, op, x, 0, "modify") /\ UNCHANGED obj
      BY <2>3 DEF CallModify
    <3> QED
      BY <1>2, <2>1, <3>1 DEF Invoke
  <2>4. CASE CallPromisc(c)
    <3>1. PICK x \in Contexts, on \in BOOLEAN :
            /\ obj' = [obj EXCEPT ![c].change = @ \cup {"PROMISC"},
                                  ![c].flags = IF on THEN @ \cup {"PROMISC"}
                                               ELSE @ \ {"PROMISC"}]
            /\ Invoke(c, "Promisc", x, 0, "modify")
      BY <2>4 DEF CallPromisc
    <3>2. /\ \A b \in Clients \ {c} : obj'[b] = obj[b]
          /\ obj'[c].change # {}
      BY <2>1, <3>1 DEF Object
    <3> QED
      BY <1>2, <2>1, <3>1, <3>2 DEF Invoke
  <2>5. CASE CallUpdate(c)
    <3>1. UNCHANGED obj
      BY <2>5 DEF CallUpdate
    <3>2. CASE Return(c, "ok")
      BY <1>2, <2>1, <3>1, <3>2 DEF Return
    <3>3. CASE \E op, x, a : Invoke(c, op, x, a, "read")
      BY <1>2, <2>1, <3>1, <3>3 DEF Invoke
    <3> QED
      BY <2>5, <3>2, <3>3 DEF CallUpdate
  <2>6. CASE CallGet(c)
    BY <1>2, <2>1, <2>6 DEF CallGet, Invoke
  <2>7. CASE SendNewLink(c)
    <3>1. /\ \A b \in Clients \ {c} : obj'[b] = obj[b] /\ call'[b] = call[b]
          /\ \E st \in {"idle", "readback"} : pc' = [pc EXCEPT ![c] = st]
      BY <2>1, <2>7 DEF SendNewLink, Return, AfterNewLink
    <3> QED
      BY <1>2, <3>1
  <2>8. CASE SendSetLink(c) \/ SendDelLink(c) \/ SendUpdate(c) \/ ReadBack(c)
    BY <1>2, <2>1, <2>8
    DEF SendSetLink, SendDelLink, SendUpdate, ReadBack, Return, Refresh
  <2>9. CASE LeadingRead(c)
    <3>1. PICK r \in Read(obj[c], call[c].ns) :
            IF r.err = "ok" /\ Sends(call[c].op, r.obj)
            THEN /\ Refresh(c, [r EXCEPT !.obj = Edited(call[c].op, call[c].arg, @)],
                            call[c].ns)
                 /\ pc' = [pc EXCEPT ![c] = "update"]
                 /\ UNCHANGED <<call, ret>>
            ELSE /\ Refresh(c, r, call[c].ns)
                 /\ Return(c, ReadResult(call[c].op, r.err))
      BY <2>9 DEF LeadingRead
    <3>2. CASE ~(r.err = "ok" /\ Sends(call[c].op, r.obj))
      BY <1>2, <2>1, <3>1, <3>2 DEF Refresh, Return
    <3>3. CASE r.err = "ok" /\ Sends(call[c].op, r.obj)
      <4> DEFINE o == Edited(call[c].op, call[c].arg, r.obj)
      <4>1. PICK d \in links : r.obj = Unmarshal(d) /\ d \in Link
        BY <3>3, ReadOutcome DEF TypeInv, TypeOK, KernelTypeOK
      <4>2. /\ r.obj.change = {} /\ DOMAIN r.obj = DOMAIN EmptyLink
            /\ DOMAIN r = {"err", "obj"} /\ "BCAST" \in r.obj.flags
        <5>1. DOMAIN r = {"err", "obj"}
          BY <3>3 DEF Read
        <5> QED
          BY <4>1, <5>1 DEF Unmarshal, EmptyLink
      <4>3. /\ call[c].op \in {"Up", "Down"} =>
                 /\ o.change = {"UP"}
                 /\ ("UP" \in o.flags) <=> (call[c].op = "Up")
            /\ call[c].op = "SetMaster" => o.change = {"MASTER"}
            /\ call[c].op = "SetMtu" => o.change = {} /\ "BCAST" \in o.flags
        BY <4>2 DEF Edited, EmptyLink
      <4>4. [r EXCEPT !.obj = Edited(call[c].op, call[c].arg, @)].obj = o
        BY <4>2
      <4> HIDE DEF o
      <4>5. obj' = [obj EXCEPT ![c] = o] /\ call' = call
        BY <3>1, <3>3, <4>4 DEF Refresh
      <4>6. obj'[c] = o /\ \A b \in Clients \ {c} : obj'[b] = obj[b]
        BY <2>1, <4>5
      <4> QED
        BY <1>2, <3>1, <3>3, <4>3, <4>5, <4>6
    <3> QED
      BY <3>2, <3>3
  <2> QED
    BY <1>3, <2>2, <2>3, <2>4, <2>5, <2>6, <2>7, <2>8, <2>9 DEF Continue
<1> QED
  BY <1>1, <1>3 DEF Next

(* A SETLINK with a change mask and no attribute but the master changes    *)
(* the flags of the mask and the master, or nothing.                       *)
LEMMA SetLinkFlags ==
  ASSUME KernelTypeOK, NEW n \in Namespaces, NEW q \in Request, NEW e,
         q.name = NoName, q.ns = NoNs, q.mtu = 0, RtmSetLink(n, q, e)
  PROVE  \/ UNCHANGED kernel /\ e # "ok"
         \/ \E d \in links :
              /\ d.ns = n /\ d.idx = q.idx
              /\ \E h \in {d, WithRest(d, q)} : links' = (links \ {d}) \cup {h}
              /\ e = "ok" => links' = (links \ {d}) \cup {WithRest(d, q)}
<1>1. \A d \in Lookup(n, q) : /\ d \in Link /\ d \in links
                              /\ d.ns = n /\ d.idx = q.idx
  BY KernelAssumption DEF Lookup, KernelTypeOK, Link
<1>2. \A d \in Lookup(n, q) : /\ Landed(d, q) = {d} /\ ~LeavesNs(d, q)
                              /\ WithMtu(d, q) = d /\ WithName(d, q) = d
                              /\ ~Renames(d, q)
  BY <1>1 DEF Landed, LeavesNs, WithMtu, WithName, Renames, Link
<1>3. CASE (Unselected(q, e) \/ Missing(n, q, e)) /\ UNCHANGED kernel
  BY <1>3 DEF Unselected, Missing
<1>4. ASSUME NEW d \in Lookup(n, q),
             NEW h \in {WithMtu(d, q), WithName(WithMtu(d, q), q),
                        WithRest(WithName(WithMtu(d, q), q), q)},
             Changed(d, q, e, h), links' = (links \ {d}) \cup {h}
      PROVE  /\ d.ns = n /\ d.idx = q.idx
             /\ \E x \in {d, WithRest(d, q)} : links' = (links \ {d}) \cup {x}
             /\ e = "ok" => links' = (links \ {d}) \cup {WithRest(d, q)}
  <2>1. h \in {d, WithRest(d, q)}
    BY <1>2, <1>4
  <2>2. e = "ok" => h = WithRest(d, q)
    BY <1>2, <1>4 DEF Changed, RenameError
  <2> QED
    BY <1>1, <1>4, <2>1, <2>2
<1>5. CASE ~(/\ Unselected(q, e) \/ Missing(n, q, e)
             /\ UNCHANGED kernel)
  <2>1. PICK d \in Lookup(n, q) :
          \E h \in {WithMtu(d, q), WithName(WithMtu(d, q), q),
                    WithRest(WithName(WithMtu(d, q), q), q)} :
            Changed(d, q, e, h) /\ links' = (links \ {d}) \cup {h}
    BY <1>2, <1>5 DEF RtmSetLink
  <2> QED
    BY <1>1, <1>4, <2>1
<1> QED
  BY <1>3, <1>5

(* The messages of Up, Down, SetMaster and Promisc are of this form.       *)
LEMMA MaskedMessage ==
  ASSUME TypeInv, Masked, NEW c \in Clients,
         \/ pc[c] = "update" /\ call[c].op \in {"Up", "Down", "SetMaster"}
         \/ pc[c] = "modify" /\ call[c].op = "Promisc"
  PROVE  LET q == Message(c) IN
         /\ q.name = NoName /\ q.ns = NoNs /\ q.mtu = 0
         /\ q.flags = obj[c].flags /\ q.change = obj[c].change
         /\ q.change # {}
         /\ q.master # 0 => call[c].op = "SetMaster"
<1>1. obj[c].change # {}
  BY DEF Masked
<1>2. CASE call[c].op = "SetMaster"
  <2>1. Message(c) = [IfInfomsg(obj[c]) EXCEPT !.master = call[c].arg]
    BY <1>2 DEF Message, UpdateMessage
  <2> QED
    BY <1>1, <1>2, <2>1 DEF IfInfomsg, EmptyLink
<1>3. CASE call[c].op # "SetMaster"
  <2>1. Message(c) = Marshal(obj[c])
    BY <1>3 DEF Message, UpdateMessage
  <2> QED
    BY <1>1, <1>3, <2>1 DEF Marshal, EmptyLink
<1> QED
  BY <1>2, <1>3

LEMMA StepTouchesOnly ==
  ASSUME TypeInv, Masked, [Next]_vars, NEW c \in Clients, Steps(c),
         call[c].op \in {"Up", "Down", "Promisc", "SetMaster"}, NEW d \in links
  PROVE  \E h \in links' : Untouched(call[c].op, h) = Untouched(call[c].op, d)
<1>1. CASE UNCHANGED kernel
  BY <1>1 DEF kernel
<1>2. CASE ~UNCHANGED kernel
  <2>1. PICK e \in Results :
          /\ \/ pc[c] = "update"
             \/ pc[c] = "modify" /\ call[c].op = "Promisc"
          /\ NetlinkUpdate(Type(c), call[c].ns, Message(c), e)
    BY <1>2, ExchangeChanges
  <2>2. call[c].op = "Promisc" => pc[c] = "modify"
    BY <2>1 DEF TypeInv, CallOK
  <2>3. Type(c) = "SETLINK" /\ Message(c) \in Request /\ call[c].ns \in Namespaces
    BY <2>1, MessageNames DEF Type, TypeInv, CallOK
  <2> DEFINE q == Message(c)
  <2>4. /\ q.name = NoName /\ q.ns = NoNs /\ q.mtu = 0
        /\ q.flags = obj[c].flags /\ q.change = obj[c].change
        /\ q.change # {}
        /\ q.master # 0 => call[c].op = "SetMaster"
    BY <2>1, <2>2, MaskedMessage
  <2>5. KernelTypeOK
    BY DEF TypeInv, TypeOK
  <2>6. PICK k : RtmSetLink(call[c].ns, q, k)
    BY <1>2, <2>1, <2>3 DEF NetlinkUpdate
  <2>7. PICK g \in links :
          \E h \in {g, WithRest(g, q)} : links' = (links \ {g}) \cup {h}
    <3> HIDE DEF q
    <3> QED
      BY <1>2, <2>3, <2>4, <2>5, <2>6, SetLinkFlags DEF q
  <2>8. Untouched(call[c].op, WithRest(g, q)) = Untouched(call[c].op, g)
    <3>1. g \in Link
      BY <2>5 DEF KernelTypeOK
    <3> DEFINE f == Combined(g.flags, q)
               m == IF q.master = 0 THEN g.master ELSE q.master
    <3>2. WithRest(g, q) = [g EXCEPT !.master = m, !.flags = f]
      BY DEF WithRest
    <3>3. f = ((q.flags \cap q.change) \cup (g.flags \ q.change)) \cap Settable
      BY <2>4 DEF Combined
    <3>4. g.flags \subseteq Settable
      BY <3>1 DEF Link
    <3>5. call[c].op # "SetMaster" => m = g.master
      BY <2>4
    <3>6. call[c].op \in {"Up", "Down"} => f \ {"UP"} = g.flags \ {"UP"}
      <4>1. call[c].op \in {"Up", "Down"} => q.change = {"UP"}
        BY <2>1, <2>4 DEF Masked
      <4> QED
        BY <3>3, <3>4, <4>1
    <3>7. call[c].op = "SetMaster" => f = g.flags
      <4>1. call[c].op = "SetMaster" => q.change = {"MASTER"}
        BY <2>1, <2>4 DEF Masked
      <4> QED
        BY <3>3, <3>4, <4>1 DEF Settable
    <3> DEFINE w == WithRest(g, q)
    <3>8. /\ w.flags = f /\ w.master = m
          /\ [w EXCEPT !.flags = {}] = [[g EXCEPT !.flags = {}]
                                          EXCEPT !.master = m]
          /\ [w EXCEPT !.master = 0] = [[g EXCEPT !.master = 0]
                                          EXCEPT !.flags = f]
          /\ [w EXCEPT !.flags = w.flags \ {"UP"}] =
               [[g EXCEPT !.flags = f \ {"UP"}] EXCEPT !.master = m]
      <4> HIDE DEF f, m, q
      <4> QED
        BY <3>1, <3>2 DEF Link
    <3> HIDE DEF f, m, q, w
    <3>9. CASE call[c].op \in {"Up", "Down"}
      <4>1. \A x : Untouched(call[c].op, x) =
                     [x EXCEPT !.flags = x.flags \ {"UP"}]
        BY <3>9 DEF Untouched
      <4>2. m = g.master /\ f \ {"UP"} = g.flags \ {"UP"}
        BY <3>5, <3>6, <3>9
      <4>3. [[g EXCEPT !.flags = g.flags \ {"UP"}] EXCEPT !.master = g.master]
              = [g EXCEPT !.flags = g.flags \ {"UP"}]
        BY <3>1 DEF Link
      <4> QED
        BY <3>8, <4>1, <4>2, <4>3, ZenonT(60) DEF w
    <3>10. CASE call[c].op = "Promisc"
      <4>1. \A x : Untouched(call[c].op, x) = [x EXCEPT !.flags = {}]
        BY <3>10 DEF Untouched
      <4>2. m = g.master
        BY <3>5, <3>10
      <4>3. [[g EXCEPT !.flags = {}] EXCEPT !.master = g.master]
              = [g EXCEPT !.flags = {}]
        BY <3>1 DEF Link
      <4>4. [w EXCEPT !.flags = {}] = [g EXCEPT !.flags = {}]
        BY <3>8, <4>2, <4>3
      <4>5. Untouched(call[c].op, w) = Untouched(call[c].op, g)
        BY <4>1, <4>4, Zenon
      <4> QED
        BY <4>5 DEF w
    <3>11. CASE call[c].op = "SetMaster"
      <4>1. \A x : Untouched(call[c].op, x) = [x EXCEPT !.master = 0]
        BY <3>11 DEF Untouched
      <4>2. f = g.flags
        BY <3>7, <3>11
      <4>3. [[g EXCEPT !.master = 0] EXCEPT !.flags = g.flags]
              = [g EXCEPT !.master = 0]
        BY <3>1 DEF Link
      <4>4. [w EXCEPT !.master = 0] = [g EXCEPT !.master = 0]
        BY <3>8, <4>2, <4>3
      <4>5. Untouched(call[c].op, w) = Untouched(call[c].op, g)
        BY <4>1, <4>4
      <4> QED
        BY <4>5 DEF w
    <3> QED
      BY <3>9, <3>10, <3>11
  <2> QED
    BY <2>7, <2>8
<1> QED
  BY <1>1, <1>2

(* Whatever other clients do between its Read and its message, Up and Down *)
(* change IFF_UP, SetMaster the master and Promisc flags, and nothing else *)
(* of any link, in every deployment.                                       *)
THEOREM AlwaysTouchesOnly == Spec => TouchesOnly
<1>1. TypeInv /\ Masked /\ [Next]_vars =>
        [\A c \in Clients :
           Steps(c) /\ call[c].op \in {"Up", "Down", "Promisc", "SetMaster"} =>
             \A d \in links : \E h \in links' :
               Untouched(call[c].op, h) = Untouched(call[c].op, d)]_vars
  BY StepTouchesOnly
<1>2. Init => Masked
  BY DEF Init, Masked
<1>3. TypeInv /\ Masked /\ [Next]_vars => TypeInv' /\ Masked'
  BY MaskStep, TypeStep
<1> QED
  BY <1>1, <1>2, <1>3, TypeInit, PTL DEF Spec, TouchesOnly

(* A header and an MTU, for a device of that index: its MTU and its flags. *)
LEMMA SetLinkMtu ==
  ASSUME KernelTypeOK, NEW n \in Namespaces, NEW q \in Request, NEW e,
         q.name = NoName, q.ns = NoNs, q.master = 0, q.change = {}, q.flags # {},
         q.mtu # 0, RtmSetLink(n, q, e), NEW d \in links
  PROVE  \/ d \in links'
         \/ /\ d.ns = n /\ d.idx = q.idx
            /\ [d EXCEPT !.mtu = q.mtu, !.flags = q.flags \cap Settable] \in links'
<1>1. CASE UNCHANGED kernel
  BY <1>1 DEF kernel
<1>2. CASE ~UNCHANGED kernel
  <2>1. \A x \in Lookup(n, q) : /\ x \in Link /\ x.ns = n /\ x.idx = q.idx
                                /\ Landed(x, q) = {x} /\ ~LeavesNs(x, q)
    BY KernelAssumption DEF Lookup, KernelTypeOK, Link, Landed, LeavesNs
  <2>2. PICK x \in Lookup(n, q) :
          \E h : Changed(x, q, e, h) /\ links' = (links \ {x}) \cup {h}
    BY <1>2, <2>1 DEF RtmSetLink
  <2>3. PICK h : Changed(x, q, e, h) /\ links' = (links \ {x}) \cup {h}
    BY <2>2
  <2>4. x \in Link /\ ~BadMaster(x.ns, x.kind, q)
    BY <2>1 DEF BadMaster
  <2>5. h = WithRest(WithName(WithMtu(x, q), q), q)
    <3>1. ~Renames(x, q)
      BY DEF Renames
    <3> QED
      BY <2>3, <2>4, <3>1 DEF Changed, RenameError
  <2>6. h = [x EXCEPT !.mtu = q.mtu, !.flags = q.flags \cap Settable]
    <3> DEFINE w == [x EXCEPT !.mtu = q.mtu]
    <3>1. WithMtu(x, q) = w
      BY DEF WithMtu
    <3>2. WithName(w, q) = w
      BY <2>4 DEF WithName, Renames, Link
    <3>3. WithRest(w, q) = [w EXCEPT !.master = w.master, !.flags = q.flags \cap Settable]
      BY DEF WithRest, Combined
    <3>4. [w EXCEPT !.master = w.master, !.flags = q.flags \cap Settable]
            = [x EXCEPT !.mtu = q.mtu, !.flags = q.flags \cap Settable]
      BY <2>4 DEF Link
    <3> HIDE DEF w
    <3> QED
      BY <2>5, <3>1, <3>2, <3>3, <3>4
  <2> QED
    BY <2>1, <2>3, <2>6
<1> QED
  BY <1>1, <1>2

LEMMA StepSetMtuPutsBack ==
  ASSUME TypeInv, Masked, [Next]_vars, NEW c \in Clients, Steps(c),
         call[c].op = "SetMtu", NEW d \in links
  PROVE  \/ d \in links'
         \/ /\ d.ns = call[c].ns /\ d.idx = obj[c].idx
            /\ [d EXCEPT !.mtu = call[c].arg,
                         !.flags = obj[c].flags \cap Settable] \in links'
<1>1. CASE UNCHANGED kernel
  BY <1>1 DEF kernel
<1>2. CASE ~UNCHANGED kernel
  <2>1. PICK e \in Results :
          pc[c] = "update" /\ NetlinkUpdate(Type(c), call[c].ns, Message(c), e)
    BY <1>2, ExchangeChanges
  <2>2. /\ Type(c) = "SETLINK" /\ Message(c) \in Request
        /\ call[c].ns \in Namespaces /\ call[c].arg \in Mtus
    BY <2>1, MessageNames DEF Type, TypeInv, CallOK
  <2> DEFINE q == Message(c)
  <2>3. obj[c].change = {} /\ obj[c].flags # {}
    BY <2>1 DEF Masked
  <2>4. /\ q.name = NoName /\ q.ns = NoNs /\ q.master = 0 /\ q.change = {}
        /\ q.flags = obj[c].flags /\ q.idx = obj[c].idx /\ q.mtu = call[c].arg
    BY <2>1, <2>3 DEF Message, UpdateMessage, IfInfomsg, EmptyLink
  <2>5. PICK k : RtmSetLink(call[c].ns, q, k)
    BY <1>2, <2>1, <2>2 DEF NetlinkUpdate
  <2>6. q.mtu # 0 /\ KernelTypeOK
    BY <2>2, <2>4, KernelAssumption DEF TypeInv, TypeOK
  <2> HIDE DEF q
  <2> QED
    BY <2>2, <2>3, <2>4, <2>5, <2>6, SetLinkMtu, ZenonT(60) DEF q
<1> QED
  BY <1>1, <1>2

(* Whatever other clients do between its Read and its message, SetMtu      *)
(* gives the link it has read its MTU and the flags it has read, and       *)
(* changes nothing else of any link, in every deployment.                  *)
THEOREM SetMtuAlwaysPutsBack == Spec => SetMtuPutsBack
<1>1. TypeInv /\ Masked /\ [Next]_vars =>
        [\A c \in Clients : Steps(c) /\ call[c].op = "SetMtu" =>
           \A d \in links :
             \/ d \in links'
             \/ /\ d.ns = call[c].ns /\ d.idx = obj[c].idx
                /\ [d EXCEPT !.mtu = call[c].arg,
                             !.flags = obj[c].flags \cap Settable] \in links']_vars
  BY StepSetMtuPutsBack
<1>2. Init => Masked
  BY DEF Init, Masked
<1>3. TypeInv /\ Masked /\ [Next]_vars => TypeInv' /\ Masked'
  BY MaskStep, TypeStep
<1> QED
  BY <1>1, <1>2, <1>3, TypeInit, PTL DEF Spec, SetMtuPutsBack

-----------------------------------------------------------------------------
(* What a nil from Up and Down means.                                      *)

BacksNew == \A c \in Clients : pc[c] = "readback" => call[c].op \in {"Add", "Present"}

LEMMA BacksStep ==
  ASSUME TypeInv, BacksNew, [Next]_vars
  PROVE  BacksNew'
<1>1. CASE UNCHANGED vars
  BY <1>1 DEF vars, BacksNew
<1>2. ASSUME NEW c \in Clients,
             \/ Construct(c) \/ AssignMtu(c) \/ CallModify(c) \/ CallPromisc(c)
             \/ CallUpdate(c) \/ CallGet(c) \/ Continue(c)
      PROVE  BacksNew'
  <2>1. /\ pc \in [Clients -> {"idle", "modify", "readback", "read", "update"}]
        /\ call \in [Clients -> Call]
    BY DEF TypeInv, TypeOK
  <2>2. CASE pc' = pc /\ call' = call
    BY <2>2 DEF BacksNew
  <2>3. CASE SendNewLink(c)
    <3>1. \/ \E e : Return(c, e)
          \/ /\ pc' = [pc EXCEPT ![c] = "readback"] /\ call' = call
             /\ call[c].op \in {"Add", "Present"}
      BY <2>3 DEF SendNewLink, AfterNewLink
    <3> QED
      BY <2>1, <3>1 DEF BacksNew, Return
  <2>4. CASE \E st \in {"idle", "modify", "read", "update"} :
               /\ pc' = [pc EXCEPT ![c] = st]
               /\ \A b \in Clients \ {c} : call'[b] = call[b]
    BY <2>1, <2>4 DEF BacksNew
  <2> QED
    <3>1. CASE Construct(c) \/ AssignMtu(c)
      BY <2>2, <3>1 DEF Construct, AssignMtu
    <3>2. CASE CallModify(c) \/ CallPromisc(c) \/ CallUpdate(c) \/ CallGet(c)
      BY <2>1, <2>4, <3>2 DEF CallModify, CallPromisc, CallUpdate, CallGet, Invoke,
                              Return
    <3>3. CASE \/ ReadBack(c) \/ SendSetLink(c) \/ SendDelLink(c) \/ LeadingRead(c)
               \/ SendUpdate(c)
      BY <2>1, <2>4, <3>3 DEF ReadBack, SendSetLink, SendDelLink, LeadingRead,
                              SendUpdate, Return
    <3> QED
      BY <1>2, <2>3, <3>1, <3>2, <3>3 DEF Continue
<1> QED
  BY <1>1, <1>2 DEF Next

(* Such a call returns from its Read or from its message.                  *)
LEMMA UpDownSteps ==
  ASSUME TypeInv, BacksNew, [Next]_vars, NEW c \in Clients, Returns(c),
         call[c].op \in {"Up", "Down"}
  PROVE  LeadingRead(c) \/ SendUpdate(c)
<1>1. PICK b \in Clients :
        \/ Construct(b) \/ AssignMtu(b)
        \/ CallModify(b) \/ CallPromisc(b) \/ CallUpdate(b) \/ CallGet(b)
        \/ Continue(b)
  BY DEF Next, vars, Returns
<1>2. pc \in [Clients -> {"idle", "modify", "readback", "read", "update"}]
  BY DEF TypeInv, TypeOK
<1>3. pc[b] # "idle" /\ Continue(b)
  <2>1. ASSUME Construct(b) \/ AssignMtu(b) PROVE FALSE
    BY <2>1 DEF Construct, AssignMtu, Returns
  <2>2. ASSUME CallModify(b) \/ CallPromisc(b) \/ CallUpdate(b) \/ CallGet(b)
        PROVE  FALSE
    <3>1. pc[b] = "idle" /\ \E st : pc' = [pc EXCEPT ![b] = st]
      BY <2>2 DEF CallModify, CallPromisc, CallUpdate, CallGet, Invoke, Return
    <3> QED
      BY <1>2, <3>1 DEF Returns
  <2> QED
    BY <1>1, <2>1, <2>2 DEF Continue, SendNewLink, ReadBack, SendSetLink,
                            SendDelLink, LeadingRead, SendUpdate
<1>4. \E st : pc' = [pc EXCEPT ![b] = st]
  BY <1>3 DEF Continue, SendNewLink, ReadBack, SendSetLink, SendDelLink,
              LeadingRead, SendUpdate, Return
<1>5. b = c
  BY <1>2, <1>4 DEF Returns
<1>6. ~(SendNewLink(c) \/ SendSetLink(c) \/ SendDelLink(c))
  BY DEF SendNewLink, SendSetLink, SendDelLink
<1>7. ~ReadBack(c)
  BY DEF ReadBack, BacksNew
<1> QED
  BY <1>3, <1>5, <1>6, <1>7 DEF Continue

LEMMA StepUpDown ==
  ASSUME AgreeInv, Masked, BacksNew, [Next]_vars, NEW c \in Clients,
         Returns(c), ret'[c] = "ok", call[c].op \in {"Up", "Down"},
         pc[c] = "read" /\ obj'[c] = obj[c] => Faults = {},
         NEW d \in links', d.ns = call[c].ns, d.idx = obj'[c].idx
  PROVE  ("UP" \in d.flags) <=> (call[c].op = "Up")
<1>1. TypeInv /\ KernelTypeOK /\ IndexUnique /\ IndexNameAgree
  BY DEF AgreeInv, DataInv, TypeInv, TypeOK
<1>2. /\ obj \in [Clients -> Object] /\ ret \in [Clients -> Results]
      /\ pc \in [Clients -> {"idle", "modify", "readback", "read", "update"}]
  BY <1>1 DEF TypeInv, TypeOK
<1>3. CASE LeadingRead(c)
  <2>1. PICK r \in Read(obj[c], call[c].ns) :
          IF r.err = "ok" /\ Sends(call[c].op, r.obj)
          THEN pc' = [pc EXCEPT ![c] = "update"]
          ELSE obj' = [obj EXCEPT ![c] = r.obj]
    BY <1>3 DEF LeadingRead, Refresh
  <2>2. ~(r.err = "ok" /\ Sends(call[c].op, r.obj)) /\ obj'[c] = r.obj
    BY <1>2, <2>1 DEF Returns
  <2>3. links' = links /\ d \in Link
    BY <1>1, <1>3 DEF LeadingRead, kernel, KernelTypeOK
  <2>4. d.idx # 0 /\ d.name # NoName
    BY <2>3, KernelAssumption DEF Link, Indices
  <2>5. CASE r.err = "ok"
    <3>1. PICK g \in links : g.ns = call[c].ns /\ r.obj = Unmarshal(g)
      BY <2>5, ReadOutcome
    <3>2. r.obj.idx = g.idx /\ r.obj.flags = g.flags \cup {"BCAST"}
      BY <3>1 DEF Unmarshal, EmptyLink
    <3>3. d = g
      BY <1>1, <2>2, <2>3, <3>1, <3>2 DEF IndexUnique
    <3> QED
      BY <2>2, <2>5, <3>2, <3>3 DEF Sends
  <2>6. CASE r.err # "ok"
    <3>1. /\ r.obj = obj[c] /\ obj[c].idx = d.idx /\ obj[c].idx # 0
          /\ Faults = {}
      BY <1>3, <2>2, <2>4, <2>6, ReadOutcome DEF LeadingRead
    <3>2. d \in RtmGetLink(call[c].ns, obj[c])
      BY <2>3, <3>1 DEF RtmGetLink
    <3>3. \A g \in RtmGetLink(call[c].ns, obj[c]) : g = d
      BY <1>1, <2>3, <3>1 DEF RtmGetLink, IndexUnique
    <3>4. Satisfies(d, obj[c])
      <4>1. CASE obj[c].name = NoName
        BY <4>1 DEF Satisfies
      <4>2. CASE obj[c].name # NoName
        <5>1. home[c] = call[c].ns
          BY <3>1, <4>2, KernelAssumption
          DEF AgreeInv, DataInv, HeldHandedOut, Holds, CallInv, Returns
        <5> QED
          BY <1>1, <2>3, <3>1, <4>2, <5>1 DEF IndexNameAgree, Satisfies
      <4> QED
        BY <4>1, <4>2
    <3> QED
      BY <2>6, <3>1, <3>2, <3>3, <3>4 DEF Read
  <2> QED
    BY <2>5, <2>6
<1>4. CASE SendUpdate(c)
  <2> DEFINE q == Message(c)
  <2>1. pc[c] = "update" /\ obj'[c] = obj[c]
    BY <1>4 DEF SendUpdate
  <2>2. PICK e \in Results : NetlinkUpdate("SETLINK", call[c].ns, q, e) /\ Return(c, e)
    BY <1>4, <2>1 DEF SendUpdate, Message
  <2>3. e = "ok"
    BY <1>2, <2>2 DEF Return
  <2>4. RtmSetLink(call[c].ns, q, "ok")
    <3> HIDE DEF q
    <3> QED
      BY <2>2, <2>3 DEF NetlinkUpdate
  <2>5. q \in Request /\ q.idx = obj[c].idx /\ call[c].ns \in Namespaces
    BY <1>1, <2>1, MessageNames DEF TypeInv, CallOK
  <2>6. /\ q.name = NoName /\ q.ns = NoNs /\ q.mtu = 0
        /\ q.flags = obj[c].flags /\ q.change = obj[c].change
    BY <1>1, <2>1, MaskedMessage
  <2>7. /\ q.change = {"UP"}
        /\ ("UP" \in q.flags) <=> (call[c].op = "Up")
    BY <2>1, <2>6 DEF Masked
  <2> HIDE DEF q
  <2>8. PICK g \in links :
          /\ g.ns = call[c].ns /\ g.idx = q.idx
          /\ links' = (links \ {g}) \cup {WithRest(g, q)}
    BY <1>1, <2>4, <2>5, <2>6, SetLinkFlags
  <2>9. d = WithRest(g, q)
    BY <1>1, <2>1, <2>5, <2>8 DEF IndexUnique
  <2>10. d.flags = Combined(g.flags, q)
    BY <1>1, <2>8, <2>9 DEF WithRest, KernelTypeOK, Link
  <2> QED
    BY <2>7, <2>10 DEF Combined, Settable
<1> QED
  BY <1>1, <1>3, <1>4, UpDownSteps

(* Where clients use a link where they read it: when Up (Down) has         *)
(* returned nil, no link of the object's index is down (up), after a Read  *)
(* that failed too unless a socket or an answer may have got lost.         *)
THEOREM UpDownAlwaysDone == AgreeDiscipline /\ Spec => UpDownDone
<1>1. Init => Masked /\ BacksNew
  BY DEF Init, Masked, BacksNew
<1>2. AgreeInv /\ Masked /\ BacksNew /\ [Next]_vars => Masked' /\ BacksNew'
  BY MaskStep, BacksStep DEF AgreeInv
<1> QED
  <2> SUFFICES ASSUME AgreeDiscipline PROVE Spec => UpDownDone
    OBVIOUS
  <2>1. AgreeInv /\ [Next]_vars => AgreeInv'
    BY AgreeStep
  <2>2. AgreeInv /\ Masked /\ BacksNew /\ [Next]_vars =>
          [\A c \in Clients :
             /\ Returns(c) /\ ret'[c] = "ok" /\ call[c].op \in {"Up", "Down"}
             /\ pc[c] = "read" /\ obj'[c] = obj[c] => Faults = {}
             => \A d \in links' :
                  d.ns = call[c].ns /\ d.idx = obj'[c].idx
                  => (("UP" \in d.flags) <=> (call[c].op = "Up"))]_vars
    BY StepUpDown
  <2> QED
    BY <1>1, <1>2, <2>1, <2>2, AgreeInit, PTL DEF Spec, UpDownDone

-----------------------------------------------------------------------------
(* A client that nobody interferes with.                                   *)

Alone == \A b, c \in Clients : b = c

LEMMA UniqueStep ==
  ASSUME TypeInv, IndexUnique, [Next]_vars
  PROVE  IndexUnique'
<1>1. CASE links' = links
  BY <1>1 DEF IndexUnique
<1>2. CASE links' # links
  <2>1. PICK c \in Clients : SendNewLink(c) \/ SendSetLink(c) \/ SendDelLink(c)
                             \/ SendUpdate(c)
    <3>1. PICK c \in Clients : Continue(c)
      <4>1. ASSUME NEW c \in Clients,
                   \/ Construct(c) \/ AssignMtu(c) \/ CallModify(c)
                   \/ CallPromisc(c) \/ CallUpdate(c) \/ CallGet(c)
            PROVE  links' = links
        BY <4>1 DEF Construct, AssignMtu, CallModify, CallPromisc, CallUpdate,
                    CallGet, Invoke
      <4> QED
        BY <1>2, <4>1 DEF Next, vars
    <3> QED
      BY <1>2, <3>1 DEF Continue, ReadBack, LeadingRead, kernel
  <2>2. /\ pc[c] \in {"modify", "update"}
        /\ \E e : \E type \in {"NEWLINK", "SETLINK", "DELLINK"} :
             NetlinkUpdate(type, call[c].ns, Message(c), e)
    <3>1. CASE SendUpdate(c)
      BY <3>1 DEF SendUpdate, Message
    <3>2. CASE SendNewLink(c)
      BY <3>2 DEF SendNewLink, Message
    <3>3. CASE SendSetLink(c)
      BY <3>3 DEF SendSetLink, Message
    <3>4. CASE SendDelLink(c)
      BY <3>4 DEF SendDelLink, Message
    <3> QED
      BY <2>1, <3>1, <3>2, <3>3, <3>4
  <2>3. Message(c) \in Request /\ call[c].ns \in Namespaces /\ KernelTypeOK
    BY <2>2, MessageNames DEF TypeInv, CallOK, TypeOK
  <2> QED
    BY <2>2, <2>3, UpdateUnique
<1> QED
  BY <1>1, <1>2

(* What the kernel has of the object in hand between two exchanges.        *)
AloneInv ==
  \A c \in Clients :
    /\ pc[c] = "update" /\ call[c].op = "SetMtu" =>
         \E d \in links : /\ d.ns = call[c].ns /\ d.idx = obj[c].idx
                          /\ obj[c].flags = d.flags \cup {"BCAST"}
                          /\ obj[c].change = {}
    /\ pc[c] = "readback" /\ call[c].op = "Add" =>
         \E h \in links : /\ h.ns = Target(c) /\ h.name = obj[c].name
                          /\ h.kind = obj[c].kind /\ h.master = obj[c].master
                          /\ obj[c].idx # 0 => h.idx = obj[c].idx

LEMMA NewLinkCreates ==
  ASSUME NEW n \in Namespaces, NEW q \in Request, RtmNewLink(n, q, "ok")
  PROVE  /\ q.kind \in Creatable
         /\ \E h \in links' : /\ h.ns = Destination(n, q) /\ h.name = q.name
                              /\ h.kind = q.kind /\ h.master = q.master
                              /\ q.idx # 0 => h.idx = q.idx
<1> DEFINE m == Destination(n, q)
<1>1. ~NewLinkError(n, q, "ok")
  BY DEF NewLinkError
<1>2. /\ ~NewLinkError(n, q, "EOPNOTSUPP") /\ ~NewLinkError(n, q, "EEXIST")
      /\ IF q.kind = "veth" THEN CreateVeth(n, q) ELSE Create(n, q)
  BY <1>1 DEF RtmNewLink, Errno
<1>3. q.kind \in Creatable
  BY <1>2 DEF NewLinkError
<1>4. ASSUME NEW i, NEW pair, NEW after, i \in Assigned(m, q, after),
             NewDevice(m, q, i, pair) \in links'
      PROVE  \E h \in links' : /\ h.ns = m /\ h.name = q.name
                               /\ h.kind = q.kind /\ h.master = q.master
                               /\ q.idx # 0 => h.idx = q.idx
  BY <1>4 DEF NewDevice, Assigned
<1>5. CASE q.kind = "veth"
  BY <1>2, <1>3, <1>4, <1>5 DEF CreateVeth
<1>6. CASE q.kind # "veth"
  BY <1>2, <1>3, <1>4, <1>6 DEF Create
<1> QED
  BY <1>5, <1>6

LEMMA AloneStep ==
  ASSUME Alone, TypeInv, AloneInv, [Next]_vars
  PROVE  AloneInv'
<1>1. CASE UNCHANGED vars
  BY <1>1 DEF vars, AloneInv, Target, Destination
<1>2. ASSUME NEW c \in Clients,
             \/ Construct(c) \/ AssignMtu(c) \/ CallModify(c) \/ CallPromisc(c)
             \/ CallUpdate(c) \/ CallGet(c) \/ Continue(c)
      PROVE  AloneInv'
  <2>1. /\ pc \in [Clients -> {"idle", "modify", "readback", "read", "update"}]
        /\ obj \in [Clients -> Object] /\ \A b \in Clients : b = c
    BY DEF TypeInv, TypeOK, Alone
  <2>2. CASE pc'[c] \notin {"update", "readback"}
    BY <2>1, <2>2 DEF AloneInv
  <2>3. CASE Construct(c) \/ AssignMtu(c) \/ CallModify(c) \/ CallPromisc(c)
             \/ CallUpdate(c) \/ CallGet(c)
    <3>1. \/ pc' = pc /\ pc[c] = "idle"
          \/ \E s \in {"idle", "modify", "read"} : pc' = [pc EXCEPT ![c] = s]
      BY <2>3 DEF Construct, AssignMtu, CallModify, CallPromisc, CallUpdate, CallGet,
                  Invoke, Return
    <3> QED
      BY <2>1, <2>2, <3>1
  <2>4. CASE SendNewLink(c)
    <3>1. PICK e \in Results :
            /\ NetlinkUpdate("NEWLINK", call[c].ns, Marshal(obj[c]), e)
            /\ \/ pc' = [pc EXCEPT ![c] = "idle"]
               \/ /\ AfterNewLink(call[c].op, e) = "readback"
                  /\ pc' = [pc EXCEPT ![c] = "readback"] /\ call' = call
            /\ obj' = obj /\ pc[c] = "modify"
      BY <2>4 DEF SendNewLink, Return, AfterNewLink
    <3>2. CASE pc' = [pc EXCEPT ![c] = "idle"]
      BY <2>1, <2>2, <3>2
    <3>3. CASE pc'[c] = "readback" /\ call[c].op = "Add"
      <4> DEFINE q == Marshal(obj[c])
                 n == call[c].ns
      <4>1. call' = call /\ e = "ok"
        BY <2>1, <3>1, <3>3 DEF AfterNewLink
      <4>2. RtmNewLink(n, q, "ok")
        BY <3>1, <4>1 DEF NetlinkUpdate, Errno
      <4>3. q \in Request /\ n \in Namespaces /\ obj[c] \in Object
        BY <2>1, <3>1, MessageNames DEF Message, TypeInv, CallOK
      <4> HIDE DEF q, n
      <4>4. /\ q.kind \in Creatable
            /\ \E h \in links' : /\ h.ns = Destination(n, q) /\ h.name = q.name
                                 /\ h.kind = q.kind /\ h.master = q.master
                                 /\ q.idx # 0 => h.idx = q.idx
        BY <4>2, <4>3, NewLinkCreates
      <4>5. /\ q.kind = obj[c].kind /\ q.name = obj[c].name /\ q.ns = obj[c].ns
            /\ q.master = obj[c].master /\ q.idx = obj[c].idx
        <5>1. CASE obj[c].change = {}
          BY <4>3, <4>4, <5>1 DEF q, Marshal, Object, Creatable
        <5>2. CASE obj[c].change # {}
          BY <4>4, <5>2 DEF q, Marshal, EmptyLink, Creatable
        <5> QED
          BY <5>1, <5>2
      <4>6. Target(c)' = Destination(n, q)
        BY <3>1, <4>1, <4>5 DEF Target, Destination, n
      <4> QED
        BY <2>1, <3>1, <3>3, <4>1, <4>4, <4>5, <4>6 DEF AloneInv
    <3>4. CASE pc'[c] = "readback" /\ call[c].op # "Add"
      BY <2>1, <3>1, <3>4 DEF AloneInv
    <3> QED
      BY <2>1, <3>1, <3>2, <3>3, <3>4
  <2>5. CASE SendSetLink(c) \/ SendDelLink(c) \/ SendUpdate(c) \/ ReadBack(c)
    <3>1. pc' = [pc EXCEPT ![c] = "idle"]
      BY <2>5 DEF SendSetLink, SendDelLink, SendUpdate, ReadBack, Return
    <3> QED
      BY <2>1, <2>2, <3>1
  <2>6. CASE LeadingRead(c)
    <3>1. PICK r \in Read(obj[c], call[c].ns) :
            \/ pc' = [pc EXCEPT ![c] = "idle"]
            \/ /\ r.err = "ok" /\ pc' = [pc EXCEPT ![c] = "update"] /\ call' = call
               /\ obj' = [obj EXCEPT
                            ![c] = [r EXCEPT !.obj = Edited(call[c].op, call[c].arg,
                                                            @)].obj]
      BY <2>6 DEF LeadingRead, Refresh, Return
    <3>2. links' = links
      BY <2>6 DEF LeadingRead, kernel
    <3>3. CASE pc' = [pc EXCEPT ![c] = "idle"]
      BY <2>1, <2>2, <3>3
    <3>4. CASE pc' = [pc EXCEPT ![c] = "update"] /\ call[c].op # "SetMtu"
      BY <2>1, <2>2, <3>1, <3>4 DEF AloneInv
    <3>5. CASE pc' = [pc EXCEPT ![c] = "update"] /\ call[c].op = "SetMtu"
      <4>1. pc'[c] = "update" /\ r.err = "ok" /\ call' = call
        BY <2>1, <3>1, <3>5
      <4>2. PICK d \in links : d.ns = call[c].ns /\ r.obj = Unmarshal(d)
        BY <4>1, ReadOutcome
      <4> DEFINE o == [r.obj EXCEPT !.mtu = call[c].arg]
      <4>3. /\ o.idx = d.idx /\ o.flags = d.flags \cup {"BCAST"} /\ o.change = {}
        BY <4>2 DEF Unmarshal, EmptyLink
      <4>4. [r EXCEPT !.obj = Edited(call[c].op, call[c].arg, @)].obj = o
        BY <3>5, <4>1 DEF Edited, Read
      <4> HIDE DEF o
      <4>5. obj' = [obj EXCEPT ![c] = o]
        BY <2>1, <3>1, <4>1, <4>4
      <4>6. obj'[c] = o
        BY <2>1, <4>5
      <4> QED
        BY <2>1, <3>2, <4>1, <4>2, <4>3, <4>6 DEF AloneInv
    <3> QED
      BY <3>1, <3>3, <3>4, <3>5
  <2> QED
    BY <1>2, <2>3, <2>4, <2>5, <2>6 DEF Continue
<1> QED
  BY <1>1, <1>2 DEF Next

(* An MTU and flags the device has already: the rest stays.                *)
LEMMA StepSetMtu ==
  ASSUME TypeInv, IndexUnique, AloneInv, [Next]_vars, NEW c \in Clients, Steps(c),
         call[c].op = "SetMtu", NEW d \in links
  PROVE  \E h \in links' : [h EXCEPT !.mtu = 0] = [d EXCEPT !.mtu = 0]
<1>1. CASE UNCHANGED kernel
  BY <1>1 DEF kernel
<1>2. CASE ~UNCHANGED kernel
  <2>1. PICK e \in Results :
          pc[c] = "update" /\ NetlinkUpdate(Type(c), call[c].ns, Message(c), e)
    BY <1>2, ExchangeChanges
  <2>2. /\ Type(c) = "SETLINK" /\ Message(c) \in Request
        /\ call[c].ns \in Namespaces
    BY <2>1, MessageNames DEF Type, TypeInv, CallOK
  <2> DEFINE q == Message(c)
             n == call[c].ns
  <2>3. PICK g \in links : /\ g.ns = n /\ g.idx = obj[c].idx
                           /\ obj[c].flags = g.flags \cup {"BCAST"}
                           /\ obj[c].change = {}
    BY <2>1 DEF AloneInv
  <2>4. /\ q.idx = g.idx /\ q.name = NoName /\ q.ns = NoNs /\ q.master = 0
        /\ q.flags = g.flags \cup {"BCAST"} /\ q.change = {}
    BY <2>1, <2>3 DEF Message, UpdateMessage, IfInfomsg, EmptyLink
  <2>5. PICK k : RtmSetLink(n, q, k)
    BY <1>2, <2>1, <2>2 DEF NetlinkUpdate
  <2> HIDE DEF q, n
  <2>6. \A x \in links : DOMAIN x = {"ns", "idx", "name", "kind", "flags", "mtu",
                                     "master", "pair"}
                         /\ x.idx # 0 /\ x.flags \subseteq Settable
    BY KernelAssumption DEF TypeInv, TypeOK, KernelTypeOK, Link, Indices
  <2>7. PICK x \in Lookup(n, q) :
          /\ ~LeavesNs(x, q)
          /\ \E h \in {WithMtu(x, q), WithName(WithMtu(x, q), q),
                       WithRest(WithName(WithMtu(x, q), q), q)} :
               links' = (links \ {x}) \cup {h}
    BY <1>2, <2>4, <2>5 DEF RtmSetLink, LeavesNs, Landed
  <2>8. x = g
    BY <2>3, <2>4, <2>6, <2>7 DEF Lookup, IndexUnique
  <2> DEFINE w == [g EXCEPT !.mtu = IF q.mtu = 0 THEN @ ELSE q.mtu]
  <2>9. WithMtu(g, q) = w
    BY DEF WithMtu
  <2>10. w.flags = g.flags /\ w.master = g.master /\ w.name = g.name
    BY <2>6
  <2>11. [w EXCEPT !.mtu = 0] = [g EXCEPT !.mtu = 0]
    BY <2>6
  <2>12. w \in Link
    <3>1. g \in Link /\ q.mtu \in Mtus \cup {DefaultMtu, 0}
      BY <2>2 DEF TypeInv, TypeOK, KernelTypeOK, q, Request, Object
    <3> QED
      BY <3>1 DEF Link
  <2> HIDE DEF w
  <2>13. WithName(w, q) = w
    BY <2>4, <2>12 DEF WithName, Renames, Link
  <2>14. WithRest(w, q) = w
    <3>1. Combined(w.flags, q) = w.flags
      BY <2>4, <2>6, <2>10 DEF Combined, Settable
    <3> QED
      BY <2>4, <2>12, <3>1 DEF WithRest, Link
  <2>15. links' = (links \ {g}) \cup {w}
    BY <2>7, <2>8, <2>9, <2>13, <2>14
  <2> QED
    BY <2>11, <2>15
<1> QED
  BY <1>1, <1>2

(* An Add or Present that returns nil returns from the Read.               *)
LEMMA NewReturns ==
  ASSUME TypeInv, [Next]_vars, NEW c \in Clients, Returns(c),
         call[c].op \in {"Add", "Present"}, ret'[c] = "ok"
  PROVE  ReadBack(c)
<1>1. PICK b \in Clients :
        \/ Construct(b) \/ AssignMtu(b)
        \/ CallModify(b) \/ CallPromisc(b) \/ CallUpdate(b) \/ CallGet(b)
        \/ Continue(b)
  BY DEF Next, vars, Returns
<1>2. /\ pc \in [Clients -> {"idle", "modify", "readback", "read", "update"}]
      /\ ret \in [Clients -> Results] /\ obj \in [Clients -> Object]
      /\ CallOK
  BY DEF TypeInv, TypeOK
<1>3. pc[b] # "idle" /\ Continue(b)
  <2>1. ASSUME Construct(b) \/ AssignMtu(b) PROVE FALSE
    BY <2>1 DEF Construct, AssignMtu, Returns
  <2>2. ASSUME CallModify(b) \/ CallPromisc(b) \/ CallUpdate(b) \/ CallGet(b)
        PROVE  FALSE
    <3>1. pc[b] = "idle" /\ \E st : pc' = [pc EXCEPT ![b] = st]
      BY <2>2 DEF CallModify, CallPromisc, CallUpdate, CallGet, Invoke, Return
    <3> QED
      BY <1>2, <3>1 DEF Returns
  <2> QED
    BY <1>1, <2>1, <2>2 DEF Continue, SendNewLink, ReadBack, SendSetLink,
                            SendDelLink, LeadingRead, SendUpdate
<1>4. \E st : pc' = [pc EXCEPT ![b] = st]
  BY <1>3 DEF Continue, SendNewLink, ReadBack, SendSetLink, SendDelLink,
              LeadingRead, SendUpdate, Return
<1>5. b = c
  BY <1>2, <1>4 DEF Returns
<1>6. ~SendNewLink(c)
  <2>1. ASSUME SendNewLink(c) PROVE FALSE
    <3>1. PICK e \in Results :
            IF AfterNewLink(call[c].op, e) = "idle" THEN Return(c, e)
            ELSE pc' = [pc EXCEPT ![c] = "readback"]
      BY <2>1 DEF SendNewLink, AfterNewLink
    <3>2. e # "ok" /\ ret'[c] = e
      BY <1>2, <3>1 DEF Returns, Return, AfterNewLink
    <3> QED
      BY <3>2
  <2> QED
    BY <2>1
<1>7. ~(SendSetLink(c) \/ SendDelLink(c) \/ LeadingRead(c) \/ SendUpdate(c))
  BY <1>2 DEF SendSetLink, SendDelLink, LeadingRead, SendUpdate, CallOK
<1> QED
  BY <1>3, <1>5, <1>6, <1>7 DEF Continue

LEMMA StepPresentEnsures ==
  ASSUME TypeInv, [Next]_vars, NEW c \in Clients, Returns(c),
         call[c].op \in {"Add", "Present"}, ret'[c] = "ok"
  PROVE  \E d \in links' : /\ d.ns = ReadNs(c) /\ Satisfies(d, obj[c])
                           /\ obj[c].idx # 0 => d.idx = obj[c].idx
                           /\ obj'[c] = Unmarshal(d)
<1>1. ReadBack(c)
  BY NewReturns
<1>2. PICK r \in Read(obj[c], ReadNs(c)) :
        obj' = [obj EXCEPT ![c] = r.obj] /\ Return(c, r.err)
  BY <1>1 DEF ReadBack, Refresh
<1>3. r.err = "ok" /\ obj'[c] = r.obj /\ links' = links
  BY <1>1, <1>2 DEF Return, ReadBack, kernel, TypeInv, TypeOK
<1> QED
  BY <1>2, <1>3, ReadOutcome

(* When Add or Present has returned nil, the link is there and the object  *)
(* is as the kernel has it, in every deployment.                           *)
THEOREM PresentAlwaysEnsures == Spec => PresentEnsures
<1>1. TypeInv /\ [Next]_vars =>
        [\A c \in Clients :
           Returns(c) /\ ret'[c] = "ok" /\ call[c].op \in {"Add", "Present"} =>
             \E d \in links' : /\ d.ns = ReadNs(c) /\ Satisfies(d, obj[c])
                               /\ obj[c].idx # 0 => d.idx = obj[c].idx
                               /\ obj'[c] = Unmarshal(d)]_vars
  BY StepPresentEnsures
<1>2. TypeInv /\ [Next]_vars => TypeInv'
  BY TypeStep
<1> QED
  BY <1>1, <1>2, TypeInit, PTL DEF Spec, PresentEnsures

LEMMA StepAddReadsBack ==
  ASSUME TypeInv, AloneInv, [Next]_vars, NEW c \in Clients,
         Returns(c), call[c].op = "Add", ret'[c] = "ok", ReadNs(c) = Target(c)
  PROVE  \E d \in links' : /\ d.ns = Target(c) /\ obj'[c] = Unmarshal(d)
                           /\ d.name = obj[c].name /\ d.kind = obj[c].kind
                           /\ d.master = obj[c].master
<1>1. ReadBack(c)
  BY NewReturns
<1>2. PICK r \in Read(obj[c], Target(c)) :
        obj' = [obj EXCEPT ![c] = r.obj] /\ Return(c, r.err)
  BY <1>1 DEF ReadBack, Refresh
<1>3. r.err = "ok" /\ obj'[c] = r.obj /\ links' = links
  BY <1>1, <1>2 DEF Return, ReadBack, kernel, TypeInv, TypeOK
<1>4. PICK h \in links : /\ h.ns = Target(c) /\ h.name = obj[c].name
                         /\ h.kind = obj[c].kind /\ h.master = obj[c].master
                         /\ obj[c].idx # 0 => h.idx = obj[c].idx
  BY <1>1 DEF ReadBack, AloneInv
<1>5. r.obj = Unmarshal(h)
  <2>1. h \in {d \in RtmGetLink(Target(c), obj[c]) : Satisfies(d, obj[c])}
    BY <1>4 DEF RtmGetLink, Satisfies
  <2> QED
    BY <1>2, <1>3, <2>1 DEF Read
<1> QED
  BY <1>3, <1>4, <1>5

LEMMA AloneInit ==
  ASSUME Init
  PROVE  AloneInv
BY DEF Init, AloneInv

(* With one client, so that nothing happens between its Read and the       *)
(* message after it, SetMtu changes the MTU and nothing else.              *)
THEOREM SetMtuAloneOnlyMtu == Alone /\ Spec => SetMtuOnlyMtu
<1> SUFFICES ASSUME Alone PROVE Spec => SetMtuOnlyMtu
  OBVIOUS
<1>1. Init => TypeInv /\ IndexUnique /\ AloneInv
  BY AloneInit, TypeInit DEF Init, KernelInit, IndexUnique
<1>2. TypeInv /\ IndexUnique /\ AloneInv /\ [Next]_vars
      => TypeInv' /\ IndexUnique' /\ AloneInv'
  BY TypeStep, UniqueStep, AloneStep
<1>3. TypeInv /\ IndexUnique /\ AloneInv /\ [Next]_vars =>
        [\A c \in Clients : Steps(c) /\ call[c].op = "SetMtu" =>
           \A d \in links : \E h \in links' :
             [h EXCEPT !.mtu = 0] = [d EXCEPT !.mtu = 0]]_vars
  BY StepSetMtu
<1> QED
  BY <1>1, <1>2, <1>3, PTL DEF Spec, SetMtuOnlyMtu

(* With one client, an Add that returns nil leaves the object as the       *)
(* kernel has the link it created.                                         *)
THEOREM AddAloneReadsBack == Alone /\ Spec => AddReadsBack
<1> SUFFICES ASSUME Alone PROVE Spec => AddReadsBack
  OBVIOUS
<1>1. Init => TypeInv /\ AloneInv
  BY AloneInit, TypeInit
<1>2. TypeInv /\ AloneInv /\ [Next]_vars => TypeInv' /\ AloneInv'
  BY TypeStep, AloneStep
<1>3. TypeInv /\ AloneInv /\ [Next]_vars =>
        [\A c \in Clients :
           /\ Returns(c) /\ call[c].op = "Add" /\ ret'[c] = "ok"
           /\ ReadNs(c) = Target(c)
           => \E d \in links' : d.ns = Target(c) /\ obj'[c] = Unmarshal(d)
                               /\ d.name = obj[c].name /\ d.kind = obj[c].kind
                               /\ d.master = obj[c].master]_vars
  BY StepAddReadsBack
<1> QED
  BY <1>1, <1>2, <1>3, PTL DEF Spec, AddReadsBack

-----------------------------------------------------------------------------
(* Set with Info.Ns, in every deployment.                                  *)

(* A name is given to one link of a namespace at a time.                   *)
NameUnique == \A d, h \in links : d.ns = h.ns /\ d.name = h.name => d = h

LEMMA NewLinkNamesUnique ==
  ASSUME NameUnique, NEW n, NEW q, NEW e, RtmNewLink(n, q, e)
  PROVE  NameUnique'
<1> DEFINE m == Destination(n, q)
<1>1. CASE UNCHANGED kernel
  BY <1>1 DEF NameUnique, kernel
<1>2. CASE ~UNCHANGED kernel
  <2>1. /\ ~NewLinkError(n, q, "EEXIST")
        /\ IF q.kind = "veth" THEN CreateVeth(n, q) ELSE Create(n, q)
    BY <1>2 DEF RtmNewLink, Errno
  <2>2. /\ ~Taken(m, q.name)
        /\ q.kind = "veth" => ~Taken(n, q.peer) /\ ~(m = n /\ q.peer = q.name)
    BY <2>1 DEF NewLinkError
  <2>3. CASE q.kind = "veth"
    <3>1. PICK i, j : links' = links \cup {PeerDevice(n, q, j),
                                           NewDevice(m, q, i, {<<n, j>>})}
      BY <2>1, <2>3 DEF CreateVeth
    <3> DEFINE h == NewDevice(m, q, i, {<<n, j>>})
               p == PeerDevice(n, q, j)
    <3>2. h.ns = m /\ h.name = q.name /\ p.ns = n /\ p.name = q.peer
      BY DEF NewDevice, PeerDevice
    <3>3. links' = links \cup {p, h}
      BY <3>1
    <3> HIDE DEF h, p, m
    <3> QED
      BY <2>2, <2>3, <3>2, <3>3 DEF NameUnique, Taken
  <2>4. CASE q.kind # "veth"
    <3>1. PICK i : links' = links \cup {NewDevice(m, q, i, {})}
      BY <2>1, <2>4 DEF Create
    <3> DEFINE h == NewDevice(m, q, i, {})
    <3>2. h.ns = m /\ h.name = q.name
      BY DEF NewDevice
    <3>3. links' = links \cup {h}
      BY <3>1
    <3> HIDE DEF h, m
    <3> QED
      BY <2>2, <3>2, <3>3 DEF NameUnique, Taken
  <2> QED
    BY <2>3, <2>4
<1> QED
  BY <1>1, <1>2

(* A device in its new namespace: under a name and an index that are free. *)
LEMMA MovedFree ==
  ASSUME NEW d \in Link, NEW q, LeavesNs(d, q),
         ~\E k \in Errno : MoveError(d, q, k), NEW g \in Moved(d, q)
  PROVE  /\ DOMAIN g = DOMAIN d /\ g.ns = q.ns /\ ~Used(q.ns, g.idx)
         /\ g.name \in {d.name, q.name} /\ ~Taken(q.ns, g.name)
<1>1. PICK i \in IF Used(q.ns, d.idx) THEN Fresh(q.ns, last[q.ns]) ELSE {d.idx} :
        g = [d EXCEPT !.ns = q.ns, !.idx = i, !.flags = @ \ {"UP"}, !.master = 0,
                      !.name = IF Taken(q.ns, @) THEN q.name ELSE @]
  BY DEF Moved
<1>2. ~Used(q.ns, i)
  BY <1>1 DEF Fresh
<1>3. Taken(q.ns, d.name) => ~Taken(q.ns, q.name)
  <2>1. ~MoveError(d, q, "EEXIST")
    BY DEF Errno
  <2> QED
    BY <2>1 DEF MoveError
<1> HIDE DEF Taken
<1>4. /\ g.ns = q.ns /\ g.idx = i /\ DOMAIN g = DOMAIN d
      /\ g.name = IF Taken(q.ns, d.name) THEN q.name ELSE d.name
  BY <1>1 DEF Link
<1> QED
  BY <1>2, <1>3, <1>4

(* What SETLINK makes of the link it selects: itself, or a link under a    *)
(* name that was free.                                                     *)
LEMMA SetLinkMakes ==
  ASSUME KernelTypeOK, NEW n, NEW q, NEW e, RtmSetLink(n, q, e),
         ~UNCHANGED kernel \/ e = "ok"
  PROVE  \E d \in Lookup(n, q) : \E g \in Landed(d, q) : \E h :
           /\ d \in links /\ links' = (links \ {d}) \cup {h}
           /\ LeavesNs(d, q) => ~\E k \in Errno : MoveError(d, q, k)
           /\ h.ns = g.ns /\ h.idx = g.idx
           /\ h.name = g.name \/ (h.name = q.name /\ ~Taken(g.ns, q.name))
           /\ q.idx = 0 => h.name = g.name
           /\ DOMAIN g = DOMAIN d
<1>1. PICK d \in Lookup(n, q) :
        /\ LeavesNs(d, q) => ~\E k \in Errno : MoveError(d, q, k)
        /\ \E g \in Landed(d, q) :
             \E h \in {WithMtu(g, q), WithName(WithMtu(g, q), q),
                       WithRest(WithName(WithMtu(g, q), q), q)} :
               Changed(g, q, e, h) /\ links' = (links \ {d}) \cup {h}
  BY DEF RtmSetLink, Unselected, Missing, MoveError
<1>2. PICK g \in Landed(d, q) :
        \E h \in {WithMtu(g, q), WithName(WithMtu(g, q), q),
                  WithRest(WithName(WithMtu(g, q), q), q)} :
          Changed(g, q, e, h) /\ links' = (links \ {d}) \cup {h}
  BY <1>1
<1>3. PICK h \in {WithMtu(g, q), WithName(WithMtu(g, q), q),
                  WithRest(WithName(WithMtu(g, q), q), q)} :
        Changed(g, q, e, h) /\ links' = (links \ {d}) \cup {h}
  BY <1>2
<1>4. d \in links /\ d \in Link
  BY DEF Lookup, KernelTypeOK
<1>5. DOMAIN g = DOMAIN d
  BY <1>1, <1>4, MovedFree DEF Landed
<1> DEFINE w == WithMtu(g, q)
           r == WithName(w, q)
<1>6. /\ w.ns = g.ns /\ w.idx = g.idx /\ w.name = g.name /\ DOMAIN w = DOMAIN d
  BY <1>4, <1>5 DEF WithMtu, Link
<1>7. /\ r.ns = g.ns /\ r.idx = g.idx /\ DOMAIN r = DOMAIN d
      /\ r.name = IF Renames(w, q) THEN q.name ELSE g.name
  <2> HIDE DEF w
  <2> QED
    BY <1>4, <1>6 DEF WithName, Link
<1>8. Renames(w, q) <=> Renames(g, q)
  BY <1>6 DEF Renames
<1>9. LET s == WithRest(r, q) IN s.ns = r.ns /\ s.idx = r.idx /\ s.name = r.name
  <2> HIDE DEF r
  <2> QED
    BY <1>4, <1>7 DEF WithRest, Link
<1> HIDE DEF w, r
<1>10. h \in {w, r, WithRest(r, q)}
  BY <1>3 DEF w, r
<1>11. h = w \/ ~(Renames(g, q) /\ Taken(g.ns, q.name))
  BY <1>3 DEF Changed, w
<1>12. /\ h.ns = g.ns /\ h.idx = g.idx
       /\ h.name = g.name \/ (h.name = q.name /\ ~Taken(g.ns, q.name))
       /\ q.idx = 0 => h.name = g.name
  BY <1>6, <1>7, <1>8, <1>9, <1>10, <1>11 DEF Renames
<1> QED
  BY <1>1, <1>3, <1>4, <1>5, <1>12

LEMMA SetLinkNamesUnique ==
  ASSUME KernelTypeOK, NameUnique, NEW n, NEW q, NEW e, RtmSetLink(n, q, e)
  PROVE  NameUnique'
<1>1. CASE UNCHANGED kernel
  BY <1>1 DEF NameUnique, kernel
<1>2. CASE ~UNCHANGED kernel
  <2>1. PICK d \in Lookup(n, q) : \E g \in Landed(d, q) : \E h :
           /\ d \in links /\ links' = (links \ {d}) \cup {h}
           /\ LeavesNs(d, q) => ~\E k \in Errno : MoveError(d, q, k)
           /\ h.ns = g.ns
           /\ h.name = g.name \/ (h.name = q.name /\ ~Taken(g.ns, q.name))
    BY <1>2, SetLinkMakes
  <2>2. PICK g \in Landed(d, q) : \E h :
           /\ d \in links /\ links' = (links \ {d}) \cup {h}
           /\ LeavesNs(d, q) => ~\E k \in Errno : MoveError(d, q, k)
           /\ h.ns = g.ns
           /\ h.name = g.name \/ (h.name = q.name /\ ~Taken(g.ns, q.name))
    BY <2>1
  <2>3. PICK h :
           /\ d \in links /\ links' = (links \ {d}) \cup {h}
           /\ LeavesNs(d, q) => ~\E k \in Errno : MoveError(d, q, k)
           /\ h.ns = g.ns
           /\ h.name = g.name \/ (h.name = q.name /\ ~Taken(g.ns, q.name))
    BY <2>2
  <2>4. g = d \/ ~Taken(g.ns, g.name)
    <3>1. d \in Link
      BY <2>1 DEF KernelTypeOK
    <3> QED
      BY <2>3, <3>1, MovedFree DEF Landed
  <2> QED
    BY <2>3, <2>4 DEF NameUnique, Taken
<1> QED
  BY <1>1, <1>2

LEMMA DelLinkNamesUnique ==
  ASSUME KernelTypeOK, NameUnique, NEW n, NEW q, NEW e, RtmDelLink(n, q, e)
  PROVE  NameUnique'
<1>1. CASE UNCHANGED kernel
  BY <1>1 DEF NameUnique, kernel
<1>2. CASE ~UNCHANGED kernel
  <2>1. PICK d \in Lookup(n, q) :
          links' = {Released(x, Gone(d)) : x \in links \ Gone(d)}
    BY <1>2 DEF RtmDelLink
  <2>2. \A x \in links : LET y == Released(x, Gone(d)) IN
                         y.ns = x.ns /\ y.name = x.name
    BY DEF Released, Link, KernelTypeOK
  <2> QED
    BY <2>1, <2>2 DEF NameUnique
<1> QED
  BY <1>1, <1>2

LEMMA NameUniqueStep ==
  ASSUME TypeInv, NameUnique, [Next]_vars
  PROVE  NameUnique'
<1>1. CASE links' = links
  BY <1>1 DEF NameUnique
<1>2. CASE links' # links
  <2>1. PICK c \in Clients : Continue(c)
    <3>1. ASSUME NEW c \in Clients,
                 \/ Construct(c) \/ AssignMtu(c) \/ CallModify(c)
                 \/ CallPromisc(c) \/ CallUpdate(c) \/ CallGet(c)
          PROVE  links' = links
      BY <3>1 DEF Construct, AssignMtu, CallModify, CallPromisc, CallUpdate,
                  CallGet, Invoke
    <3> QED
      BY <1>2, <3>1 DEF Next, vars
  <2>2. \E n, q, e : RtmNewLink(n, q, e) \/ RtmSetLink(n, q, e) \/ RtmDelLink(n, q, e)
    <3>1. ASSUME NEW type \in {"NEWLINK", "SETLINK", "DELLINK"}, NEW n, NEW q, NEW e,
                 NetlinkUpdate(type, n, q, e)
          PROVE  \E k : RtmNewLink(n, q, k) \/ RtmSetLink(n, q, k) \/ RtmDelLink(n, q, k)
      BY <1>2, <3>1 DEF NetlinkUpdate, kernel
    <3> QED
      BY <1>2, <2>1, <3>1
      DEF Continue, SendNewLink, SendSetLink, SendDelLink, SendUpdate, ReadBack,
          LeadingRead, kernel
  <2> QED
    BY <2>2, NewLinkNamesUnique, SetLinkNamesUnique, DelLinkNamesUnique
    DEF TypeInv, TypeOK
<1> QED
  BY <1>1, <1>2

(* An object that has an index was read, and a read clears Info.Ns.        *)
LEMMA NoNsStep ==
  ASSUME TypeInv, ReadHasNoNs, [Next]_vars
  PROVE  ReadHasNoNs'
<1>1. CASE UNCHANGED vars
  BY <1>1 DEF vars, ReadHasNoNs
<1>2. ASSUME NEW c \in Clients,
             \/ Construct(c) \/ AssignMtu(c) \/ CallModify(c) \/ CallPromisc(c)
             \/ CallUpdate(c) \/ CallGet(c) \/ Continue(c)
      PROVE  ReadHasNoNs'
  <2>1. obj \in [Clients -> Object]
    BY DEF TypeInv, TypeOK
  <2>2. CASE obj' = obj
    BY <2>2 DEF ReadHasNoNs
  <2>3. ASSUME NEW o, obj' = [obj EXCEPT ![c] = o], o.idx # 0 => o.ns = NoNs
        PROVE  ReadHasNoNs'
    BY <2>1, <2>3 DEF ReadHasNoNs
  <2>4. CASE Construct(c)
    <3>1. PICK x \in Names, n \in LinkNs, k \in Kinds,
               m \in {0} \cup {obj[b].idx : b \in {b \in Clients : Enslave}} :
            \E p \in IF k = "veth" THEN Names ELSE {NoName} :
              obj' = [obj EXCEPT ![c] = NewLink(@, x, n, k, p, m)]
      BY <2>4 DEF Construct
    <3>2. PICK p \in IF k = "veth" THEN Names ELSE {NoName} :
            obj' = [obj EXCEPT ![c] = NewLink(obj[c], x, n, k, p, m)]
      BY <3>1
    <3>3. NewLink(obj[c], x, n, k, p, m).idx = 0
      BY DEF NewLink, EmptyLink
    <3> QED
      BY <2>3, <3>2, <3>3
  <2>5. CASE AssignMtu(c)
    <3>1. PICK m : obj' = [obj EXCEPT ![c] = [obj[c] EXCEPT !.mtu = m]]
      BY <2>5 DEF AssignMtu
    <3>2. /\ [obj[c] EXCEPT !.mtu = m].idx = obj[c].idx
          /\ [obj[c] EXCEPT !.mtu = m].ns = obj[c].ns
      BY <2>1 DEF Object
    <3> QED
      BY <2>3, <3>1, <3>2 DEF ReadHasNoNs
  <2>6. CASE CallPromisc(c)
    <3>1. PICK s, f : obj' = [obj EXCEPT ![c] = [obj[c] EXCEPT !.change = s, !.flags = f]]
      <4>1. PICK on \in BOOLEAN :
              obj' = [obj EXCEPT ![c].change = @ \cup {"PROMISC"},
                                 ![c].flags = IF on THEN @ \cup {"PROMISC"}
                                              ELSE @ \ {"PROMISC"}]
        BY <2>6 DEF CallPromisc
      <4>2. obj' = [obj EXCEPT ![c] = [obj[c] EXCEPT
                      !.change = obj[c].change \cup {"PROMISC"},
                      !.flags = IF on THEN obj[c].flags \cup {"PROMISC"}
                                ELSE obj[c].flags \ {"PROMISC"}]]
        BY <2>1, <4>1 DEF Object
      <4> QED
        BY <4>2
    <3>2. /\ [obj[c] EXCEPT !.change = s, !.flags = f].idx = obj[c].idx
          /\ [obj[c] EXCEPT !.change = s, !.flags = f].ns = obj[c].ns
      BY <2>1 DEF Object
    <3> DEFINE o == [obj[c] EXCEPT !.change = s, !.flags = f]
    <3> HIDE DEF o
    <3>3. obj' = [obj EXCEPT ![c] = o] /\ (o.idx # 0 => o.ns = NoNs)
      BY <3>1, <3>2 DEF ReadHasNoNs, o
    <3> QED
      BY <2>3, <3>3
  <2>7. CASE CallGet(c)
    <3>1. \/ \E y : obj' = [obj EXCEPT ![c] = [EmptyLink EXCEPT !.name = y]]
          \/ \E i : obj' = [obj EXCEPT ![c] = [EmptyLink EXCEPT !.idx = i]]
      BY <2>7 DEF CallGet
    <3>2. \A y : [EmptyLink EXCEPT !.name = y].ns = NoNs
      BY DEF EmptyLink
    <3>3. \A i : [EmptyLink EXCEPT !.idx = i].ns = NoNs
      BY DEF EmptyLink
    <3> QED
      BY <2>3, <3>1, <3>2, <3>3
  <2>8. ASSUME NEW n, NEW r \in Read(obj[c], n)
        PROVE  r.obj.idx # 0 => r.obj.ns = NoNs
    <3>1. \A d : Unmarshal(d).ns = NoNs
      BY DEF Unmarshal, EmptyLink
    <3> QED
      BY <3>1, ReadOutcome DEF ReadHasNoNs
  <2>9. CASE ReadBack(c)
    <3>1. PICK r \in Read(obj[c], ReadNs(c)) : obj' = [obj EXCEPT ![c] = r.obj]
      BY <2>9 DEF ReadBack, Refresh
    <3> QED
      BY <2>3, <2>8, <3>1
  <2>10. CASE LeadingRead(c)
    <3>1. PICK r \in Read(obj[c], call[c].ns) :
            IF r.err = "ok" /\ Sends(call[c].op, r.obj)
            THEN obj' = [obj EXCEPT ![c] = [r EXCEPT !.obj = Edited(call[c].op,
                                                                   call[c].arg, @)].obj]
            ELSE obj' = [obj EXCEPT ![c] = r.obj]
      BY <2>10 DEF LeadingRead, Refresh
    <3>2. CASE r.err = "ok" /\ Sends(call[c].op, r.obj)
      <4> DEFINE o == Edited(call[c].op, call[c].arg, r.obj)
      <4>1. PICK d : r.obj = Unmarshal(d)
        BY <3>2, ReadOutcome
      <4>2. DOMAIN r.obj = DOMAIN EmptyLink /\ r.obj.ns = NoNs
        BY <4>1 DEF Unmarshal, EmptyLink
      <4>3. call[c].op \in {"Up", "Down", "SetMtu", "SetMaster"}
        BY <3>2 DEF Sends
      <4>4. o.ns = NoNs
        BY <4>2, <4>3 DEF Edited, EmptyLink
      <4>5. [r EXCEPT !.obj = Edited(call[c].op, call[c].arg, @)].obj = o
        BY <3>2 DEF Read
      <4> HIDE DEF o
      <4> QED
        BY <2>3, <3>1, <3>2, <4>4, <4>5
    <3>3. CASE ~(r.err = "ok" /\ Sends(call[c].op, r.obj))
      BY <2>3, <2>8, <3>1, <3>3
    <3> QED
      BY <3>2, <3>3
  <2> QED
    BY <1>2, <2>2, <2>4, <2>5, <2>6, <2>7, <2>9, <2>10
    DEF CallModify, CallUpdate, Continue, SendNewLink, SendSetLink, SendDelLink,
        SendUpdate
<1> QED
  BY <1>1, <1>2 DEF Next

(* The exchange of a Set, and what it makes of the links.                  *)
LEMMA SetMakes ==
  ASSUME TypeInv, ReadHasNoNs, [Next]_vars, NEW c \in Clients, Steps(c),
         call[c].op = "Set", ~UNCHANGED kernel
  PROVE  LET q == Marshal(obj[c]) IN
         \E k : /\ RtmSetLink(call[c].ns, q, k)
                /\ ret'[c] \in {k, "EIO"}
<1>1. PICK e \in Results : /\ pc[c] \in {"modify", "update"}
                           /\ NetlinkUpdate(Type(c), call[c].ns, Message(c), e)
                           /\ Type(c) = "SETLINK" => ret'[c] = e
  BY ExchangeChanges
<1>2. pc[c] = "modify"
  BY <1>1 DEF TypeInv, CallOK
<1>3. Type(c) = "SETLINK" /\ Message(c) = Marshal(obj[c])
  BY <1>2 DEF Type, Message
<1> QED
  BY <1>1, <1>3 DEF NetlinkUpdate

LEMMA StepSetLeavesNone ==
  ASSUME TypeInv, ReadHasNoNs, [Next]_vars, NEW c \in Clients, Steps(c),
         call[c].op = "Set", NEW x \in links, ~(Used(x.ns, x.idx)')
  PROVE  \E h \in links' \ links :
           h.ns = obj[c].ns /\ h.name \in {x.name, obj[c].name}
<1>1. ~UNCHANGED kernel
  BY DEF Used, kernel
<1> DEFINE q == Marshal(obj[c])
           n == call[c].ns
<1>2. PICK k : RtmSetLink(n, q, k)
  BY <1>1, SetMakes
<1>3. KernelTypeOK /\ obj[c] \in Object
  BY DEF TypeInv, TypeOK
<1>4. q.ns # NoNs => q.ns = obj[c].ns /\ q.name = obj[c].name
  BY <1>3 DEF Marshal, EmptyLink, Object
<1> HIDE DEF q, n
<1>5. PICK d \in Lookup(n, q) : \E g \in Landed(d, q) : \E h :
        /\ d \in links /\ links' = (links \ {d}) \cup {h}
        /\ LeavesNs(d, q) => ~\E e \in Errno : MoveError(d, q, e)
        /\ h.ns = g.ns /\ h.idx = g.idx
        /\ h.name = g.name \/ (h.name = q.name /\ ~Taken(g.ns, q.name))
        /\ q.idx = 0 => h.name = g.name
  BY <1>1, <1>2, <1>3, SetLinkMakes
<1>6. PICK g \in Landed(d, q) : \E h :
        /\ links' = (links \ {d}) \cup {h}
        /\ h.ns = g.ns /\ h.idx = g.idx
        /\ h.name \in {g.name, q.name}
  BY <1>5
<1>7. PICK h : /\ links' = (links \ {d}) \cup {h}
               /\ h.ns = g.ns /\ h.idx = g.idx
               /\ h.name \in {g.name, q.name}
  BY <1>6
<1>8. x = d
  BY <1>7 DEF Used
<1>9. LeavesNs(d, q)
  BY <1>7, <1>8 DEF Landed, Used
<1>10. /\ g.ns = q.ns /\ ~Used(q.ns, g.idx)
       /\ g.name \in {d.name, q.name}
  BY <1>3, <1>5, <1>9, MovedFree DEF Landed, KernelTypeOK
<1>11. h \notin links
  BY <1>7, <1>10 DEF Used
<1> QED
  BY <1>4, <1>7, <1>8, <1>9, <1>10, <1>11 DEF LeavesNs

LEMMA StepSetMoves ==
  ASSUME TypeInv, BacksNew, ReadHasNoNs, NameUnique, [Next]_vars, NEW c \in Clients,
         Steps(c), call[c].op = "Set", Returns(c), ret'[c] = "ok",
         obj[c].change = {}, obj[c].ns \notin {NoNs, call[c].ns}
  PROVE  /\ \E h \in links' : h.ns = obj[c].ns /\ h.name = obj[c].name
         /\ ~\E h \in links' : h.ns = call[c].ns /\ h.name = obj[c].name
<1> DEFINE q == Marshal(obj[c])
           n == call[c].ns
<1>1. pc[c] = "modify" /\ SendSetLink(c)
  <2>1. PICK b \in Clients :
          \/ Construct(b) \/ AssignMtu(b)
          \/ CallModify(b) \/ CallPromisc(b) \/ CallUpdate(b) \/ CallGet(b)
          \/ Continue(b)
    BY DEF Next, vars, Returns
  <2>2. pc \in [Clients -> {"idle", "modify", "readback", "read", "update"}]
    BY DEF TypeInv, TypeOK
  <2>3. b = c
    <3>1. \A x \in Clients \ {b} : pc'[x] = pc[x]
      BY <2>1, <2>2
      DEF Construct, AssignMtu, CallModify, CallPromisc, CallUpdate, CallGet, Invoke,
          Return, Continue, SendNewLink, ReadBack, SendSetLink, SendDelLink,
          LeadingRead, SendUpdate
    <3> QED
      BY <3>1 DEF Returns
  <2>4. Continue(c)
    BY <2>1, <2>3 DEF Construct, AssignMtu, CallModify, CallPromisc, CallUpdate,
                      CallGet, Invoke, Returns
  <2> QED
    BY <2>4 DEF Continue, SendNewLink, ReadBack, SendSetLink, SendDelLink,
                LeadingRead, SendUpdate, TypeInv, CallOK, BacksNew
<1>2. /\ n \in Namespaces /\ KernelTypeOK /\ obj[c] \in Object
      /\ ret \in [Clients -> Results]
  BY <1>1 DEF TypeInv, TypeOK, CallOK
<1>3. q.idx = 0 /\ q.name = obj[c].name /\ q.ns = obj[c].ns
  BY <1>2 DEF Marshal, Object, ReadHasNoNs
<1>4. RtmSetLink(n, q, "ok")
  <2>1. PICK e \in Results : NetlinkUpdate("SETLINK", n, q, e) /\ Return(c, e)
    BY <1>1 DEF SendSetLink
  <2>2. e = "ok"
    BY <1>2, <2>1 DEF Return
  <2> QED
    BY <2>1, <2>2 DEF NetlinkUpdate
<1> HIDE DEF q, n
<1>5. PICK d \in Lookup(n, q) : \E g \in Landed(d, q) : \E h :
        /\ d \in links /\ links' = (links \ {d}) \cup {h}
        /\ LeavesNs(d, q) => ~\E e \in Errno : MoveError(d, q, e)
        /\ h.ns = g.ns /\ h.idx = g.idx
        /\ h.name = g.name \/ (h.name = q.name /\ ~Taken(g.ns, q.name))
        /\ q.idx = 0 => h.name = g.name
  BY <1>2, <1>4, SetLinkMakes
<1>6. PICK g \in Landed(d, q), h \in links' :
        /\ links' = (links \ {d}) \cup {h}
        /\ h.ns = g.ns /\ h.name = g.name
  BY <1>3, <1>5
<1>7. d.ns = n /\ d.name = q.name /\ d \in links /\ d \in Link
  BY <1>2, <1>3, <1>5 DEF Lookup, KernelTypeOK
<1>8. LeavesNs(d, q)
  BY <1>3, <1>7 DEF LeavesNs, n
<1>9. g.ns = q.ns /\ g.name = q.name
  BY <1>5, <1>7, <1>8, MovedFree DEF Landed
<1>10. ~\E y \in links' : y.ns = n /\ y.name = q.name
  BY <1>3, <1>6, <1>7, <1>9 DEF NameUnique, n
<1> QED
  BY <1>3, <1>6, <1>9, <1>10 DEF n, q

(* Set moves a link whole, in every deployment: whatever the clients do,   *)
(* with whatever objects and contexts, and whatever sockets get lost.      *)
THEOREM SetAlwaysMoves == Spec => SetMoves
<1>1. Init => TypeInv /\ BacksNew /\ ReadHasNoNs /\ NameUnique
  BY TypeInit DEF Init, KernelInit, BacksNew, ReadHasNoNs, NameUnique, EmptyLink
<1>2. TypeInv /\ BacksNew /\ ReadHasNoNs /\ NameUnique /\ [Next]_vars
      => TypeInv' /\ BacksNew' /\ ReadHasNoNs' /\ NameUnique'
  BY TypeStep, BacksStep, NoNsStep, NameUniqueStep
<1>3. TypeInv /\ BacksNew /\ ReadHasNoNs /\ NameUnique /\ [Next]_vars =>
        [\A c \in Clients : Steps(c) /\ call[c].op = "Set" =>
           /\ Returns(c) /\ ret'[c] = "ok" /\ obj[c].change = {}
              /\ obj[c].ns \notin {NoNs, call[c].ns}
              => /\ \E h \in links' : h.ns = obj[c].ns /\ h.name = obj[c].name
                 /\ ~\E h \in links' : h.ns = call[c].ns /\ h.name = obj[c].name
           /\ \A d \in links : ~(Used(d.ns, d.idx)')
              => \E h \in links' \ links :
                   h.ns = obj[c].ns /\ h.name \in {d.name, obj[c].name}]_vars
  BY StepSetMoves, StepSetLeavesNone
<1> QED
  BY <1>1, <1>2, <1>3, PTL DEF Spec, SetMoves
=============================================================================
