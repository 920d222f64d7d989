---------------------------- MODULE RtnlVlanProofs ----------------------------
(***************************************************************************)
(* Proofs about RtnlVlan, for any number of clients, names, indices and    *)
(* VLANs, and any faults: SetVlan that returns nil has done what it says,  *)
(* and it changes nothing but its own VLAN of the device it names.         *)
(***************************************************************************)
EXTENDS RtnlVlanRefinement, TLAPS

(* A name and an index each denote at most one device.                     *)
Unique == \A d, e \in devs : d.idx = e.idx \/ d.name = e.name => d = e

(* Indices are handed out once: what devices and objects hold is old.      *)
HandedOut == /\ \A d \in devs : d.idx <= last
             /\ \A c \in Clients : obj[c].idx <= last

(* The device of an object's index, if there is one, has its name.         *)
Agrees == \A c \in Clients : \A d \in devs :
            d.idx = obj[c].idx => d.name = obj[c].name

(* SetVlan has returned by now if it was asked about VLAN 0.               *)
Asking == \A c \in Clients : pc[c] # "idle" => call[c].vid # 0

VlanInv == TypeOK /\ Unique /\ HandedOut /\ Agrees /\ Asking

-----------------------------------------------------------------------------
LEMMA MaxIndexType == MaxIndex \in Nat
BY VlanAssumption

(* What TypeOK says of the devices and of one client, on its own.          *)
LEMMA DeviceType ==
  ASSUME TypeOK, NEW d \in devs
  PROVE  d \in Device /\ d.idx \in 1 .. MaxIndex /\ d.name \in Names
BY DEF TypeOK, Device, Indices

LEMMA LastType ==
  ASSUME TypeOK
  PROVE  last \in Nat /\ last <= MaxIndex
BY MaxIndexType DEF TypeOK

LEMMA AsksAreCalls == Asks \subseteq Call
<1>1. Arguments \subseteq Call
  BY DEF Arguments, Call
<1> QED
  BY <1>1, AsksAssumption

LEMMA InitVlan == Init => VlanInv
<1> SUFFICES ASSUME Init PROVE VlanInv
  OBVIOUS
<1>1. obj \in [Clients -> Object]
  <2>1. ASSUME NEW x \in Names
        PROVE  [idx |-> 0, name |-> x, untagged |-> {}, tagged |-> {}] \in Object
    BY MaxIndexType DEF Object
  <2> QED
    BY <2>1 DEF Init
<1>2. NoCall \in Call
  BY DEF NoCall, Call
<1>3. devs \subseteq Device /\ last \in 0 .. MaxIndex
  BY MaxIndexType DEF Init
<1>4. TypeOK
  BY <1>1, <1>2, <1>3 DEF Init, TypeOK
<1> QED
  BY <1>4, MaxIndexType DEF Init, VlanInv, Unique, HandedOut, Agrees, Asking

(* What Return does to the variables it touches.                           *)
LEMMA ReturnType ==
  ASSUME TypeOK, NEW c \in Clients, NEW e \in Errors \cup {"ok"}, Return(c, e)
  PROVE  /\ pc' \in [Clients -> {"idle", "read", "send"}]
         /\ call' \in [Clients -> Call]
         /\ ret' \in [Clients -> Errors \cup {"ok"}]
         /\ \A b \in Clients : b # c => pc'[b] = pc[b] /\ call'[b] = call[b]
         /\ pc'[c] = "idle" /\ ret'[c] = e
BY DEF Return, TypeOK, Call, NoCall

-----------------------------------------------------------------------------
(* The other programs.                                                     *)

LEMMA EnvironmentKeeps == VlanInv /\ Environment => VlanInv'
<1> SUFFICES ASSUME VlanInv, Environment PROVE VlanInv'
  OBVIOUS
<1> USE DEF VlanInv
<1>1. UNCHANGED <<obj, pc, call, ret>>
  BY DEF Environment
<1>2. CASE CreateDevice
  <2>1. last < MaxIndex /\ last' = last + 1
    BY <1>2 DEF CreateDevice
  <2>2. PICK x \in Names \ {d.name : d \in devs} :
          \E k \in {"soft", "bridge"} :
            devs' = devs \cup {IF k = "soft" THEN Plain(last', x, k)
                                             ELSE Start(Plain(last', x, k))}
    BY <1>2 DEF CreateDevice
  <2>3. PICK g \in Device : /\ devs' = devs \cup {g}
                            /\ g.idx = last + 1 /\ g.name = x
    <3>1. last + 1 \in Indices /\ x \in Names
      BY <2>1, <2>2, MaxIndexType DEF TypeOK, Indices
    <3>2. ASSUME NEW k \in {"soft", "bridge"}
          PROVE  /\ Plain(last', x, k) \in Device
                 /\ Plain(last', x, k).idx = last + 1
                 /\ Plain(last', x, k).name = x
                 /\ Start(Plain(last', x, k)) \in Device
                 /\ Start(Plain(last', x, k)).idx = last + 1
                 /\ Start(Plain(last', x, k)).name = x
      BY <2>1, <3>1 DEF Plain, Start, Device, Vlans, DefaultVid
    <3>3. PICK k \in {"soft", "bridge"} :
            devs' = devs \cup {IF k = "soft" THEN Plain(last', x, k)
                                             ELSE Start(Plain(last', x, k))}
      BY <2>2
    <3>4. CASE k = "soft"
      BY <3>2, <3>3, <3>4
    <3>5. CASE k = "bridge"
      BY <3>2, <3>3, <3>5
    <3> QED
      BY <3>4, <3>5
  <2>4. \A d \in devs : d.idx # g.idx /\ d.name # g.name
    BY <2>2, <2>3 DEF HandedOut, TypeOK, Device, Indices
  <2>5. TypeOK'
    <3>1. last' \in 0 .. MaxIndex
      BY <2>1, LastType, MaxIndexType
    <3>2. devs' \subseteq Device
      BY <2>3 DEF TypeOK
    <3> QED
      BY <1>1, <3>1, <3>2 DEF TypeOK
  <2>6. Unique'
    BY <2>3, <2>4 DEF Unique
  <2>7. HandedOut' /\ Agrees' /\ Asking'
    BY <1>1, <2>1, <2>3, MaxIndexType, LastType
       DEF HandedOut, Agrees, Asking, TypeOK, Device, Object, Indices
  <2> QED
    BY <2>5, <2>6, <2>7
<1>3. CASE ChangeDevice
  <2>1. PICK d \in devs :
          \/ devs' = devs \ {d}
          \/ \E g \in Device : /\ devs' = (devs \ {d}) \cup {g}
                               /\ g.idx = d.idx /\ g.name = d.name
    <3>1. PICK d \in devs :
            \/ devs' = devs \ {d}
            \/ devs' = (devs \ {d}) \cup {Start([d EXCEPT !.port = TRUE])}
            \/ devs' = (devs \ {d}) \cup {Plain(d.idx, d.name, d.kind)}
      BY <1>3 DEF ChangeDevice
    <3>2. d \in Device
      BY DEF TypeOK
    <3>3. /\ Start([d EXCEPT !.port = TRUE]) \in Device
          /\ Start([d EXCEPT !.port = TRUE]).idx = d.idx
          /\ Start([d EXCEPT !.port = TRUE]).name = d.name
      BY <3>2 DEF Start, Device, Vlans, DefaultVid
    <3>4. /\ Plain(d.idx, d.name, d.kind) \in Device
          /\ Plain(d.idx, d.name, d.kind).idx = d.idx
          /\ Plain(d.idx, d.name, d.kind).name = d.name
      BY <3>2 DEF Plain, Device
    <3> QED
      BY <3>1, <3>3, <3>4
  <2>2. UNCHANGED last
    BY <1>3 DEF ChangeDevice
  <2>3. TypeOK'
    BY <1>1, <2>1, <2>2 DEF TypeOK
  <2>4. Unique'
    BY <2>1 DEF Unique
  <2>5. HandedOut' /\ Agrees' /\ Asking'
    BY <1>1, <2>1, <2>2 DEF HandedOut, Agrees, Asking
  <2> QED
    BY <2>3, <2>4, <2>5
<1> QED
  BY <1>2, <1>3 DEF Environment

-----------------------------------------------------------------------------
(* The clients' own steps.                                                 *)

LEMMA ObtainKeeps == \A c \in Clients : VlanInv /\ Obtain(c) => VlanInv'
<1> SUFFICES ASSUME NEW c \in Clients, VlanInv, Obtain(c) PROVE VlanInv'
  OBVIOUS
<1> USE DEF VlanInv
<1>1. /\ UNCHANGED <<devs, last, pc, call, ret>>
      /\ \A b \in Clients : b # c => obj'[b] = obj[b]
  BY DEF Obtain, TypeOK
<1>2. /\ obj' \in [Clients -> Object]
      /\ obj'[c].idx <= last
      /\ \A d \in devs : d.idx = obj'[c].idx => d.name = obj'[c].name
  <2>1. CASE \E x \in Names :
               obj' = [obj EXCEPT ![c] = [idx |-> 0, name |-> x,
                                          untagged |-> {}, tagged |-> {}]]
    <3>1. PICK x \in Names :
            obj' = [obj EXCEPT ![c] = [idx |-> 0, name |-> x,
                                       untagged |-> {}, tagged |-> {}]]
      BY <2>1
    <3>2. [idx |-> 0, name |-> x, untagged |-> {}, tagged |-> {}] \in Object
      BY MaxIndexType DEF Object
    <3>3. \A d \in devs : d.idx # 0
      BY DeviceType, MaxIndexType
    <3> QED
      BY <3>1, <3>2, <3>3, LastType DEF TypeOK
  <2>2. CASE \E d \in devs, m \in Misread :
               obj' = [obj EXCEPT ![c] = [idx |-> d.idx, name |-> d.name,
                                          untagged |-> m.untagged,
                                          tagged |-> m.tagged]]
    <3>1. PICK d \in devs, m \in Misread :
            obj' = [obj EXCEPT ![c] = [idx |-> d.idx, name |-> d.name,
                                       untagged |-> m.untagged,
                                       tagged |-> m.tagged]]
      BY <2>2
    <3>2. m.untagged \subseteq {DefaultVid} /\ m.tagged \subseteq {DefaultVid}
      BY DEF Misread
    <3>3. d.idx \in 0 .. MaxIndex /\ d.name \in Names /\ d.idx <= last
      BY DeviceType, MaxIndexType DEF HandedOut
    <3>4. [idx |-> d.idx, name |-> d.name, untagged |-> m.untagged,
           tagged |-> m.tagged] \in Object
      BY <3>2, <3>3 DEF Object, Vlans
    <3>5. obj'[c].idx = d.idx /\ obj'[c].name = d.name
      BY <3>1 DEF TypeOK
    <3> QED
      BY <3>1, <3>3, <3>4, <3>5 DEF TypeOK, Unique
  <2> QED
    BY <2>1, <2>2 DEF Obtain
<1>3. TypeOK'
  BY <1>1, <1>2 DEF TypeOK
<1> QED
  BY <1>1, <1>2, <1>3 DEF Unique, HandedOut, Agrees, Asking

LEMMA CallKeeps == \A c \in Clients : VlanInv /\ CallSetVlan(c) => VlanInv'
<1> SUFFICES ASSUME NEW c \in Clients, VlanInv, CallSetVlan(c) PROVE VlanInv'
  OBVIOUS
<1> USE DEF VlanInv
<1>1. UNCHANGED <<devs, last, obj>>
  BY DEF CallSetVlan
<1>2. PICK k \in Call :
        IF k.vid = 0 THEN Return(c, "ok")
        ELSE /\ pc' = [pc EXCEPT ![c] = "read"]
             /\ call' = [call EXCEPT ![c] = k]
             /\ UNCHANGED ret
  BY AsksAreCalls DEF CallSetVlan, Ignored
<1>3. CASE k.vid = 0
  <2>1. Return(c, "ok")
    BY <1>2, <1>3
  <2> QED
    BY <1>1, <2>1, ReturnType
       DEF TypeOK, Unique, HandedOut, Agrees, Asking
<1>4. CASE k.vid # 0
  <2>1. TypeOK'
    BY <1>1, <1>2, <1>4 DEF TypeOK
  <2> QED
    BY <1>1, <1>2, <1>4, <2>1
       DEF TypeOK, Unique, HandedOut, Agrees, Asking
<1> QED
  BY <1>3, <1>4

(* The Read of SetVlan: the index and the name of the object stay.         *)
LEMMA ReadKeeps == \A c \in Clients : VlanInv /\ ReadVlans(c) => VlanInv'
<1> SUFFICES ASSUME NEW c \in Clients, VlanInv, ReadVlans(c) PROVE VlanInv'
  OBVIOUS
<1> USE DEF VlanInv
<1>1. UNCHANGED <<devs, last>> /\ pc[c] = "read" /\ call[c] \in Call
  BY DEF ReadVlans, TypeOK
<1>2. CASE UNCHANGED obj /\ \E e \in {"EIO", "notfound"} : Return(c, e)
  <2>1. PICK e \in {"EIO", "notfound"} : Return(c, e)
    BY <1>2
  <2> QED
    BY <1>1, <1>2, <2>1, ReturnType
       DEF Errors, TypeOK, Unique, HandedOut, Agrees, Asking
<1>3. CASE \E d \in BridgeLinks(obj[c].name) :
             LET o == WithVlans(obj[c], d) IN
             IF Wanted(call[c], o)
             THEN /\ obj' = [obj EXCEPT ![c] = IF call[c].unset THEN o
                                               ELSE Append(call[c], o)]
                  /\ pc' = [pc EXCEPT ![c] = "send"]
                  /\ UNCHANGED <<call, ret>>
             ELSE obj' = [obj EXCEPT ![c] = o] /\ Return(c, "ok")
  <2>1. PICK d \in BridgeLinks(obj[c].name) :
             LET o == WithVlans(obj[c], d) IN
             IF Wanted(call[c], o)
             THEN /\ obj' = [obj EXCEPT ![c] = IF call[c].unset THEN o
                                               ELSE Append(call[c], o)]
                  /\ pc' = [pc EXCEPT ![c] = "send"]
                  /\ UNCHANGED <<call, ret>>
             ELSE obj' = [obj EXCEPT ![c] = o] /\ Return(c, "ok")
    BY <1>3
  <2> DEFINE o == WithVlans(obj[c], d)
  <2>2. d \in Device /\ obj[c] \in Object /\ call[c].vid \in Vids \ {0}
    BY <1>1 DEF BridgeLinks, TypeOK, Asking, Call
  <2>3. o \in Object /\ o.idx = obj[c].idx /\ o.name = obj[c].name
    BY <2>2 DEF WithVlans, Object, Device
  <2>4. /\ Append(call[c], o) \in Object
        /\ Append(call[c], o).idx = o.idx /\ Append(call[c], o).name = o.name
    BY <2>2, <2>3 DEF Append, Object
  <2>5. PICK p \in Object : /\ obj' = [obj EXCEPT ![c] = p]
                            /\ p.idx = obj[c].idx /\ p.name = obj[c].name
    BY <2>1, <2>3, <2>4
  <2>6. /\ obj' \in [Clients -> Object]
        /\ \A b \in Clients : obj'[b].idx = obj[b].idx /\ obj'[b].name = obj[b].name
    BY <2>5 DEF TypeOK
  <2>7. HandedOut' /\ Agrees' /\ Unique'
    BY <1>1, <2>6 DEF HandedOut, Agrees, Unique
  <2>8. CASE Return(c, "ok")
    BY <1>1, <2>6, <2>7, <2>8, ReturnType DEF TypeOK, Asking
  <2>9. CASE pc' = [pc EXCEPT ![c] = "send"] /\ UNCHANGED <<call, ret>>
    <3>1. TypeOK'
      BY <1>1, <2>6, <2>9 DEF TypeOK
    <3> QED
      BY <1>1, <2>7, <2>9, <3>1 DEF TypeOK, Asking
  <2> QED
    BY <2>1, <2>8, <2>9
<1> QED
  BY <1>2, <1>3 DEF ReadVlans

(* What a request does to the device it is for: the VLAN is set, or is not *)
(* set any more, and all other fields and VLANs stay.                      *)
After(k, d, o) == IF k.unset THEN VlanDeleted(d, VlanRequest(k, o))
                             ELSE VlanAdded(d, VlanRequest(k, o))

LEMMA AfterDevice ==
  ASSUME NEW k \in Call, NEW o, NEW d \in Device,
         k.vid \in 1 .. MaxVid, k.vid \in Vids
  PROVE  /\ After(k, d, o) \in Device
         /\ After(k, d, o).idx = d.idx /\ After(k, d, o).name = d.name
         /\ After(k, d, o).kind = d.kind /\ After(k, d, o).port = d.port
         /\ After(k, d, o).untagged \ {k.vid} = d.untagged \ {k.vid}
         /\ After(k, d, o).tagged \ {k.vid} = d.tagged \ {k.vid}
         /\ After(k, d, o).pvid # d.pvid => k.vid \in {After(k, d, o).pvid, d.pvid}
         /\ InList(k, After(k, d, o)) <=> ~k.unset
<1>1. k.vid \in Vlans
  BY DEF Vlans
<1>2. (CHOOSE v \in {k.vid} : TRUE) = k.vid
  OBVIOUS
<1>3. CASE k.unset
  BY <1>1, <1>3
     DEF After, VlanRequest, VlanDeleted, Device, InList
<1>4. CASE ~k.unset /\ k.untagged
  BY <1>1, <1>2, <1>4, ZenonT(60)
     DEF After, VlanRequest, VlanAdded, Device, InList, Call
<1>5. CASE ~k.unset /\ ~k.untagged
  BY <1>1, <1>2, <1>5
     DEF After, VlanRequest, VlanAdded, Device, InList, Call
<1> QED
  BY <1>3, <1>4, <1>5

(* A SendVlan leaves the devices as they are, and then it does not return  *)
(* nil, or changes the device of the object's index as After says.         *)
LEMMA SendEffect ==
  ASSUME VlanInv, NEW c \in Clients, SendVlan(c)
  PROVE  /\ pc[c] = "send" /\ UNCHANGED <<last, obj>>
         /\ \E e \in Errors \cup {"ok"} :
              /\ Return(c, e)
              /\ \/ UNCHANGED devs /\ e # "ok"
                 \/ \E d \in devs :
                      /\ d.idx = obj[c].idx
                      /\ d.kind = "bridge" \/ d.port
                      /\ call[c].vid \in 1 .. MaxVid
                      /\ devs' = (devs \ {d}) \cup {After(call[c], d, obj[c])}
<1>1. PICK e \in Errors \cup {"ok"} :
        /\ \/ "dial" \in Faults /\ e = "EIO" /\ UNCHANGED devs
           \/ \E k \in Errors \cup {"ok"} :
                /\ RtmVlan(VlanRequest(call[c], obj[c]), k)
                /\ e = k \/ ("recv" \in Faults /\ e = "EIO")
        /\ Return(c, e)
  BY DEF SendVlan
<1> DEFINE q == VlanRequest(call[c], obj[c])
<1>2. CASE UNCHANGED devs /\ e # "ok"
  BY <1>1, <1>2 DEF SendVlan
<1>3. CASE \E k \in Errors \cup {"ok"} :
             RtmVlan(q, k) /\ (e = k \/ e = "EIO")
  <2>1. PICK k \in Errors \cup {"ok"} : RtmVlan(q, k) /\ (e = k \/ e = "EIO")
    BY <1>3
  <2>2. CASE RtmVlanError(q, k) /\ UNCHANGED devs
    BY <1>1, <2>1, <2>2 DEF RtmVlanError, SendVlan
  <2>3. CASE /\ ~\E i \in Errors : RtmVlanError(q, i)
             /\ \E d \in devs :
                  /\ d.idx = q.idx
                  /\ devs' = (devs \ {d}) \cup
                             {IF q.type = "DELLINK" THEN VlanDeleted(d, q)
                                                    ELSE VlanAdded(d, q)}
    <3>1. PICK d \in devs :
            /\ d.idx = q.idx
            /\ devs' = (devs \ {d}) \cup
                       {IF q.type = "DELLINK" THEN VlanDeleted(d, q)
                                              ELSE VlanAdded(d, q)}
      BY <2>3
    <3>2. ~RtmVlanError(q, "EINVAL") /\ ~RtmVlanError(q, "EOPNOTSUPP")
      BY <2>3 DEF Errors
    <3>3. q.vids \subseteq 1 .. MaxVid
      BY <3>1, <3>2 DEF RtmVlanError
    <3>4. q.idx = obj[c].idx /\ call[c].vid \in 1 .. MaxVid
      BY <3>3 DEF VlanRequest
    <3>5. (q.type = "DELLINK") <=> call[c].unset
      BY DEF VlanRequest
    <3>6. devs' = (devs \ {d}) \cup {After(call[c], d, obj[c])}
      BY <3>1, <3>5 DEF After
    <3>7. d.kind = "bridge" \/ d.port
      BY <3>1, <3>2 DEF RtmVlanError, Serves
    <3> QED
      BY <1>1, <3>1, <3>4, <3>6, <3>7 DEF SendVlan
  <2> QED
    BY <2>1, <2>2, <2>3 DEF RtmVlan
<1> QED
  BY <1>1, <1>2, <1>3

LEMMA SendKeeps == \A c \in Clients : VlanInv /\ SendVlan(c) => VlanInv'
<1> SUFFICES ASSUME NEW c \in Clients, VlanInv, SendVlan(c) PROVE VlanInv'
  OBVIOUS
<1> USE DEF VlanInv
<1>1. /\ pc[c] = "send" /\ UNCHANGED <<last, obj>>
      /\ \E e \in Errors \cup {"ok"} : Return(c, e)
  BY SendEffect
<1>2. PICK e \in Errors \cup {"ok"} : Return(c, e)
  BY <1>1
<1>3. Asking' /\ HandedOut' /\ Agrees' /\ Unique' /\ devs' \subseteq Device
  <2>1. Asking'
    BY <1>2, ReturnType DEF Asking
  <2>2. CASE UNCHANGED devs
    BY <1>1, <2>1, <2>2 DEF HandedOut, Agrees, Unique, TypeOK
  <2>3. CASE \E d \in devs :
               /\ call[c].vid \in 1 .. MaxVid
               /\ devs' = (devs \ {d}) \cup {After(call[c], d, obj[c])}
    <3>1. PICK d \in devs :
            /\ call[c].vid \in 1 .. MaxVid
            /\ devs' = (devs \ {d}) \cup {After(call[c], d, obj[c])}
      BY <2>3
    <3>2. d \in Device /\ call[c] \in Call /\ call[c].vid \in Vids
      BY <1>1, DeviceType DEF TypeOK, Call, Asking
    <3>3. PICK h \in Device : /\ devs' = (devs \ {d}) \cup {h}
                              /\ h.idx = d.idx /\ h.name = d.name
      BY <3>1, <3>2, AfterDevice
    <3>4. devs' \subseteq Device
      BY <3>3 DEF TypeOK
    <3> QED
      BY <1>1, <2>1, <3>3, <3>4 DEF HandedOut, Agrees, Unique
  <2> QED
    BY <2>2, <2>3, SendEffect
<1>4. TypeOK'
  BY <1>1, <1>2, <1>3, ReturnType DEF TypeOK
<1> QED
  BY <1>3, <1>4

LEMMA VlanStep == VlanInv /\ [Next]_vars => VlanInv'
<1> SUFFICES ASSUME VlanInv, [Next]_vars PROVE VlanInv'
  OBVIOUS
<1>1. CASE Environment
  BY <1>1, EnvironmentKeeps
<1>2. CASE \E c \in Clients : ClientStep(c)
  BY <1>2, ObtainKeeps, CallKeeps, ReadKeeps, SendKeeps DEF ClientStep
<1>3. CASE UNCHANGED vars
  BY <1>3 DEF vars, VlanInv, TypeOK, Unique, HandedOut, Agrees, Asking
<1> QED
  BY <1>1, <1>2, <1>3 DEF Next

(* The devices, objects and calls keep their types, whatever the clients   *)
(* and the other programs do: no VLAN enters an object's list that nobody  *)
(* asked for and no device has.                                            *)
THEOREM VlanTypes == Spec => []TypeOK
<1>1. Init => VlanInv
  BY InitVlan
<1>2. VlanInv /\ [Next]_vars => VlanInv'
  BY VlanStep
<1>3. VlanInv => TypeOK
  BY DEF VlanInv
<1> QED
  BY <1>1, <1>2, <1>3, PTL DEF Spec

-----------------------------------------------------------------------------
(* What a step of a client does to the devices.                            *)

(* Only a step of its own changes where a client is.                       *)
LEMMA OwnStep ==
  ASSUME VlanInv, Next, NEW c \in Clients, Steps(c)
  PROVE  CallSetVlan(c) \/ ReadVlans(c) \/ SendVlan(c)
<1>1. pc \in [Clients -> {"idle", "read", "send"}] /\ pc'[c] # pc[c]
  BY DEF VlanInv, TypeOK, Steps
<1>2. ~Environment
  BY <1>1 DEF Environment
<1>3. PICK b \in Clients : ClientStep(b)
  BY <1>2 DEF Next
<1>4. ~Obtain(b)
  BY <1>1 DEF Obtain
<1>5. b = c
  <2>1. pc'[c] # pc[c] /\ \E s : pc' = [pc EXCEPT ![b] = s]
    BY <1>1, <1>3, <1>4
       DEF ClientStep, CallSetVlan, ReadVlans, SendVlan, Return
  <2> QED
    BY <1>1, <2>1
<1> QED
  BY <1>3, <1>4, <1>5 DEF ClientStep

(* A Read that ends the call with nil has found the VLAN as asked.         *)
LEMMA ReadFinds ==
  ASSUME VlanInv, NEW c \in Clients, ReadVlans(c), Returns(c), ret'[c] = "ok"
  PROVE  \E d \in devs : /\ d.name = obj[c].name
                         /\ InList(call[c], d) <=> ~call[c].unset
<1> DEFINE k == call[c]
<1>1. pc[c] = "read" /\ devs' = devs /\ TypeOK /\ k \in Call /\ obj[c] \in Object
  BY DEF ReadVlans, VlanInv, TypeOK
<1>2. PICK d \in BridgeLinks(obj[c].name) : ~Wanted(k, WithVlans(obj[c], d))
  <2>1. \A e \in {"EIO", "notfound"} : ~Return(c, e)
    BY <1>1, ReturnType DEF Errors
  <2>2. pc' # [pc EXCEPT ![c] = "send"]
    BY <1>1 DEF TypeOK, Returns
  <2> QED
    BY <2>1, <2>2 DEF ReadVlans
<1>3. Listed(k, WithVlans(obj[c], d)) <=> InList(k, d)
  BY <1>1 DEF Listed, WithVlans, InList, Object
<1>4. k.unset \in BOOLEAN /\ (InList(k, d) <=> ~k.unset)
  BY <1>1, <1>2, <1>3 DEF Wanted, Call, Listed, InList
<1>5. d \in devs /\ d.name = obj[c].name
  BY DEF BridgeLinks
<1> QED
  BY <1>4, <1>5

LEMMA ReadStands ==
  ASSUME VlanInv, NEW c \in Clients, ReadVlans(c), Returns(c), ret'[c] = "ok"
  PROVE  /\ devs' = devs
         /\ IF call[c].unset
            THEN ~\E d \in devs : d.name = obj[c].name /\ InList(call[c], d)
            ELSE \E d \in devs : d.name = obj[c].name /\ InList(call[c], d)
<1>1. devs' = devs /\ call[c].unset \in BOOLEAN
  BY DEF ReadVlans, VlanInv, TypeOK, Call
<1>2. PICK d \in devs : /\ d.name = obj[c].name
                        /\ InList(call[c], d) <=> ~call[c].unset
  BY ReadFinds
<1>3. \A g \in devs : g.name = obj[c].name => g = d
  BY <1>2 DEF VlanInv, Unique
<1> QED
  BY <1>1, <1>2, <1>3

LEMMA SendStands ==
  ASSUME VlanInv, NEW c \in Clients, SendVlan(c), ret'[c] = "ok"
  PROVE  IF call[c].unset
         THEN ~\E d \in devs' : d.name = obj[c].name /\ InList(call[c], d)
         ELSE \E d \in devs' : d.name = obj[c].name /\ InList(call[c], d)
<1> DEFINE k == call[c]
<1>1. TypeOK /\ k \in Call /\ (k.vid # 0 => k.vid \in Vids)
  BY DEF VlanInv, TypeOK, Call
<1>2. PICK e \in Errors \cup {"ok"} :
        /\ Return(c, e)
        /\ \/ UNCHANGED devs /\ e # "ok"
           \/ \E d \in devs :
                /\ d.idx = obj[c].idx
                /\ k.vid \in 1 .. MaxVid
                /\ devs' = (devs \ {d}) \cup {After(k, d, obj[c])}
  BY SendEffect
<1>3. e = "ok"
  BY <1>1, <1>2, ReturnType
<1>4. PICK d \in devs : /\ d.idx = obj[c].idx
                        /\ k.vid \in 1 .. MaxVid
                        /\ devs' = (devs \ {d}) \cup {After(k, d, obj[c])}
  BY <1>2, <1>3
<1>5. d \in Device /\ d.name = obj[c].name
  BY <1>1, <1>4, DeviceType DEF VlanInv, Agrees
<1>6. k.vid \in Vids
  BY <1>1, <1>4
<1> DEFINE h == After(k, d, obj[c])
<1>7. h.name = obj[c].name /\ (InList(k, h) <=> ~k.unset)
  BY <1>1, <1>4, <1>5, <1>6, AfterDevice
<1>8. \A g \in devs' : g.name = obj[c].name => g = h
  BY <1>4, <1>5 DEF VlanInv, Unique
<1> QED
  BY <1>4, <1>7, <1>8

(* SetVlan that returns nil has done what it says to the device of the     *)
(* object's name (link.go:805-923), although it reads by name and changes  *)
(* by index, and whatever happens between the two: an index is never       *)
(* handed out twice, and a name belongs to one device at a time.           *)
THEOREM VlanStandsAlways == Spec => VlanStands
<1>1. ASSUME VlanInv, Next, NEW c \in Clients, Returns(c), ret'[c] = "ok"
      PROVE  IF call[c].unset
             THEN ~\E d \in devs' : d.name = obj[c].name /\ InList(call[c], d)
             ELSE \E d \in devs' : d.name = obj[c].name /\ InList(call[c], d)
  <2>1. CallSetVlan(c) \/ ReadVlans(c) \/ SendVlan(c)
    BY <1>1, OwnStep DEF Steps, Returns
  <2>2. ~CallSetVlan(c)
    BY <1>1 DEF CallSetVlan, Returns
  <2>3. CASE ReadVlans(c)
    BY <1>1, <2>3, ReadStands
  <2>4. CASE SendVlan(c)
    BY <1>1, <2>4, SendStands
  <2> QED
    BY <2>1, <2>2, <2>3, <2>4
<1>2. VlanInv /\ [Next]_vars =>
        [\A c \in Clients : Returns(c) /\ ret'[c] = "ok" =>
           IF call[c].unset
           THEN ~\E d \in devs' : d.name = obj[c].name /\ InList(call[c], d)
           ELSE \E d \in devs' : d.name = obj[c].name /\ InList(call[c], d)]_vars
  BY <1>1
<1>3. Init => VlanInv
  BY InitVlan
<1>4. VlanInv /\ [Next]_vars => VlanInv'
  BY VlanStep
<1> QED
  BY <1>2, <1>3, <1>4, PTL DEF Spec, VlanStands

(* The VLANs of d and h agree but for VLAN v, and h is d if it is not      *)
(* named x.                                                                *)
SameBut(v, x, d, h) ==
  /\ [h EXCEPT !.untagged = {}, !.tagged = {}, !.pvid = 0]
     = [d EXCEPT !.untagged = {}, !.tagged = {}, !.pvid = 0]
  /\ h.untagged \ {v} = d.untagged \ {v}
  /\ h.tagged \ {v} = d.tagged \ {v}
  /\ h.pvid # d.pvid => v \in {h.pvid, d.pvid}
  /\ h # d => d.name = x

(* No step of SetVlan touches another VLAN, another device or another      *)
(* field, so that concurrent changes of other clients stay (link.go:870).  *)
THEOREM OnlyItsVlanAlways == Spec => OnlyItsVlan
<1>1. ASSUME VlanInv, Next, NEW c \in Clients, Steps(c), NEW d \in devs
      PROVE  \E h \in devs' : SameBut(call[c].vid, obj[c].name, d, h)
  <2>1. CASE UNCHANGED devs
    BY <1>1, <2>1 DEF SameBut
  <2>2. CASE SendVlan(c)
    <3>1. SUFFICES ASSUME NEW g \in devs,
                          g.idx = obj[c].idx,
                          call[c].vid \in 1 .. MaxVid,
                          devs' = (devs \ {g}) \cup {After(call[c], g, obj[c])}
                   PROVE  \E h \in devs' : SameBut(call[c].vid, obj[c].name, d, h)
      BY <1>1, <2>1, <2>2, SendEffect
    <3>2. CASE g = d
      <4>1. /\ d \in Device /\ call[c] \in Call
            /\ call[c].vid \in Vids /\ d.name = obj[c].name
        BY <1>1, <3>1, <3>2, DeviceType DEF VlanInv, TypeOK, Call, Agrees
      <4> DEFINE h == After(call[c], d, obj[c])
      <4>2. /\ h \in Device /\ h.idx = d.idx /\ h.name = d.name
            /\ h.kind = d.kind /\ h.port = d.port
            /\ h.untagged \ {call[c].vid} = d.untagged \ {call[c].vid}
            /\ h.tagged \ {call[c].vid} = d.tagged \ {call[c].vid}
            /\ h.pvid # d.pvid => call[c].vid \in {h.pvid, d.pvid}
        BY <3>1, <4>1, AfterDevice
      <4>3. [h EXCEPT !.untagged = {}, !.tagged = {}, !.pvid = 0]
            = [d EXCEPT !.untagged = {}, !.tagged = {}, !.pvid = 0]
        BY <4>1, <4>2 DEF Device
      <4> QED
        BY <3>1, <3>2, <4>1, <4>2, <4>3 DEF SameBut
    <3>3. CASE g # d
      BY <3>1, <3>3 DEF SameBut
    <3> QED
      BY <3>2, <3>3
  <2> QED
    BY <1>1, <2>1, <2>2, OwnStep DEF CallSetVlan, ReadVlans
<1>2. VlanInv /\ [Next]_vars =>
        [\A c \in Clients : Steps(c) =>
           \A d \in devs : \E h \in devs' :
             /\ [h EXCEPT !.untagged = {}, !.tagged = {}, !.pvid = 0]
                = [d EXCEPT !.untagged = {}, !.tagged = {}, !.pvid = 0]
             /\ h.untagged \ {call[c].vid} = d.untagged \ {call[c].vid}
             /\ h.tagged \ {call[c].vid} = d.tagged \ {call[c].vid}
             /\ h.pvid # d.pvid => call[c].vid \in {h.pvid, d.pvid}
             /\ h # d => d.name = obj[c].name]_vars
  BY <1>1 DEF SameBut
<1>3. Init => VlanInv
  BY InitVlan
<1>4. VlanInv /\ [Next]_vars => VlanInv'
  BY VlanStep
<1> QED
  BY <1>2, <1>3, <1>4, PTL DEF Spec, OnlyItsVlan

-----------------------------------------------------------------------------
(* The refinement.                                                         *)

(* What AtomicVlan's variables are here.                                   *)
AllVlans == {VlansOf(d) : d \in devs}
AllAsked == [c \in Clients |-> Asked(c)]
AllGranted == [c \in Clients |-> ret[c] = "ok"]

(* The request of a call k for the device named x.                         *)
RequestOf(k, x) == [name |-> x, vid |-> k.vid, unset |-> k.unset,
                    untagged |-> k.untagged, pvid |-> k.pvid]

(* AtomicVlan's Served, field by field.                                    *)
LEMMA ServedFields ==
  ASSUME NEW r, NEW v \in [name : Names, on : BOOLEAN, untagged : SUBSET Vlans,
                           tagged : SUBSET Vlans, pvid : Vlans \cup {0}],
         r.unset \in BOOLEAN, r.untagged \in BOOLEAN
  PROVE  Atomic!Served(r, v) =
           [name |-> v.name, on |-> v.on,
            untagged |-> IF ~r.unset /\ r.untagged THEN v.untagged \cup {r.vid}
                         ELSE v.untagged \ {r.vid},
            tagged |-> IF ~r.unset /\ ~r.untagged THEN v.tagged \cup {r.vid}
                       ELSE v.tagged \ {r.vid},
            pvid |-> IF ~r.unset /\ r.pvid THEN r.vid
                     ELSE IF v.pvid = r.vid THEN 0 ELSE v.pvid]
<1> DEFINE less == [v EXCEPT !.untagged = @ \ {r.vid}, !.tagged = @ \ {r.vid},
                             !.pvid = IF @ = r.vid THEN 0 ELSE @]
           more == [less EXCEPT !.pvid = IF r.pvid THEN r.vid ELSE @]
<1>1. less = [name |-> v.name, on |-> v.on, untagged |-> v.untagged \ {r.vid},
              tagged |-> v.tagged \ {r.vid},
              pvid |-> IF v.pvid = r.vid THEN 0 ELSE v.pvid]
  <2> DEFINE one == [v EXCEPT !.untagged = @ \ {r.vid}]
             two == [one EXCEPT !.tagged = v.tagged \ {r.vid}]
  <2>1. v = [name |-> v.name, on |-> v.on, untagged |-> v.untagged, tagged |-> v.tagged,
             pvid |-> v.pvid]
    OBVIOUS
  <2>2. one = [name |-> v.name, on |-> v.on, untagged |-> v.untagged \ {r.vid},
               tagged |-> v.tagged, pvid |-> v.pvid]
    BY <2>1
  <2>3. less = [two EXCEPT !.pvid = IF v.pvid = r.vid THEN 0 ELSE v.pvid]
    OBVIOUS
  <2> HIDE DEF one
  <2>4. two = [name |-> v.name, on |-> v.on, untagged |-> v.untagged \ {r.vid},
               tagged |-> v.tagged \ {r.vid}, pvid |-> v.pvid]
    BY <2>2
  <2> HIDE DEF two, less
  <2> QED
    BY <2>3, <2>4
<1> HIDE DEF less
<1>2. more = [name |-> v.name, on |-> v.on, untagged |-> v.untagged \ {r.vid},
              tagged |-> v.tagged \ {r.vid},
              pvid |-> IF r.pvid THEN r.vid
                       ELSE IF v.pvid = r.vid THEN 0 ELSE v.pvid]
  BY <1>1
<1> HIDE DEF more
<1>3. [more EXCEPT !.untagged = @ \cup {r.vid}] =
        [name |-> v.name, on |-> v.on, untagged |-> v.untagged \cup {r.vid},
         tagged |-> v.tagged \ {r.vid}, pvid |-> more.pvid]
  BY <1>2
<1>4. [more EXCEPT !.tagged = @ \cup {r.vid}] =
        [name |-> v.name, on |-> v.on, untagged |-> v.untagged \ {r.vid},
         tagged |-> v.tagged \cup {r.vid}, pvid |-> more.pvid]
  BY <1>2
<1>5. Atomic!Served(r, v) = CASE r.unset -> less
        [] ~r.unset /\ r.untagged -> [more EXCEPT !.untagged = @ \cup {r.vid}]
        [] OTHER -> [more EXCEPT !.tagged = @ \cup {r.vid}]
  BY DEF Atomic!Served, more, less
<1> QED
  BY <1>1, <1>2, <1>3, <1>4, <1>5

(* A message of SetVlan does to the device what serving the request does.  *)
LEMMA AfterServed ==
  ASSUME NEW k \in Call, NEW o, NEW d \in Device, NEW x
  PROVE  VlansOf(After(k, d, o)) = Atomic!Served(RequestOf(k, x), VlansOf(d))
<1> DEFINE v == VlansOf(d)
           r == RequestOf(k, x)
           h == After(k, d, o)
<1>1. (CHOOSE i \in {k.vid} : TRUE) = k.vid
  OBVIOUS
<1>2. /\ v.name = d.name /\ v.on = (d.kind = "bridge" \/ d.port)
      /\ v.untagged = d.untagged /\ v.tagged = d.tagged
      /\ v.pvid = d.pvid
      /\ v \in [name : Names, on : BOOLEAN, untagged : SUBSET Vlans, tagged : SUBSET Vlans,
                pvid : Vlans \cup {0}]
  BY DEF VlansOf, Device
<1>3. /\ r.vid = k.vid /\ r.unset = k.unset /\ r.untagged = k.untagged
      /\ r.pvid = k.pvid /\ r.unset \in BOOLEAN /\ r.untagged \in BOOLEAN
  BY DEF RequestOf, Call
<1>4. /\ h.name = d.name /\ h.kind = d.kind /\ h.port = d.port
      /\ h.untagged = IF ~k.unset /\ k.untagged THEN d.untagged \cup {k.vid}
                      ELSE d.untagged \ {k.vid}
      /\ h.tagged = IF ~k.unset /\ ~k.untagged THEN d.tagged \cup {k.vid}
                    ELSE d.tagged \ {k.vid}
      /\ h.pvid = IF ~k.unset /\ k.pvid THEN k.vid
                  ELSE IF d.pvid = k.vid THEN 0 ELSE d.pvid
  BY <1>1 DEF After, VlanRequest, VlanAdded, VlanDeleted, Device, Call
<1> HIDE DEF v, r, h
<1>5. Atomic!Served(r, v) =
           [name |-> v.name, on |-> v.on,
            untagged |-> IF ~r.unset /\ r.untagged THEN v.untagged \cup {r.vid}
                         ELSE v.untagged \ {r.vid},
            tagged |-> IF ~r.unset /\ ~r.untagged THEN v.tagged \cup {r.vid}
                       ELSE v.tagged \ {r.vid},
            pvid |-> IF ~r.unset /\ r.pvid THEN r.vid
                     ELSE IF v.pvid = r.vid THEN 0 ELSE v.pvid]
  BY <1>2, <1>3, ServedFields
<1>6. VlansOf(h) = Atomic!Served(r, v)
  BY <1>2, <1>3, <1>4, <1>5 DEF VlansOf
<1> QED
  BY <1>6 DEF v, r, h

(* One device of the set is put in the place of another of the same name.  *)
LEMMA VlansReplaced ==
  ASSUME TypeOK, Unique, NEW d \in devs, NEW h, devs' = (devs \ {d}) \cup {h}
  PROVE  AllVlans' = (AllVlans \ {VlansOf(d)}) \cup {VlansOf(h)}
<1>1. \A e \in devs : VlansOf(e) = VlansOf(d) => e = d
  BY DEF VlansOf, Unique
<1> QED
  BY <1>1 DEF AllVlans

(* A return ends the request, and no other client's.                       *)
LEMMA ReturnServed ==
  ASSUME TypeOK, NEW c \in Clients, NEW e \in Errors \cup {"ok"}, Return(c, e),
         \A b \in Clients : obj'[b].name = obj[b].name
  PROVE  /\ AllAsked' = [AllAsked EXCEPT ![c] = {}]
         /\ AllGranted' = [AllGranted EXCEPT ![c] = e = "ok"]
<1>1. \A b \in Clients : Asked(b)' = IF b = c THEN {} ELSE Asked(b)
  BY ReturnType DEF Asked
<1>2. \A b \in Clients : ret'[b] = IF b = c THEN e ELSE ret[b]
  BY DEF Return, TypeOK
<1> QED
  BY <1>1, <1>2 DEF AllAsked, AllGranted

(* The Read of SetVlan changes no name.                                    *)
LEMMA ReadKeepsNames ==
  ASSUME TypeOK, NEW c \in Clients, ReadVlans(c)
  PROVE  \A b \in Clients : obj'[b].name = obj[b].name
<1>1. CASE UNCHANGED obj
  BY <1>1
<1>2. CASE \E d \in BridgeLinks(obj[c].name) :
             LET o == WithVlans(obj[c], d)
             IN \/ obj' = [obj EXCEPT ![c] = o]
                \/ obj' = [obj EXCEPT ![c] = Append(call[c], o)]
  <2>1. PICK d \in BridgeLinks(obj[c].name) :
             LET o == WithVlans(obj[c], d)
             IN \/ obj' = [obj EXCEPT ![c] = o]
                \/ obj' = [obj EXCEPT ![c] = Append(call[c], o)]
    BY <1>2
  <2> DEFINE o == WithVlans(obj[c], d)
  <2>2. d \in Device /\ obj[c] \in Object
    BY DEF BridgeLinks, TypeOK
  <2>3. o.name = obj[c].name /\ Append(call[c], o).name = obj[c].name
    BY <2>2 DEF WithVlans, Append, Object, Device
  <2> HIDE DEF o
  <2>4. PICK p : obj' = [obj EXCEPT ![c] = p] /\ p.name = obj[c].name
    BY <2>1, <2>3 DEF o
  <2> QED
    BY <2>4 DEF TypeOK
<1> QED
  BY <1>1, <1>2 DEF ReadVlans

(* Only a device that is no bridge is ever a port.                         *)
PortsAreSoft == \A d \in devs : d.port => d.kind = "soft"

LEMMA PortsStaySoft == VlanInv /\ PortsAreSoft /\ [Next]_vars => PortsAreSoft'
<1> SUFFICES ASSUME VlanInv, PortsAreSoft, [Next]_vars PROVE PortsAreSoft'
  OBVIOUS
<1> USE DEF PortsAreSoft
<1>1. CASE UNCHANGED devs
  BY <1>1
<1>2. CASE Environment
  <2>1. CASE CreateDevice
    <3>1. PICK x, g : /\ devs' = devs \cup {g}
                      /\ \/ g = Plain(last', x, "soft")
                         \/ g = Start(Plain(last', x, "bridge"))
      BY <2>1 DEF CreateDevice
    <3>2. ~Plain(last', x, "soft").port
      BY DEF Plain
    <3>3. ~Start(Plain(last', x, "bridge")).port
      BY DEF Plain, Start
    <3> QED
      BY <3>1, <3>2, <3>3
  <2>2. CASE ChangeDevice
    <3>1. PICK d \in devs :
            \/ devs' = devs \ {d}
            \/ /\ d.kind = "soft"
               /\ devs' = (devs \ {d}) \cup {Start([d EXCEPT !.port = TRUE])}
            \/ devs' = (devs \ {d}) \cup {Plain(d.idx, d.name, d.kind)}
      BY <2>2 DEF ChangeDevice
    <3>2. d.kind = "soft" => Start([d EXCEPT !.port = TRUE]).kind = "soft"
      BY DEF Start, VlanInv, TypeOK, Device
    <3>3. ~Plain(d.idx, d.name, d.kind).port
      BY DEF Plain
    <3> QED
      BY <3>1, <3>2, <3>3
  <2> QED
    BY <1>2, <2>1, <2>2 DEF Environment
<1>3. ASSUME NEW c \in Clients, SendVlan(c), devs' # devs
      PROVE  PortsAreSoft'
  <2>1. PICK d \in devs :
          /\ call[c].vid \in 1 .. MaxVid /\ pc[c] = "send"
          /\ devs' = (devs \ {d}) \cup {After(call[c], d, obj[c])}
    BY <1>3, SendEffect
  <2>2. d \in Device /\ call[c] \in Call /\ call[c].vid \in Vids
    BY <2>1 DEF VlanInv, TypeOK, Call, Asking
  <2>3. LET h == After(call[c], d, obj[c]) IN h.kind = d.kind /\ h.port = d.port
    BY <2>1, <2>2, AfterDevice
  <2> QED
    BY <2>1, <2>3
<1> QED
  BY <1>1, <1>2, <1>3
     DEF Next, ClientStep, Obtain, CallSetVlan, ReadVlans, vars

(* One device more, or one less.                                           *)
LEMMA VlansWithout ==
  ASSUME TypeOK, Unique, NEW d \in devs, devs' = devs \ {d}
  PROVE  AllVlans' = AllVlans \ {VlansOf(d)}
<1>1. \A e \in devs : VlansOf(e) = VlansOf(d) => e = d
  BY DEF VlansOf, Unique
<1> QED
  BY <1>1 DEF AllVlans

(* The other programs are AtomicVlan's Others.                             *)
LEMMA EnvironmentIsOthers ==
  VlanInv /\ PortsAreSoft /\ Environment => Atomic!Others
<1> SUFFICES ASSUME VlanInv, PortsAreSoft, Environment PROVE Atomic!Others
  OBVIOUS
<1> USE DEF VlanInv
<1>1. AllAsked' = AllAsked /\ AllGranted' = AllGranted
  BY DEF Environment, AllAsked, AllGranted, Asked
<1> DEFINE D == {d.name : d \in devs}
<1>2. \A v \in AllVlans : v.name \in D
  BY DEF AllVlans, VlansOf
<1>3. CASE CreateDevice
  <2>1. PICK x, g :
          /\ x \in Names \ D
          /\ devs' = devs \cup {g}
          /\ \/ g = Plain(last', x, "soft")
             \/ g = Start(Plain(last', x, "bridge"))
    BY <1>3 DEF CreateDevice
  <2>2. PICK on \in BOOLEAN : VlansOf(g) = Atomic!Fresh(x, on)
    <3>1. VlansOf(Plain(last', x, "soft")) = Atomic!Fresh(x, FALSE)
      BY DEF Plain, VlansOf, Atomic!Fresh
    <3>2. VlansOf(Start(Plain(last', x, "bridge"))) = Atomic!Fresh(x, TRUE)
      BY DEF Plain, Start, VlansOf, Atomic!Fresh
    <3> QED
      BY <2>1, <3>1, <3>2
  <2>3. AllVlans' = AllVlans \cup {VlansOf(g)}
    BY <2>1 DEF AllVlans
  <2> QED
    BY <1>1, <1>2, <2>1, <2>2, <2>3
    DEF Atomic!Others, AllAsked, AllGranted, AllVlans
<1>4. CASE ChangeDevice
  <2>1. PICK d \in devs :
          \/ devs' = devs \ {d}
          \/ /\ d.kind = "soft" /\ ~d.port
             /\ devs' = (devs \ {d}) \cup {Start([d EXCEPT !.port = TRUE])}
          \/ /\ d.port
             /\ devs' = (devs \ {d}) \cup {Plain(d.idx, d.name, d.kind)}
    BY <1>4 DEF ChangeDevice
  <2>2. d \in Device /\ VlansOf(d) \in AllVlans
    BY DEF TypeOK, AllVlans
  <2>3. CASE devs' = devs \ {d}
    <3>1. AllVlans' = AllVlans \ {VlansOf(d)}
      BY <2>3, VlansWithout
    <3> QED
      BY <1>1, <2>2, <3>1 DEF Atomic!Others, AllAsked, AllGranted, AllVlans
  <2>4. CASE devs' # devs \ {d}
    <3>1. PICK h : /\ devs' = (devs \ {d}) \cup {h}
                   /\ VlansOf(h) = Atomic!Fresh(VlansOf(d).name, ~VlansOf(d).on)
      <4>1. CASE /\ d.kind = "soft" /\ ~d.port
                 /\ devs' = (devs \ {d}) \cup {Start([d EXCEPT !.port = TRUE])}
        <5>1. VlansOf(Start([d EXCEPT !.port = TRUE]))
              = Atomic!Fresh(d.name, TRUE)
          BY <2>2 DEF Start, VlansOf, Atomic!Fresh, Device
        <5>2. VlansOf(d).name = d.name /\ ~VlansOf(d).on
          BY <4>1 DEF VlansOf
        <5> QED
          BY <4>1, <5>1, <5>2
      <4>2. CASE /\ d.port
                 /\ devs' = (devs \ {d}) \cup {Plain(d.idx, d.name, d.kind)}
        <5>1. d.kind = "soft"
          BY <4>2 DEF PortsAreSoft
        <5>2. VlansOf(Plain(d.idx, d.name, d.kind)) = Atomic!Fresh(d.name, FALSE)
          BY <5>1 DEF Plain, VlansOf, Atomic!Fresh
        <5>3. VlansOf(d).name = d.name /\ VlansOf(d).on
          BY <4>2 DEF VlansOf
        <5> QED
          BY <4>2, <5>2, <5>3
      <4> QED
        BY <2>1, <2>4, <4>1, <4>2
    <3>2. AllVlans' = (AllVlans \ {VlansOf(d)}) \cup {VlansOf(h)}
      BY <3>1, VlansReplaced
    <3> QED
      BY <1>1, <2>2, <3>1, <3>2 DEF Atomic!Others, AllAsked, AllGranted, AllVlans
  <2> QED
    BY <2>3, <2>4
<1> QED
  BY <1>3, <1>4 DEF Environment

LEMMA VlanStepAtomic ==
  VlanInv /\ PortsAreSoft /\ [Next]_vars => [Atomic!VlanNext]_Atomic!vlanVars
<1> SUFFICES ASSUME VlanInv, PortsAreSoft, [Next]_vars
             PROVE  [Atomic!VlanNext]_Atomic!vlanVars
  OBVIOUS
<1> USE DEF VlanInv
<1>1. CASE /\ UNCHANGED <<devs, ret>>
           /\ \A b \in Clients : Asked(b)' = Asked(b)
  BY <1>1 DEF Atomic!vlanVars
<1>2. CASE UNCHANGED vars
  BY <1>1, <1>2 DEF vars, Asked
<1>7. CASE Environment
  BY <1>7, EnvironmentIsOthers DEF Atomic!VlanNext
<1>3. CASE \E c \in Clients : Obtain(c)
  <2>1. PICK c \in Clients : Obtain(c)
    BY <1>3
  <2>2. \A b \in Clients : Asked(b)' = Asked(b)
    BY <2>1 DEF Obtain, TypeOK, Asked
  <2> QED
    BY <1>1, <2>1, <2>2 DEF Obtain
<1>4. ASSUME NEW c \in Clients, CallSetVlan(c)
      PROVE  Atomic!VlanNext
  <2>1. UNCHANGED <<devs, obj>> /\ pc[c] = "idle" /\ AllAsked[c] = {}
    BY <1>4 DEF CallSetVlan, AllAsked, Asked
  <2>2. PICK k \in Call :
        IF k.vid = 0 THEN Return(c, "ok")
        ELSE /\ pc' = [pc EXCEPT ![c] = "read"]
             /\ call' = [call EXCEPT ![c] = k]
             /\ UNCHANGED ret
    BY <1>4, AsksAreCalls DEF CallSetVlan, Ignored
  <2>3. CASE k.vid = 0
    <3>1. Atomic!AskNothing(c)
      BY <2>1, <2>2, <2>3, ReturnServed
      DEF Atomic!AskNothing, Atomic!Returns, AllAsked, AllGranted
    <3> QED
      BY <3>1 DEF Atomic!VlanNext
  <2>4. CASE k.vid # 0
    <3> DEFINE r == RequestOf(k, obj[c].name)
    <3>1. r \in Atomic!Requests
      BY <2>4 DEF Atomic!Requests, RequestOf, TypeOK, Call, Object
    <3>2. \A b \in Clients : Asked(b)' = IF b = c THEN {r} ELSE Asked(b)
      BY <2>1, <2>2, <2>4 DEF Asked, RequestOf, TypeOK
    <3> HIDE DEF r
    <3>3. AllAsked' = [AllAsked EXCEPT ![c] = {r}]
      BY <3>2 DEF AllAsked
    <3>4. Atomic!Ask(c)
      BY <2>1, <2>2, <2>4, <3>1, <3>3 DEF Atomic!Ask, AllAsked
    <3> QED
      BY <3>4 DEF Atomic!VlanNext
  <2> QED
    BY <2>3, <2>4
<1>5. ASSUME NEW c \in Clients, ReadVlans(c)
      PROVE  [Atomic!VlanNext]_Atomic!vlanVars
  <2>1. /\ UNCHANGED devs /\ pc[c] = "read" /\ call[c] \in Call
        /\ AllAsked[c] = {RequestOf(call[c], obj[c].name)} /\ AllVlans' = AllVlans
    BY <1>5 DEF ReadVlans, AllAsked, Asked, RequestOf, AllVlans, TypeOK
  <2>2. \A b \in Clients : obj'[b].name = obj[b].name
    BY <1>5, ReadKeepsNames
  <2>3. CASE \E e \in Errors : Return(c, e)
    <3>1. PICK e \in Errors : Return(c, e)
      BY <2>3
    <3>2. Atomic!Fail(c)
      BY <2>1, <2>2, <3>1, ReturnServed
      DEF Atomic!Fail, Atomic!Returns, AllAsked, AllGranted, AllVlans, Errors
    <3> QED
      BY <3>2 DEF Atomic!VlanNext
  <2>4. CASE Return(c, "ok")
    <3>1. Returns(c) /\ ret'[c] = "ok"
      BY <2>1, <2>4, ReturnType DEF Returns
    <3>2. PICK d \in devs : /\ d.name = obj[c].name
                            /\ InList(call[c], d) <=> ~call[c].unset
      BY <1>5, <2>1, <3>1, ReadFinds
    <3>3. /\ VlansOf(d) \in AllVlans /\ VlansOf(d).name = obj[c].name
          /\ Atomic!AsAsked(RequestOf(call[c], obj[c].name), VlansOf(d))
      BY <2>1, <3>2
      DEF AllVlans, VlansOf, Atomic!AsAsked, RequestOf, InList, Call
    <3>4. Atomic!Succeed(c)
      BY <2>1, <2>2, <2>4, <3>3, ReturnServed
      DEF Atomic!Succeed, Atomic!Returns, AllAsked, AllGranted, AllVlans, RequestOf
    <3> QED
      BY <3>4 DEF Atomic!VlanNext
  <2>5. CASE pc' = [pc EXCEPT ![c] = "send"] /\ UNCHANGED <<call, ret>>
    <3>1. \A b \in Clients : Asked(b)' = Asked(b)
      BY <2>1, <2>2, <2>5 DEF Asked, TypeOK
    <3> QED
      BY <1>1, <2>1, <2>5, <3>1
  <2> QED
    BY <1>5, <2>3, <2>4, <2>5 DEF ReadVlans, Errors
<1>6. ASSUME NEW c \in Clients, SendVlan(c)
      PROVE  Atomic!VlanNext
  <2>1. /\ pc[c] = "send" /\ UNCHANGED obj /\ call[c] \in Call
        /\ AllAsked[c] = {RequestOf(call[c], obj[c].name)}
    BY <1>6, SendEffect DEF AllAsked, Asked, RequestOf, TypeOK
  <2>2. PICK e \in Errors \cup {"ok"} :
          /\ Return(c, e)
          /\ \/ UNCHANGED devs /\ e # "ok"
             \/ \E d \in devs :
                  /\ d.idx = obj[c].idx
                  /\ d.kind = "bridge" \/ d.port
                  /\ devs' = (devs \ {d}) \cup {After(call[c], d, obj[c])}
    BY <1>6, SendEffect
  <2>3. Atomic!Returns(c, e = "ok")
    BY <2>1, <2>2, ReturnServed DEF Atomic!Returns, AllAsked, AllGranted
  <2>4. CASE UNCHANGED devs /\ e # "ok"
    <3>1. Atomic!Fail(c)
      BY <2>1, <2>3, <2>4 DEF Atomic!Fail, AllAsked
    <3> QED
      BY <3>1 DEF Atomic!VlanNext
  <2>5. CASE \E d \in devs :
               /\ d.idx = obj[c].idx
               /\ d.kind = "bridge" \/ d.port
               /\ devs' = (devs \ {d}) \cup {After(call[c], d, obj[c])}
    <3>1. PICK d \in devs :
            /\ d.idx = obj[c].idx
            /\ d.kind = "bridge" \/ d.port
            /\ devs' = (devs \ {d}) \cup {After(call[c], d, obj[c])}
      BY <2>5
    <3> DEFINE r == RequestOf(call[c], obj[c].name)
               v == VlansOf(d)
    <3>2. d \in Device /\ d.name = obj[c].name
      BY <3>1 DEF TypeOK, Agrees
    <3>3. v \in AllVlans /\ v.name = r.name /\ v.on
      BY <3>1, <3>2 DEF AllVlans, VlansOf, RequestOf
    <3>4. AllVlans' = (AllVlans \ {v}) \cup {Atomic!Served(r, v)}
      BY <2>1, <3>1, <3>2, VlansReplaced, AfterServed
    <3> HIDE DEF r, v
    <3>5. Atomic!Serve(c)
      BY <2>1, <3>3, <3>4 DEF Atomic!Serve, AllAsked, AllVlans, r
    <3>6. Atomic!Succeed(c) \/ Atomic!Fail(c)
      BY <2>1, <2>3, <3>5 DEF Atomic!Succeed, Atomic!Fail, AllAsked
    <3> QED
      BY <3>6 DEF Atomic!VlanNext
  <2> QED
    BY <2>2, <2>4, <2>5
<1> QED
  BY <1>2, <1>3, <1>4, <1>5, <1>6, <1>7 DEF Next, ClientStep

(* SetVlan is as good as atomic for any number of clients, devices and     *)
(* VLANs, whatever happens between its exchanges and whichever fail: what  *)
(* it decides from a read by name is sent by index, and an index that has  *)
(* been read denotes the device of that name or none.  A call changes a    *)
(* device in its last step or not at all, for AtomicVlan has no other step *)
(* in which the VLANs of a device change that stays a bridge or a port.    *)
THEOREM VlansAreAtomic == Spec => ImplementsAtomicVlan
<1>1. Init => Atomic!VlanInit
  BY DEF Init, Atomic!VlanInit, Asked
<1>2. Init => PortsAreSoft
  BY DEF Init, PortsAreSoft
<1> QED
  BY <1>1, <1>2, InitVlan, VlanStep, PortsStaySoft, VlanStepAtomic, PTL
  DEF Spec, ImplementsAtomicVlan, Atomic!VlanSpec
=============================================================================
