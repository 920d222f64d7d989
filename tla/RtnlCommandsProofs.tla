--------------------------- MODULE RtnlCommandsProofs ---------------------------
(***************************************************************************)
(* Proofs about RtnlCommands, for any number of processes and any command  *)
(* lines.  Every step of a process is a step of its client in RtnlLink, or *)
(* none, so that what is proved of RtnlLink holds of nl.                   *)
(***************************************************************************)
EXTENDS RtnlCommands, RtnlLinkRefinementProofs, FiniteSetTheorems

LEMMA ScriptStep ==
  ASSUME NEW c \in Clients, Begin(c) \/ DumpFails(c) \/ Script(c)
  PROVE  [Next]_vars
<1>1. ASSUME CallGet(c) \/ Construct(c) \/ CallModify(c) \/ CallUpdate(c)
             \/ Continue(c)
      PROVE  Next
  BY <1>1 DEF Next
<1>2. CASE Begin(c)
  <2>1. CASE cmd'[c].do = "list"
    BY <1>2, <2>1 DEF Begin
  <2>2. CASE cmd'[c].do # "list" /\ Sought(cmd'[c]) # NoName
    BY <1>1, <1>2, <2>2 DEF Begin, GetByName
  <2>3. CASE cmd'[c].do # "list" /\ Sought(cmd'[c]) = NoName
    BY <1>1, <1>2, <2>3 DEF Begin, Make
  <2> QED
    BY <2>1, <2>2, <2>3
<1>3. CASE LookupBridge(c)
  BY <1>1, <1>3 DEF LookupBridge, GetByName
<1>4. CASE Act(c)
  BY <1>1, <1>4 DEF Act, Make
<1>5. CASE Send(c)
  BY <1>1, <1>5 DEF Send
<1>6. CASE Show(c)
  BY <1>1, <1>6 DEF Show
<1>7. CASE Work(c)
  BY <1>1, <1>7 DEF Work
<1>8. CASE DumpFails(c)
  BY <1>8 DEF DumpFails
<1> QED
  BY <1>2, <1>3, <1>4, <1>5, <1>6, <1>7, <1>8 DEF Script

LEMMA NlStep == [NlNext]_nlvars => [Next]_vars
<1>1. CASE NlNext
  BY <1>1, ScriptStep DEF NlNext
<1>2. CASE UNCHANGED nlvars
  BY <1>2 DEF nlvars, vars
<1> QED
  BY <1>1, <1>2

(* The commands of nl use the library as RtnlLink's clients may.           *)
THEOREM CommandsAreCalls == NlSpec => Spec
<1>1. NlInit => Init
  BY DEF NlInit
<1> QED
  BY <1>1, NlStep, PTL DEF NlSpec, Spec

(* The types of the links, objects and calls carry over to nl.             *)
THEOREM CommandsKeepTypes == NlSpec => []TypeOK
BY CommandsAreCalls, TypeCorrect

-----------------------------------------------------------------------------
(* The types of the scripts.                                               *)

LEMMA DumpType ==
  ASSUME KernelTypeOK, NEW n
  PROVE  Dump(n) \in SUBSET Row
BY DEF Dump, Row, KernelTypeOK, Link, Indices

LEMMA ExitType ==
  ASSUME NlTypeOK, NEW c \in Clients, NEW s \in Done, Exit(c, s)
  PROVE  NlTypeOK'
<1>1. cmd' \in [Clients -> Command \cup {NoCommand}]
  BY DEF Exit, NlTypeOK
<1>2. stage' \in [Clients -> Stages]
  BY DEF Exit, Goto, NlTypeOK, Stages
<1>3. found' \in [Clients -> 0 .. MaxIndex]
  BY KernelAssumption DEF Exit, NlTypeOK
<1>4. rows' \in [Clients -> SUBSET Row]
  BY DEF Exit, NlTypeOK
<1> QED
  BY <1>1, <1>2, <1>3, <1>4 DEF NlTypeOK

LEMMA NlTypeStep ==
  ASSUME TypeOK, TypeOK', NlTypeOK, NEW c \in Clients,
         Begin(c) \/ DumpFails(c) \/ Script(c)
  PROVE  NlTypeOK'
<1>1. CASE Begin(c)
  <2>1. PICK k \in Given : cmd' = [cmd EXCEPT ![c] = k]
    BY <1>1 DEF Begin
  <2>2. /\ cmd' \in [Clients -> Command \cup {NoCommand}] /\ found' = found
        /\ \E s \in Stages : Goto(c, s)
    BY <1>1, <2>1, CommandAssumption
    DEF Begin, NlTypeOK, GetByName, Make, Stages, Done
  <2>3. rows' \in [Clients -> SUBSET Row]
    <3>1. CASE cmd'[c].do = "list"
      <4>1. rows' = [rows EXCEPT ![c] = Dump(cmd'[c].ns)]
        BY <1>1, <3>1 DEF Begin
      <4> QED
        BY <4>1, DumpType DEF NlTypeOK, TypeOK
    <3>2. CASE cmd'[c].do # "list"
      <4>1. rows' = rows
        BY <1>1, <3>2 DEF Begin
      <4> QED
        BY <4>1 DEF NlTypeOK
    <3> QED
      BY <3>1, <3>2
  <2> QED
    BY <2>2, <2>3 DEF Goto, NlTypeOK
<1>2. CASE LookupBridge(c)
  BY <1>2 DEF LookupBridge, GetByName, Goto, NlTypeOK, Stages
<1>3. CASE Act(c)
  <2>1. CASE Exit(c, "ok")
    BY <2>1, ExitType DEF Done
  <2>2. CASE ~Exit(c, "ok")
    BY <1>3, <2>2 DEF Act, Make, Goto, NlTypeOK, Stages
  <2> QED
    BY <2>1, <2>2
<1>4. CASE Send(c)
  BY <1>4 DEF Send, Goto, NlTypeOK, Stages
<1>5. CASE Show(c)
  <2>1. CASE Exit(c, "ok")
    BY <2>1, ExitType DEF Done
  <2>2. CASE ~Exit(c, "ok")
    BY <1>5, <2>2 DEF Show, RowsAfter, Goto, NlTypeOK, Stages
  <2> QED
    BY <2>1, <2>2
<1>6. CASE Work(c)
  <2>1. CASE Exit(c, "ok") \/ Exit(c, "failed")
    BY <2>1, ExitType DEF Done
  <2>2. CASE UNCHANGED script
    BY <2>2 DEF script, NlTypeOK
  <2>3. CASE Goto(c, "list") /\ UNCHANGED <<cmd, found, rows>>
    BY <2>3 DEF Goto, NlTypeOK, Stages
  <2>4. CASE /\ found' = [found EXCEPT ![c] = obj'[c].idx]
             /\ rows' = [rows EXCEPT ![c] = Filtered(@, obj'[c].idx)]
             /\ \E s \in {"list", "found"} : Goto(c, s)
             /\ UNCHANGED cmd
    <3>1. obj'[c].idx \in 0 .. MaxIndex
      BY DEF TypeOK, Object
    <3> QED
      BY <2>4, <3>1 DEF Goto, NlTypeOK, Stages, Filtered
  <2> QED
    BY <1>6, <2>1, <2>2, <2>3, <2>4 DEF Work
<1>7. CASE DumpFails(c)
  BY <1>7, ExitType DEF DumpFails, Done
<1> QED
  BY <1>1, <1>2, <1>3, <1>4, <1>5, <1>6, <1>7 DEF Script

LEMMA NlTypeInit == NlInit => NlTypeOK
BY KernelAssumption DEF NlInit, NlTypeOK, Stages, Done

LEMMA NlTypeNext ==
  ASSUME TypeOK, TypeOK', NlTypeOK, [NlNext]_nlvars
  PROVE  NlTypeOK'
<1>1. CASE NlNext
  BY <1>1, NlTypeStep DEF NlNext
<1>2. CASE UNCHANGED nlvars
  BY <1>2 DEF nlvars, NlTypeOK
<1> QED
  BY <1>1, <1>2

(* The command lines, stages, indices and rows of the processes.           *)
THEOREM CommandTypes == NlSpec => []NlTypeOK
<1>1. TypeInv => TypeOK
  BY DEF TypeInv
<1>2. NlInit => TypeInv
  BY TypeInit DEF NlInit
<1>3. TypeInv /\ [NlNext]_nlvars => TypeInv'
  BY NlStep, TypeStep
<1>4. TypeInv /\ TypeInv' /\ NlTypeOK /\ [NlNext]_nlvars => NlTypeOK'
  BY <1>1, NlTypeNext DEF TypeInv
<1> QED
  BY <1>2, <1>3, <1>4, NlTypeInit, PTL DEF NlSpec

-----------------------------------------------------------------------------
(* The commands that look a link up act on that link.                      *)

(* The object in hand is the one looked up, under the name of the command  *)
(* line, from the lookup to the end of the method.                         *)
InHand(c) == /\ found[c] # 0 /\ obj[c].idx = found[c]
             /\ obj[c].name = cmd[c].name /\ cmd[c].name # NoName

KeepsLink ==
  \A c \in Clients :
    /\ stage[c] = "made" => cmd[c].do \notin Lookers
    /\ stage[c] = "found" => pc[c] = "idle"
    /\ stage[c] = "found" /\ cmd[c].do \in Lookers => InHand(c)
    /\ stage[c] = "lookup" =>
         /\ pc[c] = "read" /\ call[c].op = "GetLink" /\ call[c].ns = cmd[c].ns
         /\ obj[c].name # NoName
         /\ cmd[c].do \in Lookers => obj[c].name = cmd[c].name
    /\ stage[c] = "act" /\ cmd[c].do \in Lookers =>
         /\ InHand(c) /\ call[c].ns = cmd[c].ns
         /\ pc[c] \in {"modify", "read", "update"}
         /\ call[c].op \in {"Up", "Down", "SetMtu", "Del"}

(* A step of c, and what it leaves of the other processes.                 *)
LEMMA OthersKept ==
  ASSUME TypeInv, NlTypeOK, NEW c \in Clients,
         Begin(c) \/ DumpFails(c) \/ Script(c),
         NEW b \in Clients, b # c
  PROVE  /\ obj'[b] = obj[b] /\ pc'[b] = pc[b] /\ call'[b] = call[b]
         /\ cmd'[b] = cmd[b] /\ stage'[b] = stage[b] /\ found'[b] = found[b]
         /\ home'[b] = home[b] /\ rows'[b] = rows[b]
<1>1. \/ UNCHANGED vars \/ CallGet(c) \/ Construct(c) \/ CallModify(c)
      \/ CallUpdate(c) \/ Continue(c)
  BY DEF Begin, DumpFails, Script, LookupBridge, Act, Send, Show, Work, GetByName, Make
<1>2. obj'[b] = obj[b]
  <2>1. \/ obj' = obj \/ \E o : obj' = [obj EXCEPT ![c] = o]
    <3>1. CASE CallGet(c) \/ Construct(c)
      BY <3>1 DEF CallGet, Construct
    <3>2. CASE ~(CallGet(c) \/ Construct(c))
      BY <1>1, <3>2
      DEF CallModify, CallUpdate, Continue, SendNewLink, ReadBack, SendSetLink,
          SendDelLink, LeadingRead, SendUpdate, Refresh, vars
    <3> QED
      BY <3>1, <3>2
  <2> QED
    BY <2>1 DEF TypeInv, TypeOK
<1>3. pc'[b] = pc[b] /\ call'[b] = call[b]
  <2>1. /\ \/ pc' = pc \/ \E s : pc' = [pc EXCEPT ![c] = s]
        /\ \/ call' = call \/ \E k : call' = [call EXCEPT ![c] = k]
    BY <1>1
    DEF CallGet, Construct, CallModify, CallUpdate, Continue, SendNewLink, ReadBack,
        SendSetLink, SendDelLink, LeadingRead, SendUpdate, Invoke, Return, vars
  <2> QED
    BY <2>1 DEF TypeInv, TypeOK
<1>4. cmd'[b] = cmd[b] /\ found'[b] = found[b]
  <2>1. /\ \/ cmd' = cmd \/ \E k : cmd' = [cmd EXCEPT ![c] = k]
        /\ \/ found' = found \/ \E i : found' = [found EXCEPT ![c] = i]
    BY DEF Begin, DumpFails, Script, LookupBridge, Act, Send, Show, Work, Exit, script
  <2> QED
    BY <2>1 DEF NlTypeOK
<1>5. stage'[b] = stage[b]
  <2>1. \/ stage' = stage \/ \E s : stage' = [stage EXCEPT ![c] = s]
    BY DEF Begin, DumpFails, Script, LookupBridge, Act, Send, Show, Work, Exit, script,
           Goto, GetByName, Make
  <2> QED
    BY <2>1 DEF NlTypeOK
<1>6. home'[b] = home[b]
  <2>1. \/ home' = home \/ \E n : home' = [home EXCEPT ![c] = n]
    BY <1>1
    DEF CallGet, Construct, CallModify, CallUpdate, Continue, SendNewLink, ReadBack,
        SendSetLink, SendDelLink, LeadingRead, SendUpdate, Refresh, vars
  <2> QED
    BY <2>1 DEF TypeInv, TypeOK
<1>7. rows'[b] = rows[b]
  <2>1. \/ rows' = rows \/ \E r : rows' = [rows EXCEPT ![c] = r]
    BY DEF Begin, DumpFails, Script, LookupBridge, Act, Send, Show, Work, Exit, script
  <2> QED
    BY <2>1 DEF NlTypeOK
<1> QED
  BY <1>2, <1>3, <1>4, <1>5, <1>6, <1>7

(* GetByName reads into an object of the name that is sought.              *)
LEMMA GetByNameKept ==
  ASSUME TypeOK, NlTypeOK, NEW c \in Clients, GetByName(c),
         cmd' \in [Clients -> Command \cup {NoCommand}]
  PROVE  /\ stage'[c] = "lookup" /\ pc'[c] = "read"
         /\ call'[c].op = "GetLink" /\ call'[c].ns = cmd'[c].ns
         /\ obj'[c].name # NoName /\ obj'[c].name = Sought(cmd'[c])
         /\ cmd'[c].do \in Lookers => obj'[c].name = cmd'[c].name
         /\ obj'[c].idx = 0 /\ home'[c] = NoNs
<1>1. PICK x \in Contexts, y \in Names :
        /\ obj' = [obj EXCEPT ![c] = [EmptyLink EXCEPT !.name = y]]
        /\ Invoke(c, "GetLink", x, 0, "read")
  <2>1. ~\E x \in Contexts : Invoke(c, "GetLinkByIndex", x, 0, "read")
    BY DEF GetByName, CallsIn, Invoke, TypeOK
  <2> QED
    BY <2>1 DEF GetByName, CallGet
<1>2. obj'[c] = [EmptyLink EXCEPT !.name = y]
  BY <1>1 DEF TypeOK
<1>3. obj'[c].name = y /\ y # NoName /\ obj'[c].idx = 0
  BY <1>2, KernelAssumption DEF EmptyLink
<1>4. obj'[c].name = Sought(cmd'[c])
  BY DEF GetByName
<1>5. stage'[c] = "lookup"
  BY DEF GetByName, Goto, NlTypeOK
<1>6. pc'[c] = "read"
  BY <1>1 DEF Invoke, TypeOK
<1>7. call'[c].op = "GetLink" /\ call'[c].ns = cmd'[c].ns
  BY DEF GetByName, CallsIn
<1>8. home'[c] = NoNs
  BY DEF GetByName, CallGet, TypeOK
<1> QED
  BY <1>3, <1>4, <1>5, <1>6, <1>7, <1>8 DEF Sought

(* The exchanges of a method that begins with a Read, or of Del: the       *)
(* object keeps the name and the index it is read by.                      *)
LEMMA ExchangeKept ==
  ASSUME TypeInv, NEW c \in Clients, Continue(c),
         pc[c] \in {"modify", "read", "update"},
         call[c].op \in {"Up", "Down", "SetMtu", "Del", "GetLink"},
         obj[c].name # NoName
  PROVE  /\ \/ pc'[c] = "idle"
            \/ pc'[c] = "update" /\ call' = call /\ call[c].op # "GetLink"
         /\ \/ pc'[c] = "idle" /\ ret'[c] # "ok"
            \/ call[c].op \in {"Up", "Down"} /\ obj'[c] = obj[c]
            \/ call[c].op \in {"SetMtu", "Del"} /\ obj'[c] = obj[c]
            \/ /\ obj'[c].name = obj[c].name /\ obj'[c].idx # 0
               /\ obj[c].idx # 0 => obj'[c].idx = obj[c].idx
<1>1. /\ obj \in [Clients -> Object] /\ call \in [Clients -> Call]
      /\ pc \in [Clients -> {"idle", "modify", "readback", "read", "update"}]
      /\ ret \in [Clients -> Results]
  BY DEF TypeInv, TypeOK
<1>2. CASE SendDelLink(c) \/ SendUpdate(c)
  <2>1. obj' = obj /\ \E e : Return(c, e)
    BY <1>2 DEF SendDelLink, SendUpdate
  <2>2. call[c].op # "GetLink"
    BY <1>2 DEF SendDelLink, SendUpdate, TypeInv, CallOK
  <2> QED
    BY <1>1, <2>1, <2>2 DEF Return
<1>3. CASE LeadingRead(c)
  <2>1. PICK r \in Read(obj[c], call[c].ns) :
          \/ /\ r.err = "ok" /\ Sends(call[c].op, r.obj)
             /\ obj' = [obj EXCEPT
                          ![c] = [r EXCEPT !.obj = Edited(call[c].op, call[c].arg,
                                                          @)].obj]
             /\ pc' = [pc EXCEPT ![c] = "update"] /\ call' = call
          \/ /\ ~(r.err = "ok" /\ Sends(call[c].op, r.obj))
             /\ obj' = [obj EXCEPT ![c] = r.obj]
             /\ Return(c, ReadResult(call[c].op, r.err))
    BY <1>3 DEF LeadingRead, Refresh
  <2>2. CASE r.err = "ok"
    <3>1. PICK d \in links : /\ Satisfies(d, obj[c])
                             /\ obj[c].idx # 0 => d.idx = obj[c].idx
                             /\ r.obj = Unmarshal(d)
      BY <2>2, ReadOutcome
    <3>2. r.obj.name = d.name /\ r.obj.idx = d.idx /\ d.name = obj[c].name
      BY <3>1 DEF Satisfies, Unmarshal, EmptyLink
    <3>3. DOMAIN r.obj = DOMAIN EmptyLink /\ DOMAIN r = {"err", "obj"}
      BY <2>2, <3>1 DEF Unmarshal, EmptyLink, Read
    <3>4. d.idx # 0
      BY <3>1, KernelAssumption DEF TypeInv, TypeOK, KernelTypeOK, Link, Indices
    <3>5. CASE Sends(call[c].op, r.obj)
      <4> DEFINE o == Edited(call[c].op, call[c].arg, r.obj)
      <4>1. call[c].op \in {"Up", "Down", "SetMtu"}
        BY <3>5 DEF Sends
      <4>2. o.name = r.obj.name /\ o.idx = r.obj.idx
        BY <3>3, <4>1 DEF Edited, EmptyLink
      <4>3. [r EXCEPT !.obj = Edited(call[c].op, call[c].arg, @)].obj = o
        BY <3>3
      <4> HIDE DEF o
      <4>4. /\ obj' = [obj EXCEPT ![c] = o]
            /\ pc' = [pc EXCEPT ![c] = "update"] /\ call' = call
        BY <2>1, <2>2, <3>5, <4>3
      <4>5. obj'[c] = o /\ pc'[c] = "update"
        BY <1>1, <4>4
      <4> QED
        BY <3>1, <3>2, <3>4, <4>1, <4>2, <4>4, <4>5
    <3>6. CASE ~Sends(call[c].op, r.obj)
      <4>1. obj' = [obj EXCEPT ![c] = r.obj] /\ pc' = [pc EXCEPT ![c] = "idle"]
        BY <2>1, <3>6 DEF Return
      <4>2. obj'[c] = r.obj /\ pc'[c] = "idle"
        BY <1>1, <4>1
      <4> QED
        BY <3>1, <3>2, <3>4, <4>2
    <3> QED
      BY <3>5, <3>6
  <2>3. CASE r.err # "ok"
    <3>1. r.obj = obj[c]
      BY <2>3, ReadOutcome
    <3>2. /\ obj'[c] = obj[c] /\ pc'[c] = "idle"
          /\ ret'[c] = ReadResult(call[c].op, r.err)
      <4>1. ReadResult(call[c].op, r.err) \in Results
        BY <2>3, ReadOutcome DEF ReadResult, Results, Errno
      <4> QED
        BY <1>1, <2>1, <2>3, <3>1, <4>1 DEF Return
    <3> QED
      BY <2>3, <3>2 DEF ReadResult
  <2> QED
    BY <2>2, <2>3
<1> QED
  BY <1>2, <1>3 DEF Continue, SendNewLink, ReadBack, SendSetLink

LEMMA LinkKept ==
  ASSUME TypeInv, NlTypeOK, NlTypeOK', KeepsLink, NEW c \in Clients,
         Begin(c) \/ DumpFails(c) \/ Script(c)
  PROVE  KeepsLink'
<1>1. /\ obj \in [Clients -> Object] /\ call \in [Clients -> Call]
      /\ pc \in [Clients -> {"idle", "modify", "readback", "read", "update"}]
      /\ stage \in [Clients -> Stages] /\ found \in [Clients -> 0 .. MaxIndex]
      /\ cmd \in [Clients -> Command \cup {NoCommand}]
      /\ cmd' \in [Clients -> Command \cup {NoCommand}] /\ TypeOK
  BY DEF TypeInv, TypeOK, NlTypeOK
<1>2. SUFFICES /\ stage'[c] = "made" => cmd'[c].do \notin Lookers
               /\ stage'[c] = "found" => pc'[c] = "idle"
               /\ stage'[c] = "found" /\ cmd'[c].do \in Lookers => InHand(c)'
               /\ stage'[c] = "lookup" =>
                    /\ pc'[c] = "read" /\ call'[c].op = "GetLink"
                    /\ call'[c].ns = cmd'[c].ns
                    /\ obj'[c].name # NoName
                    /\ cmd'[c].do \in Lookers => obj'[c].name = cmd'[c].name
               /\ stage'[c] = "act" /\ cmd'[c].do \in Lookers =>
                    /\ InHand(c)' /\ call'[c].ns = cmd'[c].ns
                    /\ pc'[c] \in {"modify", "read", "update"}
                    /\ call'[c].op \in {"Up", "Down", "SetMtu", "Del"}
  BY OthersKept DEF KeepsLink, InHand
<1>3. CASE Begin(c)
  <2>1. CASE cmd'[c].do = "list"
    <3>1. stage'[c] \in {"list", "dumped"}
      BY <1>1, <1>3, <2>1 DEF Begin, Goto
    <3> QED
      BY <3>1
  <2>2. CASE cmd'[c].do # "list" /\ Sought(cmd'[c]) # NoName
    <3>1. GetByName(c)
      BY <1>3, <2>2 DEF Begin
    <3> QED
      BY <1>1, <3>1, GetByNameKept
  <2>3. CASE cmd'[c].do # "list" /\ Sought(cmd'[c]) = NoName
    <3>1. stage'[c] = "made"
      BY <1>1, <1>3, <2>3 DEF Begin, Make, Goto
    <3>2. cmd'[c] \in Given
      BY <1>1, <1>3 DEF Begin
    <3>3. cmd'[c].do \notin Lookers
      BY <2>3, <3>2, CommandAssumption DEF Sought
    <3> QED
      BY <3>1, <3>3
  <2> QED
    BY <2>1, <2>2, <2>3
<1>4. CASE LookupBridge(c)
  BY <1>1, <1>4, GetByNameKept DEF LookupBridge
<1>5. CASE Act(c)
  <2>1. CASE Exit(c, "ok")
    <3>1. stage'[c] = "ok"
      BY <1>1, <2>1 DEF Exit, Goto
    <3> QED
      BY <3>1
  <2>2. CASE cmd[c].do \in Lookers /\ ~Exit(c, "ok")
    <3>1. /\ CallModify(c) \/ CallUpdate(c)
          /\ UNCHANGED <<cmd, found>> /\ CallsIn(c, Method(cmd[c].do))
          /\ Goto(c, "act") /\ stage[c] = "found"
      BY <1>5, <2>2 DEF Act, Lookers, Makers
    <3>2. Method(cmd[c].do) \in {"Up", "Down", "SetMtu", "Del"}
      BY <2>2 DEF Method, Lookers
    <3>3. /\ obj' = obj
          /\ \E s \in {"idle", "modify", "read"} : pc' = [pc EXCEPT ![c] = s]
      BY <3>1 DEF CallModify, CallUpdate, Invoke, Return
    <3>4. pc'[c] # "idle"
      <4>1. CASE CallModify(c)
        BY <1>1, <4>1 DEF CallModify, Invoke
      <4>2. CASE CallUpdate(c)
        <5>1. \/ Return(c, "ok") \/ pc' = [pc EXCEPT ![c] = "read"]
          BY <4>2 DEF CallUpdate, Invoke
        <5>2. ~Return(c, "ok")
          BY <1>1, <3>1, <3>2 DEF Return, CallsIn, NoCall
        <5> QED
          BY <1>1, <5>1, <5>2
      <4> QED
        BY <3>1, <4>1, <4>2
    <3>5. stage'[c] = "act" /\ pc'[c] \in {"modify", "read"}
      BY <1>1, <3>1, <3>3, <3>4 DEF Goto
    <3>6. InHand(c)'
      BY <2>2, <3>1, <3>3 DEF KeepsLink, InHand
    <3>7. call'[c].op = Method(cmd[c].do) /\ call'[c].ns = cmd'[c].ns
      BY <3>1 DEF CallsIn
    <3> QED
      BY <3>2, <3>5, <3>6, <3>7
  <2>3. CASE cmd[c].do \in Makers
    <3>1. stage'[c] = "made" /\ cmd' = cmd
      BY <1>1, <1>5, <2>3 DEF Act, Make, Goto, Lookers, Makers
    <3> QED
      BY <2>3, <3>1 DEF Lookers, Makers
  <2> QED
    BY <1>5, <2>1, <2>2, <2>3 DEF Act
<1>6. CASE Send(c)
  <2>1. stage'[c] = "act" /\ cmd' = cmd /\ stage[c] = "made"
    BY <1>1, <1>6 DEF Send, Goto
  <2> QED
    BY <2>1 DEF KeepsLink
<1>7. CASE Show(c)
  <2>1. stage'[c] \in {"ok", "row"}
    BY <1>1, <1>7 DEF Show, Exit, Goto
  <2> QED
    BY <2>1
<1>8. CASE Work(c)
  <2>1. Continue(c) /\ pc[c] # "idle"
    BY <1>8 DEF Work, Continue, SendNewLink, ReadBack, SendSetLink, SendDelLink,
                LeadingRead, SendUpdate
  <2>2. CASE pc'[c] # "idle"
    <3>1. cmd' = cmd /\ stage' = stage /\ found' = found
      BY <1>8, <2>2 DEF Work, script
    <3>2. stage[c] # "found"
      BY <2>1 DEF KeepsLink
    <3>3. stage[c] # "lookup"
      BY <2>1, <2>2, ExchangeKept DEF KeepsLink
    <3>4. stage[c] = "act" /\ cmd[c].do \in Lookers =>
            /\ InHand(c)' /\ call'[c].ns = cmd'[c].ns
            /\ pc'[c] \in {"modify", "read", "update"}
            /\ call'[c].op \in {"Up", "Down", "SetMtu", "Del"}
      <4> SUFFICES ASSUME stage[c] = "act", cmd[c].do \in Lookers
                   PROVE  /\ InHand(c)' /\ call'[c].ns = cmd'[c].ns
                          /\ pc'[c] \in {"modify", "read", "update"}
                          /\ call'[c].op \in {"Up", "Down", "SetMtu", "Del"}
        OBVIOUS
      <4>1. /\ InHand(c) /\ call[c].ns = cmd[c].ns
            /\ pc[c] \in {"modify", "read", "update"}
            /\ call[c].op \in {"Up", "Down", "SetMtu", "Del"}
        BY DEF KeepsLink
      <4>2. /\ pc'[c] = "update" /\ call' = call
            /\ obj'[c].name = obj[c].name /\ obj'[c].idx = obj[c].idx
        BY <2>1, <2>2, <4>1, ExchangeKept DEF InHand
      <4> QED
        BY <3>1, <4>1, <4>2 DEF InHand
    <3> QED
      BY <3>1, <3>2, <3>3, <3>4 DEF KeepsLink
  <2>3. CASE pc'[c] = "idle"
    <3>1. CASE Exit(c, "ok") \/ Exit(c, "failed") \/ Goto(c, "list")
      <4>1. stage'[c] \in {"ok", "failed", "list"}
        BY <1>1, <3>1 DEF Exit, Goto
      <4> QED
        BY <4>1
    <3>2. CASE ~(Exit(c, "ok") \/ Exit(c, "failed") \/ Goto(c, "list"))
      <4>1. /\ stage[c] = "lookup" /\ ret'[c] = "ok" /\ cmd' = cmd
            /\ found' = [found EXCEPT ![c] = obj'[c].idx] /\ Goto(c, "found")
        BY <1>8, <2>3, <3>2 DEF Work, Fatal
      <4>2. stage'[c] = "found" /\ found'[c] = obj'[c].idx
        BY <1>1, <4>1 DEF Goto
      <4>3. obj'[c].name = obj[c].name /\ obj'[c].idx # 0
        BY <2>1, <4>1, ExchangeKept DEF KeepsLink
      <4> QED
        BY <2>3, <4>1, <4>2, <4>3 DEF KeepsLink, InHand
    <3> QED
      BY <3>1, <3>2
  <2> QED
    BY <2>2, <2>3
<1>9. CASE DumpFails(c)
  BY <1>1, <1>9 DEF DumpFails, Exit, Goto
<1> QED
  BY <1>3, <1>4, <1>5, <1>6, <1>7, <1>8, <1>9 DEF Script

LEMMA KeepsLinkStep ==
  ASSUME TypeInv, NlTypeOK, NlTypeOK', KeepsLink, [NlNext]_nlvars
  PROVE  KeepsLink'
<1>1. CASE NlNext
  BY <1>1, LinkKept DEF NlNext
<1>2. CASE UNCHANGED nlvars
  BY <1>2 DEF nlvars, KeepsLink, InHand
<1> QED
  BY <1>1, <1>2

LEMMA StepActsOnFound ==
  ASSUME AgreeInv, KeepsLink, [NlNext]_nlvars, NEW c \in Clients,
         stage[c] = "act", cmd[c].do \in Lookers, Steps(c), NEW d \in links
  PROVE  \/ d \in links' \/ [d EXCEPT !.master = 0] \in links'
         \/ \E p \in links : /\ p.ns = cmd[c].ns /\ p.idx = found[c]
                             /\ p.name = cmd[c].name
                             /\ d = p \/ (p.pair # {} /\ d.pair = p.pair)
<1>1. CASE UNCHANGED kernel
  BY <1>1 DEF kernel
<1>2. CASE ~UNCHANGED kernel
  <2>1. TypeInv /\ [Next]_vars
    BY NlStep DEF AgreeInv
  <2>2. PICK e \in Results : /\ pc[c] \in {"modify", "update"}
                             /\ NetlinkUpdate(Type(c), call[c].ns, Message(c), e)
    BY <1>2, <2>1, ExchangeChanges
  <2>3. call[c].ns \in Namespaces /\ Message(c) \in Request
    BY <2>1, <2>2, MessageNames DEF TypeInv, CallOK
  <2>4. /\ Sound(c, call[c].ns, Message(c))
        /\ Type(c) = "SETLINK" => Message(c).ns = NoNs
    BY <2>2, MessageSound
  <2>5. Type(c) \in {"NEWLINK", "SETLINK", "DELLINK"}
    BY DEF Type
  <2>6. Confined(call[c].ns, Message(c))
    BY <2>2, <2>3, <2>4, <2>5, UpdateConfined
  <2>7. InHand(c) /\ call[c].ns = cmd[c].ns
    BY DEF KeepsLink
  <2>8. Message(c).idx = found[c]
    BY <2>1, <2>2, <2>7, MessageNames DEF InHand
  <2>9. ASSUME NEW p \in Lookup(call[c].ns, Message(c))
        PROVE  /\ p \in links /\ p.ns = cmd[c].ns /\ p.idx = found[c]
               /\ p.name = cmd[c].name
    <3>1. Means(c, p)
      BY <2>2, SelectsMeant
    <3> QED
      BY <2>7, <2>8, <3>1 DEF Lookup, Means, InHand
  <2> QED
    BY <2>6, <2>9 DEF Confined
<1> QED
  BY <1>1, <1>2

-----------------------------------------------------------------------------
(* What a process knows between the steps of its script: the name that was *)
(* sought, the object it has made, and the index of the bridge it has      *)
(* found, which was handed out, so that no other link can have it.         *)

FoundBridge(c) ==
  /\ found[c] # 0 /\ found[c] <= last[cmd[c].ns]
  /\ \A d \in links :
       d.ns = cmd[c].ns /\ d.idx = found[c] => d.name = cmd[c].bridge

Bridged(c) == /\ cmd[c].bridge = NoName => found[c] = 0
              /\ cmd[c].bridge # NoName => FoundBridge(c)

Made(c) == /\ obj[c].idx = 0 /\ obj[c].change = {} /\ obj[c].name = cmd[c].name
           /\ obj[c].ns \in {NoNs, cmd[c].ns} /\ obj[c].master = found[c]
           /\ home[c] = NoNs

AtLookup(c) == /\ pc[c] = "read" /\ call[c].op = "GetLink"
               /\ call[c].ns = cmd[c].ns /\ obj[c].idx = 0
               /\ obj[c].name = Sought(cmd[c]) /\ obj[c].name # NoName
               /\ home[c] = NoNs

AtRow(c) == /\ cmd[c].do = "list"
            /\ pc[c] = "read" /\ call[c].op = "GetLinkByIndex"
            /\ call[c].ns = cmd[c].ns /\ obj[c].name = NoName /\ obj[c].idx # 0

AtAct(c) ==
  /\ cmd[c].do \in Lookers \cup Makers
  /\ call[c].op = Method(cmd[c].do)
  /\ call[c].ns = cmd[c].ns /\ call[c].target = NoNs
  /\ cmd[c].do = "mtu" => call[c].arg = cmd[c].arg
  /\ cmd[c].do \in Makers =>
       /\ Bridged(c) /\ pc[c] \in {"modify", "readback"}
       /\ pc[c] = "modify" => Made(c)
       /\ pc[c] = "readback" => obj[c].name = cmd[c].name

Scripted(c) ==
  /\ stage[c] \notin {"lookup", "act", "row"} => pc[c] = "idle"
  /\ stage[c] \notin Done => cmd[c] \in Given
  /\ stage[c] \in Done => found[c] = 0
  /\ stage[c] = "dumped" => cmd[c].do = "list" /\ cmd[c].bridge # NoName
  /\ stage[c] = "list" => cmd[c].do = "list"
  /\ stage[c] = "lookup" => AtLookup(c)
  /\ stage[c] = "row" => AtRow(c)
  /\ stage[c] = "found" =>
       /\ cmd[c].do \in Lookers \cup Makers /\ home[c] \in {NoNs, cmd[c].ns}
       /\ cmd[c].do \in Makers => cmd[c].bridge # NoName /\ FoundBridge(c)
  /\ stage[c] = "made" => cmd[c].do \in Makers /\ Made(c) /\ Bridged(c)
  /\ stage[c] = "act" => AtAct(c)

KeepsScript == \A c \in Clients : Scripted(c)

(* A link keeps its index and name, and new ones have new indices.         *)
IndicesGrow ==
  /\ \A n \in Namespaces : last[n] <= last'[n]
  /\ \A h \in links' :
       \/ \E d \in links : d.ns = h.ns /\ d.idx = h.idx /\ d.name = h.name
       \/ last[h.ns] < h.idx

LEMMA NlIndices ==
  ASSUME AgreeInv, KeepsLink, KeepsScript, [NlNext]_nlvars
  PROVE  IndicesGrow
<1>1. CASE UNCHANGED kernel
  <2>1. links' = links /\ last' = last
    BY <1>1 DEF kernel
  <2> QED
    BY <2>1, KernelAssumption DEF IndicesGrow, AgreeInv, TypeInv, TypeOK, KernelTypeOK
<1>2. CASE ~UNCHANGED kernel
  <2>1. PICK c \in Clients : Continue(c)
    <3>1. ASSUME NEW c \in Clients,
                 CallGet(c) \/ Construct(c) \/ CallModify(c) \/ CallUpdate(c)
          PROVE  UNCHANGED kernel
      BY <3>1 DEF CallGet, Construct, CallModify, CallUpdate, Invoke, kernel
    <3>2. UNCHANGED vars => UNCHANGED kernel
      BY DEF vars, kernel
    <3>3. PICK c \in Clients : Begin(c) \/ DumpFails(c) \/ Script(c)
      BY <1>2 DEF NlNext, nlvars, kernel
    <3>4. \/ CallGet(c) \/ Construct(c) \/ CallModify(c) \/ CallUpdate(c)
          \/ UNCHANGED vars \/ Continue(c)
      BY <3>3
      DEF Begin, DumpFails, Script, LookupBridge, Act, Send, Show, Work, GetByName,
          Make
    <3> QED
      BY <1>2, <3>1, <3>2, <3>4
  <2>2. Steps(c)
    BY <1>2, <2>1
    DEF Continue, SendNewLink, SendSetLink, SendDelLink, SendUpdate, ReadBack,
        LeadingRead, Return, Steps, AfterNewLink, AgreeInv, TypeInv, TypeOK
  <2>3. TypeInv /\ [Next]_vars
    BY NlStep DEF AgreeInv
  <2>4. PICK e \in Results : /\ pc[c] \in {"modify", "update"}
                             /\ NetlinkUpdate(Type(c), call[c].ns, Message(c), e)
    BY <1>2, <2>2, <2>3, ExchangeChanges
  <2>5. call[c].ns \in Namespaces /\ Message(c) \in Request
    BY <2>3, <2>4, MessageNames DEF TypeInv, CallOK
  <2>6. /\ Sound(c, call[c].ns, Message(c))
        /\ Type(c) = "SETLINK" => Message(c).ns = NoNs
    BY <2>4, MessageSound
  <2>7. CASE Type(c) = "NEWLINK"
    <3>1. pc[c] = "modify" /\ call[c].op \in {"Add", "Present"}
      BY <2>1, <2>4, <2>7
      DEF Type, Continue, SendNewLink, SendSetLink, SendDelLink, SendUpdate, ReadBack,
          LeadingRead
    <3>2. stage[c] = "act" /\ cmd[c].do \in Makers
      BY <3>1 DEF KeepsScript, Scripted, AtLookup, AtRow, AtAct, KeepsLink
    <3>3. obj[c].idx = 0
      BY <3>1, <3>2 DEF KeepsScript, Scripted, AtAct, Made
    <3>4. Evolves(c)
      BY <2>4, <2>5, <2>6, <2>7, UpdateEvolves
    <3> QED
      BY <3>3, <3>4 DEF Evolves, Holds, IndicesGrow
  <2>8. CASE Type(c) # "NEWLINK"
    <3>1. Type(c) \in {"SETLINK", "DELLINK"}
      BY <2>8 DEF Type
    <3>2. LinksStay
      BY <1>2, <2>4, <2>5, <2>6, <3>1, SetLinkStays, DelLinkStays DEF NetlinkUpdate
    <3> QED
      BY <3>2, KernelAssumption
      DEF LinksStay, IndicesGrow, AgreeInv, TypeInv, TypeOK, KernelTypeOK
  <2> QED
    BY <2>7, <2>8
<1> QED
  BY <1>1, <1>2

LEMMA BridgeKept ==
  ASSUME KernelTypeOK, KernelTypeOK', NlTypeOK, IndicesGrow, NEW c \in Clients,
         cmd'[c] = cmd[c], found'[c] = found[c]
  PROVE  /\ FoundBridge(c) => FoundBridge(c)'
         /\ Bridged(c) => Bridged(c)'
<1>1. cmd[c].ns \in Namespaces /\ found[c] \in Nat
  <2>1. cmd[c] \in Command \cup {NoCommand} /\ found[c] \in 0 .. MaxIndex
    BY DEF NlTypeOK
  <2>2. NoCommand.ns \in Namespaces
    BY CommandAssumption DEF NoCommand
  <2> QED
    BY <2>1, <2>2, KernelAssumption DEF Command
<1>2. last[cmd[c].ns] \in Nat /\ last'[cmd[c].ns] \in Nat
  BY <1>1, KernelAssumption DEF KernelTypeOK
<1>3. ASSUME FoundBridge(c) PROVE FoundBridge(c)'
  <2>1. found[c] <= last'[cmd[c].ns]
    BY <1>1, <1>2, <1>3 DEF FoundBridge, IndicesGrow
  <2>2. ASSUME NEW h \in links', h.ns = cmd[c].ns, h.idx = found[c]
        PROVE  h.name = cmd[c].bridge
    <3>1. ~(last[h.ns] < h.idx)
      BY <1>1, <1>2, <1>3, <2>2 DEF FoundBridge
    <3> QED
      BY <1>3, <2>2, <3>1 DEF FoundBridge, IndicesGrow
  <2> QED
    BY <1>3, <2>1, <2>2 DEF FoundBridge
<1> QED
  BY <1>3 DEF Bridged

(* The steps of a process keep what it knows.                              *)

LEMMA Functions ==
  ASSUME TypeInv, NlTypeOK
  PROVE  /\ obj \in [Clients -> Object] /\ call \in [Clients -> Call]
         /\ pc \in [Clients -> {"idle", "modify", "readback", "read", "update"}]
         /\ ret \in [Clients -> Results]
         /\ home \in [Clients -> Namespaces \cup {NoNs}]
         /\ cmd \in [Clients -> Command \cup {NoCommand}]
         /\ stage \in [Clients -> Stages] /\ found \in [Clients -> 0 .. MaxIndex]
         /\ rows \in [Clients -> SUBSET Row]
BY DEF TypeInv, TypeOK, NlTypeOK

LEMMA Exited ==
  ASSUME NlTypeOK, NEW c \in Clients, NEW s \in Done, Exit(c, s), pc'[c] = "idle"
  PROVE  Scripted(c)'
<1>1. stage'[c] = s /\ found'[c] = 0
  BY DEF Exit, Goto, NlTypeOK
<1> QED
  BY <1>1 DEF Scripted, Done

LEMMA MakeScripted ==
  ASSUME TypeInv, NlTypeOK, NEW c \in Clients, Make(c), cmd'[c] \in Given,
         cmd'[c].do \in Makers, Bridged(c)'
  PROVE  Scripted(c)'
<1>1. pc'[c] = "idle" /\ stage'[c] = "made"
  BY Functions DEF Make, Construct, Goto
<1>2. Made(c)'
  <2>1. home'[c] = NoNs
    BY Functions DEF Make, Construct
  <2> QED
    BY <2>1 DEF Make, NewLink, EmptyLink, Made
<1> QED
  BY <1>1, <1>2 DEF Scripted, Done

LEMMA LookupScripted ==
  ASSUME TypeInv, NlTypeOK, NlTypeOK', NEW c \in Clients, GetByName(c),
         cmd'[c] \in Given
  PROVE  Scripted(c)'
<1>1. /\ stage'[c] = "lookup" /\ pc'[c] = "read"
      /\ call'[c].op = "GetLink" /\ call'[c].ns = cmd'[c].ns
      /\ obj'[c].name # NoName /\ obj'[c].name = Sought(cmd'[c])
      /\ obj'[c].idx = 0 /\ home'[c] = NoNs
  BY GetByNameKept DEF TypeInv, NlTypeOK
<1>2. AtLookup(c)'
  BY <1>1 DEF AtLookup, Sought
<1> QED
  BY <1>1, <1>2 DEF Scripted, Done

LEMMA BeginScripted ==
  ASSUME TypeInv, NlTypeOK, NlTypeOK', NEW c \in Clients, Scripted(c), Begin(c)
  PROVE  Scripted(c)'
<1>1. /\ stage[c] \in Done /\ pc[c] = "idle" /\ found'[c] = 0
      /\ cmd'[c] \in Given /\ cmd'[c] \in Command
  BY Functions, CommandAssumption DEF Begin, Scripted, Done
<1>2. CASE cmd'[c].do = "list"
  <2>1. /\ UNCHANGED vars
        /\ stage'[c] = IF cmd'[c].bridge = NoName THEN "list" ELSE "dumped"
    BY <1>2, Functions DEF Begin, Goto
  <2>2. pc'[c] = "idle"
    BY <1>1, <2>1 DEF vars
  <2> QED
    BY <1>1, <1>2, <2>1, <2>2 DEF Scripted, Done
<1>3. CASE cmd'[c].do # "list" /\ Sought(cmd'[c]) # NoName
  BY <1>1, <1>3, LookupScripted DEF Begin
<1>4. CASE cmd'[c].do # "list" /\ Sought(cmd'[c]) = NoName
  <2>1. cmd'[c].do \in Makers /\ cmd'[c].bridge = NoName
    BY <1>1, <1>4, CommandAssumption DEF Sought, Command
  <2>2. Bridged(c)'
    BY <1>1, <2>1 DEF Bridged
  <2>3. Make(c)
    BY <1>4 DEF Begin
  <2> QED
    BY <1>1, <2>1, <2>2, <2>3, MakeScripted
<1> QED
  BY <1>2, <1>3, <1>4

LEMMA DumpFailsScripted ==
  ASSUME NlTypeOK, NEW c \in Clients, Scripted(c), DumpFails(c)
  PROVE  Scripted(c)'
<1>1. pc'[c] = "idle"
  BY DEF DumpFails, Scripted, Done, vars
<1> QED
  BY <1>1, Exited DEF DumpFails, Done

LEMMA ActScripted ==
  ASSUME AgreeInv, TypeInv', NlTypeOK, NlTypeOK', IndicesGrow,
         NEW c \in Clients, Scripted(c), Act(c)
  PROVE  Scripted(c)'
<1> USE DEF AgreeInv
<1>1. /\ cmd[c].do \in Lookers \cup Makers /\ cmd[c] \in Given
      /\ cmd[c].do \in Makers => cmd[c].bridge # NoName /\ FoundBridge(c)
  BY DEF Act, Scripted, Done
<1>2. CASE pc'[c] = "idle" /\ Exit(c, "ok")
  BY <1>2, Exited DEF Done
<1>3. CASE cmd[c].do \in Lookers /\ ~(pc'[c] = "idle" /\ Exit(c, "ok"))
  <2>1. /\ CallsIn(c, Method(cmd[c].do)) /\ Goto(c, "act") /\ cmd' = cmd
        /\ cmd[c].do = "mtu" => call'[c].arg = cmd[c].arg
    BY <1>3 DEF Act, Lookers, Makers
  <2>2. stage'[c] = "act" /\ cmd[c].do \notin Makers
    BY <1>3, <2>1, Functions DEF Goto, Lookers, Makers
  <2>3. AtAct(c)'
    BY <1>1, <2>1, <2>2 DEF AtAct, CallsIn
  <2> QED
    BY <1>1, <2>1, <2>2, <2>3 DEF Scripted, Done
<1>4. CASE cmd[c].do \in Makers
  <2>1. Make(c) /\ UNCHANGED <<cmd, found>>
    BY <1>4 DEF Act, Lookers, Makers
  <2>2. FoundBridge(c)'
    BY <1>1, <1>4, <2>1, BridgeKept DEF TypeInv, TypeOK
  <2>3. Bridged(c)'
    BY <1>1, <1>4, <2>1, <2>2 DEF Bridged
  <2> QED
    BY <1>1, <1>4, <2>1, <2>3, MakeScripted
<1> QED
  BY <1>1, <1>2, <1>3, <1>4

LEMMA SendScripted ==
  ASSUME AgreeInv, TypeInv', NlTypeOK, IndicesGrow,
         NEW c \in Clients, Scripted(c), Send(c)
  PROVE  Scripted(c)'
<1>1. /\ cmd[c].do \in Makers /\ cmd[c] \in Given /\ Made(c) /\ Bridged(c)
      /\ cmd' = cmd /\ found' = found
  BY DEF Send, Scripted, Done
<1>2. /\ obj' = obj /\ pc'[c] = "modify" /\ stage'[c] = "act" /\ home' = home
      /\ CallsIn(c, Method(cmd[c].do))
  BY Functions DEF AgreeInv, Send, CallModify, Invoke, Goto
<1>3. Bridged(c)'
  BY <1>1, BridgeKept DEF AgreeInv, TypeInv, TypeOK
<1>4. cmd[c].do # "mtu"
  BY <1>1 DEF Makers
<1>5. Made(c)'
  BY <1>1, <1>2 DEF Made
<1>6. AtAct(c)'
  BY <1>1, <1>2, <1>3, <1>4, <1>5 DEF AtAct, CallsIn
<1> QED
  BY <1>1, <1>2, <1>6 DEF Scripted, Done

LEMMA ShowScripted ==
  ASSUME TypeInv, NlTypeOK, NEW c \in Clients, Scripted(c), Show(c)
  PROVE  Scripted(c)'
<1>1. cmd[c].do = "list" /\ cmd[c] \in Given /\ pc[c] = "idle"
  BY DEF Show, Scripted, Done
<1>2. CASE Exit(c, "ok") /\ UNCHANGED vars
  BY <1>1, <1>2, Exited DEF Done, vars
<1>3. CASE ~(Exit(c, "ok") /\ UNCHANGED vars)
  <2>1. /\ CallGet(c) /\ CallsIn(c, "GetLinkByIndex") /\ Goto(c, "row")
        /\ cmd' = cmd
    BY <1>3 DEF Show
  <2>2. \E x \in Contexts, i \in Indices :
           /\ obj' = [obj EXCEPT ![c] = [EmptyLink EXCEPT !.idx = i]]
           /\ Invoke(c, "GetLinkByIndex", x, 0, "read")
    <3>1. ~\E x \in Contexts : Invoke(c, "GetLink", x, 0, "read")
      BY <2>1, Functions DEF CallsIn, Invoke
    <3> QED
      BY <2>1, <3>1 DEF CallGet
  <2>3. PICK i \in Indices : obj' = [obj EXCEPT ![c] = [EmptyLink EXCEPT !.idx = i]]
    BY <2>2
  <2>4. obj'[c] = [EmptyLink EXCEPT !.idx = i]
    BY <2>3, Functions
  <2>5. obj'[c].name = NoName /\ obj'[c].idx # 0
    BY <2>4, KernelAssumption DEF EmptyLink, Indices
  <2>6. pc'[c] = "read" /\ stage'[c] = "row"
    BY <2>1, <2>2, Functions DEF Invoke, Goto
  <2>7. AtRow(c)'
    BY <1>1, <2>1, <2>5, <2>6 DEF AtRow, CallsIn
  <2> QED
    BY <1>1, <2>1, <2>6, <2>7 DEF Scripted, Done
<1> QED
  BY <1>2, <1>3

LEMMA LookupBridgeScripted ==
  ASSUME TypeInv, NlTypeOK, NlTypeOK', NEW c \in Clients, Scripted(c),
         LookupBridge(c)
  PROVE  Scripted(c)'
<1>1. cmd'[c] \in Given
  BY DEF LookupBridge, Scripted, Done
<1> QED
  BY <1>1, LookupScripted DEF LookupBridge

(* The Read of a lookup or of a row returns in one exchange.               *)
LEMMA LookupReturns ==
  ASSUME TypeInv, NEW c \in Clients, Continue(c), pc[c] = "read",
         call[c].op \in {"GetLink", "GetLinkByIndex"}
  PROVE  /\ UNCHANGED kernel /\ pc'[c] = "idle"
         /\ \/ ret'[c] # "ok" /\ obj'[c] = obj[c]
            \/ /\ ret'[c] = "ok"
               /\ \E d \in links : /\ d.ns = call[c].ns /\ Satisfies(d, obj[c])
                                   /\ obj[c].idx # 0 => d.idx = obj[c].idx
                                   /\ obj'[c] = Unmarshal(d)
         /\ \E r \in Read(obj[c], call[c].ns) : ret'[c] = r.err
         /\ home'[c] \in {home[c], call[c].ns}
<1>1. LeadingRead(c)
  BY DEF Continue, SendNewLink, SendSetLink, SendDelLink, SendUpdate, ReadBack
<1>2. PICK r \in Read(obj[c], call[c].ns) :
        /\ obj' = [obj EXCEPT ![c] = r.obj]
        /\ home' = [home EXCEPT ![c] = IF r.err = "ok" THEN call[c].ns ELSE @]
        /\ Return(c, ReadResult(call[c].op, r.err))
  BY <1>1 DEF LeadingRead, Sends, Refresh
<1>3. ReadResult(call[c].op, r.err) = r.err /\ r.err \in Results
  BY ReadOutcome DEF ReadResult, Results, Errno
<1>4. /\ pc'[c] = "idle" /\ ret'[c] = r.err /\ obj'[c] = r.obj
      /\ home'[c] \in {home[c], call[c].ns}
  BY <1>2, <1>3 DEF Return, TypeInv, TypeOK
<1>5. UNCHANGED kernel
  BY <1>1 DEF LeadingRead
<1>6. \/ r.err # "ok" /\ r.obj = obj[c]
      \/ /\ r.err = "ok"
         /\ \E d \in links : /\ d.ns = call[c].ns /\ Satisfies(d, obj[c])
                             /\ obj[c].idx # 0 => d.idx = obj[c].idx
                             /\ r.obj = Unmarshal(d)
  BY ReadOutcome
<1> QED
  BY <1>4, <1>5, <1>6

LEMMA FoundScripted ==
  ASSUME AgreeInv, NlTypeOK, NEW c \in Clients, Scripted(c), Continue(c),
         stage[c] = "lookup", ret'[c] = "ok", cmd' = cmd,
         cmd[c].do \in Makers, found'[c] = obj'[c].idx
  PROVE  cmd[c].bridge # NoName /\ FoundBridge(c)'
<1>1. AtLookup(c) /\ cmd[c] \in Given
  BY DEF Scripted, Done
<1>2. PICK d \in links : /\ d.ns = call[c].ns /\ Satisfies(d, obj[c])
                         /\ obj'[c] = Unmarshal(d)
  BY <1>1, LookupReturns DEF AgreeInv, AtLookup
<1>3. UNCHANGED kernel
  BY <1>1, LookupReturns DEF AgreeInv, AtLookup
<1>4. obj[c].name = cmd[c].bridge /\ obj[c].name # NoName
  BY <1>1 DEF AtLookup, Sought, Lookers, Makers
<1>5. d.name = cmd[c].bridge /\ d.ns = cmd[c].ns /\ found'[c] = d.idx
  BY <1>1, <1>2, <1>4 DEF Satisfies, Unmarshal, EmptyLink, AtLookup
<1>6. d.idx # 0 /\ d.idx <= last[d.ns]
  BY KernelAssumption
  DEF AgreeInv, DataInv, HandedOut, TypeInv, TypeOK, KernelTypeOK, Link, Indices
<1>7. \A h \in links : h.ns = cmd[c].ns /\ h.idx = d.idx => h.name = d.name
  BY <1>5 DEF AgreeInv, DataInv, IndexUnique
<1> QED
  BY <1>3, <1>4, <1>5, <1>6, <1>7 DEF FoundBridge, kernel

LEMMA WorkScripted ==
  ASSUME AgreeInv, TypeInv', NlTypeOK, IndicesGrow,
         NEW c \in Clients, Scripted(c), Work(c)
  PROVE  Scripted(c)'
<1>1. Continue(c) /\ pc[c] # "idle"
  BY DEF Work, Continue, SendNewLink, ReadBack, SendSetLink, SendDelLink,
         LeadingRead, SendUpdate
<1>2. stage[c] \in {"lookup", "act", "row"} /\ cmd[c] \in Given
  BY <1>1 DEF Scripted, Done
<1>3. CASE pc'[c] # "idle"
  <2>1. cmd' = cmd /\ stage' = stage /\ found' = found
    BY <1>3 DEF Work, script
  <2>2. stage[c] = "act"
    BY <1>1, <1>2, <1>3, LookupReturns DEF Scripted, AtLookup, AtRow, AgreeInv
  <2>3. AtAct(c)
    BY <2>2 DEF Scripted
  <2>4. call' = call
    BY <1>1, <1>3, Functions
    DEF AgreeInv, Continue, SendNewLink, ReadBack, SendSetLink, SendDelLink,
        LeadingRead, SendUpdate, Return
  <2>5. ASSUME cmd[c].do \in Makers
        PROVE  pc'[c] = "readback" /\ obj'[c].name = cmd[c].name
    <3>1. pc[c] \in {"modify", "readback"}
      BY <2>3, <2>5 DEF AtAct
    <3>2. obj' = obj /\ pc'[c] = "readback" /\ pc[c] = "modify"
      BY <1>1, <1>3, <3>1, Functions
      DEF AgreeInv, Continue, SendNewLink, ReadBack, SendSetLink, SendDelLink,
          LeadingRead, SendUpdate, Return, AfterNewLink
    <3> QED
      BY <2>3, <2>5, <3>2 DEF AtAct, Made
  <2>6. Bridged(c) => Bridged(c)'
    BY <2>1, BridgeKept DEF AgreeInv, TypeInv, TypeOK
  <2>7. AtAct(c)'
    BY <2>1, <2>3, <2>4, <2>5, <2>6 DEF AtAct
  <2> QED
    BY <1>2, <2>1, <2>2, <2>7 DEF Scripted, Done
<1>4. CASE pc'[c] = "idle"
  <2>1. CASE Exit(c, "ok") \/ Exit(c, "failed")
    BY <1>4, <2>1, Exited DEF Done
  <2>2. CASE stage[c] = "row" /\ Goto(c, "list") /\ UNCHANGED <<cmd, found, rows>>
    <3>1. stage'[c] = "list" /\ cmd[c].do = "list"
      BY <2>2, Functions DEF AgreeInv, Goto, Scripted, AtRow
    <3> QED
      BY <1>2, <1>4, <2>2, <3>1 DEF Scripted, Done
  <2>3. CASE /\ stage[c] = "lookup" /\ ret'[c] = "ok" /\ cmd' = cmd
             /\ found' = [found EXCEPT ![c] = obj'[c].idx]
             /\ Goto(c, IF cmd[c].do = "list" THEN "list" ELSE "found")
    <3>1. found'[c] = obj'[c].idx
      BY <2>3, Functions DEF AgreeInv
    <3>2. stage'[c] = IF cmd[c].do = "list" THEN "list" ELSE "found"
      BY <2>3, Functions DEF AgreeInv, Goto
    <3>3. cmd[c].do \in Lookers \cup Makers \cup {"list"}
      BY <1>2, CommandAssumption DEF Command
    <3>4. cmd[c].do \in Makers => cmd[c].bridge # NoName /\ FoundBridge(c)'
      BY <1>1, <2>3, <3>1, FoundScripted
    <3>5. home'[c] \in {NoNs, cmd[c].ns}
      <4>1. home[c] = NoNs /\ home'[c] \in {home[c], call[c].ns}
            /\ call[c].ns = cmd[c].ns
        BY <1>1, <2>3, LookupReturns DEF Scripted, AtLookup, AgreeInv
      <4> QED
        BY <4>1
    <3> QED
      BY <1>2, <1>4, <2>3, <3>2, <3>3, <3>4, <3>5 DEF Scripted, Done
  <2> QED
    BY <1>4, <2>1, <2>2, <2>3 DEF Work, Fatal
<1> QED
  BY <1>3, <1>4

LEMMA OtherScripted ==
  ASSUME AgreeInv, TypeInv', NlTypeOK, IndicesGrow,
         NEW c \in Clients, Begin(c) \/ DumpFails(c) \/ Script(c),
         NEW b \in Clients, b # c, Scripted(b)
  PROVE  Scripted(b)'
<1>1. /\ obj'[b] = obj[b] /\ pc'[b] = pc[b] /\ call'[b] = call[b]
      /\ cmd'[b] = cmd[b] /\ stage'[b] = stage[b] /\ found'[b] = found[b]
      /\ home'[b] = home[b]
  BY OthersKept DEF AgreeInv
<1>2. (FoundBridge(b) => FoundBridge(b)') /\ (Bridged(b) => Bridged(b)')
  BY <1>1, BridgeKept DEF AgreeInv, TypeInv, TypeOK
<1>3. /\ AtLookup(b) => AtLookup(b)'
      /\ AtRow(b) => AtRow(b)'
      /\ Made(b) => Made(b)'
  BY <1>1 DEF AtLookup, Sought, AtRow, Made
<1>4. AtAct(b) => AtAct(b)'
  BY <1>1, <1>2, <1>3 DEF AtAct
<1> QED
  BY <1>1, <1>2, <1>3, <1>4 DEF Scripted

LEMMA ScriptKept ==
  ASSUME AgreeInv, TypeInv', NlTypeOK, NlTypeOK', KeepsLink, KeepsScript,
         [NlNext]_nlvars
  PROVE  KeepsScript'
<1>1. IndicesGrow
  BY NlIndices
<1>2. ASSUME NEW c \in Clients, Begin(c) \/ DumpFails(c) \/ Script(c)
      PROVE  Scripted(c)'
  BY <1>1, <1>2, BeginScripted, DumpFailsScripted, LookupBridgeScripted,
     ActScripted, SendScripted, ShowScripted, WorkScripted
  DEF Script, KeepsScript, AgreeInv
<1>3. CASE NlNext
  BY <1>1, <1>2, <1>3, OtherScripted DEF NlNext, KeepsScript
<1>4. CASE UNCHANGED nlvars
  <2>1. ASSUME NEW c \in Clients, Scripted(c) PROVE Scripted(c)'
    <3>1. /\ obj' = obj /\ pc' = pc /\ call' = call /\ cmd' = cmd
          /\ stage' = stage /\ found' = found /\ links' = links /\ last' = last
          /\ home' = home
      BY <1>4 DEF nlvars
    <3>2. (FoundBridge(c) => FoundBridge(c)') /\ (Bridged(c) => Bridged(c)')
      BY <3>1 DEF FoundBridge, Bridged
    <3> QED
      BY <2>1, <3>1, <3>2 DEF Scripted, AtLookup, Sought, AtRow, Made, AtAct
  <2> QED
    BY <2>1 DEF KeepsScript
<1> QED
  BY <1>3, <1>4

-----------------------------------------------------------------------------
(* --bridge.                                                               *)

(* RTM_NEWLINK adds the device with the master that is asked for, which    *)
(* exists, and of a veth the peer, which has another name.                 *)
LEMMA NewLinkAdds ==
  ASSUME NEW n \in Namespaces, NEW q \in Request, Destination(n, q) = n,
         NEW e, RtmNewLink(n, q, e), ~UNCHANGED kernel, NEW h \in links',
         h \notin links, h.name = q.name
  PROVE  /\ h.master = q.master
         /\ q.master # 0 => \E b \in links : b.ns = n /\ b.idx = q.master
<1>1. /\ ~\E k \in Errno : NewLinkError(n, q, k)
      /\ IF q.kind = "veth" THEN CreateVeth(n, q) ELSE Create(n, q)
  BY DEF RtmNewLink
<1>2. q.master # 0 => \E b \in links : b.ns = n /\ b.idx = q.master
  <2>1. ~NewLinkError(n, q, "EINVAL") /\ ~NewLinkError(n, q, "EEXIST")
    BY <1>1 DEF Errno
  <2>2. Lookup(n, q) = {} /\ ~BadMaster(n, q.kind, q)
    BY <2>1 DEF NewLinkError
  <2> QED
    BY <2>2 DEF BadMaster
<1>3. CASE q.kind = "veth"
  <2>1. ~NewLinkError(n, q, "EEXIST")
    BY <1>1 DEF Errno
  <2>2. q.peer # q.name
    BY <1>3, <2>1 DEF NewLinkError
  <2>3. \E i, j : h \in {PeerDevice(n, q, j), NewDevice(n, q, i, {<<n, j>>})}
    BY <1>1, <1>3 DEF CreateVeth
  <2> QED
    BY <1>2, <2>2, <2>3 DEF PeerDevice, NewDevice
<1>4. CASE q.kind # "veth"
  <2>1. \E i : h = NewDevice(n, q, i, {})
    BY <1>1, <1>4 DEF Create
  <2> QED
    BY <1>2, <2>1 DEF NewDevice
<1> QED
  BY <1>3, <1>4

LEMMA StepEnslaves ==
  ASSUME AgreeInv, KeepsLink, KeepsScript, [NlNext]_nlvars, NEW c \in Clients,
         stage[c] = "act", Steps(c), NEW h \in links',
         h.ns = cmd[c].ns, h.name = cmd[c].name,
         ~\E d \in links : d.ns = h.ns /\ d.name = h.name
  PROVE  IF cmd[c].bridge = NoName THEN h.master = 0
         ELSE \E b \in links : /\ b.ns = h.ns /\ b.idx = h.master
                               /\ b.name = cmd[c].bridge
<1>1. ~UNCHANGED kernel
  BY DEF kernel
<1>2. TypeInv /\ [Next]_vars
  BY NlStep DEF AgreeInv
<1>3. PICK e \in Results : /\ pc[c] \in {"modify", "update"}
                           /\ NetlinkUpdate(Type(c), call[c].ns, Message(c), e)
  BY <1>1, <1>2, ExchangeChanges
<1>4. call[c].ns \in Namespaces /\ Message(c) \in Request
  BY <1>2, <1>3, MessageNames DEF TypeInv, CallOK
<1>5. /\ Sound(c, call[c].ns, Message(c))
      /\ Type(c) = "SETLINK" => Message(c).ns = NoNs
  BY <1>3, MessageSound
<1>6. Type(c) = "NEWLINK"
  <2>1. ~LinksStay
    BY DEF LinksStay
  <2> QED
    BY <1>1, <1>3, <1>4, <1>5, <2>1, SetLinkStays, DelLinkStays DEF Type, NetlinkUpdate
<1>7. pc[c] = "modify" /\ call[c].op \in {"Add", "Present"}
  BY <1>3, <1>6 DEF Type
<1>8. cmd[c].do \in Makers /\ Bridged(c) /\ Made(c) /\ call[c].ns = cmd[c].ns
  BY <1>7 DEF KeepsScript, Scripted, AtAct, KeepsLink, Method, Lookers, Makers
<1> DEFINE q == Marshal(obj[c])
<1>9. /\ Message(c) = q /\ q.name = cmd[c].name /\ q.master = found[c]
      /\ Destination(cmd[c].ns, q) = cmd[c].ns
  <2>1. obj[c] \in Object
    BY <1>2 DEF TypeInv, TypeOK
  <2>2. q.name = obj[c].name /\ q.master = obj[c].master /\ q.ns = obj[c].ns
    BY <1>8, <2>1 DEF Marshal, Made, Object
  <2> QED
    BY <1>7, <1>8, <2>2 DEF Message, Made, Destination
<1>10. PICK k : RtmNewLink(cmd[c].ns, q, k)
  BY <1>1, <1>3, <1>6, <1>8, <1>9 DEF NetlinkUpdate
<1> HIDE DEF q
<1>11. /\ h.master = q.master
       /\ q.master # 0 => \E b \in links : b.ns = cmd[c].ns /\ b.idx = q.master
  BY <1>1, <1>4, <1>8, <1>9, <1>10, NewLinkAdds
<1> QED
  BY <1>8, <1>9, <1>11 DEF Bridged, FoundBridge

(* What nl keeps true.                                                     *)
NlInv == AgreeInv /\ NlTypeOK /\ KeepsLink /\ KeepsScript

LEMMA NlInvInit == NlInit => NlInv
<1> SUFFICES ASSUME NlInit PROVE NlInv
  OBVIOUS
<1>1. AgreeInv /\ NlTypeOK
  BY AgreeInit, NlTypeInit DEF NlInit
<1>2. KeepsLink /\ KeepsScript
  BY DEF NlInit, Init, KeepsLink, KeepsScript, Scripted, Done
<1> QED
  BY <1>1, <1>2 DEF NlInv

(* The scripts keep to what RtnlLink asks of its clients: a command uses   *)
(* the link it has looked up where it has found it, and never moves it.    *)
LEMMA ScriptOrderly ==
  ASSUME TypeInv, NlTypeOK, NEW c \in Clients, Scripted(c),
         Begin(c) \/ DumpFails(c) \/ Script(c)
  PROVE  Orderly(c)
<1> SUFFICES ASSUME pc[c] = "idle", pc'[c] # "idle"
             PROVE  /\ home'[c] # NoNs => call'[c].ns = home'[c]
                    /\ call'[c].op = "Set" => obj'[c].ns = NoNs
  BY DEF Orderly
<1>1. ASSUME CallGet(c) PROVE home'[c] = NoNs /\ call'[c].op # "Set"
  <2>1. home' = [home EXCEPT ![c] = NoNs]
    BY <1>1 DEF CallGet
  <2>2. \E op \in {"GetLink", "GetLinkByIndex"}, x \in Contexts :
          call' = [call EXCEPT ![c] = [op |-> op, ns |-> x.ns,
                                       target |-> x.target, arg |-> 0]]
    BY <1>1 DEF CallGet, Invoke
  <2> QED
    BY <2>1, <2>2, Functions
<1>2. ~Make(c) /\ ~UNCHANGED vars
  BY DEF Make, Construct, vars
<1>3. ~Work(c)
  BY DEF Work, Continue, SendNewLink, ReadBack, SendSetLink, SendDelLink,
         LeadingRead, SendUpdate
<1>4. Method(cmd[c].do) # "Set"
  BY DEF Method
<1>5. CASE Act(c)
  <2>1. /\ CallsIn(c, Method(cmd[c].do)) /\ cmd' = cmd /\ home' = home
        /\ home[c] \in {NoNs, cmd[c].ns}
    BY <1>2, <1>5 DEF Act, CallModify, CallUpdate, Scripted
  <2> QED
    BY <1>4, <2>1 DEF CallsIn
<1>6. CASE Send(c)
  BY <1>4, <1>6 DEF Send, CallsIn, CallModify, Scripted, Made
<1>7. CASE ~(Act(c) \/ Send(c))
  <2>1. CallGet(c)
    BY <1>2, <1>3, <1>7 DEF Begin, DumpFails, Script, LookupBridge, GetByName, Show
  <2> QED
    BY <1>1, <2>1
<1> QED
  BY <1>5, <1>6, <1>7

LEMMA NlOrderly ==
  ASSUME TypeInv, NlTypeOK, KeepsScript, [NlNext]_nlvars, NEW c \in Clients
  PROVE  Orderly(c)
<1>1. CASE UNCHANGED nlvars
  BY <1>1 DEF nlvars, Orderly
<1>2. CASE NlNext
  <2>1. PICK b \in Clients : Begin(b) \/ DumpFails(b) \/ Script(b)
    BY <1>2 DEF NlNext
  <2>2. CASE b = c
    BY <2>1, <2>2, ScriptOrderly DEF KeepsScript
  <2>3. CASE b # c
    BY <2>1, <2>3, OthersKept DEF Orderly
  <2> QED
    BY <2>2, <2>3
<1> QED
  BY <1>1, <1>2

LEMMA NlInvNext ==
  ASSUME NlInv, [NlNext]_nlvars
  PROVE  NlInv'
<1>1. AgreeInv'
  BY NlStep, NlOrderly, OrderlyStep DEF NlInv, AgreeInv
<1>2. TypeInv /\ TypeOK /\ TypeInv' /\ TypeOK'
  BY <1>1 DEF NlInv, AgreeInv, TypeInv
<1>3. NlTypeOK'
  BY <1>2, NlTypeNext DEF NlInv
<1>4. KeepsLink'
  BY <1>2, <1>3, KeepsLinkStep DEF NlInv
<1>5. KeepsScript'
  BY <1>2, <1>3, ScriptKept DEF NlInv
<1> QED
  BY <1>1, <1>3, <1>4, <1>5 DEF NlInv

LEMMA NlAlways == NlSpec => []NlInv
BY NlInvInit, NlInvNext, PTL DEF NlSpec

(* However many nl processes run, in whatever namespaces, the index in the *)
(* object of a command never denotes a link of another name.               *)
THEOREM CommandsIndexNames == NlSpec => []IndexNameAgree
<1>1. NlInv => IndexNameAgree
  BY DEF NlInv, AgreeInv, DataInv
<1> QED
  BY <1>1, NlAlways, PTL

(* A command deletes a link it has looked up, and adds one it has named.   *)
LEMMA NlNamed ==
  ASSUME NlInv, [NlNext]_nlvars, NEW c \in Clients
  PROVE  Named(c)
<1> SUFFICES ASSUME pc[c] = "idle", pc'[c] = "modify" PROVE obj'[c].name # NoName
  BY DEF Named
<1>1. TypeInv /\ NlTypeOK /\ KeepsLink /\ Scripted(c)
  BY DEF NlInv, AgreeInv, KeepsScript
<1>2. PICK b \in Clients : Begin(b) \/ DumpFails(b) \/ Script(b)
  BY DEF NlNext, nlvars
<1>3. b = c
  BY <1>1, <1>2, OthersKept
<1>4. ~CallGet(c) /\ ~Construct(c) /\ ~UNCHANGED vars /\ ~Work(c)
  BY <1>1, Functions
  DEF CallGet, Construct, Invoke, vars, Work, Continue, SendNewLink, ReadBack,
      SendSetLink, SendDelLink, LeadingRead, SendUpdate
<1>5. Act(c) \/ Send(c)
  BY <1>2, <1>3, <1>4
  DEF Begin, DumpFails, Script, LookupBridge, GetByName, Make, Show
<1>6. CASE Act(c)
  <2>1. cmd[c].do \in Lookers /\ stage[c] = "found" /\ obj' = obj
    BY <1>4, <1>6 DEF Act, Make, CallModify, CallUpdate
  <2> QED
    BY <1>1, <2>1 DEF KeepsLink, InHand
<1>7. CASE Send(c)
  <2>1. stage[c] = "made" /\ obj' = obj
    BY <1>7 DEF Send, CallModify
  <2>2. cmd[c] \in Given /\ cmd[c].do \in Makers /\ obj[c].name = cmd[c].name
    BY <1>1, <2>1 DEF Scripted, Made, Done
  <2> QED
    BY <2>1, <2>2, CommandAssumption
<1> QED
  BY <1>5, <1>6, <1>7

(* The commands of nl implement the directory of link names, whatever the  *)
(* deployment of the library allows its other callers: a command adds its  *)
(* names, or removes its name, at most once and in one step, and nothing   *)
(* it does replaces a link.                                                *)
THEOREM CommandsImplementDirectory == NlSpec => ImplementsDirectory
<1>1. NlInv /\ [NlNext]_nlvars => [\A c \in Clients : Orderly(c) /\ Named(c)]_vars
  BY NlOrderly, NlNamed DEF NlInv, AgreeInv
<1>2. NlSpec => [][\A c \in Clients : Orderly(c) /\ Named(c)]_vars
  BY <1>1, NlAlways, PTL DEF NlSpec
<1> QED
  BY <1>2, CommandsAreCalls, OrderlyImplementsDirectory

(* up, down, mtu and delete of nl change or remove the link that had the   *)
(* name when it was looked up, and its veth peer, however many processes   *)
(* run, links that disappear and names given anew included.                *)
THEOREM CommandsActOnFound == NlSpec => ActsOnFound
<1>1. NlInv /\ [NlNext]_nlvars =>
        [\A c \in Clients : stage[c] = "act" /\ cmd[c].do \in Lookers /\ Steps(c) =>
           \A d \in links :
             \/ d \in links' \/ [d EXCEPT !.master = 0] \in links'
             \/ \E p \in links : /\ p.ns = cmd[c].ns /\ p.idx = found[c]
                                 /\ p.name = cmd[c].name
                                 /\ d = p \/ (p.pair # {} /\ d.pair = p.pair)]_nlvars
  BY StepActsOnFound DEF NlInv
<1> QED
  BY <1>1, NlAlways, PTL DEF NlSpec, ActsOnFound

(* A link that nl adds with --bridge is a port of the bridge of that name: *)
(* its index was handed out to a link of that name, and nothing else gets  *)
(* it although the bridge may have been deleted since.                     *)
THEOREM CommandsEnslaveNamed == NlSpec => EnslavesToNamed
<1>1. NlInv /\ [NlNext]_nlvars =>
        [\A c \in Clients : stage[c] = "act" /\ Steps(c) =>
           \A h \in links' :
             /\ h.ns = cmd[c].ns /\ h.name = cmd[c].name
             /\ ~\E d \in links : d.ns = h.ns /\ d.name = h.name
             => IF cmd[c].bridge = NoName THEN h.master = 0
                ELSE \E b \in links : /\ b.ns = h.ns /\ b.idx = h.master
                                      /\ b.name = cmd[c].bridge]_nlvars
  BY StepEnslaves DEF NlInv
<1> QED
  BY <1>1, NlAlways, PTL DEF NlSpec, EnslavesToNamed

-----------------------------------------------------------------------------
(* Names are given to one link at a time.                                  *)

LEMMA NamesStep ==
  ASSUME AgreeInv, KernelNames, [Next]_vars
  PROVE  KernelNames'
<1>1. CASE UNCHANGED kernel
  <2>1. links' = links /\ last' = last
    BY <1>1 DEF kernel
  <2> QED
    BY <2>1 DEF KernelNames, NameUnique, PairHandedOut, PairsAreTwo
<1>2. CASE ~UNCHANGED kernel
  <2>1. PICK c \in Clients : Continue(c)
    BY <1>2, ZenonT(60)
    DEF Next, vars, kernel, Construct, AssignMtu, CallModify, CallPromisc,
        CallUpdate, CallGet, Invoke
  <2>2. Steps(c)
    BY <1>2, <2>1
    DEF Continue, SendNewLink, SendSetLink, SendDelLink, SendUpdate, ReadBack,
        LeadingRead, Return, Steps, AfterNewLink, AgreeInv, TypeInv, TypeOK
  <2>3. PICK e \in Results : /\ pc[c] \in {"modify", "update"}
                             /\ NetlinkUpdate(Type(c), call[c].ns, Message(c), e)
    BY <1>2, <2>2, ExchangeChanges DEF AgreeInv
  <2>4. call[c].ns \in Namespaces /\ Message(c) \in Request
    BY <2>3, MessageNames DEF AgreeInv, TypeInv, CallOK
  <2>5. CASE Type(c) = "SETLINK"
    BY <2>3, <2>5, SendNames
  <2>6. CASE Type(c) = "NEWLINK"
    <3>1. /\ pc[c] = "modify" /\ call[c].op \in {"Add", "Present"}
          /\ Message(c) = Marshal(obj[c])
      BY <2>3, <2>6 DEF Type, Message
    <3> QED
      BY <2>3, <2>6, <3>1, InsertNames
  <2>7. CASE Type(c) = "DELLINK"
    <3>1. PICK k : RtmDelLink(call[c].ns, Message(c), k)
      BY <1>2, <2>3, <2>7 DEF NetlinkUpdate
    <3> QED
      BY <2>4, <3>1, DelLinkNames DEF AgreeInv, TypeInv, TypeOK
  <2> QED
    BY <2>5, <2>6, <2>7 DEF Type
<1> QED
  BY <1>1, <1>2

(* The client that is not idle between its own steps is the one that ends. *)
LEMMA EndsInWork ==
  ASSUME NlInv, [NlNext]_nlvars, NEW c \in Clients, NEW s \in Done, Ends(c, s),
         stage[c] \in {"lookup", "act", "row"}
  PROVE  /\ Continue(c) /\ pc'[c] = "idle"
         /\ s = "failed" => ret'[c] # "ok"
         /\ s = "ok" => ret'[c] = "ok" /\ stage[c] = "act"
<1>1. stage \in [Clients -> Stages] /\ stage'[c] = s /\ stage[c] # s
  BY DEF NlInv, NlTypeOK, Ends
<1>2. PICK b \in Clients : Begin(b) \/ DumpFails(b) \/ Script(b)
  BY <1>1 DEF NlNext, nlvars
<1>3. b = c
  BY <1>1, <1>2, OthersKept DEF NlInv, AgreeInv
<1>4. Work(c)
  BY <1>1, <1>2, <1>3
  DEF Script, Begin, DumpFails, LookupBridge, Act, Send, Show, Done
<1>5. pc'[c] = "idle"
  BY <1>1, <1>4 DEF Work, script
<1>6. CASE Fatal(ret'[c])
  <2>1. Exit(c, "failed")
    BY <1>4, <1>5, <1>6 DEF Work
  <2>2. s = "failed"
    BY <1>1, <2>1 DEF Exit, Goto
  <2> QED
    BY <1>4, <1>5, <1>6, <2>2 DEF Work, Fatal
<1>7. CASE ~Fatal(ret'[c])
  <2>1. \/ stage[c] = "act" /\ Exit(c, "ok")
        \/ \E t \in {"list", "found"} : Goto(c, t)
    BY <1>4, <1>5, <1>7 DEF Work
  <2>2. stage[c] = "act" /\ Exit(c, "ok")
    BY <1>1, <2>1 DEF Goto, Done
  <2>3. s = "ok"
    BY <1>1, <2>2 DEF Exit, Goto
  <2> QED
    BY <1>4, <1>5, <1>7, <2>2, <2>3 DEF Work, Fatal
<1> QED
  BY <1>6, <1>7

(* The errors of a Read whose socket and answer do not get lost.           *)
LEMMA ReadErrors ==
  ASSUME NEW o, NEW n, NEW r \in Read(o, n), r.err \notin {"ok", "EIO"}
  PROVE  \/ o.idx # 0 /\ ~Used(n, o.idx)
         \/ ~\E d \in RtmGetLink(n, o) : Satisfies(d, o)
         \/ \E d, h \in RtmGetLink(n, o) : Satisfies(d, o) /\ Satisfies(h, o) /\ d # h
BY DEF Read, RtmGetLink, Used

LEMMA StepListFails ==
  ASSUME NlInv, KernelNames, [NlNext]_nlvars, NEW c \in Clients,
         cmd[c].do = "list", Ends(c, "failed"), ret'[c] # "EIO"
  PROVE  \/ stage[c] = "lookup" /\ ~Taken(cmd[c].ns, cmd[c].bridge)
         \/ stage[c] = "row" /\ ~Used(cmd[c].ns, obj[c].idx)
<1>1. Scripted(c) /\ stage[c] \in Stages /\ stage[c] \notin Done
  BY DEF NlInv, NlTypeOK, KeepsScript, Ends
<1>2. stage[c] \in {"lookup", "row"}
  <2>1. stage[c] \notin {"found", "made", "act"}
    BY <1>1 DEF Scripted, AtAct, Lookers, Makers
  <2>2. stage[c] \notin {"dumped", "list"}
    <3> SUFFICES ASSUME stage[c] \in {"dumped", "list"} PROVE FALSE
      OBVIOUS
    <3>1. stage \in [Clients -> Stages] /\ stage'[c] = "failed"
      BY DEF NlInv, NlTypeOK, Ends
    <3>2. PICK b \in Clients : Begin(b) \/ DumpFails(b) \/ Script(b)
      BY <3>1 DEF NlNext, nlvars
    <3>3. b = c
      BY <3>1, <3>2, OthersKept DEF NlInv, AgreeInv
    <3>4. pc[c] = "idle"
      BY <1>1 DEF Scripted
    <3>5. ~Work(c)
      BY <3>4 DEF Work, Continue, SendNewLink, ReadBack, SendSetLink, SendDelLink,
                  LeadingRead, SendUpdate
    <3> QED
      BY <1>1, <3>1, <3>2, <3>3, <3>5
      DEF Script, Begin, DumpFails, LookupBridge, GetByName, Act, Send, Show, Exit,
          Goto
  <2> QED
    BY <1>1, <2>1, <2>2 DEF Stages
<1>3. Continue(c) /\ ret'[c] # "ok"
  BY <1>2, EndsInWork DEF Done
<1>4. /\ pc[c] = "read" /\ call[c].op \in {"GetLink", "GetLinkByIndex"}
      /\ call[c].ns = cmd[c].ns
  BY <1>1, <1>2 DEF Scripted, AtLookup, AtRow
<1>5. PICK r \in Read(obj[c], cmd[c].ns) : r.err \notin {"ok", "EIO"}
  BY <1>3, <1>4, LookupReturns DEF NlInv, AgreeInv
<1>6. \/ obj[c].idx # 0 /\ ~Used(cmd[c].ns, obj[c].idx)
      \/ ~\E d \in RtmGetLink(cmd[c].ns, obj[c]) : Satisfies(d, obj[c])
      \/ \E d, h \in RtmGetLink(cmd[c].ns, obj[c]) :
           Satisfies(d, obj[c]) /\ Satisfies(h, obj[c]) /\ d # h
  BY <1>5, ReadErrors
<1>7. CASE stage[c] = "lookup"
  <2>1. obj[c].idx = 0 /\ obj[c].name = cmd[c].bridge /\ obj[c].name # NoName
    BY <1>1, <1>7 DEF Scripted, AtLookup, Sought, Lookers
  <2> QED
    BY <1>6, <1>7, <2>1
    DEF RtmGetLink, Satisfies, Taken, KernelNames, NameUnique
<1>8. CASE stage[c] = "row"
  <2>1. obj[c].name = NoName /\ obj[c].idx # 0
    BY <1>1, <1>8 DEF Scripted, AtRow
  <2> QED
    BY <1>6, <1>8, <2>1
    DEF RtmGetLink, Satisfies, Used, NlInv, AgreeInv, DataInv, IndexUnique
<1> QED
  BY <1>2, <1>7, <1>8

LEMMA NamesInit == NlInit => KernelNames
BY DEF NlInit, Init, KernelInit, KernelNames, NameUnique, PairHandedOut, PairsAreTwo

(* nl list fails only if the bridge of --bridge, or the master of a row of *)
(* its dump, is not there when it looks it up.                             *)
THEOREM CommandsListFails == NlSpec => ListFails
<1>1. NlInv /\ KernelNames /\ [NlNext]_nlvars => KernelNames'
  BY NamesStep, NlStep DEF NlInv
<1>2. NlInv /\ KernelNames /\ [NlNext]_nlvars =>
        [\A c \in Clients :
           cmd[c].do = "list" /\ Ends(c, "failed") /\ ret'[c] # "EIO" =>
             \/ stage[c] = "lookup" /\ ~Taken(cmd[c].ns, cmd[c].bridge)
             \/ stage[c] = "row" /\ ~Used(cmd[c].ns, obj[c].idx)]_nlvars
  BY StepListFails
<1> QED
  BY <1>1, <1>2, NlAlways, NamesInit, PTL DEF NlSpec, ListFails

-----------------------------------------------------------------------------
(* What exit status 0 means.                                               *)

(* SETLINK of an MTU, to a link selected by index, that has succeeded.     *)
LEMMA MtuIsSet ==
  ASSUME KernelTypeOK, NEW n \in Namespaces, NEW q \in Request,
         q.idx # 0, q.ns = NoNs, q.mtu # 0, RtmSetLink(n, q, "ok")
  PROVE  \E h \in links' : h.ns = n /\ h.idx = q.idx /\ h.mtu = q.mtu
<1>1. ~Unselected(q, "ok") /\ ~Missing(n, q, "ok")
  BY DEF Unselected, Missing
<1>2. \A d \in Lookup(n, q) : /\ d \in Link /\ d.ns = n /\ d.idx = q.idx
                              /\ ~LeavesNs(d, q) /\ Landed(d, q) = {d}
  BY DEF Lookup, KernelTypeOK, LeavesNs, Landed
<1>3. PICK d \in Lookup(n, q) : \E h \in links' : Changed(d, q, "ok", h)
  BY <1>1, <1>2 DEF RtmSetLink
<1>4. PICK h \in links' : Changed(d, q, "ok", h)
  BY <1>3
<1>5. h = WithRest(WithName(WithMtu(d, q), q), q)
  BY <1>4 DEF Changed, RenameError
<1>6. h.ns = d.ns /\ h.idx = d.idx /\ h.mtu = q.mtu
  BY <1>2, <1>5 DEF WithRest, WithName, WithMtu, Link
<1> QED
  BY <1>2, <1>6

(* Where the script of a process that is ending is: its last exchange.     *)
LEMMA EndsOk ==
  ASSUME NlInv, [NlNext]_nlvars, NEW c \in Clients, Ends(c, "ok")
  PROVE  \/ cmd[c].do = "list"
         \/ cmd[c].do = "mtu" /\ cmd[c].arg = 0
         \/ /\ stage[c] = "act" /\ AtAct(c) /\ cmd[c] \in Given
            /\ Continue(c) /\ pc'[c] = "idle" /\ ret'[c] = "ok"
<1>1. Scripted(c) /\ stage[c] \in Stages /\ stage[c] \notin Done
  BY DEF NlInv, NlTypeOK, KeepsScript, Ends
<1>2. CASE stage[c] \in {"lookup", "act", "row"}
  <2>1. /\ Continue(c) /\ pc'[c] = "idle" /\ ret'[c] = "ok" /\ stage[c] = "act"
    BY <1>2, EndsInWork DEF Done
  <2> QED
    BY <1>1, <2>1 DEF Scripted
<1>3. CASE stage[c] \in {"dumped", "list"}
  BY <1>1, <1>3 DEF Scripted
<1>4. CASE stage[c] \in {"found", "made"}
  <2>1. stage \in [Clients -> Stages] /\ stage'[c] = "ok"
    BY DEF NlInv, NlTypeOK, Ends
  <2>2. PICK b \in Clients : Begin(b) \/ DumpFails(b) \/ Script(b)
    BY <1>1, <2>1 DEF NlNext, nlvars, Done
  <2>3. b = c
    BY <1>1, <2>1, <2>2, OthersKept DEF NlInv, AgreeInv, Done
  <2>4. pc[c] = "idle"
    BY <1>1, <1>4 DEF Scripted
  <2>5. ~Work(c)
    BY <2>4 DEF Work, Continue, SendNewLink, ReadBack, SendSetLink, SendDelLink,
                LeadingRead, SendUpdate
  <2>6. Act(c) \/ Send(c)
    BY <1>1, <1>4, <2>2, <2>3, <2>5
    DEF Script, Begin, DumpFails, LookupBridge, Show, Done
  <2> QED
    BY <2>1, <2>6 DEF Act, Send, Make, Goto
<1> QED
  BY <1>1, <1>2, <1>3, <1>4 DEF Stages

LEMMA DeleteEffect ==
  ASSUME NlInv, KernelNames, NEW c \in Clients,
         SendDelLink(c), call[c].op = "Del", ret'[c] = "ok",
         call[c].ns = cmd[c].ns, obj[c].name = cmd[c].name, cmd[c].name # NoName
  PROVE  \A h \in links' : h.ns = cmd[c].ns => h.name # cmd[c].name
<1>1. pc[c] = "modify" /\ ret \in [Clients -> Results]
  BY DEF SendDelLink, NlInv, AgreeInv, TypeInv, TypeOK
<1>2. PICK e \in Results :
        /\ NetlinkUpdate("DELLINK", call[c].ns, Marshal(obj[c]), e)
        /\ Return(c, DelResult(call[c].op, e))
  BY DEF SendDelLink
<1>3. e = "ok"
  BY <1>1, <1>2 DEF Return, DelResult
<1>4. Marshal(obj[c]) = Message(c)
  BY <1>1 DEF Message
<1>5. RtmDelLink(call[c].ns, Message(c), "ok")
  BY <1>2, <1>3, <1>4 DEF NetlinkUpdate
<1>6. PICK d \in Lookup(call[c].ns, Message(c)) :
        links' = {Released(x, Gone(d)) : x \in links \ Gone(d)}
  BY <1>5 DEF RtmDelLink, Unselected, Missing
<1>7. Means(c, d) /\ d \in links
  BY <1>1, <1>6, SelectsMeant DEF NlInv, Lookup
<1>8. d.ns = cmd[c].ns /\ d.name = cmd[c].name /\ d \in Gone(d)
  BY <1>7 DEF Means, Gone
<1>9. \A x \in links : /\ Released(x, Gone(d)).ns = x.ns
                       /\ Released(x, Gone(d)).name = x.name
  BY DEF Released, NlInv, AgreeInv, TypeInv, TypeOK, KernelTypeOK, Link
<1> QED
  BY <1>6, <1>7, <1>8, <1>9 DEF KernelNames, NameUnique

LEMMA AddEffect ==
  ASSUME NlInv, NEW c \in Clients, Continue(c), AtAct(c),
         cmd[c] \in Given, pc'[c] = "idle", ret'[c] = "ok",
         call[c].op = "Add"
  PROVE  \E h \in links' : h.ns = cmd[c].ns /\ h.name = cmd[c].name
<1>1. TypeInv /\ ret \in [Clients -> Results] /\ NlTypeOK
  BY DEF NlInv, AgreeInv, TypeInv, TypeOK
<1>2. cmd[c].do \in Makers
  BY DEF AtAct, Method, Lookers, Makers
<1>3. pc[c] \in {"modify", "readback"} /\ call[c].target = NoNs
      /\ call[c].ns = cmd[c].ns
  BY <1>2 DEF AtAct
<1>4. pc[c] # "modify"
  <2> SUFFICES ASSUME pc[c] = "modify" PROVE FALSE
    OBVIOUS
  <2>1. SendNewLink(c)
    BY DEF Continue, ReadBack, SendSetLink, SendDelLink, LeadingRead, SendUpdate
  <2>2. PICK e \in Results : IF AfterNewLink(call[c].op, e) = "idle" THEN Return(c, e)
                             ELSE pc' = [pc EXCEPT ![c] = AfterNewLink(call[c].op, e)]
    BY <2>1 DEF SendNewLink
  <2>3. e # "ok"
    BY <1>1, <2>2, Functions DEF AfterNewLink
  <2>4. AfterNewLink(call[c].op, e) = "idle"
    BY <2>3 DEF AfterNewLink
  <2> QED
    BY <1>1, <2>2, <2>3, <2>4 DEF Return
<1>5. pc[c] = "readback" /\ obj[c].name = cmd[c].name
  BY <1>2, <1>3, <1>4 DEF AtAct
<1>6. ReadBack(c)
  BY <1>5 DEF Continue, SendNewLink, SendSetLink, SendDelLink, LeadingRead, SendUpdate
<1>7. PICK r \in Read(obj[c], cmd[c].ns) : Return(c, r.err) /\ UNCHANGED kernel
  BY <1>3, <1>6 DEF ReadBack, ReadNs
<1>8. r.err = "ok"
  <2>1. r.err \in Results
    BY ReadOutcome DEF Results, Errno
  <2> QED
    BY <1>1, <1>7, <2>1 DEF Return
<1>9. PICK d \in links : d.ns = cmd[c].ns /\ Satisfies(d, obj[c])
  BY <1>8, ReadOutcome
<1>10. cmd[c].name # NoName
  BY <1>2, CommandAssumption
<1>11. d.name = cmd[c].name /\ links' = links
  BY <1>5, <1>7, <1>9, <1>10 DEF Satisfies, kernel
<1> QED
  BY <1>9, <1>11

LEMMA MtuEffect ==
  ASSUME NlInv, NEW c \in Clients, Continue(c), AtAct(c),
         stage[c] = "act", pc'[c] = "idle", ret'[c] = "ok",
         cmd[c].do = "mtu", cmd[c].arg # 0
  PROVE  \E h \in links' :
           h.ns = cmd[c].ns /\ h.idx = found[c] /\ h.mtu = cmd[c].arg
<1>1. TypeInv /\ ret \in [Clients -> Results] /\ NlTypeOK
  BY DEF NlInv, AgreeInv, TypeInv, TypeOK
<1>2. /\ call[c].op = "SetMtu" /\ call[c].ns = cmd[c].ns
      /\ call[c].arg = cmd[c].arg
  BY DEF AtAct, Method
<1>3. InHand(c)
  BY DEF NlInv, KeepsLink, Lookers
<1>4. SendUpdate(c)
  <2>1. ~(SendNewLink(c) \/ SendSetLink(c) \/ SendDelLink(c))
    BY <1>2 DEF SendNewLink, SendSetLink, SendDelLink
  <2>2. ~ReadBack(c)
    BY <1>2 DEF ReadBack, AtAct, NlInv, KeepsLink, Lookers
  <2>3. ~LeadingRead(c)
    <3> SUFFICES ASSUME LeadingRead(c) PROVE FALSE
      OBVIOUS
    <3>1. PICK r \in Read(obj[c], call[c].ns) :
            IF r.err = "ok" THEN pc' = [pc EXCEPT ![c] = "update"]
            ELSE Return(c, r.err)
      BY <1>2 DEF LeadingRead, Sends, ReadResult
    <3>2. r.err \in Results
      BY ReadOutcome DEF Results, Errno
    <3> QED
      BY <1>1, <3>1, <3>2, Functions DEF Return
  <2> QED
    BY <2>1, <2>2, <2>3 DEF Continue
<1> DEFINE q == [IfInfomsg(obj[c]) EXCEPT !.mtu = call[c].arg]
<1>5. PICK e \in Results : NetlinkUpdate("SETLINK", call[c].ns, q, e) /\ Return(c, e)
  BY <1>2, <1>4 DEF SendUpdate, UpdateMessage
<1>6. e = "ok"
  BY <1>1, <1>5 DEF Return
<1>7. RtmSetLink(cmd[c].ns, q, "ok")
  BY <1>2, <1>5, <1>6 DEF NetlinkUpdate
<1>8. q.idx = found[c] /\ q.ns = NoNs /\ q.mtu = cmd[c].arg /\ found[c] # 0
  BY <1>2, <1>3 DEF IfInfomsg, EmptyLink, InHand
<1>9. q \in Request /\ cmd[c].ns \in Namespaces /\ KernelTypeOK
  <2>1. pc[c] = "update"
    BY <1>4 DEF SendUpdate
  <2>2. q = Message(c)
    BY <1>2, <2>1 DEF Message, UpdateMessage
  <2> QED
    BY <1>1, <1>2, <2>1, <2>2, MessageNames DEF TypeInv, CallOK, TypeOK
<1> HIDE DEF q
<1> QED
  BY <1>7, <1>8, <1>9, MtuIsSet

LEMMA StepZeroMeansDone ==
  ASSUME NlInv, KernelNames, Masked, BacksNew, [NlNext]_nlvars,
         NEW c \in Clients, Ends(c, "ok"),
         cmd[c].do \in {"up", "down"} /\ pc[c] = "read" /\ obj'[c] = obj[c]
           => Faults = {}
  PROVE  Effect(cmd[c], found[c])
<1>1. CASE cmd[c].do = "list" \/ (cmd[c].do = "mtu" /\ cmd[c].arg = 0)
  BY <1>1 DEF Effect
<1>2. CASE /\ stage[c] = "act" /\ AtAct(c) /\ cmd[c] \in Given
           /\ Continue(c) /\ pc'[c] = "idle" /\ ret'[c] = "ok"
  <2> USE <1>2
  <2>1. /\ cmd[c].do \in Lookers \cup Makers /\ call[c].ns = cmd[c].ns
        /\ call[c].op = Method(cmd[c].do) /\ cmd[c].name # NoName
    BY CommandAssumption DEF AtAct
  <2>2. CASE cmd[c].do \in {"up", "down"}
    <3>1. call[c].op = IF cmd[c].do = "up" THEN "Up" ELSE "Down"
      BY <2>1, <2>2 DEF Method
    <3>2. InHand(c) /\ pc[c] \in {"modify", "read", "update"}
      BY <2>2 DEF NlInv, KeepsLink, Lookers
    <3>3. obj'[c].idx = found[c]
      BY <3>1, <3>2, ExchangeKept DEF NlInv, AgreeInv, InHand
    <3>4. [Next]_vars /\ Returns(c)
      BY <3>2, NlStep DEF Returns
    <3>5. \A d \in links' : d.ns = cmd[c].ns /\ d.idx = found[c]
                            => (("UP" \in d.flags) <=> (call[c].op = "Up"))
      BY <2>1, <2>2, <3>1, <3>3, <3>4, StepUpDown DEF NlInv
    <3> QED
      BY <2>2, <3>1, <3>5 DEF Effect
  <2>3. CASE cmd[c].do = "mtu"
    BY <2>3, MtuEffect DEF Effect
  <2>4. CASE cmd[c].do \in {"delete", "vrf del"}
    <3>1. call[c].op = "Del"
      BY <2>1, <2>4 DEF Method
    <3>2. pc[c] = "modify" /\ obj[c].name = cmd[c].name
      <4>1. CASE cmd[c].do = "delete"
        <5>1. InHand(c) /\ pc[c] \in {"modify", "read", "update"}
          BY <4>1 DEF NlInv, KeepsLink, Lookers
        <5> QED
          BY <3>1, <5>1 DEF InHand, NlInv, AgreeInv, TypeInv, CallOK
      <4>2. CASE cmd[c].do = "vrf del"
        <5>1. pc[c] \in {"modify", "readback"} /\ (pc[c] = "modify" => Made(c))
          BY <4>2 DEF AtAct, Makers
        <5> QED
          BY <3>1, <5>1 DEF BacksNew, Made
      <4> QED
        BY <2>4, <4>1, <4>2
    <3>3. SendDelLink(c)
      BY <3>1, <3>2 DEF Continue, SendNewLink, ReadBack, SendSetLink, LeadingRead,
                        SendUpdate
    <3> QED
      BY <2>1, <2>4, <3>1, <3>2, <3>3, DeleteEffect DEF Effect
  <2>5. CASE cmd[c].do \notin {"up", "down", "mtu", "delete", "vrf del"}
    <3>1. call[c].op = "Add" /\ cmd[c].do # "list"
      BY <2>1, <2>5 DEF Method, Lookers, Makers
    <3> QED
      BY <2>5, <3>1, AddEffect DEF Effect
  <2> QED
    BY <2>2, <2>3, <2>4, <2>5
<1> QED
  BY <1>1, <1>2, EndsOk

(* Exit status 0 of nl means that the link is up, down, deleted, has its   *)
(* MTU, or is there, whatever the other processes do and whatever gets     *)
(* lost, but for a Read of up and down.                                    *)
THEOREM CommandsZeroMeansDone == NlSpec => ZeroMeansDone
<1>1. NlInv /\ KernelNames /\ [NlNext]_nlvars => KernelNames'
  BY NamesStep, NlStep DEF NlInv
<1>2. NlInv /\ Masked /\ BacksNew /\ [NlNext]_nlvars => Masked' /\ BacksNew'
  BY MaskStep, BacksStep, NlStep DEF NlInv, AgreeInv
<1>3. NlInit => Masked /\ BacksNew
  BY DEF NlInit, Init, Masked, BacksNew
<1>4. NlInv /\ KernelNames /\ Masked /\ BacksNew /\ [NlNext]_nlvars =>
        [\A c \in Clients :
           /\ Ends(c, "ok")
           /\ cmd[c].do \in {"up", "down"} /\ pc[c] = "read" /\ obj'[c] = obj[c]
              => Faults = {}
           => Effect(cmd[c], found[c])]_nlvars
  BY StepZeroMeansDone
<1> QED
  BY <1>1, <1>2, <1>3, <1>4, NlAlways, NamesInit, PTL DEF NlSpec, ZeroMeansDone

-----------------------------------------------------------------------------
(* A command comes to its end: the steps it has left.                      *)

LEMMA RowsFinite ==
  ASSUME NEW S \in SUBSET Row
  PROVE  IsFiniteSet(S)
<1> DEFINE f == [p \in Indices \X Indices |-> [idx |-> p[1], master |-> p[2]]]
<1>1. IsFiniteSet(Indices \X Indices)
  <2>1. IsFiniteSet(Indices)
    BY KernelAssumption, FS_Interval DEF Indices
  <2> QED
    BY <2>1, FS_Product
<1>2. f \in Surjection(Indices \X Indices, Row)
  <2>1. f \in [Indices \X Indices -> Row]
    BY DEF Row
  <2>2. \A r \in Row : \E p \in Indices \X Indices : f[p] = r
    <3> TAKE r \in Row
    <3>1. <<r.idx, r.master>> \in Indices \X Indices
      BY DEF Row
    <3>2. f[<<r.idx, r.master>>] = r
      BY <3>1 DEF Row
    <3> QED
      BY <3>1, <3>2
  <2> HIDE DEF f
  <2> QED
    BY <2>1, <2>2 DEF Surjection
<1> HIDE DEF f
<1>3. IsFiniteSet(Row)
  BY <1>1, <1>2, FS_Surjection
<1> QED
  BY <1>3, FS_Subset

(* What is left of the rows: fewer, or as many; none left is none to show. *)
LEMMA RowsLeft ==
  ASSUME NEW S \in SUBSET Row
  PROVE  /\ Cardinality(S) \in Nat
         /\ \A r \in S : Cardinality(S \ {r}) = Cardinality(S) - 1
         /\ \A i : Cardinality(Filtered(S, i)) \in Nat
                  /\ Cardinality(Filtered(S, i)) <= Cardinality(S)
<1>1. IsFiniteSet(S)
  BY RowsFinite
<1>2. \A i : Filtered(S, i) \in SUBSET S
  BY DEF Filtered
<1>3. \A i : Cardinality(Filtered(S, i)) <= Cardinality(S)
  BY <1>1, <1>2, FS_Subset
<1>4. \A i : Cardinality(Filtered(S, i)) \in Nat
  BY <1>1, <1>2, FS_Subset, FS_CardinalityType
<1>5. \A r \in S : Cardinality(S \ {r}) = Cardinality(S) - 1
  BY <1>1, FS_RemoveElement
<1> QED
  BY <1>1, <1>3, <1>4, <1>5, FS_CardinalityType

LEMMA ExchangesType ==
  ASSUME NEW c \in Clients
  PROVE  Exchanges(c) \in 0 .. 2 /\ Exchanges(c)' \in 0 .. 2
BY DEF Exchanges

(* No exchange of a method is repeated: each leaves fewer to make.         *)
LEMMA ExchangesDrop ==
  ASSUME TypeInv, NEW c \in Clients, Continue(c)
  PROVE  /\ Exchanges(c)' < Exchanges(c)
         /\ pc'[c] = "idle" => Exchanges(c)' = 0
<1>1. /\ pc \in [Clients -> {"idle", "modify", "readback", "read", "update"}]
      /\ pc[c] # "idle"
  BY DEF TypeInv, TypeOK, Continue, SendNewLink, ReadBack, SendSetLink, SendDelLink,
         LeadingRead, SendUpdate
<1>2. CASE pc'[c] = "idle"
  BY <1>1, <1>2 DEF Exchanges
<1>3. CASE pc'[c] # "idle"
  <2>1. CASE SendNewLink(c)
    <3>1. pc' = [pc EXCEPT ![c] = "readback"]
      BY <1>1, <1>3, <2>1 DEF SendNewLink, Return, AfterNewLink
    <3> QED
      BY <1>1, <2>1, <3>1 DEF Exchanges, SendNewLink
  <2>2. CASE LeadingRead(c)
    <3>1. /\ pc' = [pc EXCEPT ![c] = "update"]
          /\ \E r \in Read(obj[c], call[c].ns) : Sends(call[c].op, r.obj)
      BY <1>1, <1>3, <2>2 DEF LeadingRead, Return
    <3>2. call[c].op \notin {"GetLink", "GetLinkByIndex"}
      BY <3>1 DEF Sends
    <3> QED
      BY <1>1, <2>2, <3>1, <3>2 DEF Exchanges, LeadingRead
  <2>3. CASE ~SendNewLink(c) /\ ~LeadingRead(c)
    BY <1>1, <1>3, <2>3
    DEF Continue, ReadBack, SendSetLink, SendDelLink, SendUpdate, Return
  <2> QED
    BY <2>1, <2>2, <2>3
<1> QED
  BY <1>2, <1>3

(* The steps that are left at each stage.                                  *)
LEMMA LeftType ==
  ASSUME NlTypeOK, NEW c \in Clients
  PROVE  Cardinality(rows[c]) \in Nat /\ StepsLeft(c) \in Nat
<1>1. Cardinality(rows[c]) \in Nat
  BY RowsLeft DEF NlTypeOK
<1> QED
  BY <1>1, ExchangesType DEF StepsLeft, NlTypeOK, Stages

LEMMA ExitLeaves ==
  ASSUME NlTypeOK, NEW c \in Clients, NEW s \in Done, Exit(c, s)
  PROVE  StepsLeft(c)' = 0
<1>1. stage'[c] = s
  BY DEF Exit, Goto, NlTypeOK
<1> QED
  BY <1>1 DEF StepsLeft, Done

LEMMA ScriptShortens ==
  ASSUME NlInv, NEW c \in Clients, Script(c)
  PROVE  StepsLeft(c)' < StepsLeft(c)
<1> DEFINE n == Cardinality(rows[c])
<1>1. /\ TypeInv /\ TypeOK /\ NlTypeOK /\ Scripted(c)
      /\ stage \in [Clients -> Stages] /\ rows \in [Clients -> SUBSET Row]
      /\ cmd \in [Clients -> Command \cup {NoCommand}]
  BY DEF NlInv, AgreeInv, TypeInv, NlTypeOK, KeepsScript
<1>2. n \in Nat
  BY <1>1, LeftType
<1>3. /\ Exchanges(c) \in 0 .. 2 /\ Exchanges(c)' \in 0 .. 2
  BY ExchangesType
<1>4. CASE LookupBridge(c)
  <2>1. /\ stage'[c] = "lookup" /\ pc'[c] = "read" /\ call'[c].op = "GetLink"
        /\ cmd' = cmd /\ rows' = rows /\ stage[c] = "dumped"
    BY <1>1, <1>4, GetByNameKept DEF LookupBridge
  <2>2. cmd[c].do = "list"
    BY <1>1, <2>1 DEF Scripted
  <2>3. StepsLeft(c) = 2 + (2 * n + 1)
    BY <2>1 DEF StepsLeft, Done
  <2>4. Exchanges(c)' = 1
    BY <2>1 DEF Exchanges
  <2>5. StepsLeft(c)' = Exchanges(c)' + (2 * n + 1)
    BY <2>1, <2>2 DEF StepsLeft, Done
  <2> QED
    BY <1>2, <2>3, <2>4, <2>5
<1>5. CASE Act(c)
  <2>1. StepsLeft(c) = 4
    BY <1>5 DEF Act, StepsLeft, Done
  <2>2. \/ Exit(c, "ok") \/ Goto(c, "act") \/ Goto(c, "made")
    BY <1>5 DEF Act, Make
  <2>3. CASE Exit(c, "ok")
    BY <1>1, <2>1, <2>3, ExitLeaves DEF Done
  <2>4. CASE Goto(c, "act")
    <3>1. StepsLeft(c)' = Exchanges(c)'
      BY <1>1, <2>4 DEF Goto, StepsLeft, Done
    <3> QED
      BY <1>3, <2>1, <3>1
  <2>5. CASE Goto(c, "made")
    <3>1. StepsLeft(c)' = 3
      BY <1>1, <2>5 DEF Goto, StepsLeft, Done
    <3> QED
      BY <2>1, <3>1
  <2> QED
    BY <2>2, <2>3, <2>4, <2>5
<1>6. CASE Send(c)
  <2>1. StepsLeft(c) = 3
    BY <1>6 DEF Send, StepsLeft, Done
  <2>2. StepsLeft(c)' = Exchanges(c)'
    BY <1>1, <1>6 DEF Send, Goto, StepsLeft, Done
  <2> QED
    BY <1>3, <2>1, <2>2
<1>7. CASE Show(c)
  <2>1. StepsLeft(c) = 2 * n + 1
    BY <1>7 DEF Show, StepsLeft, Done
  <2>2. CASE Exit(c, "ok")
    BY <1>1, <1>2, <2>1, <2>2, ExitLeaves DEF Done
  <2>3. CASE ~Exit(c, "ok")
    <3>1. PICK r \in rows[c] :
            /\ CallGet(c) /\ CallsIn(c, "GetLinkByIndex")
            /\ rows' = [rows EXCEPT ![c] = @ \ {r}]
            /\ Goto(c, "row")
      BY <1>7, <2>3 DEF Show, RowsAfter
    <3>2. stage'[c] = "row" /\ rows'[c] = rows[c] \ {r}
      BY <1>1, <3>1 DEF Goto
    <3>3. pc'[c] = "read" /\ call'[c].op = "GetLinkByIndex"
      BY <1>1, <3>1 DEF CallGet, CallsIn, Invoke, TypeOK
    <3>4. Cardinality(rows'[c]) = n - 1
      BY <1>1, <3>2, RowsLeft
    <3>5. Exchanges(c)' = 1
      BY <3>3 DEF Exchanges
    <3>6. StepsLeft(c)' = Exchanges(c)' + (2 * Cardinality(rows'[c]) + 1)
      BY <3>2 DEF StepsLeft, Done
    <3> QED
      BY <1>2, <2>1, <3>4, <3>5, <3>6
  <2> QED
    BY <2>2, <2>3
<1>8. CASE Work(c)
  <2>1. /\ Continue(c) /\ Exchanges(c)' < Exchanges(c)
        /\ pc'[c] = "idle" => Exchanges(c)' = 0
    BY <1>1, <1>8, ExchangesDrop DEF Work
  <2>2. stage[c] \in {"lookup", "act", "row"}
    BY <1>1, <2>1 DEF Scripted, Continue, SendNewLink, ReadBack, SendSetLink,
                      SendDelLink, LeadingRead, SendUpdate
  <2>3. StepsLeft(c) = CASE stage[c] = "act" -> Exchanges(c)
                         [] stage[c] = "row" -> Exchanges(c) + (2 * n + 1)
                         [] stage[c] = "lookup" ->
                              Exchanges(c) + (IF cmd[c].do = "list" THEN 2 * n + 1
                                              ELSE 4)
    BY <2>2 DEF StepsLeft, Done
  <2>4. StepsLeft(c) >= Exchanges(c)
    BY <1>2, <1>3, <2>2, <2>3
  <2>5. CASE UNCHANGED script
    <3>1. StepsLeft(c)' = CASE stage[c] = "act" -> Exchanges(c)'
                            [] stage[c] = "row" -> Exchanges(c)' + (2 * n + 1)
                            [] stage[c] = "lookup" ->
                                 Exchanges(c)' + (IF cmd[c].do = "list"
                                                  THEN 2 * n + 1 ELSE 4)
      BY <2>2, <2>5 DEF StepsLeft, Done, script
    <3> QED
      BY <1>2, <1>3, <2>1, <2>2, <2>3, <3>1
  <2>6. CASE Exit(c, "failed") \/ Exit(c, "ok")
    <3>1. StepsLeft(c)' = 0
      BY <1>1, <2>6, ExitLeaves DEF Done
    <3> QED
      BY <1>3, <2>1, <2>4, <3>1, LeftType, <1>1
  <2>7. CASE stage[c] = "row" /\ Goto(c, "list") /\ UNCHANGED <<cmd, found, rows>>
    <3>1. StepsLeft(c)' = 2 * n + 1
      BY <1>1, <2>7 DEF Goto, StepsLeft, Done
    <3> QED
      BY <1>2, <1>3, <2>1, <2>3, <2>7, <3>1
  <2>8. CASE /\ stage[c] = "lookup" /\ UNCHANGED cmd
             /\ rows' = [rows EXCEPT ![c] = Filtered(@, obj'[c].idx)]
             /\ Goto(c, IF cmd[c].do = "list" THEN "list" ELSE "found")
    <3>1. rows'[c] = Filtered(rows[c], obj'[c].idx)
      BY <1>1, <2>8
    <3>2. Cardinality(rows'[c]) \in Nat /\ Cardinality(rows'[c]) <= n
      BY <1>1, <3>1, RowsLeft
    <3>3. StepsLeft(c)' = IF cmd[c].do = "list" THEN 2 * Cardinality(rows'[c]) + 1
                          ELSE 4
      BY <1>1, <2>8 DEF Goto, StepsLeft, Done
    <3> QED
      BY <1>2, <1>3, <2>1, <2>3, <2>8, <3>2, <3>3
  <2> QED
    BY <1>8, <2>5, <2>6, <2>7, <2>8 DEF Work
<1> QED
  BY <1>4, <1>5, <1>6, <1>7, <1>8 DEF Script

LEMMA StepBounded ==
  ASSUME NlInv, NlNext, NEW c \in Clients
  PROVE  IF Script(c) THEN StepsLeft(c)' < StepsLeft(c)
         ELSE stage[c] \notin Done => StepsLeft(c)' = StepsLeft(c)
<1>1. CASE Script(c)
  BY <1>1, ScriptShortens
<1>2. CASE ~Script(c) /\ stage[c] \notin Done
  <2>1. PICK b \in Clients : Begin(b) \/ DumpFails(b) \/ Script(b)
    BY DEF NlNext
  <2>2. b # c
    BY <1>2, <2>1 DEF Begin, DumpFails
  <2>3. /\ pc'[c] = pc[c] /\ call'[c] = call[c] /\ cmd'[c] = cmd[c]
        /\ stage'[c] = stage[c] /\ rows'[c] = rows[c]
    BY <2>1, <2>2, OthersKept DEF NlInv, AgreeInv
  <2>4. Exchanges(c)' = Exchanges(c)
    BY <2>3 DEF Exchanges
  <2>5. StepsLeft(c)' = StepsLeft(c)
    BY <2>3, <2>4 DEF StepsLeft
  <2> QED
    BY <1>2, <2>5
<1> QED
  BY <1>1, <1>2

(* A command of nl is at its end after at most as many steps as StepsLeft  *)
(* counts: each of its own steps leaves fewer, and no step of another      *)
(* process, which may create and delete the very links the command works   *)
(* on, leaves more.                                                        *)
THEOREM CommandsAreBounded == NlSpec => CommandsBounded
<1>1. NlInv /\ [NlNext]_nlvars =>
        [\A c \in Clients :
           IF Script(c) THEN StepsLeft(c)' < StepsLeft(c)
           ELSE stage[c] \notin Done => StepsLeft(c)' = StepsLeft(c)]_nlvars
  BY StepBounded
<1> QED
  BY <1>1, NlAlways, PTL DEF NlSpec, CommandsBounded
=============================================================================
