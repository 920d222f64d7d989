-------------------------- MODULE RtnlContextProofs --------------------------
(***************************************************************************)
(* Proofs about RtnlContext, for any number of goroutines, contexts,       *)
(* namespaces and descriptors.                                             *)
(***************************************************************************)
EXTENDS RtnlContextRefinement, TLAPS

(* A context in anybody's hand has been opened, and without a file it is   *)
(* for where the process is.                                               *)
Known(x) == x \in Contexts /\ opened[x] # Nowhere

Opened ==
  /\ \A x \in Contexts : /\ file[x] = 0 => opened[x] \in {Nowhere, Host}
                         /\ file[x] # 0 => opened[x] \in Namespaces
                         /\ target[x] # NoContext => Known(target[x])
  /\ \A x \in held : Known(x)
  /\ \A g \in Goroutines : run[g].pc # "idle" =>
       /\ Known(run[g].ctx)
       /\ run[g].nsCtx # NoContext => Known(run[g].nsCtx)

(* A socket is the socket of one exchange.                                 *)
Separate ==
  /\ \A g \in Goroutines : run[g].pc = "exec" =>
       run[g].sock \in Numbers /\ fds[run[g].sock] = "socket"
  /\ \A g, h \in Goroutines :
       run[g].pc = "exec" /\ run[h].pc = "exec" /\ run[g].sock = run[h].sock => g = h

(* A number that has been taken out of a context is still its number, or   *)
(* the context has been closed since.                                      *)
Current(r, x, n) == n = file[x] \/ ClosedSince(r, x)

Taken ==
  \A g \in Goroutines :
    LET r == run[g] IN
    /\ r.pc # "idle" => r.ret = "ok"
    /\ \A x \in r.late : file[x] = Closed
    /\ r.pc = "dial" => Current(r, r.ctx, r.num)
    /\ r.pc # "idle" /\ r.nsCtx # NoContext =>
         /\ r.landed = Nowhere
         /\ Current(r, r.nsCtx, r.nsNum) \/ (r.pc = "dial" /\ r.num = Closed)

ContextInv == TypeOK /\ OneOwner /\ Opened /\ Separate /\ Taken

-----------------------------------------------------------------------------
LEMMA MaxFdType == MaxFd \in Nat
BY ContextAssumption

LEMMA NoRunType == NoRun \in Run
BY MaxFdType DEF NoRun, Run, Closed

LEMMA InitContext == Init => ContextInv
<1> SUFFICES ASSUME Init PROVE ContextInv
  OBVIOUS
<1>1. 0 \in Closed .. MaxFd /\ 0 \notin Numbers
  BY MaxFdType DEF Closed, Numbers
<1>2. \A g \in Goroutines :
        run[g] = NoRun /\ run[g].pc = "idle" /\ run[g].late = {}
  BY DEF Init, NoRun
<1>3. TypeOK
  BY <1>1, <1>2, NoRunType DEF Init, TypeOK
<1>4. OneOwner
  BY <1>1 DEF Init, OneOwner, Open
<1>5. Opened
  BY <1>2 DEF Init, Opened
<1>6. Separate /\ Taken
  BY <1>2 DEF Separate, Taken
<1> QED
  BY <1>3, <1>4, <1>5, <1>6 DEF ContextInv

-----------------------------------------------------------------------------
(* The life of a context.                                                  *)

(* What holds of the numbers that have been taken survives every step of   *)
(* the contexts: known contexts keep their numbers or are closed.          *)
LEMMA TakenKeeps ==
  ASSUME ContextInv, UNCHANGED run,
         \A x \in Contexts : Known(x) => file'[x] = file[x] \/ file'[x] = Closed,
         \A x \in Contexts : file[x] = Closed => file'[x] = Closed
  PROVE  Taken'
<1> SUFFICES ASSUME NEW g \in Goroutines
             PROVE  /\ run[g].pc # "idle" => run[g].ret = "ok"
                    /\ \A x \in run[g].late : file'[x] = Closed
                    /\ run[g].pc = "dial" =>
                         \/ run[g].num = file'[run[g].ctx]
                         \/ /\ file'[run[g].ctx] = Closed
                            /\ run[g].ctx \notin run[g].late
                    /\ run[g].pc # "idle" /\ run[g].nsCtx # NoContext =>
                         /\ run[g].landed = Nowhere
                         /\ \/ run[g].nsNum = file'[run[g].nsCtx]
                            \/ /\ file'[run[g].nsCtx] = Closed
                               /\ run[g].nsCtx \notin run[g].late
                            \/ run[g].pc = "dial" /\ run[g].num = Closed
  BY DEF Taken, Current, ClosedSince
<1>1. /\ run[g] \in Run
      /\ run[g].pc # "idle" => Known(run[g].ctx)
      /\ run[g].pc # "idle" /\ run[g].nsCtx # NoContext => Known(run[g].nsCtx)
  BY DEF ContextInv, TypeOK, Opened
<1>2. /\ run[g].pc # "idle" => run[g].ret = "ok"
      /\ \A x \in run[g].late : file[x] = Closed
      /\ run[g].pc = "dial" => Current(run[g], run[g].ctx, run[g].num)
      /\ run[g].pc # "idle" /\ run[g].nsCtx # NoContext =>
           /\ run[g].landed = Nowhere
           /\ \/ Current(run[g], run[g].nsCtx, run[g].nsNum)
              \/ run[g].pc = "dial" /\ run[g].num = Closed
  BY DEF ContextInv, Taken
<1> DEFINE r == run[g]
<1>3. \A x, n : Known(x) /\ Current(r, x, n) =>
        n = file'[x] \/ (file'[x] = Closed /\ x \notin r.late)
  BY <1>2 DEF Current, ClosedSince, Known
<1>4. \A x \in r.late : x \in Contexts
  BY <1>1 DEF Run
<1> HIDE DEF r
<1> QED
  BY <1>1, <1>2, <1>3, <1>4 DEF r

(* What is known stays known in a step that makes no new references.       *)
OpenedSteps ==
  /\ run' = run /\ target' = target
  /\ \A x \in Contexts : /\ file'[x] = 0 => opened'[x] \in {Nowhere, Host}
                         /\ file'[x] # 0 => opened'[x] \in Namespaces
                         /\ opened[x] # Nowhere => opened'[x] # Nowhere
  /\ \A x \in held' : x \in held \/ (x \in Contexts /\ opened'[x] # Nowhere)

LEMMA OpenedKeeps ==
  ASSUME Opened, OpenedSteps
  PROVE  Opened'
<1>1. \A x \in Contexts : target'[x] # NoContext =>
        target'[x] \in Contexts /\ opened'[target'[x]] # Nowhere
  BY DEF Opened, Known, OpenedSteps
<1>2. \A x \in held' : x \in Contexts /\ opened'[x] # Nowhere
  BY DEF Opened, Known, OpenedSteps
<1>3. \A g \in Goroutines : run'[g].pc # "idle" =>
        /\ run'[g].ctx \in Contexts /\ opened'[run'[g].ctx] # Nowhere
        /\ run'[g].nsCtx # NoContext =>
             run'[g].nsCtx \in Contexts /\ opened'[run'[g].nsCtx] # Nowhere
  BY DEF Opened, Known, OpenedSteps
<1> QED
  BY <1>1, <1>2, <1>3 DEF Opened, Known, OpenedSteps

LEMMA OpenKeeps ==
  ASSUME ContextInv, NEW x \in Contexts, OpenContext(x)
  PROVE  ContextInv'
<1> USE DEF ContextInv
<1>1. PICK n \in Lowest, s \in Namespaces :
        /\ fds' = [fds EXCEPT ![n] = s]
        /\ file' = [file EXCEPT ![x] = n]
        /\ opened' = [opened EXCEPT ![x] = s]
  BY DEF OpenContext
<1>2. n \in Numbers /\ fds[n] = "free" /\ n \in Closed .. MaxFd
  BY MaxFdType DEF Lowest, Numbers, Closed
<1>3. opened[x] = Nowhere /\ s # Nowhere /\ s # "free" /\ s # "socket"
  BY ContextAssumption DEF OpenContext
<1>4. target' = target /\ run' = run /\ held' = held \cup {x}
  BY DEF OpenContext
<1>5. TypeOK'
  BY <1>1, <1>2, <1>4 DEF TypeOK
<1>6. /\ \A y \in Contexts : file'[y] = IF y = x THEN n ELSE file[y]
      /\ \A y \in Contexts : opened'[y] = IF y = x THEN s ELSE opened[y]
      /\ \A m \in Numbers : fds'[m] = IF m = n THEN s ELSE fds[m]
  BY <1>1, <1>2 DEF TypeOK
<1>7. \A y \in Contexts : file[y] # n
  <2> SUFFICES ASSUME NEW y \in Contexts, file[y] = n PROVE FALSE
    OBVIOUS
  <2>1. Open(y) /\ file[y] # 0
    BY <1>2 DEF Open, Numbers
  <2>2. fds[n] = opened[y] /\ opened[y] \in Namespaces
    BY <2>1 DEF OneOwner, Opened
  <2> QED
    BY <1>2, <2>2, ContextAssumption
<1>8. \A y \in Contexts : Open(y)' <=> y = x \/ Open(y)
  BY <1>2, <1>6 DEF Open
<1>10. OneOwner'
  <2>1. \A y, z \in Contexts : Open(y)' /\ file'[y] = file'[z] => y = z
    BY <1>6, <1>7, <1>8 DEF OneOwner
  <2>2. \A y \in Contexts : Open(y)' => fds'[file'[y]] = opened'[y]
    BY <1>2, <1>6, <1>7, <1>8 DEF OneOwner, Open
  <2>3. \A m \in Numbers : fds'[m] # "free" =>
          (\E y \in Contexts : file'[y] = m) \/ m \in Sockets'
    <3> SUFFICES ASSUME NEW m \in Numbers, fds'[m] # "free", m \notin Sockets'
                 PROVE  \E y \in Contexts : file'[y] = m
      OBVIOUS
    <3>1. CASE m = n
      BY <1>6, <3>1
    <3>2. CASE m # n
      <4>1. fds[m] # "free" /\ m \notin Sockets
        BY <1>4, <1>6, <3>2 DEF Sockets
      <4>2. PICK y \in Contexts : file[y] = m
        BY <4>1 DEF OneOwner
      <4>3. y # x
        <5>1. Open(y) /\ file[y] # 0
          BY <4>2 DEF Open, Numbers
        <5>2. opened[y] \in Namespaces
          BY <5>1 DEF Opened
        <5> QED
          BY <1>3, <5>2, ContextAssumption
      <4> QED
        BY <1>6, <4>2, <4>3
    <3> QED
      BY <3>1, <3>2
  <2> QED
    BY <2>1, <2>2, <2>3 DEF OneOwner
<1>11. Opened'
  <2>2. x \in Contexts /\ opened'[x] # Nowhere
    BY <1>3, <1>6
  <2>3. \A y \in Contexts :
          /\ file'[y] = 0 => opened'[y] \in {Nowhere, Host}
          /\ file'[y] # 0 => opened'[y] \in Namespaces
          /\ opened[y] # Nowhere => opened'[y] # Nowhere
    BY <1>2, <1>3, <1>6 DEF Opened, Numbers
  <2>4. \A y \in held' : y \in held \/ (y \in Contexts /\ opened'[y] # Nowhere)
    BY <1>4, <2>2
  <2>5. OpenedSteps
    BY <1>4, <2>3, <2>4 DEF OpenedSteps
  <2> QED
    BY <2>5, OpenedKeeps
<1>12. Separate'
  BY <1>2, <1>4, <1>6 DEF Separate
<1>13. Taken'
  <2>1. \A y \in Contexts : Known(y) => file'[y] = file[y]
    BY <1>3, <1>6 DEF Known
  <2>2. \A y \in Contexts : file[y] = Closed => file'[y] = Closed
    <3>1. file[x] # Closed
      BY <1>3, ContextAssumption DEF Opened, Closed
    <3> QED
      BY <1>6, <3>1
  <2> QED
    BY <1>4, <2>1, <2>2, TakenKeeps
<1> QED
  BY <1>5, <1>10, <1>11, <1>12, <1>13

LEMMA ZeroKeeps ==
  ASSUME ContextInv, NEW x \in Contexts, ZeroContext(x)
  PROVE  ContextInv'
<1>1. /\ fds' = fds /\ file' = file /\ target' = target /\ run' = run
      /\ held' = held \cup {x} /\ opened[x] = Nowhere
      /\ opened' = [opened EXCEPT ![x] = Host]
  BY DEF ZeroContext
<1>2. TypeOK /\ OneOwner /\ Opened /\ Separate /\ Taken
  BY DEF ContextInv
<1>3. \A y \in Contexts : opened'[y] = IF y = x THEN Host ELSE opened[y]
  BY <1>1, <1>2 DEF TypeOK
<1>4. Host \in Namespaces /\ Host # Nowhere /\ Nowhere \notin Namespaces
  BY ContextAssumption
<1>5. file[x] = 0
  BY <1>1, <1>2, <1>4 DEF Opened
<1>6. TypeOK'
  BY <1>1, <1>2, <1>4 DEF TypeOK
<1>7. OneOwner'
  <2>1. ~Open(x)
    BY <1>5, MaxFdType DEF Open, Numbers
  <2> QED
    BY <1>1, <1>2, <1>3, <2>1 DEF OneOwner, Open, Sockets
<1>8. Opened'
  <2>1. \A y \in Contexts :
          /\ file'[y] = 0 => opened'[y] \in {Nowhere, Host}
          /\ file'[y] # 0 => opened'[y] \in Namespaces
          /\ opened[y] # Nowhere => opened'[y] # Nowhere
    BY <1>1, <1>2, <1>3, <1>4, <1>5 DEF Opened
  <2>2. \A y \in held' : y \in held \/ (y \in Contexts /\ opened'[y] # Nowhere)
    BY <1>1, <1>3, <1>4
  <2>3. OpenedSteps
    BY <1>1, <2>1, <2>2 DEF OpenedSteps
  <2> QED
    BY <1>2, <2>3, OpenedKeeps
<1>9. Separate'
  BY <1>1, <1>2 DEF Separate
<1>10. Taken'
  BY <1>1, <1>2, TakenKeeps
<1> QED
  BY <1>6, <1>7, <1>8, <1>9, <1>10 DEF ContextInv

LEMMA SetTargetKeeps ==
  ASSUME ContextInv, NEW x \in Contexts, NEW y \in Contexts, SetTarget(x, y)
  PROVE  ContextInv'
<1>1. /\ fds' = fds /\ file' = file /\ opened' = opened /\ run' = run
      /\ held' = held /\ y \in held
      /\ target' = [target EXCEPT ![x] = y]
  BY DEF SetTarget
<1>2. TypeOK /\ OneOwner /\ Opened /\ Separate /\ Taken
  BY DEF ContextInv
<1>3. TypeOK'
  BY <1>1, <1>2 DEF TypeOK
<1>4. \A z \in Contexts : target'[z] = IF z = x THEN y ELSE target[z]
  BY <1>1, <1>2 DEF TypeOK
<1>5. Opened'
  BY <1>1, <1>2, <1>4 DEF Opened, Known
<1>6. OneOwner' /\ Separate'
  BY <1>1, <1>2 DEF OneOwner, Separate, Open, Sockets
<1>7. Taken'
  BY <1>1, <1>2, TakenKeeps
<1> QED
  BY <1>3, <1>5, <1>6, <1>7 DEF ContextInv

(* Closing takes its own descriptors only, and each of them once.          *)
LEMMA ShutKeeps ==
  ASSUME ContextInv, NEW xs \in SUBSET Contexts, Shut(xs),
         UNCHANGED <<opened, target, held, run>>
  PROVE  ContextInv'
<1>1. opened' = opened /\ target' = target /\ held' = held /\ run' = run
  OBVIOUS
<1>2. TypeOK /\ OneOwner /\ Opened /\ Separate /\ Taken
  BY DEF ContextInv
<1>3. /\ file' = [y \in Contexts |-> IF y \in xs /\ Open(y) THEN Closed ELSE file[y]]
      /\ fds' = [n \in Numbers |->
                   IF n \in {file[y] : y \in {z \in xs : Open(z)}}
                   THEN "free" ELSE fds[n]]
  BY DEF Shut, Marked, Frees
<1>4. Closed \notin Numbers /\ Closed # 0 /\ Closed \in Closed .. MaxFd
  BY MaxFdType DEF Closed, Numbers
<1>5. TypeOK'
  BY <1>1, <1>2, <1>3, <1>4 DEF TypeOK
<1>6. \A y \in Contexts : file'[y] = IF y \in xs /\ Open(y) THEN Closed ELSE file[y]
  BY <1>3
<1>7. \A m \in Numbers : \/ fds'[m] = fds[m] /\ \A z \in xs : Open(z) => file[z] # m
                         \/ fds'[m] = "free" /\ \E z \in xs : Open(z) /\ file[z] = m
  BY <1>3
<1>8. \A y \in Contexts : Open(y)' <=> Open(y) /\ y \notin xs
  BY <1>4, <1>6 DEF Open
<1>9. \A y \in Contexts : Open(y)' => file'[y] = file[y]
  BY <1>6, <1>8
<1>10. OneOwner'
  <2>1. \A y, z \in Contexts : Open(y)' /\ file'[y] = file'[z] => y = z
    BY <1>2, <1>8, <1>9 DEF OneOwner, Open
  <2>2. \A y \in Contexts : Open(y)' => fds'[file'[y]] = opened'[y]
    BY <1>1, <1>2, <1>7, <1>8, <1>9 DEF OneOwner, Open
  <2>3. \A m \in Numbers : fds'[m] # "free" =>
          (\E y \in Contexts : file'[y] = m) \/ m \in Sockets'
    <3> SUFFICES ASSUME NEW m \in Numbers, fds'[m] # "free", m \notin Sockets'
                 PROVE  \E y \in Contexts : file'[y] = m
      OBVIOUS
    <3>1. fds[m] # "free" /\ m \notin Sockets
          /\ \A z \in xs : Open(z) => file[z] # m
      BY <1>1, <1>7 DEF Sockets
    <3>2. PICK y \in Contexts : file[y] = m
      BY <1>2, <3>1 DEF OneOwner
    <3> QED
      BY <1>6, <3>1, <3>2
  <2> QED
    BY <2>1, <2>2, <2>3 DEF OneOwner
<1>11. Opened'
  <2>1. \A y \in Contexts :
          /\ file'[y] = 0 => opened'[y] \in {Nowhere, Host}
          /\ file'[y] # 0 => opened'[y] \in Namespaces
          /\ opened[y] # Nowhere => opened'[y] # Nowhere
    <3> SUFFICES ASSUME NEW y \in Contexts
                 PROVE  file'[y] = 0 <=> file[y] = 0
      BY <1>1, <1>2 DEF Opened
    <3> QED
      BY <1>4, <1>6, MaxFdType DEF Open, Numbers
  <2>2. OpenedSteps
    BY <1>1, <2>1 DEF OpenedSteps
  <2> QED
    BY <1>2, <2>2, OpenedKeeps
<1>12. Separate'
  <2>1. \A z \in xs : Open(z) => fds[file[z]] # "socket"
    <3> SUFFICES ASSUME NEW z \in xs, Open(z) PROVE fds[file[z]] # "socket"
      OBVIOUS
    <3>1. fds[file[z]] = opened[z] /\ file[z] # 0
      BY <1>2, MaxFdType DEF OneOwner, Open, Numbers
    <3>2. opened[z] \in Namespaces
      BY <1>2, <3>1 DEF Opened
    <3> QED
      BY <3>1, <3>2, ContextAssumption
  <2>2. \A m \in Numbers : fds[m] = "socket" => fds'[m] = "socket"
    BY <1>7, <2>1
  <2> QED
    BY <1>1, <1>2, <2>2 DEF Separate
<1>13. Taken'
  <2>1. \A y \in Contexts : file'[y] = file[y] \/ file'[y] = Closed
    BY <1>6
  <2>2. \A y \in Contexts : file[y] = Closed => file'[y] = Closed
    BY <1>6
  <2> QED
    BY <1>1, <2>1, <2>2, TakenKeeps
<1> QED
  BY <1>5, <1>10, <1>11, <1>12, <1>13 DEF ContextInv

LEMMA CloseKeeps ==
  ASSUME ContextInv, NEW x \in Contexts, Close(x)
  PROVE  ContextInv'
<1>1. WithTarget(x) \in SUBSET Contexts
  BY DEF WithTarget
<1> QED
  BY <1>1, ShutKeeps DEF Close

LEMMA CollectKeeps ==
  ASSUME ContextInv, NEW x \in Contexts, Collect(x)
  PROVE  ContextInv'
<1>1. {x} \in SUBSET Contexts
  OBVIOUS
<1> QED
  BY <1>1, ShutKeeps DEF Collect

LEMMA DropKeeps ==
  ASSUME ContextInv, NEW x \in Contexts, Drop(x)
  PROVE  ContextInv'
<1>1. /\ fds' = fds /\ file' = file /\ opened' = opened /\ target' = target
      /\ run' = run /\ held' = held \ {x}
  BY DEF Drop
<1>2. TypeOK /\ OneOwner /\ Opened /\ Separate /\ Taken
  BY DEF ContextInv
<1>3. TypeOK' /\ OneOwner' /\ Separate'
  BY <1>1, <1>2 DEF TypeOK, OneOwner, Separate, Open, Sockets
<1>4. OpenedSteps
  BY <1>1, <1>2 DEF Opened, OpenedSteps
<1>5. Opened'
  BY <1>2, <1>4, OpenedKeeps
<1>6. Taken'
  BY <1>1, TakenKeeps
<1> QED
  BY <1>3, <1>5, <1>6 DEF ContextInv

-----------------------------------------------------------------------------
(* Methods.                                                                *)

(* What Opened and Taken ask of one method.                                *)
Fine(r) ==
  /\ r \in Run
  /\ r.pc # "idle" => Known(r.ctx) /\ r.ret = "ok"
  /\ \A x \in r.late : file[x] = Closed
  /\ r.pc = "dial" => Current(r, r.ctx, r.num)
  /\ r.pc # "idle" /\ r.nsCtx # NoContext =>
       /\ Known(r.nsCtx) /\ r.landed = Nowhere
       /\ Current(r, r.nsCtx, r.nsNum) \/ (r.pc = "dial" /\ r.num = Closed)

LEMMA RunsAreFine == ContextInv => \A g \in Goroutines : Fine(run[g])
BY DEF ContextInv, TypeOK, Opened, Taken, Fine

(* A step of one method leaves the contexts as they are.                   *)
MethodStep(g, r) ==
  /\ run' = [run EXCEPT ![g] = r]
  /\ file' = file /\ opened' = opened /\ target' = target /\ held' = held

LEMMA MethodKeeps ==
  ASSUME ContextInv, NEW g \in Goroutines, NEW r, Fine(r), MethodStep(g, r)
  PROVE  /\ \A h \in Goroutines : run'[h] = IF h = g THEN r ELSE run[h]
         /\ fds' \in [Numbers -> Namespaces \cup {"free", "socket"}] => TypeOK'
         /\ Opened' /\ Taken'
<1>1. TypeOK /\ Opened
  BY DEF ContextInv
<1>2. \A h \in Goroutines : run'[h] = IF h = g THEN r ELSE run[h]
  BY <1>1 DEF MethodStep, TypeOK
<1>3. \A h \in Goroutines : Fine(run'[h])
  BY <1>2, RunsAreFine
<1>4. run' \in [Goroutines -> Run]
  BY <1>1 DEF MethodStep, TypeOK, Fine
<1>5. ASSUME fds' \in [Numbers -> Namespaces \cup {"free", "socket"}] PROVE TypeOK'
  <2>1. \A h \in Goroutines : run'[h].pc # "idle" => run'[h].ctx \in Contexts
    BY <1>3 DEF Fine, Known
  <2> QED
    BY <1>1, <1>4, <1>5, <2>1 DEF MethodStep, TypeOK
<1>6. Opened'
  <2>1. \A h \in Goroutines : run'[h].pc # "idle" =>
          /\ run'[h].ctx \in Contexts /\ opened[run'[h].ctx] # Nowhere
          /\ run'[h].nsCtx # NoContext =>
               run'[h].nsCtx \in Contexts /\ opened[run'[h].nsCtx] # Nowhere
    BY <1>3 DEF Fine, Known
  <2> QED
    BY <1>1, <2>1 DEF MethodStep, Opened, Known
<1>7. Taken'
  <2> SUFFICES ASSUME NEW h \in Goroutines
               PROVE  /\ run'[h].pc # "idle" => run'[h].ret = "ok"
                      /\ \A x \in run'[h].late : file[x] = Closed
                      /\ run'[h].pc = "dial" =>
                           \/ run'[h].num = file[run'[h].ctx]
                           \/ /\ file[run'[h].ctx] = Closed
                              /\ run'[h].ctx \notin run'[h].late
                      /\ run'[h].pc # "idle" /\ run'[h].nsCtx # NoContext =>
                           /\ run'[h].landed = Nowhere
                           /\ \/ run'[h].nsNum = file[run'[h].nsCtx]
                              \/ /\ file[run'[h].nsCtx] = Closed
                                 /\ run'[h].nsCtx \notin run'[h].late
                              \/ run'[h].pc = "dial" /\ run'[h].num = Closed
    BY DEF MethodStep, Taken, Current, ClosedSince
  <2> QED
    BY <1>3 DEF Fine, Current, ClosedSince
<1> QED
  BY <1>2, <1>5, <1>6, <1>7

(* A step to or from no socket leaves the descriptors as they are.         *)
LEMMA NoSocketKeeps ==
  ASSUME ContextInv, NEW g \in Goroutines, NEW r, Fine(r), MethodStep(g, r),
         fds' = fds, run[g].pc # "exec", r.pc # "exec"
  PROVE  ContextInv'
<1>1. TypeOK /\ OneOwner /\ Separate
  BY DEF ContextInv
<1>2. TypeOK' /\ Opened' /\ Taken' /\
      \A h \in Goroutines : run'[h] = IF h = g THEN r ELSE run[h]
  BY <1>1, MethodKeeps DEF TypeOK
<1>3. \A h \in Goroutines : run'[h].pc = "exec" <=> run[h].pc = "exec"
  BY <1>2
<1>4. \A h \in Goroutines : run[h].pc = "exec" => run'[h] = run[h]
  BY <1>2
<1>5. Sockets' = Sockets
  BY <1>3, <1>4 DEF Sockets
<1>6. OneOwner'
  BY <1>1, <1>5 DEF OneOwner, Open, MethodStep
<1>7. Separate'
  BY <1>1, <1>3, <1>4 DEF Separate
<1> QED
  BY <1>2, <1>6, <1>7 DEF ContextInv

LEMMA BeginKeeps ==
  ASSUME ContextInv, NEW g \in Goroutines, NEW op \in {"Add", "Set", "Read"},
         NEW x \in Contexts, NEW y \in Contexts \cup {NoContext},
         Begin(g, op, x, y)
  PROVE  ContextInv'
<1> DEFINE n == IF y = NoContext THEN 0 ELSE Fd(y)
           l == IF y = NoContext THEN {} ELSE LateIf(y)
           r == [NoRun EXCEPT !.pc = "fd", !.op = op, !.ctx = x, !.nsCtx = y,
                              !.nsNum = n, !.late = l]
<1>1. TypeOK /\ Opened
  BY DEF ContextInv
<1>2. run[g].pc = "idle" /\ fds' = fds
  BY DEF Begin
<1>3. Known(x) /\ (y # NoContext => Known(y))
  BY <1>1 DEF Begin, Opened
<1>4. /\ n \in Closed .. MaxFd /\ l \in SUBSET Contexts
      /\ \A z \in l : file[z] = Closed
      /\ y # NoContext => n = file[y]
  BY <1>1, MaxFdType DEF TypeOK, Fd, LateIf, Closed
<1>5. MethodStep(g, r)
  BY DEF MethodStep, Begin
<1>6. NoRun.ret = "ok" /\ NoRun.landed = Nowhere
  BY DEF NoRun
<1> HIDE DEF n, l
<1>7. /\ r \in Run
      /\ r.pc = "fd" /\ r.ctx = x /\ r.nsCtx = y
      /\ r.nsNum = n /\ r.late = l /\ r.ret = "ok" /\ r.landed = Nowhere
  BY <1>4, <1>6, NoRunType DEF Run
<1> HIDE DEF r
<1>8. Fine(r)
  BY <1>3, <1>4, <1>7 DEF Fine, Current
<1> QED
  BY <1>2, <1>5, <1>7, <1>8, NoSocketKeeps

LEMMA TakeFdKeeps ==
  ASSUME ContextInv, NEW g \in Goroutines, TakeFd(g)
  PROVE  ContextInv'
<1> DEFINE q == run[g]
           n == file[q.ctx]
           l == q.late \cup LateIf(q.ctx)
           r == [q EXCEPT !.pc = "dial", !.num = n, !.late = l]
<1>1. TypeOK /\ Fine(q) /\ q.pc = "fd" /\ fds' = fds
  BY RunsAreFine DEF ContextInv, TakeFd
<1>2. q \in Run /\ Known(q.ctx)
  BY <1>1 DEF Fine
<1>3. /\ l \in SUBSET Contexts /\ \A z \in l : file[z] = Closed
      /\ \A z \in l : z \in q.late \/ z = q.ctx
      /\ n \in Closed .. MaxFd
  BY <1>1, <1>2 DEF Run, Fine, LateIf, Known, TypeOK
<1>4. MethodStep(g, r)
  BY DEF MethodStep, TakeFd, Fd
<1>5. q.pc # "exec"
  BY <1>1
<1>6. /\ r \in Run
      /\ r.pc = "dial" /\ r.num = n /\ r.late = l /\ r.ctx = q.ctx
      /\ r.nsCtx = q.nsCtx /\ r.nsNum = q.nsNum
      /\ r.ret = q.ret /\ r.landed = q.landed
  <2> HIDE DEF n, l, q
  <2> QED
    BY <1>2, <1>3 DEF Run
<1>7. \/ q.nsCtx = NoContext
      \/ /\ Known(q.nsCtx) /\ q.landed = Nowhere
         /\ \/ q.nsNum = file[q.nsCtx]
            \/ file[q.nsCtx] = Closed /\ q.nsCtx \notin q.late
  BY <1>1 DEF Fine, Current, ClosedSince
<1>8. Fine(r)
  <2> HIDE DEF r, l, q
  <2>1. n = file[q.ctx]
    OBVIOUS
  <2> HIDE DEF n
  <2>2. q.ret = "ok"
    BY <1>1 DEF Fine
  <2>3. CASE q.nsCtx = NoContext
    BY <1>2, <1>3, <1>6, <2>1, <2>2, <2>3 DEF Fine, Current
  <2>4. CASE q.nsCtx # NoContext
    <3>1. \/ r.nsNum = file[r.nsCtx]
          \/ file[r.nsCtx] = Closed /\ r.nsCtx \notin r.late
          \/ r.num = Closed
      BY <1>3, <1>6, <1>7, <2>1, <2>4
    <3> QED
      BY <1>2, <1>3, <1>6, <1>7, <2>1, <2>2, <2>4, <3>1
      DEF Fine, Current, ClosedSince
  <2> QED
    BY <2>3, <2>4
<1> HIDE DEF r, l, n
<1> QED
  BY <1>1, <1>4, <1>5, <1>6, <1>8, NoSocketKeeps

LEMMA ReturnedType ==
  ASSUME NEW e \in {"ok", "EBADF", "EMFILE", "other"},
         NEW s \in Namespaces \cup {Nowhere}, NEW r,
         r = [NoRun EXCEPT !.ret = e] \/ r = [NoRun EXCEPT !.landed = s]
  PROVE  r.pc = "idle" /\ Fine(r)
<1>1. NoRun \in Run /\ NoRun.pc = "idle" /\ NoRun.late = {}
  BY NoRunType DEF NoRun
<1>2. r \in Run /\ r.pc = "idle" /\ r.late = {}
  BY <1>1 DEF Run
<1> QED
  BY <1>2 DEF Fine

LEMMA DialFailsKeeps ==
  ASSUME ContextInv, NEW g \in Goroutines, run[g].pc = "dial",
         NEW e \in {"EBADF", "EMFILE"}, Return(g, e),
         UNCHANGED <<fds, file, opened, target, held>>
  PROVE  ContextInv'
<1> DEFINE r == [NoRun EXCEPT !.ret = e]
<1>1. r.pc = "idle" /\ Fine(r)
  BY ReturnedType
<1>2. MethodStep(g, r) /\ fds' = fds /\ run[g].pc # "exec"
  BY DEF Return, MethodStep
<1> HIDE DEF r
<1> QED
  BY <1>1, <1>2, NoSocketKeeps

LEMMA DialsKeeps ==
  ASSUME ContextInv, NEW g \in Goroutines, run[g].pc = "dial",
         NEW s \in NsOf(run[g].num), NEW n \in Lowest,
         fds' = [fds EXCEPT ![n] = "socket"],
         run' = [run EXCEPT ![g].pc = "exec", ![g].at = s, ![g].sock = n],
         UNCHANGED <<file, opened, target, held>>
  PROVE  ContextInv'
<1> DEFINE q == run[g]
           r == [q EXCEPT !.pc = "exec", !.at = s, !.sock = n]
<1>1. TypeOK /\ OneOwner /\ Separate /\ Fine(q) /\ q \in Run
  BY RunsAreFine DEF ContextInv, Fine
<1>2. n \in Numbers /\ fds[n] = "free" /\ n \in 0 .. MaxFd
  BY MaxFdType DEF Lowest, Numbers
<1>3. s \in Namespaces /\ q.num # Closed
  BY MaxFdType, ContextAssumption DEF NsOf, Closed
<1>4. MethodStep(g, r)
  BY DEF MethodStep
<1>5. /\ r \in Run
      /\ r.pc = "exec" /\ r.sock = n /\ r.ctx = q.ctx
      /\ r.nsCtx = q.nsCtx /\ r.nsNum = q.nsNum /\ r.late = q.late
      /\ r.ret = q.ret /\ r.landed = q.landed
  <2> HIDE DEF q
  <2> QED
    BY <1>1, <1>2, <1>3 DEF Run
<1>6. Fine(r)
  <2> HIDE DEF r
  <2> QED
    BY <1>1, <1>3, <1>5 DEF Fine, Current, ClosedSince
<1>7. run[g].pc = "dial"
  OBVIOUS
<1> HIDE DEF r, q
<1>8. \A m \in Numbers : fds'[m] = IF m = n THEN "socket" ELSE fds[m]
  BY <1>1, <1>2 DEF TypeOK
<1>9. fds' \in [Numbers -> Namespaces \cup {"free", "socket"}]
  BY <1>1, <1>2 DEF TypeOK
<1>10. TypeOK' /\ Opened' /\ Taken' /\
       \A h \in Goroutines : run'[h] = IF h = g THEN r ELSE run[h]
  BY <1>4, <1>6, <1>9, MethodKeeps
<1>11. \A x \in Contexts : Open(x) => file[x] # n
  <2> SUFFICES ASSUME NEW x \in Contexts, Open(x), file[x] = n PROVE FALSE
    OBVIOUS
  <2>1. fds[n] = opened[x] /\ file[x] # 0
    BY <1>1, MaxFdType DEF OneOwner, Open, Numbers
  <2>2. opened[x] \in Namespaces
    BY <2>1 DEF ContextInv, Opened
  <2> QED
    BY <1>2, <2>1, <2>2, ContextAssumption
<1>14. run'[g].pc = "exec" /\ run'[g].sock = n
  BY <1>5, <1>10
<1>15. \A h \in Goroutines : h # g => run'[h] = run[h]
  BY <1>10
<1>12. OneOwner'
  <2>1. \A x, y \in Contexts : Open(x)' /\ file'[x] = file'[y] => x = y
    BY <1>1, <1>4 DEF OneOwner, Open, MethodStep
  <2>2. \A x \in Contexts : Open(x)' => fds'[file'[x]] = opened'[x]
    BY <1>1, <1>4, <1>8, <1>11 DEF OneOwner, Open, MethodStep
  <2>3. \A m \in Numbers : fds'[m] # "free" =>
          (\E x \in Contexts : file'[x] = m) \/ m \in Sockets'
    <3> SUFFICES ASSUME NEW m \in Numbers, fds'[m] # "free"
                 PROVE  (\E x \in Contexts : file[x] = m) \/ m \in Sockets'
      BY <1>4 DEF MethodStep
    <3>1. CASE m = n
      BY <1>14, <3>1 DEF Sockets
    <3>2. CASE m # n /\ m \in Sockets
      <4>1. PICK h \in Goroutines : run[h].pc = "exec" /\ run[h].sock = m
        BY <3>2 DEF Sockets
      <4>2. h # g
        BY <1>7, <4>1
      <4> QED
        BY <1>15, <4>1, <4>2 DEF Sockets
    <3>3. CASE m # n /\ m \notin Sockets
      BY <1>1, <1>8, <3>3 DEF OneOwner
    <3> QED
      BY <3>1, <3>2, <3>3
  <2> QED
    BY <2>1, <2>2, <2>3 DEF OneOwner
<1>13. Separate'
  <2>1. \A h \in Goroutines : run[h].pc = "exec" => run[h].sock # n
    BY <1>1, <1>2 DEF Separate
  <2>2. ASSUME NEW h \in Goroutines, run'[h].pc = "exec"
        PROVE  run'[h].sock \in Numbers /\ fds'[run'[h].sock] = "socket"
    <3>1. CASE h = g
      BY <1>2, <1>8, <1>14, <3>1
    <3>2. CASE h # g
      <4>1. run[h].sock \in Numbers /\ fds[run[h].sock] = "socket"
        BY <1>1, <1>15, <2>2, <3>2 DEF Separate
      <4> QED
        BY <1>8, <1>15, <3>2, <4>1
    <3> QED
      BY <3>1, <3>2
  <2>3. ASSUME NEW h \in Goroutines, NEW i \in Goroutines,
               run'[h].pc = "exec", run'[i].pc = "exec",
               run'[h].sock = run'[i].sock
        PROVE  h = i
    <3>1. CASE h = g \/ i = g
      BY <1>14, <1>15, <2>1, <2>3, <3>1
    <3>2. CASE h # g /\ i # g
      BY <1>1, <1>15, <2>3, <3>2 DEF Separate
    <3> QED
      BY <3>1, <3>2
  <2> QED
    BY <2>2, <2>3 DEF Separate
<1> QED
  BY <1>10, <1>12, <1>13 DEF ContextInv

LEMMA DialKeeps ==
  ASSUME ContextInv, NEW g \in Goroutines, Dial(g)
  PROVE  ContextInv'
<1>1. run[g].pc = "dial" /\ UNCHANGED <<file, opened, target, held>>
  BY DEF Dial
<1>2. CASE UNCHANGED fds /\ \E e \in {"EBADF", "EMFILE"} : Return(g, e)
  BY <1>1, <1>2, DialFailsKeeps
<1>3. CASE \E s \in NsOf(run[g].num), n \in Lowest :
             /\ fds' = [fds EXCEPT ![n] = "socket"]
             /\ run' = [run EXCEPT ![g].pc = "exec", ![g].at = s, ![g].sock = n]
  <2>1. PICK s \in NsOf(run[g].num), n \in Lowest :
             /\ fds' = [fds EXCEPT ![n] = "socket"]
             /\ run' = [run EXCEPT ![g].pc = "exec", ![g].at = s, ![g].sock = n]
    BY <1>3
  <2> QED
    BY <1>1, <2>1, DialsKeeps
<1> QED
  BY <1>2, <1>3 DEF Dial

(* After an exchange the socket is gone and no other goroutine had it.     *)
LEMMA ExecStepKeeps ==
  ASSUME ContextInv, NEW g \in Goroutines, run[g].pc = "exec",
         NEW r, Fine(r), r.pc # "exec", MethodStep(g, r),
         fds' = Frees({run[g].sock})
  PROVE  ContextInv'
<1> DEFINE k == run[g].sock
<1>1. TypeOK /\ OneOwner /\ Separate
  BY DEF ContextInv
<1>2. k \in Numbers /\ fds[k] = "socket"
  BY <1>1 DEF Separate
<1>3. fds' = [n \in Numbers |-> IF n = k THEN "free" ELSE fds[n]]
  BY DEF Frees
<1>4. fds' \in [Numbers -> Namespaces \cup {"free", "socket"}]
  BY <1>1, <1>3 DEF TypeOK
<1>5. TypeOK' /\ Opened' /\ Taken' /\
      \A h \in Goroutines : run'[h] = IF h = g THEN r ELSE run[h]
  BY <1>4, MethodKeeps
<1>6. \A h \in Goroutines : run[h].pc = "exec" /\ h # g => run[h].sock # k
  BY <1>1 DEF Separate
<1> HIDE DEF k
<1>7. \A x \in Contexts : Open(x) => file[x] # k
  <2> SUFFICES ASSUME NEW x \in Contexts, Open(x), file[x] = k PROVE FALSE
    OBVIOUS
  <2>1. fds[k] = opened[x] /\ file[x] # 0
    BY <1>1, MaxFdType DEF OneOwner, Open, Numbers
  <2>2. opened[x] \in Namespaces
    BY <2>1 DEF ContextInv, Opened
  <2> QED
    BY <1>2, <2>1, <2>2, ContextAssumption
<1>8. OneOwner'
  <2>1. \A x, y \in Contexts : Open(x)' /\ file'[x] = file'[y] => x = y
    BY <1>1 DEF OneOwner, Open, MethodStep
  <2>2. \A x \in Contexts : Open(x)' => fds'[file'[x]] = opened'[x]
    BY <1>1, <1>3, <1>7 DEF OneOwner, Open, MethodStep
  <2>3. \A m \in Numbers : fds'[m] # "free" =>
          (\E x \in Contexts : file'[x] = m) \/ m \in Sockets'
    <3> SUFFICES ASSUME NEW m \in Numbers, fds'[m] # "free"
                 PROVE  (\E x \in Contexts : file[x] = m) \/ m \in Sockets'
      BY DEF MethodStep
    <3>1. m # k /\ fds[m] # "free"
      BY <1>3
    <3>2. CASE m \in Sockets
      <4>1. PICK h \in Goroutines : run[h].pc = "exec" /\ run[h].sock = m
        BY <3>2 DEF Sockets
      <4>2. h # g
        BY <3>1, <4>1 DEF k
      <4> QED
        BY <1>5, <4>1, <4>2 DEF Sockets
    <3> QED
      BY <1>1, <3>1, <3>2 DEF OneOwner
  <2> QED
    BY <2>1, <2>2, <2>3 DEF OneOwner
<1>9. Separate'
  <2>1. \A h \in Goroutines : run'[h].pc = "exec" =>
          run'[h] = run[h] /\ run[h].sock \in Numbers
          /\ fds'[run[h].sock] = "socket"
    BY <1>1, <1>3, <1>5, <1>6 DEF Separate
  <2> QED
    BY <1>1, <2>1, ZenonT(60) DEF Separate
<1> QED
  BY <1>5, <1>8, <1>9 DEF ContextInv

LEMMA ReadBackFine ==
  ASSUME ContextInv, NEW q \in Run, Known(q.ctx),
         NEW s \in Namespaces \cup {Nowhere}
  PROVE  /\ Fine(ReadBack([q EXCEPT !.landed = s]))
         /\ ReadBack([q EXCEPT !.landed = s]).pc = "fd"
<1> DEFINE p == [q EXCEPT !.landed = s]
           x == ReadIn(p.ctx)
           l == p.landed
           r == [NoRun EXCEPT !.pc = "fd", !.op = "Read", !.landed = l, !.ctx = x]
<1>1. p.ctx = q.ctx /\ l = s
  BY DEF Run
<1>2. Known(x)
  BY <1>1 DEF ReadIn, ContextInv, Opened, Known
<1>3. ReadBack(p) = r
  BY DEF ReadBack
<1> HIDE DEF p, x, l
<1>4. NoRun.late = {} /\ NoRun.ret = "ok" /\ NoRun.nsCtx = NoContext
  BY DEF NoRun
<1>5. /\ r \in Run /\ r.pc = "fd" /\ r.ctx = x
      /\ r.late = {} /\ r.ret = "ok" /\ r.nsCtx = NoContext
  BY <1>1, <1>2, <1>4, NoRunType, ZenonT(60) DEF Run, Known
<1> HIDE DEF r
<1>6. Fine(r) /\ r.pc = "fd"
  BY <1>2, <1>5 DEF Fine
<1> QED
  BY <1>3, <1>6 DEF p

LEMMA ExecKeeps ==
  ASSUME ContextInv, NEW g \in Goroutines, Exec(g)
  PROVE  ContextInv'
<1>1. /\ run[g].pc = "exec"
      /\ file' = file /\ opened' = opened /\ target' = target /\ held' = held
      /\ fds' = Frees({run[g].sock})
  BY DEF Exec, Leaves
<1>2. Fine(run[g])
  BY RunsAreFine
<1>3. CASE Return(g, "other")
  <2> DEFINE r == [NoRun EXCEPT !.ret = "other"]
  <2>1. MethodStep(g, r)
    BY <1>1, <1>3 DEF MethodStep, Return
  <2>2. r.pc = "idle" /\ Fine(r)
    BY ReturnedType
  <2> HIDE DEF r
  <2> QED
    BY <1>1, <2>1, <2>2, ExecStepKeeps
<1>4. ASSUME NEW s \in Lands(run[g]),
             run' = [run EXCEPT ![g] =
               IF run[g].op = "Add" THEN ReadBack([run[g] EXCEPT !.landed = s])
                                    ELSE [NoRun EXCEPT !.landed = s]]
      PROVE  ContextInv'
  <2>1. s \in Namespaces \cup {Nowhere}
    BY <1>2, ContextAssumption DEF Lands, NsOf, Fine, Run
  <2>2. CASE run[g].op = "Add"
    <3> DEFINE r == ReadBack([run[g] EXCEPT !.landed = s])
    <3>1. MethodStep(g, r)
      BY <1>1, <1>4, <2>2 DEF MethodStep
    <3>2. run[g] \in Run /\ Known(run[g].ctx)
      BY <1>1, <1>2 DEF Fine
    <3>3. Fine(r) /\ r.pc = "fd"
      BY <2>1, <3>2, ReadBackFine
    <3> HIDE DEF r
    <3> QED
      BY <1>1, <3>1, <3>3, ExecStepKeeps
  <2>3. CASE run[g].op # "Add"
    <3> DEFINE r == [NoRun EXCEPT !.landed = s]
    <3>1. MethodStep(g, r)
      BY <1>1, <1>4, <2>3 DEF MethodStep
    <3>2. r.pc = "idle" /\ Fine(r)
      BY <2>1, ReturnedType
    <3> HIDE DEF r
    <3> QED
      BY <1>1, <3>1, <3>2, ExecStepKeeps
  <2> QED
    BY <2>2, <2>3
<1> QED
  BY <1>3, <1>4 DEF Exec

-----------------------------------------------------------------------------
(* Every step.                                                             *)

LEMMA StepKeeps == ContextInv /\ [Next]_vars => ContextInv'
<1> SUFFICES ASSUME ContextInv, [Next]_vars PROVE ContextInv'
  OBVIOUS
<1>1. CASE UNCHANGED vars
  <2>1. /\ fds' = fds /\ file' = file /\ opened' = opened /\ target' = target
        /\ held' = held /\ run' = run
    BY <1>1 DEF vars
  <2>2. TypeOK' /\ OneOwner' /\ Opened' /\ Separate'
    BY <2>1 DEF ContextInv, TypeOK, OneOwner, Opened, Known, Separate, Open, Sockets
  <2>3. Taken'
    BY <2>1, TakenKeeps
  <2> QED
    BY <2>2, <2>3 DEF ContextInv
<1>2. ASSUME NEW x \in Contexts,
             \/ OpenContext(x) \/ ZeroContext(x) \/ Close(x) \/ Drop(x)
             \/ Collect(x) \/ \E y \in Contexts : SetTarget(x, y)
      PROVE  ContextInv'
  BY <1>2, OpenKeeps, ZeroKeeps, CloseKeeps, DropKeeps, CollectKeeps,
     SetTargetKeeps
<1>3. ASSUME NEW g \in Goroutines,
             \E op \in {"Add", "Set", "Read"}, x \in Contexts,
                y \in Contexts \cup {NoContext} : Begin(g, op, x, y)
      PROVE  ContextInv'
  BY <1>3, BeginKeeps
<1>4. ASSUME NEW g \in Goroutines, TakeFd(g) \/ Dial(g) \/ Exec(g)
      PROVE  ContextInv'
  BY <1>4, TakeFdKeeps, DialKeeps, ExecKeeps
<1> QED
  BY <1>1, <1>2, <1>3, <1>4 DEF Next

THEOREM Inductive == Spec => []ContextInv
BY InitContext, StepKeeps, PTL DEF Spec

(* Types, in every reachable state.                                        *)
THEOREM ContextTypes == Spec => []TypeOK
<1>1. ContextInv => TypeOK
  BY DEF ContextInv
<1> QED
  BY <1>1, Inductive, PTL

(* Every descriptor in use has one owner: an open context, whose namespace *)
(* it denotes, or an exchange in progress.                                 *)
THEOREM AlwaysOneOwner == Spec => []OneOwner
<1>1. ContextInv => OneOwner
  BY DEF ContextInv
<1> QED
  BY <1>1, Inductive, PTL

-----------------------------------------------------------------------------
(* Where exchanges are made.                                               *)

(* The namespace that a number still current denotes.                      *)
LEMMA NumberDenotes ==
  ASSUME ContextInv, NEW x \in Contexts, opened[x] # Nowhere
  PROVE  NsOf(file[x]) = IF file[x] = Closed THEN {} ELSE {opened[x]}
<1>1. TypeOK /\ OneOwner /\ Opened
  BY DEF ContextInv
<1>2. CASE file[x] = 0
  BY <1>1, <1>2 DEF NsOf, Opened, Closed
<1>3. CASE file[x] = Closed
  BY <1>3 DEF NsOf, Closed
<1>4. CASE file[x] \notin {0, Closed}
  <2>1. file[x] \in Numbers
    BY <1>1, <1>4, MaxFdType DEF TypeOK, Numbers, Closed
  <2>2. fds[file[x]] = opened[x] /\ opened[x] \in Namespaces
    BY <1>1, <1>4, <2>1 DEF OneOwner, Opened, Open
  <2> QED
    BY <1>4, <2>2 DEF NsOf
<1> QED
  BY <1>2, <1>3, <1>4

(* A dialled exchange is in a namespace of its number.                     *)
LEMMA DialStep ==
  ASSUME ContextInv, Next, NEW g \in Goroutines, run[g].pc = "dial",
         run'[g].pc = "exec" \/ run'[g].ret = "EBADF"
  PROVE  \/ run'[g].pc = "exec" /\ run'[g].at \in NsOf(run[g].num)
            /\ run'[g].ret = "ok"
         \/ run'[g].pc = "idle" /\ run'[g].ret = "EBADF" /\ NsOf(run[g].num) = {}
<1>1. /\ run \in [Goroutines -> Run]
      /\ run[g].ret = "ok" /\ run[g] \in Run
  BY DEF ContextInv, TypeOK, Taken
<1>2. run'[g] # run[g]
  BY <1>1
<1>3. PICK h \in Goroutines :
        \/ \E op \in {"Add", "Set", "Read"}, x \in Contexts,
              y \in Contexts \cup {NoContext} : Begin(h, op, x, y)
        \/ TakeFd(h) \/ Dial(h) \/ Exec(h)
  BY <1>2 DEF Next, OpenContext, ZeroContext, Close, Drop, Collect, SetTarget
<1>4. h = g
  BY <1>1, <1>2, <1>3 DEF Begin, TakeFd, Dial, Exec, Return
<1>5. Dial(g)
  BY <1>3, <1>4 DEF Begin, TakeFd, Exec
<1>6. CASE NsOf(run[g].num) = {} /\ Return(g, "EBADF")
  BY <1>1, <1>6 DEF Return, NoRun
<1>7. CASE Return(g, "EMFILE")
  BY <1>1, <1>7 DEF Return, NoRun
<1>8. CASE \E s \in NsOf(run[g].num), n \in Lowest :
             run' = [run EXCEPT ![g].pc = "exec", ![g].at = s, ![g].sock = n]
  <2>1. PICK s \in NsOf(run[g].num), n \in Lowest :
             run' = [run EXCEPT ![g].pc = "exec", ![g].at = s, ![g].sock = n]
    BY <1>8
  <2>2. run'[g] = [run[g] EXCEPT !.pc = "exec", !.at = s, !.sock = n]
    BY <1>1, <2>1
  <2>3. run'[g].pc = "exec" /\ run'[g].at = s /\ run'[g].ret = "ok"
    BY <1>1, <2>2 DEF Run
  <2> QED
    BY <2>3
<1> QED
  BY <1>5, <1>6, <1>7, <1>8 DEF Dial

(* An exchange is made in the namespace its context was opened for, unless *)
(* the context was closed between ctx.Fd() and the entry.                  *)
THEOREM AlwaysRightNamespace == Spec => RightNamespace
<1>1. ASSUME ContextInv, Next, NEW g \in Goroutines,
             run[g].pc = "dial", run'[g].pc = "exec"
      PROVE  run'[g].at = opened[run[g].ctx] \/ ClosedSince(run[g], run[g].ctx)
  <2>1. Known(run[g].ctx) /\ Current(run[g], run[g].ctx, run[g].num)
    BY <1>1 DEF ContextInv, Opened, Taken
  <2>2. run'[g].at \in NsOf(run[g].num)
    BY <1>1, DialStep
  <2>3. run[g].num = file[run[g].ctx] => run'[g].at = opened[run[g].ctx]
    BY <1>1, <2>1, <2>2, NumberDenotes DEF Known
  <2> QED
    BY <2>1, <2>3 DEF Current
<1>2. ContextInv /\ [Next]_vars =>
        [\A g \in Goroutines :
           run[g].pc = "dial" /\ run'[g].pc = "exec" =>
             \/ run'[g].at = opened[run[g].ctx]
             \/ ClosedSince(run[g], run[g].ctx)]_vars
  BY <1>1
<1> QED
  BY <1>2, Inductive, PTL DEF Spec, RightNamespace

(* An exchange fails for want of a namespace only if its context is closed.*)
THEOREM AlwaysServes == Spec => OpenServes
<1>1. ASSUME ContextInv, Next, NEW g \in Goroutines,
             run[g].pc = "dial", run'[g].ret = "EBADF"
      PROVE  file[run[g].ctx] = Closed
  <2>1. Known(run[g].ctx) /\ Current(run[g], run[g].ctx, run[g].num)
    BY <1>1 DEF ContextInv, Opened, Taken
  <2>2. NsOf(run[g].num) = {}
    BY <1>1, DialStep
  <2>3. run[g].num = file[run[g].ctx] => file[run[g].ctx] = Closed
    BY <1>1, <2>1, <2>2, NumberDenotes DEF Known
  <2> QED
    BY <2>1, <2>3 DEF Current, ClosedSince
<1>2. ContextInv /\ [Next]_vars =>
        [\A g \in Goroutines :
           run[g].pc = "dial" /\ run'[g].ret = "EBADF" =>
             file[run[g].ctx] = Closed]_vars
  BY <1>1
<1> QED
  BY <1>2, Inductive, PTL DEF Spec, OpenServes

(* A link sent off lands in the namespace of the context of its number, if *)
(* that has a file and was not closed in between.                          *)
THEOREM AlwaysLands == Spec => LinkLands
<1>1. ASSUME ContextInv, Next, NEW g \in Goroutines, run[g].pc = "exec",
             run'[g].landed # Nowhere, run[g].nsCtx # NoContext,
             file[run[g].nsCtx] # 0
      PROVE  \/ run'[g].landed = opened[run[g].nsCtx]
             \/ ClosedSince(run[g], run[g].nsCtx)
  <2> DEFINE y == run[g].nsCtx
  <2>1. /\ Known(y) /\ run[g].landed = Nowhere
        /\ run[g].nsNum = file[y] \/ ClosedSince(run[g], y)
    BY <1>1 DEF ContextInv, Opened, Taken, Current
  <2>2. run[g] \in Run /\ run \in [Goroutines -> Run]
    BY <1>1 DEF ContextInv, TypeOK
  <2>3. run'[g] # run[g]
    BY <1>1, <2>1
  <2>4. PICK h \in Goroutines :
          \/ \E op \in {"Add", "Set", "Read"}, x \in Contexts,
                z \in Contexts \cup {NoContext} : Begin(h, op, x, z)
          \/ TakeFd(h) \/ Dial(h) \/ Exec(h)
    BY <1>1, <2>3 DEF Next, OpenContext, ZeroContext, Close, Drop, Collect,
                      SetTarget
  <2>5. h = g
    BY <2>2, <2>3, <2>4 DEF Begin, TakeFd, Dial, Exec, Return
  <2>6. Exec(g)
    BY <1>1, <2>4, <2>5 DEF Begin, TakeFd, Dial
  <2>7. ~Return(g, "other")
    BY <1>1, <2>2 DEF Return, NoRun
  <2>8. PICK s \in Lands(run[g]) :
          run' = [run EXCEPT ![g] =
            IF run[g].op = "Add" THEN ReadBack([run[g] EXCEPT !.landed = s])
                                 ELSE [NoRun EXCEPT !.landed = s]]
    BY <2>6, <2>7 DEF Exec
  <2>9. run'[g].landed = s
    <3>1. [run[g] EXCEPT !.landed = s].landed = s
      BY <2>2 DEF Run
    <3>2. ReadBack([run[g] EXCEPT !.landed = s]).landed = s
      BY <3>1, NoRunType DEF ReadBack, Run
    <3>3. [NoRun EXCEPT !.landed = s].landed = s
      BY DEF NoRun
    <3> QED
      BY <2>2, <2>8, <3>2, <3>3
  <2>10. CASE run[g].nsNum = file[y]
    <3>1. s \in NsOf(file[y])
      BY <1>1, <2>8, <2>10 DEF Lands
    <3> QED
      BY <1>1, <2>1, <2>9, <3>1, NumberDenotes DEF Known
  <2> QED
    BY <2>1, <2>10
<1>2. ContextInv /\ [Next]_vars =>
        [\A g \in Goroutines :
           LET y == run[g].nsCtx IN
           /\ run[g].pc = "exec" /\ run'[g].landed # Nowhere
           /\ y # NoContext /\ file[y] # 0
           => run'[g].landed = opened[y] \/ ClosedSince(run[g], y)]_vars
  BY <1>1
<1> QED
  BY <1>2, Inductive, PTL DEF Spec, LinkLands

-----------------------------------------------------------------------------
(* Contexts implement namespace handles.                                   *)

ClosedOnes == {x \in Contexts : file[x] = Closed}

Exchanges == [g \in Goroutines |-> Exchange(run[g])]

(* A step of one goroutine is one of its exchange.                         *)
LEMMA ExchangeStep ==
  ASSUME run \in [Goroutines -> Run], NEW g \in Goroutines, NEW r,
         run' = [run EXCEPT ![g] = r]
  PROVE  Exchanges' = [Exchanges EXCEPT ![g] = Exchange(r)]
BY DEF Exchanges

(* The contexts change, and no exchange.                                   *)
LEMMA LifeHandled ==
  ASSUME ContextInv, NEW x \in Contexts,
         \/ OpenContext(x) \/ ZeroContext(x) \/ Close(x) \/ Drop(x)
         \/ Collect(x) \/ \E y \in Contexts : SetTarget(x, y)
  PROVE  [Handles!HandleNext]_Handles!handleVars
<1>1. TypeOK /\ Opened /\ Exchanges' = Exchanges
  BY DEF ContextInv, OpenContext, ZeroContext, Close, Drop, Collect, SetTarget,
         Exchanges
<1>2. CASE OpenContext(x) \/ ZeroContext(x)
  <2>1. PICK s \in Namespaces : opened' = [opened EXCEPT ![x] = s]
    BY <1>2, ContextAssumption DEF OpenContext, ZeroContext
  <2>2. opened[x] = Nowhere
    BY <1>2 DEF OpenContext, ZeroContext
  <2>3. file[x] = 0
    BY <1>1, <2>2, ContextAssumption DEF Opened
  <2>4. ClosedOnes' = ClosedOnes
    <3>1. file' = file \/ \E n \in Numbers : file' = [file EXCEPT ![x] = n]
      BY <1>2 DEF OpenContext, ZeroContext, Lowest
    <3>2. \A n \in Numbers : n # Closed
      BY MaxFdType DEF Numbers, Closed
    <3>3. \A y \in Contexts : file'[y] = Closed <=> file[y] = Closed
      BY <1>1, <2>3, <3>1, <3>2 DEF TypeOK, Closed
    <3> QED
      BY <3>3 DEF ClosedOnes
  <2>5. Handles!Bind(x)
    BY <1>1, <2>1, <2>2, <2>4 DEF Handles!Bind, ClosedOnes, Exchanges
  <2> QED
    BY <2>5 DEF Handles!HandleNext
<1>3. CASE Close(x) \/ Collect(x)
  <2>1. PICK xs \in {{x}, WithTarget(x)} : Shut(xs)
    BY <1>3 DEF Close, Collect
  <2> DEFINE some == {y \in xs : Open(y)}
  <2>2. xs \subseteq Contexts /\ \E y : xs \subseteq {x, y}
    BY <2>1 DEF WithTarget
  <2>3. ClosedOnes' = ClosedOnes \cup some
    <3>1. \A y \in Contexts : file'[y] = IF y \in some THEN Closed ELSE file[y]
      BY <2>1 DEF Shut, Marked
    <3> HIDE DEF some
    <3>2. some \subseteq Contexts
      BY <2>2 DEF some
    <3> QED
      BY <3>1, <3>2 DEF ClosedOnes
  <2>4. opened' = opened
    BY <1>3 DEF Close, Collect
  <2>5. CASE some = {}
    BY <1>1, <2>3, <2>4, <2>5 DEF Handles!handleVars, ClosedOnes, Exchanges
  <2>6. CASE some # {}
    <3>1. PICK y \in Contexts, z \in Contexts : some = {y, z}
      BY <2>2, <2>6
    <3>2. \A v \in some : opened[v] # Nowhere
      <4>1. \A v \in Contexts : Open(v) => file[v] # 0
        BY MaxFdType DEF Open, Numbers
      <4> QED
        BY <1>1, <2>2, <4>1, ContextAssumption DEF Opened
    <3> HIDE DEF some
    <3>3. Handles!Shut(y, z)
      BY <1>1, <2>3, <2>4, <3>1, <3>2 DEF Handles!Shut, ClosedOnes, Exchanges
    <3> QED
      BY <3>3 DEF Handles!HandleNext
  <2> QED
    BY <2>5, <2>6
<1>4. CASE Drop(x) \/ \E y \in Contexts : SetTarget(x, y)
  <2>1. opened' = opened /\ file' = file
    BY <1>4 DEF Drop, SetTarget
  <2> QED
    BY <1>1, <2>1 DEF Handles!handleVars, ClosedOnes, Exchanges
<1> QED
  BY <1>2, <1>3, <1>4

(* An exchange goes on, and no context changes.                            *)
LEMMA MethodHandled ==
  ASSUME ContextInv, NEW g \in Goroutines,
         \/ \E op \in {"Add", "Set", "Read"}, x \in Contexts,
               y \in Contexts \cup {NoContext} : Begin(g, op, x, y)
         \/ TakeFd(g) \/ Dial(g) \/ Exec(g)
  PROVE  Handles!HandleNext
<1> DEFINE q == run[g]
<1>1. /\ run \in [Goroutines -> Run] /\ q \in Run /\ Fine(q)
      /\ file' = file /\ opened' = opened /\ Exchanges[g] = Exchange(q)
  BY RunsAreFine DEF ContextInv, TypeOK, Begin, TakeFd, Dial, Exec, Exchanges
<1> HIDE DEF q
<1>2. SUFFICES ASSUME NEW r, run' = [run EXCEPT ![g] = r],
                      \/ /\ q.pc \in {"idle", "exec"} /\ r.pc = "fd" /\ Known(r.ctx)
                      \/ /\ q.pc = "fd" /\ r.pc = "dial" /\ r.ctx = q.ctx
                         /\ r.num = Closed <=> file[q.ctx] = Closed
                      \/ /\ q.pc = "dial" /\ r.pc = "exec" /\ r.ctx = q.ctx
                         /\ q.num # Closed /\ r.at \in Namespaces
                         /\ r.at = opened[q.ctx] \/ file[q.ctx] = Closed
                      \/ q.pc \in {"dial", "exec"} /\ r.pc = "idle"
               PROVE  Handles!HandleNext
  <2>1. CASE \E op \in {"Add", "Set", "Read"}, x \in Contexts,
               y \in Contexts \cup {NoContext} : Begin(g, op, x, y)
    <3>1. PICK op \in {"Add", "Set", "Read"}, x \in Contexts,
               y \in Contexts \cup {NoContext} : Begin(g, op, x, y)
      BY <2>1
    <3> DEFINE n == IF y = NoContext THEN 0 ELSE Fd(y)
               l == IF y = NoContext THEN {} ELSE LateIf(y)
               r == [NoRun EXCEPT !.pc = "fd", !.op = op, !.ctx = x, !.nsCtx = y,
                                  !.nsNum = n, !.late = l]
    <3>2. run' = [run EXCEPT ![g] = r] /\ q.pc = "idle" /\ x \in held
      BY <3>1 DEF Begin, q
    <3>3. r.pc = "fd" /\ r.ctx = x
      <4> HIDE DEF n, l
      <4> QED
        BY DEF NoRun
    <3>4. Known(x)
      BY <3>2 DEF ContextInv, Opened
    <3> HIDE DEF r
    <3> QED
      BY <1>2, <3>2, <3>3, <3>4
  <2>2. CASE TakeFd(g)
    <3> DEFINE l == q.late \cup LateIf(q.ctx)
               r == [q EXCEPT !.pc = "dial", !.num = file[q.ctx], !.late = l]
    <3>1. q.pc = "fd" /\ run' = [run EXCEPT ![g].pc = "dial",
                                            ![g].num = file[q.ctx], ![g].late = l]
      BY <2>2 DEF TakeFd, Fd, q
    <3> HIDE DEF l
    <3>2. run' = [run EXCEPT ![g] = r]
      BY <1>1, <3>1 DEF q
    <3>3. r.pc = "dial" /\ r.ctx = q.ctx /\ r.num = file[q.ctx]
      BY <1>1 DEF Run
    <3> HIDE DEF r
    <3> QED
      BY <1>2, <3>1, <3>2, <3>3
  <2>3. CASE Dial(g)
    <3>1. q.pc = "dial" /\ Known(q.ctx) /\ Current(q, q.ctx, q.num)
      BY <1>1, <2>3 DEF Dial, Fine, q
    <3>2. CASE \E e : Return(g, e)
      <4>1. PICK e : run' = [run EXCEPT ![g] = [NoRun EXCEPT !.ret = e]]
        BY <3>2 DEF Return
      <4>2. [NoRun EXCEPT !.ret = e].pc = "idle"
        BY DEF NoRun
      <4> QED
        BY <1>2, <3>1, <4>1, <4>2
    <3>3. CASE \E s \in NsOf(q.num), n \in Lowest :
                 run' = [run EXCEPT ![g].pc = "exec", ![g].at = s, ![g].sock = n]
      <4>1. PICK s \in NsOf(q.num), n \in Lowest :
                 run' = [run EXCEPT ![g].pc = "exec", ![g].at = s, ![g].sock = n]
        BY <3>3
      <4> DEFINE r == [q EXCEPT !.pc = "exec", !.at = s, !.sock = n]
      <4>2. run' = [run EXCEPT ![g] = r]
        BY <1>1, <4>1 DEF q
      <4>3. r.pc = "exec" /\ r.ctx = q.ctx /\ r.at = s
        BY <1>1 DEF Run
      <4>4. q.num # Closed /\ s \in Namespaces
        BY <4>1, ContextAssumption DEF NsOf, Closed
      <4>5. s = opened[q.ctx] \/ file[q.ctx] = Closed
        <5>1. CASE q.num = file[q.ctx]
          BY <3>1, <4>1, <4>4, <5>1, NumberDenotes DEF Known
        <5> QED
          BY <3>1, <5>1 DEF Current, ClosedSince
      <4> HIDE DEF r
      <4> QED
        BY <1>2, <3>1, <4>2, <4>3, <4>4, <4>5
    <3> QED
      BY <2>3, <3>2, <3>3 DEF Dial, q
  <2>4. CASE Exec(g)
    <3>1. q.pc = "exec" /\ Known(q.ctx)
      BY <1>1, <2>4 DEF Exec, Fine, q
    <3>2. CASE Return(g, "other")
      <4>1. run' = [run EXCEPT ![g] = [NoRun EXCEPT !.ret = "other"]]
        BY <3>2 DEF Return
      <4>2. [NoRun EXCEPT !.ret = "other"].pc = "idle"
        BY DEF NoRun
      <4> QED
        BY <1>2, <3>1, <4>1, <4>2
    <3>3. ASSUME NEW s \in Lands(q),
                 run' = [run EXCEPT ![g] =
                   IF q.op = "Add" THEN ReadBack([q EXCEPT !.landed = s])
                                   ELSE [NoRun EXCEPT !.landed = s]]
          PROVE  Handles!HandleNext
      <4>1. CASE q.op = "Add"
        <5> DEFINE r == ReadBack([q EXCEPT !.landed = s])
        <5>1. s \in Namespaces \cup {Nowhere}
          BY <1>1, <3>3, ContextAssumption DEF Lands, NsOf, Run
        <5>2. Fine(r) /\ r.pc = "fd"
          BY <1>1, <3>1, <5>1, ReadBackFine
        <5>3. run' = [run EXCEPT ![g] = r]
          BY <3>3, <4>1
        <5>4. Known(r.ctx)
          <6> HIDE DEF r
          <6> QED
            BY <5>2 DEF Fine
        <5> HIDE DEF r
        <5> QED
          BY <1>2, <3>1, <5>2, <5>3, <5>4
      <4>2. CASE q.op # "Add"
        <5>1. [NoRun EXCEPT !.landed = s].pc = "idle"
          BY DEF NoRun
        <5>2. run' = [run EXCEPT ![g] = [NoRun EXCEPT !.landed = s]]
          BY <3>3, <4>2
        <5> QED
          BY <1>2, <3>1, <5>1, <5>2
      <4> QED
        BY <4>1, <4>2
    <3> QED
      BY <2>4, <3>2, <3>3 DEF Exec, q
  <2> QED
    BY <2>1, <2>2, <2>3, <2>4
<1>3. /\ Exchanges' = [Exchanges EXCEPT ![g] = Exchange(r)]
      /\ ClosedOnes' = ClosedOnes /\ opened' = opened
  BY <1>1, <1>2, ExchangeStep DEF ClosedOnes
<1>4. q.pc # "idle" => q.ctx \in Contexts
  BY <1>1 DEF Fine, Known
<1>5. CASE q.pc \in {"idle", "exec"} /\ r.pc = "fd" /\ Known(r.ctx)
  <2>1. Exchange(r) = Handles!At("begun", r.ctx, Nowhere)
    BY <1>5 DEF Exchange, Handles!At
  <2>2. Exchanges[g].what \in {"nothing", "inside"}
    BY <1>1, <1>5 DEF Exchange
  <2>3. Handles!Begin(g, r.ctx)
    BY <1>3, <1>5, <2>1, <2>2
    DEF Handles!Begin, Handles!Goes, Known, Exchanges, ClosedOnes
  <2> QED
    BY <1>5, <2>3 DEF Handles!HandleNext, Known
<1>6. CASE /\ q.pc = "fd" /\ r.pc = "dial" /\ r.ctx = q.ctx
           /\ r.num = Closed <=> file[q.ctx] = Closed
  <2>1. Exchanges[g].what = "begun" /\ Exchanges[g].ctx = q.ctx
    BY <1>1, <1>6 DEF Exchange
  <2>2. Exchange(r) = Handles!At(IF q.ctx \in ClosedOnes THEN "refused" ELSE "seen",
                                 q.ctx, Nowhere)
    BY <1>4, <1>6 DEF Exchange, Handles!At, ClosedOnes
  <2>3. Handles!Look(g)
    BY <1>3, <2>1, <2>2 DEF Handles!Look, Handles!Goes, Exchanges, ClosedOnes
  <2> QED
    BY <2>3 DEF Handles!HandleNext
<1>7. CASE /\ q.pc = "dial" /\ r.pc = "exec" /\ r.ctx = q.ctx
           /\ q.num # Closed /\ r.at \in Namespaces
           /\ r.at = opened[q.ctx] \/ file[q.ctx] = Closed
  <2>1. Exchanges[g].what = "seen" /\ Exchanges[g].ctx = q.ctx
    BY <1>1, <1>7 DEF Exchange
  <2>2. Exchange(r) = Handles!At("inside", q.ctx, r.at)
    BY <1>7 DEF Exchange, Handles!At
  <2>3. r.at = opened[q.ctx] \/ q.ctx \in ClosedOnes
    BY <1>4, <1>7 DEF ClosedOnes
  <2>4. Handles!Enter(g, r.at)
    BY <1>3, <2>1, <2>2, <2>3 DEF Handles!Enter, Handles!Goes, Exchanges, ClosedOnes
  <2> QED
    BY <1>7, <2>4 DEF Handles!HandleNext
<1>8. CASE q.pc \in {"dial", "exec"} /\ r.pc = "idle"
  <2>1. Exchanges[g].what \in {"refused", "seen", "inside"}
    BY <1>1, <1>8 DEF Exchange
  <2>2. Exchange(r) = Handles!Nothing
    BY <1>8 DEF Exchange, Handles!Nothing, Handles!At
  <2>3. Handles!End(g)
    BY <1>3, <2>1, <2>2 DEF Handles!End, Handles!Goes, Exchanges, ClosedOnes
  <2> QED
    BY <2>3 DEF Handles!HandleNext
<1> QED
  BY <1>2, <1>5, <1>6, <1>7, <1>8

LEMMA StepHandled ==
  ContextInv /\ [Next]_vars => [Handles!HandleNext]_Handles!handleVars
<1> SUFFICES ASSUME ContextInv, [Next]_vars
             PROVE  [Handles!HandleNext]_Handles!handleVars
  OBVIOUS
<1>1. CASE UNCHANGED vars
  BY <1>1 DEF vars, Handles!handleVars
<1>2. CASE Next
  BY <1>2, LifeHandled, MethodHandled DEF Next
<1> QED
  BY <1>1, <1>2

(* A context is a handle for its namespace: bound once, closed for good,   *)
(* and an exchange of one that stays open is made nowhere else, for any    *)
(* number of goroutines, contexts and descriptors.                         *)
THEOREM ContextsAreHandles == Spec => ImplementsHandles
<1>1. Init => Handles!HandleInit
  <2> SUFFICES ASSUME Init PROVE Handles!HandleInit
    OBVIOUS
  <2>1. ClosedOnes = {}
    BY DEF Init, ClosedOnes, Closed
  <2>2. Exchanges = [g \in Goroutines |-> Handles!Nothing]
    BY DEF Init, Exchanges, Exchange, NoRun, Handles!Nothing, Handles!At
  <2> QED
    BY <2>1, <2>2 DEF Init, Handles!HandleInit, ClosedOnes, Exchanges
<1> QED
  BY <1>1, InitContext, StepKeeps, StepHandled, PTL
  DEF Spec, ImplementsHandles, Handles!HandleSpec
=============================================================================
