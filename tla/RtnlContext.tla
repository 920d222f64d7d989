------------------------------ MODULE RtnlContext ------------------------------
(***************************************************************************)
(* Contexts (src/rtnetlink.go): one process whose goroutines open and      *)
(* close contexts and make exchanges in the namespaces these are for.      *)
(*                                                                         *)
(* A context is the number of a descriptor for a namespace.  Numbers are   *)
(* taken out of it with Fd() and used later: by netlink.Dial, which enters *)
(* the namespace of that number, and by the kernel, which finds the        *)
(* namespace of Info.Ns.  In between the descriptor may be closed, by      *)
(* another goroutine or by the garbage collector, and the number may be    *)
(* given to something else.                                                *)
(***************************************************************************)
EXTENDS Integers, FiniteSets

CONSTANTS
  Goroutines,
  Contexts,    \* the *Context values
  NoContext,   \* nil
  Namespaces,  \* namespaces with a file
  Host,        \* the namespace the process runs in
  Nowhere,     \* no namespace
  MaxFd        \* bound: the most descriptors the process may have open

ASSUME ContextAssumption ==
  /\ MaxFd \in Nat
  /\ NoContext \notin Contexts
  /\ Host \in Namespaces /\ Nowhere \notin Namespaces
  /\ {"free", "socket"} \cap Namespaces = {}

VARIABLES
  fds,     \* the descriptor table: what each number denotes
  file,    \* file[x]: Context.f: 0 for nil, Closed, or its number
  opened,  \* history: the namespace x was opened for
  target,  \* target[x]: Context.Target
  held,    \* the contexts that the program can still reach by itself
  run      \* run[g]: the method goroutine g is in

vars == <<fds, file, opened, target, held, run>>

Closed == -1   \* what os.File.Fd returns after Close

Numbers == 1 .. MaxFd   \* descriptors but 0, 1 and 2

(* Of a method: its context and that of Info.Ns; the numbers taken out of  *)
(* them, and (history) which were closed already; its socket and the       *)
(* namespace of that; and where its link has landed, for the step that     *)
(* makes the exchange.                                                     *)
Run == [pc : {"idle", "fd", "dial", "exec"},
        op : {"none", "Add", "Set", "Read"},
        ctx : Contexts \cup {NoContext}, num : Closed .. MaxFd,
        nsCtx : Contexts \cup {NoContext}, nsNum : Closed .. MaxFd,
        late : SUBSET Contexts, sock : 0 .. MaxFd,
        at : Namespaces \cup {Nowhere}, landed : Namespaces \cup {Nowhere},
        ret : {"ok", "EBADF", "EMFILE", "other"}]

NoRun == [pc |-> "idle", op |-> "none", ctx |-> NoContext, num |-> 0,
          nsCtx |-> NoContext, nsNum |-> 0, late |-> {}, sock |-> 0,
          at |-> Nowhere, landed |-> Nowhere, ret |-> "ok"]

(* Types; a method that is running has a context.                          *)
TypeOK ==
  /\ fds \in [Numbers -> Namespaces \cup {"free", "socket"}]
  /\ file \in [Contexts -> Closed .. MaxFd]
  /\ opened \in [Contexts -> Namespaces \cup {Nowhere}]
  /\ target \in [Contexts -> Contexts \cup {NoContext}]
  /\ held \subseteq Contexts
  /\ run \in [Goroutines -> Run]
  /\ \A g \in Goroutines : run[g].pc # "idle" => run[g].ctx \in Contexts

-----------------------------------------------------------------------------
(* Descriptors: open(2) gives the lowest free number.                      *)

Lowest == {n \in Numbers : /\ fds[n] = "free"
                           /\ \A m \in 1 .. n - 1 : fds[m] # "free"}

Open(x) == file[x] \in Numbers

Frees(numbers) == [n \in Numbers |-> IF n \in numbers THEN "free" ELSE fds[n]]

-----------------------------------------------------------------------------
(* The life of a context.                                                  *)

(* OpenContext and OpenDefaultContext: a namespace file is opened.         *)
OpenContext(x) ==
  /\ opened[x] = Nowhere
  /\ \E n \in Lowest, s \in Namespaces :
       /\ fds' = [fds EXCEPT ![n] = s]
       /\ file' = [file EXCEPT ![x] = n]
       /\ opened' = [opened EXCEPT ![x] = s]
  /\ held' = held \cup {x}
  /\ UNCHANGED <<target, run>>

(* &Context{}: without a file a context is for where the process is.       *)
ZeroContext(x) ==
  /\ opened[x] = Nowhere
  /\ opened' = [opened EXCEPT ![x] = Host]
  /\ held' = held \cup {x}
  /\ UNCHANGED <<fds, file, target, run>>

(* ctx.Target = y.  Bound: a target has no target.                         *)
SetTarget(x, y) ==
  /\ x \in held /\ y \in held \ {x}
  /\ target[y] = NoContext /\ \A z \in Contexts : target[z] # x
  /\ target[x] # y /\ target' = [target EXCEPT ![x] = y]
  /\ UNCHANGED <<fds, file, opened, held, run>>

(* What closing x closes.                                                  *)
WithTarget(x) == {x, target[x]} \cap Contexts

(* Mutant: the file is closed and x keeps its number.                      *)
Forgets(xs) == file

(* os.File remembers that it is closed: closing it again does nothing.     *)
Marked(xs) ==
  [y \in Contexts |-> IF y \in xs /\ Open(y) THEN Closed ELSE file[y]]

Shut(xs) == /\ fds' = Frees({file[y] : y \in {z \in xs : Open(z)}})
            /\ file' = Marked(xs)

Close(x) ==
  /\ x \in held
  /\ Shut(WithTarget(x))
  /\ UNCHANGED <<opened, target, held, run>>

(* The program forgets x without closing it.                               *)
Drop(x) ==
  /\ x \in held
  /\ held' = held \ {x}
  /\ UNCHANGED <<fds, file, opened, target, run>>

(* A method needs its context until it has taken the number, and after     *)
(* that if something is left to do with the context: an Add reads, and a   *)
(* ReadLinks decodes with it.  netlinkUpdate alone does not keep it alive. *)
Needs(r) == IF r.pc = "fd" \/ (r.pc \in {"dial", "exec"} /\ r.op \in {"Add", "Read"})
            THEN {r.ctx} ELSE {}

Roots == held \cup UNION {Needs(run[g]) : g \in Goroutines}

Reachable == Roots \cup {target[x] : x \in Roots}

(* The finalizer of the os.File of a context nobody can reach.             *)
Collect(x) ==
  /\ x \notin Reachable /\ Open(x)
  /\ Shut({x})
  /\ UNCHANGED <<opened, target, held, run>>

-----------------------------------------------------------------------------
(* Methods.                                                                *)

(* Mutant: a closed context gives 0, like one without a file.              *)
ZeroWhenClosed(x) == IF file[x] = Closed THEN 0 ELSE file[x]

(* Context.Fd                                                              *)
Fd(x) == file[x]

LateIf(x) == IF file[x] = Closed THEN {x} ELSE {}

(* Any method begins: Add and Present, Set (or Del, or another method of   *)
(* one netlinkUpdate), Read.  The caller fills in Info.Ns.                 *)
Begin(g, op, x, y) ==
  /\ run[g].pc = "idle"
  /\ x \in held /\ y \in held \cup {NoContext}
  /\ op = "Read" => y = NoContext
  /\ run' = [run EXCEPT ![g] =
       [NoRun EXCEPT !.pc = "fd", !.op = op, !.ctx = x, !.nsCtx = y,
                     !.nsNum = IF y = NoContext THEN 0 ELSE Fd(y),
                     !.late = IF y = NoContext THEN {} ELSE LateIf(y)]]
  /\ UNCHANGED <<fds, file, opened, target, held>>

(* ctx.Fd(), the first argument of withNsNetlink                           *)
TakeFd(g) ==
  /\ run[g].pc = "fd"
  /\ run' = [run EXCEPT ![g].pc = "dial", ![g].num = Fd(run[g].ctx),
                        ![g].late = @ \cup LateIf(run[g].ctx)]
  /\ UNCHANGED <<fds, file, opened, target, held>>

Return(g, e) == run' = [run EXCEPT ![g] = [NoRun EXCEPT !.ret = e]]

(* The namespace a number denotes; 0 stands for where the process is.      *)
NsOf(n) == IF n = 0 THEN {Host}
           ELSE IF n = Closed THEN {} ELSE {fds[n]} \cap Namespaces

(* netlink.Dial: enter the namespace and open a socket.                    *)
Dial(g) ==
  /\ run[g].pc = "dial"
  /\ \/ /\ NsOf(run[g].num) = {}
        /\ Return(g, "EBADF") /\ UNCHANGED fds
     \/ /\ NsOf(run[g].num) # {} /\ Lowest = {}
        /\ Return(g, "EMFILE") /\ UNCHANGED fds
     \/ \E s \in NsOf(run[g].num), n \in Lowest :
          /\ fds' = [fds EXCEPT ![n] = "socket"]
          /\ run' = [run EXCEPT ![g].pc = "exec", ![g].at = s, ![g].sock = n]
  /\ UNCHANGED <<file, opened, target, held>>

(* Where the kernel puts the link of a message: IFLA_NET_NS_FD is left out *)
(* if it is zero.                                                          *)
Lands(r) == IF r.nsNum = 0 THEN {r.at} ELSE NsOf(r.nsNum)

(* Mutant: the socket is closed only after success.                        *)
LeavesSocket(r, e) == IF e = "ok" THEN {r.sock} ELSE {}

(* defer conn.Close()                                                      *)
Leaves(r, e) == {r.sock}

(* Mutant: Add does not look whether there is a target.                    *)
AnyTarget(x) == target[x]

(* Where Add and Present read: in the target if there is one               *)
ReadIn(x) == IF target[x] # NoContext THEN target[x] ELSE x

ReadBack(r) == [NoRun EXCEPT !.pc = "fd", !.op = "Read", !.landed = r.landed,
                             !.ctx = ReadIn(r.ctx)]

(* conn.Execute; the kernel may refuse the message for other reasons.      *)
Exec(g) ==
  LET r == run[g] IN
  /\ r.pc = "exec"
  /\ \/ /\ fds' = Frees(Leaves(r, "other"))
        /\ Return(g, "other")
     \/ \E s \in Lands(r) :
          /\ fds' = Frees(Leaves(r, "ok"))
          /\ run' = [run EXCEPT ![g] =
               IF r.op = "Add" THEN ReadBack([r EXCEPT !.landed = s])
                               ELSE [NoRun EXCEPT !.landed = s]]
  /\ UNCHANGED <<file, opened, target, held>>

-----------------------------------------------------------------------------
Init ==
  /\ fds = [n \in Numbers |-> "free"]
  /\ file = [x \in Contexts |-> 0]
  /\ opened = [x \in Contexts |-> Nowhere]
  /\ target = [x \in Contexts |-> NoContext]
  /\ held = {}
  /\ run = [g \in Goroutines |-> NoRun]

Next ==
  \/ \E x \in Contexts : \/ OpenContext(x) \/ ZeroContext(x) \/ Close(x)
                         \/ Drop(x) \/ Collect(x)
                         \/ \E y \in Contexts : SetTarget(x, y)
  \/ \E g \in Goroutines :
       \/ \E op \in {"Add", "Set", "Read"}, x \in Contexts,
             y \in Contexts \cup {NoContext} : Begin(g, op, x, y)
       \/ TakeFd(g) \/ Dial(g) \/ Exec(g)

Spec == Init /\ [][Next]_vars

-----------------------------------------------------------------------------
(* Properties.                                                             *)

Sockets == {run[g].sock : g \in {h \in Goroutines : run[h].pc = "exec"}}

(* Every descriptor in use belongs to one open context, and denotes the    *)
(* namespace that was opened for, or to one exchange in progress: nothing  *)
(* is closed twice, no open context loses its namespace to another's       *)
(* Close, and exchanges leave no descriptors behind.                       *)
OneOwner ==
  /\ \A x, y \in Contexts : Open(x) /\ file[x] = file[y] => x = y
  /\ \A x \in Contexts : Open(x) => fds[file[x]] = opened[x]
  /\ \A n \in Numbers : fds[n] # "free" =>
       (\E x \in Contexts : file[x] = n) \/ n \in Sockets

(* The number of x was taken while x was open and x has been closed since. *)
ClosedSince(r, x) == file[x] = Closed /\ x \notin r.late

(* An exchange is made in the namespace its context was opened for, unless *)
(* the context was closed (or collected) between ctx.Fd() and the entry:   *)
(* then the number may denote any other.  In particular a context that was *)
(* closed before is never used.                                            *)
RightNamespace ==
  [][\A g \in Goroutines :
       run[g].pc = "dial" /\ run'[g].pc = "exec" =>
         \/ run'[g].at = opened[run[g].ctx]
         \/ ClosedSince(run[g], run[g].ctx)]_vars

(* An exchange fails for want of a namespace only if its context is        *)
(* closed: Close of another context, which may have shared the number or   *)
(* the target earlier, does no harm to one that is open.                   *)
OpenServes ==
  [][\A g \in Goroutines :
       run[g].pc = "dial" /\ run'[g].ret = "EBADF" =>
         file[run[g].ctx] = Closed]_vars

(* A link sent off with Info.Ns lands in the namespace of the context the  *)
(* number came from, if that has a file and was not closed in between.     *)
LinkLands ==
  [][\A g \in Goroutines :
       LET y == run[g].nsCtx IN
       /\ run[g].pc = "exec" /\ run'[g].landed # Nowhere
       /\ y # NoContext /\ file[y] # 0
       => run'[g].landed = opened[y] \/ ClosedSince(run[g], y)]_vars
=============================================================================
