--------------------------- MODULE NamespaceHandles ---------------------------
(***************************************************************************)
(* What a context promises, with descriptor numbers left out: a handle for *)
(* one namespace, given once and closed for good once.  An exchange begins *)
(* with a context, then looks whether the context is open, and only if it  *)
(* was does it go on into a namespace: that of its context, and into       *)
(* another only if the context has been closed since it looked.            *)
(***************************************************************************)
CONSTANTS Goroutines, Contexts, NoContext, Namespaces, Nowhere

VARIABLES
  bound,    \* bound[x]: the namespace x is for, Nowhere until it is given one
  closed,   \* the contexts that have been closed
  doing     \* doing[g]: how far the exchange of goroutine g has come

handleVars == <<bound, closed, doing>>

(* "seen": the context was open when the exchange looked.                  *)
At(what, x, s) == [what |-> what, ctx |-> x, at |-> s]

Nothing == At("nothing", NoContext, Nowhere)

HandleInit == /\ bound = [x \in Contexts |-> Nowhere]
              /\ closed = {}
              /\ doing = [g \in Goroutines |-> Nothing]

Bind(x) ==
  /\ bound[x] = Nowhere
  /\ \E s \in Namespaces : bound' = [bound EXCEPT ![x] = s]
  /\ UNCHANGED <<closed, doing>>

(* A context and, with Close, its target.                                  *)
Shut(x, y) ==
  /\ bound[x] # Nowhere /\ bound[y] # Nowhere
  /\ closed' = closed \cup {x, y}
  /\ UNCHANGED <<bound, doing>>

Goes(g, d) == doing' = [doing EXCEPT ![g] = d] /\ UNCHANGED <<bound, closed>>

(* An exchange, or the one that follows it: the Read of an Add.            *)
Begin(g, x) ==
  /\ doing[g].what \in {"nothing", "inside"}
  /\ bound[x] # Nowhere
  /\ Goes(g, At("begun", x, Nowhere))

Look(g) ==
  /\ doing[g].what = "begun"
  /\ Goes(g, At(IF doing[g].ctx \in closed THEN "refused" ELSE "seen",
                doing[g].ctx, Nowhere))

Enter(g, s) ==
  /\ doing[g].what = "seen"
  /\ s = bound[doing[g].ctx] \/ doing[g].ctx \in closed
  /\ Goes(g, At("inside", doing[g].ctx, s))

End(g) == doing[g].what \in {"refused", "seen", "inside"} /\ Goes(g, Nothing)

HandleNext ==
  \/ \E x \in Contexts : Bind(x)
  \/ \E x, y \in Contexts : Shut(x, y)
  \/ \E g \in Goroutines : \/ \E x \in Contexts : Begin(g, x)
                           \/ \E s \in Namespaces : Enter(g, s)
                           \/ Look(g) \/ End(g)

HandleSpec == HandleInit /\ [][HandleNext]_handleVars
=============================================================================
