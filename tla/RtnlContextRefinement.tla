------------------------ MODULE RtnlContextRefinement ------------------------
(* RtnlContext implements NamespaceHandles: a context is as good as the    *)
(* namespace it stands for, although it is a bare number.                  *)
EXTENDS RtnlContext

(* The exchange a method is in.                                            *)
Exchange(r) ==
  CASE r.pc = "idle" -> [what |-> "nothing", ctx |-> NoContext, at |-> Nowhere]
    [] r.pc = "fd" -> [what |-> "begun", ctx |-> r.ctx, at |-> Nowhere]
    [] r.pc = "dial" -> [what |-> IF r.num = Closed THEN "refused" ELSE "seen",
                         ctx |-> r.ctx, at |-> Nowhere]
    [] r.pc = "exec" -> [what |-> "inside", ctx |-> r.ctx, at |-> r.at]

Handles == INSTANCE NamespaceHandles WITH
  bound <- opened,
  closed <- {x \in Contexts : file[x] = Closed},
  doing <- [g \in Goroutines |-> Exchange(run[g])]

(* A context is for one namespace from OpenContext on, and closed for good *)
(* once it is closed, itself, as a target or by its finalizer; a method of *)
(* a closed context makes no exchange, and one of an open context makes it *)
(* in its namespace, whatever numbers the descriptors of the others get    *)
(* (rtnetlink.go:21-64, 104-149).                                          *)
ImplementsHandles == Handles!HandleSpec
=============================================================================
