-------------------------- MODULE RtnlLinkRefinement --------------------------
(* RtnlLink implements LinkDirectory where links keep their name and their *)
(* namespace and every object has a name: Homed clients, no Moves, no      *)
(* GetLinkByIndex.                                                         *)
EXTENDS RtnlLink

(* The entries a link object stands for: its own and its veth peer's.      *)
Inserts(c) ==
  {<<Destination(call[c].ns, obj[c]), obj[c].name>>}
  \cup (IF obj[c].kind = "veth" /\ obj[c].peer # NoName
         THEN {<<call[c].ns, obj[c].peer>>} ELSE {})

PhaseOf(c) ==
  IF pc[c] = "idle" THEN [what |-> "idle", entries |-> {}]
  ELSE IF pc[c] = "modify" /\ call[c].op \in {"Add", "Present"}
  THEN [what |-> "insert", entries |-> Inserts(c)]
  ELSE IF pc[c] = "modify" /\ call[c].op \in {"Del", "Absent"}
  THEN [what |-> "remove", entries |-> {<<call[c].ns, obj[c].name>>}]
  ELSE [what |-> "served", entries |-> {}]

Directory == INSTANCE LinkDirectory WITH
  dir <- {<<d.ns, d.name>> : d \in links},
  phase <- [c \in Clients |-> PhaseOf(c)]

(* Every call has its effect on the set of existing links at most once, in *)
(* one step, on the entries its object names, and Add and Present never    *)
(* replace or alter a link that exists (link.go:773-779, NLM_F_EXCL).      *)
ImplementsDirectory == Directory!DirSpec
=============================================================================
