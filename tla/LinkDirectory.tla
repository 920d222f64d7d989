---------------------------- MODULE LinkDirectory ----------------------------
(***************************************************************************)
(* What the link methods promise, with indices, flags and Reads left out:  *)
(* a directory of names per namespace.  A call takes effect at most once,  *)
(* in one atomic step between its invocation and its return: Add and       *)
(* Present insert the entries they name, all of them or none, and never    *)
(* over an existing entry; Del and Absent remove the entry they name, with *)
(* at most one other, its veth peer; nothing else changes the directory.   *)
(***************************************************************************)
CONSTANTS Clients, Namespaces, Names

VARIABLES
  dir,     \* the <<namespace, name>> pairs that exist
  phase    \* what the call of each client may still do, and to which entries

dirVars == <<dir, phase>>

Entries == Namespaces \X Names

(* "served": the call has had its effect, or has none.                     *)
Phase == [what : {"idle", "insert", "remove", "served"},
          entries : SUBSET Entries]

Idle == [what |-> "idle", entries |-> {}]
Served == [what |-> "served", entries |-> {}]

DirInit == dir = {} /\ phase = [c \in Clients |-> Idle]

Begin(c) ==
  /\ phase[c] = Idle
  /\ \E p \in Phase :
       /\ p.what \in {"idle", "served"} => p.entries = {}
       /\ phase' = [phase EXCEPT ![c] = p]
  /\ UNCHANGED dir

Ends(c) == \E p \in {Idle, Served} : phase' = [phase EXCEPT ![c] = p]

Insert(c) ==
  /\ phase[c].what = "insert"
  /\ phase[c].entries \cap dir = {}
  /\ dir' = dir \cup phase[c].entries
  /\ Ends(c)

Remove(c) ==
  /\ phase[c].what = "remove"
  /\ phase[c].entries \subseteq dir
  /\ \E peer \in {{}} \cup {{e} : e \in dir} :
       dir' = dir \ (phase[c].entries \cup peer)
  /\ Ends(c)

(* The call returns, or goes on without effect.                            *)
End(c) == phase[c] # Idle /\ Ends(c) /\ UNCHANGED dir

DirNext == \E c \in Clients : Begin(c) \/ Insert(c) \/ Remove(c) \/ End(c)

DirSpec == DirInit /\ [][DirNext]_dirVars
=============================================================================
