# A formal model of rtnl

`rtnl` is a Go library that manages Linux network objects (links, addresses,
rules, routes) over rtnetlink, with a small command line, `nl`.  This directory
holds a TLA+ model of it: what its methods do, exchange by exchange, while other
goroutines, other processes and the kernel do something else in between.  TLC
checks the properties on small instances; TLAPS proves them for every instance.

## 1. The system

The library keeps no state of its own.  What state there is lives in the *objects*
of its callers (`*Link`, `*Rule`, `*Address`, `*Route`), in the kernel, and in the
descriptors of a `*Context`.  A method copies its object into one or more netlink
messages, and a `Read` copies the answer back over the object.  Every exchange
opens a socket of its own (`withNsNetlink`), so that a method is a sequence of
atomic kernel operations with gaps in between; there is no lock, no transaction
and no retry.  This is where its behaviour is hard to see and to test:

* an object is a **cache** of the kernel's state: its ifindex, its flags and its
  VLAN lists may be stale when they are sent back;
* methods that **read, decide and write** (`Up`, `Down`, `SetMtu`, `SetMaster`,
  `SetVlan`, the read-back of `Add` and `Present`) run against other clients, and so
  do the commands of `nl`, which look a link up and act on it in later calls;
* an answer can be **lost** after the kernel has made the change, and a batch of
  messages can **fail half way** (`AddAddrs`);
* the kernel picks the object by **index or by name**, and takes fields that are
  left out for "all" or "any" in some messages (flags without a change mask,
  `DELRULE`, `DELROUTE`);
* objects carry **state from one call to the next** (`Msg.Change`, `Msg.Index`,
  `Hdr.Table`);
* a context hands out the **bare number of a descriptor**, which may be closed, and
  used again for something else, before it is used.

### Components

| Component | Source | State | Operations | What makes it correct |
|---|---|---|---|---|
| links | `src/link.go` | `Link`: index, flags, change mask, `Info` | `Add Present Set Del Absent Up Down Promisc SetMtu SetMaster Read GetLink GetLinkByIndex` | a call changes the link it names and no other, and only the field it is about; a stale index does no harm; nil means done |
| VLANs of bridge ports | `src/link.go` 793-923 | the lists `Untagged`, `Tagged` | `SetVlan SetTagged SetUntagged`, `Read` in family `AF_BRIDGE` | nil means the VLAN is as asked; other VLANs and devices are left alone |
| netlink exchanges | `src/rtnetlink.go` | `Context`: a namespace descriptor and a target | `OpenContext OpenDefaultContext Close Fd withNsNetlink netlinkUpdate` | descriptors are not lost or closed twice; an exchange is made in the namespace of its context; messages go out in order until the first error |
| rules | `src/rule.go` | `Rule` | `Add Present Del Absent ReadRules` | `Present` is idempotent; no rule is doubled; `Del` takes only what fits |
| addresses | `src/addr.go` | `Address` | `AddAddr AddAddrs ReadAddrs ParseAddr`, `Link.AddAddr`, `Link.Addrs` | a list is added up to the first error |
| routes | `src/route.go` | `Route`: header, destination, gateway, device, table | `Add Present Del Absent ReadRoutes` | `Present` keeps what is there; `Del` takes one route that fits; what is read back goes to the same table |
| veth | `src/veth.go` | `Veth`: name of the peer | `Marshal Unmarshal ResolvePeer` | the pair comes and goes together |
| kinds of links | `src/{bridge,vxlan,macvlan,vrf,wireguard,tuntap,loopback}.go` | attributes | `Marshal Unmarshal Satisfies Resolve` | a message says which kind it is about |
| neighbours | `src/neighbor.go` | none | not exported, not called | |
| nl | `src/cmd/nl/` | a command: the index it has looked up, the rows it still shows | `list add delete up down mtu`, `vrf`, `route`, `rule`, `set/unset vlan`, `macvlan` | exit status 0 means done; a command acts on what it has looked up; it ends |
| helpers | `src/{errors,spec,util}.go` | none | string and byte helpers | |

Objects call the kinds through the `Attributes` interface (`Link.Attributes`,
`link.go:614`), `Link.AddAddr` calls `AddAddrs`, and everything that writes ends in
`netlinkUpdate`.  Clients share nothing but the kernel and their contexts.

## 2. The modules

| Module | What it is |
|---|---|
| `RtnlKernel` | the rtnetlink side of Linux for links (external): `RTM_NEWLINK`, `RTM_SETLINK`, `RTM_DELLINK` as relations between states |
| `RtnlLink` | clients that call the methods of `Link`; EXTENDS `RtnlKernel` |
| `LinkDirectory` | the abstract specification: a directory of names per namespace in which a call takes effect at most once |
| `RtnlLinkRefinement` | `RtnlLink` implements `LinkDirectory`: the refinement mapping |
| `RtnlCommands` | processes that run the link and vrf commands of `nl`; EXTENDS `RtnlLink`, whose clients they are |
| `RtnlVlan` | `SetVlan` against other clients and other programs |
| `AtomicVlan` | the abstract specification: `SetVlan` as if it were one step |
| `RtnlVlanRefinement` | `RtnlVlan` implements `AtomicVlan`: the refinement mapping |
| `RtnlRecords` | rules and addresses through `netlinkUpdate` |
| `RtnlRoute` | routes and `nl route`, against devices and other programs |
| `RtnlContext` | contexts, their descriptors and the exchanges made with them |
| `NamespaceHandles` | the abstract specification: a handle for one namespace, given once and closed once, with no numbers |
| `RtnlContextRefinement` | `RtnlContext` implements `NamespaceHandles`: the refinement mapping |
| `RtnlLinkProofs` | types of `RtnlLink`, and the agreement of indices and names |
| `RtnlLinkEffects` | what a message changes; EXTENDS `RtnlLinkProofs` |
| `RtnlLinkRefinementProofs` | the refinement; EXTENDS `RtnlLinkEffects` |
| `RtnlCommandsProofs` | the commands; EXTENDS `RtnlLinkRefinementProofs` |
| `RtnlVlanProofs`, `RtnlRecordsProofs`, `RtnlRouteProofs`, `RtnlContextProofs` | proofs about each |
| `MCRtnl...` | values, views and symmetries for TLC |

### How state and actions correspond to the code

**`RtnlLink`.**  `obj[c]` is the `*Link` in the hand of goroutine or process `c`:
`idx`, `flags` and `change` are `Msg.Index`, `Msg.Flags` and `Msg.Change`, the rest the
fields of `Info` that messages carry and that decide what the kernel does.  MAC
addresses, statistics and the attributes of single kinds are left out.  `pc[c]` is the
exchange the call makes next and `call[c]` its method and arguments; both go back to
nothing when the method returns, and `ret[c]` keeps the result.  `home[c]` is a history
variable, the namespace `obj[c]` was last read from.

A method is a `Call...` action (its work before the first exchange) and one action
per exchange; the local work after an exchange belongs to that exchange's step,
since nobody can see it happen.  Between two exchanges the other clients run.

| Action | Code |
|---|---|
| `Construct`, `AssignMtu` | the caller builds a `Link`, sets `Info.Mtu` |
| `CallModify`, `SendNewLink`, `ReadBack` | `Add`, `Present` (`Modify(RTM_NEWLINK)`, then `Read`) |
| `CallModify`, `SendSetLink` | `Set` |
| `CallModify`, `SendDelLink` | `Del`, `Absent` |
| `CallPromisc`, `SendSetLink` | `Promisc` |
| `CallUpdate`, `LeadingRead`, `SendUpdate` | `Up`, `Down`, `SetMtu`, `SetMaster` |
| `CallGet`, `LeadingRead` | `GetLink`, `GetLinkByIndex` |

`Marshal` leaves out all attributes while a change mask is pending (`link.go:139`),
and `Unmarshal` builds a new object, because `Read` overwrites the old one
(`link.go:496`).  `"bridge"` stands for the kinds with ports, `"soft"` for those with
neither ports nor a peer, `"tun"` for tun and tap, which `Attributes()` does not
list, so that they go out without a kind, and `"none"` for a physical link.

**`RtnlCommands`.**  A process is a client of `RtnlLink` with a script: `cmd[c]` is its
command line, `stage[c]` where the script is, `found[c]` the index its lookup has
returned, `rows[c]` what `list` still has to show.  Every action is an action of the
client with something added, or changes no link.

| Action | Code |
|---|---|
| `Begin` | the command starts: `GetLink` by name, `ReadLinks`, or the object of `add` |
| `LookupBridge` | `list --bridge` looks the bridge up after the dump (`cmd/nl/link.go:236`) |
| `Act` | with the link in hand: `Up`, `Down`, `SetMtu`, `Del`; or the object of `add --bridge` |
| `Send` | `Add`, or `Del` of `vrf del` |
| `Show` | one row of `list`: `GetLinkByIndex` of its master |
| `DumpFails` | `list` whose dump fails exits at once (`cmd/nl/link.go:227`) |
| `Work` | the next exchange of the method, and `log.Fatal` or the next stage |

**`RtnlVlan`** has the shape of `RtnlLink`: `CallSetVlan`, `ReadVlans` (the dump by name
and the decision), `SendVlan` (one VLAN, by index).  `Asks` are the arguments calls are
made with.  `Environment` is other programs that create, enslave, release and delete
devices.  They rename none: with a rename between the two exchanges, or before them, the
name in an object and its index would mean two devices, and `SetVlan` would decide from
one and change the other.  The properties of `RtnlVlan` hold only without.

In `AtomicVlan` a call changes a device in the step that ends it or not at all, and the
one other step that touches devices, `Others`, lets them come and go, become bridges or
ports and cease to be: while a device stays one, its VLANs change by requests alone.

**`RtnlRecords`.**  A call is a list of messages: `Execute` is one round of the loop of
`netlinkUpdate`.  A rule has one selector or none.  From table 256 on the header of the
message keeps the table of an earlier use of the object, which the kernel does not look
at; the model has 0 there.

**`RtnlRoute`.**  `obj[c]` is the `*Route`; its `class` is what type and scope come to.

| Action | Code |
|---|---|
| `Construct`, `ReadRoutes` | the caller fills in a `Route`, or takes one that `ReadRoutes` returned |
| `CallRoute`, `Send` | `Add`, `Present`, `Del`, `Absent`: `Modify` with what it writes to the caller's object, then `netlinkUpdate` |
| `NlRoute`, `Lookup`, `Send` | `nl route add` and `del` with `--oif`: `makeRoute` with its `GetLink`, then the method |
| `PlugDevice`, `OtherPrograms` | (external) devices come and go with their routes; others add and delete routes |

**`RtnlContext`.**  `fds` is the descriptor table of one process, `file[x]` the number in
`Context.f` (0 for nil, -1 once closed), `held` the contexts the program can still
reach, `run[g]` the method of goroutine `g` with the numbers it has taken out of its
contexts.

| Action | Code |
|---|---|
| `OpenContext`, `ZeroContext` | `OpenContext` and `OpenDefaultContext`; `&Context{}` |
| `SetTarget`, `Close` | `ctx.Target = y`; `Close`, which closes the target as well |
| `Drop`, `Collect` | the program forgets a context; the finalizer of its `os.File` |
| `Begin`, `TakeFd` | a method begins, with the number for `Info.Ns`; `ctx.Fd()` |
| `Dial`, `Exec` | `netlink.Dial` in the namespace of the number; `conn.Execute` and the deferred `Close` |

### The kernel

The kernel is not in the repository.  It is modelled from the messages the library
sends and the answers it distinguishes: selection by index before name,
`NLM_F_EXCL`, indices that are not handed out again, the meaning of a zero change
mask, moves that keep the index if it is free, the order of changes in
`do_setlink` with the earlier ones left in place by a later error, wildcards in
`DELRULE` and `DELROUTE`, the comparison with which `NLM_F_EXCL` finds a rule that
exists (a Src or Dest the message has not got counts as equal, so that `Present` of a
rule without one is content with a rule that has one), the key of a route, the lowest
free descriptor.  Where a
message is wrong in two ways, either error may be the answer.

### Faults

`"dial"` in `Faults`: the socket cannot be opened, and nothing has been sent.
`"recv"`: the answer is lost, and the kernel may or may not have made the change.
In `RtnlContext` a dial fails for a reason: the number denotes no namespace, or there
is no descriptor left.

## 3. What is checked

`Homed` deployments use an object only in the namespace it was read from, and
deployments without `Moves` do not call `Set` with `Info.Ns`.  The code does not
enforce either, and some properties need them.  `nl`, the repository's own caller,
keeps to both by itself: `commands` and its theorems are about deployments with
neither (`Homed = FALSE`, `Moves = TRUE`), and assume nothing.

| Run | Deployment | Properties |
|---|---|---|
| `link_lifecycle` | 2 clients, 2 namespaces (one context with a target), 2 names, 3 indices, veth pairs, answers lost | `IndexNameAgree`: the index in an object never denotes a link of another name. `ImplementsDirectory`: the refinement. `PresentEnsures`: a nil from `Add` or `Present` means that the object holds a link of its name that is there |
| `link_flags` | 2 clients, 1 namespace, bridges and plain links | `OnlyNamed`: a call changes or deletes only the links it names (and their veth peers, which the theorem is about and this run has not). `TouchesOnly`: the change mask keeps all fields but the one of the call (what it says of `Promisc` is only in the theorem, as nobody calls it here). `UpDownDone`: nil means the link of the index is up (down), or gone. `SetMtuPutsBack`: `SetMtu` writes the flags of its Read back into the link it has read, undoing what was done to them in between, and changes nothing but them and the MTU |
| `link_alone` | 1 client, all fields, dial faults | `TypeOK`. `SetMtuOnlyMtu`: flags and master survive although they are sent back without a mask. `AddReadsBack`: the object is the new link |
| `link_moves` | 2 clients, 2 namespaces, `Set` with `Info.Ns` of objects made with a name and no index | `SetMoves`: the link arrives or stays, whatever names and indices are taken at either end, and nothing of its name stays behind |
| `commands` | 2 processes, 11 command lines over two names, 3 indices, answers lost, fair | `NlTypeOK`. `ZeroMeansDone`: exit status 0 means that the link is up, down, deleted, has its MTU, or is there. `ActsOnFound`: up, down, mtu and delete act on the link they looked up. `EnslavesToNamed`: `--bridge` gives a port of the bridge of that name. `ListFails`: `list` gives up only over a master that is gone, or an exchange that failed. `ImplementsDirectory`. `CommandsBounded`: every step brings a command nearer its end, and no other process takes it further away. `CommandsEnd`: every command ends |
| `vlan_ports` | 2 clients, two names, devices that come, change and go, both faults, nine calls about the VLANs 0, 1 (the default) and 2 | `TypeOK`. `VlanStands`: nil means the VLAN is as asked. `OnlyItsVlan`: no other VLAN, device or field changes. `ImplementsAtomicVlan`: the refinement |
| `records` | 2 clients, both faults, rules with a Src, with another selector and without, with and without a priority and a table, on both sides of table 256; lists of up to 2 addresses with one the kernel refuses | `TypeOK`, `NoDuplicateRules`, `PresentEnsures`, `PresentKeeps`, `DelOnlyFitting`, `BatchPrefix` |
| `routes` | 1 client, other programs, devices under two names, both faults, tables on both sides of 256 | `TypeOK`. `PresentEnsures`: nil means there is a route of the table, destination and priority. `PresentKeeps`: and it changes nothing if there was one, also for an object that was read back. `DelTakesOne`: one route that fits. `ThroughNamed`: a route given with `--oif` goes through that device or is refused |
| `contexts` | 1 goroutine beside those that open and close, 3 contexts, 2 namespaces, 3 descriptors | `TypeOK`. `OneOwner`: a descriptor in use has one owner. `RightNamespace`: an exchange is made in its context's namespace unless that was closed under it. `OpenServes`: an open context always works. `LinkLands`: so does `Info.Ns`. `ImplementsHandles`: the refinement |

Three runs show where the code does not do what its own comments say:

| Run | Comment | What happens |
|---|---|---|
| `absent_ensures_absent` | "Absent ensures the link is absent." (`link.go:699`) | the index in the object is that of a deleted link; the link has been made anew by another client; "no such device" counts as success |
| `set_sets_attributes` | "Set sets link attributes" (`link.go:685`) | `Up` leaves its change mask in the object; the caller sets `Info.Mtu`; a later `Set` of that object sends flags and no attributes, and returns nil |
| `vlan_pvid` | "already set" (`link.go:832`) | a VLAN in the list counts as set although the PVID asked for is another |

### Bounds, and why they are enough

* **Two clients.**  Every property relates one call to what happens between its
  exchanges.  A call has at most two, and one other client can do anything there,
  any number of times.  The same goes for two processes of `nl`, whose commands have
  up to three exchanges and one for every row of `list`.
* **One client in `routes`.**  A method is one exchange there.  Between the lookup of
  `nl route` and its message, `Environment` does whatever another client could do to
  routes and devices, and more.
* **One goroutine in `contexts`.**  Opening, closing, setting targets, forgetting and
  collecting are steps of their own, which any other goroutine could be making; what
  another method takes are descriptors, as opening a context does.
* **Names and indices.**  Two names: the one of the call and another.  `MaxIndex`
  counts the creations of a behaviour, as indices are not handed out again: two or
  three cover a link, its successor of the same name, and a peer or a bridge.  When
  the indices run out the model answers `EBUSY`, as the kernel does.
* **`MaxFd`** 3: two contexts and a socket, or three contexts and none left.  A target
  has no target of its own (`SetTarget`); `Close` goes one deep.
* **`Mtus`** is one value next to the default.
  In `link_flags` it is the default itself: what matters there is the flags, and
  `link_alone` and `commands` have the other one.
* **`Asks`** in `vlan_ports`: nine of the 48 calls that two VLANs and 0 allow.  Of two
  calls at once that meet on one device they have every pairing that matters: the same
  VLAN set and unset, set in the two lists, another VLAN set or unset, and the PVID
  moved by one of them; on another device, the call for the other name.  `MaxIndex` 2
  is two devices, or one and its successor.  `vlan_pvid` has all calls.
* **`MaxRules`**: clients stop *adding* at four rules, three of them there at boot.
  `MaxPref` 3 stands for 32767: Main and Default have the last two priorities, and
  one is left for the clients.  **`MaxRoutes`** 3: beyond it the kernel has no buffers.
* **`MaxBatch`** 2: an address before the one that fails, and one behind it.

`CHECK_DEADLOCK FALSE` is there because a library may stand still: when all is done,
nobody has to call it again.  `VIEW WithoutRet` and `InCall` leave out variables that
nothing reads but the properties, in the step that writes them; in `vlan_ports` also
the lists of an object, which the next Read overwrites before they are used.  `WithoutRemains`, of
`commands`, leaves out besides the object of a command that has ended or of a row that
has been shown, which the next command and the next row overwrite before they look at
it, and `home`, as there is one namespace.  Clients, names, contexts and goroutines are
symmetric where a cfg says so; `commands`, with its liveness property, has no symmetry.

### Fairness

`FairNlSpec` has weak fairness of `Script(c)` for each process: one that has been
started gets the processor, and the kernel answers.  No exchange waits for another
process, and every stage of a script has a step that stays enabled until it is taken,
so that nothing stronger is needed.  That another command is given is not fair, and
neither are the steps of other processes.  A lost answer ends a
command sooner.  `CommandsBounded`, which a theorem states as well, bounds the steps of
every command; what `CommandsEnd` adds is that a command never gets stuck before.

## 4. What is proved

Every property of every passing run is a theorem but one: **`CommandsEnd`** has only been
model-checked, as liveness under fairness is beyond the prover; its safety half,
`CommandsBounded`, is proved.  All theorems hold for any number of clients,
namespaces, names, indices, records and descriptors, and any faults unless they say
otherwise.  The assumptions on constants are the `ASSUME`s of the modules.

**`RtnlLinkProofs`**
* `TypeCorrect`: `Spec => []TypeOK`, in every deployment.
* `IndexNamesAgree`: `IndexNameAgree` always holds under `AgreeDiscipline`, which is
  `Homed` and not `Moves`.  It is not inductive.  `AgreeInv` is: it adds that indices
  are unique in a namespace, that every index in a link or in an object was handed
  out, and says of the calls in progress which namespace they are in and what their
  objects hold.  The argument: an index is never handed out twice, a link keeps its
  name, and the name that a stale index is sent with is that of the link it once
  belonged to, so that the kernel finds the same link or none.
* `OrderlyNamesAgree`: the same in every deployment from an assumption on the steps
  (`Orderly`): each call is made where its object was read, and none is a `Set` with
  `Info.Ns`.  `IndexNamesAgree` is the case where the constants see to that; `nl` is the
  case where the scripts do.

**`RtnlLinkEffects`**
* `AlwaysOnlyNamed`, from `AgreeInv`: the link a message selects has the object's name.
* `AlwaysTouchesOnly`, in every deployment, from an invariant on the change mask of
  the calls in progress (`Masked`).
* `UpDownAlwaysDone`: nil follows from an answer of "ok", or from a Read that has found
  no link, and then none has the index.  With faults the property leaves out the calls
  whose Read was itself lost, since nothing tells them from success (`link.go:714`).
* `SetMtuAlwaysPutsBack` and `PresentAlwaysEnsures`, in every deployment.  The first
  rests on `Masked` too: between its Read and its message the object of `SetMtu` has
  no change mask and flags that are not zero, so that the kernel takes all of them.
* `SetMtuAloneOnlyMtu` and `AddAloneReadsBack`, for a client alone (`Alone`): the object
  still holds what the kernel has when it is sent back (`AloneInv`).  With a second
  client both are false, and the hazard list says why.
* `SetAlwaysMoves`, in every deployment: callers give `Info.Ns` to new objects only, so
  that one with `Info.Ns` has no index (`ReadHasNoNs`), a name is taken once in a namespace, and a move
  gives the link an index that is free in its destination.

**`RtnlLinkRefinementProofs`**
* `LinksImplementDirectory`, under `NamedDiscipline` (`AgreeDiscipline`, and objects
  come from names): initial states map to initial states and steps to steps or
  stutters.  Beside `AgreeInv` it needs what the kernel keeps to (`KernelNames`: names
  are unique, a veth has one peer, and the mark the two share is nobody else's) and
  that the object of a call has a name.
* `OrderlyImplementsDirectory`: the same from an assumption on the steps (`Orderly`, and
  `Named`: the object of a call has a name).

**`RtnlCommandsProofs`**
* `CommandsAreCalls`: `NlSpec => Spec`, so that all of the above holds of `nl`
  (`CommandsKeepTypes` and `CommandsIndexNames` are two instances).
* `CommandTypes`, `CommandsActOnFound`, `CommandsEnslaveNamed`, `CommandsListFails`,
  `CommandsZeroMeansDone` and `CommandsImplementDirectory`, none of which assumes
  anything of the deployment: `NlSpec` makes only `Orderly` and `Named` steps.  The
  invariant is
  `NlInv`: `AgreeInv`, the types, and for each stage of a script what its process has
  in hand (`KeepsLink`, `KeepsScript`): the object of a looked-up link still has the
  index and the name that were found; the index of a bridge denotes the bridge of
  that name or no link.  It stays so because indices only grow: what was free when it
  was handed out is never handed out again.

* `CommandsAreBounded`: `StepsLeft` counts the exchanges and rows a command still has.
  That it drops needs the rows of `list` to be finite in number and the stage of a
  method to fit its command (`NlInv`), and that it stays needs that no process writes
  the variables of another.

**`RtnlVlanProofs`**, from `VlanInv` (names and indices unique, indices handed out
once, the device of an object's index has its name, and a call in progress is not
about VLAN 0):
* `VlanTypes`, `VlanStandsAlways` and `OnlyItsVlanAlways`.  The heart of it is that
  what `SetVlan` decides from a read by name is still about the same device when the
  message goes out by index, or about none.  It takes that no device is renamed.
* `VlansAreAtomic`: initial states map to initial states and steps to steps or stutters.
  Indices, kinds and the lists in the objects disappear; what is left of a device is
  its name, whether it has VLANs, and which; `asked` is the call with the
  name in its object, which stays while the call is under way.  It says more than the
  two above: a call that fails has changed all it was asked for or nothing, and none
  changes its device twice, since the step of a call that changes a device is the one
  that ends it.  For the steps of other programs it needs that the ports are those
  devices that are no bridges (`PortsAreSoft`).  It does not say that `pvid` has been seen to: a VLAN that
  is in the list counts as asked whether or not it is the PVID (`vlan_pvid`).

**`RtnlRecordsProofs`**, from `RecordsInv` (types, no two equal rules, and: a call
that is under way has made exactly its first `sent` changes, with one left to send):
* `RecordTypes`, `RulesNotDoubled`, `PresentAlwaysEnsures`, `PresentAlwaysKeeps`,
  `DelAlwaysFitting`, `BatchAlwaysPrefix`.  What `PresentAlwaysEnsures` finds may have a
  Src or a Dest that the object does not set.  `MessageOfRule` is the arithmetic under
  three of them: the table in the header's eight bits or in the attribute is the table
  of the rule, for all 32 bits.

**`RtnlRouteProofs`**, from `RouteInv` (types, with routes only through devices that
are there and unique names of those, and `Prepared`: what `Modify` has filled in is in
the object while its message is on the way, and the device of `--oif` has that name
for as long as it is there):
* `RouteTypes`, `PresentAlwaysEnsures`, `PresentAlwaysKeeps`, `DelAlwaysTakesOne`,
  `AlwaysThroughNamed`.

**`RtnlContextProofs`**, from `ContextInv` (types, `OneOwner`, a context with a file
has been opened, the sockets of two goroutines and of contexts are separate, and: the
number a method has taken is its context's, or that was closed before or since):
* `ContextTypes`, `AlwaysOneOwner`, `AlwaysRightNamespace`, `AlwaysServes`,
  `AlwaysLands`.
* `ContextsAreHandles`: initial states map to initial states and steps to steps or
  stutters.  `bound` is the namespace a context was opened in, `closed` the contexts
  whose `Context.f` reports -1.  The step that needs the invariant is the entry of an
  exchange: the number taken out of a context that is still open denotes its namespace.

## 5. What is not modelled

* **nl**: `rule` and `macvlan` commands, `--link` of vxlan (a second lookup that fills
  an attribute), the kind filter of `list`, parsing and printing.  `set vlan` and `unset
  vlan` are a lookup and one call of `RtnlVlan`; `route list` is one dump.
* **Two exchanges of a row of `nl list`**: the `Read` in family `AF_BRIDGE`, whose error
  is dropped and which leaves the master alone (`cmd/nl/link.go:257`), and `ReadAddrs`,
  which fails only with its socket.  They would make the steps that `CommandsBounded`
  counts for a row four instead of two.
* **Attributes of kinds**: encodings, without state.
* **`ReadAddrs`, `ReadRules`, `ReadLinks`** as results: dumps that change no state.
  Where one feeds a later call (`nl list`, a rule or a route that is sent back), what
  it returns is in the model.
* **`Local`, `Broadcast`, `Anycast`** of an address, which are sent as text.
* **Source, preferred source, input device and TOS** of a route: fields beside those
  that decide what happens.
* **`Info.Ns` set in an object that has been read**, and so has an index: callers of
  `RtnlLink` give a namespace when they make an object (`Construct`), as `nl` does.
* **Renames**: in `RtnlRoute` and `RtnlVlan` nobody renames a device.
* **`withNetlink`**, **`ResolvePeer`**, **neighbours**: called from nowhere.
* **Contexts in `RtnlLink`**: there a context is a pair of namespaces that stays open.
  `RtnlContext` says when that is so.

Observations on the way that no property covers: `Rule.Absent` returns nil for every error but "no such file" (`rule.go:280`);
`ReadAddrs` does not look at `Msg.Family` although `addr.go:174` says so; `nl rule`
parses the destination from `--source` (`cmd/nl/rule.go:122`); `nl vrf del` deletes
whatever link has the name; `nl` truncates VLAN numbers to 16 bits
(`cmd/nl/link.go:459`); `neighbor.go:255` assigns a field to itself; `veth.go:94` reads
the outer decoder; deletes carry the bit of `NLM_F_EXCL`, which newer kernels read as
`NLM_F_BULK`.

Kept in the models, as what the code does: `Up` and `Down` return nil when their `Read`
fails (`link.go:714`), so that `Up` of a link that is gone succeeds; `SetMtu` rewrites all flags, `Promisc`
repeats the bits of an earlier `Up`, `Present` accepts a link of another kind, an
ordinary `Read` finds a phantom VLAN 1 (`link.go:264`), a rule of priority 0 cannot be
sent back; `Route.Present` and `Absent` compare the whole text of the error
(`route.go:206`, `222`), `Absent` with one the kernel does not give, so that it never
forgives anything; `Modify` overwrites `Hdr.Table`; the metrics of a route end its
decoding (`route.go:133`).

## 6. The plan

Done, in this order: links and their directory; VLANs; rules and addresses; routes;
contexts; the commands of `nl`; the proofs of each.  What could follow:

1. **`rule` and `vlan` commands** as scripts over `RtnlRecords` and `RtnlVlan`, in the
   manner of `RtnlCommands`.
2. **Contexts under `RtnlLink`**: the two composed, so that a context closed under a
   method shows in the links; the properties would be those of `RtnlContext` over
   links instead of landings.
3. **`Resolve` of the kinds**, when something calls it with effect.
