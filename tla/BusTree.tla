------------------------------- MODULE BusTree -------------------------------
(***************************************************************************)
(* How a scan of the library (libi2cdev/i2c-bus-parser.c) makes a tree of  *)
(* the adapters it finds in sysfs, names each by a path, and finds an      *)
(* adapter by its path again.                                              *)
(*                                                                         *)
(* A scan lists /sys/bus/i2c/devices, reads one adapter after the other,   *)
(* builds the tree in memory, and then opens the directory of every        *)
(* adapter for the devices behind it.  Adapters may come and go between    *)
(* these steps, so a scan can be torn.  An adapter is denoted by its       *)
(* number, which is unique within a scan.                                  *)
(***************************************************************************)
EXTENDS KernelBuses, SequencesExt, Variant

CONSTANTS
  Parent,   (* per bus: the bus it hangs off, NULL for a root adapter         *)
  Chan,     (* per bus: its channel of its multiplexer, -1 without one        *)
  MaxChanges (* bound: changes of the kernel's state per table                *)

ASSUME TopologyAssumption ==
  /\ IsFiniteSet(Nr)
  /\ NULL \notin Nr
  /\ MaxChanges \in Nat
  /\ Parent \in [Bus -> Bus \cup {NULL}]
  /\ Chan \in [Bus -> Nat \cup {-1}]

VARIABLES
  dir,        (* sysfs: per number the path of its directory, as the numbers  *)
              (* from its root adapter to it                                  *)
  pc,         (* where the scan in progress is; "idle" without a table        *)
  left,       (* adapters whose directory the scan has still to read          *)
  adapters,   (* adapter_global_array: the dev_bus_adapter objects by number  *)
  search,     (* list of the adapters not put into the tree (yet)             *)
  root,       (* dev_bus_list_headp                                           *)
  todo,       (* bus_children_get, foreach_devbus_tree: adapters to come      *)
  changes     (* history: kernel changes since the scan began                 *)

treeVars == <<pc, left, adapters, search, root, todo>>
sysfs == <<node, dir>>
vars == <<sysfs, treeVars, changes>>

Token == [type : {"BUS", "MUX"}, id : Nat, value : Int]
Adapter == [devpath : Seq(Nr), chan : Int, busId : Int, children : Seq(Nr), path : Seq(Token)]

(* Every variable keeps its type; lists are made of scanned adapters. *)
TypeOK ==
  /\ NodeTypeOK
  /\ dir \in [Nr -> Seq(Nr)]
  /\ pc \in {"idle", "read", "roots", "children", "paths", "devices", "ready"}
  /\ left \subseteq Nr
  /\ DOMAIN adapters \subseteq Nr
  /\ adapters \in [DOMAIN adapters -> Adapter]
  /\ search \in Seq(DOMAIN adapters)
  /\ root \in Seq(DOMAIN adapters)
  /\ todo \in Seq(DOMAIN adapters)
  /\ changes \in 0..MaxChanges

NoAdapters == [n \in {} |-> NULL]

Init ==
  /\ KernelInit
  /\ dir = [n \in Nr |-> <<>>]
  /\ pc = "idle"
  /\ left = {}
  /\ adapters = NoAdapters
  /\ search = <<>>
  /\ root = <<>>
  /\ todo = <<>>
  /\ changes = 0

-----------------------------------------------------------------------------
(* sysfs *)

NumberOf(b) == CHOOSE n \in Plugged : node[n].bus = b

IsPlugged(b) == \E n \in Plugged : node[n].bus = b

(* A bus appears below a bus that is there, and goes before it: the path of *)
(* its directory stays as it was made.                                      *)
BusAppears(n, b) ==
  /\ Plug(n, b)
  /\ \/ Parent[b] = NULL /\ dir' = [dir EXCEPT ![n] = <<n>>]
     \/ /\ Parent[b] # NULL
        /\ IsPlugged(Parent[b])
        /\ dir' = [dir EXCEPT ![n] = Append(dir[NumberOf(Parent[b])], n)]

BusGoes(n) ==
  /\ Unplug(n)
  /\ \A b \in Bus : IsPlugged(b) => Parent[b] # node[n].bus
  /\ dir' = [dir EXCEPT ![n] = <<>>]

TopologyChanges == \E n \in Nr : (\E b \in Bus : BusAppears(n, b)) \/ BusGoes(n)

(* Steps in memory do not read sysfs: changes during them change nothing.   *)
(* Between cleanup and scan the kernel changes freely, else MaxChanges times. *)
KernelStep ==
  /\ pc \in {"idle", "read", "devices", "ready"}
  /\ pc # "idle" => changes < MaxChanges
  /\ TopologyChanges
  /\ changes' = IF pc = "idle" THEN 0 ELSE changes + 1
  /\ UNCHANGED treeVars

-----------------------------------------------------------------------------
(* Dropping the table *)

(* Mutant of DropTable: the tree is freed but its list head is not reset. *)
DropTableKeepsRoots ==
  /\ adapters' = NoAdapters
  /\ search' = <<>>
  /\ todo' = <<>>
  /\ UNCHANGED root

(* free_adapter_list walks the tree; the array is freed, but not the        *)
(* adapters that only the array points to: those of the search list.        *)
DropTable ==
  /\ adapters' = NoAdapters
  /\ search' = <<>>
  /\ root' = <<>>
  /\ todo' = <<>>

(* i2cdev_cleanup, or a scan that fails and ends in it *)
Cleanup ==
  /\ pc' = "idle"
  /\ left' = {}
  /\ DropTable

I2cdevCleanup ==
  /\ pc = "ready"
  /\ Cleanup
  /\ changes' = 0
  /\ UNCHANGED sysfs

-----------------------------------------------------------------------------
(* i2c_sysfs_gather_adapters *)

(* The old table is dropped and scandir lists the adapters there are. *)
BeginScan ==
  /\ pc \in {"idle", "ready"}
  /\ DropTable
  /\ left' = Plugged
  /\ pc' = IF Plugged = {} THEN "ready" ELSE "read"
  /\ changes' = 0
  /\ UNCHANGED sysfs

(* The array with adapter n as its directory has it. *)
WithAdapter(n) ==
  [m \in DOMAIN adapters \cup {n} |->
     IF m = n THEN [devpath |-> dir[n], chan |-> Chan[node[n].bus],
                    busId |-> -1, children |-> <<>>, path |-> <<>>]
     ELSE adapters[m]]

(* Mutant of ReadAdapter: an adapter that is gone is read again. *)
ReadAdapterAgain(n) ==
  /\ pc = "read"
  /\ n \in left
  /\ left' = IF n \in Plugged THEN left \ {n} ELSE left
  /\ adapters' = IF n \in Plugged THEN WithAdapter(n) ELSE adapters
  /\ UNCHANGED <<sysfs, pc, search, root, todo, changes>>

(* sysfs_read_i2c_dev_bus_adapter; one that is gone is passed over.  The    *)
(* directory gives the adapters in no particular order.                     *)
ReadAdapter(n) ==
  /\ pc = "read"
  /\ n \in left
  /\ left' = left \ {n}
  /\ adapters' = IF n \in Plugged THEN WithAdapter(n) ELSE adapters
  /\ UNCHANGED <<sysfs, pc, search, root, todo, changes>>

(* qsort by number; gather_i2c_dev_busses then puts each adapter at the     *)
(* head of the search list.                                                 *)
SortArray ==
  /\ pc = "read"
  /\ left = {}
  /\ pc' = IF DOMAIN adapters = {} THEN "ready" ELSE "roots"
  /\ \E s \in [1..Cardinality(DOMAIN adapters) -> DOMAIN adapters] :
       /\ ToSet(s) = DOMAIN adapters
       /\ \A i, j \in DOMAIN s : i < j => s[i] > s[j]
       /\ search' = s
  /\ UNCHANGED <<sysfs, left, adapters, root, todo, changes>>

-----------------------------------------------------------------------------
(* adapter_tree_build *)

(* dev_parse_parent_i2c_nr: NULL stands for BUS_NR_ROOT. *)
ParentId(n) ==
  LET p == adapters[n].devpath IN IF Len(p) = 1 THEN NULL ELSE p[Len(p) - 1]

(* bus_parent_nr_lookup: where the first adapter with that parent is, or 0. *)
FirstBelow(id) == SelectInSeq(search, LAMBDA n : ParentId(n) = id)

(* Mutant of TakeRoot: the adapter stays on the search list as well. *)
TakeRootKeepsEntry ==
  /\ pc = "roots"
  /\ LET i == FirstBelow(NULL) IN
     IF i # 0 /\ search[i] \notin ToSet(root)
     THEN /\ root' = <<search[i]>> \o root
          /\ UNCHANGED <<search, pc, todo>>
     ELSE /\ todo' = root
          /\ pc' = "children"
          /\ UNCHANGED <<root, search>>
  /\ UNCHANGED <<sysfs, left, adapters, changes>>

(* adapter_tree_build: adapters without a parent adapter, one at a time, go *)
(* to the head of the root list (node_root stays NULL: the list was empty). *)
TakeRoot ==
  /\ pc = "roots"
  /\ LET i == FirstBelow(NULL) IN
     IF i # 0
     THEN /\ root' = <<search[i]>> \o root
          /\ search' = RemoveAt(search, i)
          /\ UNCHANGED <<pc, todo>>
     ELSE /\ todo' = root
          /\ pc' = "children"
          /\ UNCHANGED <<root, search>>
  /\ UNCHANGED <<sysfs, left, adapters, changes>>

(* compare_bus_list_insert against the first entry, or into an empty list   *)
(* (numbers are distinct, so the comparison is never 0).                    *)
InsertSibling(n, list) ==
  IF list # <<>> /\ n > Head(list) THEN <<Head(list), n>> \o Tail(list)
  ELSE <<n>> \o list

(* Mutant of CountBusMatchChannel: only the new sibling gets an id. *)
CountNewSiblingOnly(list, channel) ==
  LET peers == {i \in DOMAIN list : adapters[list[i]].chan = channel}
  IN  [n \in {Head(list)} |-> Cardinality(peers) - 1]

(* count_bus_match_channel_set_bus: the adapters of the list with that      *)
(* channel are numbered in the order of the list.                           *)
CountBusMatchChannel(list, channel) ==
  LET peers == {i \in DOMAIN list : adapters[list[i]].chan = channel}
  IN  [n \in {list[i] : i \in peers} |->
         Cardinality({j \in peers : j < SelectInSeq(list, LAMBDA m : m = n)})]

(* Mutant of TakeChild: the child is not taken off the search list. *)
TakeChildKeepsEntry ==
  /\ pc = "children"
  /\ todo # <<>>
  /\ LET parent == Head(todo)
         i == FirstBelow(parent)
     IN /\ i # 0
        /\ adapters' = [adapters EXCEPT ![parent].children = InsertSibling(search[i], @)]
  /\ UNCHANGED <<sysfs, pc, left, search, root, todo, changes>>

(* bus_children_get, one child: moved from the search list to its parent's. *)
TakeChild ==
  /\ pc = "children"
  /\ todo # <<>>
  /\ LET parent == Head(todo)
         i == FirstBelow(parent)
         list == InsertSibling(search[i], adapters[parent].children)
         ids == CountBusMatchChannel(list, adapters[search[i]].chan)
     IN /\ i # 0
        /\ search' = RemoveAt(search, i)
        /\ adapters' = [n \in DOMAIN adapters |->
             [adapters[n] EXCEPT !.children = IF n = parent THEN list ELSE @,
                                 !.busId = IF n \in DOMAIN ids THEN ids[n] ELSE @]]
  /\ UNCHANGED <<sysfs, pc, left, root, todo, changes>>

(* Mutant of ChildrenTaken: the children's children are not got. *)
ChildrenTakenFlat ==
  /\ pc = "children"
  /\ todo # <<>>
  /\ FirstBelow(Head(todo)) = 0
  /\ todo' = Tail(todo)
  /\ UNCHANGED <<sysfs, pc, left, adapters, search, root, changes>>

(* No child is left: on to the parent's children, unless the search list    *)
(* is empty.                                                                *)
ChildrenTaken ==
  /\ pc = "children"
  /\ todo # <<>>
  /\ FirstBelow(Head(todo)) = 0
  /\ todo' = IF search = <<>> THEN Tail(todo)
             ELSE adapters[Head(todo)].children \o Tail(todo)
  /\ UNCHANGED <<sysfs, pc, left, adapters, search, root, changes>>

TreeBuilt ==
  /\ pc = "children"
  /\ todo = <<>>
  /\ pc' = "paths"
  /\ todo' = root
  /\ UNCHANGED <<sysfs, left, adapters, search, root, changes>>

-----------------------------------------------------------------------------
(* generate_bus_paths *)

BusToken(n) == [type |-> "BUS", id |-> n, value |-> -1]

(* ":%u.%u" of a multiplexer's channel, ":%u" of another adapter *)
TokenOf(n) ==
  IF adapters[n].chan \geq 0
  THEN [type |-> "MUX", id |-> adapters[n].busId, value |-> adapters[n].chan]
  ELSE BusToken(n)

(* match_set_path_test *)
PathOf(n) ==
  IF ParentId(n) = NULL THEN <<BusToken(n)>>
  ELSE Append(adapters[ParentId(n)].path, TokenOf(n))

(* One turn of foreach_devbus_tree: an adapter, then what is below it. *)
GeneratePath ==
  /\ pc = "paths"
  /\ todo # <<>>
  /\ adapters' = [adapters EXCEPT ![Head(todo)].path = PathOf(Head(todo))]
  /\ todo' = adapters[Head(todo)].children \o Tail(todo)
  /\ UNCHANGED <<sysfs, pc, left, search, root, changes>>

PathsGenerated ==
  /\ pc = "paths"
  /\ todo = <<>>
  /\ left' = DOMAIN adapters
  /\ pc' = "devices"
  /\ UNCHANGED <<sysfs, adapters, search, root, todo, changes>>

-----------------------------------------------------------------------------
(* gather_i2c_adapters_devices *)

(* The directory an adapter was read from is still there. *)
DirectoryExists(n) == n \in Plugged /\ dir[n] = adapters[n].devpath

NextDirectory(n) == pc = "devices" /\ n \in left /\ \A m \in left : n \leq m

OpenDirectory(n) ==
  /\ NextDirectory(n)
  /\ DirectoryExists(n)
  /\ left' = left \ {n}
  /\ pc' = IF left' = {} THEN "ready" ELSE "devices"
  /\ UNCHANGED <<sysfs, adapters, search, root, todo, changes>>

(* Mutant of DirectoryGone: the adapter is passed over. *)
DirectoryPassedOver(n) ==
  /\ NextDirectory(n)
  /\ ~DirectoryExists(n)
  /\ left' = left \ {n}
  /\ pc' = IF left' = {} THEN "ready" ELSE "devices"
  /\ UNCHANGED <<sysfs, adapters, search, root, todo, changes>>

(* opendir fails, and with it the scan *)
DirectoryGone(n) ==
  /\ NextDirectory(n)
  /\ ~DirectoryExists(n)
  /\ Cleanup
  /\ changes' = 0
  /\ UNCHANGED sysfs

-----------------------------------------------------------------------------
Next ==
  \/ KernelStep
  \/ I2cdevCleanup
  \/ BeginScan
  \/ SortArray
  \/ TakeRoot \/ TakeChild \/ ChildrenTaken \/ TreeBuilt
  \/ GeneratePath \/ PathsGenerated
  \/ \E n \in Nr : ReadAdapter(n) \/ OpenDirectory(n) \/ DirectoryGone(n)

Spec == Init /\ [][Next]_vars

(* A scan that was begun goes on. *)
ScanContinues ==
  \/ SortArray \/ TakeRoot \/ TakeChild \/ ChildrenTaken \/ TreeBuilt
  \/ GeneratePath \/ PathsGenerated
  \/ \E n \in Nr : ReadAdapter(n) \/ OpenDirectory(n) \/ DirectoryGone(n)

FairSpec == Spec /\ WF_vars(ScanContinues)

-----------------------------------------------------------------------------
(* search_devbus_tree_fast_path *)

Matches(n, token) ==
  IF token.type = "BUS" THEN n = token.id
  ELSE adapters[n].busId = token.id /\ adapters[n].chan = token.value

(* Mutant of ChildFor: the number of the multiplexer is not compared. *)
ChildForChannel(n, token) ==
  LET i == SelectInSeq(adapters[n].children,
                       LAMBDA m : token.type = "BUS" \/ adapters[m].chan = token.value)
  IN  IF i = 0 THEN NULL ELSE adapters[n].children[i]

(* The first child of n that the token of the path denotes, or NULL. *)
ChildFor(n, token) ==
  LET i == SelectInSeq(adapters[n].children, LAMBDA m : Matches(m, token))
  IN  IF i = 0 THEN NULL ELSE adapters[n].children[i]

(* The lookup of the path ends at adapter n.  lookup_dev_bus_by_nr finds    *)
(* the first token, which need not be a root, in the array; the others lead *)
(* down the tree, each to one adapter at most.                              *)
Finds(path, n) ==
  /\ path # <<>>
  /\ \E at \in [1..Len(path) -> DOMAIN adapters] :
       /\ at[1] = path[1].id
       /\ \A i \in 2..Len(path) : at[i] = ChildFor(at[i - 1], path[i])
       /\ at[Len(path)] = n

-----------------------------------------------------------------------------
(* Safety *)

InTree == DOMAIN adapters \ ToSet(search)

Built == pc \in {"devices", "ready"}

Quiet == changes = 0

(* Where adapter n is listed: in the search list, as a root, as a child. *)
Listings(n) ==
  {<<-2, i>> : i \in {j \in DOMAIN search : search[j] = n}}
  \cup {<<-1, i>> : i \in {j \in DOMAIN root : root[j] = n}}
  \cup UNION {{<<p, i>> : i \in {j \in DOMAIN adapters[p].children : adapters[p].children[j] = n}} :
                p \in DOMAIN adapters}

(* At every step of the build, torn or not, each scanned adapter is on one  *)
(* list and there once: none is freed twice, and one that is not in the     *)
(* tree is among those left over.                                           *)
OnOneList ==
  pc \in {"roots", "children", "paths", "devices", "ready"} =>
    \A n \in DOMAIN adapters : Cardinality(Listings(n)) = 1

(* The id of a multiplexer's channel is the rank of its number among the    *)
(* siblings with the same channel, at every step of the build and whatever  *)
(* the order in which siblings were found.                                  *)
IdIsRank ==
  \A p \in DOMAIN adapters : \A n \in ToSet(adapters[p].children) :
    adapters[n].busId = Cardinality({m \in ToSet(adapters[p].children) :
                                       m < n /\ adapters[m].chan = adapters[n].chan})

(* An adapter of the tree is found under the path made for it, although     *)
(* paths are ambiguous by channel alone and the scan may be torn.           *)
LookupFindsPath == Built => \A n \in InTree : Finds(adapters[n].path, n)

(* The buses on the way to bus b from a root adapter: the topology has one  *)
(* such line for each bus at most.                                          *)
IsLine(line, b) ==
  /\ Parent[line[1]] = NULL
  /\ \A i \in 2..Len(line) : Parent[line[i]] = line[i - 1]
  /\ line[Len(line)] = b

(* The buses with the same channel that come before bus b on its parent. *)
Before(b) ==
  {c \in Bus : /\ IsPlugged(c) /\ NumberOf(c) < NumberOf(b)
              /\ Parent[c] = Parent[b] /\ Chan[c] = Chan[b]}

(* The place of a bus: the number of its root adapter, and on the way down  *)
(* per bus how many buses with the same channel come before it.             *)
Place(line) ==
  [i \in DOMAIN line |->
     IF Parent[line[i]] = NULL \/ Chan[line[i]] = -1 THEN BusToken(NumberOf(line[i]))
     ELSE [type |-> "MUX", id |-> Cardinality(Before(line[i])), value |-> Chan[line[i]]]]

(* After a scan during which nothing changed, every bus that is there is    *)
(* found under its place, and so whatever numbers multiplexer channels got: *)
(* what AdapterCache assumes of a scan and a lookup.                        *)
PlaceDenotesBus ==
  (pc = "ready" /\ Quiet) =>
    /\ search = <<>>
    /\ \A b \in Bus : IsPlugged(b) =>
         \E line \in [DOMAIN dir[NumberOf(b)] -> Bus] :
           IsLine(line, b) /\ Finds(Place(line), NumberOf(b))

(* A scan that succeeds leaves an adapter out of the tree, where a rescan   *)
(* does not find it to detach its clients, only when one went away and two  *)
(* came during it, so that a number was given again.  Adapters that just    *)
(* come or just go leave a complete tree or fail the scan.                  *)
LeftOutOnlyByReuse == (pc = "ready" /\ search # <<>>) => changes \geq 3

-----------------------------------------------------------------------------
(* Liveness *)

(* What some adapters lead to: they, their children, and so on. *)
LeadTo(some, children) ==
  {n \in DOMAIN children :
     \A S \in SUBSET DOMAIN children :
       (some \subseteq S /\ \A p \in S : children[p] \subseteq S) => n \in S}

(* The adapters that a recursion down the tree comes to yet. *)
Ahead == LeadTo(ToSet(todo), [p \in DOMAIN adapters |-> ToSet(adapters[p].children)])

Phase ==
  CASE pc = "read" -> 5 [] pc = "roots" -> 4 [] pc = "children" -> 3
    [] pc = "paths" -> 2 [] pc = "devices" -> 1 [] pc \in {"idle", "ready"} -> 0

(* What is still to do in the scan, the most significant first. *)
Rank == <<Phase, Cardinality(left), Len(search), Cardinality(Ahead)>>

(* Each step of a scan leaves less to do, also of the recursion down the    *)
(* tree: it comes to no adapter twice, whatever the directories said about  *)
(* who is whose parent.  The kernel's steps change nothing of it.           *)
ScanShrinks == [][ScanContinues => LexLess(Rank', Rank)]_vars

(* A scan ends, also when adapters keep coming and going or what it read    *)
(* makes no tree (an adapter that seems to be its own ancestor).            *)
ScanEnds == pc = "read" ~> pc \in {"idle", "ready"}

=============================================================================
