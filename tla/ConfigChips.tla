----------------------------- MODULE ConfigChips -----------------------------
(***************************************************************************)
(* The configured chips of the library (libi2cdev/init.c, access.c): the   *)
(* list read from the configuration, matched against the devices the last  *)
(* scan found, and the two loops that create the missing devices and       *)
(* remove the configured ones through sysfs, with a rescan after each.     *)
(*                                                                         *)
(* Creating the device of a multiplexer makes new adapters, on which       *)
(* further configured chips may be; other processes and hot plugging       *)
(* change devices and adapters between any two steps of a loop.            *)
(***************************************************************************)
EXTENDS ConfigFile, FiniteSets, Variant

CONSTANTS
  Provider,        (* per bus: the multiplexer's device, NoDevice for a root *)
  NoDevice,
  Firmware,        (* devices delete_device refuses to delete                *)
  CallerInputs,    (* what an application may pass to i2cdev_init            *)
  DefaultInputs,   (* what may be in /etc/i2cdiscov.conf, /etc/i2cdiscov.d   *)
  MaxChanges       (* bound: changes by others                               *)

Device == [bus : Bus, addr : Addr, name : Name]
Roots == {b \in Bus : Provider[b] = NoDevice}

ASSUME KernelAssumption ==
  /\ NoDevice \notin Device
  /\ Provider \in [Bus -> Device \cup {NoDevice}]
  /\ \A b \in Bus \ Roots : Provider[b].bus \in Roots
  /\ Firmware \subseteq {d \in Device : d.bus \in Roots}
  /\ \A d, e \in Firmware : d.bus = e.bus /\ d.addr = e.addr => d = e
  /\ \A items \in CallerInputs : items \in Seq(Item) /\ IsStream(items)
  /\ \A items \in DefaultInputs : items \in Seq(Item) /\ AreDefaultFiles(items)
  /\ MaxChanges \in Nat

VARIABLES
  roots,       (* kernel: root adapters plugged in                          *)
  devices,     (* kernel: devices registered, at most one per address       *)
  changes,     (* kernel: changes by others so far                          *)
  library,     (* libi2cdev_state, "CRASHED" when the process is gone       *)
  adapters,    (* places of the adapters the last scan found                *)
  clients,     (* the devices it found on them                              *)
  loaded,      (* init_once                                                 *)
  chips,       (* p_dev_config_list_head                                    *)
  names,       (* dev_config_files with its count and capacity              *)
  call,        (* the call in progress                                      *)
  ret          (* what the last call returned                               *)

kernelVars == <<roots, devices, changes>>
tableVars == <<adapters, clients>>
configVars == <<loaded, chips, names>>
vars == <<kernelVars, library, tableVars, configVars, call, ret>>

(* A call: its kind, where it is, the chip its loop is at, the part of the  *)
(* configuration it has still to read, the adapters and devices its scan    *)
(* listed, and as history what disturbed it.                                *)
Ops == {"init", "rescan", "initialize", "remove", "removeAdapter"}
Disturbance == {"table", "kernel", "refused", "stale"}
Call == [op : Ops, step : {"load", "next", "stat", "write", "rescan", "scan"}, i : Nat, input : Seq(Item),
         seen : SUBSET Bus, met : SUBSET Device, by : SUBSET Disturbance]
NoCall == [op |-> "none"]

(* Every variable keeps its type, and a library in use has read its         *)
(* configuration.                                                           *)
TypeOK ==
  /\ roots \subseteq Roots /\ devices \subseteq Device /\ changes \in Nat
  /\ library \in {"UNINITIALIZED", "BUSY", "READY", "CRASHED"}
  /\ adapters \subseteq Bus /\ clients \subseteq Device
  /\ loaded \in BOOLEAN /\ (library = "READY" => loaded)
  /\ chips \in Seq(Chip) /\ names \in NameTable
  /\ call \in Call \cup {NoCall}
  /\ ret \in {"ok", "error"}

Init ==
  /\ roots \in SUBSET Roots
  /\ devices = {d \in Firmware : d.bus \in roots}
  /\ changes = 0
  /\ library = "UNINITIALIZED"
  /\ adapters = {} /\ clients = {}
  /\ loaded = FALSE /\ chips = <<>> /\ names = NoNames
  /\ call = NoCall /\ ret = "ok"

-----------------------------------------------------------------------------
(* The kernel *)

Provided(b, ds) == Provider[b] \in ds
Present(rs, ds) == rs \cup {b \in Bus \ Roots : Provided(b, ds)}

(* The devices on adapters that went away go with them. *)
Settled(rs, ds) ==
  LET onRoots == {d \in ds : d.bus \in rs}
  IN {d \in ds : d.bus \in Present(rs, onRoots)}

Taken(bus, addr) == \E d \in devices : d.bus = bus /\ d.addr = addr

Disturbed == IF call = NoCall THEN call ELSE [call EXCEPT !.by = @ \cup {"kernel"}]

(* Another process, or the hardware, adds or removes a device or a root. *)
KernelStep ==
  /\ changes < MaxChanges
  /\ changes' = changes + 1
  /\ \/ \E d \in Device :
          /\ d.bus \in Present(roots, devices) /\ ~Taken(d.bus, d.addr)
          /\ devices' = devices \cup {d}
          /\ UNCHANGED roots
     \/ \E d \in devices \ Firmware :
          /\ devices' = Settled(roots, devices \ {d})
          /\ UNCHANGED roots
     \/ \E b \in Roots \ roots :
          /\ roots' = roots \cup {b}
          /\ devices' = devices \cup {d \in Firmware : d.bus = b}
     \/ \E b \in roots :
          /\ roots' = roots \ {b}
          /\ devices' = Settled(roots \ {b}, devices)
  /\ call' = Disturbed
  /\ UNCHANGED <<library, tableVars, configVars, ret>>

-----------------------------------------------------------------------------
(* Matching *)

(* dev_match_chip_config: names, addresses and the text of the bus paths. *)
SameNameAndAddr(d, c) == d.name = c.prefix /\ d.addr = c.addr
Matches(d, c) == SameNameAndAddr(d, c) /\ d.bus = c.bus /\ c.path = "canonical"

On(ds, bus) == {d \in ds : d.bus = bus}

(* Mutant of MatchOne: the names are not compared. *)
MatchOneByAddr(c, as, ds) ==
  IF c.bus \notin as THEN [c EXCEPT !.available = FALSE, !.matched = FALSE]
  ELSE [c EXCEPT !.available = TRUE, !.matched = \E d \in On(ds, c.bus) : d.addr = c.addr]

(* An adapter without devices leaves matched as it was. *)
MatchOne(c, as, ds) ==
  IF c.bus \notin as THEN [c EXCEPT !.available = FALSE, !.matched = FALSE]
  ELSE IF On(ds, c.bus) = {} THEN [c EXCEPT !.available = TRUE]
  ELSE [c EXCEPT !.available = TRUE, !.matched = \E d \in On(ds, c.bus) : Matches(d, c)]

(* dev_for_all_chips_match_config *)
MatchAll(cs, as, ds) == [k \in DOMAIN cs |-> MatchOne(cs[k], as, ds)]

(* Mutant of MatchCrashes: the list is not checked to be empty. *)
MatchCrashesEmpty(cs, as, ds) == as = {}

(* A lookup asserts when there is no adapter at all, and a path that is     *)
(* NULL is compared when everything before it agrees.                       *)
NoPathHits(c, d) == c.path = "none" /\ SameNameAndAddr(d, c)
MatchCrashes(cs, as, ds) ==
  /\ cs # <<>>
  /\ \/ as = {}
     \/ \E k \in DOMAIN cs : \E d \in On(ds, cs[k].bus) : cs[k].bus \in as /\ NoPathHits(cs[k], d)

-----------------------------------------------------------------------------
(* The loops *)

Wanted(op, c) == c.available /\ (op = "remove" <=> c.matched)

(* The chips the loop still comes to: skipping the others changes nothing. *)
Ahead(op, cs, i) == {k \in DOMAIN cs : k > i /\ Wanted(op, cs[k])}

First(S) == CHOOSE k \in S : \A j \in S : k <= j

(* After the loop's last chip, and after the one of one adapter, back.      *)
Ends == call.op = "removeAdapter" \/ Ahead(call.op, chips, call.i) = {}

Crash ==
  /\ library' = "CRASHED"
  /\ UNCHANGED <<kernelVars, tableVars, configVars, call, ret>>

Returns(result) == ret' = result

Begin(op, step, input, by) ==
  [op |-> op, step |-> step, i |-> 0, input |-> input, seen |-> {}, met |-> {}, by |-> by]

TableIsCurrent == adapters = Present(roots, devices) /\ clients = devices

(* A chip that counts as matched though the table has no device for it. *)
Stale(cs) == \E k \in DOMAIN cs : cs[k].matched /\ \A d \in clients : ~Matches(d, cs[k])

(* Mutant of BeginLoop: the chips are as the last scan of a loop left them. *)
BeginLoopUnmatched(op) ==
  /\ library = "READY" /\ call = NoCall
  /\ call' = Begin(op, "next", <<>>, IF TableIsCurrent THEN {} ELSE {"table"})
  /\ Returns("ok")
  /\ UNCHANGED <<kernelVars, library, tableVars, configVars>>

(* initialize_all_config_chips, remove_all_config_chips: match, then loop.  *)
(* An application calls them with an initialised library: before the first  *)
(* i2cdev_init there is no list to go through.                              *)
BeginLoop(op) ==
  /\ library = "READY" /\ call = NoCall
  /\ IF MatchCrashes(chips, adapters, clients)
     THEN Crash
     ELSE /\ chips' = MatchAll(chips, adapters, clients)
          /\ call' = Begin(op, "next", <<>>, (IF TableIsCurrent THEN {} ELSE {"table"})
                                               \cup (IF Stale(chips') THEN {"stale"} ELSE {}))
          /\ Returns("ok")
          /\ UNCHANGED <<kernelVars, library, tableVars, loaded, names>>

InitializeAll == BeginLoop("initialize")
RemoveAll == BeginLoop("remove")

TheChip == chips[call.i]
InStep(step) == call # NoCall /\ call.step = step
At(op, step) == InStep(step) /\ call.op = op

NextChip ==
  /\ InStep("next")
  /\ call' = IF Ends THEN NoCall
             ELSE [call EXCEPT !.i = First(Ahead(call.op, chips, call.i)), !.step = "stat"]
  /\ UNCHANGED <<kernelVars, library, tableVars, configVars, ret>>

(* Mutant of LoopStepFails: the step is retried. *)
LoopStepRetries(by) ==
  /\ call' = [call EXCEPT !.step = "stat", !.by = @ \cup by]
  /\ UNCHANGED <<kernelVars, library, tableVars, configVars, ret>>

(* A failed step is only warned about: on to the next chip, with the        *)
(* matches as they are.  remove_all returns what its last step returned.    *)
LoopStepFails(by) ==
  /\ call' = [call EXCEPT !.step = "next", !.by = @ \cup by]
  /\ Returns(IF call.op = "remove" THEN "error" ELSE "ok")
  /\ UNCHANGED <<kernelVars, library, tableVars, configVars>>

LoopGoesTo(step) ==
  /\ call' = [call EXCEPT !.step = step]
  /\ UNCHANGED <<kernelVars, library, tableVars, configVars, ret>>

(* dev_new_sysfs_i2c_device until its write: a chip without a path crashes, *)
(* and one whose address has a device is done.                              *)
StatNew ==
  /\ At("initialize", "stat")
  /\ \/ TheChip.path = "none" /\ Crash
     \/ TheChip.path # "none" /\ Taken(TheChip.bus, TheChip.addr) /\ LoopGoesTo("rescan")
     \/ TheChip.path # "none" /\ ~Taken(TheChip.bus, TheChip.addr) /\ LoopGoesTo("write")

NewDevice == [bus |-> TheChip.bus, addr |-> TheChip.addr, name |-> TheChip.prefix]

(* Its write to new_device: the kernel refuses when the adapter is gone,    *)
(* the address invalid or taken in the meantime.                            *)
KernelAccepts(d) == d.bus \in Present(roots, devices) /\ d.addr \in Addr /\ ~Taken(d.bus, d.addr)

WriteNew ==
  /\ At("initialize", "write")
  /\ \/ /\ KernelAccepts(NewDevice)
        /\ devices' = devices \cup {NewDevice}
        /\ call' = [call EXCEPT !.step = "rescan"]
        /\ UNCHANGED <<roots, changes, library, tableVars, configVars, ret>>
     \/ ~KernelAccepts(NewDevice) /\ LoopStepFails({"refused"})

(* dev_remove_sysfs_i2c_device and remove_sysfs_i2c_device until the write *)
Removes(step) == At("remove", step) \/ At("removeAdapter", step)

StatRemove ==
  /\ Removes("stat")
  /\ \/ Taken(TheChip.bus, TheChip.addr) /\ LoopGoesTo("write")
     \/ ~Taken(TheChip.bus, TheChip.addr) /\ LoopStepFails({})

Removable(bus, addr) == {d \in devices \ Firmware : d.bus = bus /\ d.addr = addr}

(* Its write to delete_device: refused for a device that is not there, or   *)
(* was not made through new_device.                                         *)
WriteRemove ==
  /\ Removes("write")
  /\ LET victims == Removable(TheChip.bus, TheChip.addr) IN
     \/ /\ victims # {}
        /\ devices' = Settled(roots, devices \ victims)
        /\ call' = [call EXCEPT !.step = "rescan"]
        /\ UNCHANGED <<roots, changes, library, tableVars, configVars, ret>>
     \/ victims = {} /\ LoopStepFails({"refused"})

(* remove_adapters_config_chips: the first device of one adapter that some  *)
(* chip matches, with no match of all before it; the order of the devices   *)
(* is that of readdir.                                                      *)
RemoveAdapterChip(bus) ==
  /\ library = "READY" /\ call = NoCall /\ bus \in adapters
  /\ LET matching(d) == {k \in DOMAIN chips : Matches(d, chips[k])}
         hits == {d \in On(clients, bus) : matching(d) # {}}
         reached(d) == {k \in DOMAIN chips : \A j \in matching(d) : k < j}
         crashers == {d \in On(clients, bus) : \E k \in reached(d) : NoPathHits(chips[k], d)}
     IN \/ crashers # {} /\ Crash
        \/ /\ hits = {} /\ crashers = {}
           /\ Returns("ok")
           /\ UNCHANGED <<kernelVars, library, tableVars, configVars, call>>
        \/ \E d \in hits \ crashers :
             LET k == First(matching(d)) IN
             /\ chips' = [chips EXCEPT ![k].matched = TRUE]
             /\ call' = [Begin("removeAdapter", "stat", <<>>, {}) EXCEPT !.i = k]
             /\ Returns("ok")
             /\ UNCHANGED <<kernelVars, library, tableVars, loaded, names>>

-----------------------------------------------------------------------------
(* Scans *)

(* The listing of /sys/bus/i2c/devices, after the old table was freed.  The *)
(* directories of the adapters are read in a later step.                    *)
Lists(c) ==
  /\ call' = [c EXCEPT !.step = "scan", !.seen = Present(roots, devices), !.met = devices]
  /\ library' = "BUSY"
  /\ adapters' = {} /\ clients' = {}

(* i2cdev_rescan, called by a loop *)
RescanInLoop ==
  /\ InStep("rescan")
  /\ Lists(call)
  /\ UNCHANGED <<kernelVars, configVars, ret>>

(* The devices a scan can have read: one that came during it may be         *)
(* missing, and one that went ends the reading of its adapter's directory,  *)
(* so that any of those behind it are left out.                             *)
Read(c) ==
  {ds \in SUBSET {d \in devices : d.bus \in c.seen} :
     \A bus \in c.seen : On(c.met, bus) \subseteq devices => On(c.met, bus) \subseteq ds}

(* Mutant of Cleanup: the list of chips stays. *)
CleanupKeepsChips(crashes) ==
  IF crashes THEN Crash
  ELSE /\ library' = "UNINITIALIZED"
       /\ adapters' = {} /\ clients' = {}
       /\ names' = NoNames /\ loaded' = FALSE
       /\ call' = NoCall
       /\ UNCHANGED <<kernelVars, chips>>

(* i2cdev_cleanup; it frees the entries of the name array. *)
Cleanup(crashes) ==
  IF crashes THEN Crash
  ELSE /\ library' = "UNINITIALIZED"
       /\ adapters' = {} /\ clients' = {}
       /\ chips' = <<>> /\ names' = NoNames /\ loaded' = FALSE
       /\ call' = NoCall
       /\ UNCHANGED kernelVars

(* Mutant of ScanSucceeds: a loop does not match the chips again either. *)
ScanSucceedsUnmatched ==
  /\ InStep("scan")
  /\ call.seen \subseteq Present(roots, devices)
  /\ \E ds \in Read(call) :
       /\ adapters' = call.seen /\ clients' = ds
       /\ library' = "READY"
       /\ call' = IF call.op \in {"init", "rescan"} THEN NoCall ELSE [call EXCEPT !.step = "next"]
       /\ Returns("ok")
       /\ UNCHANGED <<kernelVars, configVars>>

(* A rescan called for itself does not match the chips again. *)
ScanSucceeds ==
  /\ InStep("scan")
  /\ call.seen \subseteq Present(roots, devices)
  /\ \E ds \in Read(call) :
       LET matched == IF call.op = "rescan" THEN chips ELSE MatchAll(chips, call.seen, ds) IN
       IF call.op # "rescan" /\ MatchCrashes(chips, call.seen, ds)
       THEN Crash
       ELSE /\ adapters' = call.seen /\ clients' = ds
            /\ chips' = matched
            /\ library' = "READY"
            /\ call' = IF call.op \in {"init", "rescan"} THEN NoCall ELSE [call EXCEPT !.step = "next"]
            /\ Returns("ok")
            /\ UNCHANGED <<kernelVars, loaded, names>>

(* Mutant of ScanFails: the loop goes on. *)
ScanFailsUnseen ==
  /\ InStep("scan")
  /\ ~(call.seen \subseteq Present(roots, devices))
  /\ library' = "UNINITIALIZED"
  /\ adapters' = {} /\ clients' = {}
  /\ chips' = <<>> /\ names' = NoNames /\ loaded' = FALSE
  /\ call' = IF call.op \in {"init", "rescan"} THEN NoCall ELSE [call EXCEPT !.step = "next"]
  /\ Returns("error")
  /\ UNCHANGED kernelVars

(* The directory of a listed adapter is gone: the scan fails, and every     *)
(* caller cleans the library up.                                            *)
ScanFails ==
  /\ InStep("scan")
  /\ ~(call.seen \subseteq Present(roots, devices))
  /\ Cleanup(FreeCrashes(names))
  /\ ret' = IF library' = "CRASHED" \/ call.op = "removeAdapter" THEN ret ELSE "error"

-----------------------------------------------------------------------------
(* i2cdev_init, i2cdev_rescan, i2cdev_cleanup *)

I2cdevInit(input) ==
  /\ call = NoCall /\ library = "UNINITIALIZED"
  /\ library' = "BUSY"
  /\ call' = Begin("init", "load", IF loaded THEN <<>> ELSE input, {})
  /\ UNCHANGED <<kernelVars, tableVars, configVars, ret>>

(* parse_config: the name of a file, if it has one, then its lines. *)
LoadName ==
  /\ At("init", "load") /\ call.input # <<>> /\ Head(call.input).kind = "file"
  /\ IF Head(call.input).named /\ StoreCrashes(names)
     THEN Crash
     ELSE /\ names' = IF Head(call.input).named THEN RecordName(names) ELSE names
          /\ call' = [call EXCEPT !.input = Tail(@)]
          /\ UNCHANGED <<kernelVars, library, tableVars, loaded, chips, ret>>

LoadLine ==
  /\ At("init", "load") /\ call.input # <<>> /\ Head(call.input).kind = "line"
  /\ chips' = ParseLine(chips, Head(call.input).line)
  /\ call' = [call EXCEPT !.input = Tail(@)]
  /\ UNCHANGED <<kernelVars, library, tableVars, loaded, names, ret>>

(* A file that cannot be opened, unless it does not exist *)
LoadFails ==
  /\ At("init", "load") /\ call.input # <<>> /\ Head(call.input).kind = "unreadable"
  /\ Cleanup(FreeCrashes(names))
  /\ ret' = IF library' = "CRASHED" THEN ret ELSE "error"

(* Mutant of Loaded: init_once is not set. *)
LoadedForgets ==
  /\ At("init", "load") /\ call.input = <<>>
  /\ Lists(call)
  /\ UNCHANGED <<kernelVars, configVars, ret>>

Loaded ==
  /\ At("init", "load") /\ call.input = <<>>
  /\ Lists(call)
  /\ loaded' = TRUE
  /\ UNCHANGED <<kernelVars, chips, names, ret>>

RescanTable ==
  /\ call = NoCall /\ library = "READY"
  /\ Lists(Begin("rescan", "scan", <<>>, {}))
  /\ UNCHANGED <<kernelVars, configVars, ret>>

(* i2cdev_rescan: without a library it initialises one, from the default    *)
(* configuration.                                                           *)
I2cdevRescan == RescanTable \/ \E items \in DefaultInputs : I2cdevInit(items)

I2cdevCleanup ==
  /\ call = NoCall /\ library = "READY"
  /\ Cleanup(FreeCrashes(names))
  /\ UNCHANGED ret

-----------------------------------------------------------------------------
ApplicationCalls ==
  \/ \E items \in CallerInputs \cup DefaultInputs : I2cdevInit(items)
  \/ I2cdevRescan \/ I2cdevCleanup
  \/ InitializeAll \/ RemoveAll \/ \E b \in Bus : RemoveAdapterChip(b)

LibraryStep ==
  \/ LoadName \/ LoadLine \/ LoadFails \/ Loaded
  \/ NextChip \/ StatNew \/ WriteNew \/ StatRemove \/ WriteRemove
  \/ RescanInLoop \/ ScanSucceeds \/ ScanFails

Next ==
  /\ library # "CRASHED"
  /\ KernelStep \/ ApplicationCalls \/ LibraryStep

Spec == Init /\ [][Next]_vars

(* A process in a call is scheduled; applications and the kernel need not act. *)
FairSpec == Spec /\ WF_vars(library # "CRASHED" /\ LibraryStep)

-----------------------------------------------------------------------------
(* Properties *)

(* The process goes down only for one of three reasons in its input: a      *)
(* configuration file with a name, whose entry in the name array is freed   *)
(* as if it were a pointer; a chip without a path; or chips to look up when *)
(* no adapter was found, where a lookup asserts.                            *)
NothingFound == adapters = {} /\ (call = NoCall \/ (call.step = "scan" /\ call.seen = {}))

CrashHasCause ==
  library = "CRASHED" =>
    \/ names.count > 0
    \/ \E k \in DOMAIN chips : chips[k].path = "none"
    \/ chips # <<>> /\ NothingFound

(* The names that parse_config keeps for error reporting do the process no  *)
(* harm when i2cdev_cleanup frees the resources of the library.             *)
NamesAreHarmless == library = "CRASHED" => names.count = 0

(* A loop over the configured chips goes on with a chip of the list: the    *)
(* cleanup that follows a failed rescan frees the list, and ends the loop.  *)
LoopChipIsListed ==
  (call # NoCall /\ call.op \in {"initialize", "remove", "removeAdapter"}) =>
    /\ call.i \in DOMAIN chips \cup (IF call.step = "next" THEN {0} ELSE {})
    /\ call.step # "scan" => library # "UNINITIALIZED"

(* A list that is in use comes from one source, read once, however          *)
(* initialisations, failed rescans and cleanups follow each other.          *)
AsRead(c) == [c EXCEPT !.matched = FALSE, !.available = FALSE]

(* cs are the chips of the first n items, each line's at its place.         *)
ReadUpTo(cs, items, n) ==
  LET lines == {k \in 1..n : items[k].kind = "line" /\ IsChipLine(items[k].line)}
  IN \E at \in [DOMAIN cs -> lines] :
       /\ \A j, k \in DOMAIN cs : j < k => at[j] < at[k]
       /\ \A line \in lines : \E k \in DOMAIN cs : at[k] = line
       /\ \A k \in DOMAIN cs : AsRead(cs[k]) = ChipOf(items[at[k]].line)

ReadFrom(cs, items) == ReadUpTo(cs, items, Len(items))

ChipsOfOneSource ==
  library = "READY" => \E items \in CallerInputs \cup DefaultInputs : ReadFrom(chips, items)

(* initialize_all_config_chips, begun with a table that agrees with the     *)
(* kernel and not disturbed or refused, leaves a device at the address of   *)
(* every chip whose adapter there is, those behind multiplexers it created  *)
(* itself included, when the file names multiplexers before what is behind  *)
(* them.  Chips whose "matched" is stale are the exception.                 *)
ParentsFirst ==
  \A j, k \in DOMAIN chips :
    (Provider[chips[k].bus] # NoDevice /\ SameNameAndAddr(Provider[chips[k].bus], chips[j])
      /\ Provider[chips[k].bus].bus = chips[j].bus) => j < k

LoopDone(op) == At(op, "next") /\ Ends

AllConfigured ==
  \A k \in DOMAIN chips : chips[k].bus \in Present(roots, devices) => Taken(chips[k].bus, chips[k].addr)

InitializeConfigures ==
  LoopDone("initialize") /\ call.by = {} /\ ParentsFirst => AllConfigured

(* Without that exception it is what i2cdiscov.h says of the function.      *)
InitializesAll ==
  LoopDone("initialize") /\ call.by \subseteq {"stale"} /\ ParentsFirst => AllConfigured

(* remove_all_config_chips under the same conditions leaves no device that  *)
(* a configured chip matches; stale marks do not matter to it.              *)
RemoveClears ==
  LoopDone("remove") /\ call.by \subseteq {"stale"} =>
    \A k \in DOMAIN chips, d \in devices : ~Matches(d, chips[k])

(* With a table that agrees with the kernel, the library deletes only       *)
(* devices that a configured chip matches, and what is behind them.         *)
DeletesOnlyConfigured ==
  [][ (Removes("write") /\ TableIsCurrent /\ devices' \subseteq devices /\ changes' = changes) =>
        \A d \in devices \ devices' :
          \/ \E k \in DOMAIN chips : Matches(d, chips[k])
          \/ Provider[d.bus] \in devices \ devices' ]_vars

(* What is still to do in a call, the most significant first.               *)
StepsToCome ==
  CASE call.step = "load" -> 5 [] call.step = "stat" -> 4 [] call.step = "write" -> 3
    [] call.step = "rescan" -> 2 [] call.step = "scan" -> 1 [] call.step = "next" -> 0

CallRank ==
  IF call = NoCall THEN <<0, 0, 0, 0>>
  ELSE <<1, Len(call.input), Cardinality({k \in DOMAIN chips : k > call.i}), StepsToCome>>

(* Each step of a call leaves less to do, whatever the scans of a loop find *)
(* and match anew and whatever fails: no chip is come to twice.             *)
CallShrinks == [][LibraryStep => library' = "CRASHED" \/ LexLess(CallRank', CallRank)]_vars

(* Every call returns, whatever fails or changes meanwhile.                 *)
CallReturns == call # NoCall ~> call = NoCall \/ library = "CRASHED"
==============================================================================
