# Verification of libi2cdev

libi2cdev lets Linux programs talk to I2C and SMBus devices by *path* (where a
device sits behind multiplexers) instead of by bus number. The kernel hands the
numbers out again whenever an adapter or a multiplexer comes and goes; the
library therefore scans sysfs, keeps a table of adapters, attaches each client
device to one of them, and repairs the table when it sees, at an open, that a
number now names another device node. That repair, what it does to the
pointers and descriptors of every *other* client, and what happens when it
fails half-way, is the core of the library and of this project.

Contents: 1. inventory - 2. plan - 3. the model and the code - 4. the runs -
5. fairness - 6. proofs - 7. findings - 8. limits and what is not modelled.

## 1. Inventory

| Component | State | Operations | Hard behaviour |
|---|---|---|---|
| **Life cycle and cache validity** (`libi2cdev/init.c`, `i2c-error.c`) | `libi2csmbmagic` (UNINITIALIZED, BUSY, READY, NOT_READY), `i2cdev_rescan_required` | `i2cdev_init`, `i2cdev_rescan`, `i2cdev_cleanup` | rescans that fail half-way; a flag that survives a cleanup; calls in unusual states |
| **Client and adapter access** (`smbus-dev.c`, `busses.h`) | per client `adapter`, `client_node`, `path`; per adapter `fd`, `ready`, `char_dev`/`char_dev_uid`, `user_clients` | `dev_i2c_new_device`, `dev_i2c_open`, `dev_i2c_close`, `dev_i2c_delete`, `dev_i2c_transfer_data`, `dev_i2c_smbus_probe` | kernel changes between `stat`, `open` and the scan; adapters shared by clients; a rescan inside one client's call that frees what others point to |
| **Kernel** (i2c core, i2c-dev, devtmpfs; external) | bus behind each number, node `/dev/i2c-N` and its identity, devices | adapters, nodes and devices come and go | concurrent with everything |
| **Bus discovery and tree** (`i2c-bus-parser.c`, `i2c-bus-lists.h`) | `adapter_global_array`, its count, the tree through `parent`/`children`, `bus_id`, `chan_id`, generated paths | `gather_i2c_dev_busses`, `free_adapter_list`, lookups by number and by path, path generation and matching | a torn scan; multiplexer ids that depend on sibling order; no adapter at all |
| **Device path parser** (`i2c-dev-path.c`) | the array of tokens it fills | `parse_token`, `parse_i2cdev_path` | a store before the check for room, numbers cut to an int, errors that are dropped |
| **SMBus calls** (`smbus.c`, the `dev_i2c_*` calls of `smbus-dev.c`) | the block on the stack, the descriptor | one wrapper per SMBus protocol; reads, writes and transfers | length clamps, return conventions, a way out of each of seventeen functions for each step that fails |
| **Configuration and configured chips** (`access.c`, `data.c`, parts of `init.c`) | list of configured chips with `matched`, `adapter_available`; file name table | `parse_config`, `dev_for_all_chips_match_config`, `initialize_all_config_chips`, `remove_all_config_chips`, `remove_adapters_config_chips` | loops that rescan while they walk the list; stale `matched`; the growth of the table |
| **sysfs access** (`sysfs.c`) | mount point | reading attributes; `new_device`, `delete_device` | other writers between a check and a write |
| **lsi2c** (`lsi2c/lsi2c.c`) | options, `err` | lists, probes, initialises, removes, rescans | order of its options, exit paths, a loop entered again from inside |
| **Logging, error strings** | none | formatting | none |

How they interact. The library is single-threaded: one call runs at a time.
What interleaves with it is the kernel, where hardware and other processes add
and remove adapters, nodes and devices. A transfer (`dev_i2c_smbus_*`) calls
`dev_i2c_open`, selects the address, runs the ioctl and calls `dev_i2c_close`.
`dev_i2c_open` tries the client's adapter; when `stat` reveals another node
than a *ready* adapter was opened with, the adapter becomes not ready, the
"rescan required" flag is set, and `dev_i2c_open` calls `i2cdev_rescan`: every
adapter object is freed (its descriptor closed, the `adapter` pointer of every
client on its `user_clients` list cleared) and the table is built anew. The
client is then looked up by its path and attached (`dev_i2c_new_adapter`). A
failed rescan cleans the library up for everybody. The loops over the
configured chips make or remove one device through sysfs, rescan, match the
chips again with what was found, and go on; a device that is a multiplexer
brings new adapters, on which further chips are.

What makes each component correct:

- *life cycle*: a table exists only when READY; the flag is set only while
  something will clear it; after a failure a re-initialisation is usable;
- *access*: no client keeps a pointer to a freed adapter; a call never touches
  an adapter its own rescan freed; each descriptor has one owner and is closed
  on every exit; a transfer goes to the node and to the bus that was verified;
  a client whose bus moved gets back to it;
- *bus tree*: a generated path denotes the adapter it was generated for and
  survives renumbering; every scanned adapter is on one list and there once;
- *path parser*: a well-formed path finds what it denotes, nothing is stored
  beyond `MAX_BUS_DEPTH`;
- *SMBus calls*: whatever fails, only the client's device is touched; success
  means one complete transaction, or a count of messages that tells otherwise;
  no length that the caller gives leaves a buffer;
- *configuration*: a loop leaves a device for every chip, or none, in spite of
  the rescans it causes; only configured devices are deleted; the list comes
  from one source;
- *lsi2c*: does what its options ask, and exits with the library cleaned up.

`PROJECT.json` lists, under "hazards", each place where one of these could go
wrong unnoticed by a test.

## 2. Plan

| Module | Models | State |
|---|---|---|
| `KernelBuses` | buses and nodes of the kernel as the library sees them | done |
| `AdapterCache`, `MCAdapterCache` | life cycle, clients, opens, transfers, close, delete, probe | done |
| `CacheGeneration` | abstract promise about client pointers | done, refinement checked and proved |
| `AdapterCacheProofs` | theorems about both | every safety property and the refinement proved |
| `BusTree`, `MCBusTree`, `BusTreeProofs`, `BusScanProofs` | the linked-list tree, bus ids, path generation and lookup, torn scans, freeing | done; every safety property proved |
| `DevPath`, `DevPathProofs` | `parse_i2cdev_path` into its array, and the walk down the tree | done and proved |
| `SmbusCall`, `MCSmbus`, `SmbusCallProofs` | every call on a device from the lookup of its path to the close | done and proved |
| `ConfigFile`, `ConfigChips`, `MCConfig`, `ConfigChipsProofs`, `ConfigLoopsProofs` | configuration files, matching, the loops, their writes to sysfs and rescans | done; every safety property proved |
| `Lsi2c`, `MCLsi2c`, `Lsi2cProofs` | `main` of the utility on top of `ConfigChips` | done; every safety property proved |
| `Variant` | the order in which what is still to do falls, in `BusTree`, `ConfigChips` and `Lsi2c` | done |

`SmbusCall` extends `DevPath`, `ConfigChips` extends `ConfigFile`, `Lsi2c`
extends `ConfigChips`, `AdapterCache` and `BusTree` extend `KernelBuses`.

Order: the adapter cache first because every client call depends on it; then
the tree, because the cache abstracts it ("the bus a path denotes"); then what
is layered on both.

Abstract specifications worth stating: `CacheGeneration` (done); "a path is a
stable name of a bus", which is the invariant `PlaceDenotesBus` of `BusTree`: a
place is computed from the topology alone, so two quiet scans of the same
topology give the same bus under it, whatever the numbers.

Left: a composition of `BusTree` with the clients of `AdapterCache`, which would
show what becomes of a client attached to an adapter that a torn scan left over.

## 3. The model and the code

### KernelBuses (external)

`node[n]` is the bus registered as number `n` and the identity (`st_dev`,
`st_ino`) of `/dev/i2c-n`, either NULL. `Plug`/`Unplug` are
`i2c_add_adapter`/`i2c_del_adapter`, `MakeNode`/`DropNode` what i2c-dev and
devtmpfs do. Node and adapter are separate, so a scan can see an adapter that
has no node (yet). A bus keeps its place in the topology but not its number.
The identity of a new node is one in use nowhere (see bounds).

### AdapterCache

| Variable | Code |
|---|---|
| `libState` | `libi2csmbmagic` (BUSY lasts only inside an init or a rescan, which is one step here) |
| `rescanRequired` | `i2cdev_rescan_required` |
| `scan`, `adapters` | `adapter_global_array`; each scan allocates new objects, hence the tag `scan` in an adapter's identity |
| `adapters[a].bus/uid/ready/fd/users` | the place in the tree, `char_dev`+`char_dev_uid`, `i2c_adapt.ready`, `i2c_adapt.fd`, `user_clients` |
| `client[c]` | an allocated `SMBusDevice` (`path`) and its `adapter` pointer |
| `fds` | the process's open i2c-dev descriptors and the bus and node each was opened for |
| `call` | the frame of the running call: where it is (`pc`), for whom, which call site of `dev_i2c_open_i2c_dev` (`site`), with which adapter, and what the last rescan returned |

`client_node` is not a variable: `register_client_node` never assigns it, so
it is always NULL, and `remove_client_node` does nothing. That is why
`DeleteDevice` leaves `users` alone and why a client can be on a list twice
(the model's set does not count).

`init_once` is not one either: it is true exactly from the parsing of the
configuration to the next cleanup, so an init past its early return always
finds it false.

A call is cut where it talks to the kernel. `dev_i2c_open`
(`smbus-dev.c` 425-489) is:

| Step | Code |
|---|---|
| `BeginOpen` | 425-449: refuse an invalid cache (465), try the adapter there is, or go on to the lookup |
| `StatFails`, `StatFindsStale`, `StatAccepts` | 183-207, at each of the three places `dev_i2c_open_i2c_dev` is called from (`site`): the open of an attached adapter, the one inside `dev_i2c_new_adapter`, the final one |
| `OpenFails`, `AttachOpens`, `DeviceOpens` | 209-218; in an attach followed by the close and `ready = true` of 361-366 |
| `RescanInOpen` | 449-458 |
| `LookupReturnsNothing`, `AttachRefused`, `AttachBegins` | 460-478 with `dev_i2c_new_adapter` 329-356 |
| `Transfer` | the body of each SMBus call up to and with its `dev_i2c_close` |

`OpenDevFailed` is the return path of a failed `dev_i2c_open_i2c_dev`, which
differs by call site. `I2cdevInit`, `I2cdevRescan`, `I2cdevCleanup` are the
life cycle calls in every state, including a rescan in NOT_READY, which falls
into the cleanup and returns 0. `BeginProbe` models `dev_i2c_smbus_probe`,
whose stack client (`Dummy`) uses an adapter without being registered.
`Aborted` is a failed `assert`: the process is gone, only the kernel goes on.

`May` names what else a run allows: explicit opens by the application, kernel
changes inside a call, failing scans, failing opens, a missing sysfs.

Abstractions, each of which keeps all control:

- a scan is one step, and its tree is the set of adapters, each with its bus;
  a client's path is the bus it denotes. `PlaceDenotesBus` of `BusTree` is what
  justifies it. The first element of a path is a number, so a "bus" here is a
  place below a root adapter that keeps its number;
- the scan's failures (`scandir`, `opendir`, `parse_config`) are one outcome;
- `open` returns any free descriptor, not the lowest;
- allocation failures are left out; addresses and data of transfers too;
- the clients' user lists are sets.

### CacheGeneration

`gen` is the generation of the table and `bound[c]` the one client `c` is bound
to. A rebuild unbinds everyone in the same step; a client binds only to the
current generation, and only when it is unbound. `AdapterCache` implements it
with `gen <- scan` and `bound[c] <-` the tag of `c`'s adapter. It is what the
rest of a program may rely on without knowing of numbers, nodes or descriptors.

### BusTree

A scan, step by step, on the kernel of `KernelBuses` with a topology: `Parent`
and `Chan` say where each bus hangs. A bus appears only below a bus that is
there and goes before it does. Numbers are arbitrary, which includes the
kernel's order.

| Variable | Code |
|---|---|
| `dir` | sysfs (external): per number the path of the adapter's directory, as the numbers on the way to it |
| `adapters` | `adapter_global_array` and its objects: `devpath` (as numbers; `parent_id` is read off it as the code does), `chan_id`, `bus_id`, `children`, `bus.path` (as tokens) |
| `search`, `root` | the temporary list of `gather_i2c_dev_busses`, `dev_bus_list_headp` |
| `todo` | the recursions of `bus_children_get` and `foreach_devbus_tree`: the adapters whose turn is still to come |
| `left` | adapters whose directory is still to be read |
| `changes` | history, not in the code: kernel changes since the scan began |

| Step | Code |
|---|---|
| `BusAppears`, `BusGoes` | the kernel (external): an adapter registered below its parent, or removed when nothing is below it |
| `BeginScan`, `ReadAdapter`, `SortArray` | `i2c_sysfs_gather_adapters`: `scandir`, `sysfs_read_i2c_dev_bus_adapter` per name (one that is gone is passed over), `qsort`, and the search list |
| `TakeRoot` | the root loop of `adapter_tree_build` |
| `TakeChild`, `ChildrenTaken`, `TreeBuilt` | `bus_children_get` with `compare_bus_list_insert` and `count_bus_match_channel_set_bus` |
| `GeneratePath`, `PathsGenerated` | `generate_bus_paths`: a turn of `foreach_devbus_tree` with `match_set_path_test`, and its end |
| `OpenDirectory`, `DirectoryGone` | `gather_i2c_adapters_devices`: one that is gone here fails the scan, which ends in `i2cdev_cleanup` |
| `Finds` | `search_devbus_tree_fast_path` (an operator: it changes nothing), as the trail of adapters that the tokens of a path lead along |

The kernel moves between the steps that read sysfs; steps in memory run
together. Paths are sequences of tokens; their text is `DevPath`'s. That a
path's text fits `NAME_MAX` is left out: a tree would have to be dozens of
multiplexers deep.

### DevPath

One lookup by path in a tree that stays as it is.

| Variable | Code |
|---|---|
| `path` | the argument, as what is between its colons: empty, or what `strtoul` makes of the number and of what follows a dot |
| `count`, `disc` | `token_cnt` and the array of `MAX_BUS_DEPTH` entries in `parse_i2cdev_path` |
| `depth`, `match` | the loop variable and `dev_match` of `search_devbus_tree_fast_path` |
| `state` | which of the two functions runs, or how the process went down: by a store past the array, or by the assert |

`NextToken` and `EndPath` are a turn and the end of the parser's loop, which
stores before it checks for room; `WalkFirst` and `WalkChild` are the lookup of
the first number among *all* adapters, and one level of the tree. `ToInt` is
the assignment of an `unsigned long` to an `int`. The meaning of a path is
stated without the array: `Denotes` asks for a trail of adapters, each the
child of the one before that the next token names.

### SmbusCall

One call, on top of the lookup.

| Variable | Code |
|---|---|
| `request` | the function called (those that have everything in common are one), address, ten-bit flag, length |
| `step` | where it is: lookup, the probe's check of the address, open, functionality, slave address, access, close |
| `fd`, `slave` | the open descriptor and the address the kernel keeps for it |
| `wire` | the transactions made, with bus, address and whether they were complete |
| `failure` | the errno of the step that failed, as history |
| `block`, `got` | bytes put into the block on the stack, and stored in the caller's buffer |
| `ret` | the result |

Each step that asks the kernel can fail. A transaction that fails may still
have reached the device (`complete` is FALSE then), and `I2C_RDWR` may do fewer messages than
it was given without failing, which `i2c_transfer` returns as it is. Values of
bytes and words are left out: the wrappers copy them. The length of a device's
answer (`Replies`) is any byte: the wrappers do not look at it, and nothing that
is claimed rests on the 32 bytes that SMBus and the kernel allow.

### ConfigFile and ConfigChips

`ConfigFile` is what `parse_config_file` makes of a line, told apart by its
dashes, its type, how its bus is spelled and its address, and the array of file
names with glibc's `realloc`. `ConfigChips` is everything done with the chips.

| Variable | Code |
|---|---|
| `roots`, `devices`, `changes` | kernel: root adapters, devices in `/sys/bus/i2c/devices`, changes by others so far |
| `library` | `libi2csmbmagic`, or "CRASHED" |
| `adapters`, `clients` | the last scan's adapters, by place, and the `dev_chip` entries below them |
| `loaded`, `chips` | `init_once`, `p_dev_config_list_head` |
| `names` | `dev_config_files` with count and capacity |
| `call` | the call in progress: its step, the chip its loop is at (`i`), what it has still to read, what its scan listed; `by` is history: what disturbed it |
| `ret` | the last result |

| Action | Code |
|---|---|
| `I2cdevInit`, `LoadName`, `LoadLine`, `LoadFails`, `Loaded` | `i2cdev_init` with `parse_config`, `parse_config_file` |
| `BeginLoop`, `NextChip` | `initialize_all_config_chips`, `remove_all_config_chips`: matching, and the loop's conditions |
| `StatNew`, `WriteNew`, `StatRemove`, `WriteRemove` | `dev_new_sysfs_i2c_device`, `dev_remove_sysfs_i2c_device`: the check of the device's directory and the write are two steps |
| `RescanInLoop`, `ScanSucceeds`, `ScanFails` | the rescan after it: the listing, and the reading of the adapters' directories |
| `RemoveAdapterChip` | `remove_adapters_config_chips` |
| `KernelStep` | others add or remove a device or a root adapter |

An adapter behind a multiplexer is there exactly when the multiplexer's device
is (`Provider`). Adapters are denoted by place, so renumbering is left to
`BusTree` and `AdapterCache`. A device that came during a scan may be missing
from the table; one that went ends the reading of its directory, so that any
behind it may be missing (`Read`).

### Lsi2c

`main` of the utility, one step per branch, with `ConfigChips` under it:
`options` is the command line, `stage` where main is, `err` its variable,
`left` the rescans of `-R` still to make, `status` the exit status. The order
of the options is the order in which main asks for them (`Order`): `-C`, `-r`,
`-i`, `-S` and `-T`, `-P`, `-F`, and what prints; `-F` needs an adapter like `-S`
and `-T` (`NeedsAdapter`) but is asked after the probe. What an option does
without changing the library is one of two results. A configuration file named
`-` is opened under that name, as the code does it (section 7).

## 4. The runs

| Run | Checks | Shows |
|---|---|---|
| `calls` | `TypeOK`, `NoFdLeft`, `UsePinned`, `RescanReroutes`, `IdleCacheValid` | any sequence of calls of two clients and of probes, with failing opens, while buses come, go and change numbers between calls; one number is 256, beyond what `dev_i2c_open_i2c_dev` accepts |
| `hotplug` | `NoDanglingAdapter`, `CallUsesLiveAdapter`, `FdOwned`, `ImplementsGenerations` | the same with kernel changes at every step inside a call, with scans that fail, and with an application that also opens devices itself and leaves descriptors open |
| `live` | `StaleIsRerouted` | a client that keeps transferring gets back to its bus |
| `tree` | `TypeOK`, `OnOneList`, `LookupFindsPath`, `IdIsRank`, `PlaceDenotesBus`, `LeftOutOnlyByReuse`, `ScanShrinks`, `ScanEnds` | scans during which adapters come, go and change numbers: each scanned adapter is on exactly one list at every step, is found under its path, and left out of the tree only when a number was given again; after a quiet scan each bus is found under its *place*, a name that does not depend on the numbers of nested adapters; the scan ends, even when parents read at different times form a cycle |
| `smbus` | `TypeOK`, `FoundIsDenoted`, `RoomForPath`, `TouchesItsDevice`, `SuccessMeansDone`, `FitsBuffers`, `ErrnoIsTheCause`, `Returned` | every call, on every path of up to three tokens of twelve kinds and on long ones, with every step failing: the path finds what it denotes, only the client's device is touched, no length given by the caller leaves a buffer, the result says what happened, the descriptor is closed |
| `chips` | `TypeOK`, `CrashHasCause`, `LoopChipIsListed`, `ChipsOfOneSource`, `InitializeConfigures`, `RemoveClears`, `DeletesOnlyConfigured`, `CallReturns` | any sequence of initialisations, rescans, cleanups and loops over the configured chips, while others change devices and adapters at any step; each call returns |
| `utility` | `OneConfiguration`, `ExitsCleanedUp`, `RemoveIsDone`, `InitializeIsDone`, `MainShrinks`, `MainExits` | lsi2c with combinations of its options on the same boards: what it did when it reaches `done`, how it exits, and that it does although a failed rescan jumps back to `done` |
| `delete`, `rescan_ok`, `block_answer`, `init_all`, `named_file` | one documented claim each | the claim does not hold; section 7 |

Deadlock is checked where the modelled system never stops. `smbus`, `chips`,
`utility`, `block_answer` and the two violation runs of `ConfigChips` switch it off: a call that
returned, a process that crashed and a `main` that exited do nothing more.

Bounds of the `AdapterCache` runs. Two clients (one shares, one suffers the other's rescan), two buses and
two numbers up to 255 (renumbering, exchange of two buses, a number taken over by
the other bus; `calls` has 256 besides), two descriptors (a leak and an owner; the table of descriptors can
be full), two scan tags (only the current table and the one it replaces are
ever compared, and a dropped table leaves no object behind, which
`NoDanglingAdapter` confirms), three node identities. `FreshIno` makes a new
node wait until an identity is free that no node, adapter or open file has;
three are enough for two nodes to exist while an adapter remembers another
(`hotplug`, the largest run, has two: one node and the one remembered).
This cuts off only states where more identities are remembered at once than
that. The sets are interchangeable, so the safety runs use symmetry; `live`
does not, because symmetry is not sound for liveness, and has one client and
one descriptor instead. The largest run (`hotplug`) has 2.6 million distinct
states.

The same property may need different runs: `NoFdLeft` is about applications
that only transfer and probe, `UsePinned` and `RescanReroutes` about a kernel
that is still *during* a call (otherwise the node can change between `stat` and
`open`, which the code does not guard against), `IdleCacheValid` about such a
kernel and about scans that succeed. `calls` therefore has no failing scan;
that those leave no descriptor open and no transfer on another node either is
what the theorems `NothingStaysOpen`, `TransfersArePinned` and
`ReroutedTransfers` say, which do not exclude them. What lies outside is shown by the violation runs or
described in section 8.

Bounds of `tree`. Five buses: a root, two multiplexers on it that use the same
channel, and below the second a multiplexer with that channel again and a plain
adapter. Four numbers, so that every subset of four of them occurs in every
numbering. `MaxChanges` bounds the kernel's changes while a table is built or
kept; between a cleanup and the next scan they are free. Two removals are
enough for an adapter without its parent, three changes for a number given
again, four for a renumbering that makes a cycle: the run has five, and 538,975
distinct states.

Bounds of `smbus`. Four adapters: a root, the same channel of two multiplexers,
and a plain child with a number above 255. `MaxBusDepth` is 5 and `IntHalf`
1000 instead of the code's values: paths of four to eight tokens are then
around the end of the array, and 2000 is a number that an int turns into 0.
Lengths are 0, 1, 32, 33 and 255 around `BlockMax` 32, which is the code's. The
addresses are those that the checks and the probe tell apart.

Bounds of `chips` and `utility`. Two root adapters and a channel behind a
multiplexer that the configuration creates; a device of the firmware, which
cannot be deleted; two addresses. Seven configurations of an application and
four sets of default files: parent before child, child before parent, a device
that is there already, buses spelled otherwise or not at all, missing
addresses, named and unreadable files. The firmware has at most one device at
an address of an adapter, which the i2c core sees to. Two changes by others
suffice for a device that goes and another that takes its address, or an adapter
that goes and comes back. `chips` has 286,501 distinct states, `utility`
1,185,019. Its command lines ask for one thing, or for two that main has to choose
between: removing and initialising, setting and printing, setting and probing,
probing and `-F`.

Each property of a run has a mutant (the operators commented "Mutant of" in the
modules): a plausible bug in the code that makes the property fail in the same
run, which shows that the property constrains the code.

## 5. Fairness

`FairSpec` assumes

- `WF_vars(CallContinues)`: a call that was begun goes on. It is one thread
  executing straight-line code, without a wait other than for the kernel's
  answer to `stat`, `open` or an ioctl;
- `SF_vars(BeginOpen(c, "xfer"))` for each client: it keeps transferring. A
  client polls a sensor; nothing in the library makes it, so `StaleIsRerouted`
  is a statement about clients that do. Strong, because other calls come in
  between and disable it.

The others assume weak fairness of the thread that executes, for the same
reason as the first: `BusTree` `WF_vars(ScanContinues)`, `SmbusCall`
`WF_vars(Next)`, `ConfigChips` `WF_vars` of `LibraryStep` in a process that is
up, `Lsi2c` of `main` and the library together. Applications need not call and
others need not change anything. That a loop over the chips returns
(`CallReturns`) rests on its place in the list, not on the bound of changes: a
failed step goes on to the next chip, and is not tried again.

Three of the liveness properties have their reason stated beside them, as an
action property that needs no fairness. `ScanShrinks`, `CallShrinks` and
`MainShrinks` say that each step of a scan, a call or the utility makes a tuple
of natural numbers smaller (`Rank`, `CallRank`, `MainRank`), the most
significant first (`LexLess` of `Variant`). The steps of the kernel and of
others change nothing that the tuple is made of, and there is no infinite
descent, so that only finitely many steps are made; fairness has them made.

The run `live` allows no failing scan or open (`May = {}`): a system call that fails
for ever makes progress impossible, and a failed scan shuts the library down.
The kernel is under no fairness: buses need not come back. `StaleIsRerouted`
is discharged when the buses move again, for then the premise is a new one.

## 6. Proofs

Eight modules hold theorems, each component with an inductive invariant of its
own. They hold for all values of the constants that satisfy
the named assumptions, all of which TLC evaluates in the runs.

**AdapterCacheProofs**, for all sets of clients,
buses, numbers, identities, descriptors and scans, and every `May`:
`TypeCorrect` (`TypeOK`), `NoClientDangles` (`NoDanglingAdapter`),
`ClientsAreListed` (`AttachedIsRegistered`), `CallsAreSafe`
(`CallUsesLiveAdapter`, with kernel changes at any step), `DescriptorsAreOwned`
(`FdOwned`), `NothingStaysOpen` (`NoFdLeft`), and `GenerationsImplemented`:
`AdapterCache` implements `CacheGeneration`. Three more have a hypothesis on
`May`, the one under which the runs check them: `TransfersArePinned`
(`UsePinned`) and `ReroutedTransfers` (`RescanReroutes`) that the kernel does
not change within a call (`KernelWaits`), `CallsRepairTheCache`
(`IdleCacheValid`) that no scan fails either. Without `KernelWaits` they do not
hold: between `stat` and `open` the node may be replaced (section 8).

Assumptions: `KernelAssumption`, `CacheAssumption` and `AdapterIdAssumption`,
which say that NULL and `Dummy` are not members of the other sets, that numbers
are naturals and that `May` contains only what `MayOf` lists.

None of the properties is inductive alone; `IInv` is their conjunction with two
facts. `NoDanglingAdapter` is kept by a rescan only because every attached
client is on its adapter's list (`AttachedIsRegistered`), for
`free_dev_client_list` clears only the pointers it finds there. That in turn is
kept by `dev_i2c_new_adapter` because the client is registered *before* its
pointer is set, several steps later and across kernel changes
(`AttachIsRegistered`). `i2cdev_init` overwrites the table without freeing it,
which is sound only because a library that is not READY has none
(`TableOnlyWhenReady`). `CallUsesLiveAdapter` holds because only the call's own
rescan can replace the table, and it forgets its adapter there. Types are part
of it because attaching writes to the client of the call, which must not be
the stack client of a probe. `FdOwned` needs the lemma that a fresh descriptor
is held by nobody. The proof has a lemma per kind of change to the table (kept,
replaced, one adapter changed or closed, a descriptor opened) and then one step
per action. The refinement is proved under `IInv` (which is where "a rebuild
unbinds everyone" comes from), each action mapping to `Rebuild`, `Bind`,
`Release` or a stutter.

The properties of calls have invariants of their own on top of `IInv`, each a
record of what an open relies on at its next step. `ClosedBetweenCalls`: without
explicit opens the only descriptor is that of the adapter in use, and it is
there from the final open to the close. `OpensWhatItSaw`: past `stat` the
adapter's identity is the node's, and an attach works on an adapter that is not
ready, so that only the final open has to be pinned. `FreshTable`: after the
call's own rescan the whole table agrees with the kernel, and the lookup's
adapter is on the bus of the path. `FlagMeansRescan`: the flag is up only while
the open that raised it is on its way to the rescan.

**BusTreeProofs**, for every topology, every finite set of numbers and any
number of changes, torn scans included, under `KernelAssumption` and
`TopologyAssumption`: `TreeKeepsTypes` (`TypeOK`), `EachOnOneList`
(`OnOneList`), `ChannelsAreRanked` (`IdIsRank`), `PathsLeadBack`
(`LookupFindsPath`) and `PathsTellApart`: the paths of a finished scan are
distinct. `TreeInv` is what they need. Which list an adapter can be on follows
from its parent (`ByParent`), so no account of moved adapters is kept. The code
compares a new sibling with the *first* of the list only; that the list is in
order all the same is `StillToCome`: the search list falls, its first match is
taken, so that what is still there is smaller than all its siblings in the tree
and is put at their head. That is also why renumbering one channel after each
insertion gives ranks, and why ranks and channels tell siblings apart. `Reached`
says that the tree is what its roots lead to, as an induction over sets of
adapters (every set with the roots and the children of its members has all of
it): in a torn scan parents may form a cycle, which is then left out, and there
is no depth to count by. `PathsSoFar` follows the recursion of
`foreach_devbus_tree`: the parent of an adapter still to come has its path, and
what is below an adapter with a path has one or is still to come; with `Reached`
every adapter of the tree has a path at the end. `PathsFind`, that a path found
its adapter when it was made and keeps doing so, is the induction step for
`LookupFindsPath` from a parent to its child.

**BusScanProofs**, under the same assumptions, relates that tree to the buses of
the kernel: `LeftOutNeedsReuse` (`LeftOutOnlyByReuse`) and `PlacesDenoteBuses`
(`PlaceDenotesBus`). Three invariants are added to `TreeInv`. `KernelInv` is
about sysfs: a bus has one number, and the directory of a bus is in that of the
bus it hangs off (`Placed`, `Trail`), which holds because nothing goes while
something hangs off it. `ScanInv` says how far what was read can be from what
there is, by the number of changes since the scan began (`Reading`): after none
they agree (`AsItIs`); after one they differ by what came or what went, so every
directory that was read is still in one that was read or will be (`OneAway`);
after two an adapter may have lost its parent, but not one that is still there
(`TwoAway`). `Later` is what remains of it when the scan has read everything.
`Taken`: an adapter stays on the search list only if nothing in the tree, and
nothing whose turn is still to come, is its parent.
An adapter that is left out and still there after at most two changes thus has a
parent, left out as well and still there; one with the shortest directory path
among them has none. For `PlaceDenotesBus` the adapters on the path of the
bus's directory are the trail along its place: the id of each is the number of
siblings before it with its channel (`IdIsRank`), and after a quiet scan these
are one to one with the buses that come before its bus in the topology
(`IdCountsBuses`).

`ScanLeavesLess` (`ScanShrinks`) is why a scan ends whatever it read. What falls
is the phase of the scan, the directories still to be read, the length of the
search list, and the number of adapters that the recursion has ahead of it. For
the last, an adapter must not be come to twice: `AheadInv` says that the turns
still to come are of different adapters, and that an adapter on the search list
has nothing below it that is still to come. Parents that form a cycle are below
no root and so never ahead.

**DevPathProofs** and **SmbusCallProofs**, for every tree, every set of paths of
any length and any depth of the array, under `TreeAssumption` (numbers and
multiplexer channels of siblings are distinct, which `IdIsRank` of `BusTree`
gives), `PathAssumption` and `RequestAssumption`. `DevPathProofs` has the step
lemmas of the lookup, `SmbusCallProofs` the theorems: `CallTypes`,
`PathHasRoom`, `LookupIsRight` (`FoundIsDenoted`), `DeviceIsRight`
(`TouchesItsDevice`), `SuccessIsReal`, `BuffersHold`, `ErrnoIsRight`.
`PathInv` says that the array holds the entries of the first `count` tokens and
that the walk stands where those of the path lead: as `Denotes` asks for a whole
trail, the trail is built, or refuted, entry by entry, and needs that a parent
has at most one child for a token. `CallInv` adds what each step of the call may
rely on: nothing was transacted before the access (`BeforeAccess`), a
descriptor is for the adapter found (`Opened`), and after the access the result
agrees with the only transaction (`Outcome`). `BuffersHold` is about the lengths
that callers give, for a block of any size; what devices answer is any byte, and
the two calls that store an answer of the device's own length are not in it (see
`block_answer` in section 7).

**ConfigChipsProofs** and **ConfigLoopsProofs**, for every board, configuration
and number of changes, under `ConfigAssumption` and `KernelAssumption`. The
first has `ChipTypes` (`TypeOK`), `LoopsStayInTheList` (`LoopChipIsListed`) and
`CrashesHaveCause` (`CrashHasCause`). `Position` says which state the library is
in at each step of a call, that a scan starts with an empty table and a
configuration that was read, and where the loop's chip is; `NamesKept` that the
array of names is NULL only before the first name, so that a store through NULL
needs a name before it. That a loop's chip stays in the list needs that matching
keeps its length and that the cleanup after a failed rescan ends the call.

The second has what the loops achieve: `OnlyConfiguredIsDeleted`
(`DeletesOnlyConfigured`, an action property), `RemovesAll` (`RemoveClears`),
`InitializesConfigured` (`InitializeConfigures`) and `OneSource`
(`ChipsOfOneSource`). `LoopInv` adds to the invariant above what the kernel
keeps (one device at an address, every device on an adapter that is there), that
the loop looks at marks that agree with the table (`Marked`), and per loop what
is done for the chips it has passed. The removing loop never has to go back: a
device it deleted does not return. The initialising one may make a multiplexer
whose channel has a chip that was passed already; that this does not happen when
parents come first in the file is where `ParentsFirst` is used. A chip that
counts as matched is passed over, so every mark must have its device
(`MatchedAreThere`), which a stale one has not. Both need that the
table follows the kernel through each rescan of the loop (`TableFollows`), which
fails when others interfere (`call.by`). `OneSource` has an invariant of its
own: what is read and what is still to be read make up one input, line for line.
`CallsLeaveLess` (`CallShrinks`): what is left of the input falls, then the
number of chips behind the loop's, then the steps left at its chip. Matching all
chips anew after each rescan changes what the loop will find at the chips ahead,
not how many there are.

**Lsi2cProofs**, for every command line besides, under `OptionsAssumption`:
`MainKeepsTypes` (`LsiTypeOK`), `OneConfigurationIsUsed` (`OneConfiguration`),
`ExitIsClean` (`ExitsCleanedUp`), `RemovalIsComplete` (`RemoveIsDone`) and
`InitializationIsComplete` (`InitializeIsDone`). Each step of main is a step of
`ConfigChips` for the library, or the crash of a lookup of main's own, so that
`LoopInv` and the invariant of `OneSource` hold here too. `LsiInv` adds which
call main is in at each of its stages, that its loop over the chips begins with
a table that agrees with the kernel (`Fresh`), and that what `-r` or `-i` have
done stays done through the rescans of `-R` (`LoopIsDone`). `MainLeavesLess`
(`MainShrinks`): each step of main is to a later stage, or one in the loop of
rescans, whose count falls when a rescan begins and is 0 when one has failed;
the steps of the library between them fall by `CallsLeaveLess`.

Every invariant and action property of the passing runs is a theorem. Four
theorems state what no run lists: `ClientsAreListed` and `MainKeepsTypes` are
parts of the inductive invariants, `PathsTellApart` follows from
`LookupFindsPath`, and `CallsLeaveLess` is seen in the run `utility`, whose
`MainShrinks` has the rank of the call in it. Only
model-checked are the liveness properties, `StaleIsRerouted`, `ScanEnds`,
`Returned`, `CallReturns` and `MainExits`: they hold under fairness, and the
provers at hand do not reason about ENABLED, which fairness is defined by. For
`ScanEnds`, `CallReturns` and `MainExits` the descent is proved
(`ScanLeavesLess`, `CallsLeaveLess`, `MainLeavesLess`); what rests on the runs
is that a step is possible until the end is reached, that fairness then makes
one be taken, and the induction along the descent.

## 7. Findings

1. `delete` - `register_client_node` never stores the list entry in
   `client->client_node`, so a deleted client is *not* de-registered from its
   adapter, contrary to the comment at `smbus-dev.c:411`; the next rescan or
   cleanup writes through a pointer to the freed client (`init.c:445`).
2. `rescan_ok` - the rescan-required flag survives the cleanup of a failed
   rescan; a later rescan or init returns 0 with a cache that counts as
   invalid, contrary to `smbus-dev.c:451`.
3. `init_all` - a chip whose bus lost its last device keeps `matched`
   (`access.c:183`), and `initialize_all_config_chips` returns 0 without
   creating it, although it is to "Initilize all chips" (`i2cdiscov.h:74`).
   `InitializeConfigures` is what holds: all but those chips.
4. `named_file` - `parse_config` copies the beginning of a file's name into the
   array of names where a pointer belongs (`init.c:111`), and `i2cdev_cleanup`
   frees it (`init.c:909`). Any configuration file with a name, those of the
   default places included, makes the cleanup end the process.
5. `block_answer` - `i2c_smbus_block_process_call` stores as many bytes as the
   device answers (`smbus.c:221`) in the caller's array, of which
   `libi2cdev.h:445` only says that `length` is its size. For the calls that
   read a block the header asks for an array "big enough to hold the data
   returned by the slave" (389, 413), for this one it does not: a device that
   answers with more than it was sent overflows it. `FitsBuffers` is what holds.

Three more disagreements are in the models as the code has them, without a run
of their own, because each can be read off a single statement:

- `lsi2c.c:84`, the help: "Use `-' after `-c' to read the config file from
  stdin". `read_config_file` sets `config_file = stdin` (186) and overwrites it
  with `fopen("-")` (190), so a file called `-` is read, or the program exits
  with "Could not open config file". `OneConfiguration` is about that file
  ("dash" in `Inputs`); of stdin it says nothing.
- `libi2cdev.h:461`, :475 and :488: `dev_i2c_transfer_data`, `dev_i2c_read_data`
  and `dev_i2c_write_data` return "negative errno on failure else 0". They
  return what `I2C_RDWR` does, the number of messages: 2 or 1, or fewer when not
  all were done (`Transfer`), so that a caller has to look at the count to know
  (`AllDone` in `SuccessMeansDone`).
- `i2c-dev-path.c:123` promises a negative errno that the parser never returns
  (section 8, malformed paths).

## 8. Limits, and what is not modelled

True of the code, visible in the models, and outside what the properties claim:

- when a client's old number has no node any more, `stat` fails with ENOENT,
  which does not invalidate the cache: the client gets the error for ever and
  no rescan happens. `StaleIsRerouted` therefore requires that another node
  took the number;
- a second client attaching to a shared adapter makes it not ready again, and
  it then adopts the node it finds. An adapter that is not ready adopts
  whatever node has its number, so a client whose bus was renumbered between
  the scan and its first attach transfers on another bus without an error.
  `UsePinned` speaks of ready adapters, `RescanReroutes` of lookups that follow
  a rescan;
- a second open of an adapter (`dev_i2c_open` twice, or a transfer of another of
  its clients in between) overwrites `adapter->fd`: the first descriptor is
  never closed, not by `i2cdev_cleanup` either. `NoFdLeft` is therefore about
  applications that do not open devices themselves;
- after an initialisation that found no i2c directory in sysfs,
  `i2cdev_rescan` falls into the cleanup and returns 0, with the library
  uninitialised (`I2cdevRescan`);
- between `stat` and `open` the node may be replaced unnoticed; when it changes
  between the attach and the final open of `dev_i2c_open` (`smbus-dev.c:481`),
  the cache stays invalid and opens are refused until an explicit rescan;
- a lookup in a READY library without adapters fails the assertion at
  `i2c-bus-parser.c:838`, and matching does lookups: one of the causes in
  `CrashHasCause`;
- a path survives renumbering only as long as the siblings before it with the
  same channel stay: ids are ranks (`IdIsRank`), not identities. They are
  counted per channel, so the channels of one multiplexer have different ids
  when another one has fewer channels;
- an adapter left out of the tree is in the array and on no list that is freed:
  it outlives a cleanup, is still found by its number, and a client attached to
  it is not reached by the freeing of the tree. `LeftOutOnlyByReuse` says what
  it takes;
- malformed paths find something: a token that is no number counts as the
  number it begins with, for `parse_i2cdev_path` ends its loop for -1 and not
  for the -EINVAL of `parse_token`; a number of more than 32 bits names the bus
  of its low bits. `FoundIsDenoted` is about well-formed paths;
- a client with ten address bits never has them set for its file: SMBus calls
  fail above 127, and go to the seven-bit address below (the exception in
  `TouchesItsDevice`);
- a failed process call returns -1, which is -EPERM, whatever the errno was
  (`smbus.c:129`; the exception in `ErrnoIsTheCause`);
- `remove_all_config_chips` returns what its last step returned, so that an
  earlier removal which failed is reported as 0. `RemoveClears` and
  `RemoveIsDone` are about loops that nothing refuses or disturbs, and what
  happens to a chip whose device or address others change between the loop's
  check and its write is claimed by no property;
- a configured chip without a path (no "i2c-", or something behind the number)
  makes a match that gets as far as its path dereference NULL, as does
  creating its device;
- `initialize_all_config_chips` and `remove_all_config_chips` before the first
  `i2cdev_init` dereference a list that does not exist; the models call them
  with an initialised library only.

Not modelled, and why: reading single sysfs attributes (`sysfs.c`), printing
and the chip name functions of `data.c` that only format (no state); logging
and error strings; allocation failures; build files and `doc/kernel-docs` (a
copy of the kernel's documentation). `dev_parse_chip_name` has no caller.
