---------------------------- MODULE AdapterCache -----------------------------
(***************************************************************************)
(* libi2cdev's adapter table and the clients attached to it:               *)
(*   - the life cycle i2cdev_init / i2cdev_rescan / i2cdev_cleanup         *)
(*     (libi2cdev/init.c) with the library state and the "rescan required" *)
(*     flag (libi2cdev/i2c-error.c);                                       *)
(*   - dev_i2c_new_device, dev_i2c_open, the transfers, dev_i2c_close,     *)
(*     dev_i2c_delete and the probe (libi2cdev/smbus-dev.c).               *)
(*                                                                         *)
(* The library is single-threaded: one call runs at a time, and "call" is  *)
(* its frame.  A call is cut into steps where it asks the kernel (stat,    *)
(* open, rescan, transfer), because the kernel's state may change there.   *)
(* The scan itself is one step; the tree it builds is abstracted to the    *)
(* set of adapters, and a path to the bus it denotes.                      *)
(***************************************************************************)
EXTENDS KernelBuses, Functions

CONSTANTS
  Client,   (* addresses of SMBusDevice objects, reused after a delete        *)
  Dummy,    (* the stack client of dev_i2c_smbus_probe and of lsi2c           *)
  Fd,       (* the process's file descriptors (bounds RLIMIT_NOFILE)          *)
  ScanId,   (* tags that tell the objects of one scan from those of the last  *)
  MaxNr,    (* the largest number dev_i2c_open_i2c_dev accepts (255)          *)
  May       (* what the application and the kernel may do: see MayOf          *)

MayOf == {
  "explicit_open",     (* the application calls dev_i2c_open itself           *)
  "midcall_hotplug",   (* the kernel's state changes during a library call    *)
  "scan_failure",      (* gather_i2c_dev_busses or parse_config fails         *)
  "open_failure",      (* open(2) fails for a node stat(2) has seen           *)
  "no_sysfs" }         (* init_sysfs finds no sysfs mount                     *)

ASSUME CacheAssumption ==
  /\ Dummy \notin Client
  /\ NULL \notin Client \cup {Dummy} \cup Fd \cup ScanId
  /\ MaxNr \in Nat
  /\ May \subseteq MayOf

(* A dev_bus_adapter object: every scan allocates its own. *)
AdapterId == [scan : ScanId, nr : Nr]

ASSUME AdapterIdAssumption == NULL \notin AdapterId

VARIABLES
  libState,         (* libi2csmbmagic; BUSY never outlives a step             *)
  rescanRequired,   (* i2cdev_rescan_required                                 *)
  scan,             (* the tag of the current table, NULL without one         *)
  adapters,         (* the live dev_bus_adapter objects                       *)
  client,           (* the SMBusDevice objects; path NULL: not allocated      *)
  fds,              (* open descriptors: the bus and node each was opened for *)
  call              (* the frame of the library call in progress              *)

libVars == <<libState, rescanRequired, scan, adapters, client, fds, call>>
vars == <<node, libVars>>

Adapter == [bus : Bus, uid : Ino \cup {NULL}, ready : BOOLEAN,
            fd : Fd \cup {NULL}, users : SUBSET Client]
ClientRecord == [path : Bus \cup {NULL}, adapter : AdapterId \cup {NULL}]
OpenFile == [bus : Bus \cup {NULL}, ino : Ino]
Frame == [pc : {"idle", "stat", "open", "rescan", "lookup", "use", "aborted"},
          who : Client \cup {Dummy, NULL},
          kind : {"none", "xfer", "open", "probe"},
          site : {"none", "attached", "attach", "final"},
          adap : AdapterId \cup {NULL},
          scanRet : {"ENODATA", "OK"}]

(* Every variable keeps its type; the table holds adapters of one scan. *)
TypeOK ==
  /\ NodeTypeOK
  /\ libState \in {"UNINIT", "READY", "NOT_READY"}
  /\ rescanRequired \in BOOLEAN
  /\ scan \in ScanId \cup {NULL}
  /\ DOMAIN adapters \subseteq AdapterId
  /\ \A a \in DOMAIN adapters : a.scan = scan
  /\ adapters \in [DOMAIN adapters -> Adapter]
  /\ client \in [Client -> ClientRecord]
  /\ DOMAIN fds \subseteq Fd
  /\ fds \in [DOMAIN fds -> OpenFile]
  /\ call \in Frame

NoAdapters == [a \in {} |-> NULL]
NoFiles == [f \in {} |-> NULL]
Freed == [path |-> NULL, adapter |-> NULL]
Idle == [pc |-> "idle", who |-> NULL, kind |-> "none", site |-> "none",
         adap |-> NULL, scanRet |-> "ENODATA"]
Aborted == [Idle EXCEPT !.pc = "aborted"]

Init ==
  /\ KernelInit
  /\ libState = "UNINIT"
  /\ rescanRequired = FALSE
  /\ scan = NULL
  /\ adapters = NoAdapters
  /\ client = [c \in Client |-> Freed]
  /\ fds = NoFiles
  /\ call = Idle

Live(c) == client[c].path # NULL

(* libi2cdev_check_cache_is_valid: the flag counts only while READY. *)
CacheIsValid == ~(rescanRequired /\ libState = "READY")

-----------------------------------------------------------------------------
(* Building and dropping the table *)

(* The objects a scan tagged s allocates for the adapters it finds. *)
Scanned(s) ==
  [a \in {[scan |-> s, nr |-> n] : n \in Plugged} |->
     [bus |-> node[a.nr].bus, uid |-> node[a.nr].ino, ready |-> FALSE,
      fd |-> NULL, users |-> {}]]

HeldFds == {adapters[a].fd : a \in DOMAIN adapters}

Registered(c) == \E a \in DOMAIN adapters : c \in adapters[a].users

(* Mutant of FreeAdapterList: the clients keep their pointers. *)
FreeAdapterListForgetsClients ==
  /\ fds' = Restrict(fds, DOMAIN fds \ HeldFds)
  /\ UNCHANGED client

(* free_adapter_list: every adapter goes, its descriptor is closed, and the *)
(* adapter pointer of each client on its list is cleared.                   *)
FreeAdapterList ==
  /\ fds' = Restrict(fds, DOMAIN fds \ HeldFds)
  /\ client' = [c \in Client |-> IF Registered(c)
                                 THEN [client[c] EXCEPT !.adapter = NULL]
                                 ELSE client[c]]

(* Mutant of Cleanup: adapter_global_array is freed but not reset. *)
CleanupKeepsTable ==
  /\ FreeAdapterList
  /\ UNCHANGED adapters
  /\ scan' = NULL
  /\ libState' = "UNINIT"
  /\ UNCHANGED rescanRequired

(* i2cdev_cleanup; the "rescan required" flag is not among what it resets. *)
Cleanup ==
  /\ FreeAdapterList
  /\ adapters' = NoAdapters
  /\ scan' = NULL
  /\ libState' = "UNINIT"
  /\ UNCHANGED rescanRequired

(* Mutants of RescanSucceeds: the flag stays set; attached clients are not  *)
(* told that their adapter is gone.                                        *)
RescanKeepsFlag(s) ==
  /\ s # scan
  /\ FreeAdapterList
  /\ adapters' = Scanned(s)
  /\ scan' = s
  /\ UNCHANGED <<libState, rescanRequired>>

RescanKeepsClients(s) ==
  /\ s # scan
  /\ fds' = Restrict(fds, DOMAIN fds \ HeldFds)
  /\ adapters' = Scanned(s)
  /\ scan' = s
  /\ rescanRequired' = FALSE
  /\ UNCHANGED <<libState, client>>

(* The body of i2cdev_rescan in state READY, when gathering succeeds. *)
RescanSucceeds(s) ==
  /\ s # scan
  /\ FreeAdapterList
  /\ adapters' = Scanned(s)
  /\ scan' = s
  /\ rescanRequired' = FALSE
  /\ UNCHANGED libState

(* The same when it fails: i2cdev_cleanup drops what is left. *)
RescanFails == "scan_failure" \in May /\ Cleanup

-----------------------------------------------------------------------------
(* The life cycle calls *)

InitFindsNoSysfs ==
  /\ "no_sysfs" \in May
  /\ libState' = "NOT_READY"
  /\ UNCHANGED <<rescanRequired, scan, adapters, client, fds>>

InitFails == "scan_failure" \in May /\ Cleanup

InitSucceeds(s) ==
  /\ adapters' = Scanned(s)
  /\ scan' = s
  /\ libState' = "READY"
  /\ UNCHANGED <<rescanRequired, client, fds>>

(* The body of i2cdev_init after its early return in state READY. *)
InitLibrary(result) ==
  \/ result = "ENODATA" /\ (InitFindsNoSysfs \/ InitFails)
  \/ result = "OK" /\ \E s \in ScanId : InitSucceeds(s)

(* i2cdev_init *)
I2cdevInit ==
  /\ call.pc = "idle"
  /\ call' = Idle
  /\ \/ libState = "READY" /\ UNCHANGED <<libState, rescanRequired, scan, adapters, client, fds>>
     \/ libState # "READY" /\ \E result \in {"ENODATA", "OK"} : InitLibrary(result)
  /\ UNCHANGED node

(* i2cdev_rescan; "scanRet" keeps what it returned.  In NOT_READY neither  *)
(* branch applies and the call falls into i2cdev_cleanup with result 0.    *)
I2cdevRescan ==
  /\ call.pc = "idle"
  /\ \E result \in {"ENODATA", "OK"} :
       /\ call' = [Idle EXCEPT !.scanRet = result]
       /\ \/ libState = "UNINIT" /\ InitLibrary(result)
          \/ libState = "READY" /\ result = "OK" /\ \E s \in ScanId : RescanSucceeds(s)
          \/ libState = "READY" /\ result = "ENODATA" /\ RescanFails
          \/ libState = "NOT_READY" /\ result = "OK" /\ Cleanup
  /\ UNCHANGED node

(* i2cdev_cleanup *)
I2cdevCleanup ==
  /\ call.pc = "idle"
  /\ libState # "UNINIT"
  /\ Cleanup
  /\ call' = Idle
  /\ UNCHANGED node

-----------------------------------------------------------------------------
(* Client objects *)

(* dev_i2c_new_device, with a valid address and the path of bus b *)
NewDevice(c, b) ==
  /\ call.pc = "idle"
  /\ ~Live(c)
  /\ client' = [client EXCEPT ![c] = [path |-> b, adapter |-> NULL]]
  /\ call' = Idle
  /\ UNCHANGED <<node, libState, rescanRequired, scan, adapters, fds>>

(* Mutant of CloseAdapter: adap->fd keeps the closed descriptor's number. *)
CloseKeepsNumber(a) ==
  IF a # NULL /\ adapters[a].fd # NULL
  THEN /\ fds' = Restrict(fds, DOMAIN fds \ {adapters[a].fd})
       /\ UNCHANGED adapters
  ELSE UNCHANGED <<fds, adapters>>

(* close(adap->fd); adap->fd = -1, when it is open *)
CloseAdapter(a) ==
  IF a # NULL /\ adapters[a].fd # NULL
  THEN /\ fds' = Restrict(fds, DOMAIN fds \ {adapters[a].fd})
       /\ adapters' = [adapters EXCEPT ![a].fd = NULL]
  ELSE UNCHANGED <<fds, adapters>>

(* dev_i2c_close *)
CloseDevice(c) ==
  /\ call.pc = "idle"
  /\ Live(c)
  /\ CloseAdapter(client[c].adapter)
  /\ call' = Idle
  /\ UNCHANGED <<node, libState, rescanRequired, scan, client>>

(* dev_i2c_delete.  remove_client_node finds client->client_node NULL, for *)
(* register_client_node never stores it: the list entry stays.             *)
DeleteDevice(c) ==
  /\ call.pc = "idle"
  /\ Live(c)
  /\ CloseAdapter(client[c].adapter)
  /\ client' = [client EXCEPT ![c] = Freed]
  /\ call' = Idle
  /\ UNCHANGED <<node, libState, rescanRequired, scan>>

-----------------------------------------------------------------------------
(* dev_i2c_open and the calls built on it *)

(* dev_i2c_lookup_i2c_bus never returns: check_libi2cdev_ready asserts, or *)
(* lookup_dev_bus_by_nr does because no adapter was found by the scan.     *)
LookupAborts(path) ==
  \/ libState = "NOT_READY"
  \/ libState = "READY" /\ DOMAIN adapters = {} /\ path # NULL

(* Mutant of LookupResult: the channel number is not compared. *)
LookupAnyChannel(path) ==
  {a \in DOMAIN adapters : libState = "READY" /\ path # NULL}

(* The adapters a lookup of path may return; NULL is the empty path. *)
LookupResult(path) ==
  {a \in DOMAIN adapters : libState = "READY" /\ adapters[a].bus = path}

PathOf(who) == IF who \in Client THEN client[who].path ELSE NULL

(* The start of dev_i2c_open for client c: an invalid cache is refused, an *)
(* adapter is tried as it is, and without one the path is looked up.       *)
BeginOpen(c, kind) ==
  /\ call.pc = "idle"
  /\ Live(c)
  /\ kind = "xfer" \/ (kind = "open" /\ "explicit_open" \in May)
  /\ LET frame == [Idle EXCEPT !.who = c, !.kind = kind] IN
     \/ /\ ~CacheIsValid
        /\ call' = Idle
     \/ /\ CacheIsValid
        /\ client[c].adapter # NULL
        /\ call' = [frame EXCEPT !.pc = "stat", !.site = "attached",
                                 !.adap = client[c].adapter]
     \/ /\ CacheIsValid
        /\ client[c].adapter = NULL
        /\ call' = [frame EXCEPT !.pc = "lookup"]
  /\ UNCHANGED <<node, libState, rescanRequired, scan, adapters, client, fds>>

(* dev_i2c_smbus_probe on the path of bus b, up to its dev_i2c_open: the   *)
(* stack client is given the adapter without being registered with it.     *)
BeginProbe(b) ==
  /\ call.pc = "idle"
  /\ \/ LookupAborts(b) /\ call' = Aborted
     \/ /\ ~LookupAborts(b)
        /\ LookupResult(b) = {} \/ ~CacheIsValid
        /\ call' = Idle
     \/ /\ ~LookupAborts(b)
        /\ CacheIsValid
        /\ \E a \in LookupResult(b) :
             call' = [Idle EXCEPT !.pc = "stat", !.who = Dummy, !.kind = "probe",
                                  !.site = "attached", !.adap = a]
  /\ UNCHANGED <<node, libState, rescanRequired, scan, adapters, client, fds>>

(* Mutant of OpenDevFailed: dev_i2c_open returns the error without looking *)
(* whether the cache has become invalid.                                   *)
FailedOpenReturns(valid) ==
  /\ client' = IF call.site = "attach"
               THEN [client EXCEPT ![call.who].adapter = call.adap]
               ELSE client
  /\ call' = IF call.site = "attach"
             THEN [call EXCEPT !.pc = "stat", !.site = "final"]
             ELSE Idle

(* dev_i2c_open_i2c_dev returned an error to where it was called:          *)
(*   attached  dev_i2c_open rescans if the cache has become invalid;       *)
(*   attach    dev_i2c_new_adapter still returns the adapter, not ready;   *)
(*   final     dev_i2c_open returns the error.                             *)
OpenDevFailed(valid) ==
  /\ client' = IF call.site = "attach"
               THEN [client EXCEPT ![call.who].adapter = call.adap]
               ELSE client
  /\ call' = CASE call.site = "attach" -> [call EXCEPT !.pc = "stat", !.site = "final"]
               [] call.site = "attached" /\ ~valid -> [call EXCEPT !.pc = "rescan"]
               [] OTHER -> Idle

(* dev_i2c_open_i2c_dev: the number is out of range, or stat(2) fails. *)
StatFails ==
  /\ call.pc = "stat"
  /\ call.adap.nr > MaxNr \/ node[call.adap.nr].ino = NULL
  /\ OpenDevFailed(CacheIsValid)
  /\ UNCHANGED <<node, libState, rescanRequired, scan, adapters, fds>>

StatSeesNode ==
  /\ call.pc = "stat"
  /\ call.adap.nr \leq MaxNr
  /\ node[call.adap.nr].ino # NULL

(* The node is not the one a ready adapter was opened with before. *)
StatFindsStale ==
  /\ StatSeesNode
  /\ adapters[call.adap].uid # node[call.adap.nr].ino
  /\ adapters[call.adap].ready
  /\ adapters' = [adapters EXCEPT ![call.adap].ready = FALSE]
  /\ rescanRequired' = TRUE
  /\ UNCHANGED <<node, libState, scan, fds>>
  /\ OpenDevFailed(CacheIsValid')

(* Mutant of StatAccepts: a ready adapter's node is not compared. *)
StatTrustsReady ==
  /\ StatSeesNode
  /\ adapters' = IF adapters[call.adap].ready THEN adapters
                 ELSE [adapters EXCEPT ![call.adap].uid = node[call.adap.nr].ino]
  /\ call' = [call EXCEPT !.pc = "open"]
  /\ UNCHANGED <<node, libState, rescanRequired, scan, client, fds>>

(* It matches, or the adapter is not ready and takes over what it finds. *)
StatAccepts ==
  /\ StatSeesNode
  /\ adapters[call.adap].uid = node[call.adap.nr].ino \/ ~adapters[call.adap].ready
  /\ adapters' = [adapters EXCEPT ![call.adap].uid = node[call.adap.nr].ino]
  /\ call' = [call EXCEPT !.pc = "open"]
  /\ UNCHANGED <<node, libState, rescanRequired, scan, client, fds>>

(* open(2) fails: the node went since the stat, no descriptor is left, or  *)
(* for a reason of the kernel's; adapter->fd is then negative.             *)
OpenFails ==
  /\ call.pc = "open"
  /\ \/ node[call.adap.nr].ino = NULL
     \/ DOMAIN fds = Fd
     \/ "open_failure" \in May
  /\ adapters' = [adapters EXCEPT ![call.adap].fd = NULL]
  /\ OpenDevFailed(CacheIsValid)
  /\ UNCHANGED <<node, libState, rescanRequired, scan, fds>>

(* dev_i2c_new_adapter: open, read the functionality, close, ready. *)
AttachOpens ==
  /\ call.pc = "open"
  /\ call.site = "attach"
  /\ node[call.adap.nr].ino # NULL
  /\ DOMAIN fds # Fd
  /\ adapters' = [adapters EXCEPT ![call.adap].fd = NULL, ![call.adap].ready = TRUE]
  /\ client' = [client EXCEPT ![call.who].adapter = call.adap]
  /\ call' = [call EXCEPT !.pc = "stat", !.site = "final"]
  /\ UNCHANGED <<node, libState, rescanRequired, scan, fds>>

(* dev_i2c_open is done: what adapter->fd held before is overwritten. *)
DeviceOpens(f) ==
  /\ call.pc = "open"
  /\ call.site \in {"attached", "final"}
  /\ node[call.adap.nr].ino # NULL
  /\ f \notin DOMAIN fds
  /\ fds' = [g \in DOMAIN fds \cup {f} |-> IF g = f THEN node[call.adap.nr] ELSE fds[g]]
  /\ adapters' = [adapters EXCEPT ![call.adap].fd = f]
  /\ call' = IF call.kind = "open" THEN Idle ELSE [call EXCEPT !.pc = "use", !.site = "none"]
  /\ UNCHANGED <<node, libState, rescanRequired, scan, client>>

(* Mutant of RescanInOpen: the open is retried on the adapter it had. *)
RescanRetriesOldAdapter ==
  /\ call.pc = "rescan"
  /\ \/ /\ \E s \in ScanId : RescanSucceeds(s)
        /\ call' = [call EXCEPT !.pc = "stat", !.site = "final", !.scanRet = "OK"]
     \/ RescanFails /\ call' = Idle
  /\ UNCHANGED node

(* dev_i2c_open rescans; when that fails the call returns its error. *)
RescanInOpen ==
  /\ call.pc = "rescan"
  /\ \/ /\ \E s \in ScanId : RescanSucceeds(s)
        /\ call' = [call EXCEPT !.pc = "lookup", !.site = "none", !.adap = NULL,
                                !.scanRet = "OK"]
     \/ RescanFails /\ call' = Idle
  /\ UNCHANGED node

LookupReturnsNothing ==
  /\ call.pc = "lookup"
  /\ LET path == PathOf(call.who) IN
     \/ LookupAborts(path) /\ call' = Aborted
     \/ ~LookupAborts(path) /\ LookupResult(path) = {} /\ call' = Idle
  /\ UNCHANGED <<node, libState, rescanRequired, scan, adapters, client, fds>>

(* dev_i2c_new_adapter refuses an adapter that already has a descriptor. *)
AttachRefused(a) ==
  /\ call.pc = "lookup"
  /\ a \in LookupResult(PathOf(call.who))
  /\ adapters[a].fd # NULL
  /\ client' = [client EXCEPT ![call.who].adapter = NULL]
  /\ call' = Idle
  /\ UNCHANGED <<node, libState, rescanRequired, scan, adapters, fds>>

(* dev_i2c_new_adapter up to its open: the client is registered and the    *)
(* adapter, shared or not, is not ready any more.                          *)
AttachBegins(a) ==
  /\ call.pc = "lookup"
  /\ a \in LookupResult(PathOf(call.who))
  /\ adapters[a].fd = NULL
  /\ adapters' = [adapters EXCEPT ![a].users = @ \cup {call.who}, ![a].ready = FALSE]
  /\ call' = [call EXCEPT !.pc = "stat", !.site = "attach", !.adap = a]
  /\ UNCHANGED <<node, libState, rescanRequired, scan, client, fds>>

(* Mutant of Transfer: the error exit does not close. *)
TransferErrorLeaks ==
  /\ call.pc = "use"
  /\ CloseAdapter(call.adap) \/ UNCHANGED <<fds, adapters>>
  /\ call' = Idle
  /\ UNCHANGED <<node, libState, rescanRequired, scan, client>>

(* The body of an SMBus call or transfer and its dev_i2c_close: selecting  *)
(* the address may fail, the descriptor is closed either way.              *)
Transfer ==
  /\ call.pc = "use"
  /\ CloseAdapter(call.adap)
  /\ call' = Idle
  /\ UNCHANGED <<node, libState, rescanRequired, scan, client>>

-----------------------------------------------------------------------------
(* Identities free for a new node: no node, adapter or descriptor has them. *)
FreshIno ==
  Ino \ ({node[n].ino : n \in Nr} \cup {adapters[a].uid : a \in DOMAIN adapters}
         \cup {fds[f].ino : f \in DOMAIN fds})

KernelStep ==
  /\ call.pc \in {"idle", "aborted"} \/ "midcall_hotplug" \in May
  /\ KernelNext(FreshIno)
  /\ UNCHANGED libVars

(* The application starts a call. *)
ApplicationCalls ==
  \/ I2cdevInit \/ I2cdevRescan \/ I2cdevCleanup
  \/ \E c \in Client :
       \/ \E b \in Bus : NewDevice(c, b)
       \/ CloseDevice(c)
       \/ DeleteDevice(c)
       \/ \E kind \in {"xfer", "open"} : BeginOpen(c, kind)
  \/ \E b \in Bus : BeginProbe(b)

(* The library goes on with the call in progress. *)
CallContinues ==
  \/ StatFails \/ StatFindsStale \/ StatAccepts
  \/ OpenFails \/ AttachOpens
  \/ \E f \in Fd : DeviceOpens(f)
  \/ RescanInOpen
  \/ LookupReturnsNothing
  \/ \E a \in DOMAIN adapters : AttachRefused(a) \/ AttachBegins(a)
  \/ Transfer

Next == KernelStep \/ ApplicationCalls \/ CallContinues

Spec == Init /\ [][Next]_vars

(* A call that was started is carried on: the process is scheduled and the *)
(* kernel answers.  The clients keep transferring.                         *)
FairSpec ==
  /\ Spec
  /\ WF_vars(CallContinues)
  /\ \A c \in Client : SF_vars(BeginOpen(c, "xfer"))

-----------------------------------------------------------------------------
(* Safety *)

(* A live client's adapter pointer is NULL or points to an adapter of the  *)
(* current table: rescans and cleanups of other calls leave no client with *)
(* a pointer to a freed adapter (free_dev_client_list).                    *)
NoDanglingAdapter ==
  \A c \in Client : client[c].adapter \in DOMAIN adapters \cup {NULL}

(* Why: a client holds an adapter only while that adapter's user list has  *)
(* an entry for it, so freeing the adapter finds the client.               *)
AttachedIsRegistered ==
  \A c \in Client : \A a \in DOMAIN adapters :
    client[c].adapter = a => c \in adapters[a].users

(* The adapter a call in progress works with is alive at every step that   *)
(* uses it, whatever was rescanned or cleaned up before.                   *)
CallUsesLiveAdapter ==
  /\ call.pc \in {"stat", "open", "rescan", "use"} => call.adap \in DOMAIN adapters
  /\ call.pc = "use" => adapters[call.adap].fd # NULL

(* A descriptor an adapter holds is open and no other adapter holds it, so *)
(* closing one client never closes another's and no close hits a           *)
(* descriptor that was reused.                                             *)
FdOwned ==
  \A a \in DOMAIN adapters : adapters[a].fd # NULL =>
    /\ adapters[a].fd \in DOMAIN fds
    /\ \A b \in DOMAIN adapters : adapters[b].fd = adapters[a].fd => b = a

(* Between calls of an application that only transfers and probes, no      *)
(* descriptor is open: every path through open, rescan and attach closes   *)
(* what it opened.                                                         *)
NoFdLeft ==
  ("explicit_open" \notin May /\ call.pc \in {"idle", "aborted"}) => DOMAIN fds = {}

(* A transfer on a ready adapter goes through the very node the adapter    *)
(* was verified with when it became ready.                                 *)
UsePinned ==
  (call.pc = "use" /\ adapters[call.adap].ready) =>
    fds[adapters[call.adap].fd].ino = adapters[call.adap].uid

(* When an open had to rescan, the transfer that follows goes to the bus   *)
(* the client's path denotes, although its number has changed              *)
(* (smbus-dev.c:446 "a rescan then looking up the device based on path").  *)
RescanReroutes ==
  (call.pc = "use" /\ call.scanRet = "OK") =>
    fds[adapters[call.adap].fd].bus = PathOf(call.who)

(* No call leaves a READY library with an invalid cache, which every later *)
(* open would refuse: the open that finds it stale also rescans.           *)
IdleCacheValid == call.pc = "idle" => CacheIsValid

(* The pointers clients keep follow the generations of the table.          *)
Generations == INSTANCE CacheGeneration WITH
  Generation <- ScanId,
  None <- NULL,
  gen <- scan,
  bound <- [c \in Client |-> IF client[c].adapter = NULL THEN NULL
                             ELSE client[c].adapter.scan]

(* Every step of the library is a rebuild that unbinds all clients, the    *)
(* binding or the release of one client, or invisible.                     *)
ImplementsGenerations == Generations!Spec

-----------------------------------------------------------------------------
(* Liveness *)

(* Number n now is node i of the bus of client c. *)
BusAt(c, n, i) == node[n] = [bus |-> client[c].path, ino |-> i]

(* Client c is attached under number m, where another node has taken the  *)
(* place of the one its adapter was opened with; its bus is at n, node i.  *)
StaleWhile(c, m, n, i) ==
  /\ libState = "READY"
  /\ client[c].adapter # NULL
  /\ client[c].adapter.nr = m
  /\ adapters[client[c].adapter].ready
  /\ node[m].ino \notin {NULL, adapters[client[c].adapter].uid}
  /\ BusAt(c, n, i)

(* A client whose number was taken by another node (its bus was renumbered *)
(* or its node made anew) gets back to its bus by transferring: unless the *)
(* buses move again, the library is shut down or the client is deleted, it *)
(* eventually transfers on it.                                             *)
StaleIsRerouted ==
  \A c \in Client : \A m, n \in {k \in Nr : k \leq MaxNr} : \A i \in Ino :
    StaleWhile(c, m, n, i) ~>
      \/ call.pc = "use" /\ call.who = c /\ fds[adapters[call.adap].fd].ino = i
      \/ ~BusAt(c, n, i)
      \/ node[m].ino = NULL
      \/ libState # "READY"

-----------------------------------------------------------------------------
(* What the documentation says and the code does not do *)

(* smbus-dev.c:411: a deleted client is de-registered from its adapter.    *)
DeleteDeregisters ==
  \A a \in DOMAIN adapters : \A c \in adapters[a].users : Live(c)

(* smbus-dev.c:451: if i2cdev_rescan returns 0 then the cache is valid.    *)
RescanOkMeansValid ==
  (call.pc \in {"idle", "lookup"} /\ call.scanRet = "OK") => CacheIsValid
=============================================================================
