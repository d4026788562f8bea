-------------------------- MODULE AdapterCacheProofs --------------------------
(***************************************************************************)
(* Proofs about AdapterCache, for every value of its constants.            *)
(*                                                                         *)
(* None of the invariants is inductive by itself.  A rescan leaves no      *)
(* dangling pointer because every attached client is on the list of its    *)
(* adapter; an init leaves none because a library that is not READY has    *)
(* no adapters; a call in progress works with a live adapter because only  *)
(* its own rescan can replace the table; and types are kept only because   *)
(* a call that attaches is the call of a real client.  IInv is their       *)
(* conjunction.                                                            *)
(***************************************************************************)
EXTENDS AdapterCache, TLAPS

(* Without READY there is no table. *)
TableOnlyWhenReady == libState # "READY" => DOMAIN adapters = {}

(* The client being attached is a real one and is registered already. *)
AttachIsRegistered ==
  (call.pc \in {"stat", "open"} /\ call.site = "attach") =>
    /\ call.who \in Client
    /\ call.who \in adapters[call.adap].users

(* The table, the clients and the descriptors *)
TableInv ==
  /\ NodeTypeOK
  /\ libState \in {"UNINIT", "READY", "NOT_READY"}
  /\ rescanRequired \in BOOLEAN
  /\ scan \in ScanId \cup {NULL}
  /\ DOMAIN adapters \subseteq AdapterId
  /\ \A a \in DOMAIN adapters : a.scan = scan
  /\ adapters \in [DOMAIN adapters -> Adapter]
  /\ client \in [Client -> ClientRecord]
  /\ DOMAIN fds \subseteq Fd
  /\ fds \in [DOMAIN fds -> OpenFile]
  /\ TableOnlyWhenReady
  /\ NoDanglingAdapter
  /\ AttachedIsRegistered
  /\ FdOwned

(* The call in progress *)
CallInv ==
  /\ call \in Frame
  /\ CallUsesLiveAdapter
  /\ AttachIsRegistered

IInv == TableInv /\ CallInv

-----------------------------------------------------------------------------
(* The kernel *)

(* What the kernel does keeps the nodes' type. *)
LEMMA KernelKeepsType ==
  ASSUME NodeTypeOK, NEW fresh \in SUBSET Ino, KernelNext(fresh)
  PROVE  NodeTypeOK'
<1>1. ASSUME NEW n \in Nr, NEW b \in Bus, Plug(n, b) PROVE NodeTypeOK'
  BY <1>1 DEF NodeTypeOK, Plug
<1>2. ASSUME NEW n \in Nr, Unplug(n) PROVE NodeTypeOK'
  BY <1>2 DEF NodeTypeOK, Unplug
<1>3. ASSUME NEW n \in Nr, NEW i \in fresh, MakeNode(n, i) PROVE NodeTypeOK'
  BY <1>3 DEF NodeTypeOK, MakeNode
<1>4. ASSUME NEW n \in Nr, DropNode(n) PROVE NodeTypeOK'
  BY <1>4 DEF NodeTypeOK, DropNode
<1>5. QED BY <1>1, <1>2, <1>3, <1>4 DEF KernelNext

-----------------------------------------------------------------------------
(* Building and dropping the table *)

(* A scan allocates typed objects with its own tag, free of clients and    *)
(* descriptors.                                                            *)
LEMMA ScannedTable ==
  ASSUME NodeTypeOK, NEW s \in ScanId
  PROVE  /\ DOMAIN Scanned(s) \subseteq AdapterId
         /\ \A a \in DOMAIN Scanned(s) : a.scan = s /\ Scanned(s)[a].fd = NULL
         /\ Scanned(s) \in [DOMAIN Scanned(s) -> Adapter]
<1> DEFINE D == {[scan |-> s, nr |-> n] : n \in Plugged}
<1>1. D \subseteq AdapterId /\ \A a \in D : a.scan = s
  BY DEF AdapterId, Plugged
<1>2. \A a \in D : a.nr \in Nr /\ node[a.nr].bus \in Bus /\ node[a.nr].ino \in Ino \cup {NULL}
  BY DEF NodeTypeOK, Plugged
<1>3. \A a \in D : [bus |-> node[a.nr].bus, uid |-> node[a.nr].ino, ready |-> FALSE,
                    fd |-> NULL, users |-> {}] \in Adapter
  BY <1>2 DEF Adapter
<1>4. Scanned(s) = [a \in D |-> [bus |-> node[a.nr].bus, uid |-> node[a.nr].ino,
                                 ready |-> FALSE, fd |-> NULL, users |-> {}]]
  BY DEF Scanned
<1>5. QED BY <1>1, <1>3, <1>4

(* Freeing the table detaches every client and keeps everything else typed. *)
LEMMA FreeDetachesAll ==
  ASSUME TableInv, FreeAdapterList
  PROVE  /\ client' \in [Client -> ClientRecord]
         /\ \A c \in Client : client'[c].adapter = NULL
         /\ DOMAIN fds' \subseteq Fd
         /\ fds' \in [DOMAIN fds' -> OpenFile]
<1>1. \A c \in Client : client[c] \in ClientRecord
  BY DEF TableInv
<1>2. \A c \in Client : ~Registered(c) => client[c].adapter = NULL
  BY DEF TableInv, NoDanglingAdapter, AttachedIsRegistered, Registered
<1>3. \A c \in Client : /\ [client[c] EXCEPT !.adapter = NULL] \in ClientRecord
                        /\ [client[c] EXCEPT !.adapter = NULL].adapter = NULL
  BY <1>1 DEF ClientRecord
<1>4. client' = [c \in Client |-> IF Registered(c)
                                  THEN [client[c] EXCEPT !.adapter = NULL]
                                  ELSE client[c]]
  BY DEF FreeAdapterList
<1>5. \A c \in Client : client'[c] = IF Registered(c)
                                     THEN [client[c] EXCEPT !.adapter = NULL]
                                     ELSE client[c]
  BY <1>4
<1>6. client' \in [Client -> ClientRecord] /\ \A c \in Client : client'[c].adapter = NULL
  BY <1>1, <1>2, <1>3, <1>4, <1>5
<1>7. DOMAIN fds' \subseteq Fd /\ fds' \in [DOMAIN fds' -> OpenFile]
  BY DEF FreeAdapterList, TableInv, Restrict
<1>8. QED BY <1>6, <1>7

-----------------------------------------------------------------------------
(* What a step may do to the table *)

(* It does not. *)
LEMMA TableUntouched ==
  ASSUME TableInv, NodeTypeOK', rescanRequired' \in BOOLEAN,
         UNCHANGED <<libState, scan, adapters, client, fds>>
  PROVE  TableInv'
BY DEF TableInv, TableOnlyWhenReady, NoDanglingAdapter, AttachedIsRegistered, FdOwned

(* It drops or replaces all adapters and frees the old ones. *)
LEMMA TableReplaced ==
  ASSUME TableInv, FreeAdapterList, UNCHANGED node,
         libState' \in {"UNINIT", "READY", "NOT_READY"},
         rescanRequired' \in BOOLEAN, scan' \in ScanId \cup {NULL},
         DOMAIN adapters' \subseteq AdapterId,
         \A a \in DOMAIN adapters' : a.scan = scan' /\ adapters'[a].fd = NULL,
         adapters' \in [DOMAIN adapters' -> Adapter],
         libState' # "READY" => DOMAIN adapters' = {}
  PROVE  TableInv'
<1>1. /\ client' \in [Client -> ClientRecord]
      /\ \A c \in Client : client'[c].adapter = NULL
      /\ DOMAIN fds' \subseteq Fd
      /\ fds' \in [DOMAIN fds' -> OpenFile]
  BY FreeDetachesAll
<1>2. NoDanglingAdapter'
  BY <1>1 DEF NoDanglingAdapter
<1>3. AttachedIsRegistered'
  BY <1>1, AdapterIdAssumption DEF AttachedIsRegistered
<1>4. FdOwned'
  BY DEF FdOwned
<1>5. NodeTypeOK'
  BY DEF TableInv, NodeTypeOK
<1>6. QED BY <1>1, <1>2, <1>3, <1>4, <1>5 DEF TableInv, TableOnlyWhenReady

(* It changes fields of one adapter, which keeps its users and gets no new *)
(* descriptor; the client being attached may get it as its adapter.        *)
LEMMA AdapterChanged ==
  ASSUME TableInv, NEW a \in DOMAIN adapters, NEW r \in Adapter,
         adapters' = [adapters EXCEPT ![a] = r],
         adapters[a].users \subseteq r.users,
         r.fd \in {adapters[a].fd, NULL},
         UNCHANGED <<node, libState, scan, fds>>,
         rescanRequired' \in BOOLEAN,
         client' \in [Client -> ClientRecord],
         \A c \in Client : \/ client'[c].adapter = client[c].adapter
                           \/ client'[c].adapter = NULL
                           \/ client'[c].adapter = a /\ c \in r.users
  PROVE  TableInv' /\ DOMAIN adapters' = DOMAIN adapters /\ adapters'[a] = r
<1>1. /\ DOMAIN adapters' = DOMAIN adapters
      /\ adapters'[a] = r
      /\ \A x \in DOMAIN adapters : x # a => adapters'[x] = adapters[x]
      /\ adapters' \in [DOMAIN adapters' -> Adapter]
  BY DEF TableInv
<1>2. NoDanglingAdapter'
  BY <1>1 DEF TableInv, NoDanglingAdapter
<1>3. AttachedIsRegistered'
  <2> SUFFICES ASSUME NEW c \in Client, NEW x \in DOMAIN adapters,
                      client'[c].adapter = x
               PROVE  c \in adapters'[x].users
    BY <1>1 DEF AttachedIsRegistered
  <2>1. x # NULL
    BY AdapterIdAssumption DEF TableInv
  <2>2. CASE client'[c].adapter = client[c].adapter
    BY <2>2, <1>1 DEF TableInv, AttachedIsRegistered
  <2>3. CASE client'[c].adapter = a /\ c \in r.users
    BY <2>3, <1>1
  <2>4. QED BY <2>1, <2>2, <2>3
<1>4. FdOwned'
  BY <1>1 DEF TableInv, FdOwned
<1>5. NodeTypeOK' /\ TableOnlyWhenReady'
  BY <1>1 DEF TableInv, NodeTypeOK, TableOnlyWhenReady
<1>6. QED BY <1>1, <1>2, <1>3, <1>4, <1>5 DEF TableInv

(* It closes an adapter's descriptor; a client may be detached. *)
LEMMA AdapterClosed ==
  ASSUME TableInv, NEW a \in DOMAIN adapters \cup {NULL}, CloseAdapter(a),
         UNCHANGED <<node, libState, rescanRequired, scan>>,
         client' \in [Client -> ClientRecord],
         \A c \in Client : client'[c].adapter \in {client[c].adapter, NULL}
  PROVE  TableInv'
<1>1. NULL \notin DOMAIN adapters
  BY AdapterIdAssumption DEF TableInv
<1>2. CASE a # NULL /\ adapters[a].fd # NULL
  <2> DEFINE f == adapters[a].fd
             r == [adapters[a] EXCEPT !.fd = NULL]
  <2>1. a \in DOMAIN adapters /\ adapters[a] \in Adapter
    BY <1>2 DEF TableInv
  <2>2. /\ fds' = Restrict(fds, DOMAIN fds \ {f})
        /\ adapters' = [adapters EXCEPT ![a] = r]
    BY <1>2 DEF CloseAdapter
  <2>3. /\ r \in Adapter /\ r.fd = NULL /\ r.users = adapters[a].users
    BY <2>1 DEF Adapter
  <2>4. /\ DOMAIN adapters' = DOMAIN adapters
        /\ adapters'[a] = r
        /\ \A x \in DOMAIN adapters : x # a => adapters'[x] = adapters[x]
        /\ adapters' \in [DOMAIN adapters' -> Adapter]
    BY <2>1, <2>2, <2>3 DEF TableInv
  <2>5. /\ DOMAIN fds' = DOMAIN fds \ {f}
        /\ \A g \in DOMAIN fds' : fds'[g] = fds[g]
        /\ fds' \in [DOMAIN fds' -> OpenFile]
    BY <2>2 DEF Restrict, TableInv
  <2>6. NoDanglingAdapter'
    BY <2>4 DEF TableInv, NoDanglingAdapter
  <2>7. AttachedIsRegistered'
    <3> SUFFICES ASSUME NEW c \in Client, NEW x \in DOMAIN adapters,
                        client'[c].adapter = x
                 PROVE  c \in adapters'[x].users
      BY <2>4 DEF AttachedIsRegistered
    <3>1. client[c].adapter = x
      BY <1>1
    <3>2. c \in adapters[x].users
      BY <3>1 DEF TableInv, AttachedIsRegistered
    <3>3. QED BY <3>2, <2>3, <2>4
  <2>8. FdOwned'
    <3> SUFFICES ASSUME NEW x \in DOMAIN adapters, adapters'[x].fd # NULL
                 PROVE  /\ adapters'[x].fd \in DOMAIN fds'
                        /\ \A y \in DOMAIN adapters :
                             adapters'[y].fd = adapters'[x].fd => y = x
      BY <2>4 DEF FdOwned
    <3>1. x # a /\ adapters'[x] = adapters[x]
      BY <2>3, <2>4
    <3>2. adapters[x].fd \in DOMAIN fds /\ adapters[x].fd # f
      BY <3>1, <2>1 DEF TableInv, FdOwned
    <3>3. ASSUME NEW y \in DOMAIN adapters, adapters'[y].fd = adapters'[x].fd
          PROVE  y = x
      BY <3>3, <3>1, <2>3, <2>4 DEF TableInv, FdOwned
    <3>4. QED BY <3>1, <3>2, <3>3, <2>5
  <2>9. NodeTypeOK' /\ TableOnlyWhenReady'
    BY <2>4 DEF TableInv, NodeTypeOK, TableOnlyWhenReady
  <2>10. QED BY <2>4, <2>5, <2>6, <2>7, <2>8, <2>9 DEF TableInv
<1>3. CASE ~(a # NULL /\ adapters[a].fd # NULL)
  <2>1. UNCHANGED <<fds, adapters>>
    BY <1>3 DEF CloseAdapter
  <2>2. NoDanglingAdapter' /\ FdOwned' /\ TableOnlyWhenReady' /\ NodeTypeOK'
    BY <2>1 DEF TableInv, NoDanglingAdapter, FdOwned, TableOnlyWhenReady, NodeTypeOK
  <2>3. AttachedIsRegistered'
    BY <2>1, <1>1 DEF TableInv, AttachedIsRegistered
  <2>4. QED BY <2>1, <2>2, <2>3 DEF TableInv
<1>4. QED BY <1>2, <1>3

(* It opens a descriptor for an adapter. *)
LEMMA DescriptorOpened ==
  ASSUME TableInv, NEW a \in DOMAIN adapters, NEW f \in Fd \ DOMAIN fds,
         NEW file \in OpenFile,
         fds' = [g \in DOMAIN fds \cup {f} |-> IF g = f THEN file ELSE fds[g]],
         adapters' = [adapters EXCEPT ![a].fd = f],
         UNCHANGED <<node, libState, rescanRequired, scan, client>>
  PROVE  TableInv' /\ DOMAIN adapters' = DOMAIN adapters /\ adapters'[a].fd = f
<1> DEFINE r == [adapters[a] EXCEPT !.fd = f]
<1>1. r \in Adapter /\ r.fd = f /\ r.users = adapters[a].users
  BY DEF TableInv, Adapter
<1>2. /\ DOMAIN adapters' = DOMAIN adapters
      /\ adapters'[a] = r
      /\ \A x \in DOMAIN adapters : x # a => adapters'[x] = adapters[x]
      /\ adapters' \in [DOMAIN adapters' -> Adapter]
  BY <1>1 DEF TableInv
<1>3. /\ DOMAIN fds' = DOMAIN fds \cup {f}
      /\ DOMAIN fds' \subseteq Fd
      /\ fds' \in [DOMAIN fds' -> OpenFile]
  BY DEF TableInv
<1>4. NoDanglingAdapter' /\ TableOnlyWhenReady' /\ NodeTypeOK'
  BY <1>2 DEF TableInv, NoDanglingAdapter, TableOnlyWhenReady, NodeTypeOK
<1>5. AttachedIsRegistered'
  BY <1>1, <1>2 DEF TableInv, AttachedIsRegistered
<1>6. \A x \in DOMAIN adapters : adapters[x].fd # f
  BY CacheAssumption DEF TableInv, FdOwned
<1>7. FdOwned'
  BY <1>1, <1>2, <1>3, <1>6 DEF TableInv, FdOwned
<1>8. QED BY <1>1, <1>2, <1>3, <1>4, <1>5, <1>7 DEF TableInv

-----------------------------------------------------------------------------
(* The life cycle calls *)

LEMMA CleanupKeepsInv ==
  ASSUME TableInv, Cleanup, UNCHANGED node
  PROVE  TableInv'
<1>1. /\ FreeAdapterList
      /\ libState' = "UNINIT"
      /\ rescanRequired' \in BOOLEAN
      /\ scan' = NULL
      /\ adapters' = [a \in {} |-> NULL]
  BY DEF Cleanup, NoAdapters, TableInv
<1>2. DOMAIN adapters' = {} /\ adapters' \in [DOMAIN adapters' -> Adapter]
  BY <1>1
<1>3. QED BY <1>1, <1>2, TableReplaced

LEMMA RescanKeepsInv ==
  ASSUME TableInv, NEW s \in ScanId, RescanSucceeds(s), libState = "READY",
         UNCHANGED node
  PROVE  TableInv'
<1>1. /\ FreeAdapterList
      /\ adapters' = Scanned(s)
      /\ scan' = s
      /\ rescanRequired' = FALSE
      /\ libState' = "READY"
  BY DEF RescanSucceeds
<1>2. /\ DOMAIN Scanned(s) \subseteq AdapterId
      /\ \A a \in DOMAIN Scanned(s) : a.scan = s /\ Scanned(s)[a].fd = NULL
      /\ Scanned(s) \in [DOMAIN Scanned(s) -> Adapter]
  BY ScannedTable DEF TableInv
<1>3. QED BY <1>1, <1>2, TableReplaced

LEMMA InitKeepsInv ==
  ASSUME TableInv, NEW result, InitLibrary(result), libState # "READY", UNCHANGED node
  PROVE  TableInv'
<1>1. DOMAIN adapters = {} /\ \A c \in Client : client[c].adapter = NULL
  BY DEF TableInv, TableOnlyWhenReady, NoDanglingAdapter
<1>2. CASE InitFindsNoSysfs
  <2>1. UNCHANGED <<rescanRequired, scan, adapters, client, fds>> /\ libState' = "NOT_READY"
    BY <1>2 DEF InitFindsNoSysfs
  <2>2. QED BY <1>1, <2>1 DEF TableInv, NodeTypeOK, TableOnlyWhenReady, NoDanglingAdapter,
                              AttachedIsRegistered, FdOwned
<1>3. CASE InitFails
  BY <1>3, CleanupKeepsInv DEF InitFails
<1>4. ASSUME NEW s \in ScanId, InitSucceeds(s) PROVE TableInv'
  <2>1. /\ adapters' = Scanned(s)
        /\ scan' = s
        /\ libState' = "READY"
        /\ UNCHANGED <<rescanRequired, client, fds>>
    BY <1>4 DEF InitSucceeds
  <2>2. /\ DOMAIN adapters' \subseteq AdapterId
        /\ \A a \in DOMAIN adapters' : a.scan = s /\ adapters'[a].fd = NULL
        /\ adapters' \in [DOMAIN adapters' -> Adapter]
    BY <2>1, ScannedTable DEF TableInv
  <2>3. NoDanglingAdapter' /\ FdOwned' /\ TableOnlyWhenReady' /\ NodeTypeOK'
    BY <1>1, <2>1, <2>2 DEF TableInv, NoDanglingAdapter, FdOwned, TableOnlyWhenReady, NodeTypeOK
  <2>4. AttachedIsRegistered'
    BY <1>1, <2>1, <2>2, AdapterIdAssumption DEF AttachedIsRegistered
  <2>5. QED BY <2>1, <2>2, <2>3, <2>4 DEF TableInv
<1>5. QED BY <1>2, <1>3, <1>4 DEF InitLibrary

-----------------------------------------------------------------------------
(* The call in progress *)

(* Outside of an open, a frame promises nothing. *)
LEMMA FrameAtRest ==
  ASSUME call' \in Frame, call'.pc \in {"idle", "aborted", "lookup"}
  PROVE  CallInv'
BY DEF CallInv, CallUsesLiveAdapter, AttachIsRegistered

LEMMA RestFrames ==
  /\ Idle \in Frame /\ Idle.pc = "idle"
  /\ Aborted \in Frame /\ Aborted.pc = "aborted"
  /\ \A result \in {"ENODATA", "OK"} :
       LET frame == [Idle EXCEPT !.scanRet = result]
       IN  frame \in Frame /\ frame.pc = "idle"
BY DEF Idle, Aborted, Frame

LEMMA IdleKeepsInv == ASSUME call' = Idle PROVE CallInv'
BY RestFrames, FrameAtRest

(* A failed dev_i2c_open_i2c_dev goes on with the same adapter or ends the *)
(* call, and attaches a client only to an adapter it is registered with.   *)
LEMMA FailedOpenKeepsInv ==
  ASSUME IInv, call.pc \in {"stat", "open"}, NEW valid, OpenDevFailed(valid),
         DOMAIN adapters' = DOMAIN adapters
  PROVE  /\ client' \in [Client -> ClientRecord]
         /\ \A c \in Client : \/ client'[c].adapter = client[c].adapter
                              \/ /\ client'[c].adapter = call.adap
                                 /\ c \in adapters[call.adap].users
         /\ CallInv'
<1>1. call \in Frame /\ call.adap \in DOMAIN adapters /\ call.adap \in AdapterId
  BY DEF IInv, TableInv, CallInv, CallUsesLiveAdapter
<1>2. CASE call.site = "attach"
  <2>1. call.who \in Client /\ call.who \in adapters[call.adap].users
    BY <1>2 DEF IInv, CallInv, AttachIsRegistered
  <2>2. client' = [client EXCEPT ![call.who].adapter = call.adap]
    BY <1>2 DEF OpenDevFailed
  <2>3. [client[call.who] EXCEPT !.adapter = call.adap] \in ClientRecord
    BY <1>1, <2>1 DEF IInv, TableInv, ClientRecord
  <2>4. /\ client' \in [Client -> ClientRecord]
        /\ client'[call.who].adapter = call.adap
        /\ \A c \in Client : c # call.who => client'[c] = client[c]
    BY <2>1, <2>2, <2>3 DEF IInv, TableInv, ClientRecord
  <2>5. call' = [call EXCEPT !.pc = "stat", !.site = "final"]
    BY <1>2 DEF OpenDevFailed
  <2>6. CallInv'
    BY <1>1, <2>5 DEF CallInv, Frame, CallUsesLiveAdapter, AttachIsRegistered
  <2>7. QED BY <2>1, <2>4, <2>6
<1>3. CASE call.site # "attach" /\ call.site = "attached" /\ ~valid
  <2>1. client' = client /\ call' = [call EXCEPT !.pc = "rescan"]
    BY <1>3 DEF OpenDevFailed
  <2>2. CallInv'
    BY <1>1, <2>1 DEF CallInv, Frame, CallUsesLiveAdapter, AttachIsRegistered
  <2>3. QED BY <2>1, <2>2 DEF IInv, TableInv
<1>4. CASE call.site # "attach" /\ ~(call.site = "attached" /\ ~valid)
  <2>1. client' = client /\ call' = Idle
    BY <1>4 DEF OpenDevFailed
  <2>2. QED BY <2>1, IdleKeepsInv DEF IInv, TableInv
<1>5. QED BY <1>2, <1>3, <1>4

-----------------------------------------------------------------------------
(* The steps *)

LEMMA InitEstablishesInv == Init => IInv
<1> SUFFICES ASSUME Init PROVE IInv
  OBVIOUS
<1>1. NodeTypeOK
  BY DEF Init, KernelInit, NodeTypeOK
<1>2. adapters = [a \in {} |-> NULL] /\ fds = [f \in {} |-> NULL]
  BY DEF Init, NoAdapters, NoFiles
<1>3. DOMAIN adapters = {} /\ DOMAIN fds = {}
  BY <1>2
<1>4. client = [c \in Client |-> [path |-> NULL, adapter |-> NULL]]
  BY DEF Init, Freed
<1>5. /\ client \in [Client -> ClientRecord]
      /\ \A c \in Client : client[c].adapter = NULL
  BY <1>4 DEF ClientRecord
<1>6. /\ adapters \in [DOMAIN adapters -> Adapter]
      /\ fds \in [DOMAIN fds -> OpenFile]
  BY <1>2, <1>3
<1>7. TableInv
  BY <1>1, <1>3, <1>5, <1>6
     DEF Init, TableInv, TableOnlyWhenReady, NoDanglingAdapter, AttachedIsRegistered, FdOwned
<1>8. CallInv
  BY RestFrames DEF Init, CallInv, CallUsesLiveAdapter, AttachIsRegistered
<1>9. QED BY <1>7, <1>8 DEF IInv

LEMMA KernelKeepsInv == ASSUME IInv, KernelStep PROVE IInv'
<1>1. NodeTypeOK'
  BY KernelKeepsType DEF KernelStep, FreshIno, IInv, TableInv
<1>2. UNCHANGED <<libState, rescanRequired, scan, adapters, client, fds, call>>
  BY DEF KernelStep, libVars
<1>3. TableInv'
  BY <1>1, <1>2, TableUntouched DEF IInv, TableInv
<1>4. CallInv'
  BY <1>2 DEF IInv, CallInv, CallUsesLiveAdapter, AttachIsRegistered
<1>5. QED BY <1>3, <1>4 DEF IInv

(* A call that starts finds the previous one ended. *)
LEMMA ApplicationKeepsInv == ASSUME IInv, ApplicationCalls PROVE IInv'
<1> USE DEF IInv
<1>1. CASE I2cdevInit
  <2>1. call' = Idle /\ UNCHANGED node
    BY <1>1 DEF I2cdevInit
  <2>2. CASE libState = "READY"
    <3>1. UNCHANGED <<libState, rescanRequired, scan, adapters, client, fds>>
      BY <1>1, <2>2 DEF I2cdevInit
    <3>2. NodeTypeOK' /\ rescanRequired' \in BOOLEAN
      BY <2>1, <3>1 DEF TableInv, NodeTypeOK
    <3>3. QED BY <2>1, <3>1, <3>2, TableUntouched, IdleKeepsInv
  <2>3. CASE libState # "READY"
    <3>1. PICK result \in {"ENODATA", "OK"} : InitLibrary(result)
      BY <1>1, <2>3 DEF I2cdevInit
    <3>2. QED BY <2>1, <2>3, <3>1, InitKeepsInv, IdleKeepsInv
  <2>4. QED BY <2>2, <2>3
<1>2. CASE I2cdevRescan
  <2>1. UNCHANGED node
    BY <1>2 DEF I2cdevRescan
  <2>2. PICK result \in {"ENODATA", "OK"} :
          /\ call' = [Idle EXCEPT !.scanRet = result]
          /\ \/ libState = "UNINIT" /\ InitLibrary(result)
             \/ libState = "READY" /\ \E s \in ScanId : RescanSucceeds(s)
             \/ Cleanup
    BY <1>2 DEF I2cdevRescan, RescanFails
  <2>3. CallInv'
    BY <2>2, RestFrames, FrameAtRest
  <2>4. CASE libState = "UNINIT" /\ InitLibrary(result)
    BY <2>1, <2>3, <2>4, InitKeepsInv
  <2>5. CASE libState = "READY" /\ \E s \in ScanId : RescanSucceeds(s)
    BY <2>1, <2>3, <2>5, RescanKeepsInv
  <2>6. CASE Cleanup
    BY <2>1, <2>3, <2>6, CleanupKeepsInv
  <2>7. QED BY <2>2, <2>4, <2>5, <2>6
<1>3. CASE I2cdevCleanup
  BY <1>3, CleanupKeepsInv, IdleKeepsInv DEF I2cdevCleanup
<1>4. ASSUME NEW c \in Client, NEW b \in Bus, NewDevice(c, b) PROVE IInv'
  <2>1. /\ call' = Idle
        /\ UNCHANGED <<node, libState, rescanRequired, scan, adapters, fds>>
        /\ client' = [client EXCEPT ![c] = [path |-> b, adapter |-> NULL]]
    BY <1>4 DEF NewDevice
  <2>2. client' \in [Client -> ClientRecord]
    BY <2>1 DEF TableInv, ClientRecord
  <2>3. \A d \in Client : client'[d].adapter \in {client[d].adapter, NULL}
    BY <2>1 DEF TableInv
  <2>4. CloseAdapter(NULL)
    BY <2>1 DEF CloseAdapter
  <2>5. QED BY <2>1, <2>2, <2>3, <2>4, AdapterClosed, IdleKeepsInv
<1>5. ASSUME NEW c \in Client, CloseDevice(c) PROVE IInv'
  <2>1. /\ call' = Idle
        /\ UNCHANGED <<node, libState, rescanRequired, scan, client>>
        /\ CloseAdapter(client[c].adapter)
    BY <1>5 DEF CloseDevice
  <2>2. client[c].adapter \in DOMAIN adapters \cup {NULL}
    BY DEF TableInv, NoDanglingAdapter
  <2>3. client' \in [Client -> ClientRecord]
    BY <2>1 DEF TableInv
  <2>4. QED BY <2>1, <2>2, <2>3, AdapterClosed, IdleKeepsInv
<1>6. ASSUME NEW c \in Client, DeleteDevice(c) PROVE IInv'
  <2>1. /\ call' = Idle
        /\ UNCHANGED <<node, libState, rescanRequired, scan>>
        /\ CloseAdapter(client[c].adapter)
        /\ client' = [client EXCEPT ![c] = [path |-> NULL, adapter |-> NULL]]
    BY <1>6 DEF DeleteDevice, Freed
  <2>2. client[c].adapter \in DOMAIN adapters \cup {NULL}
    BY DEF TableInv, NoDanglingAdapter
  <2>3. client' \in [Client -> ClientRecord]
    BY <2>1 DEF TableInv, ClientRecord
  <2>4. \A d \in Client : client'[d].adapter \in {client[d].adapter, NULL}
    BY <2>1 DEF TableInv
  <2>5. QED BY <2>1, <2>2, <2>3, <2>4, AdapterClosed, IdleKeepsInv
<1>7. ASSUME NEW c \in Client, NEW kind \in {"xfer", "open"}, BeginOpen(c, kind) PROVE IInv'
  <2> DEFINE frame == [Idle EXCEPT !.who = c, !.kind = kind]
  <2>1. UNCHANGED <<node, libState, rescanRequired, scan, adapters, client, fds>>
    BY <1>7 DEF BeginOpen
  <2>2. TableInv'
    BY <2>1, TableUntouched DEF TableInv, NodeTypeOK
  <2>3. CASE call' = Idle
    BY <2>2, <2>3, IdleKeepsInv
  <2>4. CASE /\ client[c].adapter # NULL
             /\ call' = [frame EXCEPT !.pc = "stat", !.site = "attached",
                                      !.adap = client[c].adapter]
    <3>1. client[c].adapter \in DOMAIN adapters /\ client[c].adapter \in AdapterId
      BY <2>4 DEF TableInv, NoDanglingAdapter
    <3>2. CallInv'
      BY <2>1, <2>4, <3>1 DEF CallInv, Idle, Frame, CallUsesLiveAdapter, AttachIsRegistered
    <3>3. QED BY <2>2, <3>2
  <2>5. CASE call' = [frame EXCEPT !.pc = "lookup"]
    <3>1. call' \in Frame /\ call'.pc = "lookup"
      BY <2>5 DEF Idle, Frame
    <3>2. QED BY <2>2, <3>1, FrameAtRest
  <2>6. QED BY <1>7, <2>3, <2>4, <2>5 DEF BeginOpen
<1>8. ASSUME NEW b \in Bus, BeginProbe(b) PROVE IInv'
  <2>1. UNCHANGED <<node, libState, rescanRequired, scan, adapters, client, fds>>
    BY <1>8 DEF BeginProbe
  <2>2. TableInv'
    BY <2>1, TableUntouched DEF TableInv, NodeTypeOK
  <2>3. CASE call' \in {Idle, Aborted}
    BY <2>2, <2>3, RestFrames, FrameAtRest
  <2>4. ASSUME NEW a \in LookupResult(b),
               call' = [Idle EXCEPT !.pc = "stat", !.who = Dummy, !.kind = "probe",
                                    !.site = "attached", !.adap = a]
        PROVE  IInv'
    <3>1. a \in DOMAIN adapters /\ a \in AdapterId
      BY DEF LookupResult, TableInv
    <3>2. CallInv'
      BY <2>1, <2>4, <3>1 DEF CallInv, Idle, Frame, CallUsesLiveAdapter, AttachIsRegistered
    <3>3. QED BY <2>2, <3>2
  <2>5. QED BY <1>8, <2>3, <2>4 DEF BeginProbe
<1>9. QED BY <1>1, <1>2, <1>3, <1>4, <1>5, <1>6, <1>7, <1>8 DEF ApplicationCalls

(* While a call works with an adapter the library is READY. *)
LEMMA WorkingMeansReady ==
  ASSUME IInv, call.pc \in {"stat", "open", "rescan", "use"}
  PROVE  /\ libState = "READY"
         /\ call \in Frame
         /\ call.adap \in DOMAIN adapters
         /\ call.adap \in AdapterId
         /\ adapters[call.adap] \in Adapter
BY DEF IInv, TableInv, CallInv, CallUsesLiveAdapter, TableOnlyWhenReady

LEMMA StatKeepsInv ==
  ASSUME IInv, StatFails \/ StatFindsStale \/ StatAccepts
  PROVE  IInv'
<1> DEFINE a == call.adap
<1>1. call.pc = "stat"
  BY DEF StatFails, StatFindsStale, StatAccepts, StatSeesNode
<1>2. call \in Frame /\ a \in DOMAIN adapters /\ a \in AdapterId /\ adapters[a] \in Adapter
  BY <1>1, WorkingMeansReady
<1>3. CASE StatFails
  <2>1. UNCHANGED <<node, libState, rescanRequired, scan, adapters, fds>>
    BY <1>3 DEF StatFails
  <2>2. DOMAIN adapters' = DOMAIN adapters /\ adapters' = [adapters EXCEPT ![a] = adapters[a]]
    BY <2>1 DEF IInv, TableInv
  <2>3. /\ client' \in [Client -> ClientRecord]
        /\ \A c \in Client : \/ client'[c].adapter = client[c].adapter
                             \/ client'[c].adapter = a /\ c \in adapters[a].users
        /\ CallInv'
    BY <1>1, <1>3, <2>2, FailedOpenKeepsInv DEF StatFails
  <2>4. rescanRequired' \in BOOLEAN
    BY <2>1 DEF IInv, TableInv
  <2>5. TableInv'
    BY <1>2, <2>1, <2>2, <2>3, <2>4, AdapterChanged DEF IInv
  <2>6. QED BY <2>3, <2>5 DEF IInv
<1>4. CASE StatFindsStale
  <2> DEFINE r == [adapters[a] EXCEPT !.ready = FALSE]
  <2>1. /\ adapters' = [adapters EXCEPT ![a] = r]
        /\ rescanRequired' = TRUE
        /\ UNCHANGED <<node, libState, scan, fds>>
    BY <1>4 DEF StatFindsStale
  <2>2. /\ r \in Adapter /\ r.fd = adapters[a].fd /\ r.users = adapters[a].users
        /\ DOMAIN adapters' = DOMAIN adapters
    BY <1>2, <2>1 DEF Adapter, IInv, TableInv
  <2>3. PICK valid \in BOOLEAN : OpenDevFailed(valid)
    BY <1>4 DEF StatFindsStale, CacheIsValid
  <2>4. /\ client' \in [Client -> ClientRecord]
        /\ \A c \in Client : \/ client'[c].adapter = client[c].adapter
                             \/ client'[c].adapter = a /\ c \in adapters[a].users
        /\ CallInv'
    BY <1>1, <2>2, <2>3, FailedOpenKeepsInv
  <2>5. TableInv'
    BY <1>2, <2>1, <2>2, <2>4, AdapterChanged DEF IInv
  <2>6. QED BY <2>4, <2>5 DEF IInv
<1>5. CASE StatAccepts
  <2> DEFINE r == [adapters[a] EXCEPT !.uid = node[a.nr].ino]
  <2>1. /\ adapters' = [adapters EXCEPT ![a] = r]
        /\ call' = [call EXCEPT !.pc = "open"]
        /\ UNCHANGED <<node, libState, rescanRequired, scan, client, fds>>
    BY <1>5 DEF StatAccepts
  <2>2. node[a.nr].ino \in Ino \cup {NULL}
    BY <1>2 DEF IInv, TableInv, NodeTypeOK, AdapterId
  <2>3. /\ r \in Adapter /\ r.fd = adapters[a].fd /\ r.users = adapters[a].users
        /\ rescanRequired' \in BOOLEAN
        /\ client' \in [Client -> ClientRecord]
    BY <1>2, <2>1, <2>2 DEF Adapter, IInv, TableInv
  <2>4. TableInv' /\ DOMAIN adapters' = DOMAIN adapters /\ adapters'[a] = r
    BY <1>2, <2>1, <2>3, AdapterChanged DEF IInv
  <2>5. CallInv'
    BY <1>1, <1>2, <2>1, <2>3, <2>4
       DEF IInv, CallInv, Frame, CallUsesLiveAdapter, AttachIsRegistered
  <2>6. QED BY <2>4, <2>5 DEF IInv
<1>6. QED BY <1>3, <1>4, <1>5

LEMMA OpenKeepsInv ==
  ASSUME IInv, OpenFails \/ AttachOpens \/ \E f \in Fd : DeviceOpens(f)
  PROVE  IInv'
<1> DEFINE a == call.adap
<1>1. call.pc = "open"
  BY DEF OpenFails, AttachOpens, DeviceOpens
<1>2. call \in Frame /\ a \in DOMAIN adapters /\ a \in AdapterId /\ adapters[a] \in Adapter
  BY <1>1, WorkingMeansReady
<1>3. CASE OpenFails
  <2> DEFINE r == [adapters[a] EXCEPT !.fd = NULL]
  <2>1. /\ adapters' = [adapters EXCEPT ![a] = r]
        /\ UNCHANGED <<node, libState, rescanRequired, scan, fds>>
        /\ OpenDevFailed(CacheIsValid)
    BY <1>3 DEF OpenFails
  <2>2. /\ r \in Adapter /\ r.fd = NULL /\ r.users = adapters[a].users
        /\ DOMAIN adapters' = DOMAIN adapters
        /\ rescanRequired' \in BOOLEAN
    BY <1>2, <2>1 DEF Adapter, IInv, TableInv
  <2>3. /\ client' \in [Client -> ClientRecord]
        /\ \A c \in Client : \/ client'[c].adapter = client[c].adapter
                             \/ client'[c].adapter = a /\ c \in adapters[a].users
        /\ CallInv'
    BY <1>1, <2>1, <2>2, FailedOpenKeepsInv
  <2>4. TableInv'
    BY <1>2, <2>1, <2>2, <2>3, AdapterChanged DEF IInv
  <2>5. QED BY <2>3, <2>4 DEF IInv
<1>4. CASE AttachOpens
  <2> DEFINE r == [adapters[a] EXCEPT !.fd = NULL, !.ready = TRUE]
  <2>1. call.who \in Client /\ call.who \in adapters[a].users
    BY <1>1, <1>4 DEF AttachOpens, IInv, CallInv, AttachIsRegistered
  <2>2. /\ UNCHANGED <<node, libState, rescanRequired, scan, fds>>
        /\ client' = [client EXCEPT ![call.who].adapter = a]
        /\ call' = [call EXCEPT !.pc = "stat", !.site = "final"]
    BY <1>4 DEF AttachOpens
  <2>3. adapters' = [adapters EXCEPT ![a] = r]
    BY <1>2, <1>4 DEF AttachOpens, Adapter, IInv, TableInv
  <2>4. /\ r \in Adapter /\ r.fd = NULL /\ r.users = adapters[a].users
        /\ rescanRequired' \in BOOLEAN
    BY <1>2, <2>2 DEF Adapter, IInv, TableInv
  <2>5. /\ client' \in [Client -> ClientRecord]
        /\ \A c \in Client : \/ client'[c].adapter = client[c].adapter
                             \/ client'[c].adapter = a /\ c \in adapters[a].users
    BY <1>2, <2>1, <2>2 DEF IInv, TableInv, ClientRecord
  <2> HIDE DEF r
  <2>6. /\ UNCHANGED <<node, libState, scan, fds>>
        /\ adapters[a].users \subseteq r.users
        /\ r.fd \in {adapters[a].fd, NULL}
        /\ \A c \in Client : \/ client'[c].adapter = client[c].adapter
                             \/ client'[c].adapter = NULL
                             \/ client'[c].adapter = a /\ c \in r.users
    BY <2>2, <2>4, <2>5
  <2>7. TableInv' /\ DOMAIN adapters' = DOMAIN adapters
    BY <1>2, <2>3, <2>4, <2>5, <2>6, AdapterChanged DEF IInv
  <2>8. CallInv'
    BY <1>2, <2>2, <2>7 DEF CallInv, Frame, CallUsesLiveAdapter, AttachIsRegistered
  <2>9. QED BY <2>7, <2>8 DEF IInv
<1>5. ASSUME NEW f \in Fd, DeviceOpens(f) PROVE IInv'
  <2> DEFINE file == node[a.nr]
  <2>1. /\ f \in Fd \ DOMAIN fds
        /\ file \in OpenFile
    BY <1>2, <1>5 DEF DeviceOpens, IInv, TableInv, NodeTypeOK, AdapterId, OpenFile
  <2>2. /\ fds' = [g \in DOMAIN fds \cup {f} |-> IF g = f THEN file ELSE fds[g]]
        /\ adapters' = [adapters EXCEPT ![a].fd = f]
        /\ call' \in {Idle, [call EXCEPT !.pc = "use", !.site = "none"]}
        /\ UNCHANGED <<node, libState, rescanRequired, scan, client>>
    BY <1>5 DEF DeviceOpens
  <2> HIDE DEF file
  <2>3. TableInv' /\ DOMAIN adapters' = DOMAIN adapters /\ adapters'[a].fd = f
    <3>1. TableInv /\ UNCHANGED <<node, libState, rescanRequired, scan, client>>
      BY <2>2 DEF IInv
    <3>2. /\ fds' = [g \in DOMAIN fds \cup {f} |-> IF g = f THEN file ELSE fds[g]]
          /\ adapters' = [adapters EXCEPT ![a].fd = f]
      BY <2>2
    <3> HIDE DEF a
    <3>3. QED BY <1>2, <2>1, <3>1, <3>2, DescriptorOpened
  <2>4. CASE call' = Idle
    BY <2>3, <2>4, IdleKeepsInv DEF IInv
  <2>5. CASE call' = [call EXCEPT !.pc = "use", !.site = "none"]
    <3>1. f # NULL
      BY CacheAssumption
    <3>2. CallInv'
      BY <1>2, <2>3, <2>5, <3>1 DEF CallInv, Frame, CallUsesLiveAdapter, AttachIsRegistered
    <3>3. QED BY <2>3, <3>2 DEF IInv
  <2>6. QED BY <2>2, <2>4, <2>5
<1>6. QED BY <1>3, <1>4, <1>5

LEMMA RescanInOpenKeepsInv == ASSUME IInv, RescanInOpen PROVE IInv'
<1>1. libState = "READY" /\ call \in Frame
  BY WorkingMeansReady DEF RescanInOpen
<1>2. UNCHANGED node
  BY DEF RescanInOpen
<1>3. ASSUME NEW s \in ScanId, RescanSucceeds(s),
             call' = [call EXCEPT !.pc = "lookup", !.site = "none", !.adap = NULL,
                                  !.scanRet = "OK"]
      PROVE  IInv'
  <2>1. call' \in Frame /\ call'.pc = "lookup"
    BY <1>1, <1>3 DEF Frame
  <2>2. QED BY <1>1, <1>2, <1>3, <2>1, RescanKeepsInv, FrameAtRest DEF IInv
<1>4. CASE RescanFails /\ call' = Idle
  BY <1>2, <1>4, CleanupKeepsInv, IdleKeepsInv DEF RescanFails, IInv
<1>5. QED BY <1>3, <1>4 DEF RescanInOpen

LEMMA LookupKeepsInv ==
  ASSUME IInv, \/ LookupReturnsNothing
               \/ \E a \in DOMAIN adapters : AttachRefused(a) \/ AttachBegins(a)
  PROVE  IInv'
<1>1. call \in Frame
  BY DEF IInv, CallInv
<1>2. CASE LookupReturnsNothing
  <2>1. /\ UNCHANGED <<node, libState, rescanRequired, scan, adapters, client, fds>>
        /\ call' \in {Idle, Aborted}
    BY <1>2 DEF LookupReturnsNothing
  <2>2. TableInv'
    BY <2>1, TableUntouched DEF IInv, TableInv, NodeTypeOK
  <2>3. QED BY <2>1, <2>2, RestFrames, FrameAtRest DEF IInv
<1>3. ASSUME NEW a \in DOMAIN adapters, a \in LookupResult(PathOf(call.who))
      PROVE  call.who \in Client
  <2>1. adapters[a].bus \in Bus /\ adapters[a].bus = PathOf(call.who)
    BY <1>3 DEF LookupResult, IInv, TableInv, Adapter
  <2>2. QED BY <2>1, KernelAssumption DEF PathOf
<1>4. ASSUME NEW a \in DOMAIN adapters, AttachRefused(a) PROVE IInv'
  <2>1. /\ UNCHANGED <<node, libState, rescanRequired, scan, adapters, fds>>
        /\ client' = [client EXCEPT ![call.who].adapter = NULL]
        /\ call' = Idle
        /\ call.who \in Client
    BY <1>3, <1>4 DEF AttachRefused
  <2>2. /\ client' \in [Client -> ClientRecord]
        /\ \A c \in Client : client'[c].adapter \in {client[c].adapter, NULL}
    BY <2>1 DEF IInv, TableInv, ClientRecord
  <2>3. CloseAdapter(NULL)
    BY <2>1 DEF CloseAdapter
  <2>4. QED BY <2>1, <2>2, <2>3, AdapterClosed, IdleKeepsInv DEF IInv
<1>5. ASSUME NEW a \in DOMAIN adapters, AttachBegins(a) PROVE IInv'
  <2> DEFINE r == [adapters[a] EXCEPT !.users = @ \cup {call.who}, !.ready = FALSE]
  <2>1. /\ UNCHANGED <<node, libState, rescanRequired, scan, client, fds>>
        /\ call' = [call EXCEPT !.pc = "stat", !.site = "attach", !.adap = a]
        /\ call.who \in Client
    BY <1>3, <1>5 DEF AttachBegins
  <2>2. adapters[a] \in Adapter /\ a \in AdapterId
    BY DEF IInv, TableInv
  <2>3. adapters' = [adapters EXCEPT ![a] = r]
    BY <1>5, <2>2 DEF AttachBegins, Adapter, IInv, TableInv
  <2>4. /\ r \in Adapter /\ r.fd = adapters[a].fd
        /\ r.users = adapters[a].users \cup {call.who}
        /\ rescanRequired' \in BOOLEAN
        /\ client' \in [Client -> ClientRecord]
    BY <2>1, <2>2 DEF Adapter, IInv, TableInv
  <2>5. TableInv' /\ DOMAIN adapters' = DOMAIN adapters /\ adapters'[a] = r
    BY <2>1, <2>3, <2>4, AdapterChanged DEF IInv
  <2>6. CallInv'
    BY <1>1, <2>1, <2>2, <2>4, <2>5 DEF CallInv, Frame, CallUsesLiveAdapter, AttachIsRegistered
  <2>7. QED BY <2>5, <2>6 DEF IInv
<1>6. QED BY <1>2, <1>4, <1>5

LEMMA TransferKeepsInv == ASSUME IInv, Transfer PROVE IInv'
<1>1. call.adap \in DOMAIN adapters
  BY WorkingMeansReady DEF Transfer
<1>2. /\ CloseAdapter(call.adap)
      /\ call' = Idle
      /\ UNCHANGED <<node, libState, rescanRequired, scan, client>>
  BY DEF Transfer
<1>3. client' \in [Client -> ClientRecord]
  BY <1>2 DEF IInv, TableInv
<1>4. QED BY <1>1, <1>2, <1>3, AdapterClosed, IdleKeepsInv DEF IInv

-----------------------------------------------------------------------------
(* The theorems *)

(* The inductive invariant holds in every reachable state. *)
THEOREM IInvHolds == Spec => []IInv
<1>1. IInv /\ [Next]_vars => IInv'
  <2> SUFFICES ASSUME IInv, [Next]_vars PROVE IInv'
    OBVIOUS
  <2>1. CASE KernelStep
    BY <2>1, KernelKeepsInv
  <2>2. CASE ApplicationCalls
    BY <2>2, ApplicationKeepsInv
  <2>3. CASE CallContinues
    BY <2>3, StatKeepsInv, OpenKeepsInv, RescanInOpenKeepsInv, LookupKeepsInv, TransferKeepsInv
       DEF CallContinues
  <2>4. CASE UNCHANGED vars
    <3>1. UNCHANGED <<node, libState, rescanRequired, scan, adapters, client, fds, call>>
      BY <2>4 DEF vars, libVars
    <3>2. QED BY <3>1 DEF IInv, TableInv, CallInv, NodeTypeOK, TableOnlyWhenReady,
                         NoDanglingAdapter, AttachedIsRegistered, FdOwned,
                         CallUsesLiveAdapter, AttachIsRegistered
  <2>5. QED BY <2>1, <2>2, <2>3, <2>4 DEF Next
<1>2. QED BY InitEstablishesInv, <1>1, PTL DEF Spec

(* Types are kept, whatever the application and the kernel may do. *)
THEOREM TypeCorrect == Spec => []TypeOK
<1>1. IInv => TypeOK
  BY DEF IInv, TableInv, CallInv, TypeOK
<1>2. QED BY IInvHolds, <1>1, PTL

(* No client ever keeps a pointer to an adapter that was freed, for any    *)
(* number of clients and adapters, with kernel changes at any point of a   *)
(* call, failing scans, failing opens and open descriptors left around.    *)
THEOREM NoClientDangles == Spec => [](NoDanglingAdapter /\ AttachedIsRegistered)
<1>1. IInv => NoDanglingAdapter /\ AttachedIsRegistered
  BY DEF IInv, TableInv
<1>2. QED BY IInvHolds, <1>1, PTL

(* A call in progress never reads or writes an adapter that was freed, its *)
(* own rescan included, and transfers with a descriptor in hand.           *)
THEOREM CallsAreSafe == Spec => []CallUsesLiveAdapter
<1>1. IInv => CallUsesLiveAdapter
  BY DEF IInv, CallInv
<1>2. QED BY IInvHolds, <1>1, PTL

(* Every descriptor an adapter holds is open and belongs to it alone. *)
THEOREM DescriptorsAreOwned == Spec => []FdOwned
<1>1. IInv => FdOwned
  BY DEF IInv, TableInv
<1>2. QED BY IInvHolds, <1>1, PTL
-----------------------------------------------------------------------------
(* What a call does with the bus it found                                  *)
(*                                                                         *)
(* The invariants that follow speak of the kernel as well: a call looks at *)
(* a node with stat(2), opens it and uses it in steps of their own, so     *)
(* that they hold when the kernel does not change between those steps.     *)
KernelWaits == "midcall_hotplug" \notin May

Working == call.pc \in {"stat", "open"}
WorksOn == adapters[call.adap]
NodeThere == node[call.adap.nr]

(* Without explicit opens the only descriptor there is is that of the      *)
(* adapter in use.                                                         *)
ClosedBetweenCalls ==
  /\ call.kind # "open"
  /\ call.pc # "use" => DOMAIN fds = {}
  /\ call.pc = "use" => DOMAIN fds = {WorksOn.fd}

(* What an open has made sure of where it is, about the node and readiness *)
(* of the adapter it works on.                                             *)
OpensWhatItSaw ==
  /\ Working => call.site # "none"
  /\ call.pc = "open" => WorksOn.uid = NodeThere.ino
  /\ (Working /\ call.site = "attach") => ~WorksOn.ready
  /\ (Working /\ call.site = "final" /\ WorksOn.ready) => WorksOn.uid = NodeThere.ino
  /\ UsePinned

(* After its own rescan a call works with a table that agrees with the     *)
(* kernel, and on the adapter of its client's path.                        *)
FreshTable ==
  /\ (call.scanRet = "OK" /\ call.pc \in {"lookup", "stat", "open"}) =>
       /\ \A a \in DOMAIN adapters : adapters[a].bus = node[a.nr].bus
       /\ Working => WorksOn.bus = PathOf(call.who)
  /\ RescanReroutes

(* The flag is up only while an open is on its way to the rescan. *)
FlagMeansRescan == rescanRequired => call.pc = "rescan"

(* What starts a call: no step of the application opens a descriptor,      *)
(* raises the flag or goes further than the first question to the kernel.  *)
LEMMA CallStarts ==
  ASSUME IInv, ApplicationCalls
  PROVE  /\ call.pc = "idle" /\ UNCHANGED node
         /\ DOMAIN fds' \subseteq DOMAIN fds
         /\ rescanRequired' => rescanRequired
         /\ call'.kind = "open" => "explicit_open" \in May
         /\ \/ call'.pc \in {"idle", "aborted"}
            \/ call'.pc = "lookup" /\ call'.scanRet = "ENODATA"
            \/ call'.pc = "stat" /\ call'.site = "attached" /\ call'.scanRet = "ENODATA"
<1>1. IInv'
  BY ApplicationKeepsInv
<1>2. \A S : DOMAIN Restrict(fds, S) = S
  BY DEF Restrict
<1>3. Cleanup => DOMAIN fds' \subseteq DOMAIN fds /\ rescanRequired' = rescanRequired
  BY <1>2 DEF Cleanup, FreeAdapterList
<1>4. \A result : InitLibrary(result) =>
                    DOMAIN fds' \subseteq DOMAIN fds /\ rescanRequired' = rescanRequired
  BY <1>3 DEF InitLibrary, InitFindsNoSysfs, InitFails, InitSucceeds
<1>5. \A s : RescanSucceeds(s) => DOMAIN fds' \subseteq DOMAIN fds /\ rescanRequired' = FALSE
  BY <1>2 DEF RescanSucceeds, FreeAdapterList
<1>6. \A a : CloseAdapter(a) => DOMAIN fds' \subseteq DOMAIN fds
  BY <1>2 DEF CloseAdapter
<1>7. CASE I2cdevInit
  BY <1>4, <1>7 DEF I2cdevInit, Idle
<1>8. CASE I2cdevRescan
  <2>1. call.pc = "idle" /\ UNCHANGED node /\ call'.pc = "idle" /\ call'.kind = "none"
    BY <1>8 DEF I2cdevRescan, Idle
  <2>2. DOMAIN fds' \subseteq DOMAIN fds /\ (rescanRequired' => rescanRequired)
    BY <1>3, <1>4, <1>5, <1>8 DEF I2cdevRescan, RescanFails
  <2>3. QED BY <2>1, <2>2
<1>9. CASE I2cdevCleanup
  BY <1>3, <1>9 DEF I2cdevCleanup, Idle
<1>10. ASSUME NEW c \in Client, (\E b \in Bus : NewDevice(c, b)) \/ CloseDevice(c) \/ DeleteDevice(c)
       PROVE  /\ call.pc = "idle" /\ UNCHANGED node /\ DOMAIN fds' \subseteq DOMAIN fds
              /\ rescanRequired' = rescanRequired /\ call' = Idle
  BY <1>6, <1>10 DEF NewDevice, CloseDevice, DeleteDevice
<1>11. ASSUME NEW c \in Client, NEW kind \in {"xfer", "open"}, BeginOpen(c, kind)
       PROVE  /\ call.pc = "idle" /\ UNCHANGED <<node, fds, rescanRequired>>
              /\ call'.kind = "open" => "explicit_open" \in May
              /\ \/ call'.pc = "idle"
                 \/ call'.pc = "lookup" /\ call'.scanRet = "ENODATA"
                 \/ call'.pc = "stat" /\ call'.site = "attached" /\ call'.scanRet = "ENODATA"
  <2> DEFINE frame == [Idle EXCEPT !.who = c, !.kind = kind]
  <2>1. /\ call.pc = "idle" /\ UNCHANGED <<node, fds, rescanRequired>>
        /\ kind = "open" => "explicit_open" \in May
        /\ \/ call' = Idle
           \/ call' = [frame EXCEPT !.pc = "stat", !.site = "attached",
                                    !.adap = client[c].adapter]
           \/ call' = [frame EXCEPT !.pc = "lookup"]
    BY <1>11 DEF BeginOpen
  <2>2. CASE call' = Idle
    BY <2>1, <2>2 DEF Idle
  <2>3. CASE call' = [frame EXCEPT !.pc = "stat", !.site = "attached", !.adap = client[c].adapter]
    <3>1. /\ call'.kind = kind /\ call'.pc = "stat" /\ call'.site = "attached"
          /\ call'.scanRet = "ENODATA"
      BY <2>3 DEF Idle
    <3>2. QED BY <2>1, <3>1
  <2>4. CASE call' = [frame EXCEPT !.pc = "lookup"]
    <3>1. call'.kind = kind /\ call'.pc = "lookup" /\ call'.scanRet = "ENODATA"
      BY <2>4 DEF Idle
    <3>2. QED BY <2>1, <3>1
  <2>5. QED BY <2>1, <2>2, <2>3, <2>4
<1>12. ASSUME NEW b \in Bus, BeginProbe(b)
       PROVE  /\ call.pc = "idle" /\ UNCHANGED <<node, fds, rescanRequired>>
              /\ call'.kind # "open"
              /\ \/ call'.pc \in {"idle", "aborted"}
                 \/ call'.pc = "stat" /\ call'.site = "attached" /\ call'.scanRet = "ENODATA"
  <2>1. /\ call.pc = "idle" /\ UNCHANGED <<node, fds, rescanRequired>>
        /\ \/ call' \in {Idle, Aborted}
           \/ \E a \in LookupResult(b) :
                call' = [Idle EXCEPT !.pc = "stat", !.who = Dummy, !.kind = "probe",
                                     !.site = "attached", !.adap = a]
    BY <1>12 DEF BeginProbe
  <2>2. Idle.pc = "idle" /\ Idle.kind = "none" /\ Aborted.pc = "aborted" /\ Aborted.kind = "none"
    BY DEF Idle, Aborted
  <2>3. ASSUME NEW a, call' = [Idle EXCEPT !.pc = "stat", !.who = Dummy, !.kind = "probe",
                                     !.site = "attached", !.adap = a]
        PROVE  /\ call'.kind = "probe" /\ call'.pc = "stat" /\ call'.site = "attached"
               /\ call'.scanRet = "ENODATA"
    BY <2>3 DEF Idle
  <2>4. QED BY <2>1, <2>2, <2>3
<1>13. Idle.pc = "idle" /\ Idle.kind = "none"
  BY DEF Idle
<1>14. QED BY <1>7, <1>8, <1>9, <1>10, <1>11, <1>12, <1>13 DEF ApplicationCalls

(* Where a failed open goes: back to the application, on to the second try *)
(* of an attach, or to the rescan.                                         *)
LEMMA FailedOpenGoesOn ==
  ASSUME IInv, Working, NEW valid, OpenDevFailed(valid)
  PROVE  /\ \A c \in Client : client'[c].path = client[c].path
         /\ \/ call'.pc = "idle" /\ call'.kind = "none" /\ call.site # "attach"
               /\ (call.site = "attached" => valid)
            \/ /\ call.site = "attach" /\ call'.pc = "stat" /\ call'.site = "final"
               /\ call'.kind = call.kind /\ call'.who = call.who
               /\ call'.adap = call.adap /\ call'.scanRet = call.scanRet
            \/ /\ call.site = "attached" /\ ~valid /\ call'.pc = "rescan"
               /\ call'.kind = call.kind /\ call'.adap = call.adap
<1>1. call \in Frame /\ call.who \in Client \cup {Dummy, NULL}
  BY DEF IInv, CallInv, Frame
<1>2. \A c \in Client : client[c] \in ClientRecord
  BY DEF IInv, TableInv
<1>3. \A c \in Client : client'[c].path = client[c].path
  <2>1. CASE client' = client
    BY <2>1
  <2>2. CASE client' = [client EXCEPT ![call.who].adapter = call.adap]
    BY <1>2, <2>2 DEF IInv, TableInv, ClientRecord
  <2>3. QED BY <2>1, <2>2 DEF OpenDevFailed
<1>4. CASE call.site = "attach"
  <2>1. call' = [call EXCEPT !.pc = "stat", !.site = "final"]
    BY <1>4 DEF OpenDevFailed
  <2>2. QED BY <1>1, <1>3, <1>4, <2>1 DEF Frame
<1>5. CASE call.site = "attached" /\ ~valid
  <2>1. call' = [call EXCEPT !.pc = "rescan"]
    BY <1>5 DEF OpenDevFailed
  <2>2. QED BY <1>1, <1>3, <1>5, <2>1 DEF Frame
<1>6. CASE call.site # "attach" /\ ~(call.site = "attached" /\ ~valid)
  <2>1. call' = Idle
    BY <1>6 DEF OpenDevFailed
  <2>2. call'.pc = "idle" /\ call'.kind = "none"
    BY <2>1 DEF Idle
  <2>3. QED BY <1>3, <1>6, <2>2
<1>7. QED BY <1>4, <1>5, <1>6

-----------------------------------------------------------------------------
(* Descriptors between calls *)

LEMMA NextKeepsClosed ==
  ASSUME "explicit_open" \notin May, IInv, ClosedBetweenCalls, [Next]_vars
  PROVE  ClosedBetweenCalls'
<1>1. \A S : DOMAIN Restrict(fds, S) = S
  BY DEF Restrict
<1>2. call \in Frame /\ Idle.pc = "idle" /\ Idle.kind = "none"
  BY DEF IInv, CallInv, Idle
<1>3. CASE KernelStep \/ UNCHANGED vars
  BY <1>3 DEF KernelStep, libVars, vars, ClosedBetweenCalls, WorksOn
<1>4. CASE ApplicationCalls
  BY <1>4, CallStarts DEF ClosedBetweenCalls
<1>5. CASE StatFails \/ StatFindsStale
  <2>1. Working /\ UNCHANGED fds /\ \E valid : OpenDevFailed(valid)
    BY <1>5 DEF StatFails, StatFindsStale, StatSeesNode, Working
  <2>2. QED BY <2>1, FailedOpenGoesOn DEF ClosedBetweenCalls, Working
<1>6. CASE StatAccepts
  <2>1. call' = [call EXCEPT !.pc = "open"] /\ UNCHANGED fds /\ call.pc = "stat"
    BY <1>6 DEF StatAccepts, StatSeesNode
  <2>2. QED BY <1>2, <2>1 DEF ClosedBetweenCalls, Frame
<1>7. CASE OpenFails
  <2>1. Working /\ UNCHANGED fds /\ \E valid : OpenDevFailed(valid)
    BY <1>7 DEF OpenFails, Working
  <2>2. QED BY <2>1, FailedOpenGoesOn DEF ClosedBetweenCalls, Working
<1>8. CASE AttachOpens
  <2>1. call' = [call EXCEPT !.pc = "stat", !.site = "final"] /\ UNCHANGED fds /\ call.pc = "open"
    BY <1>8 DEF AttachOpens
  <2>2. QED BY <1>2, <2>1 DEF ClosedBetweenCalls, Frame
<1>9. ASSUME NEW f \in Fd, DeviceOpens(f) PROVE ClosedBetweenCalls'
  <2>1. /\ call.pc = "open" /\ DOMAIN fds' = DOMAIN fds \cup {f}
        /\ adapters' = [adapters EXCEPT ![call.adap].fd = f]
        /\ call' = [call EXCEPT !.pc = "use", !.site = "none"]
    BY <1>9 DEF DeviceOpens, ClosedBetweenCalls
  <2>2. call.adap \in DOMAIN adapters /\ adapters[call.adap] \in Adapter
    BY <2>1, WorkingMeansReady
  <2>3. adapters'[call.adap].fd = f
    BY <2>1, <2>2 DEF Adapter
  <2>4. call'.pc = "use" /\ call'.kind = call.kind /\ call'.adap = call.adap
    BY <1>2, <2>1 DEF Frame
  <2>5. QED BY <2>1, <2>3, <2>4 DEF ClosedBetweenCalls, WorksOn
<1>10. CASE RescanInOpen
  <2>1. DOMAIN fds = {}
    BY <1>10 DEF RescanInOpen, ClosedBetweenCalls
  <2>2. DOMAIN fds' = {}
    BY <1>1, <1>10, <2>1 DEF RescanInOpen, RescanSucceeds, RescanFails, Cleanup, FreeAdapterList
  <2>3. call'.kind # "open" /\ call'.pc # "use"
    BY <1>2, <1>10 DEF RescanInOpen, ClosedBetweenCalls, Frame
  <2>4. QED BY <2>2, <2>3 DEF ClosedBetweenCalls
<1>11. CASE LookupReturnsNothing
  BY <1>2, <1>11 DEF LookupReturnsNothing, ClosedBetweenCalls, Idle, Aborted
<1>12. ASSUME NEW a \in DOMAIN adapters, AttachRefused(a) \/ AttachBegins(a)
       PROVE  ClosedBetweenCalls'
  <2>1. /\ call.pc = "lookup" /\ UNCHANGED fds
        /\ call' = Idle \/ call' = [call EXCEPT !.pc = "stat", !.site = "attach", !.adap = a]
    BY <1>12 DEF AttachRefused, AttachBegins
  <2>2. QED BY <1>2, <2>1 DEF ClosedBetweenCalls, Frame
<1>13. CASE Transfer
  <2>1. /\ call.pc = "use" /\ CloseAdapter(call.adap) /\ call' = Idle
    BY <1>13 DEF Transfer
  <2>2. /\ call.adap \in DOMAIN adapters /\ call.adap # NULL
        /\ adapters[call.adap].fd # NULL
    BY <2>1, AdapterIdAssumption DEF IInv, TableInv, CallInv, CallUsesLiveAdapter
  <2>3. DOMAIN fds' = DOMAIN fds \ {adapters[call.adap].fd}
    BY <1>1, <2>1, <2>2 DEF CloseAdapter
  <2>4. QED BY <1>2, <2>1, <2>3 DEF ClosedBetweenCalls, WorksOn
<1>14. QED BY <1>3, <1>4, <1>5, <1>6, <1>7, <1>8, <1>9, <1>10, <1>11, <1>12, <1>13
           DEF Next, CallContinues

-----------------------------------------------------------------------------
(* The node a transfer goes through *)

(* What a step may do to the adapter in work while the kernel waits. *)
LEMMA FailedOpenKeepsSight ==
  ASSUME IInv, OpensWhatItSaw, Working, NEW valid, OpenDevFailed(valid), UNCHANGED node,
         adapters'[call.adap].ready => adapters[call.adap].ready
  PROVE  OpensWhatItSaw'
<1>1. \/ call'.pc = "idle"
      \/ /\ call.site = "attach" /\ call'.pc = "stat" /\ call'.site = "final"
         /\ call'.adap = call.adap
      \/ call'.pc = "rescan"
  BY FailedOpenGoesOn
<1>2. CASE call'.pc \in {"idle", "rescan"}
  BY <1>2 DEF OpensWhatItSaw, Working, UsePinned
<1>3. CASE /\ call.site = "attach" /\ call'.pc = "stat" /\ call'.site = "final"
           /\ call'.adap = call.adap
  <2>1. ~adapters'[call'.adap].ready
    BY <1>3 DEF OpensWhatItSaw, WorksOn
  <2>2. QED BY <1>3, <2>1 DEF OpensWhatItSaw, Working, WorksOn, UsePinned
<1>4. QED BY <1>1, <1>2, <1>3

LEMMA NextKeepsSight ==
  ASSUME KernelWaits, IInv, OpensWhatItSaw, [Next]_vars
  PROVE  OpensWhatItSaw'
<1> DEFINE a == call.adap
<1>1. call \in Frame
  BY DEF IInv, CallInv
<1>2. CASE KernelStep
  <2>1. call.pc \in {"idle", "aborted"} /\ call' = call
    BY <1>2 DEF KernelStep, KernelWaits, libVars
  <2>2. QED BY <2>1 DEF OpensWhatItSaw, Working, UsePinned
<1>3. CASE UNCHANGED vars
  BY <1>3 DEF vars, libVars, OpensWhatItSaw, Working, WorksOn, NodeThere, UsePinned
<1>4. CASE ApplicationCalls
  BY <1>4, CallStarts DEF OpensWhatItSaw, Working, UsePinned
<1>5. CASE StatFails
  <2>1. Working /\ UNCHANGED <<node, adapters>> /\ \E valid : OpenDevFailed(valid)
    BY <1>5 DEF StatFails, Working
  <2>2. QED BY <2>1, FailedOpenKeepsSight
<1>6. CASE StatFindsStale
  <2>1. /\ call.pc = "stat" /\ UNCHANGED node /\ \E valid : OpenDevFailed(valid)
        /\ adapters' = [adapters EXCEPT ![a].ready = FALSE]
    BY <1>6 DEF StatFindsStale, StatSeesNode
  <2>2. a \in DOMAIN adapters /\ adapters[a] \in Adapter
    BY <2>1, WorkingMeansReady
  <2>3. ~adapters'[a].ready
    BY <2>1, <2>2 DEF Adapter
  <2>4. QED BY <2>1, <2>3, FailedOpenKeepsSight DEF Working
<1>7. CASE StatAccepts
  <2>1. /\ call.pc = "stat" /\ UNCHANGED node
        /\ adapters' = [adapters EXCEPT ![a].uid = node[a.nr].ino]
        /\ call' = [call EXCEPT !.pc = "open"]
    BY <1>7 DEF StatAccepts, StatSeesNode
  <2>2. a \in DOMAIN adapters /\ adapters[a] \in Adapter
    BY <2>1, WorkingMeansReady
  <2>3. adapters'[a].uid = node[a.nr].ino /\ adapters'[a].ready = adapters[a].ready
    BY <2>1, <2>2 DEF Adapter
  <2>4. call'.pc = "open" /\ call'.adap = a /\ call'.site = call.site
    BY <1>1, <2>1 DEF Frame
  <2>5. QED BY <2>1, <2>3, <2>4 DEF OpensWhatItSaw, Working, WorksOn, NodeThere, UsePinned
<1>8. CASE OpenFails
  <2>1. /\ call.pc = "open" /\ UNCHANGED node /\ \E valid : OpenDevFailed(valid)
        /\ adapters' = [adapters EXCEPT ![a].fd = NULL]
    BY <1>8 DEF OpenFails
  <2>2. a \in DOMAIN adapters /\ adapters[a] \in Adapter
    BY <2>1, WorkingMeansReady
  <2>3. adapters'[a].ready = adapters[a].ready
    BY <2>1, <2>2 DEF Adapter
  <2>4. QED BY <2>1, <2>3, FailedOpenKeepsSight DEF Working
<1>9. CASE AttachOpens
  <2>1. /\ call.pc = "open" /\ UNCHANGED node
        /\ adapters' = [adapters EXCEPT ![a].fd = NULL, ![a].ready = TRUE]
        /\ call' = [call EXCEPT !.pc = "stat", !.site = "final"]
    BY <1>9 DEF AttachOpens
  <2>2. a \in DOMAIN adapters /\ adapters[a] \in Adapter
    BY <2>1, WorkingMeansReady
  <2>3. adapters'[a].uid = adapters[a].uid
    BY <2>1, <2>2 DEF Adapter
  <2>4. call'.pc = "stat" /\ call'.adap = a /\ call'.site = "final"
    BY <1>1, <2>1 DEF Frame
  <2>5. QED BY <2>1, <2>3, <2>4 DEF OpensWhatItSaw, Working, WorksOn, NodeThere, UsePinned
<1>10. ASSUME NEW f \in Fd, DeviceOpens(f) PROVE OpensWhatItSaw'
  <2>1. /\ call.pc = "open" /\ UNCHANGED node /\ fds'[f] = node[a.nr]
        /\ adapters' = [adapters EXCEPT ![a].fd = f]
        /\ call' \in {Idle, [call EXCEPT !.pc = "use", !.site = "none"]}
    BY <1>10 DEF DeviceOpens
  <2>2. a \in DOMAIN adapters /\ adapters[a] \in Adapter
    BY <2>1, WorkingMeansReady
  <2>3. adapters'[a].uid = adapters[a].uid /\ adapters'[a].fd = f
    BY <2>1, <2>2 DEF Adapter
  <2>4. call'.pc = "idle" \/ (call'.pc = "use" /\ call'.adap = a)
    <3>1. CASE call' = Idle
      BY <3>1 DEF Idle
    <3>2. CASE call' = [call EXCEPT !.pc = "use", !.site = "none"]
      BY <1>1, <3>2 DEF Frame
    <3>3. QED BY <2>1, <3>1, <3>2
  <2>5. QED BY <2>1, <2>3, <2>4 DEF OpensWhatItSaw, Working, WorksOn, NodeThere, UsePinned
<1>11. CASE RescanInOpen \/ LookupReturnsNothing \/ Transfer
  <2>1. call'.pc \in {"idle", "aborted", "lookup"}
    <3>1. Idle.pc = "idle" /\ Aborted.pc = "aborted"
      BY DEF Idle, Aborted
    <3>2. [call EXCEPT !.pc = "lookup", !.site = "none", !.adap = NULL, !.scanRet = "OK"].pc = "lookup"
      BY <1>1 DEF Frame
    <3>3. QED BY <1>11, <3>1, <3>2 DEF RescanInOpen, LookupReturnsNothing, Transfer
  <2>2. QED BY <2>1 DEF OpensWhatItSaw, Working, UsePinned
<1>12. ASSUME NEW x \in DOMAIN adapters, AttachRefused(x) PROVE OpensWhatItSaw'
  <2>1. call'.pc = "idle"
    BY <1>12 DEF AttachRefused, Idle
  <2>2. QED BY <2>1 DEF OpensWhatItSaw, Working, UsePinned
<1>13. ASSUME NEW x \in DOMAIN adapters, AttachBegins(x) PROVE OpensWhatItSaw'
  <2>1. call'.pc = "stat" /\ call'.site = "attach" /\ call'.adap = x
    BY <1>1, <1>13 DEF AttachBegins, Frame
  <2>2. adapters'[x].ready = FALSE
    BY <1>13 DEF AttachBegins, IInv, TableInv, Adapter
  <2>3. QED BY <2>1, <2>2 DEF OpensWhatItSaw, Working, WorksOn, UsePinned
<1>14. QED BY <1>2, <1>3, <1>4, <1>5, <1>6, <1>7, <1>8, <1>9, <1>10, <1>11, <1>12, <1>13
           DEF Next, CallContinues

-----------------------------------------------------------------------------
(* The bus a transfer goes to after a rescan *)

(* An open that goes on, or ends, and moves no adapter to another bus. *)
LEMMA FreshTableStays ==
  ASSUME IInv, FreshTable, Working, UNCHANGED node,
         DOMAIN adapters' = DOMAIN adapters,
         \A a \in DOMAIN adapters : adapters'[a].bus = adapters[a].bus,
         \A c \in Client : client'[c].path = client[c].path,
         \/ call'.pc \in {"idle", "rescan"}
         \/ /\ call'.pc \in {"stat", "open"} /\ call'.who = call.who
            /\ call'.adap = call.adap /\ call'.scanRet = call.scanRet
  PROVE  FreshTable'
<1>1. CASE call'.pc \in {"idle", "rescan"}
  BY <1>1 DEF FreshTable, RescanReroutes
<1>2. CASE /\ call'.pc \in {"stat", "open"} /\ call'.who = call.who
           /\ call'.adap = call.adap /\ call'.scanRet = call.scanRet
  <2>1. call.adap \in DOMAIN adapters
    BY WorkingMeansReady DEF Working
  <2>2. PathOf(call.who)' = PathOf(call.who)
    BY <1>2 DEF PathOf
  <2>3. ASSUME call'.scanRet = "OK"
        PROVE  /\ \A a \in DOMAIN adapters' : adapters'[a].bus = node'[a.nr].bus
               /\ WorksOn'.bus = PathOf(call.who)'
    BY <1>2, <2>1, <2>2, <2>3 DEF FreshTable, Working, WorksOn
  <2>4. QED BY <1>2, <2>3 DEF FreshTable, RescanReroutes
<1>3. QED BY <1>1, <1>2

LEMMA NextKeepsFresh ==
  ASSUME KernelWaits, IInv, FreshTable, [Next]_vars
  PROVE  FreshTable'
<1> DEFINE a == call.adap
<1>1. call \in Frame
  BY DEF IInv, CallInv
<1>2. CASE KernelStep
  <2>1. call.pc \in {"idle", "aborted"} /\ call' = call
    BY <1>2 DEF KernelStep, KernelWaits, libVars
  <2>2. QED BY <2>1 DEF FreshTable, RescanReroutes
<1>3. CASE UNCHANGED vars
  BY <1>3 DEF vars, libVars, FreshTable, Working, WorksOn, PathOf, RescanReroutes
<1>4. CASE ApplicationCalls
  BY <1>4, CallStarts DEF FreshTable, Working, RescanReroutes
<1>5. CASE StatFails \/ StatFindsStale \/ OpenFails
  <2>1. /\ Working /\ UNCHANGED node /\ \E valid : OpenDevFailed(valid)
        /\ \/ adapters' = adapters
           \/ adapters' = [adapters EXCEPT ![a].ready = FALSE]
           \/ adapters' = [adapters EXCEPT ![a].fd = NULL]
    BY <1>5 DEF StatFails, StatFindsStale, StatSeesNode, OpenFails, Working
  <2>2. a \in DOMAIN adapters /\ adapters[a] \in Adapter
    BY <2>1, WorkingMeansReady DEF Working
  <2>3. /\ DOMAIN adapters' = DOMAIN adapters
        /\ \A x \in DOMAIN adapters : adapters'[x].bus = adapters[x].bus
    BY <2>1, <2>2 DEF Adapter
  <2>4. QED BY <2>1, <2>3, FailedOpenGoesOn, FreshTableStays
<1>6. CASE StatAccepts
  <2>1. /\ call.pc = "stat" /\ UNCHANGED <<node, client>>
        /\ adapters' = [adapters EXCEPT ![a].uid = node[a.nr].ino]
        /\ call' = [call EXCEPT !.pc = "open"]
    BY <1>6 DEF StatAccepts, StatSeesNode
  <2>2. a \in DOMAIN adapters /\ adapters[a] \in Adapter
    BY <2>1, WorkingMeansReady
  <2>3. /\ DOMAIN adapters' = DOMAIN adapters
        /\ \A x \in DOMAIN adapters : adapters'[x].bus = adapters[x].bus
    BY <2>1, <2>2 DEF Adapter
  <2>4. /\ call'.pc = "open" /\ call'.who = call.who
        /\ call'.adap = call.adap /\ call'.scanRet = call.scanRet
    BY <1>1, <2>1 DEF Frame
  <2>5. QED BY <2>1, <2>3, <2>4, FreshTableStays DEF Working
<1>7. CASE AttachOpens
  <2>1. /\ call.pc = "open" /\ UNCHANGED node
        /\ adapters' = [adapters EXCEPT ![a].fd = NULL, ![a].ready = TRUE]
        /\ client' = [client EXCEPT ![call.who].adapter = a]
        /\ call' = [call EXCEPT !.pc = "stat", !.site = "final"]
    BY <1>7 DEF AttachOpens
  <2>2. a \in DOMAIN adapters /\ adapters[a] \in Adapter
    BY <2>1, WorkingMeansReady
  <2>3. /\ DOMAIN adapters' = DOMAIN adapters
        /\ \A x \in DOMAIN adapters : adapters'[x].bus = adapters[x].bus
    BY <2>1, <2>2 DEF Adapter
  <2>4. /\ call'.pc = "stat" /\ call'.who = call.who
        /\ call'.adap = call.adap /\ call'.scanRet = call.scanRet
    BY <1>1, <2>1 DEF Frame
  <2>5. \A c \in Client : client'[c].path = client[c].path
    BY <2>1 DEF IInv, TableInv, ClientRecord
  <2>6. QED BY <2>1, <2>3, <2>4, <2>5, FreshTableStays DEF Working
<1>8. ASSUME NEW f \in Fd, DeviceOpens(f) PROVE FreshTable'
  <2>1. /\ call.pc = "open" /\ UNCHANGED <<node, client>> /\ fds'[f] = node[a.nr]
        /\ adapters' = [adapters EXCEPT ![a].fd = f]
        /\ call' \in {Idle, [call EXCEPT !.pc = "use", !.site = "none"]}
    BY <1>8 DEF DeviceOpens
  <2>2. a \in DOMAIN adapters /\ adapters[a] \in Adapter
    BY <2>1, WorkingMeansReady
  <2>3. adapters'[a].fd = f
    BY <2>1, <2>2 DEF Adapter
  <2>4. CASE call' = Idle
    BY <2>4 DEF FreshTable, RescanReroutes, Idle
  <2>5. CASE call' = [call EXCEPT !.pc = "use", !.site = "none"]
    <3>1. /\ call'.pc = "use" /\ call'.who = call.who /\ call'.adap = a
          /\ call'.scanRet = call.scanRet
      BY <1>1, <2>5 DEF Frame
    <3>2. PathOf(call.who)' = PathOf(call.who)
      BY <2>1, <3>1 DEF PathOf
    <3>3. call.scanRet = "OK" => node[a.nr].bus = PathOf(call.who)
      BY <2>1, <2>2 DEF FreshTable, Working, WorksOn
    <3>4. QED BY <2>1, <2>3, <3>1, <3>2, <3>3 DEF FreshTable, Working, RescanReroutes
  <2>6. QED BY <2>1, <2>4, <2>5
<1>9. CASE RescanInOpen
  <2>1. CASE call' = Idle
    BY <2>1 DEF FreshTable, RescanReroutes, Idle
  <2>2. ASSUME NEW s \in ScanId, RescanSucceeds(s), UNCHANGED node,
               call' = [call EXCEPT !.pc = "lookup", !.site = "none", !.adap = NULL,
                                    !.scanRet = "OK"]
        PROVE  FreshTable'
    <3>1. call'.pc = "lookup"
      BY <1>1, <2>2 DEF Frame
    <3>2. \A x \in DOMAIN adapters' : adapters'[x].bus = node[x.nr].bus
      BY <2>2 DEF RescanSucceeds, Scanned
    <3>3. QED BY <2>2, <3>1, <3>2 DEF FreshTable, Working, RescanReroutes
  <2>3. QED BY <1>9, <2>1, <2>2 DEF RescanInOpen
<1>10. CASE LookupReturnsNothing \/ Transfer \/ \E x \in DOMAIN adapters : AttachRefused(x)
  <2>1. call' \in {Idle, Aborted}
    BY <1>10 DEF LookupReturnsNothing, Transfer, AttachRefused
  <2>2. call'.pc \in {"idle", "aborted"}
    BY <2>1 DEF Idle, Aborted
  <2>3. QED BY <2>2 DEF FreshTable, RescanReroutes
<1>11. ASSUME NEW x \in DOMAIN adapters, AttachBegins(x) PROVE FreshTable'
  <2>1. /\ call.pc = "lookup" /\ adapters[x].bus = PathOf(call.who)
        /\ UNCHANGED <<node, client>>
        /\ adapters' = [adapters EXCEPT ![x].users = @ \cup {call.who}, ![x].ready = FALSE]
        /\ call' = [call EXCEPT !.pc = "stat", !.site = "attach", !.adap = x]
    BY <1>11 DEF AttachBegins, LookupResult
  <2>2. /\ call'.pc = "stat" /\ call'.who = call.who /\ call'.adap = x
        /\ call'.scanRet = call.scanRet
    BY <1>1, <2>1 DEF Frame
  <2>3. /\ DOMAIN adapters' = DOMAIN adapters
        /\ \A y \in DOMAIN adapters : adapters'[y].bus = adapters[y].bus
    BY <2>1 DEF IInv, TableInv, Adapter
  <2>4. PathOf(call.who)' = PathOf(call.who)
    BY <2>1, <2>2 DEF PathOf
  <2>5. QED BY <2>1, <2>2, <2>3, <2>4 DEF FreshTable, WorksOn, RescanReroutes
<1>12. QED BY <1>2, <1>3, <1>4, <1>5, <1>6, <1>7, <1>8, <1>9, <1>10, <1>11
           DEF Next, CallContinues

-----------------------------------------------------------------------------
(* The rescan that a stale cache asks for *)

LEMMA NextKeepsFlag ==
  ASSUME KernelWaits, "scan_failure" \notin May, IInv, OpensWhatItSaw, FlagMeansRescan,
         [Next]_vars
  PROVE  FlagMeansRescan'
<1>1. call \in Frame
  BY DEF IInv, CallInv
<1>2. CASE KernelStep \/ UNCHANGED vars
  BY <1>2 DEF KernelStep, libVars, vars, FlagMeansRescan
<1>3. CASE ApplicationCalls
  BY <1>3, CallStarts DEF FlagMeansRescan
<1>4. CASE StatFails \/ StatAccepts \/ OpenFails \/ AttachOpens
  <2>1. Working /\ rescanRequired' = rescanRequired
    BY <1>4 DEF StatFails, StatAccepts, StatSeesNode, OpenFails, AttachOpens, Working
  <2>2. QED BY <2>1 DEF FlagMeansRescan, Working
<1>5. CASE StatFindsStale
  <2>1. /\ call.pc = "stat" /\ Working /\ WorksOn.ready /\ WorksOn.uid # NodeThere.ino
        /\ rescanRequired' = TRUE /\ libState' = libState /\ OpenDevFailed(CacheIsValid')
    BY <1>5 DEF StatFindsStale, StatSeesNode, Working, WorksOn, NodeThere
  <2>2. call.site = "attached"
    BY <1>1, <2>1 DEF OpensWhatItSaw, Frame
  <2>3. libState = "READY"
    BY <2>1, WorkingMeansReady
  <2>4. ~CacheIsValid'
    BY <2>1, <2>3 DEF CacheIsValid
  <2>5. call' = [call EXCEPT !.pc = "rescan"]
    BY <2>1, <2>2, <2>4 DEF OpenDevFailed
  <2>6. QED BY <1>1, <2>5 DEF FlagMeansRescan, Frame
<1>6. CASE RescanInOpen
  BY <1>6 DEF RescanInOpen, RescanSucceeds, RescanFails, FlagMeansRescan
<1>7. CASE \/ \E f \in Fd : DeviceOpens(f)
           \/ LookupReturnsNothing
           \/ \E a \in DOMAIN adapters : AttachRefused(a) \/ AttachBegins(a)
           \/ Transfer
  <2>1. call.pc # "rescan" /\ rescanRequired' = rescanRequired
    BY <1>7 DEF DeviceOpens, LookupReturnsNothing, AttachRefused, AttachBegins, Transfer
  <2>2. QED BY <2>1 DEF FlagMeansRescan
<1>8. QED BY <1>2, <1>3, <1>4, <1>5, <1>6, <1>7 DEF Next, CallContinues

-----------------------------------------------------------------------------
(* The theorems about calls *)

(* A client holds an adapter only while the adapter's user list has an     *)
(* entry for it, which is what lets free_adapter_list find every client it *)
(* has to detach.                                                          *)
THEOREM ClientsAreListed == Spec => []AttachedIsRegistered
<1>1. IInv => AttachedIsRegistered
  BY DEF IInv, TableInv
<1>2. QED BY IInvHolds, <1>1, PTL

(* The calls of an application that never opens a client itself leave no   *)
(* descriptor behind, through every failing open, scan and attach, with    *)
(* kernel changes at any point of a call.                                  *)
THEOREM NothingStaysOpen == Spec => []NoFdLeft
<1>1. CASE "explicit_open" \in May
  <2>1. NoFdLeft
    BY <1>1 DEF NoFdLeft
  <2>2. QED BY <2>1, PTL
<1>2. CASE "explicit_open" \notin May
  <2>1. Init => ClosedBetweenCalls
    BY DEF Init, NoFiles, Idle, ClosedBetweenCalls
  <2>2. IInv /\ ClosedBetweenCalls /\ [Next]_vars => ClosedBetweenCalls'
    BY <1>2, NextKeepsClosed
  <2>3. ClosedBetweenCalls => NoFdLeft
    BY DEF ClosedBetweenCalls, NoFdLeft
  <2>4. QED BY IInvHolds, <2>1, <2>2, <2>3, PTL DEF Spec
<1>3. QED BY <1>1, <1>2

LEMMA SightHolds == ASSUME KernelWaits PROVE Spec => []OpensWhatItSaw
<1>1. Init => OpensWhatItSaw
  BY DEF Init, Idle, OpensWhatItSaw, Working, UsePinned
<1>2. IInv /\ OpensWhatItSaw /\ [Next]_vars => OpensWhatItSaw'
  BY NextKeepsSight
<1>3. QED BY IInvHolds, <1>1, <1>2, PTL DEF Spec

(* While the kernel does not change during a call, a transfer on a ready   *)
(* adapter goes through the node the adapter was verified with.  (Between  *)
(* stat(2) and open(2) the node may be replaced: with such changes it is   *)
(* not so.)                                                                *)
THEOREM TransfersArePinned == ASSUME KernelWaits PROVE Spec => []UsePinned
<1>1. OpensWhatItSaw => UsePinned
  BY DEF OpensWhatItSaw
<1>2. QED BY SightHolds, <1>1, PTL

(* Under the same condition the transfer that follows the rescan of an     *)
(* open goes to the bus of the client's path, for any renumbering that     *)
(* made the cache stale.                                                   *)
THEOREM ReroutedTransfers == ASSUME KernelWaits PROVE Spec => []RescanReroutes
<1>1. Init => FreshTable
  BY DEF Init, Idle, FreshTable, RescanReroutes
<1>2. IInv /\ FreshTable /\ [Next]_vars => FreshTable'
  BY NextKeepsFresh
<1>3. FreshTable => RescanReroutes
  BY DEF FreshTable
<1>4. QED BY IInvHolds, <1>1, <1>2, <1>3, PTL DEF Spec

(* When besides no scan fails, no call leaves the cache invalid: the open  *)
(* that raises the flag is the one that rescans.                           *)
THEOREM CallsRepairTheCache ==
  ASSUME KernelWaits, "scan_failure" \notin May
  PROVE  Spec => []IdleCacheValid
<1>1. Init => FlagMeansRescan
  BY DEF Init, FlagMeansRescan
<1>2. IInv /\ OpensWhatItSaw /\ FlagMeansRescan /\ [Next]_vars => FlagMeansRescan'
  BY NextKeepsFlag
<1>3. FlagMeansRescan => IdleCacheValid
  BY DEF FlagMeansRescan, IdleCacheValid, CacheIsValid
<1>4. QED BY IInvHolds, SightHolds, <1>1, <1>2, <1>3, PTL DEF Spec

-----------------------------------------------------------------------------
(* The refinement of CacheGeneration: through the mapping of the instance   *)
(* Generations every step of the library is an abstract step or leaves the  *)
(* generation and the bindings alone.  The inductive invariant says what a  *)
(* client may be bound to before a step.                                    *)

(* What the mapping substitutes for "bound" *)
Bound == [c \in Client |-> IF client[c].adapter = NULL THEN NULL
                           ELSE client[c].adapter.scan]

AbstractStep == [Generations!Next]_(Generations!vars)

(* In a reachable state a client is bound to the current table or not.     *)
LEMMA BoundToCurrent ==
  ASSUME TableInv
  PROVE  \A c \in Client : /\ client[c].adapter = NULL => Bound[c] = NULL
                           /\ client[c].adapter # NULL => Bound[c] = scan /\ scan # NULL
<1> SUFFICES ASSUME NEW c \in Client, client[c].adapter # NULL
             PROVE  client[c].adapter.scan = scan /\ scan # NULL
  BY DEF Bound
<1>1. client[c].adapter \in DOMAIN adapters
  BY DEF TableInv, NoDanglingAdapter
<1>2. client[c].adapter \in AdapterId /\ client[c].adapter.scan = scan
  BY <1>1 DEF TableInv
<1>3. QED BY <1>2, CacheAssumption DEF AdapterId

(* Clients and table as they were: a stutter. *)
LEMMA NothingBound ==
  ASSUME UNCHANGED <<scan, client>>
  PROVE  AbstractStep
BY DEF AbstractStep, Generations!vars

(* The table is replaced and everyone detached: a rebuild, or a stutter    *)
(* when there was no table before either.                                  *)
LEMMA EveryoneUnbound ==
  ASSUME TableInv, scan' \in ScanId \cup {NULL},
         \A c \in Client : client'[c].adapter = NULL,
         scan' = scan => \A c \in Client : client[c].adapter = NULL
  PROVE  AbstractStep
<1>1. Bound' = [c \in Client |-> NULL]
  BY DEF Bound
<1>2. CASE scan' = scan
  <2>1. Bound = [c \in Client |-> NULL]
    BY <1>2 DEF Bound
  <2>2. QED BY <1>1, <1>2, <2>1 DEF AbstractStep, Generations!vars, Bound
<1>3. CASE scan' # scan
  <2>1. Generations!Rebuild
    BY <1>1, <1>3 DEF Generations!Rebuild, Bound
  <2>2. QED BY <2>1 DEF AbstractStep, Generations!Next
<1>4. QED BY <1>2, <1>3

(* One client is attached to an adapter of the table or detached.          *)
LEMMA OneClientBound ==
  ASSUME TableInv, UNCHANGED scan, NEW w \in Client,
         client'[w].adapter \in DOMAIN adapters \cup {NULL},
         \A c \in Client : c # w => client'[c].adapter = client[c].adapter
  PROVE  AbstractStep
<1>1. \A c \in Client : c # w => Bound'[c] = Bound[c]
  BY DEF Bound
<1>2. Bound \in [Client -> {Bound[c] : c \in Client}] /\ Bound' = [c \in Client |-> Bound'[c]]
  BY DEF Bound
<1>3. CASE client'[w].adapter = NULL
  <2>1. Bound'[w] = NULL
    BY <1>3 DEF Bound
  <2>2. Bound' = [Bound EXCEPT ![w] = NULL]
    BY <1>1, <1>2, <2>1 DEF Bound
  <2>3. Generations!Release(w)
    BY <2>2 DEF Generations!Release, Bound
  <2>4. QED BY <2>3 DEF AbstractStep, Generations!Next
<1>4. CASE client'[w].adapter # NULL
  <2>1. client'[w].adapter \in AdapterId /\ client'[w].adapter.scan = scan /\ scan # NULL
    BY <1>4, CacheAssumption DEF TableInv, AdapterId
  <2>2. Bound'[w] = scan
    BY <1>4, <2>1 DEF Bound
  <2>3. Bound' = [Bound EXCEPT ![w] = scan]
    BY <1>1, <1>2, <2>2 DEF Bound
  <2>4. CASE client[w].adapter = NULL
    <3>1. Bound[w] = NULL
      BY <2>4 DEF Bound
    <3>2. Generations!Bind(w)
      BY <2>1, <2>3, <3>1 DEF Generations!Bind, Bound
    <3>3. QED BY <3>2 DEF AbstractStep, Generations!Next
  <2>5. CASE client[w].adapter # NULL
    <3>1. Bound[w] = scan
      BY <2>5, BoundToCurrent
    <3>2. Bound' = Bound
      BY <2>3, <3>1, <1>2 DEF Bound
    <3>3. QED BY <3>2 DEF AbstractStep, Generations!vars, Bound
  <2>6. QED BY <2>4, <2>5
<1>5. QED BY <1>3, <1>4

LEMMA CleanupUnbinds == ASSUME TableInv, Cleanup PROVE AbstractStep
<1>1. FreeAdapterList /\ scan' = NULL
  BY DEF Cleanup
<1>2. \A c \in Client : client'[c].adapter = NULL
  BY <1>1, FreeDetachesAll
<1>3. scan' = scan => \A c \in Client : client[c].adapter = NULL
  BY <1>1, BoundToCurrent
<1>4. QED BY <1>1, <1>2, <1>3, EveryoneUnbound

LEMMA RescanUnbinds ==
  ASSUME TableInv, NEW s \in ScanId, RescanSucceeds(s) PROVE AbstractStep
<1>1. FreeAdapterList /\ scan' = s /\ s # scan
  BY DEF RescanSucceeds
<1>2. \A c \in Client : client'[c].adapter = NULL
  BY <1>1, FreeDetachesAll
<1>3. QED BY <1>1, <1>2, EveryoneUnbound

LEMMA InitFindsNobodyBound ==
  ASSUME TableInv, NEW result, InitLibrary(result), libState # "READY"
  PROVE  AbstractStep
<1>1. \A c \in Client : client[c].adapter = NULL
  BY DEF TableInv, TableOnlyWhenReady, NoDanglingAdapter
<1>2. CASE InitFindsNoSysfs
  BY <1>2, NothingBound DEF InitFindsNoSysfs
<1>3. CASE InitFails
  BY <1>3, CleanupUnbinds DEF InitFails
<1>4. ASSUME NEW s \in ScanId, InitSucceeds(s) PROVE AbstractStep
  <2>1. scan' \in ScanId \cup {NULL} /\ \A c \in Client : client'[c].adapter = NULL
    BY <1>1, <1>4 DEF InitSucceeds
  <2>2. QED BY <1>1, <2>1, EveryoneUnbound
<1>5. QED BY <1>2, <1>3, <1>4 DEF InitLibrary

(* The first steps of a failed open attach at most the caller. *)
LEMMA FailedOpenBindsCaller ==
  ASSUME IInv, call.pc \in {"stat", "open"}, NEW valid, OpenDevFailed(valid), UNCHANGED scan
  PROVE  AbstractStep
<1>1. CASE call.site = "attach"
  <2>1. call.who \in Client /\ call.adap \in DOMAIN adapters
    BY <1>1 DEF IInv, CallInv, AttachIsRegistered, CallUsesLiveAdapter
  <2>2. client' = [client EXCEPT ![call.who].adapter = call.adap]
    BY <1>1 DEF OpenDevFailed
  <2>3. /\ client'[call.who].adapter = call.adap
        /\ \A c \in Client : c # call.who => client'[c].adapter = client[c].adapter
    BY <2>1, <2>2 DEF IInv, TableInv, ClientRecord
  <2>4. QED BY <2>1, <2>3, OneClientBound DEF IInv
<1>2. CASE call.site # "attach"
  <2>1. client' = client
    BY <1>2 DEF OpenDevFailed
  <2>2. QED BY <2>1, NothingBound
<1>3. QED BY <1>1, <1>2

LEMMA ApplicationMaps == ASSUME IInv, ApplicationCalls PROVE AbstractStep
<1> USE DEF IInv
<1>1. CASE I2cdevInit
  BY <1>1, InitFindsNobodyBound, NothingBound DEF I2cdevInit
<1>2. CASE I2cdevRescan
  <2>1. PICK result \in {"ENODATA", "OK"} :
          \/ libState = "UNINIT" /\ InitLibrary(result)
          \/ \E s \in ScanId : RescanSucceeds(s)
          \/ Cleanup
    BY <1>2 DEF I2cdevRescan, RescanFails
  <2>2. QED BY <2>1, InitFindsNobodyBound, RescanUnbinds, CleanupUnbinds
<1>3. CASE I2cdevCleanup
  BY <1>3, CleanupUnbinds DEF I2cdevCleanup
<1>4. ASSUME NEW c \in Client, NEW b \in Bus, NewDevice(c, b) PROVE AbstractStep
  <2>1. UNCHANGED scan /\ client' = [client EXCEPT ![c] = [path |-> b, adapter |-> NULL]]
    BY <1>4 DEF NewDevice
  <2>2. /\ client'[c].adapter = NULL
        /\ \A d \in Client : d # c => client'[d].adapter = client[d].adapter
    BY <2>1 DEF TableInv
  <2>3. QED BY <2>1, <2>2, OneClientBound
<1>5. ASSUME NEW c \in Client, CloseDevice(c) PROVE AbstractStep
  BY <1>5, NothingBound DEF CloseDevice
<1>6. ASSUME NEW c \in Client, DeleteDevice(c) PROVE AbstractStep
  <2>1. UNCHANGED scan /\ client' = [client EXCEPT ![c] = [path |-> NULL, adapter |-> NULL]]
    BY <1>6 DEF DeleteDevice, Freed
  <2>2. /\ client'[c].adapter = NULL
        /\ \A d \in Client : d # c => client'[d].adapter = client[d].adapter
    BY <2>1 DEF TableInv
  <2>3. QED BY <2>1, <2>2, OneClientBound
<1>7. ASSUME NEW c \in Client, NEW kind \in {"xfer", "open"}, BeginOpen(c, kind)
      PROVE  AbstractStep
  BY <1>7, NothingBound DEF BeginOpen
<1>8. ASSUME NEW b \in Bus, BeginProbe(b) PROVE AbstractStep
  BY <1>8, NothingBound DEF BeginProbe
<1>9. QED BY <1>1, <1>2, <1>3, <1>4, <1>5, <1>6, <1>7, <1>8 DEF ApplicationCalls

LEMMA CallMaps == ASSUME IInv, CallContinues PROVE AbstractStep
<1>1. CASE StatFails
  BY <1>1, FailedOpenBindsCaller DEF StatFails
<1>2. CASE StatFindsStale
  BY <1>2, FailedOpenBindsCaller DEF StatFindsStale, StatSeesNode
<1>3. CASE StatAccepts
  BY <1>3, NothingBound DEF StatAccepts
<1>4. CASE OpenFails
  BY <1>4, FailedOpenBindsCaller DEF OpenFails
<1>5. CASE AttachOpens
  <2>1. call.who \in Client /\ call.adap \in DOMAIN adapters
    BY <1>5 DEF AttachOpens, IInv, CallInv, AttachIsRegistered, CallUsesLiveAdapter
  <2>2. UNCHANGED scan /\ client' = [client EXCEPT ![call.who].adapter = call.adap]
    BY <1>5 DEF AttachOpens
  <2>3. /\ client'[call.who].adapter = call.adap
        /\ \A c \in Client : c # call.who => client'[c].adapter = client[c].adapter
    BY <2>1, <2>2 DEF IInv, TableInv, ClientRecord
  <2>4. QED BY <2>1, <2>2, <2>3, OneClientBound DEF IInv
<1>6. ASSUME NEW f \in Fd, DeviceOpens(f) PROVE AbstractStep
  BY <1>6, NothingBound DEF DeviceOpens
<1>7. CASE RescanInOpen
  BY <1>7, RescanUnbinds, CleanupUnbinds DEF RescanInOpen, RescanFails, IInv
<1>8. CASE LookupReturnsNothing
  BY <1>8, NothingBound DEF LookupReturnsNothing
<1>9. ASSUME NEW a \in DOMAIN adapters, AttachRefused(a) PROVE AbstractStep
  <2>1. UNCHANGED scan /\ client' = [client EXCEPT ![call.who].adapter = NULL]
    BY <1>9 DEF AttachRefused
  <2>2. call.who \in Client
    BY <1>9, KernelAssumption
       DEF AttachRefused, LookupResult, PathOf, IInv, TableInv, Adapter
  <2>3. /\ client'[call.who].adapter = NULL
        /\ \A c \in Client : c # call.who => client'[c].adapter = client[c].adapter
    BY <2>1, <2>2 DEF IInv, TableInv, ClientRecord
  <2>4. QED BY <2>1, <2>2, <2>3, OneClientBound DEF IInv
<1>10. ASSUME NEW a \in DOMAIN adapters, AttachBegins(a) PROVE AbstractStep
  BY <1>10, NothingBound DEF AttachBegins
<1>11. CASE Transfer
  BY <1>11, NothingBound DEF Transfer
<1>12. QED BY <1>1, <1>2, <1>3, <1>4, <1>5, <1>6, <1>7, <1>8, <1>9, <1>10, <1>11
           DEF CallContinues

(* The pointers clients keep into the adapter table behave as promised by  *)
(* CacheGeneration, for every instance and every fault of the environment. *)
THEOREM GenerationsImplemented == Spec => ImplementsGenerations
<1>1. Init => Generations!Init
  BY DEF Init, Generations!Init, Freed
<1>2. IInv /\ [Next]_vars => [Generations!Next]_(Generations!vars)
  <2> SUFFICES ASSUME IInv, [Next]_vars PROVE AbstractStep
    BY DEF AbstractStep
  <2>1. CASE KernelStep
    BY <2>1, NothingBound DEF KernelStep, libVars
  <2>2. CASE ApplicationCalls
    BY <2>2, ApplicationMaps
  <2>3. CASE CallContinues
    BY <2>3, CallMaps
  <2>4. CASE UNCHANGED vars
    BY <2>4, NothingBound DEF vars, libVars
  <2>5. QED BY <2>1, <2>2, <2>3, <2>4 DEF Next
<1>3. QED BY <1>1, <1>2, IInvHolds, PTL DEF Spec, ImplementsGenerations, Generations!Spec
==============================================================================
