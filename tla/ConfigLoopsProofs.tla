-------------------------- MODULE ConfigLoopsProofs --------------------------
(***************************************************************************)
(* What the loops over the configured chips achieve, for every board, every *)
(* configuration and any number of changes by others: the library deletes   *)
(* nothing it is not configured for, a loop that nothing disturbs creates   *)
(* or removes every device it should, and the list it goes through is that  *)
(* of one source.                                                           *)
(***************************************************************************)
EXTENDS ConfigChipsProofs, FiniteSetTheorems

-----------------------------------------------------------------------------
(* The kernel has one device at an address at most, and each is on an       *)
(* adapter that is there.                                                   *)
OneDevicePerAddress ==
  \A d, e \in devices : d.bus = e.bus /\ d.addr = e.addr => d = e

OnPresentBuses == \A d \in devices : d.bus \in Present(roots, devices)

KernelInv == OneDevicePerAddress /\ OnPresentBuses

(* The devices that stay are on adapters that stay, and those that go are   *)
(* behind a multiplexer that was taken away, or on a root that was.         *)
LEMMA SettledIsPlaced ==
  ASSUME NEW rs \in SUBSET Roots, NEW ds \in SUBSET Device
  PROVE  \A d \in Settled(rs, ds) : d.bus \in Present(rs, Settled(rs, ds))
<1> DEFINE onRoots == {d \in ds : d.bus \in rs}
<1>1. onRoots \subseteq Settled(rs, ds)
  BY DEF Settled, Present
<1>2. \A d \in Settled(rs, ds) : d \in ds /\ d.bus \in Present(rs, onRoots)
  BY DEF Settled
<1> QED
  BY <1>1, <1>2 DEF Present, Provided

LEMMA SettledLoses ==
  ASSUME NEW rs \in SUBSET Roots, NEW ds \in SUBSET Device, NEW victims \in SUBSET ds,
         \A d \in ds : d.bus \in Present(rs, ds)
  PROVE  \A d \in ds \ Settled(rs, ds \ victims) : d \in victims \/ Provider[d.bus] \in victims
<1> SUFFICES ASSUME NEW d \in ds, d \notin Settled(rs, ds \ victims), d \notin victims
             PROVE  Provider[d.bus] \in victims
  OBVIOUS
<1> DEFINE onRoots == {e \in ds \ victims : e.bus \in rs}
<1>1. d.bus \notin Present(rs, onRoots)
  BY DEF Settled
<1>2. d.bus \notin rs /\ d.bus \in Bus \ Roots /\ Provider[d.bus] \in ds
  BY <1>1 DEF Present, Provided
<1>3. Provider[d.bus].bus \in Roots /\ Provider[d.bus].bus \in Present(rs, ds)
  BY <1>2, KernelAssumption
<1>4. Provider[d.bus].bus \in rs
  BY <1>3 DEF Present
<1> QED
  BY <1>1, <1>2, <1>4 DEF Present, Provided

LEMMA KernelInvInit == ASSUME Init PROVE KernelInv
<1>1. devices = {d \in Firmware : d.bus \in roots}
  BY DEF Init
<1>2. OneDevicePerAddress
  BY <1>1, KernelAssumption DEF OneDevicePerAddress
<1> QED
  BY <1>1, <1>2 DEF KernelInv, OnPresentBuses, Present

LEMMA AddedKeepsKernel ==
  ASSUME TypeOK, KernelInv, NEW d \in Device, d.bus \in Present(roots, devices),
         ~Taken(d.bus, d.addr), devices' = devices \cup {d}, roots' = roots
  PROVE  KernelInv'
<1>1. OneDevicePerAddress'
  BY DEF KernelInv, OneDevicePerAddress, Taken
<1>2. OnPresentBuses'
  BY DEF KernelInv, OnPresentBuses, Present, Provided
<1> QED
  BY <1>1, <1>2 DEF KernelInv

LEMMA RemovedKeepsKernel ==
  ASSUME TypeOK, KernelInv, NEW rs \in SUBSET Roots, NEW ds \in SUBSET devices,
         devices' = Settled(rs, ds), roots' = rs
  PROVE  KernelInv'
<1>1. ds \in SUBSET Device
  BY DEF TypeOK
<1>2. Settled(rs, ds) \subseteq devices
  BY <1>1, PresentTypes
<1>3. OneDevicePerAddress'
  BY <1>2 DEF KernelInv, OneDevicePerAddress
<1>4. OnPresentBuses'
  BY <1>1, SettledIsPlaced DEF OnPresentBuses
<1> QED
  BY <1>3, <1>4 DEF KernelInv

LEMMA KernelStepKeepsKernel ==
  ASSUME TypeOK, KernelInv, KernelStep
  PROVE  KernelInv'
<1>1. roots \in SUBSET Roots /\ devices \in SUBSET Device
  BY DEF TypeOK
<1>2. CASE \E d \in Device : /\ d.bus \in Present(roots, devices) /\ ~Taken(d.bus, d.addr)
                             /\ devices' = devices \cup {d} /\ UNCHANGED roots
  BY <1>2, AddedKeepsKernel
<1>3. CASE \E d \in devices \ Firmware : devices' = Settled(roots, devices \ {d}) /\ UNCHANGED roots
  BY <1>1, <1>3, RemovedKeepsKernel
<1>4. CASE \E b \in Roots \ roots : /\ roots' = roots \cup {b}
                                    /\ devices' = devices \cup {d \in Firmware : d.bus = b}
  <2>1. PICK b \in Roots \ roots : /\ roots' = roots \cup {b}
                                   /\ devices' = devices \cup {d \in Firmware : d.bus = b}
    BY <1>4
  <2>2. \A d \in devices : d.bus # b
    BY <1>1 DEF KernelInv, OnPresentBuses, Present
  <2>3. OneDevicePerAddress'
    BY <2>1, <2>2, KernelAssumption DEF KernelInv, OneDevicePerAddress
  <2>4. OnPresentBuses'
    BY <2>1 DEF KernelInv, OnPresentBuses, Present, Provided
  <2> QED
    BY <2>3, <2>4 DEF KernelInv
<1>5. CASE \E b \in roots : roots' = roots \ {b} /\ devices' = Settled(roots \ {b}, devices)
  BY <1>1, <1>5, RemovedKeepsKernel
<1> QED
  BY <1>2, <1>3, <1>4, <1>5 DEF KernelStep

-----------------------------------------------------------------------------
(* What a step does to a loop.  Either the loop and the kernel stay as they *)
(* are, or no loop is left, or it is one of the steps of a loop.            *)
Standstill == UNCHANGED <<roots, devices, chips, adapters, clients, call>>

NoLoop ==
  /\ UNCHANGED <<roots, devices>>
  /\ call' = NoCall \/ (call' \in Call /\ call'.op \notin LoopOps)

Opened(op, step, i, by) ==
  /\ UNCHANGED <<roots, devices, adapters, clients>>
  /\ call' \in Call /\ call'.op = op /\ call'.step = step /\ call'.i = i /\ call'.by = by

OpensLoop ==
  /\ call = NoCall
  /\ chips' = MatchAll(chips, adapters, clients)
  /\ \E op \in {"initialize", "remove"} :
       Opened(op, "next", 0, (IF TableIsCurrent THEN {} ELSE {"table"})
                               \cup (IF Stale(chips') THEN {"stale"} ELSE {}))

OpensOne ==
  \E k \in DOMAIN chips, d \in clients :
    /\ Matches(d, chips[k])
    /\ chips' = [chips EXCEPT ![k].matched = TRUE]
    /\ Opened("removeAdapter", "stat", k, {})

Stepped(from, to, by) ==
  /\ call \in Call /\ call.op \in LoopOps /\ call.step = from
  /\ call' \in Call /\ call'.op = call.op /\ call'.step = to /\ call'.by = call.by \cup by

(* The loop stays at its chip, with the table it has. *)
SteppedAt(from, to, by) ==
  /\ Stepped(from, to, by)
  /\ call.i \in DOMAIN chips /\ TheChip \in Chip /\ call'.i = call.i
  /\ UNCHANGED <<roots, chips, adapters, clients>>

Comes ==
  /\ Stepped("next", "stat", {}) /\ call.op # "removeAdapter"
  /\ call'.i \in Ahead(call.op, chips, call.i)
  /\ \A j \in Ahead(call.op, chips, call.i) : call'.i <= j
  /\ UNCHANGED <<roots, devices, chips, adapters, clients>>

Looks ==
  /\ UNCHANGED devices
  /\ \/ SteppedAt("stat", "rescan", {}) /\ call.op = "initialize" /\ Taken(TheChip.bus, TheChip.addr)
     \/ SteppedAt("stat", "write", {}) /\ (call.op = "initialize" => ~Taken(TheChip.bus, TheChip.addr))
     \/ SteppedAt("stat", "next", {}) /\ call.op # "initialize" /\ ~Taken(TheChip.bus, TheChip.addr)

Creates ==
  /\ SteppedAt("write", "rescan", {}) /\ call.op = "initialize"
  /\ KernelAccepts(NewDevice) /\ NewDevice \in Device
  /\ devices' = devices \cup {NewDevice}

Deletes ==
  /\ SteppedAt("write", "rescan", {}) /\ call.op # "initialize"
  /\ Removable(TheChip.bus, TheChip.addr) # {}
  /\ devices' = Settled(roots, devices \ Removable(TheChip.bus, TheChip.addr))

Refused ==
  /\ SteppedAt("write", "next", {"refused"}) /\ UNCHANGED devices
  /\ \/ call.op = "initialize" /\ ~KernelAccepts(NewDevice)
     \/ call.op # "initialize" /\ Removable(TheChip.bus, TheChip.addr) = {}

Relists ==
  /\ Stepped("rescan", "scan", {}) /\ call'.i = call.i
  /\ call'.seen = Present(roots, devices) /\ call'.met = devices
  /\ UNCHANGED <<roots, devices, chips>>

Rescanned ==
  /\ Stepped("scan", "next", {}) /\ call'.i = call.i
  /\ \E ds \in Read(call) : /\ adapters' = call.seen /\ clients' = ds
                            /\ chips' = MatchAll(chips, call.seen, ds)
  /\ UNCHANGED <<roots, devices>>

LoopStep ==
  \/ Standstill \/ NoLoop \/ OpensLoop \/ OpensOne
  \/ Comes \/ Looks \/ Creates \/ Deletes \/ Refused \/ Relists \/ Rescanned

(* A step of the kernel leaves the loop where it is, and a trace in it. *)
KernelMoves ==
  /\ KernelStep /\ UNCHANGED <<chips, adapters, clients>>
  /\ \/ call = NoCall /\ call' = NoCall
     \/ /\ call \in Call /\ call' \in Call /\ call'.op = call.op /\ call'.step = call.step
        /\ call'.i = call.i /\ call'.by = call.by \cup {"kernel"}

LEMMA CrashStandsStill == ASSUME Crash PROVE Standstill
BY DEF Crash, Standstill, kernelVars, tableVars, configVars

LEMMA CleanupEndsLoop == ASSUME NEW crashes, Cleanup(crashes) PROVE Standstill \/ NoLoop
BY CrashStandsStill DEF Cleanup, NoLoop, kernelVars

LEMMA KernelStepMoves ==
  ASSUME ChipsInv, KernelStep PROVE KernelMoves
<1>1. UNCHANGED <<chips, adapters, clients>>
  BY DEF KernelStep, tableVars, configVars
<1>2. CASE call = NoCall
  BY <1>1, <1>2 DEF KernelMoves, KernelStep, Disturbed
<1>3. CASE call # NoCall
  <2>1. call \in Call /\ call' = [call EXCEPT !.by = @ \cup {"kernel"}] /\ "kernel" \in Disturbance
    BY <1>3 DEF ChipsInv, TypeOK, KernelStep, Disturbed, Disturbance
  <2>2. call' \in Call /\ call'.op = call.op /\ call'.step = call.step /\ call'.i = call.i
        /\ call'.by = call.by \cup {"kernel"}
    BY <2>1 DEF Call
  <2> QED
    BY <1>1, <2>1, <2>2 DEF KernelMoves
<1> QED
  BY <1>2, <1>3

LEMMA BeginLoopOpens ==
  ASSUME ChipsInv, NEW op \in {"initialize", "remove"}, BeginLoop(op)
  PROVE  Standstill \/ OpensLoop
<1> DEFINE by == (IF TableIsCurrent THEN {} ELSE {"table"}) \cup (IF Stale(chips') THEN {"stale"} ELSE {})
<1>1. CASE MatchCrashes(chips, adapters, clients)
  BY <1>1, CrashStandsStill DEF BeginLoop
<1>2. CASE ~MatchCrashes(chips, adapters, clients)
  <2>1. /\ call = NoCall /\ chips' = MatchAll(chips, adapters, clients)
        /\ call' = Begin(op, "next", <<>>, by) /\ UNCHANGED <<roots, devices, adapters, clients>>
    BY <1>2 DEF BeginLoop, kernelVars, tableVars
  <2>2. op \in Ops /\ by \in SUBSET Disturbance /\ <<>> \in Seq(Item)
    BY DEF Ops, Disturbance
  <2> HIDE DEF by
  <2>3. call' \in Call /\ call'.op = op /\ call'.step = "next" /\ call'.i = 0
    <3>1. Begin(op, "next", <<>>, by) \in Call
      BY <2>2, BeginTypes
    <3>2. /\ Begin(op, "next", <<>>, by).op = op /\ Begin(op, "next", <<>>, by).step = "next"
          /\ Begin(op, "next", <<>>, by).i = 0
      BY DEF Begin
    <3> QED
      BY <2>1, <3>1, <3>2, Zenon
  <2>4. call'.by = by
    BY <2>1 DEF Begin
  <2>5. Opened(op, "next", 0, by)
    BY <2>1, <2>3, <2>4 DEF Opened
  <2> QED
    BY <2>1, <2>5 DEF OpensLoop, by
<1> QED
  BY <1>1, <1>2

LEMMA RemoveAdapterChipOpens ==
  ASSUME ChipsInv, NEW bus \in Bus, RemoveAdapterChip(bus)
  PROVE  Standstill \/ OpensOne
<1> DEFINE matching(d) == {k \in DOMAIN chips : Matches(d, chips[k])}
           hits == {d \in On(clients, bus) : matching(d) # {}}
           reached(d) == {k \in DOMAIN chips : \A j \in matching(d) : k < j}
           crashers == {d \in On(clients, bus) : \E k \in reached(d) : NoPathHits(chips[k], d)}
<1>1. CASE crashers # {} /\ Crash
  BY <1>1, CrashStandsStill
<1>2. CASE /\ hits = {} /\ crashers = {} /\ Returns("ok")
           /\ UNCHANGED <<kernelVars, library, tableVars, configVars, call>>
  BY <1>2 DEF Standstill, kernelVars, tableVars, configVars
<1>3. ASSUME NEW d \in hits, NEW k, k = First(matching(d)),
             chips' = [chips EXCEPT ![k].matched = TRUE],
             call' = [Begin("removeAdapter", "stat", <<>>, {}) EXCEPT !.i = k],
             UNCHANGED <<kernelVars, library, tableVars, loaded, names>>
      PROVE  OpensOne
  <2>1. k \in DOMAIN chips /\ k \in Nat /\ Matches(d, chips[k])
    <3>1. chips \in Seq(Chip) /\ matching(d) # {} /\ matching(d) \subseteq Nat
      BY <1>3 DEF ChipsInv, TypeOK
    <3>2. \E j \in matching(d) : \A l \in matching(d) : j <= l
      BY <3>1, NatHasLeast
    <3>3. k \in matching(d)
      BY <1>3, <3>2 DEF First
    <3> QED
      BY <3>1, <3>3
  <2>2. d \in clients /\ UNCHANGED <<roots, devices, adapters, clients>>
    BY <1>3 DEF On, kernelVars, tableVars
  <2>3. call' \in Call /\ call'.op = "removeAdapter" /\ call'.step = "stat" /\ call'.i = k
        /\ call'.by = {}
    <3>1. <<>> \in Seq(Item) /\ {} \in SUBSET Disturbance
      OBVIOUS
    <3> QED
      BY <1>3, <2>1, <3>1 DEF Begin, Call, Ops
  <2> QED
    BY <1>3, <2>1, <2>2, <2>3 DEF OpensOne, Opened
<1> QED
  BY <1>1, <1>2, <1>3 DEF RemoveAdapterChip

LEMMA NextChipComes ==
  ASSUME ChipsInv, library # "CRASHED", NextChip
  PROVE  NoLoop \/ Comes
<1>1. /\ call \in Call /\ call.step = "next" /\ call.op \in LoopOps /\ chips \in Seq(Chip)
      /\ UNCHANGED <<roots, devices, chips, adapters, clients>>
  BY DEF NextChip, InStep, ChipsInv, TypeOK, Position, kernelVars, tableVars, configVars
<1>2. CASE Ends
  BY <1>1, <1>2 DEF NextChip, NoLoop
<1>3. CASE ~Ends
  <2> DEFINE ahead == Ahead(call.op, chips, call.i)
             k == First(ahead)
  <2>1. ahead # {} /\ ahead \subseteq Nat /\ call.op # "removeAdapter"
    BY <1>1, <1>3 DEF Ends, Ahead
  <2>2. \E j \in ahead : \A l \in ahead : j <= l
    BY <2>1, NatHasLeast
  <2>3. k \in ahead /\ \A j \in ahead : k <= j
    BY <2>2 DEF First
  <2>4. k \in Nat /\ call' = [call EXCEPT !.i = k, !.step = "stat"]
    BY <1>3, <2>1, <2>3 DEF NextChip
  <2> HIDE DEF k
  <2>5. call' \in Call /\ call'.op = call.op /\ call'.step = "stat" /\ call'.i = k /\ call'.by = call.by
    BY <1>1, <2>4 DEF Call
  <2>6. Stepped("next", "stat", {})
    BY <1>1, <2>5 DEF Stepped
  <2> QED
    BY <1>1, <2>1, <2>3, <2>5, <2>6 DEF Comes
<1> QED
  BY <1>2, <1>3

(* From a chip a loop goes on to another step, or the process goes down. *)
LEMMA AtAChip ==
  ASSUME ChipsInv, library # "CRASHED", call # NoCall, call.step \in {"stat", "write", "rescan"},
         NEW to \in {"next", "write", "rescan"}, NEW by \in SUBSET Disturbance,
         \/ call' = [call EXCEPT !.step = to] /\ by = {}
         \/ call' = [call EXCEPT !.step = to, !.by = @ \cup by],
         UNCHANGED <<roots, tableVars, chips>>
  PROVE  SteppedAt(call.step, to, by)
<1>1. call \in Call /\ call.op \in LoopOps /\ call.i \in DOMAIN chips /\ TheChip \in Chip
  BY TheChipIsListed
<1>2. CASE call' = [call EXCEPT !.step = to] /\ by = {}
  <2>1. call' \in Call /\ call'.op = call.op /\ call'.step = to /\ call'.i = call.i
        /\ call'.by = call.by \cup by
    BY <1>1, <1>2 DEF Call
  <2> QED
    BY <1>1, <2>1 DEF SteppedAt, Stepped, tableVars
<1>3. CASE call' = [call EXCEPT !.step = to, !.by = @ \cup by]
  <2>1. call' \in Call /\ call'.op = call.op /\ call'.step = to /\ call'.i = call.i
        /\ call'.by = call.by \cup by
    BY <1>1, <1>3 DEF Call
  <2> QED
    BY <1>1, <2>1 DEF SteppedAt, Stepped, tableVars
<1> QED
  BY <1>2, <1>3

LEMMA GoesToAChip ==
  ASSUME ChipsInv, library # "CRASHED", call # NoCall, call.step \in {"stat", "write", "rescan"},
         NEW to \in {"next", "write", "rescan"}, LoopGoesTo(to)
  PROVE  SteppedAt(call.step, to, {}) /\ UNCHANGED devices
<1>1. call' = [call EXCEPT !.step = to] /\ UNCHANGED <<roots, devices, tableVars, chips>>
  BY DEF LoopGoesTo, kernelVars, configVars
<1>2. {} \in SUBSET Disturbance
  OBVIOUS
<1> QED
  BY <1>1, <1>2, AtAChip

LEMMA FailsAtAChip ==
  ASSUME ChipsInv, library # "CRASHED", call # NoCall, call.step \in {"stat", "write", "rescan"},
         NEW by \in SUBSET Disturbance, LoopStepFails(by)
  PROVE  SteppedAt(call.step, "next", by) /\ UNCHANGED devices
<1>1. call' = [call EXCEPT !.step = "next", !.by = @ \cup by]
      /\ UNCHANGED <<roots, devices, tableVars, chips>>
  BY DEF LoopStepFails, kernelVars, configVars
<1> QED
  BY <1>1, AtAChip

LEMMA StatLooks ==
  ASSUME ChipsInv, library # "CRASHED", StatNew \/ StatRemove
  PROVE  Standstill \/ Looks
<1>1. CASE StatNew
  <2>1. call # NoCall /\ call.step = "stat" /\ call.op = "initialize"
    BY <1>1 DEF StatNew, At, InStep
  <2>2. CASE TheChip.path = "none" /\ Crash
    BY <2>2, CrashStandsStill
  <2>3. CASE Taken(TheChip.bus, TheChip.addr) /\ LoopGoesTo("rescan")
    <3>1. SteppedAt("stat", "rescan", {}) /\ UNCHANGED devices
      BY <2>1, <2>3, GoesToAChip
    <3> QED
      BY <2>1, <2>3, <3>1 DEF Looks
  <2>4. CASE ~Taken(TheChip.bus, TheChip.addr) /\ LoopGoesTo("write")
    <3>1. SteppedAt("stat", "write", {}) /\ UNCHANGED devices
      BY <2>1, <2>4, GoesToAChip
    <3> QED
      BY <2>4, <3>1 DEF Looks
  <2> QED
    BY <1>1, <2>2, <2>3, <2>4 DEF StatNew
<1>2. CASE StatRemove
  <2>1. call # NoCall /\ call.step = "stat" /\ call.op # "initialize"
    BY <1>2 DEF StatRemove, Removes, At, InStep
  <2>2. CASE LoopGoesTo("write")
    <3>1. SteppedAt("stat", "write", {}) /\ UNCHANGED devices
      BY <2>1, <2>2, GoesToAChip
    <3> QED
      BY <2>1, <3>1 DEF Looks
  <2>3. CASE ~Taken(TheChip.bus, TheChip.addr) /\ LoopStepFails({})
    <3>1. SteppedAt("stat", "next", {}) /\ UNCHANGED devices
      BY <2>1, <2>3, FailsAtAChip
    <3> QED
      BY <2>1, <2>3, <3>1 DEF Looks
  <2> QED
    BY <1>2, <2>2, <2>3 DEF StatRemove
<1> QED
  BY <1>1, <1>2

LEMMA WriteNewCreates ==
  ASSUME ChipsInv, library # "CRASHED", WriteNew
  PROVE  Creates \/ Refused
<1>1. call # NoCall /\ call.step = "write" /\ call.op = "initialize" /\ TheChip \in Chip
  BY TheChipIsListed DEF WriteNew, At, InStep
<1>2. CASE ~KernelAccepts(NewDevice) /\ LoopStepFails({"refused"})
  <2>1. SteppedAt("write", "next", {"refused"}) /\ UNCHANGED devices
    BY <1>1, <1>2, FailsAtAChip DEF Disturbance
  <2> QED
    BY <1>1, <1>2, <2>1 DEF Refused
<1>3. CASE /\ KernelAccepts(NewDevice) /\ devices' = devices \cup {NewDevice}
           /\ call' = [call EXCEPT !.step = "rescan"]
           /\ UNCHANGED <<roots, changes, library, tableVars, configVars, ret>>
  <2>1. NewDevice \in Device
    <3>1. NewDevice.addr = TheChip.addr
      BY DEF NewDevice
    <3>2. TheChip.addr \in Addr
      BY <1>3, <3>1 DEF KernelAccepts
    <3> QED
      BY <1>1, <3>2 DEF NewDevice, Device, Chip
  <2>2. {} \in SUBSET Disturbance /\ UNCHANGED <<roots, tableVars, chips>>
    BY <1>3 DEF configVars
  <2>3. SteppedAt("write", "rescan", {})
    BY <1>1, <1>3, <2>2, AtAChip
  <2> QED
    BY <1>1, <1>3, <2>1, <2>3 DEF Creates
<1> QED
  BY <1>2, <1>3 DEF WriteNew

LEMMA WriteRemoveDeletes ==
  ASSUME ChipsInv, library # "CRASHED", WriteRemove
  PROVE  Deletes \/ Refused
<1> DEFINE victims == Removable(TheChip.bus, TheChip.addr)
<1>1. call # NoCall /\ call.step = "write" /\ call.op # "initialize"
  BY DEF WriteRemove, Removes, At, InStep
<1>2. CASE victims = {} /\ LoopStepFails({"refused"})
  <2>1. SteppedAt("write", "next", {"refused"}) /\ UNCHANGED devices
    BY <1>1, <1>2, FailsAtAChip DEF Disturbance
  <2> QED
    BY <1>1, <1>2, <2>1 DEF Refused
<1>3. CASE /\ victims # {} /\ devices' = Settled(roots, devices \ victims)
           /\ call' = [call EXCEPT !.step = "rescan"]
           /\ UNCHANGED <<roots, changes, library, tableVars, configVars, ret>>
  <2>1. {} \in SUBSET Disturbance /\ UNCHANGED <<roots, tableVars, chips>>
    BY <1>3 DEF configVars
  <2>2. SteppedAt("write", "rescan", {})
    BY <1>1, <1>3, <2>1, AtAChip
  <2> QED
    BY <1>1, <1>3, <2>2 DEF Deletes
<1> QED
  BY <1>2, <1>3 DEF WriteRemove

LEMMA ListsRelists ==
  ASSUME ChipsInv, library # "CRASHED", RescanInLoop \/ Loaded \/ RescanTable
  PROVE  Relists \/ NoLoop
<1>1. roots \in SUBSET Roots /\ devices \in SUBSET Device
  BY DEF ChipsInv, TypeOK
<1>2. Present(roots, devices) \in SUBSET Bus
  BY <1>1, PresentTypes
<1>3. ASSUME NEW c \in Call, Lists(c), UNCHANGED kernelVars
      PROVE  /\ call' \in Call /\ call'.op = c.op /\ call'.step = "scan" /\ call'.by = c.by
             /\ call'.i = c.i /\ call'.seen = Present(roots, devices) /\ call'.met = devices
             /\ UNCHANGED <<roots, devices>>
  <2>1. call' = [c EXCEPT !.step = "scan", !.seen = Present(roots, devices), !.met = devices]
        /\ UNCHANGED <<roots, devices>>
    BY <1>3 DEF Lists, kernelVars
  <2> QED
    BY <1>1, <1>2, <2>1 DEF Call
<1>4. CASE RescanInLoop
  <2>1. call \in Call /\ call.op \in LoopOps /\ call.step = "rescan" /\ Lists(call)
        /\ UNCHANGED <<kernelVars, chips>>
    BY <1>4, TheChipIsListed DEF RescanInLoop, InStep, configVars
  <2> QED
    BY <1>3, <2>1 DEF Relists, Stepped
<1>5. CASE Loaded
  <2>1. call \in Call /\ call.op \notin LoopOps /\ Lists(call) /\ UNCHANGED kernelVars
    BY <1>5 DEF Loaded, At, InStep, ChipsInv, TypeOK, LoopOps
  <2> QED
    BY <1>3, <2>1 DEF NoLoop
<1>6. CASE RescanTable
  <2> DEFINE c == Begin("rescan", "scan", <<>>, {})
  <2>1. <<>> \in Seq(Item) /\ {} \in SUBSET Disturbance /\ "rescan" \in Ops
    BY DEF Ops
  <2>2. c \in Call /\ c.op \notin LoopOps
    BY <2>1, BeginTypes DEF Begin, LoopOps
  <2>3. Lists(c) /\ UNCHANGED kernelVars
    BY <1>6 DEF RescanTable
  <2> HIDE DEF c
  <2> QED
    BY <1>3, <2>2, <2>3 DEF NoLoop
<1> QED
  BY <1>4, <1>5, <1>6

LEMMA ScanRescans ==
  ASSUME ChipsInv, library # "CRASHED", ScanSucceeds
  PROVE  Standstill \/ NoLoop \/ Rescanned
<1>1. call \in Call /\ call.step = "scan" /\ call.op \in Ops
  BY NoCallIsNone DEF ScanSucceeds, InStep, ChipsInv, TypeOK
<1>2. PICK ds \in Read(call) :
        LET matched == IF call.op = "rescan" THEN chips ELSE MatchAll(chips, call.seen, ds) IN
        IF call.op # "rescan" /\ MatchCrashes(chips, call.seen, ds)
        THEN Crash
        ELSE /\ adapters' = call.seen /\ clients' = ds
             /\ chips' = matched
             /\ library' = "READY"
             /\ call' = IF call.op \in {"init", "rescan"} THEN NoCall ELSE [call EXCEPT !.step = "next"]
             /\ Returns("ok")
             /\ UNCHANGED <<kernelVars, loaded, names>>
  BY DEF ScanSucceeds
<1>3. CASE call.op # "rescan" /\ MatchCrashes(chips, call.seen, ds)
  BY <1>2, <1>3, CrashStandsStill
<1>4. CASE /\ ~(call.op # "rescan" /\ MatchCrashes(chips, call.seen, ds))
           /\ call.op \in {"init", "rescan"}
  BY <1>2, <1>4 DEF NoLoop, kernelVars
<1>5. CASE /\ ~(call.op # "rescan" /\ MatchCrashes(chips, call.seen, ds))
           /\ call.op \notin {"init", "rescan"}
  <2>1. /\ adapters' = call.seen /\ clients' = ds /\ chips' = MatchAll(chips, call.seen, ds)
        /\ call' = [call EXCEPT !.step = "next"] /\ UNCHANGED <<roots, devices>>
    BY <1>2, <1>5 DEF kernelVars
  <2>2. call.op \in LoopOps
    BY <1>1, <1>5 DEF Ops, LoopOps
  <2>3. call' \in Call /\ call'.op = call.op /\ call'.step = "next" /\ call'.i = call.i
        /\ call'.by = call.by
    BY <1>1, <2>1 DEF Call
  <2>4. Stepped("scan", "next", {})
    BY <1>1, <2>2, <2>3 DEF Stepped
  <2> QED
    BY <2>1, <2>3, <2>4 DEF Rescanned
<1> QED
  BY <1>3, <1>4, <1>5

LEMMA NextIsLoopStep ==
  ASSUME ChipsInv, [Next]_vars
  PROVE  LoopStep \/ KernelMoves
<1>1. CASE UNCHANGED vars
  BY <1>1 DEF vars, kernelVars, tableVars, configVars, Standstill, LoopStep
<1>2. CASE library # "CRASHED" /\ KernelStep
  BY <1>2, KernelStepMoves
<1>3. call' \in Call \cup {NoCall}
  BY NextKeepsInv DEF ChipsInv, TypeOK
<1>4. ASSUME NEW items, I2cdevInit(items)
      PROVE  NoLoop
  <2>1. /\ call' = Begin("init", "load", IF loaded THEN <<>> ELSE items, {})
        /\ UNCHANGED <<roots, devices>>
    BY <1>4 DEF I2cdevInit, kernelVars
  <2>2. call'.op = "init"
    BY <2>1 DEF Begin
  <2> QED
    BY <1>3, <2>1, <2>2 DEF NoLoop, LoopOps
<1>5. CASE library # "CRASHED" /\ ApplicationCalls
  <2>1. CASE \E items \in CallerInputs \cup DefaultInputs : I2cdevInit(items)
    BY <1>4, <2>1 DEF LoopStep
  <2>2. CASE I2cdevRescan
    BY <1>4, <1>5, <2>2, ListsRelists DEF I2cdevRescan, LoopStep
  <2>3. CASE I2cdevCleanup
    BY <2>3, CleanupEndsLoop DEF I2cdevCleanup, LoopStep
  <2>4. CASE InitializeAll \/ RemoveAll
    BY <2>4, BeginLoopOpens DEF InitializeAll, RemoveAll, LoopStep
  <2>5. CASE \E b \in Bus : RemoveAdapterChip(b)
    BY <2>5, RemoveAdapterChipOpens DEF LoopStep
  <2> QED
    BY <1>5, <2>1, <2>2, <2>3, <2>4, <2>5 DEF ApplicationCalls
<1>6. CASE library # "CRASHED" /\ LibraryStep
  <2>1. CASE LoadName \/ LoadLine
    <3>1. call \in Call /\ call.op = "init"
      BY <2>1 DEF LoadName, LoadLine, At, InStep, ChipsInv, TypeOK
    <3>2. CASE Crash
      BY <3>2, CrashStandsStill DEF LoopStep
    <3>3. CASE call' = [call EXCEPT !.input = Tail(@)] /\ UNCHANGED kernelVars
      <4>1. call'.op = "init"
        BY <3>1, <3>3 DEF Call
      <4> QED
        BY <1>3, <3>3, <4>1 DEF LoopStep, NoLoop, LoopOps, kernelVars
    <3>4. CASE LoadName
      BY <3>2, <3>3, <3>4 DEF LoadName
    <3>5. CASE LoadLine
      BY <3>3, <3>5 DEF LoadLine
    <3> QED
      BY <2>1, <3>4, <3>5
  <2>2. CASE LoadFails \/ ScanFails
    BY <2>2, CleanupEndsLoop DEF LoadFails, ScanFails, LoopStep
  <2>3. CASE Loaded \/ RescanInLoop
    BY <1>6, <2>3, ListsRelists DEF LoopStep
  <2>4. CASE NextChip
    BY <1>6, <2>4, NextChipComes DEF LoopStep
  <2>5. CASE StatNew \/ StatRemove
    BY <1>6, <2>5, StatLooks DEF LoopStep
  <2>6. CASE WriteNew
    BY <1>6, <2>6, WriteNewCreates DEF LoopStep
  <2>7. CASE WriteRemove
    BY <1>6, <2>7, WriteRemoveDeletes DEF LoopStep
  <2>8. CASE ScanSucceeds
    BY <1>6, <2>8, ScanRescans DEF LoopStep
  <2> QED
    BY <1>6, <2>1, <2>2, <2>3, <2>4, <2>5, <2>6, <2>7, <2>8 DEF LibraryStep
<1> QED
  BY <1>1, <1>2, <1>5, <1>6 DEF Next

-----------------------------------------------------------------------------
LEMMA LoopStepKeepsKernel ==
  ASSUME TypeOK, KernelInv, LoopStep
  PROVE  KernelInv'
<1>1. CASE UNCHANGED <<roots, devices>>
  BY <1>1 DEF KernelInv, OneDevicePerAddress, OnPresentBuses
<1>2. CASE Creates
  BY <1>2, AddedKeepsKernel DEF Creates, KernelAccepts, SteppedAt
<1>3. CASE Deletes
  <2>1. roots \in SUBSET Roots /\ devices \ Removable(TheChip.bus, TheChip.addr) \in SUBSET devices
    BY DEF TypeOK
  <2> QED
    BY <1>3, <2>1, RemovedKeepsKernel DEF Deletes, SteppedAt
<1>4. CASE \/ Standstill \/ NoLoop \/ OpensLoop \/ OpensOne
           \/ Comes \/ Looks \/ Refused \/ Relists \/ Rescanned
  <2>1. CASE Standstill \/ NoLoop \/ Comes \/ Relists \/ Rescanned
    BY <1>1, <2>1 DEF Standstill, NoLoop, Comes, Relists, Rescanned
  <2>2. CASE OpensLoop \/ OpensOne
    BY <1>1, <2>2 DEF OpensLoop, OpensOne, Opened
  <2>3. CASE Looks
    BY <1>1, <2>3 DEF Looks, SteppedAt
  <2>4. CASE Refused
    BY <1>1, <2>4 DEF Refused, SteppedAt
  <2> QED
    BY <1>4, <2>1, <2>2, <2>3, <2>4
<1> QED
  BY <1>2, <1>3, <1>4 DEF LoopStep

-----------------------------------------------------------------------------
(* What a match leaves of a chip, and what its marks mean. *)
LEMMA MatchOneKeeps ==
  \A c \in Chip : \A as, ds :
    /\ MatchOne(c, as, ds).prefix = c.prefix /\ MatchOne(c, as, ds).addr = c.addr
    /\ MatchOne(c, as, ds).path = c.path /\ MatchOne(c, as, ds).bus = c.bus
BY DEF MatchOne, Chip

LEMMA MatchOneMarks ==
  \A c \in Chip : \A as, ds :
    /\ MatchOne(c, as, ds).available <=> c.bus \in as
    /\ MatchOne(c, as, ds).matched => c.bus \in as
    /\ c.bus \in as /\ On(ds, c.bus) # {} =>
         (MatchOne(c, as, ds).matched <=> \E d \in On(ds, c.bus) : Matches(d, c))
    /\ c.bus \in as /\ On(ds, c.bus) = {} => (MatchOne(c, as, ds).matched <=> c.matched)
BY DEF MatchOne, Chip

(* The chips are the same but for their marks. *)
SameChips(cs, other) ==
  /\ cs \in Seq(Chip) /\ other \in Seq(Chip) /\ DOMAIN cs = DOMAIN other
  /\ \A k \in DOMAIN cs : /\ cs[k].prefix = other[k].prefix /\ cs[k].addr = other[k].addr
                          /\ cs[k].path = other[k].path /\ cs[k].bus = other[k].bus

LEMMA SameChipsMatch ==
  ASSUME NEW cs, NEW other, SameChips(cs, other)
  PROVE  \A k \in DOMAIN cs : \A d : Matches(d, cs[k]) <=> Matches(d, other[k])
BY DEF SameChips, Matches, SameNameAndAddr

LEMMA MatchAllIsSame ==
  ASSUME NEW cs \in Seq(Chip), NEW as, NEW ds
  PROVE  SameChips(MatchAll(cs, as, ds), cs)
<1>1. MatchAll(cs, as, ds) \in Seq(Chip) /\ DOMAIN MatchAll(cs, as, ds) = DOMAIN cs
  BY MatchAllTypes
<1>2. \A k \in DOMAIN cs : cs[k] \in Chip /\ MatchAll(cs, as, ds)[k] = MatchOne(cs[k], as, ds)
  BY DEF MatchAll
<1>3. ASSUME NEW k \in DOMAIN cs
      PROVE  LET m == MatchAll(cs, as, ds)[k] IN
             m.prefix = cs[k].prefix /\ m.addr = cs[k].addr /\ m.path = cs[k].path /\ m.bus = cs[k].bus
  <2> DEFINE c == cs[k]
  <2>1. c \in Chip
    BY <1>2
  <2>2. MatchAll(cs, as, ds)[k] = MatchOne(c, as, ds)
    BY <1>2
  <2> HIDE DEF c
  <2>3. LET m == MatchOne(c, as, ds) IN
        m.prefix = c.prefix /\ m.addr = c.addr /\ m.path = c.path /\ m.bus = c.bus
    BY <2>1, MatchOneKeeps
  <2> QED
    BY <2>2, <2>3 DEF c
<1> QED
  BY <1>1, <1>3 DEF SameChips

(* The marks of the chips are those of the table: a chip is available when  *)
(* its adapter is listed, and matched as its devices say, if it has any.    *)
MarksAgree(cs, as, ds) ==
  \A k \in DOMAIN cs :
    /\ cs[k].available <=> cs[k].bus \in as
    /\ cs[k].matched => cs[k].available
    /\ (cs[k].available /\ On(ds, cs[k].bus) # {}) =>
         (cs[k].matched <=> \E d \in ds : Matches(d, cs[k]))

LEMMA MatchAllAgrees ==
  ASSUME NEW cs \in Seq(Chip), NEW as, NEW ds
  PROVE  MarksAgree(MatchAll(cs, as, ds), as, ds)
<1> DEFINE m == MatchAll(cs, as, ds)
<1>1. \A k \in DOMAIN m : k \in DOMAIN cs /\ cs[k] \in Chip /\ m[k] = MatchOne(cs[k], as, ds)
  BY DEF MatchAll
<1>2. \A k \in DOMAIN m : \A d : Matches(d, m[k]) <=> Matches(d, cs[k])
  BY MatchAllIsSame, SameChipsMatch
<1>3. \A c : (\E d \in On(ds, c.bus) : Matches(d, c)) <=> (\E d \in ds : Matches(d, c))
  BY DEF On, Matches
<1> HIDE DEF m
<1> SUFFICES ASSUME NEW k \in DOMAIN m
             PROVE  /\ m[k].available <=> m[k].bus \in as
                    /\ m[k].matched => m[k].available
                    /\ (m[k].available /\ On(ds, m[k].bus) # {}) =>
                         (m[k].matched <=> \E d \in ds : Matches(d, m[k]))
  BY DEF MarksAgree, m
<1> DEFINE c == cs[k]
           o == MatchOne(c, as, ds)
<1>4. c \in Chip
  BY <1>1
<1> HIDE DEF c
<1>5. /\ o.bus = c.bus /\ (o.available <=> c.bus \in as)
      /\ o.matched => c.bus \in as
      /\ c.bus \in as /\ On(ds, c.bus) # {} =>
           (o.matched <=> \E d \in On(ds, c.bus) : Matches(d, c))
  BY <1>4, MatchOneKeeps, MatchOneMarks
<1>6. m[k] = o
  BY <1>1 DEF c
<1> HIDE DEF o
<1>7. \A d : Matches(d, m[k]) <=> Matches(d, c)
  BY <1>2 DEF c
<1> QED
  BY <1>3, <1>5, <1>6, <1>7

(* When every chip that counts as matched has its device, it is so also     *)
(* after a match.                                                           *)
LEMMA MatchedFollow ==
  ASSUME NEW cs \in Seq(Chip), NEW as, NEW ds,
         \A k \in DOMAIN cs : cs[k].matched => \E d \in ds : Matches(d, cs[k])
  PROVE  \A k \in DOMAIN cs : MatchAll(cs, as, ds)[k].matched => \E d \in ds : Matches(d, cs[k])
<1>1. ASSUME NEW c \in Chip, MatchOne(c, as, ds).matched, c.matched => \E d \in ds : Matches(d, c)
      PROVE  \E d \in ds : Matches(d, c)
  <2>1. c.bus \in as
    BY <1>1, MatchOneMarks
  <2>2. CASE On(ds, c.bus) = {}
    BY <1>1, <2>1, <2>2, MatchOneMarks
  <2>3. CASE On(ds, c.bus) # {}
    <3>1. \E d \in On(ds, c.bus) : Matches(d, c)
      BY <1>1, <2>1, <2>3, MatchOneMarks
    <3> QED
      BY <3>1 DEF On
  <2> QED
    BY <2>2, <2>3
<1> SUFFICES ASSUME NEW k \in DOMAIN cs, MatchAll(cs, as, ds)[k].matched
             PROVE  \E d \in ds : Matches(d, cs[k])
  OBVIOUS
<1> DEFINE c == cs[k]
<1>2. c \in Chip
  OBVIOUS
<1>3. MatchAll(cs, as, ds)[k] = MatchOne(c, as, ds)
  BY DEF MatchAll
<1>4. c.matched => \E d \in ds : Matches(d, c)
  OBVIOUS
<1>5. MatchOne(c, as, ds).matched
  BY <1>3
<1> HIDE DEF c
<1>6. \E d \in ds : Matches(d, c)
  BY <1>1, <1>2, <1>4, <1>5, Zenon
<1> QED
  BY <1>6 DEF c

-----------------------------------------------------------------------------
(* A loop looks at marks that agree with the table, and deletes only the    *)
(* device of a chip that counts as matched, or of one that matches a device *)
(* of the table.                                                            *)
Marked ==
  /\ (call # NoCall /\ call.op \in {"initialize", "remove"} /\ call.step \in {"next", "stat", "write"}) =>
       MarksAgree(chips, adapters, clients)
  /\ (call # NoCall /\ call.op = "remove" /\ call.step \in {"stat", "write"}) => TheChip.matched
  /\ (call # NoCall /\ call.op = "removeAdapter" /\ call.step \in {"stat", "write"}) =>
       \E d \in clients : Matches(d, TheChip)

LEMMA SteppedKeepsMarked ==
  ASSUME Marked, NEW from \in {"stat", "write"}, NEW to \in {"next", "write", "rescan"}, NEW by,
         SteppedAt(from, to, by)
  PROVE  Marked'
<1>1. /\ call \in Call /\ call.step = from /\ call'.op = call.op /\ call'.step = to /\ call'.i = call.i
      /\ UNCHANGED <<chips, adapters, clients>>
  BY DEF SteppedAt, Stepped
<1>2. call # NoCall
  BY <1>1, NoCallIsNone
<1>3. TheChip' = TheChip
  BY <1>1 DEF TheChip
<1>4. MarksAgree(chips, adapters, clients)' <=> MarksAgree(chips, adapters, clients)
  BY <1>1
<1> QED
  BY <1>1, <1>2, <1>3, <1>4 DEF Marked

LEMMA NextKeepsMarked ==
  ASSUME ChipsInv, Marked, [Next]_vars
  PROVE  Marked'
<1>1. chips \in Seq(Chip)
  BY DEF ChipsInv, TypeOK
<1>2. CASE KernelMoves
  <2>1. UNCHANGED <<chips, adapters, clients>>
    BY <1>2 DEF KernelMoves
  <2>2. CASE call = NoCall /\ call' = NoCall
    BY <2>2 DEF Marked
  <2>3. CASE call \in Call /\ call' \in Call /\ call'.op = call.op /\ call'.step = call.step /\ call'.i = call.i
    BY <2>1, <2>3, NoCallIsNone DEF Marked, TheChip
  <2> QED
    BY <1>2, <2>2, <2>3 DEF KernelMoves
<1>3. CASE Standstill
  BY <1>3 DEF Standstill, Marked, TheChip
<1>4. CASE NoLoop
  BY <1>4 DEF NoLoop, Marked, LoopOps
<1>5. CASE OpensLoop
  <2>1. MarksAgree(chips', adapters', clients')
    BY <1>1, <1>5, MatchAllAgrees DEF OpensLoop, Opened
  <2>2. call'.step = "next"
    BY <1>5 DEF OpensLoop, Opened
  <2> QED
    BY <2>1, <2>2 DEF Marked
<1>6. CASE OpensOne
  <2>1. PICK k \in DOMAIN chips, d \in clients :
          /\ Matches(d, chips[k]) /\ chips' = [chips EXCEPT ![k].matched = TRUE]
          /\ Opened("removeAdapter", "stat", k, {})
    BY <1>6 DEF OpensOne
  <2>2. call'.op = "removeAdapter" /\ call'.i = k /\ clients' = clients
    BY <2>1 DEF Opened
  <2>3. chips'[k].prefix = chips[k].prefix /\ chips'[k].addr = chips[k].addr
        /\ chips'[k].bus = chips[k].bus /\ chips'[k].path = chips[k].path
    <3>1. chips'[k] = [chips[k] EXCEPT !.matched = TRUE] /\ chips[k] \in Chip
      BY <1>1, <2>1
    <3> QED
      BY <3>1 DEF Chip
  <2>4. Matches(d, TheChip')
    BY <2>1, <2>2, <2>3 DEF TheChip, Matches, SameNameAndAddr
  <2> QED
    BY <2>1, <2>2, <2>4 DEF Marked
<1>7. CASE Comes
  <2>1. /\ call \in Call /\ call.step = "next" /\ call'.op = call.op /\ call'.step = "stat"
        /\ call.op # "removeAdapter" /\ UNCHANGED <<chips, adapters, clients>>
        /\ call'.i \in Ahead(call.op, chips, call.i)
    BY <1>7 DEF Comes, Stepped
  <2>2. call # NoCall
    BY <2>1, NoCallIsNone
  <2>3. call.op = "remove" => TheChip'.matched
    BY <2>1 DEF Ahead, Wanted, TheChip
  <2> QED
    BY <2>1, <2>2, <2>3 DEF Marked
<1>8. CASE Looks \/ Creates \/ Deletes \/ Refused
  BY <1>8, SteppedKeepsMarked DEF Looks, Creates, Deletes, Refused
<1>9. CASE Relists
  BY <1>9 DEF Relists, Stepped, Marked
<1>10. CASE Rescanned
  <2>1. call'.step = "next"
    BY <1>10 DEF Rescanned, Stepped
  <2>2. MarksAgree(chips', adapters', clients')
    BY <1>1, <1>10, MatchAllAgrees DEF Rescanned
  <2> QED
    BY <2>1, <2>2 DEF Marked
<1> QED
  BY NextIsLoopStep, <1>2, <1>3, <1>4, <1>5, <1>6, <1>7, <1>8, <1>9, <1>10 DEF LoopStep

-----------------------------------------------------------------------------
(* The tables and the marks of a loop that only the library disturbed *)
TableFollows ==
  /\ call.step \in {"next", "stat", "write"} => TableIsCurrent
  /\ call.step = "scan" => call.seen = Present(roots, devices) /\ call.met = devices

Passed(k) == k < call.i \/ (k = call.i /\ call.step \in {"next", "rescan", "scan"})

(* A scan that the kernel leaves alone finds what is there. *)
LEMMA ScanIsExact ==
  ASSUME OnPresentBuses, call.seen = Present(roots, devices), call.met = devices, NEW ds \in Read(call)
  PROVE  ds = devices
<1>1. ds \subseteq devices
  BY DEF Read
<1>2. \A bus \in call.seen : On(devices, bus) \subseteq ds
  BY DEF Read, On
<1>3. \A d \in devices : d.bus \in call.seen /\ d \in On(devices, d.bus)
  BY DEF OnPresentBuses, On
<1> QED
  BY <1>1, <1>2, <1>3

(* remove_all_config_chips: once the loop is past a chip, there is no device *)
(* at its address, unless the kernel refused to delete it.                   *)
RemoveLoop ==
  (call # NoCall /\ call.op = "remove" /\ call.by \cap {"kernel", "table"} = {}) =>
    /\ TableFollows
    /\ \A k \in DOMAIN chips, d \in devices :
         Passed(k) /\ Matches(d, chips[k]) => d \in Firmware /\ "refused" \in call.by

(* With a table that is current, a chip that has a device counts as matched, *)
(* so that the loop comes to it.                                             *)
LEMMA ComesToMatched ==
  ASSUME ChipsInv, KernelInv, Marked, TableIsCurrent,
         call \in Call, call.op = "remove", call.step = "next",
         NEW k \in DOMAIN chips, k \notin Ahead("remove", chips, call.i), k > call.i
  PROVE  \A d \in devices : ~Matches(d, chips[k])
<1> SUFFICES ASSUME NEW d \in devices, Matches(d, chips[k])
             PROVE  FALSE
  OBVIOUS
<1>1. MarksAgree(chips, adapters, clients) /\ call # NoCall
  BY NoCallIsNone DEF Marked
<1>2. d.bus = chips[k].bus /\ d \in On(clients, chips[k].bus) /\ chips[k].bus \in adapters
  BY DEF Matches, On, TableIsCurrent, KernelInv, OnPresentBuses
<1>3. chips[k].available /\ chips[k].matched
  BY <1>1, <1>2 DEF MarksAgree, TableIsCurrent
<1> QED
  BY <1>3 DEF Ahead, Wanted

LEMMA NextKeepsRemoveLoop ==
  ASSUME ChipsInv, KernelInv, Marked, RemoveLoop, [Next]_vars
  PROVE  RemoveLoop'
<1> SUFFICES ASSUME call' # NoCall, call'.op = "remove", call'.by \cap {"kernel", "table"} = {}
             PROVE  /\ TableFollows'
                    /\ \A k \in DOMAIN chips', d \in devices' :
                         Passed(k)' /\ Matches(d, chips'[k]) => d \in Firmware /\ "refused" \in call'.by
  BY DEF RemoveLoop
<1>1. chips \in Seq(Chip) /\ DOMAIN chips \subseteq Nat
  BY DEF ChipsInv, TypeOK
<1> DEFINE Undisturbed ==
      /\ TableFollows
      /\ \A k \in DOMAIN chips, d \in devices :
           Passed(k) /\ Matches(d, chips[k]) => d \in Firmware /\ "refused" \in call.by
<1>2. ASSUME call \in Call, call'.op = call.op, call'.by = call.by \/ call'.by = call.by \cup {"refused"}
      PROVE  Undisturbed
  BY <1>2, NoCallIsNone DEF RemoveLoop
<1>3. CASE Standstill
  BY <1>3 DEF Standstill, RemoveLoop, TableFollows, TableIsCurrent, Passed
<1>4. CASE NoLoop
  BY <1>4 DEF NoLoop, LoopOps
<1>5. CASE OpensLoop
  <2>1. TableIsCurrent /\ call'.i = 0 /\ call'.step = "next" /\ DOMAIN chips' = DOMAIN chips
        /\ UNCHANGED <<roots, devices, adapters, clients>>
    BY <1>1, <1>5, MatchAllTypes DEF OpensLoop, Opened
  <2>2. \A k \in DOMAIN chips' : ~Passed(k)'
    BY <1>1, <2>1 DEF Passed
  <2>3. TableFollows'
    BY <2>1 DEF TableFollows, TableIsCurrent
  <2> QED
    BY <2>2, <2>3
<1>6. CASE OpensOne
  BY <1>6 DEF OpensOne, Opened
<1>7. CASE Comes
  <2>1. /\ call \in Call /\ call.step = "next" /\ call'.op = call.op /\ call'.by = call.by
        /\ call'.step = "stat" /\ UNCHANGED <<roots, devices, chips, adapters, clients>>
        /\ \A j \in Ahead(call.op, chips, call.i) : call'.i <= j
        /\ call'.i \in Nat
    BY <1>1, <1>7 DEF Comes, Stepped, Ahead
  <2>2. Undisturbed
    BY <1>2, <2>1
  <2>3. TableIsCurrent
    BY <2>1, <2>2 DEF TableFollows
  <2>4. TableFollows'
    BY <2>1, <2>3 DEF TableFollows, TableIsCurrent
  <2>5. ASSUME NEW k \in DOMAIN chips, NEW d \in devices, k < call'.i, Matches(d, chips[k])
        PROVE  d \in Firmware /\ "refused" \in call.by
    <3>1. call.i \in Nat /\ k \in Nat
      BY <1>1, <2>1, NoCallIsNone
    <3>2. CASE k > call.i
      <4>1. k \notin Ahead(call.op, chips, call.i)
        BY <2>1, <2>5, <3>1
      <4> QED
        BY <2>1, <2>3, <2>5, <3>2, <4>1, ComesToMatched
    <3>3. CASE k <= call.i
      <4>1. Passed(k)
        BY <2>1, <3>1, <3>3 DEF Passed
      <4> QED
        BY <2>2, <2>5, <4>1
    <3> QED
      BY <3>1, <3>2, <3>3
  <2>6. \A k : Passed(k)' => k < call'.i
    BY <2>1 DEF Passed
  <2> QED
    BY <2>1, <2>4, <2>5, <2>6
<1>8. CASE Looks
  <2>1. /\ call \in Call /\ call.step = "stat" /\ call'.op = call.op /\ call'.by = call.by
        /\ call'.i = call.i /\ UNCHANGED <<roots, devices, chips, adapters, clients>>
        /\ \/ call'.step = "write"
           \/ call'.step = "next" /\ ~Taken(TheChip.bus, TheChip.addr)
    BY <1>8 DEF Looks, SteppedAt, Stepped
  <2>2. Undisturbed
    BY <1>2, <2>1
  <2>3. TableFollows'
    BY <2>1, <2>2 DEF TableFollows, TableIsCurrent
  <2>4. ASSUME NEW k \in DOMAIN chips, NEW d \in devices, Passed(k)', Matches(d, chips[k])
        PROVE  d \in Firmware /\ "refused" \in call.by
    <3>1. k = call.i => call'.step = "write"
      BY <2>1, <2>4 DEF Taken, TheChip, Matches, SameNameAndAddr
    <3>2. Passed(k)
      BY <2>1, <2>4, <3>1 DEF Passed
    <3> QED
      BY <2>2, <2>4, <3>2
  <2> QED
    BY <2>1, <2>3, <2>4
<1>9. CASE Creates
  BY <1>9 DEF Creates, SteppedAt, Stepped
<1>10. CASE Deletes
  <2> DEFINE victims == Removable(TheChip.bus, TheChip.addr)
  <2>1. /\ call \in Call /\ call.step = "write" /\ call'.op = call.op /\ call'.by = call.by
        /\ call'.step = "rescan" /\ call'.i = call.i /\ UNCHANGED <<roots, chips, adapters, clients>>
        /\ victims # {} /\ devices' = Settled(roots, devices \ victims)
    BY <1>10 DEF Deletes, SteppedAt, Stepped
  <2>2. Undisturbed
    BY <1>2, <2>1
  <2>3. devices' \subseteq devices \ victims
    BY <2>1 DEF Settled
  <2>4. ASSUME NEW k \in DOMAIN chips, NEW d \in devices', Passed(k)', Matches(d, chips[k])
        PROVE  d \in Firmware /\ "refused" \in call.by
    <3>1. k # call.i
      <4>1. SUFFICES ASSUME k = call.i PROVE FALSE
        OBVIOUS
      <4>2. PICK v \in victims : v.bus = d.bus /\ v.addr = d.addr /\ v \in devices
        BY <2>1, <2>4, <4>1 DEF Removable, Matches, SameNameAndAddr, TheChip
      <4> QED
        BY <2>3, <4>2 DEF KernelInv, OneDevicePerAddress
    <3>2. Passed(k) /\ d \in devices
      BY <2>1, <2>3, <2>4, <3>1 DEF Passed
    <3> QED
      BY <2>2, <2>4, <3>2
  <2>5. TableFollows'
    BY <2>1 DEF TableFollows
  <2> QED
    BY <2>1, <2>4, <2>5
<1>11. CASE Refused
  <2>1. /\ call \in Call /\ call.step = "write" /\ call'.op = call.op
        /\ call'.by = call.by \cup {"refused"} /\ call'.step = "next" /\ call'.i = call.i
        /\ UNCHANGED <<roots, devices, chips, adapters, clients>>
        /\ Removable(TheChip.bus, TheChip.addr) = {}
    BY <1>11 DEF Refused, SteppedAt, Stepped
  <2>2. Undisturbed
    BY <1>2, <2>1
  <2>3. TableFollows'
    BY <2>1, <2>2 DEF TableFollows, TableIsCurrent
  <2>4. ASSUME NEW k \in DOMAIN chips, NEW d \in devices, Passed(k)', Matches(d, chips[k])
        PROVE  d \in Firmware
    <3>1. CASE k = call.i
      BY <2>1, <2>4, <3>1 DEF Removable, Matches, SameNameAndAddr, TheChip
    <3>2. CASE k # call.i
      <4>1. Passed(k)
        BY <2>1, <2>4, <3>2 DEF Passed
      <4> QED
        BY <2>2, <2>4, <4>1
    <3> QED
      BY <3>1, <3>2
  <2>5. "refused" \in call'.by
    BY <2>1
  <2> QED
    BY <2>1, <2>3, <2>4, <2>5
<1>12. CASE Relists
  <2>1. /\ call \in Call /\ call.step = "rescan" /\ call'.op = call.op /\ call'.by = call.by
        /\ call'.step = "scan" /\ call'.i = call.i /\ UNCHANGED <<roots, devices, chips>>
        /\ call'.seen = Present(roots, devices) /\ call'.met = devices
    BY <1>12 DEF Relists, Stepped
  <2>2. Undisturbed
    BY <1>2, <2>1
  <2>3. TableFollows'
    BY <2>1 DEF TableFollows
  <2>4. \A k : Passed(k)' => Passed(k)
    BY <2>1 DEF Passed
  <2> QED
    BY <2>1, <2>2, <2>3, <2>4
<1>13. CASE Rescanned
  <2>1. PICK ds \in Read(call) : /\ adapters' = call.seen /\ clients' = ds
                                 /\ chips' = MatchAll(chips, call.seen, ds)
    BY <1>13 DEF Rescanned
  <2>2. /\ call \in Call /\ call.step = "scan" /\ call'.op = call.op /\ call'.by = call.by
        /\ call'.step = "next" /\ call'.i = call.i /\ UNCHANGED <<roots, devices>>
    BY <1>13 DEF Rescanned, Stepped
  <2>3. Undisturbed
    BY <1>2, <2>2
  <2>4. call.seen = Present(roots, devices) /\ ds = devices
    BY <2>2, <2>3, ScanIsExact DEF TableFollows, KernelInv
  <2>5. TableFollows'
    BY <2>1, <2>2, <2>4 DEF TableFollows, TableIsCurrent
  <2>6. SameChips(chips', chips)
    BY <1>1, <2>1, MatchAllIsSame
  <2>7. DOMAIN chips' = DOMAIN chips /\ \A k \in DOMAIN chips' : \A d : Matches(d, chips'[k]) <=> Matches(d, chips[k])
    BY <2>6, SameChipsMatch DEF SameChips
  <2>8. \A k : Passed(k)' => Passed(k)
    BY <2>2 DEF Passed
  <2> QED
    BY <2>2, <2>3, <2>5, <2>7, <2>8
<1>14. CASE KernelMoves
  <2>1. "kernel" \in call'.by
    BY <1>14 DEF KernelMoves
  <2> QED
    BY <2>1
<1> QED
  BY NextIsLoopStep, <1>3, <1>4, <1>5, <1>6, <1>7, <1>8, <1>9, <1>10, <1>11, <1>12, <1>13, <1>14 DEF LoopStep

-----------------------------------------------------------------------------
(* initialize_all_config_chips: once the loop is past a chip whose adapter  *)
(* is there, a device is at its address, unless the kernel refused to make  *)
(* one there because the address is none.                                   *)
Done(k) ==
  \/ Taken(chips[k].bus, chips[k].addr)
  \/ chips[k].addr \notin Addr /\ "refused" \in call.by

MatchedAreThere == \A k \in DOMAIN chips : chips[k].matched => \E d \in devices : Matches(d, chips[k])

PassedAreDone ==
  \A k \in DOMAIN chips : (Passed(k) /\ chips[k].bus \in Present(roots, devices)) => Done(k)

InitializeLoop ==
  (call # NoCall /\ call.op = "initialize" /\ call.by \subseteq {"refused"} /\ ParentsFirst) =>
    TableFollows /\ MatchedAreThere /\ PassedAreDone

(* A chip without a device at its address does not count as matched, so that *)
(* the loop comes to it when its adapter is there.                           *)
LEMMA ComesToMissing ==
  ASSUME ChipsInv, Marked, TableIsCurrent, call \in Call, call.op = "initialize", call.step = "next",
         MatchedAreThere,
         NEW k \in DOMAIN chips, k \notin Ahead("initialize", chips, call.i), k > call.i,
         chips[k].bus \in Present(roots, devices)
  PROVE  Taken(chips[k].bus, chips[k].addr)
<1>1. MarksAgree(chips, adapters, clients)
  BY NoCallIsNone DEF Marked
<1>2. chips[k].available
  BY <1>1 DEF MarksAgree, TableIsCurrent
<1>3. chips[k].matched
  BY <1>2 DEF Ahead, Wanted
<1> QED
  BY <1>3 DEF MatchedAreThere, Taken, Matches, SameNameAndAddr

LEMMA SameChipsParents ==
  ASSUME NEW cs, NEW other, SameChips(cs, other)
  PROVE  (\A j, k \in DOMAIN cs :
            (Provider[cs[k].bus] # NoDevice /\ SameNameAndAddr(Provider[cs[k].bus], cs[j])
               /\ Provider[cs[k].bus].bus = cs[j].bus) => j < k)
         => (\A j, k \in DOMAIN other :
               (Provider[other[k].bus] # NoDevice /\ SameNameAndAddr(Provider[other[k].bus], other[j])
                  /\ Provider[other[k].bus].bus = other[j].bus) => j < k)
BY DEF SameChips, SameNameAndAddr

(* With multiplexers before what is behind them, the adapters a new device  *)
(* makes are those of chips the loop has still to come to.                  *)
LEMMA NewBusIsAhead ==
  ASSUME ChipsInv, ParentsFirst, call.i \in DOMAIN chips, NewDevice \in Device,
         devices' = devices \cup {NewDevice}, NEW k \in DOMAIN chips,
         chips[k].bus \in Present(roots, devices'), chips[k].bus \notin Present(roots, devices)
  PROVE  call.i < k
<1>1. Provider[chips[k].bus] = NewDevice
  BY DEF Present, Provided
<1>2. Provider[chips[k].bus] # NoDevice
  BY <1>1, KernelAssumption
<1>3. SameNameAndAddr(NewDevice, chips[call.i]) /\ NewDevice.bus = chips[call.i].bus
  BY DEF NewDevice, SameNameAndAddr, TheChip
<1> QED
  BY <1>1, <1>2, <1>3 DEF ParentsFirst

LEMMA NextKeepsInitializeLoop ==
  ASSUME ChipsInv, KernelInv, Marked, InitializeLoop, [Next]_vars
  PROVE  InitializeLoop'
<1> SUFFICES ASSUME call' # NoCall, call'.op = "initialize", call'.by \subseteq {"refused"}, ParentsFirst'
             PROVE  TableFollows' /\ MatchedAreThere' /\ PassedAreDone'
  BY DEF InitializeLoop
<1>1. chips \in Seq(Chip) /\ DOMAIN chips \subseteq Nat
  BY DEF ChipsInv, TypeOK
<1> DEFINE Undisturbed == TableFollows /\ MatchedAreThere /\ PassedAreDone
<1>2. ASSUME call \in Call, call'.op = call.op, call'.by = call.by \/ call'.by = call.by \cup {"refused"},
             ParentsFirst
      PROVE  Undisturbed
  <2>1. call # NoCall /\ call.op = "initialize" /\ call.by \subseteq {"refused"}
    BY <1>2, NoCallIsNone
  <2> QED
    BY <1>2, <2>1 DEF InitializeLoop
<1>3. CASE Standstill
  BY <1>3 DEF Standstill, InitializeLoop, TableFollows, TableIsCurrent, Passed, ParentsFirst, Taken,
              MatchedAreThere, PassedAreDone, Done
<1>4. CASE NoLoop
  BY <1>4 DEF NoLoop, LoopOps
<1>5. CASE OpensLoop
  <2>1. TableIsCurrent /\ ~Stale(chips') /\ call'.i = 0 /\ call'.step = "next" /\ DOMAIN chips' = DOMAIN chips
        /\ UNCHANGED <<roots, devices, adapters, clients>>
    BY <1>1, <1>5, MatchAllTypes DEF OpensLoop, Opened
  <2>2. \A k \in DOMAIN chips' : ~Passed(k)'
    BY <1>1, <2>1 DEF Passed
  <2>3. TableFollows'
    BY <2>1 DEF TableFollows, TableIsCurrent
  <2>4. MatchedAreThere'
    BY <2>1 DEF Stale, TableIsCurrent, MatchedAreThere
  <2> QED
    BY <2>2, <2>3, <2>4 DEF PassedAreDone
<1>6. CASE OpensOne
  BY <1>6 DEF OpensOne, Opened
<1>7. CASE Comes
  <2>1. /\ call \in Call /\ call.step = "next" /\ call'.op = call.op /\ call'.by = call.by
        /\ call'.step = "stat" /\ UNCHANGED <<roots, devices, chips, adapters, clients>>
        /\ \A j \in Ahead(call.op, chips, call.i) : call'.i <= j
        /\ call'.i \in Nat
    BY <1>1, <1>7 DEF Comes, Stepped, Ahead
  <2>2. ParentsFirst
    BY <2>1 DEF ParentsFirst
  <2>3. Undisturbed
    BY <1>2, <2>1, <2>2
  <2>4. TableIsCurrent
    BY <2>1, <2>3 DEF TableFollows
  <2>5. TableFollows'
    BY <2>1, <2>4 DEF TableFollows, TableIsCurrent
  <2>6. ASSUME NEW k \in DOMAIN chips, k < call'.i, chips[k].bus \in Present(roots, devices)
        PROVE  Done(k)
    <3>1. call.i \in Nat /\ k \in Nat
      BY <1>1, <2>1, NoCallIsNone
    <3>2. CASE k > call.i
      <4>1. k \notin Ahead(call.op, chips, call.i)
        BY <2>1, <2>6, <3>1
      <4> QED
        BY <2>1, <2>3, <2>4, <2>6, <3>2, <4>1, ComesToMissing DEF Done
    <3>3. CASE k <= call.i
      <4>1. Passed(k)
        BY <2>1, <3>1, <3>3 DEF Passed
      <4> QED
        BY <2>3, <2>6, <4>1 DEF PassedAreDone
    <3> QED
      BY <3>1, <3>2, <3>3
  <2>7. \A k : Passed(k)' => k < call'.i
    BY <2>1 DEF Passed
  <2>8. MatchedAreThere'
    BY <2>1, <2>3 DEF MatchedAreThere
  <2>9. PassedAreDone'
    BY <2>1, <2>6, <2>7 DEF PassedAreDone, Done, Taken
  <2> QED
    BY <2>5, <2>8, <2>9
<1>8. CASE Looks
  <2>1. /\ call \in Call /\ call.step = "stat" /\ call'.op = call.op /\ call'.by = call.by
        /\ call'.i = call.i /\ UNCHANGED <<roots, devices, chips, adapters, clients>>
        /\ \/ call'.step = "write"
           \/ call'.step = "rescan" /\ Taken(TheChip.bus, TheChip.addr)
    BY <1>8 DEF Looks, SteppedAt, Stepped
  <2>2. ParentsFirst
    BY <2>1 DEF ParentsFirst
  <2>3. Undisturbed
    BY <1>2, <2>1, <2>2
  <2>4. TableFollows'
    BY <2>1, <2>3 DEF TableFollows, TableIsCurrent
  <2>5. ASSUME NEW k \in DOMAIN chips, Passed(k)', chips[k].bus \in Present(roots, devices)
        PROVE  Done(k)
    <3>1. Passed(k) \/ (k = call.i /\ call'.step = "rescan")
      BY <2>1, <2>5 DEF Passed
    <3>2. CASE Passed(k)
      BY <2>3, <2>5, <3>2 DEF PassedAreDone
    <3>3. CASE k = call.i /\ call'.step = "rescan"
      BY <2>1, <3>3 DEF TheChip, Done
    <3> QED
      BY <3>1, <3>2, <3>3
  <2>6. MatchedAreThere'
    BY <2>1, <2>3 DEF MatchedAreThere
  <2>7. PassedAreDone'
    BY <2>1, <2>5 DEF PassedAreDone, Done, Taken
  <2> QED
    BY <2>4, <2>6, <2>7
<1>9. CASE Creates
  <2>1. /\ call \in Call /\ call.step = "write" /\ call'.op = call.op /\ call'.by = call.by
        /\ call'.step = "rescan" /\ call'.i = call.i /\ call.i \in DOMAIN chips
        /\ UNCHANGED <<roots, chips, adapters, clients>>
        /\ NewDevice \in Device /\ devices' = devices \cup {NewDevice}
    BY <1>9 DEF Creates, SteppedAt, Stepped
  <2>2. ParentsFirst
    BY <2>1 DEF ParentsFirst
  <2>3. Undisturbed
    BY <1>2, <2>1, <2>2
  <2>4. TableFollows'
    BY <2>1 DEF TableFollows
  <2>5. ASSUME NEW k \in DOMAIN chips, Passed(k)', chips[k].bus \in Present(roots, devices')
        PROVE  \/ Done(k)
               \/ \E d \in devices' : d.bus = chips[k].bus /\ d.addr = chips[k].addr
    <3>1. CASE k = call.i
      BY <2>1, <3>1 DEF NewDevice, TheChip
    <3>2. CASE k # call.i
      <4>1. Passed(k)
        BY <2>1, <2>5, <3>2 DEF Passed
      <4>2. k < call.i /\ k \in Nat /\ call.i \in Nat
        BY <1>1, <2>1, <3>2, <4>1 DEF Passed
      <4>3. chips[k].bus \in Present(roots, devices)
        <5>1. devices' = devices \cup {NewDevice} /\ NewDevice \in Device /\ call.i \in DOMAIN chips
          BY <2>1
        <5>2. chips[k].bus \in Present(roots, devices')
          BY <2>5
        <5>3. ~(call.i < k)
          BY <4>2
        <5> QED
          BY ONLY ChipsInv, <2>2, <5>1, <5>2, <5>3, NewBusIsAhead
      <4> QED
        BY <2>3, <4>1, <4>3 DEF PassedAreDone
    <3> QED
      BY <3>1, <3>2
  <2>6. MatchedAreThere'
    BY <2>1, <2>3 DEF MatchedAreThere
  <2>7. PassedAreDone'
    BY <2>1, <2>5 DEF PassedAreDone, Done, Taken
  <2> QED
    BY <2>4, <2>6, <2>7
<1>10. CASE Deletes
  BY <1>10 DEF Deletes, SteppedAt, Stepped
<1>11. CASE Refused
  <2>1. /\ call \in Call /\ call.step = "write" /\ call'.op = call.op
        /\ call'.by = call.by \cup {"refused"} /\ call'.step = "next" /\ call'.i = call.i
        /\ UNCHANGED <<roots, devices, chips, adapters, clients>>
        /\ ~KernelAccepts(NewDevice)
    BY <1>11 DEF Refused, SteppedAt, Stepped
  <2>2. ParentsFirst
    BY <2>1 DEF ParentsFirst
  <2>3. Undisturbed
    BY <1>2, <2>1, <2>2
  <2>4. TableFollows'
    BY <2>1, <2>3 DEF TableFollows, TableIsCurrent
  <2>5. ASSUME NEW k \in DOMAIN chips, Passed(k)', chips[k].bus \in Present(roots, devices)
        PROVE  Taken(chips[k].bus, chips[k].addr) \/ chips[k].addr \notin Addr
    <3>1. CASE k = call.i
      BY <2>1, <2>5, <3>1 DEF KernelAccepts, NewDevice, TheChip
    <3>2. CASE k # call.i
      <4>1. Passed(k)
        BY <2>1, <2>5, <3>2 DEF Passed
      <4> QED
        BY <2>3, <2>5, <4>1 DEF PassedAreDone, Done
    <3> QED
      BY <3>1, <3>2
  <2>6. MatchedAreThere'
    BY <2>1, <2>3 DEF MatchedAreThere
  <2>7. PassedAreDone'
    BY <2>1, <2>5 DEF PassedAreDone, Done, Taken
  <2> QED
    BY <2>4, <2>6, <2>7
<1>12. CASE Relists
  <2>1. /\ call \in Call /\ call.step = "rescan" /\ call'.op = call.op /\ call'.by = call.by
        /\ call'.step = "scan" /\ call'.i = call.i /\ UNCHANGED <<roots, devices, chips>>
        /\ call'.seen = Present(roots, devices) /\ call'.met = devices
    BY <1>12 DEF Relists, Stepped
  <2>2. ParentsFirst
    BY <2>1 DEF ParentsFirst
  <2>3. Undisturbed
    BY <1>2, <2>1, <2>2
  <2>4. TableFollows'
    BY <2>1 DEF TableFollows
  <2>5. \A k : Passed(k)' => Passed(k)
    BY <2>1 DEF Passed
  <2>6. MatchedAreThere'
    BY <2>1, <2>3 DEF MatchedAreThere
  <2>7. PassedAreDone'
    BY <2>1, <2>3, <2>5 DEF PassedAreDone, Done, Taken
  <2> QED
    BY <2>4, <2>6, <2>7
<1>13. CASE Rescanned
  <2>1. PICK ds \in Read(call) : /\ adapters' = call.seen /\ clients' = ds
                                 /\ chips' = MatchAll(chips, call.seen, ds)
    BY <1>13 DEF Rescanned
  <2>2. /\ call \in Call /\ call.step = "scan" /\ call'.op = call.op /\ call'.by = call.by
        /\ call'.step = "next" /\ call'.i = call.i /\ UNCHANGED <<roots, devices>>
    BY <1>13 DEF Rescanned, Stepped
  <2>3. SameChips(chips', chips)
    BY <1>1, <2>1, MatchAllIsSame
  <2>4. ParentsFirst
    BY <2>3, SameChipsParents DEF ParentsFirst
  <2>5. Undisturbed
    BY <1>2, <2>2, <2>4
  <2>6. call.seen = Present(roots, devices) /\ ds = devices
    BY <2>2, <2>5, ScanIsExact DEF TableFollows, KernelInv
  <2>7. TableFollows'
    BY <2>1, <2>2, <2>6 DEF TableFollows, TableIsCurrent
  <2>8. DOMAIN chips' = DOMAIN chips /\ \A k \in DOMAIN chips' : \A d : Matches(d, chips'[k]) <=> Matches(d, chips[k])
    BY <2>3, SameChipsMatch DEF SameChips
  <2>9. \A k \in DOMAIN chips : chips'[k].matched => \E d \in devices : Matches(d, chips[k])
    BY <1>1, <2>1, <2>5, <2>6, MatchedFollow DEF MatchedAreThere
  <2>10. \A k \in DOMAIN chips : chips'[k].bus = chips[k].bus /\ chips'[k].addr = chips[k].addr
    BY <2>3 DEF SameChips
  <2>11. \A k : Passed(k)' => Passed(k)
    BY <2>2 DEF Passed
  <2>12. MatchedAreThere'
    BY <2>2, <2>8, <2>9 DEF MatchedAreThere
  <2>13. PassedAreDone'
    <3>1. SUFFICES ASSUME NEW k \in DOMAIN chips, Passed(k), chips[k].bus \in Present(roots, devices)
                   PROVE  \/ \E d \in devices : d.bus = chips[k].bus /\ d.addr = chips[k].addr
                          \/ chips[k].addr \notin Addr /\ "refused" \in call.by
      BY <2>2, <2>8, <2>10, <2>11 DEF PassedAreDone, Done, Taken
    <3> QED
      BY <2>5, <3>1 DEF PassedAreDone, Done, Taken
  <2> QED
    BY <2>7, <2>12, <2>13
<1>14. CASE KernelMoves
  <2>1. "kernel" \in call'.by
    BY <1>14 DEF KernelMoves
  <2> QED
    BY <2>1
<1> QED
  BY NextIsLoopStep, <1>3, <1>4, <1>5, <1>6, <1>7, <1>8, <1>9, <1>10, <1>11, <1>12, <1>13, <1>14 DEF LoopStep

-----------------------------------------------------------------------------
LoopInv == ChipsInv /\ KernelInv /\ Marked /\ RemoveLoop /\ InitializeLoop

LEMMA LoopInvInit == ASSUME Init PROVE LoopInv
<1>1. call = NoCall
  BY DEF Init
<1>2. Marked /\ RemoveLoop /\ InitializeLoop
  BY <1>1 DEF Marked, RemoveLoop, InitializeLoop
<1> QED
  BY <1>2, ChipsInvInit, KernelInvInit DEF LoopInv

LEMMA NextKeepsLoopInv ==
  ASSUME LoopInv, [Next]_vars
  PROVE  LoopInv'
<1>1. TypeOK
  BY DEF LoopInv, ChipsInv
<1>2. KernelInv'
  <2>1. CASE KernelMoves
    BY <1>1, <2>1, KernelStepKeepsKernel DEF LoopInv, KernelMoves
  <2>2. CASE LoopStep
    BY <1>1, <2>2, LoopStepKeepsKernel DEF LoopInv
  <2> QED
    BY <2>1, <2>2, NextIsLoopStep DEF LoopInv
<1>3. ChipsInv' /\ Marked' /\ RemoveLoop' /\ InitializeLoop'
  BY NextKeepsInv, NextKeepsMarked, NextKeepsRemoveLoop, NextKeepsInitializeLoop DEF LoopInv
<1> QED
  BY <1>2, <1>3 DEF LoopInv

LEMMA LoopInvHolds == Spec => []LoopInv
<1>1. Init => LoopInv
  BY LoopInvInit
<1>2. LoopInv /\ [Next]_vars => LoopInv'
  BY NextKeepsLoopInv
<1> QED
  BY <1>1, <1>2, PTL DEF Spec

(* With a table that agrees with the kernel, the library deletes only        *)
(* devices that a configured chip matches, and what is behind them, on every *)
(* board and from any list of chips.                                         *)
THEOREM OnlyConfiguredIsDeleted == Spec => DeletesOnlyConfigured
<1> DEFINE Change ==
      (Removes("write") /\ TableIsCurrent /\ devices' \subseteq devices /\ changes' = changes) =>
        \A d \in devices \ devices' :
          \/ \E k \in DOMAIN chips : Matches(d, chips[k])
          \/ Provider[d.bus] \in devices \ devices'
<1>1. LoopInv /\ [Next]_vars => [Change]_vars
  <2> SUFFICES ASSUME LoopInv, [Next]_vars, Removes("write"), TableIsCurrent, changes' = changes,
                      devices' # devices
               PROVE  \A d \in devices \ devices' :
                        \/ \E k \in DOMAIN chips : Matches(d, chips[k])
                        \/ Provider[d.bus] \in devices \ devices'
    BY DEF LoopInv
  <2>1. TypeOK /\ ChipsInv /\ KernelInv /\ Marked
    BY DEF LoopInv, ChipsInv
  <2>2. call # NoCall /\ call.step = "write" /\ call.op \in {"remove", "removeAdapter"}
    BY DEF Removes, At, InStep
  <2>3. ~KernelMoves
    <3>1. changes \in Nat
      BY <2>1 DEF TypeOK
    <3> QED
      BY <3>1 DEF KernelMoves, KernelStep
  <2>4. Deletes
    <3>1. ~Creates
      BY <2>2 DEF Creates
    <3>2. ~(Standstill \/ NoLoop \/ Comes \/ Relists \/ Rescanned)
      BY DEF Standstill, NoLoop, Comes, Relists, Rescanned
    <3>3. ~(OpensLoop \/ OpensOne \/ Looks \/ Refused)
      BY DEF OpensLoop, OpensOne, Opened, Looks, Refused
    <3> QED
      BY <2>1, <2>3, <3>1, <3>2, <3>3, NextIsLoopStep DEF LoopStep
  <2> DEFINE victims == Removable(TheChip.bus, TheChip.addr)
  <2>5. /\ call.i \in DOMAIN chips /\ devices' = Settled(roots, devices \ victims)
        /\ victims \in SUBSET devices
    BY <2>4 DEF Deletes, SteppedAt, Removable
  <2>6. \A v \in victims : Matches(v, TheChip)
    <3> SUFFICES ASSUME NEW v \in victims PROVE Matches(v, TheChip)
      OBVIOUS
    <3>1. v \in devices /\ v.bus = TheChip.bus /\ v.addr = TheChip.addr
      BY DEF Removable
    <3>2. \E d \in clients : Matches(d, TheChip)
      <4>1. CASE call.op = "removeAdapter"
        BY <2>1, <2>2, <4>1 DEF Marked
      <4>2. CASE call.op = "remove"
        <5>1. MarksAgree(chips, adapters, clients) /\ TheChip.matched
          BY <2>1, <2>2, <4>2 DEF Marked
        <5>2. v \in On(clients, TheChip.bus)
          BY <3>1 DEF On, TableIsCurrent
        <5> QED
          BY <2>5, <5>1, <5>2 DEF MarksAgree, TheChip
      <4> QED
        BY <2>2, <4>1, <4>2
    <3>3. PICK d \in devices : Matches(d, TheChip)
      BY <3>2 DEF TableIsCurrent
    <3>4. d = v
      BY <2>1, <3>1, <3>3 DEF KernelInv, OneDevicePerAddress, Matches, SameNameAndAddr
    <3> QED
      BY <3>3, <3>4
  <2>7. devices' \subseteq devices \ victims
    BY <2>5 DEF Settled
  <2>8. \A d \in devices \ devices' : d \in victims \/ Provider[d.bus] \in victims
    BY <2>1, <2>5, SettledLoses DEF TypeOK, KernelInv, OnPresentBuses
  <2> QED
    BY <2>5, <2>6, <2>7, <2>8 DEF TheChip
<1> QED
  BY <1>1, LoopInvHolds, PTL DEF Spec, DeletesOnlyConfigured

(* remove_all_config_chips, begun with a table that agrees with the kernel   *)
(* and not disturbed or refused, leaves no device that a configured chip     *)
(* matches, whatever the marks of the chips were before it.                  *)
THEOREM RemovesAll == Spec => []RemoveClears
<1>1. LoopInv => RemoveClears
  <2> SUFFICES ASSUME LoopInv, LoopDone("remove"), call.by \subseteq {"stale"},
                      NEW k \in DOMAIN chips, NEW d \in devices, Matches(d, chips[k])
               PROVE  FALSE
    BY DEF RemoveClears
  <2>1. call # NoCall /\ call \in Call /\ call.op = "remove" /\ call.step = "next"
        /\ Ahead("remove", chips, call.i) = {}
    BY DEF LoopDone, At, InStep, Ends, LoopInv, ChipsInv, TypeOK
  <2>2. call.i \in Nat /\ k \in Nat
    BY <2>1, NoCallIsNone DEF LoopInv, ChipsInv, TypeOK
  <2>3. /\ TableFollows
        /\ \A j \in DOMAIN chips, e \in devices :
             Passed(j) /\ Matches(e, chips[j]) => e \in Firmware /\ "refused" \in call.by
    BY <2>1 DEF LoopInv, RemoveLoop
  <2>4. CASE k <= call.i
    <3>1. Passed(k)
      BY <2>1, <2>2, <2>4 DEF Passed
    <3> QED
      BY <2>3, <3>1
  <2>5. CASE k > call.i
    BY <2>1, <2>3, <2>5, ComesToMatched DEF LoopInv, TableFollows
  <2> QED
    BY <2>2, <2>4, <2>5
<1> QED
  BY <1>1, LoopInvHolds, PTL

(* initialize_all_config_chips under the same conditions leaves a device at  *)
(* the address of every chip whose adapter there is, also of those on        *)
(* adapters that it made itself, when the file names multiplexers first.     *)
THEOREM InitializesConfigured == Spec => []InitializeConfigures
<1>1. LoopInv => InitializeConfigures
  <2> SUFFICES ASSUME LoopInv, LoopDone("initialize"), call.by = {}, ParentsFirst,
                      NEW k \in DOMAIN chips, chips[k].bus \in Present(roots, devices)
               PROVE  Taken(chips[k].bus, chips[k].addr)
    BY DEF InitializeConfigures, AllConfigured
  <2>1. call # NoCall /\ call \in Call /\ call.op = "initialize" /\ call.step = "next"
        /\ Ahead("initialize", chips, call.i) = {}
    BY DEF LoopDone, At, InStep, Ends, LoopInv, ChipsInv, TypeOK
  <2>2. call.i \in Nat /\ k \in Nat
    BY <2>1, NoCallIsNone DEF LoopInv, ChipsInv, TypeOK
  <2>3. TableFollows /\ MatchedAreThere /\ PassedAreDone
    BY <2>1 DEF LoopInv, InitializeLoop
  <2>4. CASE k <= call.i
    <3>1. Passed(k)
      BY <2>1, <2>2, <2>4 DEF Passed
    <3> QED
      BY <2>3, <3>1 DEF PassedAreDone, Done
  <2>5. CASE k > call.i
    BY <2>1, <2>3, <2>5, ComesToMissing DEF LoopInv, TableFollows
  <2> QED
    BY <2>2, <2>4, <2>5
<1> QED
  BY <1>1, LoopInvHolds, PTL

-----------------------------------------------------------------------------
(* Where the list of chips comes from: the inputs S.  A library in use has   *)
(* read one of them, and a call that reads one has the chips of the items    *)
(* before those it has still to come to.                                     *)
IsRest(input, items, n) ==
  /\ Len(input) = Len(items) - n
  /\ \A j \in 1..Len(input) : input[j] = items[n + j]

Reads(items, n) == IsRest(call.input, items, n) /\ ReadUpTo(chips, items, n)

SourceIn(S) ==
  /\ loaded => \E items \in S : ReadFrom(chips, items)
  /\ library = "UNINITIALIZED" => ~loaded /\ chips = <<>>
  /\ (call # NoCall /\ call.step = "load") =>
       ~loaded /\ \E items \in S : \E n \in 0..Len(items) : Reads(items, n)

LEMMA AsReadIs ==
  \A c \in Chip : AsRead(c) = [prefix |-> c.prefix, addr |-> c.addr, path |-> c.path, bus |-> c.bus,
                               matched |-> FALSE, available |-> FALSE]
<1> SUFFICES ASSUME NEW c \in Chip
             PROVE  AsRead(c) = [prefix |-> c.prefix, addr |-> c.addr, path |-> c.path, bus |-> c.bus,
                                 matched |-> FALSE, available |-> FALSE]
  OBVIOUS
<1> DEFINE r == AsRead(c)
<1>1. r \in Chip
  BY DEF AsRead, Chip
<1>2. /\ r.prefix = c.prefix /\ r.addr = c.addr /\ r.path = c.path /\ r.bus = c.bus
      /\ r.matched = FALSE /\ r.available = FALSE
  BY DEF AsRead, Chip
<1> HIDE DEF r
<1>3. r = [prefix |-> r.prefix, addr |-> r.addr, path |-> r.path, bus |-> r.bus,
           matched |-> r.matched, available |-> r.available]
  BY <1>1 DEF Chip
<1> QED
  BY <1>2, <1>3 DEF r

LEMMA SameChipsRead ==
  ASSUME NEW cs, NEW other, SameChips(cs, other), NEW items, NEW n
  PROVE  ReadUpTo(other, items, n) => ReadUpTo(cs, items, n)
<1>1. \A c, d \in Chip : (c.prefix = d.prefix /\ c.addr = d.addr /\ c.path = d.path /\ c.bus = d.bus)
                          => AsRead(c) = AsRead(d)
  BY AsReadIs
<1>2. \A k \in DOMAIN cs : cs[k] \in Chip /\ other[k] \in Chip
  BY DEF SameChips
<1>3. DOMAIN cs = DOMAIN other /\ \A k \in DOMAIN cs : AsRead(cs[k]) = AsRead(other[k])
  BY <1>1, <1>2 DEF SameChips
<1> QED
  BY <1>3 DEF ReadUpTo

LEMMA NothingIsRead ==
  ASSUME NEW items
  PROVE  ReadUpTo(<<>>, items, 0)
<1> DEFINE lines == {k \in 1..0 : items[k].kind = "line" /\ IsChipLine(items[k].line)}
           at == [k \in DOMAIN <<>> |-> 0]
<1>1. lines = {} /\ DOMAIN <<>> = {}
  OBVIOUS
<1>2. at \in [DOMAIN <<>> -> lines]
  BY <1>1
<1>3. /\ \A j, k \in DOMAIN <<>> : j < k => at[j] < at[k]
      /\ \A line \in lines : \E k \in DOMAIN <<>> : at[k] = line
      /\ \A k \in DOMAIN <<>> : AsRead(<<>>[k]) = ChipOf(items[at[k]].line)
  BY <1>1
<1> HIDE DEF at
<1> QED
  BY <1>2, <1>3 DEF ReadUpTo

(* An item that is no line of a chip adds none. *)
LEMMA OtherItemIsRead ==
  ASSUME NEW cs, NEW items, NEW n \in Nat, ReadUpTo(cs, items, n),
         ~(items[n + 1].kind = "line" /\ IsChipLine(items[n + 1].line))
  PROVE  ReadUpTo(cs, items, n + 1)
<1>1. {k \in 1..(n + 1) : items[k].kind = "line" /\ IsChipLine(items[k].line)}
        = {k \in 1..n : items[k].kind = "line" /\ IsChipLine(items[k].line)}
  OBVIOUS
<1> QED
  BY <1>1 DEF ReadUpTo

LEMMA ChipLineIsRead ==
  ASSUME NEW cs \in Seq(Chip), NEW items, NEW n \in Nat, ReadUpTo(cs, items, n),
         items[n + 1].kind = "line", IsChipLine(items[n + 1].line), ChipOf(items[n + 1].line) \in Chip
  PROVE  ReadUpTo(Append(cs, ChipOf(items[n + 1].line)), items, n + 1)
<1> DEFINE lines == {k \in 1..n : items[k].kind = "line" /\ IsChipLine(items[k].line)}
           more == {k \in 1..(n + 1) : items[k].kind = "line" /\ IsChipLine(items[k].line)}
           chip == ChipOf(items[n + 1].line)
           longer == Append(cs, chip)
<1>1. more = lines \cup {n + 1} /\ \A k \in lines : k \in 1..n
  OBVIOUS
<1>2. PICK at \in [DOMAIN cs -> lines] :
        /\ \A j, k \in DOMAIN cs : j < k => at[j] < at[k]
        /\ \A line \in lines : \E k \in DOMAIN cs : at[k] = line
        /\ \A k \in DOMAIN cs : AsRead(cs[k]) = ChipOf(items[at[k]].line)
  BY DEF ReadUpTo
<1> DEFINE to == [k \in DOMAIN longer |-> IF k \in DOMAIN cs THEN at[k] ELSE n + 1]
<1>3. AsRead(chip) = chip
  <2>1. chip.matched = FALSE /\ chip.available = FALSE /\ chip \in Chip
    BY DEF ChipOf
  <2> HIDE DEF chip
  <2>2. chip = [prefix |-> chip.prefix, addr |-> chip.addr, path |-> chip.path, bus |-> chip.bus,
                matched |-> FALSE, available |-> FALSE]
    BY <2>1 DEF Chip
  <2> QED
    BY <2>1, <2>2, AsReadIs
<1> HIDE DEF lines, more, chip
<1>4. /\ DOMAIN cs = 1..Len(cs) /\ Len(cs) \in Nat /\ DOMAIN longer = 1..(Len(cs) + 1)
      /\ \A k \in DOMAIN cs : longer[k] = cs[k]
      /\ longer[Len(cs) + 1] = chip
  BY DEF chip
<1> HIDE DEF longer
<1>5. \A k \in DOMAIN longer : k \in DOMAIN cs \/ k = Len(cs) + 1
  BY <1>4
<1>6. to \in [DOMAIN longer -> more] /\ to[Len(cs) + 1] = n + 1 /\ \A k \in DOMAIN cs : to[k] = at[k]
  BY <1>1, <1>2, <1>4, <1>5
<1> HIDE DEF to
<1>7. \A j, k \in DOMAIN longer : j < k => to[j] < to[k]
  <2> SUFFICES ASSUME NEW j \in DOMAIN longer, NEW k \in DOMAIN longer, j < k
               PROVE  to[j] < to[k]
    OBVIOUS
  <2>1. j \in DOMAIN cs /\ at[j] \in lines
    BY <1>2, <1>4
  <2>2. CASE k \in DOMAIN cs
    BY <1>2, <1>6, <2>1, <2>2
  <2>3. CASE k = Len(cs) + 1
    BY <1>1, <1>6, <2>1, <2>3
  <2> QED
    BY <1>5, <2>2, <2>3
<1>8. \A line \in more : \E k \in DOMAIN longer : to[k] = line
  BY <1>1, <1>2, <1>4, <1>6
<1>9. \A k \in DOMAIN longer : AsRead(longer[k]) = ChipOf(items[to[k]].line)
  <2> SUFFICES ASSUME NEW k \in DOMAIN longer PROVE AsRead(longer[k]) = ChipOf(items[to[k]].line)
    OBVIOUS
  <2>1. CASE k \in DOMAIN cs
    BY <1>2, <1>4, <1>6, <2>1
  <2>2. CASE k = Len(cs) + 1
    BY <1>3, <1>4, <1>6, <2>2 DEF chip
  <2> QED
    BY <1>5, <2>1, <2>2
<1> QED
  BY <1>6, <1>7, <1>8, <1>9 DEF ReadUpTo, more, longer, chip

(* A step that reads nothing, and leaves the chips but for their marks *)
LEMMA SourceStays ==
  ASSUME NEW S, SourceIn(S), SameChips(chips', chips), loaded' = loaded,
         library' = "UNINITIALIZED" => library = "UNINITIALIZED" /\ chips' = chips,
         (call' # NoCall /\ call'.step = "load") =>
           call # NoCall /\ call.step = "load" /\ call'.input = call.input
  PROVE  SourceIn(S)'
<1>1. \A items, n : ReadUpTo(chips, items, n) => ReadUpTo(chips', items, n)
  BY SameChipsRead
<1>2. loaded' => \E items \in S : ReadFrom(chips', items)
  BY <1>1 DEF SourceIn, ReadFrom
<1>3. (call' # NoCall /\ call'.step = "load") =>
        ~loaded' /\ \E items \in S : \E n \in 0..Len(items) :
                      IsRest(call'.input, items, n) /\ ReadUpTo(chips', items, n)
  BY <1>1 DEF SourceIn, Reads
<1> QED
  BY <1>2, <1>3 DEF SourceIn, Reads

LEMMA SameStays ==
  ASSUME ChipsInv, NEW S, SourceIn(S), chips' = chips, loaded' = loaded,
         library' = "UNINITIALIZED" => library = "UNINITIALIZED",
         (call' # NoCall /\ call'.step = "load") =>
           call # NoCall /\ call.step = "load" /\ call'.input = call.input
  PROVE  SourceIn(S)'
<1>1. SameChips(chips', chips)
  BY DEF SameChips, ChipsInv, TypeOK
<1> QED
  BY <1>1, SourceStays

LEMMA CrashKeepsSource ==
  ASSUME ChipsInv, NEW S, SourceIn(S), Crash
  PROVE  SourceIn(S)'
<1>1. chips' = chips /\ loaded' = loaded /\ library' = "CRASHED" /\ call' = call
  BY DEF Crash, configVars
<1> QED
  BY <1>1, SameStays

LEMMA CleanupKeepsSource ==
  ASSUME ChipsInv, NEW S, SourceIn(S), NEW crashes, Cleanup(crashes)
  PROVE  SourceIn(S)'
<1>1. CASE Crash
  BY <1>1, CrashKeepsSource
<1>2. CASE chips' = <<>> /\ loaded' = FALSE /\ call' = NoCall
  BY <1>2 DEF SourceIn
<1> QED
  BY <1>1, <1>2 DEF Cleanup

(* A call that reads goes on with what is behind the item it has read. *)
LEMMA LoadKeepsSource ==
  ASSUME ChipsInv, library # "CRASHED", NEW S, \A items \in S : items \in Seq(Item), SourceIn(S),
         LoadName \/ LoadLine
  PROVE  SourceIn(S)'
<1>1. /\ call \in Call /\ call # NoCall /\ call.step = "load" /\ library = "BUSY"
      /\ call.input \in Seq(Item) /\ call.input # <<>> /\ chips \in Seq(Chip)
  BY NoCallIsNone DEF LoadName, LoadLine, At, InStep, ChipsInv, TypeOK, Position
<1>2. CASE Crash
  BY <1>2, CrashKeepsSource
<1> PICK items \in S : ~loaded /\ \E n \in 0..Len(items) : Reads(items, n)
  BY <1>1 DEF SourceIn
<1>3. PICK n \in 0..Len(items) : ~loaded /\ Reads(items, n)
  OBVIOUS
<1>4. /\ items \in Seq(Item) /\ Len(items) \in Nat /\ n \in Nat /\ n + 1 \in 1..Len(items)
      /\ Head(call.input) = items[n + 1] /\ items[n + 1] \in Item
      /\ IsRest(Tail(call.input), items, n + 1)
  <2>1. items \in Seq(Item) /\ Len(items) \in Nat /\ n \in Nat
    OBVIOUS
  <2>2. Len(call.input) = Len(items) - n /\ \A j \in 1..Len(call.input) : call.input[j] = items[n + j]
    BY <1>3 DEF Reads, IsRest
  <2> DEFINE input == call.input
  <2>3. input \in Seq(Item) /\ input # <<>>
    BY <1>1
  <2> HIDE DEF input
  <2>4. /\ Head(input) = input[1] /\ Len(Tail(input)) = Len(input) - 1 /\ Len(input) \in Nat \ {0}
        /\ \A j \in 1..(Len(input) - 1) : Tail(input)[j] = input[j + 1]
    BY <2>3
  <2>5. n + 1 \in 1..Len(items) /\ Head(input) = items[n + 1]
    BY <2>1, <2>2, <2>4 DEF input
  <2>6. items[n + 1] \in Item
    BY <2>1, <2>5
  <2>7. Len(Tail(input)) = Len(items) - (n + 1)
    BY <2>1, <2>2, <2>4 DEF input
  <2>8. \A j \in 1..Len(Tail(input)) : Tail(input)[j] = items[(n + 1) + j]
    <3> SUFFICES ASSUME NEW j \in 1..Len(Tail(input)) PROVE Tail(input)[j] = items[(n + 1) + j]
      OBVIOUS
    <3>1. j \in 1..(Len(input) - 1) /\ j + 1 \in 1..Len(input) /\ n + (j + 1) = (n + 1) + j
      BY <2>1, <2>4
    <3> QED
      BY <2>2, <2>4, <3>1 DEF input
  <2> QED
    BY <2>1, <2>5, <2>6, <2>7, <2>8 DEF input, IsRest
<1>5. ASSUME call' = [call EXCEPT !.input = Tail(@)], loaded' = loaded, library' = library,
             ReadUpTo(chips', items, n + 1)
      PROVE  SourceIn(S)'
  <2>1. call'.input = Tail(call.input)
    BY <1>1, <1>5 DEF Call
  <2>2. n + 1 \in 0..Len(items) /\ IsRest(call'.input, items, n + 1) /\ ReadUpTo(chips', items, n + 1)
    BY <1>4, <1>5, <2>1
  <2>3. ~loaded' /\ library' # "UNINITIALIZED"
    BY <1>1, <1>3, <1>5
  <2> QED
    BY <2>2, <2>3 DEF SourceIn, Reads
<1>6. CASE LoadName /\ ~Crash
  <2>1. /\ call' = [call EXCEPT !.input = Tail(@)] /\ Head(call.input).kind = "file"
        /\ UNCHANGED <<library, loaded, chips>>
    BY <1>6 DEF LoadName
  <2>2. ReadUpTo(chips, items, n + 1)
    BY <1>3, <1>4, <2>1, OtherItemIsRead DEF Reads
  <2> QED
    BY <1>5, <2>1, <2>2
<1>7. CASE LoadLine
  <2>1. /\ call' = [call EXCEPT !.input = Tail(@)] /\ Head(call.input).kind = "line"
        /\ chips' = ParseLine(chips, Head(call.input).line) /\ UNCHANGED <<library, loaded>>
    BY <1>7 DEF LoadLine
  <2> DEFINE line == items[n + 1].line
  <2>2. chips' = ParseLine(chips, line) /\ items[n + 1].kind = "line" /\ line \in Line
    BY <1>4, <2>1 DEF Item
  <2>3. ReadUpTo(chips', items, n + 1)
    <3>1. CASE IsChipLine(line)
      <4>1. ChipOf(line) \in Chip
        BY <2>2, ChipOfTypes
      <4>2. chips' = Append(chips, ChipOf(line))
        BY <2>2, <3>1 DEF ParseLine
      <4> QED
        BY <1>1, <1>3, <1>4, <2>2, <3>1, <4>1, <4>2, ChipLineIsRead DEF Reads
    <3>2. CASE ~IsChipLine(line)
      <4>1. chips' = chips
        BY <2>2, <3>2 DEF ParseLine
      <4> QED
        BY <1>3, <1>4, <3>2, <4>1, OtherItemIsRead DEF Reads
    <3> QED
      BY <3>1, <3>2
  <2> QED
    BY <1>5, <2>1, <2>3
<1> QED
  BY <1>2, <1>6, <1>7

LEMMA BeginKeepsSource ==
  ASSUME ChipsInv, NEW S, SourceIn(S),
         \/ \E op \in {"initialize", "remove"} : BeginLoop(op)
         \/ \E b \in Bus : RemoveAdapterChip(b)
  PROVE  SourceIn(S)'
<1>1. chips \in Seq(Chip)
  BY DEF ChipsInv, TypeOK
<1>2. CASE Crash
  BY <1>2, CrashKeepsSource
<1>3. CASE \E op \in {"initialize", "remove"} : BeginLoop(op) /\ ~Crash
  <2>1. PICK op \in {"initialize", "remove"} : BeginLoop(op) /\ ~Crash
    BY <1>3
  <2>2. chips' = MatchAll(chips, adapters, clients) /\ loaded' = loaded /\ library' = "READY"
    BY <2>1 DEF BeginLoop
  <2>3. call'.step = "next"
    BY <2>1 DEF BeginLoop, Begin
  <2>4. SameChips(chips', chips)
    BY <1>1, <2>2, MatchAllIsSame
  <2> QED
    BY <2>2, <2>3, <2>4, SourceStays
<1>4. CASE \E b \in Bus : RemoveAdapterChip(b)
  <2>1. Standstill \/ OpensOne
    BY <1>4, RemoveAdapterChipOpens
  <2>2. loaded' = loaded /\ library' \in {"READY", "CRASHED"}
    BY <1>4 DEF RemoveAdapterChip, Crash, configVars
  <2>3. CASE Standstill
    BY <2>2, <2>3, SameStays DEF Standstill
  <2>4. CASE OpensOne
    <3>1. PICK k \in DOMAIN chips : /\ chips' = [chips EXCEPT ![k].matched = TRUE]
                                    /\ call'.step = "stat"
      BY <2>4 DEF OpensOne, Opened
    <3> DEFINE c == [chips[k] EXCEPT !.matched = TRUE]
    <3>2. chips[k] \in Chip
      BY <1>1, <3>1
    <3>3. /\ c \in Chip /\ c.prefix = chips[k].prefix /\ c.addr = chips[k].addr
          /\ c.path = chips[k].path /\ c.bus = chips[k].bus
      BY <3>2 DEF Chip
    <3>4. chips' = [chips EXCEPT ![k] = c]
      BY <3>1
    <3> HIDE DEF c
    <3>5. chips' \in Seq(Chip) /\ DOMAIN chips' = DOMAIN chips /\ chips'[k] = c
          /\ \A j \in DOMAIN chips : j # k => chips'[j] = chips[j]
      BY <1>1, <3>3, <3>4
    <3>6. SameChips(chips', chips)
      BY <1>1, <3>3, <3>5 DEF SameChips
    <3> QED
      BY <2>2, <3>1, <3>6, SourceStays
  <2> QED
    BY <2>1, <2>3, <2>4
<1> QED
  BY <1>2, <1>3, <1>4

LEMMA ScanKeepsSource ==
  ASSUME ChipsInv, NEW S, SourceIn(S), ScanSucceeds
  PROVE  SourceIn(S)'
<1>1. chips \in Seq(Chip)
  BY DEF ChipsInv, TypeOK
<1>2. CASE Crash
  BY <1>2, CrashKeepsSource
<1>3. CASE ~Crash
  <2>1. PICK ds \in Read(call) :
          /\ chips' = IF call.op = "rescan" THEN chips ELSE MatchAll(chips, call.seen, ds)
          /\ library' = "READY" /\ loaded' = loaded
          /\ call' = IF call.op \in {"init", "rescan"} THEN NoCall ELSE [call EXCEPT !.step = "next"]
    BY <1>3 DEF ScanSucceeds
  <2>2. SameChips(chips', chips)
    <3>1. SameChips(MatchAll(chips, call.seen, ds), chips)
      BY <1>1, MatchAllIsSame
    <3>2. SameChips(chips, chips)
      BY <1>1 DEF SameChips
    <3> QED
      BY <2>1, <3>1, <3>2, Zenon
  <2>3. call' = NoCall \/ call'.step = "next"
    <3>1. call \in Call
      BY DEF ScanSucceeds, InStep, ChipsInv, TypeOK
    <3> QED
      BY <2>1, <3>1 DEF Call
  <2> QED
    BY <2>1, <2>2, <2>3, SourceStays
<1> QED
  BY <1>2, <1>3

(* Whoever starts a call that reads, reads one of S: then so do the chips.  *)
LEMMA NextKeepsSource ==
  ASSUME ChipsInv, NEW S, \A items \in S : items \in Seq(Item), SourceIn(S), [Next]_vars,
         (library = "UNINITIALIZED" /\ call' # NoCall) => call'.input \in S
  PROVE  SourceIn(S)'
<1>1. CASE UNCHANGED vars
  BY <1>1, SameStays DEF vars, configVars
<1>2. CASE library # "CRASHED" /\ KernelStep
  <2>1. chips' = chips /\ loaded' = loaded /\ library' = library
    BY <1>2 DEF KernelStep, configVars
  <2>2. call' # NoCall => call # NoCall /\ call'.step = call.step /\ call'.input = call.input
    <3>1. CASE call = NoCall
      BY <1>2, <3>1 DEF KernelStep, Disturbed
    <3>2. CASE call # NoCall
      <4>1. call \in Call /\ call' = [call EXCEPT !.by = @ \cup {"kernel"}]
        BY <1>2, <3>2 DEF KernelStep, Disturbed, ChipsInv, TypeOK
      <4> QED
        BY <3>2, <4>1 DEF Call
    <3> QED
      BY <3>1, <3>2
  <2> QED
    BY <2>1, <2>2, SameStays
<1>3. ASSUME NEW items, I2cdevInit(items)
      PROVE  SourceIn(S)'
  <2>1. /\ library = "UNINITIALIZED" /\ library' = "BUSY" /\ loaded' = loaded /\ chips' = chips
        /\ call' = Begin("init", "load", IF loaded THEN <<>> ELSE items, {})
    BY <1>3 DEF I2cdevInit, configVars
  <2>2. ~loaded /\ chips = <<>>
    BY <2>1 DEF SourceIn
  <2>3. call'.op = "init" /\ call'.input = items
    BY <2>1, <2>2 DEF Begin
  <2>4. items \in S
    BY <2>1, <2>3 DEF NoCall
  <2>5. 0 \in 0..Len(items) /\ IsRest(items, items, 0) /\ ReadUpTo(<<>>, items, 0)
    <3>1. items \in Seq(Item)
      BY <2>4
    <3> QED
      BY <3>1, NothingIsRead DEF IsRest
  <2>6. IsRest(call'.input, items, 0) /\ ReadUpTo(chips', items, 0)
    BY <2>1, <2>2, <2>3, <2>5
  <2> QED
    BY <2>1, <2>2, <2>4, <2>5, <2>6 DEF SourceIn, Reads
<1>4. CASE library # "CRASHED" /\ ApplicationCalls
  <2>1. CASE \E items \in CallerInputs \cup DefaultInputs : I2cdevInit(items)
    BY <1>3, <2>1
  <2>2. CASE I2cdevRescan
    <3>1. CASE RescanTable
      <4>1. library' = "BUSY" /\ chips' = chips /\ loaded' = loaded /\ call'.step = "scan"
        BY <3>1 DEF RescanTable, Lists, Begin, configVars
      <4> QED
        BY <4>1, SameStays
    <3> QED
      BY <1>3, <2>2, <3>1 DEF I2cdevRescan
  <2>3. CASE I2cdevCleanup
    BY <2>3, CleanupKeepsSource DEF I2cdevCleanup
  <2>4. CASE InitializeAll \/ RemoveAll
    BY <2>4, BeginKeepsSource DEF InitializeAll, RemoveAll
  <2>5. CASE \E b \in Bus : RemoveAdapterChip(b)
    BY <2>5, BeginKeepsSource
  <2> QED
    BY <1>4, <2>1, <2>2, <2>3, <2>4, <2>5 DEF ApplicationCalls
<1>5. CASE library # "CRASHED" /\ LibraryStep
  <2>1. CASE LoadName \/ LoadLine
    BY <1>5, <2>1, LoadKeepsSource
  <2>2. CASE LoadFails \/ ScanFails
    BY <2>2, CleanupKeepsSource DEF LoadFails, ScanFails
  <2>3. CASE Loaded
    <3>1. /\ call \in Call /\ call # NoCall /\ call.step = "load" /\ call.input = <<>>
          /\ library' = "BUSY" /\ chips' = chips
          /\ call' = [call EXCEPT !.step = "scan", !.seen = Present(roots, devices), !.met = devices]
      BY <2>3 DEF Loaded, At, InStep, Lists, ChipsInv, TypeOK
    <3>2. call'.step = "scan"
      BY <3>1 DEF Call
    <3>3. PICK items \in S : \E n \in 0..Len(items) : Reads(items, n)
      BY <3>1 DEF SourceIn
    <3>4. PICK n \in 0..Len(items) : Reads(items, n)
      BY <3>3
    <3>5. n = Len(items)
      <4>1. items \in Seq(Item) /\ Len(call.input) = Len(items) - n
        BY <3>4 DEF Reads, IsRest
      <4>2. Len(call.input) = 0
        BY <3>1
      <4> QED
        BY <4>1, <4>2
    <3>6. ReadFrom(chips', items)
      BY <3>1, <3>4, <3>5 DEF Reads, ReadFrom
    <3> QED
      BY <3>1, <3>2, <3>6 DEF SourceIn
  <2>4. CASE NextChip \/ RescanInLoop
    <3>1. /\ call \in Call /\ chips' = chips /\ loaded' = loaded /\ library' \in {library, "BUSY"}
      BY <2>4 DEF NextChip, RescanInLoop, Lists, InStep, configVars, ChipsInv, TypeOK
    <3>2. call' = NoCall \/ call'.step \in {"stat", "scan"}
      BY <2>4, <3>1 DEF NextChip, RescanInLoop, Lists, Call
    <3> QED
      BY <3>1, <3>2, SameStays
  <2>5. CASE StatNew \/ StatRemove \/ WriteNew \/ WriteRemove
    <3>1. CASE Crash
      BY <3>1, CrashKeepsSource
    <3>2. CASE ~Crash
      <4>1. /\ call \in Call /\ chips' = chips /\ loaded' = loaded /\ library' = library
        BY <2>5, <3>2
        DEF StatNew, StatRemove, WriteNew, WriteRemove, Removes, At, InStep, LoopGoesTo,
            LoopStepFails, configVars, ChipsInv, TypeOK
      <4>2. Standstill \/ Looks \/ Creates \/ Deletes \/ Refused
        BY <1>5, <2>5, StatLooks, WriteNewCreates, WriteRemoveDeletes
      <4>3. call'.step # "load" \/ call' = call
        BY <4>2 DEF Standstill, Looks, Creates, Deletes, Refused, SteppedAt, Stepped
      <4> QED
        BY <4>1, <4>3, SameStays
    <3> QED
      BY <3>1, <3>2
  <2>6. CASE ScanSucceeds
    BY <2>6, ScanKeepsSource
  <2> QED
    BY <1>5, <2>1, <2>2, <2>3, <2>4, <2>5, <2>6 DEF LibraryStep
<1> QED
  BY <1>1, <1>2, <1>4, <1>5 DEF Next

(* The list that is in use comes from one source, read once: from what one  *)
(* caller passed to i2cdev_init, or from the default files as they were, in *)
(* the order of their lines, however initialisations, failed rescans and    *)
(* cleanups follow each other.                                              *)
THEOREM OneSource == Spec => []ChipsOfOneSource
<1> DEFINE S == CallerInputs \cup DefaultInputs
<1>1. \A items \in S : items \in Seq(Item)
  BY KernelAssumption
<1>2. Init => SourceIn(S)
  BY DEF Init, SourceIn
<1>3. ChipsInv /\ SourceIn(S) /\ [Next]_vars => SourceIn(S)'
  <2> SUFFICES ASSUME ChipsInv, SourceIn(S), [Next]_vars PROVE SourceIn(S)'
    OBVIOUS
  <2>1. (library = "UNINITIALIZED" /\ call' # NoCall) => call'.input \in S
    <3> SUFFICES ASSUME library = "UNINITIALIZED", call' # NoCall PROVE call'.input \in S
      OBVIOUS
    <3>1. call = NoCall /\ ~loaded
      BY DEF ChipsInv, TypeOK, Position, Call, SourceIn
    <3>2. PICK items \in S : I2cdevInit(items)
      BY <3>1
      DEF Next, KernelStep, Disturbed, ApplicationCalls, LibraryStep, I2cdevRescan, RescanTable,
          I2cdevCleanup, InitializeAll, RemoveAll, BeginLoop, RemoveAdapterChip, LoadName, LoadLine,
          LoadFails, Loaded, NextChip, StatNew, WriteNew, StatRemove, Removes, WriteRemove,
          RescanInLoop, ScanSucceeds, ScanFails, At, InStep, vars
    <3>3. call'.input = items
      BY <3>1, <3>2 DEF I2cdevInit, Begin
    <3> QED
      BY <3>2, <3>3
  <2> QED
    BY <1>1, <2>1, NextKeepsSource
<1>4. ChipsInv /\ SourceIn(S) => ChipsOfOneSource
  BY DEF SourceIn, ChipsOfOneSource, ChipsInv, TypeOK
<1> QED
  BY <1>2, <1>3, <1>4, ChipsInvHolds, PTL DEF Spec
-----------------------------------------------------------------------------
(* A call comes to its end: each of its steps leaves less to do             *)

LEMMA LessIsLess ==
  ASSUME NEW a \in Nat, NEW b \in Nat, NEW c \in Nat, NEW d \in Nat,
         NEW e \in Nat, NEW f \in Nat, NEW g \in Nat, NEW h \in Nat,
         \/ a < e
         \/ a = e /\ b < f
         \/ a = e /\ b = f /\ c < g
         \/ a = e /\ b = f /\ c = g /\ d < h
  PROVE  LexLess(<<a, b, c, d>>, <<e, f, g, h>>)
<1> DEFINE s == <<a, b, c, d>>
           t == <<e, f, g, h>>
<1>1. /\ s \in [1..4 -> Nat] /\ s[1] = a /\ s[2] = b /\ s[3] = c /\ s[4] = d
      /\ t \in [1..4 -> Nat] /\ t[1] = e /\ t[2] = f /\ t[3] = g /\ t[4] = h
  OBVIOUS
<1> HIDE DEF s, t
<1>2. \A j \in 1..4 : j = 1 \/ j = 2 \/ j = 3 \/ j = 4
  OBVIOUS
<1>3. \E i \in 1..4 : s[i] < t[i] /\ \A j \in 1..4 : j < i => s[j] = t[j]
  <2>1. CASE a < e
    <3>1. 1 \in 1..4 /\ s[1] < t[1] /\ \A j \in 1..4 : j < 1 => s[j] = t[j]
      BY <1>1, <1>2, <2>1
    <3> QED
      BY <3>1
  <2>2. CASE a = e /\ b < f
    <3>1. 2 \in 1..4 /\ s[2] < t[2] /\ \A j \in 1..4 : j < 2 => s[j] = t[j]
      BY <1>1, <1>2, <2>2
    <3> QED
      BY <3>1
  <2>3. CASE a = e /\ b = f /\ c < g
    <3>1. 3 \in 1..4 /\ s[3] < t[3] /\ \A j \in 1..4 : j < 3 => s[j] = t[j]
      BY <1>1, <1>2, <2>3
    <3> QED
      BY <3>1
  <2>4. CASE a = e /\ b = f /\ c = g /\ d < h
    <3>1. 4 \in 1..4 /\ s[4] < t[4] /\ \A j \in 1..4 : j < 4 => s[j] = t[j]
      BY <1>1, <1>2, <2>4
    <3> QED
      BY <3>1
  <2> QED
    BY <2>1, <2>2, <2>3, <2>4
<1>4. DOMAIN t = 1..4
  BY <1>1
<1> QED
  BY <1>1, <1>3, <1>4 DEF LexLess, s, t

(* How many steps at most the loop has at its chip.                         *)
Left(s) ==
  CASE s = "load" -> 5 [] s = "stat" -> 4 [] s = "write" -> 3
    [] s = "rescan" -> 2 [] s = "scan" -> 1 [] s = "next" -> 0

LEMMA ChipsAreFinite ==
  ASSUME NEW S, NEW cs \in Seq(S), NEW i
  PROVE  /\ IsFiniteSet({k \in DOMAIN cs : k > i})
         /\ Cardinality({k \in DOMAIN cs : k > i}) \in Nat
<1>1. DOMAIN cs = 1..Len(cs) /\ Len(cs) \in Nat
  OBVIOUS
<1>2. IsFiniteSet(1..Len(cs))
  BY <1>1, FS_Interval
<1>3. IsFiniteSet({k \in DOMAIN cs : k > i})
  BY <1>1, <1>2, FS_Subset
<1> QED
  BY <1>3, FS_CardinalityType

(* A call goes on with less of its input, fewer chips to come to, or fewer  *)
(* steps at its chip.                                                       *)
Lessens ==
  \/ Len(call'.input) < Len(call.input)
  \/ /\ call'.input = call.input /\ DOMAIN chips' = DOMAIN chips
     /\ \/ call'.i > call.i /\ call'.i \in DOMAIN chips
        \/ call'.i = call.i /\ Left(call'.step) < Left(call.step)

LEMMA LessenedRank ==
  ASSUME TypeOK, TypeOK', call # NoCall, call' # NoCall, Lessens
  PROVE  LexLess(CallRank', CallRank)
<1>1. /\ call \in Call /\ call' \in Call /\ chips \in Seq(Chip) /\ chips' \in Seq(Chip)
  BY DEF TypeOK
<1>2. /\ Len(call.input) \in Nat /\ Len(call'.input) \in Nat
      /\ call.i \in Nat /\ call'.i \in Nat
      /\ Left(call.step) \in Nat /\ Left(call'.step) \in Nat
  BY <1>1 DEF Call, Left
<1>3. /\ IsFiniteSet({k \in DOMAIN chips : k > call.i})
      /\ Cardinality({k \in DOMAIN chips : k > call.i}) \in Nat
      /\ Cardinality({k \in DOMAIN chips' : k > call'.i}) \in Nat
  BY <1>1, ChipsAreFinite
<1>4. /\ CallRank = <<1, Len(call.input), Cardinality({k \in DOMAIN chips : k > call.i}), Left(call.step)>>
      /\ CallRank' = <<1, Len(call'.input), Cardinality({k \in DOMAIN chips' : k > call'.i}), Left(call'.step)>>
  BY DEF CallRank, StepsToCome, Left
<1>5. CASE Len(call'.input) < Len(call.input)
  BY <1>2, <1>3, <1>4, <1>5, LessIsLess
<1>6. CASE DOMAIN chips' = DOMAIN chips /\ call'.input = call.input /\ call'.i > call.i /\ call'.i \in DOMAIN chips
  <2> DEFINE S == {k \in DOMAIN chips' : k > call'.i}
             T == {k \in DOMAIN chips : k > call.i}
  <2>1. S \subseteq T /\ call'.i \in T /\ call'.i \notin S
    <3>1. DOMAIN chips \subseteq Nat
      BY <1>1
    <3> QED
      BY <1>2, <1>6, <3>1
  <2>2. Cardinality(S) < Cardinality(T)
    <3>1. IsFiniteSet(S) /\ Cardinality(S) <= Cardinality(T)
          /\ (Cardinality(S) = Cardinality(T) => S = T)
      BY <1>3, <2>1, FS_Subset
    <3> QED
      BY <1>3, <2>1, <3>1
  <2> QED
    BY <1>2, <1>3, <1>4, <1>6, <2>2, LessIsLess
<1>7. CASE /\ DOMAIN chips' = DOMAIN chips /\ call'.input = call.input /\ call'.i = call.i
           /\ Left(call'.step) < Left(call.step)
  BY <1>2, <1>3, <1>4, <1>7, LessIsLess
<1> QED
  BY <1>5, <1>6, <1>7 DEF Lessens

LEMMA StepForward ==
  ASSUME call \in Call, DOMAIN chips' = DOMAIN chips, NEW step, NEW by, NEW seen, NEW met,
         \/ call' = [call EXCEPT !.step = step]
         \/ call' = [call EXCEPT !.step = step, !.by = @ \cup by]
         \/ call' = [call EXCEPT !.step = step, !.seen = seen, !.met = met],
         Left(step) < Left(call.step)
  PROVE  Lessens
<1>1. call'.input = call.input /\ call'.i = call.i /\ call'.step = step
  BY DEF Call
<1> QED
  BY <1>1 DEF Lessens

LEMMA LibraryStepLessens ==
  ASSUME ChipsInv, LibraryStep, library' # "CRASHED"
  PROVE  call # NoCall /\ (call' = NoCall \/ Lessens)
<1>1. TypeOK /\ chips \in Seq(Chip)
  BY DEF ChipsInv, TypeOK
<1>2. call # NoCall /\ call \in Call /\ call.i \in Nat /\ call.input \in Seq(Item)
  <2>1. call # NoCall
    BY DEF LibraryStep, LoadName, LoadLine, LoadFails, Loaded, NextChip, StatNew, WriteNew,
           StatRemove, WriteRemove, Removes, RescanInLoop, ScanSucceeds, ScanFails, At, InStep
  <2> QED
    BY <1>1, <2>1, NoCallIsNone DEF TypeOK
<1>3. CASE LoadFails \/ ScanFails
  BY <1>2, <1>3 DEF LoadFails, ScanFails, Cleanup, Crash
<1>4. CASE LoadName \/ LoadLine
  <2>1. call.input # <<>> /\ call' = [call EXCEPT !.input = Tail(@)]
    BY <1>4 DEF LoadName, LoadLine, Crash
  <2>2. call'.input = Tail(call.input)
    BY <1>2, <2>1 DEF Call
  <2>3. Len(Tail(call.input)) < Len(call.input)
    <3>1. PICK s \in Seq(Item) : s = call.input
      BY <1>2
    <3>2. s # <<>> => Len(Tail(s)) = Len(s) - 1 /\ Len(s) \in Nat
      OBVIOUS
    <3> QED
      BY <2>1, <3>1, <3>2
  <2> QED
    BY <1>2, <2>2, <2>3 DEF Lessens
<1>5. CASE Loaded \/ RescanInLoop
  <2>1. /\ call.step \in {"load", "rescan"} /\ UNCHANGED chips
        /\ call' = [call EXCEPT !.step = "scan", !.seen = Present(roots, devices), !.met = devices]
    BY <1>5 DEF Loaded, RescanInLoop, At, InStep, Lists, configVars
  <2>2. Left("scan") < Left(call.step) /\ DOMAIN chips' = DOMAIN chips
    BY <2>1 DEF Left
  <2> QED
    BY <1>2, <2>1, <2>2, StepForward
<1>6. CASE NextChip /\ ~Ends
  <2> DEFINE ahead == Ahead(call.op, chips, call.i)
             k == First(ahead)
  <2>1. ahead # {} /\ ahead \subseteq Nat /\ ahead \subseteq DOMAIN chips /\ \A j \in ahead : j > call.i
    BY <1>1, <1>6 DEF Ends, Ahead
  <2>2. \E j \in ahead : \A l \in ahead : j <= l
    BY <2>1, NatHasLeast
  <2>3. k \in ahead
    BY <2>2 DEF First
  <2>4. call' = [call EXCEPT !.i = k, !.step = "stat"] /\ chips' = chips
    BY <1>6 DEF NextChip, configVars
  <2> HIDE DEF k
  <2>5. call'.input = call.input /\ call'.i = k
    BY <1>2, <2>4 DEF Call
  <2> QED
    BY <1>2, <2>1, <2>3, <2>4, <2>5 DEF Lessens
<1>7. CASE NextChip /\ Ends
  BY <1>2, <1>7 DEF NextChip
<1>8. ASSUME NEW by, LoopStepFails(by), call.step \in {"stat", "write"} PROVE Lessens
  <2>1. call' = [call EXCEPT !.step = "next", !.by = @ \cup by] /\ chips' = chips
    BY <1>8 DEF LoopStepFails, configVars
  <2>2. Left("next") < Left(call.step) /\ DOMAIN chips' = DOMAIN chips
    BY <1>8, <2>1 DEF Left
  <2> QED
    BY <1>2, <2>1, <2>2, StepForward
<1>9. ASSUME NEW step, call' = [call EXCEPT !.step = step], chips' = chips,
             \/ call.step = "stat" /\ step \in {"write", "rescan"}
             \/ call.step = "write" /\ step = "rescan"
      PROVE  Lessens
  <2>1. Left(step) < Left(call.step) /\ DOMAIN chips' = DOMAIN chips
    BY <1>9 DEF Left
  <2> QED
    BY <1>2, <1>9, <2>1, StepForward
<1>10. CASE StatNew \/ StatRemove
  <2>1. call.step = "stat"
    BY <1>10 DEF StatNew, StatRemove, Removes, At, InStep
  <2>2. \/ LoopGoesTo("rescan") \/ LoopGoesTo("write") \/ LoopStepFails({})
    BY <1>10 DEF StatNew, StatRemove, Crash
  <2>3. LoopGoesTo("rescan") => Lessens
    BY <1>9, <2>1 DEF LoopGoesTo, configVars
  <2>4. LoopGoesTo("write") => Lessens
    BY <1>9, <2>1 DEF LoopGoesTo, configVars
  <2> QED
    BY <1>2, <1>8, <2>1, <2>2, <2>3, <2>4
<1>11. CASE WriteNew \/ WriteRemove
  <2>1. call.step = "write"
    BY <1>11 DEF WriteNew, WriteRemove, Removes, At, InStep
  <2>2. (call' = [call EXCEPT !.step = "rescan"] /\ chips' = chips) \/ LoopStepFails({"refused"})
    BY <1>11 DEF WriteNew, WriteRemove, configVars
  <2> QED
    BY <1>2, <1>8, <1>9, <2>1, <2>2
<1>12. CASE ScanSucceeds
  <2>1. call.step = "scan"
    BY <1>12 DEF ScanSucceeds, InStep
  <2>2. /\ call' = IF call.op \in {"init", "rescan"} THEN NoCall ELSE [call EXCEPT !.step = "next"]
        /\ \E ds : chips' = IF call.op = "rescan" THEN chips ELSE MatchAll(chips, call.seen, ds)
    BY <1>12 DEF ScanSucceeds, Crash
  <2>3. DOMAIN chips' = DOMAIN chips
    BY <2>2 DEF MatchAll
  <2>4. Left("next") < Left(call.step)
    BY <2>1 DEF Left
  <2> QED
    BY <1>2, <2>2, <2>3, <2>4, StepForward
<1> QED
  BY <1>3, <1>4, <1>5, <1>6, <1>7, <1>10, <1>11, <1>12 DEF LibraryStep

LEMMA CallRankFalls ==
  ASSUME ChipsInv, TypeOK', LibraryStep, library' # "CRASHED"
  PROVE  LexLess(CallRank', CallRank)
<1>1. TypeOK
  BY DEF ChipsInv
<1>2. call # NoCall /\ (call' = NoCall \/ Lessens)
  BY LibraryStepLessens
<1>3. CASE call' = NoCall
  <2>1. CallRank' = <<0, 0, 0, 0>>
    BY <1>3 DEF CallRank
  <2>2. call \in Call /\ chips \in Seq(Chip)
    BY <1>1, <1>2 DEF TypeOK
  <2>3. CallRank = <<1, Len(call.input), Cardinality({k \in DOMAIN chips : k > call.i}), Left(call.step)>>
    BY <1>2 DEF CallRank, StepsToCome, Left
  <2>4. Len(call.input) \in Nat /\ Left(call.step) \in Nat
    BY <2>2 DEF Call, Left
  <2>5. Cardinality({k \in DOMAIN chips : k > call.i}) \in Nat
    BY <2>2, ChipsAreFinite
  <2> QED
    BY <2>1, <2>3, <2>4, <2>5, LessIsLess
<1> QED
  BY <1>1, <1>2, <1>3, LessenedRank

(* The loops of access.c over the configured chips, with a rescan and a     *)
(* matching of all chips after each step, and the reading of any number of  *)
(* configuration files: a call cannot go on for ever, for a chip that was   *)
(* passed is not come to again, whatever changes or fails meanwhile.        *)
THEOREM CallsLeaveLess == Spec => CallShrinks
<1>1. ChipsInv /\ ChipsInv' /\ [Next]_vars =>
        [LibraryStep => library' = "CRASHED" \/ LexLess(CallRank', CallRank)]_vars
  BY CallRankFalls DEF ChipsInv
<1> QED
  BY <1>1, ChipsInvHolds, PTL DEF Spec, CallShrinks
==============================================================================
