-------------------------- MODULE ConfigChipsProofs --------------------------
(***************************************************************************)
(* What the loops over the configured chips keep, for every board, every    *)
(* configuration and any number of changes by others.                       *)
(***************************************************************************)
EXTENDS ConfigChips, WellFoundedInduction, TLAPS

-----------------------------------------------------------------------------
(* The inductive invariant says what each step of a call needs of the       *)
(* library: a loop goes on only in a library that is READY, a scan starts   *)
(* from an empty table.                                                     *)
LoopOps == {"initialize", "remove", "removeAdapter"}

Position ==
  /\ call = NoCall => library \in {"UNINITIALIZED", "READY", "CRASHED"}
  /\ call # NoCall =>
       /\ call.step \in {"load", "scan"} => library \in {"BUSY", "CRASHED"}
       /\ call.step \in {"next", "stat", "write", "rescan"} =>
            library \in {"READY", "CRASHED"} /\ call.op \in LoopOps
       /\ call.step = "load" => call.op = "init"
       /\ call.step = "scan" => adapters = {} /\ loaded
       /\ call.op \in LoopOps =>
            call.i \in DOMAIN chips \cup (IF call.step = "next" THEN {0} ELSE {})

NamesKept == names = NoNames \/ names.count > 0

ChipsInv == TypeOK /\ Position /\ NamesKept /\ CrashHasCause

(* Why the process goes down, before it does. *)
Cause ==
  \/ names.count > 0
  \/ \E k \in DOMAIN chips : chips[k].path = "none"
  \/ chips # <<>> /\ NothingFound

LEMMA ChipsInvInit == ASSUME Init PROVE ChipsInv
<1>1. NoNames \in NameTable /\ <<>> \in Seq(Chip)
  BY DEF NoNames, NameTable
<1>2. TypeOK
  BY <1>1, KernelAssumption DEF Init, TypeOK, Roots
<1> QED
  BY <1>2 DEF ChipsInv, Init, Position, NamesKept, CrashHasCause

-----------------------------------------------------------------------------
(* What the operators return *)

LEMMA NoCallIsNone ==
  \A c \in Call : c # NoCall /\ c.op \in Ops /\ c.i \in Nat /\ c.input \in Seq(Item)
                  /\ c.seen \in SUBSET Bus /\ c.met \in SUBSET Device /\ c.by \in SUBSET Disturbance
<1>1. \A c \in Call : c.op \in Ops
  BY DEF Call
<1>2. NoCall.op \notin Ops
  BY DEF NoCall, Ops
<1> QED
  BY <1>1, <1>2 DEF Call

(* A set of numbers has a least one. *)
LEMMA NatHasLeast ==
  ASSUME NEW S \in SUBSET Nat, S # {}
  PROVE  \E j \in S : \A l \in S : j <= l
<1> DEFINE R == OpToRel(<, Nat)
<1>1. IsWellFoundedOn(R, Nat)
  BY NatLessThanWellFounded
<1>2. PICK j \in S : \A l \in S : ~(<<l, j>> \in R)
  BY <1>1, WFMin, Zenon
<1>3. \A l \in S : <<l, j>> \in R <=> l < j
  BY DEF OpToRel
<1>4. \A l \in S : ~(l < j)
  BY <1>2, <1>3
<1>5. \A l \in S : j <= l
  BY <1>4
<1> QED
  BY <1>5

LEMMA BeginTypes ==
  ASSUME NEW op \in Ops, NEW step \in {"load", "next", "stat", "write", "rescan", "scan"},
         NEW input \in Seq(Item), NEW by \in SUBSET Disturbance
  PROVE  /\ Begin(op, step, input, by) \in Call
         /\ Begin(op, step, input, by).op = op /\ Begin(op, step, input, by).step = step
         /\ Begin(op, step, input, by).i = 0
BY DEF Begin, Call

LEMMA PresentTypes ==
  ASSUME NEW rs \in SUBSET Roots, NEW ds \in SUBSET Device
  PROVE  Present(rs, ds) \in SUBSET Bus /\ Settled(rs, ds) \in SUBSET ds
BY DEF Present, Settled, Roots

LEMMA MatchOneTypes ==
  ASSUME NEW c \in Chip, NEW as, NEW ds
  PROVE  MatchOne(c, as, ds) \in Chip
BY DEF MatchOne, Chip

LEMMA MatchAllTypes ==
  ASSUME NEW cs \in Seq(Chip), NEW as, NEW ds
  PROVE  MatchAll(cs, as, ds) \in Seq(Chip) /\ DOMAIN MatchAll(cs, as, ds) = DOMAIN cs
<1>1. DOMAIN cs = 1..Len(cs) /\ Len(cs) \in Nat /\ \A k \in DOMAIN cs : cs[k] \in Chip
  OBVIOUS
<1>2. \A k \in DOMAIN cs : MatchOne(cs[k], as, ds) \in Chip
  BY <1>1, MatchOneTypes
<1>3. MatchAll(cs, as, ds) \in [1..Len(cs) -> Chip]
  BY <1>1, <1>2 DEF MatchAll
<1>4. \A n \in Nat : \A s \in [1..n -> Chip] : s \in Seq(Chip)
  OBVIOUS
<1>5. MatchAll(cs, as, ds) \in Seq(Chip)
  BY <1>1, <1>3, <1>4, Zenon
<1> QED
  BY <1>5 DEF MatchAll

LEMMA ChipOfTypes ==
  ASSUME NEW line \in Line
  PROVE  ChipOf(line) \in Chip
<1>1. /\ line.prefix \in Name /\ line.addr \in Addr \cup {NoAddr} /\ line.bus \in Bus
      /\ line.spelled \in {"canonical", "other", "junk"}
  BY DEF Line, Spelling
<1>2. ParseBusId(line).path \in {"canonical", "other", "none"} /\ ParseBusId(line).bus \in Bus
  BY <1>1, ConfigAssumption DEF ParseBusId
<1> DEFINE id == IF line.dashes = 3 THEN ParseBusId(line) ELSE [path |-> "none", bus |-> BusZero]
<1>3. id.path \in {"canonical", "other", "none"} /\ id.bus \in Bus
  BY <1>2, ConfigAssumption
<1> HIDE DEF id
<1>4. [prefix |-> line.prefix, addr |-> IF line.dashes = 3 THEN line.addr ELSE NoAddr,
       path |-> id.path, bus |-> id.bus, matched |-> FALSE, available |-> FALSE] \in Chip
  BY <1>1, <1>3 DEF Chip
<1> QED
  BY <1>4 DEF ChipOf, id

LEMMA ParseLineTypes ==
  ASSUME NEW cs \in Seq(Chip), NEW line \in Line
  PROVE  ParseLine(cs, line) \in Seq(Chip)
BY ChipOfTypes DEF ParseLine

(* The array of names is only ever NULL when there was a name before. *)
LEMMA RecordNameTypes ==
  ASSUME NEW t \in NameTable
  PROVE  /\ RecordName(t) \in NameTable /\ RecordName(t).count > 0
         /\ (t = NoNames => ~StoreCrashes(t))
         /\ (FreeCrashes(t) => t.count > 0)
<1>1. /\ t.count \in Nat /\ t.max \in Nat /\ t.buffer \in {"null", "block"}
  BY DEF NameTable
<1>2. Realloc(t.buffer, 2 * t.max) \in {"null", "block"}
  BY DEF Realloc
<1>3. RecordName(t) \in NameTable /\ RecordName(t).count > 0
  BY <1>1, <1>2 DEF RecordName, NameTable
<1>4. ~StoreCrashes(NoNames)
  BY DEF StoreCrashes, RecordName, Realloc, NoNames
<1> QED
  BY <1>3, <1>4 DEF FreeCrashes

-----------------------------------------------------------------------------
(* Steps that several actions have in common *)

LEMMA CrashKeepsInv ==
  ASSUME ChipsInv, Crash, Cause
  PROVE  ChipsInv'
<1>1. TypeOK'
  BY DEF ChipsInv, Crash, TypeOK, kernelVars, tableVars, configVars
<1>2. Position' /\ NamesKept'
  BY DEF ChipsInv, Crash, Position, NamesKept, kernelVars, tableVars, configVars
<1>3. CrashHasCause'
  BY DEF Crash, Cause, CrashHasCause, NothingFound, kernelVars, tableVars, configVars
<1> QED
  BY <1>1, <1>2, <1>3 DEF ChipsInv

LEMMA CleanupKeepsInv ==
  ASSUME ChipsInv, Cleanup(FreeCrashes(names)), ret' \in {"ok", "error"}
  PROVE  ChipsInv'
<1>1. CASE FreeCrashes(names)
  <2>1. Cause
    BY <1>1, RecordNameTypes DEF ChipsInv, TypeOK, Cause
  <2> QED
    BY <1>1, <2>1, CrashKeepsInv DEF Cleanup
<1>2. CASE ~FreeCrashes(names)
  <2>1. NoNames \in NameTable /\ <<>> \in Seq(Chip)
    BY DEF NoNames, NameTable
  <2>2. /\ library' = "UNINITIALIZED" /\ adapters' = {} /\ clients' = {} /\ chips' = <<>>
        /\ names' = NoNames /\ loaded' = FALSE /\ call' = NoCall
        /\ UNCHANGED <<roots, devices, changes>>
    BY <1>2 DEF Cleanup, kernelVars
  <2>3. TypeOK'
    BY <2>1, <2>2 DEF ChipsInv, TypeOK
  <2> QED
    BY <2>2, <2>3 DEF ChipsInv, Position, NamesKept, CrashHasCause
<1> QED
  BY <1>1, <1>2

(* A loop, or a call that loads, goes on with another of its steps. *)
LEMMA CallGoesOn ==
  ASSUME ChipsInv, library # "CRASHED", call \in Call,
         call' \in Call, call'.op = call.op,
         \/ call'.step = call.step
         \/ /\ call.step \in {"next", "stat", "write", "rescan"}
            /\ call'.step \in {"next", "stat", "write", "rescan"},
         call'.i = call.i \/ call'.i \in DOMAIN chips,
         call'.step # "next" => call'.i \in DOMAIN chips \/ call.op \notin LoopOps,
         roots' \subseteq Roots, devices' \subseteq Device, changes' \in Nat,
         UNCHANGED <<library, tableVars, configVars>>, ret' \in {"ok", "error"}
  PROVE  ChipsInv'
<1>1. TypeOK'
  BY DEF ChipsInv, TypeOK, tableVars, configVars
<1>2. call # NoCall /\ call' # NoCall
  BY NoCallIsNone
<1>3. Position'
  BY <1>2 DEF ChipsInv, Position, tableVars, configVars
<1> QED
  BY <1>1, <1>3 DEF ChipsInv, NamesKept, CrashHasCause, tableVars, configVars

-----------------------------------------------------------------------------
(* The actions *)

LEMMA KernelKeepsInv ==
  ASSUME ChipsInv, library # "CRASHED", KernelStep
  PROVE  ChipsInv'
<1>1. /\ changes' \in Nat /\ ret' \in {"ok", "error"}
      /\ UNCHANGED <<library, tableVars, configVars>>
  BY DEF KernelStep, ChipsInv, TypeOK
<1>2. roots' \subseteq Roots /\ devices' \subseteq Device
  <2>1. roots \subseteq Roots /\ devices \subseteq Device /\ Firmware \subseteq Device
    BY KernelAssumption DEF ChipsInv, TypeOK
  <2>2. \A rs \in SUBSET Roots, ds \in SUBSET Device : Settled(rs, ds) \subseteq Device
    BY PresentTypes
  <2> QED
    BY <2>1, <2>2 DEF KernelStep
<1>3. CASE call = NoCall
  <2>1. call' = NoCall
    BY <1>3 DEF KernelStep, Disturbed
  <2> QED
    BY <1>1, <1>2, <1>3, <2>1
    DEF ChipsInv, TypeOK, Position, NamesKept, CrashHasCause, tableVars, configVars
<1>4. CASE call # NoCall
  <2>1. call \in Call /\ "kernel" \in Disturbance
    BY <1>4 DEF ChipsInv, TypeOK, Disturbance
  <2>2. call' = [call EXCEPT !.by = @ \cup {"kernel"}]
    BY <1>4 DEF KernelStep, Disturbed
  <2>3. call' \in Call /\ call'.op = call.op /\ call'.step = call.step /\ call'.i = call.i
    BY <2>1, <2>2 DEF Call
  <2>4. call'.step # "next" => call'.i \in DOMAIN chips \/ call.op \notin LoopOps
    BY <1>4, <2>3 DEF ChipsInv, Position
  <2> QED
    BY <1>1, <1>2, <2>1, <2>3, <2>4, CallGoesOn
<1> QED
  BY <1>3, <1>4

LEMMA BeginLoopKeepsInv ==
  ASSUME ChipsInv, NEW op \in {"initialize", "remove"}, BeginLoop(op)
  PROVE  ChipsInv'
<1>1. CASE MatchCrashes(chips, adapters, clients)
  <2>1. Cause
    BY <1>1 DEF BeginLoop, MatchCrashes, NoPathHits, Cause, NothingFound
  <2> QED
    BY <1>1, <2>1, CrashKeepsInv DEF BeginLoop
<1>2. CASE ~MatchCrashes(chips, adapters, clients)
  <2> DEFINE by == (IF TableIsCurrent THEN {} ELSE {"table"}) \cup (IF Stale(chips') THEN {"stale"} ELSE {})
  <2>1. by \in SUBSET Disturbance /\ op \in Ops /\ <<>> \in Seq(Item)
    BY DEF Disturbance, Ops
  <2>2. /\ chips' = MatchAll(chips, adapters, clients) /\ call' = Begin(op, "next", <<>>, by) /\ ret' = "ok"
        /\ library = "READY" /\ library' = "READY"
        /\ UNCHANGED <<roots, devices, changes, adapters, clients, loaded, names>>
    BY <1>2 DEF BeginLoop, Returns, kernelVars, tableVars
  <2> HIDE DEF by
  <2>3. call' \in Call /\ call'.op = op /\ call'.step = "next" /\ call'.i = 0
    <3>1. Begin(op, "next", <<>>, by) \in Call
      BY <2>1, BeginTypes
    <3>2. Begin(op, "next", <<>>, by).op = op /\ Begin(op, "next", <<>>, by).step = "next"
          /\ Begin(op, "next", <<>>, by).i = 0
      BY DEF Begin
    <3> QED
      BY <2>2, <3>1, <3>2, Zenon
  <2>4. chips' \in Seq(Chip)
    BY <2>2, MatchAllTypes DEF ChipsInv, TypeOK
  <2>5. TypeOK'
    BY <2>2, <2>3, <2>4 DEF ChipsInv, TypeOK
  <2>6. Position'
    BY <2>2, <2>3 DEF Position, LoopOps
  <2> QED
    BY <2>2, <2>5, <2>6 DEF ChipsInv, NamesKept, CrashHasCause
<1> QED
  BY <1>1, <1>2

(* The chip a loop is at is one of the list. *)
LEMMA TheChipIsListed ==
  ASSUME ChipsInv, library # "CRASHED", call # NoCall, call.step \in {"stat", "write", "rescan"}
  PROVE  /\ call \in Call /\ call.op \in LoopOps /\ library = "READY"
         /\ call.i \in DOMAIN chips /\ TheChip \in Chip
BY DEF ChipsInv, TypeOK, Position, TheChip

LEMMA NextChipKeepsInv ==
  ASSUME ChipsInv, library # "CRASHED", NextChip
  PROVE  ChipsInv'
<1>1. /\ call \in Call /\ call # NoCall /\ call.step = "next" /\ library = "READY"
      /\ call.op \in LoopOps
  BY DEF NextChip, InStep, ChipsInv, TypeOK, Position
<1>2. /\ UNCHANGED <<kernelVars, library, tableVars, configVars, ret>>
      /\ UNCHANGED <<roots, devices, changes, adapters, clients, loaded, chips, names>>
  BY DEF NextChip, kernelVars, tableVars, configVars
<1>3. CASE Ends
  <2>1. call' = NoCall
    BY <1>3 DEF NextChip
  <2>2. TypeOK'
    BY <1>2, <2>1 DEF ChipsInv, TypeOK
  <2> QED
    BY <1>1, <1>2, <2>1, <2>2 DEF ChipsInv, Position, NamesKept, CrashHasCause
<1>4. CASE ~Ends
  <2> DEFINE k == First(Ahead(call.op, chips, call.i))
  <2>1. k \in DOMAIN chips
    <3>1. Ahead(call.op, chips, call.i) # {} /\ Ahead(call.op, chips, call.i) \subseteq Nat
      BY <1>4 DEF Ends, Ahead, ChipsInv, TypeOK
    <3>2. \E j \in Ahead(call.op, chips, call.i) : \A l \in Ahead(call.op, chips, call.i) : j <= l
      BY <3>1, NatHasLeast
    <3>3. k \in Ahead(call.op, chips, call.i)
      BY <3>2 DEF First
    <3> QED
      BY <3>3 DEF Ahead
  <2>2. k \in Nat
    BY <2>1 DEF ChipsInv, TypeOK
  <2>3. call' = [call EXCEPT !.i = k, !.step = "stat"]
    BY <1>4 DEF NextChip
  <2> HIDE DEF k
  <2>4. call' \in Call /\ call'.op = call.op /\ call'.step = "stat" /\ call'.i = k
    BY <1>1, <2>2, <2>3 DEF Call
  <2>5. roots' \subseteq Roots /\ devices' \subseteq Device /\ changes' \in Nat /\ ret' \in {"ok", "error"}
    BY <1>2 DEF ChipsInv, TypeOK
  <2> QED
    BY <1>1, <1>2, <2>1, <2>4, <2>5, CallGoesOn
<1> QED
  BY <1>3, <1>4

(* A loop that is at a chip, and has not crashed, goes to another step.     *)
LEMMA LoopGoesOn ==
  ASSUME ChipsInv, library # "CRASHED", call # NoCall, call.step \in {"stat", "write", "rescan"},
         NEW step \in {"next", "stat", "write", "rescan"}, NEW by \in SUBSET Disturbance,
         call' = [call EXCEPT !.step = step] \/ call' = [call EXCEPT !.step = step, !.by = @ \cup by],
         roots' \subseteq Roots, devices' \subseteq Device, changes' \in Nat,
         UNCHANGED <<library, tableVars, configVars>>, ret' \in {"ok", "error"}
  PROVE  ChipsInv'
<1>1. call \in Call /\ call.i \in DOMAIN chips
  BY TheChipIsListed
<1>2. call' \in Call /\ call'.op = call.op /\ call'.step = step /\ call'.i = call.i
  BY <1>1 DEF Call
<1>3. /\ call.step \in {"next", "stat", "write", "rescan"}
      /\ call'.step \in {"next", "stat", "write", "rescan"}
  BY <1>2
<1> QED
  BY <1>1, <1>2, <1>3, CallGoesOn

LEMMA LoopGoesToKeepsInv ==
  ASSUME ChipsInv, library # "CRASHED", call # NoCall, call.step \in {"stat", "write", "rescan"},
         NEW step \in {"next", "stat", "write", "rescan"}, LoopGoesTo(step)
  PROVE  ChipsInv'
<1>1. /\ roots' \subseteq Roots /\ devices' \subseteq Device /\ changes' \in Nat
      /\ ret' \in {"ok", "error"}
  BY DEF LoopGoesTo, kernelVars, ChipsInv, TypeOK
<1>2. UNCHANGED <<library, tableVars, configVars>> /\ call' = [call EXCEPT !.step = step]
  BY DEF LoopGoesTo
<1>3. {} \in SUBSET Disturbance
  OBVIOUS
<1> QED
  BY <1>1, <1>2, <1>3, LoopGoesOn

LEMMA LoopStepFailsKeepsInv ==
  ASSUME ChipsInv, library # "CRASHED", call # NoCall, call.step \in {"stat", "write", "rescan"},
         NEW by \in SUBSET Disturbance, LoopStepFails(by)
  PROVE  ChipsInv'
<1>1. /\ roots' \subseteq Roots /\ devices' \subseteq Device /\ changes' \in Nat
      /\ ret' \in {"ok", "error"}
  BY DEF LoopStepFails, Returns, kernelVars, ChipsInv, TypeOK
<1>2. /\ UNCHANGED <<library, tableVars, configVars>>
      /\ call' = [call EXCEPT !.step = "next", !.by = @ \cup by]
  BY DEF LoopStepFails
<1>3. "next" \in {"next", "stat", "write", "rescan"}
  OBVIOUS
<1> QED
  BY <1>1, <1>2, <1>3, LoopGoesOn

LEMMA StatNewKeepsInv ==
  ASSUME ChipsInv, library # "CRASHED", StatNew
  PROVE  ChipsInv'
<1>1. call # NoCall /\ call.step \in {"stat", "write", "rescan"}
  BY DEF StatNew, At, InStep
<1>2. CASE TheChip.path = "none" /\ Crash
  <2>1. Cause
    BY <1>1, <1>2, TheChipIsListed DEF Cause, TheChip
  <2> QED
    BY <1>2, <2>1, CrashKeepsInv
<1>3. CASE LoopGoesTo("rescan") \/ LoopGoesTo("write")
  BY <1>1, <1>3, LoopGoesToKeepsInv
<1> QED
  BY <1>2, <1>3 DEF StatNew

LEMMA WriteNewKeepsInv ==
  ASSUME ChipsInv, library # "CRASHED", WriteNew
  PROVE  ChipsInv'
<1>1. call # NoCall /\ call.step \in {"stat", "write", "rescan"}
  BY DEF WriteNew, At, InStep
<1>2. CASE LoopStepFails({"refused"})
  <2>1. {"refused"} \in SUBSET Disturbance
    BY DEF Disturbance
  <2> QED
    BY <1>1, <1>2, <2>1, LoopStepFailsKeepsInv
<1>3. CASE /\ KernelAccepts(NewDevice) /\ devices' = devices \cup {NewDevice}
           /\ call' = [call EXCEPT !.step = "rescan"]
           /\ UNCHANGED <<roots, changes, library, tableVars, configVars, ret>>
  <2>1. NewDevice \in Device
    <3>1. TheChip \in Chip
      BY <1>1, TheChipIsListed
    <3>2. NewDevice.addr = TheChip.addr
      BY DEF NewDevice
    <3>3. TheChip.addr \in Addr
      BY <1>3, <3>2 DEF KernelAccepts
    <3> QED
      BY <3>1, <3>3 DEF NewDevice, Device, Chip
  <2>2. /\ roots' \subseteq Roots /\ devices' \subseteq Device /\ changes' \in Nat
        /\ ret' \in {"ok", "error"}
    BY <1>3, <2>1 DEF ChipsInv, TypeOK
  <2>3. /\ {} \in SUBSET Disturbance /\ "rescan" \in {"next", "stat", "write", "rescan"}
        /\ UNCHANGED <<library, tableVars, configVars>>
    BY <1>3
  <2> QED
    BY <1>1, <1>3, <2>2, <2>3, LoopGoesOn
<1> QED
  BY <1>2, <1>3 DEF WriteNew

LEMMA StatRemoveKeepsInv ==
  ASSUME ChipsInv, library # "CRASHED", StatRemove
  PROVE  ChipsInv'
<1>1. call # NoCall /\ call.step \in {"stat", "write", "rescan"}
  BY DEF StatRemove, Removes, At, InStep
<1>2. CASE LoopGoesTo("write")
  BY <1>1, <1>2, LoopGoesToKeepsInv
<1>3. CASE LoopStepFails({})
  BY <1>1, <1>3, LoopStepFailsKeepsInv
<1> QED
  BY <1>2, <1>3 DEF StatRemove

LEMMA WriteRemoveKeepsInv ==
  ASSUME ChipsInv, library # "CRASHED", WriteRemove
  PROVE  ChipsInv'
<1> DEFINE victims == Removable(TheChip.bus, TheChip.addr)
<1>1. call # NoCall /\ call.step \in {"stat", "write", "rescan"}
  BY DEF WriteRemove, Removes, At, InStep
<1>2. CASE LoopStepFails({"refused"})
  <2>1. {"refused"} \in SUBSET Disturbance
    BY DEF Disturbance
  <2> QED
    BY <1>1, <1>2, <2>1, LoopStepFailsKeepsInv
<1>3. CASE /\ devices' = Settled(roots, devices \ victims)
           /\ call' = [call EXCEPT !.step = "rescan"]
           /\ UNCHANGED <<roots, changes, library, tableVars, configVars, ret>>
  <2>1. roots \in SUBSET Roots /\ devices \ victims \in SUBSET Device
    BY DEF ChipsInv, TypeOK
  <2>2. devices' \subseteq Device
    BY <1>3, <2>1, PresentTypes
  <2>3. roots' \subseteq Roots /\ changes' \in Nat /\ ret' \in {"ok", "error"}
    BY <1>3 DEF ChipsInv, TypeOK
  <2>4. /\ {} \in SUBSET Disturbance /\ "rescan" \in {"next", "stat", "write", "rescan"}
        /\ UNCHANGED <<library, tableVars, configVars>>
    BY <1>3
  <2> QED
    BY <1>1, <1>3, <2>2, <2>3, <2>4, LoopGoesOn
<1> QED
  BY <1>2, <1>3 DEF WriteRemove

LEMMA RemoveAdapterChipKeepsInv ==
  ASSUME ChipsInv, library # "CRASHED", NEW bus \in Bus, RemoveAdapterChip(bus)
  PROVE  ChipsInv'
<1> DEFINE matching(d) == {k \in DOMAIN chips : Matches(d, chips[k])}
           hits == {d \in On(clients, bus) : matching(d) # {}}
           reached(d) == {k \in DOMAIN chips : \A j \in matching(d) : k < j}
           crashers == {d \in On(clients, bus) : \E k \in reached(d) : NoPathHits(chips[k], d)}
<1>1. library = "READY" /\ call = NoCall
  BY DEF RemoveAdapterChip
<1>2. CASE crashers # {} /\ Crash
  <2>1. Cause
    BY <1>2 DEF Cause, NoPathHits
  <2> QED
    BY <1>2, <2>1, CrashKeepsInv
<1>3. CASE /\ Returns("ok")
           /\ UNCHANGED <<kernelVars, library, tableVars, configVars, call>>
  BY <1>3 DEF Returns, kernelVars, tableVars, configVars, ChipsInv, TypeOK, Position, NamesKept,
              CrashHasCause, NothingFound
<1>4. ASSUME NEW d \in hits, NEW k, k = First(matching(d)),
             chips' = [chips EXCEPT ![k].matched = TRUE],
             call' = [Begin("removeAdapter", "stat", <<>>, {}) EXCEPT !.i = k],
             Returns("ok"), UNCHANGED <<kernelVars, library, tableVars, loaded, names>>
      PROVE  ChipsInv'
  <2>1. k \in DOMAIN chips /\ k \in Nat /\ chips \in Seq(Chip)
    <3>1. chips \in Seq(Chip) /\ matching(d) # {} /\ matching(d) \subseteq Nat
      BY <1>4 DEF ChipsInv, TypeOK
    <3>2. \E j \in matching(d) : \A l \in matching(d) : j <= l
      BY <3>1, NatHasLeast
    <3>3. k \in matching(d)
      BY <1>4, <3>2 DEF First
    <3> QED
      BY <3>1, <3>3
  <2>2. chips[k] \in Chip
    BY <2>1
  <2>3. [chips[k] EXCEPT !.matched = TRUE] \in Chip
    BY <2>2 DEF Chip
  <2>4. chips' \in Seq(Chip) /\ DOMAIN chips' = DOMAIN chips
    BY <1>4, <2>1, <2>3
  <2>5. call' \in Call /\ call'.op = "removeAdapter" /\ call'.step = "stat" /\ call'.i = k
    <3>1. <<>> \in Seq(Item) /\ {} \in SUBSET Disturbance
      OBVIOUS
    <3> QED
      BY <1>4, <2>1, <3>1 DEF Begin, Call, Ops
  <2>6. call' # NoCall
    BY <2>5, NoCallIsNone
  <2>7. /\ UNCHANGED <<roots, devices, changes, library, adapters, clients, loaded, names>>
        /\ ret' = "ok"
    BY <1>4 DEF kernelVars, tableVars, Returns
  <2>8. TypeOK'
    BY <2>4, <2>5, <2>7 DEF ChipsInv, TypeOK
  <2>9. Position'
    BY <1>1, <2>1, <2>4, <2>5, <2>6, <2>7 DEF Position, LoopOps
  <2> QED
    BY <1>1, <2>7, <2>8, <2>9 DEF ChipsInv, NamesKept, CrashHasCause
<1> QED
  BY <1>2, <1>3, <1>4 DEF RemoveAdapterChip

(* A scan starts when the configuration is read, with the table freed. *)
LEMMA ListsKeepsInv ==
  ASSUME ChipsInv, NEW c \in Call, Lists(c), loaded' = TRUE,
         c.op \in LoopOps => c.i \in DOMAIN chips,
         UNCHANGED <<kernelVars, chips, names, ret>>
  PROVE  ChipsInv'
<1>1. /\ call' = [c EXCEPT !.step = "scan", !.seen = Present(roots, devices), !.met = devices]
      /\ library' = "BUSY" /\ adapters' = {} /\ clients' = {}
      /\ UNCHANGED <<roots, devices, changes, chips, names, ret>>
  BY DEF Lists, kernelVars
<1>2. Present(roots, devices) \in SUBSET Bus /\ devices \in SUBSET Device
  BY PresentTypes DEF ChipsInv, TypeOK
<1>3. call' \in Call /\ call'.op = c.op /\ call'.step = "scan" /\ call'.i = c.i
  BY <1>1, <1>2 DEF Call
<1>4. call' # NoCall
  BY <1>3, NoCallIsNone
<1>5. TypeOK'
  BY <1>1, <1>3 DEF ChipsInv, TypeOK
<1>6. Position'
  BY <1>1, <1>3, <1>4 DEF Position
<1> QED
  BY <1>1, <1>5, <1>6 DEF ChipsInv, NamesKept, CrashHasCause

LEMMA RescanInLoopKeepsInv ==
  ASSUME ChipsInv, library # "CRASHED", RescanInLoop
  PROVE  ChipsInv'
<1>1. call # NoCall /\ call.step \in {"stat", "write", "rescan"} /\ Lists(call)
      /\ UNCHANGED <<kernelVars, configVars, ret>>
  BY DEF RescanInLoop, InStep
<1>2. call \in Call /\ call.i \in DOMAIN chips /\ library = "READY"
  BY <1>1, TheChipIsListed
<1>3. loaded' = TRUE /\ UNCHANGED <<kernelVars, chips, names, ret>>
  BY <1>1, <1>2 DEF configVars, ChipsInv, TypeOK
<1> QED
  BY <1>1, <1>2, <1>3, ListsKeepsInv

LEMMA LoadedKeepsInv ==
  ASSUME ChipsInv, library # "CRASHED", Loaded
  PROVE  ChipsInv'
<1>1. call # NoCall /\ call.op = "init" /\ Lists(call) /\ loaded' = TRUE
      /\ UNCHANGED <<kernelVars, chips, names, ret>>
  BY DEF Loaded, At, InStep
<1>2. call \in Call /\ call.op \notin LoopOps
  BY <1>1 DEF ChipsInv, TypeOK, LoopOps
<1> QED
  BY <1>1, <1>2, ListsKeepsInv

LEMMA RescanTableKeepsInv ==
  ASSUME ChipsInv, library # "CRASHED", RescanTable
  PROVE  ChipsInv'
<1> DEFINE c == Begin("rescan", "scan", <<>>, {})
<1>1. library = "READY" /\ Lists(c) /\ UNCHANGED <<kernelVars, configVars, ret>>
  BY DEF RescanTable
<1>2. loaded' = TRUE /\ UNCHANGED <<kernelVars, chips, names, ret>>
  BY <1>1 DEF configVars, ChipsInv, TypeOK
<1>3. c \in Call /\ c.op = "rescan"
  <2>1. <<>> \in Seq(Item)
    OBVIOUS
  <2> QED
    BY <2>1 DEF Begin, Call, Ops
<1>4. c.op \notin LoopOps
  BY <1>3 DEF LoopOps
<1> HIDE DEF c
<1> QED
  BY <1>1, <1>2, <1>3, <1>4, ListsKeepsInv

LEMMA ScanSucceedsKeepsInv ==
  ASSUME ChipsInv, library # "CRASHED", ScanSucceeds
  PROVE  ChipsInv'
<1>1. /\ call \in Call /\ call # NoCall /\ call.step = "scan" /\ call.op \in Ops
      /\ adapters = {} /\ loaded /\ chips \in Seq(Chip)
      /\ call.op \in LoopOps => call.i \in DOMAIN chips
  BY NoCallIsNone DEF ScanSucceeds, InStep, ChipsInv, TypeOK, Position
<1>2. PICK ds \in Read(call) :
        LET matched == IF call.op = "rescan" THEN chips ELSE MatchAll(chips, call.seen, ds) IN
        IF call.op # "rescan" /\ MatchCrashes(chips, call.seen, ds)
        THEN Crash
        ELSE /\ adapters' = call.seen /\ clients' = ds
             /\ chips' = matched
             /\ library' = "READY"
             /\ call' = IF call.op \in {"init", "rescan"} THEN NoCall ELSE [call EXCEPT !.step = "next"]
             /\ Returns("ok")
             /\ UNCHANGED <<kernelVars, loaded, names>>
  BY DEF ScanSucceeds
<1> DEFINE crashes == call.op # "rescan" /\ MatchCrashes(chips, call.seen, ds)
<1>3. CASE crashes
  <2>1. Cause
    BY <1>1, <1>3 DEF MatchCrashes, NoPathHits, Cause, NothingFound
  <2> QED
    BY <1>2, <1>3, <2>1, CrashKeepsInv
<1>4. CASE ~crashes
  <2>1. /\ adapters' = call.seen /\ clients' = ds /\ library' = "READY" /\ ret' = "ok"
        /\ chips' = chips \/ chips' = MatchAll(chips, call.seen, ds)
        /\ call' = IF call.op \in {"init", "rescan"} THEN NoCall ELSE [call EXCEPT !.step = "next"]
        /\ UNCHANGED <<roots, devices, changes, loaded, names>>
    BY <1>2, <1>4 DEF Returns, kernelVars
  <2>2. chips' \in Seq(Chip) /\ DOMAIN chips' = DOMAIN chips
    <3>1. LET cs == MatchAll(chips, call.seen, ds) IN cs \in Seq(Chip) /\ DOMAIN cs = DOMAIN chips
      BY <1>1, MatchAllTypes
    <3> QED
      BY <1>1, <2>1, <3>1, Zenon
  <2>3. adapters' \subseteq Bus /\ clients' \subseteq Device
    <3>1. ds \subseteq devices
      BY DEF Read
    <3> QED
      BY <1>1, <2>1, <3>1, NoCallIsNone DEF ChipsInv, TypeOK
  <2>4. CASE call.op \in {"init", "rescan"}
    <3>1. call' = NoCall
      BY <2>1, <2>4
    <3>2. TypeOK'
      BY <1>1, <2>1, <2>2, <2>3, <3>1 DEF ChipsInv, TypeOK
    <3> QED
      BY <2>1, <3>1, <3>2 DEF ChipsInv, Position, NamesKept, CrashHasCause
  <2>5. CASE call.op \notin {"init", "rescan"}
    <3>1. call' = [call EXCEPT !.step = "next"]
      BY <2>1, <2>5
    <3>2. call' \in Call /\ call'.op = call.op /\ call'.step = "next" /\ call'.i = call.i
      BY <1>1, <3>1 DEF Call
    <3>3. call.op \in LoopOps /\ call' # NoCall
      BY <1>1, <2>5, <3>2, NoCallIsNone DEF Ops, LoopOps
    <3>4. TypeOK'
      BY <1>1, <2>1, <2>2, <2>3, <3>2 DEF ChipsInv, TypeOK
    <3>5. Position'
      BY <1>1, <2>1, <2>2, <3>2, <3>3 DEF Position
    <3> QED
      BY <2>1, <3>4, <3>5 DEF ChipsInv, NamesKept, CrashHasCause
  <2> QED
    BY <2>4, <2>5
<1> QED
  BY <1>3, <1>4

LEMMA ScanFailsKeepsInv ==
  ASSUME ChipsInv, library # "CRASHED", ScanFails \/ LoadFails
  PROVE  ChipsInv'
<1>1. Cleanup(FreeCrashes(names)) /\ ret' \in {"ok", "error"}
  BY DEF ScanFails, LoadFails, ChipsInv, TypeOK
<1> QED
  BY <1>1, CleanupKeepsInv

LEMMA CleanupCallKeepsInv ==
  ASSUME ChipsInv, library # "CRASHED", I2cdevCleanup
  PROVE  ChipsInv'
<1>1. Cleanup(FreeCrashes(names)) /\ ret' \in {"ok", "error"}
  BY DEF I2cdevCleanup, ChipsInv, TypeOK
<1> QED
  BY <1>1, CleanupKeepsInv

LEMMA InitCallKeepsInv ==
  ASSUME ChipsInv, library # "CRASHED", NEW items \in CallerInputs \cup DefaultInputs,
         I2cdevInit(items)
  PROVE  ChipsInv'
<1> DEFINE input == IF loaded THEN <<>> ELSE items
<1>1. input \in Seq(Item) /\ {} \in SUBSET Disturbance
  BY KernelAssumption
<1>2. /\ library' = "BUSY" /\ call' = Begin("init", "load", input, {})
      /\ UNCHANGED <<roots, devices, changes, adapters, clients, loaded, chips, names, ret>>
  BY DEF I2cdevInit, kernelVars, tableVars, configVars
<1> HIDE DEF input
<1>3. call' \in Call /\ call'.op = "init" /\ call'.step = "load"
  BY <1>1, <1>2 DEF Begin, Call, Ops
<1>4. TypeOK'
  BY <1>2, <1>3 DEF ChipsInv, TypeOK
<1>5. Position'
  <2>1. library' = "BUSY" /\ call' # NoCall
    BY <1>2, <1>3, NoCallIsNone
  <2> QED
    BY <1>3, <2>1 DEF Position, LoopOps
<1> QED
  BY <1>2, <1>4, <1>5 DEF ChipsInv, NamesKept, CrashHasCause

(* A call that reads the configuration goes on with what is left of it. *)
LEMMA LoadGoesOn ==
  ASSUME ChipsInv, library # "CRASHED", At("init", "load"), call.input # <<>>,
         call' = [call EXCEPT !.input = Tail(@)],
         chips' \in Seq(Chip), names' \in NameTable, names' = names \/ names'.count > 0,
         UNCHANGED <<kernelVars, library, tableVars, loaded, ret>>
  PROVE  ChipsInv'
<1>1. call \in Call /\ call # NoCall /\ call.op = "init" /\ call.step = "load" /\ library = "BUSY"
  BY DEF At, InStep, ChipsInv, TypeOK, Position
<1>2. Tail(call.input) \in Seq(Item)
  BY <1>1, NoCallIsNone
<1>3. call' \in Call /\ call'.op = "init" /\ call'.step = "load"
  BY <1>1, <1>2 DEF Call
<1>4. UNCHANGED <<roots, devices, changes, adapters, clients, loaded, library, ret>>
  BY DEF kernelVars, tableVars
<1>5. TypeOK'
  BY <1>3, <1>4 DEF ChipsInv, TypeOK
<1>6. Position'
  BY <1>1, <1>3, <1>4, NoCallIsNone DEF Position, LoopOps
<1> QED
  BY <1>1, <1>4, <1>5, <1>6 DEF ChipsInv, NamesKept, CrashHasCause

LEMMA LoadNameKeepsInv ==
  ASSUME ChipsInv, library # "CRASHED", LoadName
  PROVE  ChipsInv'
<1>1. names \in NameTable /\ chips \in Seq(Chip)
  BY DEF ChipsInv, TypeOK
<1>2. CASE Head(call.input).named /\ StoreCrashes(names)
  <2>1. Cause
    BY <1>1, <1>2, RecordNameTypes DEF ChipsInv, NamesKept, Cause
  <2> QED
    BY <1>2, <2>1, CrashKeepsInv DEF LoadName
<1>3. CASE ~(Head(call.input).named /\ StoreCrashes(names))
  <2>1. /\ At("init", "load") /\ call.input # <<>>
        /\ call' = [call EXCEPT !.input = Tail(@)]
        /\ names' = names \/ names' = RecordName(names)
        /\ UNCHANGED <<kernelVars, library, tableVars, loaded, chips, ret>>
    BY <1>3 DEF LoadName
  <2>2. names' \in NameTable /\ (names' = names \/ names'.count > 0) /\ chips' \in Seq(Chip)
    BY <1>1, <2>1, RecordNameTypes
  <2> QED
    BY <2>1, <2>2, LoadGoesOn
<1> QED
  BY <1>2, <1>3

LEMMA LoadLineKeepsInv ==
  ASSUME ChipsInv, library # "CRASHED", LoadLine
  PROVE  ChipsInv'
<1>1. /\ At("init", "load") /\ call.input # <<>> /\ Head(call.input).kind = "line"
      /\ call' = [call EXCEPT !.input = Tail(@)]
      /\ chips' = ParseLine(chips, Head(call.input).line)
      /\ UNCHANGED <<kernelVars, library, tableVars, loaded, names, ret>>
  BY DEF LoadLine
<1>2. call.input \in Seq(Item) /\ chips \in Seq(Chip) /\ names \in NameTable
  BY <1>1, NoCallIsNone DEF At, InStep, ChipsInv, TypeOK
<1>3. Head(call.input) \in Item
  BY <1>1, <1>2
<1>4. Head(call.input).line \in Line
  BY <1>1, <1>3 DEF Item
<1>5. chips' \in Seq(Chip)
  BY <1>1, <1>2, <1>4, ParseLineTypes
<1> QED
  BY <1>1, <1>2, <1>5, LoadGoesOn

LEMMA NextKeepsInv ==
  ASSUME ChipsInv, [Next]_vars
  PROVE  ChipsInv'
<1>1. CASE UNCHANGED vars
  BY <1>1 DEF vars, kernelVars, tableVars, configVars, ChipsInv, TypeOK, Position, NamesKept,
              CrashHasCause, NothingFound
<1>2. CASE library # "CRASHED" /\ KernelStep
  BY <1>2, KernelKeepsInv
<1>3. CASE library # "CRASHED" /\ ApplicationCalls
  <2>1. CASE \E items \in CallerInputs \cup DefaultInputs : I2cdevInit(items)
    BY <1>3, <2>1, InitCallKeepsInv
  <2>2. CASE I2cdevRescan
    BY <1>3, <2>2, RescanTableKeepsInv, InitCallKeepsInv DEF I2cdevRescan
  <2>3. CASE I2cdevCleanup
    BY <1>3, <2>3, CleanupCallKeepsInv
  <2>4. CASE InitializeAll \/ RemoveAll
    BY <1>3, <2>4, BeginLoopKeepsInv DEF InitializeAll, RemoveAll
  <2>5. CASE \E b \in Bus : RemoveAdapterChip(b)
    BY <1>3, <2>5, RemoveAdapterChipKeepsInv
  <2> QED
    BY <1>3, <2>1, <2>2, <2>3, <2>4, <2>5 DEF ApplicationCalls
<1>4. CASE library # "CRASHED" /\ LibraryStep
  <2>1. CASE LoadName \/ LoadLine \/ LoadFails \/ Loaded
    BY <1>4, <2>1, LoadNameKeepsInv, LoadLineKeepsInv, ScanFailsKeepsInv, LoadedKeepsInv
  <2>2. CASE NextChip \/ StatNew \/ WriteNew \/ StatRemove \/ WriteRemove
    BY <1>4, <2>2, NextChipKeepsInv, StatNewKeepsInv, WriteNewKeepsInv, StatRemoveKeepsInv,
       WriteRemoveKeepsInv
  <2>3. CASE RescanInLoop \/ ScanSucceeds \/ ScanFails
    BY <1>4, <2>3, RescanInLoopKeepsInv, ScanSucceedsKeepsInv, ScanFailsKeepsInv
  <2> QED
    BY <1>4, <2>1, <2>2, <2>3 DEF LibraryStep
<1> QED
  BY <1>1, <1>2, <1>3, <1>4 DEF Next

LEMMA ChipsInvHolds == Spec => []ChipsInv
<1>1. Init => ChipsInv
  BY ChipsInvInit
<1>2. ChipsInv /\ [Next]_vars => ChipsInv'
  BY NextKeepsInv
<1> QED
  BY <1>1, <1>2, PTL DEF Spec

-----------------------------------------------------------------------------
(* Every variable of the library keeps its type, and a library in use has   *)
(* read its configuration, however calls and changes of the kernel follow   *)
(* each other.                                                              *)
THEOREM ChipTypes == Spec => []TypeOK
<1>1. ChipsInv => TypeOK
  BY DEF ChipsInv
<1> QED
  BY <1>1, ChipsInvHolds, PTL

(* The loops of initialize_all_config_chips and remove_all_config_chips go  *)
(* on only with a chip that is still in the list: no rescan that failed,    *)
(* and no cleanup, has freed it under them.                                 *)
THEOREM LoopsStayInTheList == Spec => []LoopChipIsListed
<1>1. ChipsInv => LoopChipIsListed
  <2> SUFFICES ASSUME ChipsInv, call # NoCall, call.op \in LoopOps
               PROVE  /\ call.i \in DOMAIN chips \cup (IF call.step = "next" THEN {0} ELSE {})
                      /\ call.step # "scan" => library # "UNINITIALIZED"
    BY DEF LoopChipIsListed, LoopOps
  <2>1. call.i \in DOMAIN chips \cup (IF call.step = "next" THEN {0} ELSE {})
    BY DEF ChipsInv, Position
  <2>2. call \in Call
    BY DEF ChipsInv, TypeOK
  <2>3. call.step \in {"load", "next", "stat", "write", "rescan", "scan"}
    BY <2>2 DEF Call
  <2>4. library # "UNINITIALIZED"
    BY <2>3 DEF ChipsInv, Position
  <2> QED
    BY <2>1, <2>4
<1> QED
  BY <1>1, ChipsInvHolds, PTL

(* The process goes down only for one of the three causes that              *)
(* CrashHasCause names, whatever it is configured with.                     *)
THEOREM CrashesHaveCause == Spec => []CrashHasCause
<1>1. ChipsInv => CrashHasCause
  BY DEF ChipsInv
<1> QED
  BY <1>1, ChipsInvHolds, PTL
=============================================================================
