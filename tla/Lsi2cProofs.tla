----------------------------- MODULE Lsi2cProofs -----------------------------
(***************************************************************************)
(* What lsi2c promises, for every command line, board and configuration: it *)
(* goes by one configuration, its -r and -i leave nothing undone that they  *)
(* report as done, and it cleans up on every way out.                       *)
(*                                                                          *)
(* main adds to the library only calls that the library's application makes *)
(* in ConfigChips, so that what is proved there of a step holds here too,   *)
(* but for the one step in which a lookup of main's takes the process down. *)
(***************************************************************************)
EXTENDS Lsi2c, ConfigLoopsProofs

-----------------------------------------------------------------------------
(* A probe whose rescan failed is the one way to a library that main has to *)
(* initialise again.                                                        *)
MayRestart == Asked("probe")

Sources == Inputs(options.file) \cup (IF MayRestart THEN DefaultInputs ELSE {})

(* Which call main is in *)
CallIsMains ==
  call # NoCall =>
    \/ stage = "configuring" /\ call.op = "init"
    \/ stage = "loop" /\ call.op = "initialize" /\ Asked("initialize")
    \/ stage = "loop" /\ call.op = "remove" /\ Asked("remove")
    \/ stage = "using" /\ call.op = "rescan"
    \/ stage = "rescanning" /\ call.op = "rescan"
    \/ stage = "rescanning" /\ call.op = "init" /\ MayRestart

(* What the library is like between its calls *)
LibraryIsMains ==
  call = NoCall =>
    /\ stage = "start" => library = "UNINITIALIZED"
    /\ stage \in {"module", "dispatch", "use"} => library = "READY"
    /\ stage \in {"configuring", "loop", "using", "rescanning"} =>
         library = "READY" \/ (library = "UNINITIALIZED" /\ ret = "error")
    /\ stage = "configuring" /\ ret = "error" => library = "UNINITIALIZED"
    /\ stage = "done" /\ left > 0 /\ library = "UNINITIALIZED" => MayRestart
    /\ stage = "exited" => library = "UNINITIALIZED"

(* What main was asked for, at the stages that only some of it leads to *)
StageIsAsked ==
  /\ stage = "loop" => Asked("remove") \/ Asked("initialize")
  /\ stage \in {"use", "using"} => NeedsAdapter \/ Asked("probe")

(* The rescans main has still to make, and what becomes of their errors *)
RescansLeft ==
  /\ left <= options.rescans
  /\ (stage = "done" /\ left > 0) \/ stage = "rescanning" => err = "ok"
  /\ stage = "done" /\ err = "ok" /\ left < options.rescans => ret = "ok"
  /\ stage = "exited" /\ status = "success" => err = "ok" /\ (options.rescans > 0 => ret = "ok")

CleanIsEmpty == library = "UNINITIALIZED" => adapters = {}

Control ==
  /\ CallIsMains /\ LibraryIsMains /\ StageIsAsked /\ RescansLeft /\ CleanIsEmpty
  /\ (call # NoCall => stage \in {"configuring", "loop", "using", "rescanning"})

(* As long as nothing else changes a device, a loop begins with the table   *)
(* and the marks that the first scan left.                                  *)
Fresh ==
  changes = 0 =>
    /\ call # NoCall /\ call.op = "init" =>
         /\ \A k \in DOMAIN chips : ~chips[k].matched
         /\ call.step = "scan" => call.seen = Present(roots, devices) /\ call.met = devices
    /\ (call = NoCall /\ library = "READY" /\ stage \in {"configuring", "module", "dispatch"}) =>
         TableIsCurrent /\ ~Stale(chips)
    /\ call # NoCall /\ call.op \in {"initialize", "remove"} => call.by \subseteq {"refused"}

(* What a loop leaves behind it, until the rescans are over *)
NothingLeft == \A k \in DOMAIN chips, d \in devices \ Firmware : ~Matches(d, chips[k])

NothingMissing ==
  \A k \in DOMAIN chips :
    chips[k].bus \in Present(roots, devices) /\ chips[k].addr \in Addr => Taken(chips[k].bus, chips[k].addr)

AfterLoop == (stage = "loop" /\ call = NoCall) \/ (stage \in {"done", "rescanning"} /\ err = "ok")

LoopIsDone ==
  changes = 0 /\ AfterLoop =>
    /\ Asked("remove") => NothingLeft
    /\ Asked("initialize") /\ ParentsFirst => NothingMissing

MainTypes ==
  /\ options \in Options
  /\ stage \in {"start", "configuring", "module", "dispatch", "loop", "use", "using",
                "done", "rescanning", "exited"}
  /\ err \in {"ok", "error"} /\ left \in Nat
  /\ status \in {"none", "success", "failure"}

MainInv == LoopInv /\ SourceIn(Sources) /\ Control /\ Fresh /\ LoopIsDone

LsiInv ==
  /\ LsiTypeOK
  /\ stage = "exited" => library # "CRASHED"
  /\ stage = "done" => LoopIsDone
  /\ library # "CRASHED" => MainInv

-----------------------------------------------------------------------------
(* Of what main is asked for, it does one thing. *)
LEMMA AskedOnce ==
  ASSUME NEW a, NEW b, Asked(a), Asked(b)
  PROVE  a = b
<1>1. DOMAIN Order = 1..7
  BY DEF Order
<1>2. PICK j \in 1..7 : Order[j] = a /\ a \in options.asked /\ \A l \in 1..(j - 1) : Order[l] \notin options.asked
  BY <1>1 DEF Asked
<1>3. PICK k \in 1..7 : Order[k] = b /\ b \in options.asked /\ \A l \in 1..(k - 1) : Order[l] \notin options.asked
  BY <1>1 DEF Asked
<1>4. j = k
  <2>1. ~(j < k) /\ ~(k < j)
    BY <1>2, <1>3
  <2> QED
    BY <2>1
<1> QED
  BY <1>2, <1>3, <1>4

LEMMA AskedStays ==
  ASSUME options' = options
  PROVE  /\ Asked("config")' <=> Asked("config")
         /\ Asked("remove")' <=> Asked("remove")
         /\ Asked("initialize")' <=> Asked("initialize")
         /\ NeedsAdapter' <=> NeedsAdapter
         /\ Asked("probe")' <=> Asked("probe")
         /\ MayRestart' <=> MayRestart
         /\ Sources' = Sources
BY DEF Asked, NeedsAdapter, MayRestart, Sources

LEMMA SourcesAreInputs ==
  /\ Sources \subseteq CallerInputs \cup DefaultInputs
  /\ \A items \in Sources : items \in Seq(Item)
<1>1. Sources \subseteq CallerInputs \cup DefaultInputs
  BY DEF Sources, Inputs
<1> QED
  BY <1>1, KernelAssumption

-----------------------------------------------------------------------------
(* Nothing but a step of main changes what main keeps, and a step of main   *)
(* leaves the library alone, makes one call of it, or takes it down.        *)
Calls ==
  \/ \E items \in CallerInputs \cup DefaultInputs : I2cdevInit(items)
  \/ RemoveAll \/ InitializeAll \/ RescanTable \/ I2cdevCleanup

LEMMA MainCalls ==
  ASSUME MainStep
  PROVE  UNCHANGED vars \/ Calls \/ Crash
<1>1. CASE ReadConfigFile
  BY <1>1 DEF ReadConfigFile, Inputs, Calls
<1>2. CASE Configured \/ LoadModule \/ LoopReturned \/ UseReturned \/ RescanReturned
  BY <1>2 DEF Configured, LoadModule, LoopReturned, UseReturned, RescanReturned
<1>3. CASE RunsLoop
  BY <1>3 DEF RunsLoop, Calls
<1>4. CASE Dispatch
  BY <1>4 DEF Dispatch
<1>5. CASE OpenRescans \/ Rescans
  BY <1>5 DEF OpenRescans, Rescans, I2cdevRescan, Calls
<1>6. CASE Finish
  BY <1>6 DEF Finish, Calls
<1> QED
  BY <1>1, <1>2, <1>3, <1>4, <1>5, <1>6 DEF MainStep

LEMMA LsiIsNext ==
  ASSUME [LsiNext]_allVars
  PROVE  [Next]_vars \/ Crash
<1>1. CASE UNCHANGED allVars
  BY <1>1 DEF allVars
<1>2. CASE library # "CRASHED" /\ (KernelStep \/ LibraryStep)
  BY <1>2 DEF Next
<1>3. CASE library # "CRASHED" /\ MainStep
  BY <1>3, MainCalls DEF Next, Calls, ApplicationCalls, I2cdevRescan
<1> QED
  BY <1>1, <1>2, <1>3 DEF LsiNext

LEMMA OptionsStay ==
  ASSUME [LsiNext]_allVars
  PROVE  options' = options
<1>1. CASE UNCHANGED allVars \/ UNCHANGED mainVars
  BY <1>1 DEF allVars, mainVars
<1>2. CASE MainStep
  BY <1>2 DEF MainStep, ReadConfigFile, Configured, LoadModule, RunsLoop, LoopReturned, Dispatch,
              OpenRescans, UseReturned, Rescans, RescanReturned, Finish, GoesTo, ToDone, Exit
<1> QED
  BY <1>1, <1>2 DEF LsiNext
-----------------------------------------------------------------------------
(* What becomes of a call: it goes on, or it returns, with an error when    *)
(* the library has been cleaned up.                                         *)
GoesOn ==
  /\ call # NoCall /\ call' # NoCall /\ call'.op = call.op
  /\ library' # "UNINITIALIZED"

ReturnsTo(state) ==
  /\ call # NoCall /\ call' = NoCall /\ library' = state
  /\ state = "UNINITIALIZED" => ret' = "error" /\ adapters' = {} /\ chips' = <<>>
  /\ state = "READY" /\ call.op = "init" => ret' = "ok"

LibraryMoves ==
  /\ changes' = changes
  /\ GoesOn \/ ReturnsTo("READY") \/ ReturnsTo("UNINITIALIZED")

LEMMA CleanupReturns ==
  ASSUME ScanFails \/ LoadFails, call.op # "removeAdapter"
  PROVE  Crash \/ (LibraryMoves /\ UNCHANGED <<roots, devices>>)
<1>1. call # NoCall /\ Cleanup(FreeCrashes(names)) /\ (library' # "CRASHED" => ret' = "error")
  BY DEF ScanFails, LoadFails, InStep, At
<1>2. CASE FreeCrashes(names)
  BY <1>1, <1>2 DEF Cleanup
<1>3. CASE ~FreeCrashes(names)
  BY <1>1, <1>3 DEF Cleanup, LibraryMoves, ReturnsTo, kernelVars
<1> QED
  BY <1>2, <1>3

LEMMA LibraryStepMoves ==
  ASSUME ChipsInv, library # "CRASHED", LibraryStep, call.op # "removeAdapter"
  PROVE  Crash \/ LibraryMoves
<1>1. CASE LoadFails \/ ScanFails
  BY <1>1, CleanupReturns
<1>2. CASE LoadName \/ LoadLine
  <2>1. /\ call \in Call /\ call # NoCall /\ library = "BUSY"
    BY <1>2, NoCallIsNone DEF LoadName, LoadLine, At, InStep, ChipsInv, TypeOK, Position
  <2>2. CASE call' = [call EXCEPT !.input = Tail(@)] /\ UNCHANGED <<changes, library>>
    <3>1. call'.op = call.op
      BY <2>1, <2>2 DEF Call
    <3>2. call' # NoCall
      <4>1. call'.step = call.step
        BY <2>1, <2>2 DEF Call
      <4>2. DOMAIN call' = DOMAIN call
        BY <2>2
      <4>3. "step" \in DOMAIN call /\ "step" \notin DOMAIN NoCall
        BY <2>1 DEF Call, NoCall
      <4> QED
        BY <4>2, <4>3
    <3> QED
      BY <2>1, <2>2, <3>1, <3>2 DEF LibraryMoves, GoesOn
  <2>3. CASE LoadName
    BY <2>2, <2>3 DEF LoadName, kernelVars
  <2>4. CASE LoadLine
    BY <2>2, <2>4 DEF LoadLine, kernelVars
  <2> QED
    BY <1>2, <2>3, <2>4
<1>3. CASE Loaded \/ RescanInLoop
  <2>1. /\ call \in Call /\ call # NoCall /\ library' = "BUSY" /\ changes' = changes
        /\ call' = [call EXCEPT !.step = "scan", !.seen = Present(roots, devices), !.met = devices]
    BY <1>3 DEF Loaded, RescanInLoop, At, InStep, Lists, ChipsInv, TypeOK, kernelVars
  <2>2. call'.op = call.op
    BY <2>1 DEF Call
  <2>3. "step" \in DOMAIN call' /\ "step" \notin DOMAIN NoCall
    BY <2>1 DEF Call, NoCall
  <2> QED
    BY <2>1, <2>2, <2>3 DEF LibraryMoves, GoesOn
<1>4. CASE NextChip
  <2>1. /\ call # NoCall /\ library = "READY" /\ call.op \in LoopOps /\ UNCHANGED <<changes, library>>
    BY <1>4 DEF NextChip, InStep, ChipsInv, TypeOK, Position, kernelVars
  <2>2. CASE Ends
    BY <1>4, <2>1, <2>2 DEF NextChip, LibraryMoves, ReturnsTo, LoopOps
  <2>3. CASE ~Ends
    <3>1. call' # NoCall
      <4>1. call' = [call EXCEPT !.i = First(Ahead(call.op, chips, call.i)), !.step = "stat"] /\ call \in Call
        BY <1>4, <2>1, <2>3 DEF NextChip, ChipsInv, TypeOK
      <4>2. "step" \in DOMAIN call' /\ "step" \notin DOMAIN NoCall
        BY <4>1 DEF Call, NoCall
      <4> QED
        BY <4>2
    <3>2. call'.op = call.op
      BY <1>4, <2>1, <2>3 DEF NextChip, ChipsInv, TypeOK, Call
    <3> QED
      BY <2>1, <3>1, <3>2 DEF LibraryMoves, GoesOn
  <2> QED
    BY <2>2, <2>3
<1>5. CASE StatNew \/ WriteNew \/ StatRemove \/ WriteRemove
  <2>1. Standstill \/ Looks \/ Creates \/ Deletes \/ Refused
    BY <1>5, StatLooks, WriteNewCreates, WriteRemoveDeletes
  <2>2. Crash \/ UNCHANGED <<changes, library>>
    BY <1>5 DEF StatNew, WriteNew, StatRemove, WriteRemove, LoopGoesTo, LoopStepFails, kernelVars
  <2>3. call # NoCall /\ library = "READY"
    BY <1>5 DEF StatNew, WriteNew, StatRemove, WriteRemove, Removes, At, InStep, ChipsInv, Position
  <2>4. CASE Standstill
    BY <2>2, <2>3, <2>4 DEF Standstill, LibraryMoves, GoesOn
  <2>5. CASE Looks \/ Creates \/ Deletes \/ Refused
    <3>1. call' \in Call /\ call'.op = call.op
      BY <2>5 DEF Looks, Creates, Deletes, Refused, SteppedAt, Stepped
    <3> QED
      BY <2>2, <2>3, <3>1, NoCallIsNone DEF LibraryMoves, GoesOn
  <2> QED
    BY <2>1, <2>4, <2>5
<1>6. CASE ScanSucceeds /\ ~Crash
  <2>1. call # NoCall /\ call.step = "scan" /\ call \in Call
    BY <1>6 DEF ScanSucceeds, InStep, ChipsInv, TypeOK
  <2>2. /\ changes' = changes /\ library' = "READY" /\ ret' = "ok"
        /\ call' = IF call.op \in {"init", "rescan"} THEN NoCall ELSE [call EXCEPT !.step = "next"]
    BY <1>6 DEF ScanSucceeds, Returns, kernelVars
  <2>3. CASE call.op \in {"init", "rescan"}
    BY <2>1, <2>2, <2>3 DEF LibraryMoves, ReturnsTo
  <2>4. CASE call.op \notin {"init", "rescan"}
    <3>1. call'.op = call.op /\ call' \in Call
      BY <2>1, <2>2, <2>4 DEF Call
    <3> QED
      BY <2>1, <2>2, <3>1, NoCallIsNone DEF LibraryMoves, GoesOn
  <2> QED
    BY <2>3, <2>4
<1> QED
  BY <1>1, <1>2, <1>3, <1>4, <1>5, <1>6 DEF LibraryStep

(* A step of the kernel counts, and leaves a call where it is. *)
LEMMA KernelCounts ==
  ASSUME ChipsInv, library # "CRASHED", KernelStep
  PROVE  /\ changes' # 0 /\ UNCHANGED <<library, adapters, ret>>
         /\ GoesOn \/ (call = NoCall /\ call' = NoCall)
<1>1. changes' # 0 /\ UNCHANGED <<library, adapters, ret>>
  <2>1. changes \in Nat
    BY DEF ChipsInv, TypeOK
  <2> QED
    BY <2>1 DEF KernelStep, tableVars
<1>2. GoesOn \/ (call = NoCall /\ call' = NoCall)
  <2>1. CASE call \in Call /\ call' \in Call /\ call'.op = call.op
    <3>1. call # NoCall /\ call' # NoCall
      BY <2>1, NoCallIsNone
    <3>2. library # "UNINITIALIZED"
      BY <2>1, <3>1 DEF ChipsInv, Position, Call
    <3> QED
      BY <1>1, <2>1, <3>1, <3>2 DEF GoesOn
  <2> QED
    BY <2>1, KernelStepMoves DEF KernelMoves
<1> QED
  BY <1>1, <1>2
-----------------------------------------------------------------------------
(* How calls begin *)
Begins(op) ==
  /\ call = NoCall /\ call' # NoCall /\ call'.op = op
  /\ library' # "UNINITIALIZED" /\ UNCHANGED kernelVars

LEMMA InitBegins ==
  ASSUME NEW items, I2cdevInit(items)
  PROVE  Begins("init") /\ library = "UNINITIALIZED" /\ chips' = chips /\ call'.step = "load"
<1>1. /\ call = NoCall /\ library = "UNINITIALIZED" /\ library' = "BUSY" /\ UNCHANGED <<kernelVars, chips>>
      /\ call' = Begin("init", "load", IF loaded THEN <<>> ELSE items, {})
  BY DEF I2cdevInit, configVars
<1>2. call'.op = "init" /\ call'.step = "load"
  BY <1>1 DEF Begin
<1> QED
  BY <1>1, <1>2 DEF Begins, NoCall

LEMMA RescanBegins ==
  ASSUME RescanTable
  PROVE  Begins("rescan") /\ library = "READY" /\ chips' = chips
<1>1. /\ call = NoCall /\ library = "READY" /\ library' = "BUSY" /\ UNCHANGED <<kernelVars, chips>>
      /\ call' = [Begin("rescan", "scan", <<>>, {}) EXCEPT !.step = "scan", !.seen = Present(roots, devices),
                                                           !.met = devices]
  BY DEF RescanTable, Lists, configVars
<1>2. call'.op = "rescan"
  BY <1>1 DEF Begin
<1> QED
  BY <1>1, <1>2 DEF Begins, NoCall

LEMMA LoopBegins ==
  ASSUME NEW op \in {"initialize", "remove"}, BeginLoop(op), ~Crash
  PROVE  /\ Begins(op) /\ library = "READY" /\ library' = "READY"
         /\ chips' = MatchAll(chips, adapters, clients)
         /\ call'.by = (IF TableIsCurrent THEN {} ELSE {"table"}) \cup (IF Stale(chips') THEN {"stale"} ELSE {})
<1> DEFINE by == (IF TableIsCurrent THEN {} ELSE {"table"}) \cup (IF Stale(chips') THEN {"stale"} ELSE {})
<1>1. /\ call = NoCall /\ library = "READY" /\ library' = "READY" /\ UNCHANGED kernelVars
      /\ chips' = MatchAll(chips, adapters, clients)
      /\ call' = Begin(op, "next", <<>>, by)
  BY DEF BeginLoop
<1> HIDE DEF by
<1>2. call'.op = op /\ call'.by = by
  BY <1>1 DEF Begin
<1>3. call' # NoCall
  BY <1>2 DEF NoCall
<1> QED
  BY <1>1, <1>2, <1>3 DEF Begins, by

LEMMA CleanupCallEnds ==
  ASSUME I2cdevCleanup, library' # "CRASHED"
  PROVE  /\ call = NoCall /\ call' = NoCall /\ library' = "UNINITIALIZED" /\ adapters' = {}
         /\ chips' = <<>> /\ ret' = ret /\ UNCHANGED kernelVars
BY DEF I2cdevCleanup, Cleanup, Crash

LEMMA ControlKept ==
  ASSUME LsiTypeOK, MainInv, library # "CRASHED", library' # "CRASHED", LsiNext
  PROVE  Control'
<1>1. Control /\ ChipsInv /\ MainTypes /\ OptionsAssumption
  BY OptionsAssumption DEF MainInv, LoopInv, LsiTypeOK, MainTypes
<1>2. options' = options
  BY OptionsStay
<1>3. /\ Asked("remove")' <=> Asked("remove")
      /\ Asked("initialize")' <=> Asked("initialize")
      /\ NeedsAdapter' <=> NeedsAdapter
      /\ Asked("probe")' <=> Asked("probe")
      /\ MayRestart' <=> MayRestart
  BY <1>2, AskedStays
<1>4. options.rescans \in Nat
  BY <1>1 DEF MainTypes, OptionsAssumption, Option
<1>5. ~Crash
  BY DEF Crash
<1>6. CASE KernelStep /\ UNCHANGED mainVars
  BY <1>1, <1>3, <1>6, KernelCounts DEF GoesOn, mainVars, Control, CallIsMains, LibraryIsMains, StageIsAsked,
     RescansLeft, CleanIsEmpty
<1>7. CASE LibraryStep /\ UNCHANGED mainVars
  <2>1. call.op # "removeAdapter"
    BY <1>1, <1>7 DEF Control, CallIsMains, LibraryStep, LoadName, LoadLine, LoadFails, Loaded, NextChip,
       StatNew, WriteNew, StatRemove, WriteRemove, RescanInLoop, ScanSucceeds, ScanFails, Removes, At, InStep
  <2>2. GoesOn \/ ReturnsTo("READY") \/ ReturnsTo("UNINITIALIZED")
    BY <1>1, <1>5, <1>7, <2>1, LibraryStepMoves DEF LibraryMoves
  <2>3. call # NoCall
    BY <2>2 DEF GoesOn, ReturnsTo
  <2> QED
    BY <1>1, <1>3, <1>7, <2>2, <2>3 DEF GoesOn, ReturnsTo, mainVars, Control, CallIsMains, LibraryIsMains,
       StageIsAsked, RescansLeft, CleanIsEmpty
<1>8. CASE ReadConfigFile
  <2>1. CASE \E items \in Inputs(options.file) : I2cdevInit(items) /\ GoesTo("configuring")
    BY <1>1, <1>3, <2>1, InitBegins DEF Begins, GoesTo, Control, CallIsMains, LibraryIsMains,
       StageIsAsked, RescansLeft, CleanIsEmpty
  <2>2. CASE stage = "start" /\ Exit("failure") /\ UNCHANGED <<vars, options, err, left>>
    BY <1>1, <1>3, <2>2 DEF Exit, vars, tableVars, Control, CallIsMains, LibraryIsMains,
       StageIsAsked, RescansLeft, CleanIsEmpty
  <2> QED
    BY <1>8, <2>1, <2>2 DEF ReadConfigFile
<1>9. CASE Configured
  BY <1>1, <1>3, <1>9 DEF Configured, Exit, GoesTo, vars, tableVars, Control, CallIsMains, LibraryIsMains,
     StageIsAsked, RescansLeft, CleanIsEmpty, ChipsInv, Position
<1>10. CASE LoadModule
  BY <1>1, <1>3, <1>4, <1>10 DEF LoadModule, ToDone, GoesTo, vars, tableVars, Control, CallIsMains, LibraryIsMains,
     StageIsAsked, RescansLeft, CleanIsEmpty
<1>11. CASE RunsLoop
  BY <1>1, <1>3, <1>5, <1>11, LoopBegins DEF RunsLoop, InitializeAll, RemoveAll, Begins, GoesTo, Control, CallIsMains,
     LibraryIsMains, StageIsAsked, RescansLeft, CleanIsEmpty
<1>12. CASE LoopReturned
  BY <1>1, <1>3, <1>4, <1>12 DEF LoopReturned, ToDone, vars, tableVars, Control, CallIsMains, LibraryIsMains,
     StageIsAsked, RescansLeft, CleanIsEmpty, ChipsInv, TypeOK
<1>13. CASE Dispatch
  <2>1. UNCHANGED vars /\ (ToDone("ok") \/ ToDone("error") \/ (GoesTo("use") /\ (NeedsAdapter \/ Asked("probe"))))
    BY <1>5, <1>13 DEF Dispatch
  <2>2. stage = "dispatch" /\ call = NoCall
    BY <1>1, <1>13 DEF Dispatch, Control
  <2> QED
    BY <1>1, <1>3, <1>4, <2>1, <2>2 DEF ToDone, GoesTo, vars, tableVars, Control, CallIsMains, LibraryIsMains,
       StageIsAsked, RescansLeft, CleanIsEmpty
<1>14. CASE OpenRescans
  BY <1>1, <1>3, <1>14, RescanBegins DEF OpenRescans, Begins, GoesTo, Control, CallIsMains,
     LibraryIsMains, StageIsAsked, RescansLeft, CleanIsEmpty
<1>15. CASE UseReturned
  BY <1>1, <1>3, <1>4, <1>15 DEF UseReturned, ToDone, vars, tableVars, Control, CallIsMains, LibraryIsMains,
     StageIsAsked, RescansLeft, CleanIsEmpty, MayRestart
<1>16. CASE Rescans
  BY <1>1, <1>3, <1>4, <1>16, RescanBegins, InitBegins DEF Rescans, I2cdevRescan, Begins, Control, CallIsMains,
     LibraryIsMains, StageIsAsked, RescansLeft, CleanIsEmpty, MainTypes
<1>17. CASE RescanReturned
  BY <1>1, <1>3, <1>4, <1>17 DEF RescanReturned, vars, tableVars, Control, CallIsMains, LibraryIsMains,
     StageIsAsked, RescansLeft, CleanIsEmpty, MainTypes
<1>18. CASE Finish
  <2>1. call = NoCall /\ call' = NoCall /\ library' = "UNINITIALIZED" /\ adapters' = {} /\ ret' = ret
    BY <1>1, <1>18, CleanupCallEnds DEF Finish, vars, tableVars, Control, CleanIsEmpty
  <2>2. stage = "done" /\ left = 0 /\ stage' = "exited" /\ UNCHANGED <<options, err, left>>
        /\ status' = IF err = "error" THEN "failure" ELSE "success"
    BY <1>18 DEF Finish, Exit
  <2> QED
    BY <1>1, <1>3, <1>4, <2>1, <2>2 DEF Control, CallIsMains, LibraryIsMains, StageIsAsked, RescansLeft,
       CleanIsEmpty, MainTypes
<1> QED
  BY <1>6, <1>7, <1>8, <1>9, <1>10, <1>11, <1>12, <1>13, <1>14, <1>15, <1>16, <1>17, <1>18 DEF LsiNext, MainStep
-----------------------------------------------------------------------------
(* Fresh: the call that initialises the library reads chips that nothing    *)
(* has matched, and finds what is there.                                    *)
UnmatchedChips(cs) == \A k \in DOMAIN cs : ~cs[k].matched

LEMMA InitStaysFresh ==
  ASSUME ChipsInv, KernelInv, library # "CRASHED", library' # "CRASHED", LibraryStep,
         call # NoCall, call.op = "init", UnmatchedChips(chips),
         call.step = "scan" => call.seen = Present(roots, devices) /\ call.met = devices
  PROVE  /\ call' # NoCall =>
              /\ UnmatchedChips(chips')
              /\ call'.step = "scan" => call'.seen = Present(roots, devices)' /\ call'.met = devices'
         /\ call' = NoCall /\ library' = "READY" => TableIsCurrent' /\ ~Stale(chips)'
<1>1. call \in Call /\ chips \in Seq(Chip) /\ ~Crash
  BY DEF ChipsInv, TypeOK, Crash
<1>2. call.step \in {"load", "scan"}
  BY <1>1 DEF ChipsInv, Position, LoopOps, Call
<1>3. CASE LoadName
  <2>1. chips' = chips /\ call' = [call EXCEPT !.input = Tail(@)] /\ UNCHANGED <<roots, devices>>
    BY <1>1, <1>3 DEF LoadName, kernelVars
  <2>2. call.step = "load" /\ call'.step = call.step
    BY <1>1, <1>3, <2>1 DEF LoadName, At, InStep, Call
  <2>3. call' # NoCall
    <3>1. "step" \in DOMAIN call' /\ "step" \notin DOMAIN NoCall
      BY <1>1, <2>1 DEF Call, NoCall
    <3> QED
      BY <3>1
  <2> QED
    BY <2>1, <2>2, <2>3
<1>4. CASE LoadLine
  <2>1. /\ chips' = ParseLine(chips, Head(call.input).line) /\ call.input # <<>> /\ call.input \in Seq(Item)
        /\ Head(call.input).kind = "line" /\ call' = [call EXCEPT !.input = Tail(@)]
    BY <1>1, <1>4, NoCallIsNone DEF LoadLine
  <2>2. call.step = "load" /\ call'.step = call.step
    BY <1>1, <1>4, <2>1 DEF LoadLine, At, InStep, Call
  <2>3. call' # NoCall
    <3>1. "step" \in DOMAIN call' /\ "step" \notin DOMAIN NoCall
      BY <1>1, <2>1 DEF Call, NoCall
    <3> QED
      BY <3>1
  <2> DEFINE line == Head(call.input).line
  <2>4. ChipOf(line).matched = FALSE
    BY DEF ChipOf
  <2>5. UnmatchedChips(ParseLine(chips, line))
    <3> HIDE DEF line
    <3>1. \A k \in DOMAIN Append(chips, ChipOf(line)) :
             Append(chips, ChipOf(line))[k] = IF k \in DOMAIN chips THEN chips[k] ELSE ChipOf(line)
      BY <1>1
    <3> QED
      BY <2>4, <3>1 DEF ParseLine, UnmatchedChips
  <2> QED
    BY <2>1, <2>2, <2>3, <2>5
<1>5. CASE Loaded
  <2>1. /\ chips' = chips /\ UNCHANGED <<roots, devices>>
        /\ call' = [call EXCEPT !.step = "scan", !.seen = Present(roots, devices), !.met = devices]
    BY <1>5 DEF Loaded, Lists, kernelVars
  <2>2. call'.step = "scan" /\ call'.seen = Present(roots, devices) /\ call'.met = devices
    BY <1>1, <2>1 DEF Call
  <2>3. call' # NoCall
    <3>1. "step" \in DOMAIN call' /\ "step" \notin DOMAIN NoCall
      BY <1>1, <2>1 DEF Call, NoCall
    <3> QED
      BY <3>1
  <2> QED
    BY <2>1, <2>2, <2>3
<1>6. CASE LoadFails \/ ScanFails
  BY <1>1, <1>6 DEF LoadFails, ScanFails, Cleanup
<1>7. CASE ScanSucceeds
  <2>1. PICK ds \in Read(call) :
          /\ adapters' = call.seen /\ clients' = ds /\ chips' = MatchAll(chips, call.seen, ds)
          /\ call' = NoCall /\ UNCHANGED <<roots, devices>>
    BY <1>1, <1>7 DEF ScanSucceeds, kernelVars
  <2>2. call.seen = Present(roots, devices) /\ call.met = devices
    BY <1>7 DEF ScanSucceeds, InStep
  <2>3. ds = devices
    BY <2>2, ScanIsExact DEF KernelInv
  <2>4. \A k \in DOMAIN chips : chips'[k].matched => \E d \in ds : Matches(d, chips[k])
    BY <1>1, <2>1, MatchedFollow DEF UnmatchedChips
  <2>5. SameChips(chips', chips)
    BY <1>1, <2>1, MatchAllIsSame
  <2>6. \A k \in DOMAIN chips' : chips'[k].matched => \E d \in clients' : Matches(d, chips'[k])
    BY <2>1, <2>4, <2>5, SameChipsMatch DEF SameChips
  <2> QED
    BY <2>1, <2>2, <2>3, <2>6 DEF TableIsCurrent, Stale
<1>8. ~(NextChip \/ StatNew \/ WriteNew \/ StatRemove \/ WriteRemove \/ RescanInLoop)
  BY <1>2 DEF NextChip, StatNew, WriteNew, StatRemove, WriteRemove, RescanInLoop, Removes, At, InStep
<1> QED
  BY <1>3, <1>4, <1>5, <1>6, <1>7, <1>8 DEF LibraryStep

(* A loop that only the library disturbs is at most refused. *)
LEMMA LoopStaysFresh ==
  ASSUME ChipsInv, LibraryStep, library # "CRASHED", call # NoCall, call.op \in {"initialize", "remove"},
         call.by \subseteq {"refused"}, call' # NoCall, call'.op = call.op
  PROVE  call'.by \subseteq {"refused"}
<1>1. CASE LoopStep
  <2>1. ~NoLoop /\ ~OpensLoop
    BY DEF NoLoop, LoopOps, OpensLoop
  <2>2. ~OpensOne
    BY DEF OpensOne, Opened
  <2>3. CASE Standstill
    BY <2>3 DEF Standstill
  <2>4. CASE Comes \/ Relists \/ Rescanned
    BY <2>4 DEF Comes, Relists, Rescanned, Stepped
  <2>5. CASE Looks \/ Creates \/ Deletes \/ Refused
    BY <2>5 DEF Looks, Creates, Deletes, Refused, SteppedAt, Stepped
  <2> QED
    BY <1>1, <2>1, <2>2, <2>3, <2>4, <2>5 DEF LoopStep
<1>2. CASE KernelMoves
  <2>1. changes' # changes
    BY <1>2 DEF KernelMoves, KernelStep, ChipsInv, TypeOK
  <2>2. Crash \/ changes' = changes
    BY LibraryStepMoves DEF LibraryMoves
  <2> QED
    BY <2>1, <2>2 DEF Crash, kernelVars
<1> QED
  BY <1>1, <1>2, NextIsLoopStep DEF Next
LEMMA NotOneAdapter ==
  ASSUME Control, LibraryStep
  PROVE  call # NoCall /\ call.op \in {"init", "rescan", "initialize", "remove"}
BY DEF Control, CallIsMains, LibraryStep, LoadName, LoadLine, LoadFails, Loaded, NextChip,
   StatNew, WriteNew, StatRemove, WriteRemove, RescanInLoop, ScanSucceeds, ScanFails, Removes, At, InStep

LEMMA FreshKept ==
  ASSUME MainInv, library # "CRASHED", library' # "CRASHED", LsiNext
  PROVE  Fresh'
<1> SUFFICES ASSUME changes' = 0
             PROVE  Fresh'
  BY DEF Fresh
<1>1. ChipsInv /\ KernelInv /\ Control /\ Fresh /\ chips \in Seq(Chip) /\ ~Crash
  BY DEF MainInv, LoopInv, ChipsInv, TypeOK, Crash
<1>2. CASE KernelStep /\ UNCHANGED mainVars
  BY <1>1, <1>2, KernelCounts
<1>3. CASE LibraryStep /\ UNCHANGED mainVars
  <2>1. call # NoCall /\ call.op \in {"init", "rescan", "initialize", "remove"}
    BY <1>1, <1>3, NotOneAdapter
  <2>2. changes = 0 /\ stage' = stage /\ (GoesOn \/ ReturnsTo("READY") \/ ReturnsTo("UNINITIALIZED"))
    BY <1>1, <1>3, <2>1, LibraryStepMoves DEF LibraryMoves, mainVars
  <2>3. CASE call.op = "init"
    <3>1. /\ UnmatchedChips(chips)
          /\ call.step = "scan" => call.seen = Present(roots, devices) /\ call.met = devices
      BY <1>1, <2>1, <2>2, <2>3 DEF Fresh, UnmatchedChips
    <3>2. /\ call' # NoCall =>
               /\ UnmatchedChips(chips')
               /\ call'.step = "scan" => call'.seen = Present(roots, devices)' /\ call'.met = devices'
          /\ call' = NoCall /\ library' = "READY" => TableIsCurrent' /\ ~Stale(chips)'
      BY <1>1, <1>3, <2>1, <2>3, <3>1, InitStaysFresh
    <3>3. call' # NoCall => call'.op = "init"
      BY <2>2, <2>3 DEF GoesOn, ReturnsTo
    <3> QED
      BY <3>2, <3>3 DEF Fresh, UnmatchedChips
  <2>4. CASE call.op = "rescan"
    <3>1. stage' \in {"using", "rescanning"} /\ (call' # NoCall => call'.op = "rescan")
      BY <1>1, <2>1, <2>2, <2>4 DEF Control, CallIsMains, GoesOn, ReturnsTo
    <3> QED
      BY <3>1 DEF Fresh
  <2>5. CASE call.op \in {"initialize", "remove"}
    <3>1. stage' = "loop" /\ (call' # NoCall => call'.op = call.op)
      BY <1>1, <2>1, <2>2, <2>5 DEF Control, CallIsMains, GoesOn, ReturnsTo
    <3>2. call' # NoCall => call'.by \subseteq {"refused"}
      BY <1>1, <1>3, <2>1, <2>2, <2>5, <3>1, LoopStaysFresh DEF Fresh
    <3> QED
      BY <2>5, <3>1, <3>2 DEF Fresh
  <2> QED
    BY <2>1, <2>3, <2>4, <2>5
<1>4. ASSUME UNCHANGED vars, call = NoCall,
             stage' \in {"configuring", "module", "dispatch"} => stage \in {"configuring", "module", "dispatch"}
      PROVE  Fresh'
  BY <1>1, <1>4 DEF Fresh, vars, kernelVars, tableVars, configVars, TableIsCurrent, Stale
<1>5. CASE ReadConfigFile
  <2>1. CASE \E items \in Inputs(options.file) : I2cdevInit(items) /\ GoesTo("configuring")
    <3>1. Begins("init") /\ library = "UNINITIALIZED" /\ chips' = chips /\ call'.step = "load"
      BY <2>1, InitBegins
    <3>2. chips = <<>>
      BY <3>1 DEF MainInv, SourceIn
    <3>3. \A k \in DOMAIN chips' : ~chips'[k].matched
      BY <3>1, <3>2
    <3> QED
      BY <3>1, <3>3 DEF Begins, Fresh
  <2>2. CASE stage = "start" /\ Exit("failure") /\ UNCHANGED <<vars, options, err, left>>
    BY <1>1, <1>4, <2>2 DEF Exit, Control
  <2> QED
    BY <1>5, <2>1, <2>2 DEF ReadConfigFile
<1>6. CASE Configured \/ LoadModule \/ LoopReturned \/ UseReturned \/ RescanReturned
  <2>1. UNCHANGED vars /\ call = NoCall
    BY <1>1, <1>6 DEF Configured, LoadModule, LoopReturned, UseReturned, RescanReturned, Control
  <2>2. stage' \in {"configuring", "module", "dispatch"} => stage \in {"configuring", "module", "dispatch"}
    BY <1>6 DEF Configured, LoadModule, LoopReturned, UseReturned, RescanReturned, GoesTo, ToDone, Exit
  <2> QED
    BY <1>4, <2>1, <2>2
<1>7. CASE RunsLoop
  <2>1. PICK op \in {"initialize", "remove"} : BeginLoop(op) /\ stage = "dispatch" /\ stage' = "loop"
    BY <1>7 DEF RunsLoop, InitializeAll, RemoveAll, GoesTo
  <2>2. /\ Begins(op) /\ library = "READY" /\ chips' = MatchAll(chips, adapters, clients)
        /\ call'.by = (IF TableIsCurrent THEN {} ELSE {"table"}) \cup (IF Stale(chips') THEN {"stale"} ELSE {})
    BY <1>1, <2>1, LoopBegins
  <2>3. TableIsCurrent /\ ~Stale(chips)
    BY <1>1, <2>1, <2>2 DEF Fresh, Begins, kernelVars
  <2>4. ~Stale(chips')
    <3>1. \A k \in DOMAIN chips : chips'[k].matched => \E d \in clients : Matches(d, chips[k])
      BY <1>1, <2>2, <2>3, MatchedFollow DEF Stale
    <3>2. SameChips(chips', chips)
      BY <1>1, <2>2, MatchAllIsSame
    <3> QED
      BY <3>1, <3>2, SameChipsMatch DEF Stale, SameChips
  <2> QED
    BY <2>1, <2>2, <2>3, <2>4 DEF Begins, Fresh
<1>8. CASE Dispatch
  <2>1. UNCHANGED vars /\ stage' \in {"use", "done"} /\ call = NoCall
    BY <1>1, <1>8 DEF Dispatch, ToDone, GoesTo, Control
  <2> QED
    BY <1>4, <2>1
<1>9. CASE OpenRescans
  BY <1>9, RescanBegins DEF OpenRescans, Begins, Fresh
<1>10. CASE Rescans
  <2>1. CASE RescanTable
    BY <2>1, RescanBegins DEF Begins, Fresh
  <2>2. CASE \E items \in DefaultInputs : I2cdevInit(items)
    <3>1. Begins("init") /\ library = "UNINITIALIZED" /\ chips' = chips /\ call'.step = "load"
      BY <2>2, InitBegins
    <3>2. chips = <<>>
      BY <3>1 DEF MainInv, SourceIn
    <3>3. \A k \in DOMAIN chips' : ~chips'[k].matched
      BY <3>1, <3>2
    <3> QED
      BY <3>1, <3>3 DEF Begins, Fresh
  <2> QED
    BY <1>10, <2>1, <2>2 DEF Rescans, I2cdevRescan
<1>11. CASE Finish
  <2>1. call' = NoCall /\ library' = "UNINITIALIZED"
    BY <1>1, <1>11, CleanupCallEnds DEF Finish, vars, Control
  <2> QED
    BY <2>1 DEF Fresh
<1> QED
  BY <1>2, <1>3, <1>5, <1>6, <1>7, <1>8, <1>9, <1>10, <1>11 DEF LsiNext, MainStep
-----------------------------------------------------------------------------
(* LoopIsDone: a loop that the library alone disturbed leaves, when it      *)
(* returns, nothing undone but what the kernel refuses for good.            *)
LEMMA RemoveLoopEnds ==
  ASSUME LoopInv, call # NoCall, call.op = "remove", call.step = "next", Ends, call.by \subseteq {"refused"}
  PROVE  NothingLeft
<1> SUFFICES ASSUME NEW k \in DOMAIN chips, NEW d \in devices, Matches(d, chips[k])
             PROVE  d \in Firmware
  BY DEF NothingLeft
<1>1. call \in Call /\ Ahead("remove", chips, call.i) = {}
  BY DEF Ends, LoopInv, ChipsInv, TypeOK
<1>2. call.i \in Nat /\ k \in Nat
  BY <1>1, NoCallIsNone DEF LoopInv, ChipsInv, TypeOK
<1>3. /\ TableFollows
      /\ \A j \in DOMAIN chips, e \in devices : Passed(j) /\ Matches(e, chips[j]) => e \in Firmware
  BY DEF LoopInv, RemoveLoop
<1>4. CASE k <= call.i
  <2>1. Passed(k)
    BY <1>2, <1>4 DEF Passed
  <2> QED
    BY <1>3, <2>1
<1>5. CASE k > call.i
  BY <1>1, <1>3, <1>5, ComesToMatched DEF LoopInv, TableFollows
<1> QED
  BY <1>2, <1>4, <1>5

LEMMA InitializeLoopEnds ==
  ASSUME LoopInv, call # NoCall, call.op = "initialize", call.step = "next", Ends, call.by \subseteq {"refused"},
         ParentsFirst
  PROVE  NothingMissing
<1> SUFFICES ASSUME NEW k \in DOMAIN chips, chips[k].bus \in Present(roots, devices), chips[k].addr \in Addr
             PROVE  Taken(chips[k].bus, chips[k].addr)
  BY DEF NothingMissing
<1>1. call \in Call /\ Ahead("initialize", chips, call.i) = {}
  BY DEF Ends, LoopInv, ChipsInv, TypeOK
<1>2. call.i \in Nat /\ k \in Nat
  BY <1>1, NoCallIsNone DEF LoopInv, ChipsInv, TypeOK
<1>3. TableFollows /\ MatchedAreThere /\ PassedAreDone
  BY DEF LoopInv, InitializeLoop
<1>4. CASE k <= call.i
  <2>1. Passed(k)
    BY <1>2, <1>4 DEF Passed
  <2> QED
    BY <1>3, <2>1 DEF PassedAreDone, Done
<1>5. CASE k > call.i
  BY <1>1, <1>3, <1>5, ComesToMissing DEF LoopInv, TableFollows
<1> QED
  BY <1>2, <1>4, <1>5

(* A loop returns with the library in use only from behind its last chip. *)
LEMMA LoopReturnsAtEnd ==
  ASSUME ChipsInv, library # "CRASHED", LibraryStep, call # NoCall, call.op \in {"initialize", "remove"},
         call' = NoCall, library' = "READY"
  PROVE  call.step = "next" /\ Ends /\ UNCHANGED <<roots, devices, chips>>
<1>1. call \in Call /\ call.op \in Ops /\ call.op # "init" /\ NoCall \notin Call
  BY NoCallIsNone DEF ChipsInv, TypeOK
<1>2. ~(LoadName \/ LoadLine \/ LoadFails \/ Loaded)
  BY DEF LoadName, LoadLine, LoadFails, Loaded, At
<1>3. ~(RescanInLoop \/ ScanFails)
  BY DEF RescanInLoop, Lists, ScanFails, Cleanup, Crash
<1>4. ~(StatNew \/ StatRemove)
  BY <1>1, StatLooks DEF Standstill, Looks, SteppedAt, Stepped
<1>5. ~WriteNew
  BY <1>1, WriteNewCreates DEF Creates, Refused, SteppedAt, Stepped
<1>6. ~WriteRemove
  BY <1>1, WriteRemoveDeletes DEF Deletes, Refused, SteppedAt, Stepped
<1>7. ~ScanSucceeds
  <2>1. SUFFICES ASSUME ScanSucceeds PROVE FALSE
    OBVIOUS
  <2>2. call' = [call EXCEPT !.step = "next"]
    BY <2>1 DEF ScanSucceeds, Crash
  <2>3. call' \in Call
    BY <1>1, <2>2 DEF Call
  <2> QED
    BY <1>1, <2>3
<1>8. NextChip
  BY <1>2, <1>3, <1>4, <1>5, <1>6, <1>7 DEF LibraryStep
<1>9. Ends
  <2>1. SUFFICES ASSUME ~Ends PROVE FALSE
    OBVIOUS
  <2>2. Comes \/ NoLoop
    BY <1>8, NextChipComes
  <2>3. ~Comes
    BY <1>1 DEF Comes, Stepped
  <2>4. call' = [call EXCEPT !.i = First(Ahead(call.op, chips, call.i)), !.step = "stat"]
    BY <1>8, <2>1 DEF NextChip
  <2>5. "step" \in DOMAIN call' /\ "step" \notin DOMAIN NoCall
    BY <1>1, <2>4 DEF Call, NoCall
  <2> QED
    BY <2>5
<1> QED
  BY <1>8, <1>9 DEF NextChip, InStep, kernelVars, configVars

(* A rescan for itself keeps the list, or frees it. *)
LEMMA RescanKeepsChips ==
  ASSUME ChipsInv, LibraryStep, library # "CRASHED", library' # "CRASHED", call # NoCall, call.op = "rescan"
  PROVE  UNCHANGED <<roots, devices>> /\ (chips' = chips \/ chips' = <<>>)
<1>1. call \in Call /\ call.step = "scan" /\ ~Crash
  BY DEF ChipsInv, TypeOK, Position, LoopOps, Call, Crash
<1>2. ScanSucceeds \/ ScanFails
  BY <1>1 DEF LibraryStep, LoadName, LoadLine, LoadFails, Loaded, NextChip, StatNew, WriteNew,
     StatRemove, WriteRemove, RescanInLoop, Removes, At, InStep
<1>3. CASE ScanSucceeds
  BY <1>1, <1>3 DEF ScanSucceeds, kernelVars
<1>4. CASE ScanFails
  BY <1>1, <1>4 DEF ScanFails, Cleanup, kernelVars
<1> QED
  BY <1>2, <1>3, <1>4

LEMMA LoopIsDoneKept ==
  ASSUME MainInv, library # "CRASHED", library' # "CRASHED", LsiNext
  PROVE  LoopIsDone'
<1> SUFFICES ASSUME changes' = 0, AfterLoop'
             PROVE  /\ Asked("remove") => NothingLeft'
                    /\ Asked("initialize") /\ ParentsFirst' => NothingMissing'
  BY OptionsStay, AskedStays DEF LoopIsDone
<1>1. LoopInv /\ ChipsInv /\ Control /\ Fresh /\ LoopIsDone /\ ~Crash
  BY DEF MainInv, LoopInv, Crash
<1>2. ASSUME UNCHANGED <<roots, devices, chips>>
      PROVE  (NothingLeft' <=> NothingLeft) /\ (NothingMissing' <=> NothingMissing) /\ (ParentsFirst' <=> ParentsFirst)
  BY <1>2 DEF NothingLeft, NothingMissing, ParentsFirst, Taken
<1>3. ASSUME UNCHANGED <<roots, devices, chips>>, changes = 0, AfterLoop
      PROVE  /\ Asked("remove") => NothingLeft'
             /\ Asked("initialize") /\ ParentsFirst' => NothingMissing'
  BY <1>1, <1>2, <1>3 DEF LoopIsDone
<1>4. ASSUME chips' = <<>>
      PROVE  NothingLeft' /\ NothingMissing'
  BY <1>4 DEF NothingLeft, NothingMissing
<1>5. ASSUME NeedsAdapter \/ Asked("probe") \/ Asked("config")
      PROVE  ~Asked("remove") /\ ~Asked("initialize")
  BY <1>5, AskedOnce DEF NeedsAdapter
<1>6. UNCHANGED vars => UNCHANGED <<roots, devices, chips>> /\ changes = 0
  BY DEF vars, kernelVars, configVars
<1>7. CASE KernelStep /\ UNCHANGED mainVars
  BY <1>1, <1>7, KernelCounts
<1>8. CASE LibraryStep /\ UNCHANGED mainVars
  <2>1. call # NoCall /\ call.op \in {"init", "rescan", "initialize", "remove"}
    BY <1>1, <1>8, NotOneAdapter
  <2>2. changes = 0 /\ UNCHANGED <<stage, err>> /\ (GoesOn \/ ReturnsTo("READY") \/ ReturnsTo("UNINITIALIZED"))
    BY <1>1, <1>8, <2>1, LibraryStepMoves DEF LibraryMoves, mainVars
  <2>3. CASE ReturnsTo("UNINITIALIZED")
    BY <1>4, <2>3 DEF ReturnsTo
  <2>4. CASE stage = "loop" /\ ~ReturnsTo("UNINITIALIZED")
    <3>1. call.op \in {"initialize", "remove"} /\ Asked(call.op)
      BY <1>1, <2>1, <2>4 DEF Control, CallIsMains
    <3>2. call' = NoCall /\ library' = "READY"
      BY <2>2, <2>4 DEF AfterLoop, GoesOn, ReturnsTo
    <3>3. call.step = "next" /\ Ends /\ UNCHANGED <<roots, devices, chips>>
      BY <1>1, <1>8, <2>1, <3>1, <3>2, LoopReturnsAtEnd
    <3>4. call.by \subseteq {"refused"}
      BY <1>1, <2>1, <2>2, <3>1 DEF Fresh
    <3>5. CASE call.op = "remove"
      <4>1. NothingLeft
        BY <1>1, <2>1, <3>3, <3>4, <3>5, RemoveLoopEnds
      <4>2. ~Asked("initialize")
        BY <3>1, <3>5, AskedOnce
      <4> QED
        BY <1>2, <3>3, <4>1, <4>2
    <3>6. CASE call.op = "initialize"
      <4>1. ParentsFirst => NothingMissing
        BY <1>1, <2>1, <3>3, <3>4, <3>6, InitializeLoopEnds
      <4>2. ~Asked("remove")
        BY <3>1, <3>6, AskedOnce
      <4> QED
        BY <1>2, <3>3, <4>1, <4>2
    <3> QED
      BY <3>1, <3>5, <3>6
  <2>5. CASE stage # "loop"
    <3>1. stage = "rescanning" /\ err = "ok"
      BY <1>1, <2>1, <2>2, <2>5 DEF AfterLoop, Control
    <3>2. CASE call.op = "rescan"
      <4>1. UNCHANGED <<roots, devices>> /\ (chips' = chips \/ chips' = <<>>)
        BY <1>1, <1>8, <2>1, <3>2, RescanKeepsChips
      <4> QED
        BY <1>3, <1>4, <2>2, <3>1, <4>1 DEF AfterLoop
    <3>3. CASE call.op # "rescan"
      <4>1. Asked("probe")
        BY <1>1, <2>1, <3>1, <3>3 DEF Control, CallIsMains, MayRestart
      <4> QED
        BY <1>5, <4>1
    <3> QED
      BY <3>2, <3>3
  <2> QED
    BY <2>3, <2>4, <2>5
<1>9. CASE ReadConfigFile \/ Configured \/ Finish \/ OpenRescans
  <2>1. stage' \in {"configuring", "exited", "module", "using"}
    BY <1>9 DEF ReadConfigFile, Configured, Finish, OpenRescans, GoesTo, Exit
  <2> QED
    BY <2>1 DEF AfterLoop
<1>10. CASE LoadModule
  BY <1>10 DEF LoadModule, GoesTo, ToDone, AfterLoop
<1>11. CASE RunsLoop
  <2>1. stage' = "loop" /\ call' # NoCall
    BY <1>1, <1>11, LoopBegins DEF RunsLoop, InitializeAll, RemoveAll, Begins, GoesTo
  <2> QED
    BY <2>1 DEF AfterLoop
<1>12. CASE LoopReturned
  BY <1>3, <1>6, <1>12 DEF LoopReturned, AfterLoop
<1>13. CASE Dispatch
  <2>1. stage' = "use" \/ Asked("config") \/ Lookup
    BY <1>1, <1>13 DEF Dispatch
  <2>2. Lookup => ~Asked("remove") /\ ~Asked("initialize")
    BY DEF Lookup, Asked
  <2> QED
    BY <1>5, <2>1, <2>2 DEF AfterLoop
<1>14. CASE UseReturned
  <2>1. NeedsAdapter \/ Asked("probe")
    BY <1>1, <1>14 DEF UseReturned, Control, StageIsAsked
  <2> QED
    BY <1>5, <2>1
<1>15. CASE Rescans
  <2>1. stage = "done" /\ err = "ok" /\ UNCHANGED <<roots, devices, chips>> /\ changes = 0
    BY <1>1, <1>15, RescanBegins, InitBegins DEF Rescans, I2cdevRescan, Begins, kernelVars, Control, RescansLeft
  <2> QED
    BY <1>3, <2>1 DEF AfterLoop
<1>16. CASE RescanReturned
  <2>1. stage = "rescanning" /\ err = "ok" /\ UNCHANGED vars
    BY <1>1, <1>16 DEF RescanReturned, Control, RescansLeft
  <2> QED
    BY <1>3, <1>6, <2>1 DEF AfterLoop
<1> QED
  BY <1>7, <1>8, <1>9, <1>10, <1>11, <1>12, <1>13, <1>14, <1>15, <1>16 DEF LsiNext, MainStep
-----------------------------------------------------------------------------
LEMMA SourcesKept ==
  ASSUME MainInv, library # "CRASHED", library' # "CRASHED", LsiNext
  PROVE  SourceIn(Sources)'
<1>1. PICK S : S = Sources
  OBVIOUS
<1>2. Sources' = S
  BY <1>1, OptionsStay, AskedStays
<1>3. ChipsInv /\ Control /\ SourceIn(S)
  BY <1>1 DEF MainInv, LoopInv
<1>4. \A items \in S : items \in Seq(Item)
  BY <1>1, SourcesAreInputs
<1>5. [Next]_vars
  BY LsiIsNext DEF Crash
<1>6. ASSUME library = "UNINITIALIZED", call' # NoCall
      PROVE  call'.input \in S
  <2>1. call = NoCall /\ ~loaded
    BY <1>3, <1>6 DEF ChipsInv, TypeOK, Position, Call, SourceIn
  <2>2. ASSUME NEW items \in S, I2cdevInit(items)
        PROVE  call'.input \in S
    BY <2>1, <2>2 DEF I2cdevInit, Begin
  <2>3. CASE ReadConfigFile
    BY <1>1, <1>6, <2>1, <2>2, <2>3 DEF ReadConfigFile, Sources, vars
  <2>4. CASE Rescans
    <3>1. MayRestart
      BY <1>3, <1>6, <2>1, <2>4 DEF Rescans, Control, LibraryIsMains
    <3>2. \E items \in DefaultInputs : I2cdevInit(items)
      BY <1>6, <2>4 DEF Rescans, I2cdevRescan, RescanTable
    <3> QED
      BY <1>1, <2>2, <3>1, <3>2 DEF Sources
  <2>5. CASE KernelStep \/ LibraryStep
    BY <1>3, <2>1, <2>5, <1>6, NotOneAdapter DEF KernelStep, Disturbed
  <2>6. CASE RunsLoop \/ OpenRescans
    BY <1>6, <2>6 DEF RunsLoop, InitializeAll, RemoveAll, BeginLoop, OpenRescans, RescanTable
  <2>7. CASE Configured \/ LoadModule \/ LoopReturned \/ UseReturned \/ RescanReturned \/ Dispatch \/ Finish
    <3>1. UNCHANGED vars \/ I2cdevCleanup \/ Crash
      BY <2>7 DEF Configured, LoadModule, LoopReturned, UseReturned, RescanReturned, Dispatch, Finish
    <3> QED
      BY <1>6, <2>1, <3>1 DEF vars, I2cdevCleanup, Crash
  <2> QED
    BY <2>3, <2>4, <2>5, <2>6, <2>7 DEF LsiNext, MainStep
<1>7. SourceIn(S)'
  BY <1>3, <1>4, <1>5, <1>6, NextKeepsSource
<1> QED
  BY <1>2, <1>7 DEF SourceIn

LEMMA MainTypesKept ==
  ASSUME MainTypes, ret \in {"ok", "error"}, [LsiNext]_allVars
  PROVE  MainTypes'
<1>1. options.rescans \in Nat
  BY OptionsAssumption DEF MainTypes, Option
<1>2. CASE UNCHANGED allVars \/ UNCHANGED mainVars
  BY <1>2 DEF allVars, mainVars, MainTypes
<1>3. ASSUME UNCHANGED <<options, err, left>>, stage' = "exited", status' \in {"success", "failure"}
      PROVE  MainTypes'
  BY <1>3 DEF MainTypes
<1>4. CASE ReadConfigFile \/ Configured \/ RunsLoop \/ OpenRescans
  BY <1>4 DEF ReadConfigFile, Configured, RunsLoop, OpenRescans, GoesTo, Exit, MainTypes
<1>5. ASSUME NEW result \in {"ok", "error"}, ToDone(result)
      PROVE  MainTypes'
  BY <1>1, <1>5 DEF ToDone, MainTypes
<1>6. CASE LoadModule \/ Dispatch \/ UseReturned
  BY <1>5, <1>6 DEF LoadModule, Dispatch, UseReturned, GoesTo, MainTypes
<1>7. CASE Rescans
  BY <1>7 DEF Rescans, MainTypes
<1>8. CASE Finish
  <2>1. \/ stage' = "exited" /\ status' \in {"success", "failure"}
        \/ UNCHANGED <<stage, status>>
    BY <1>8 DEF Finish, Exit
  <2> QED
    BY <1>3, <1>8, <2>1 DEF Finish, MainTypes
<1>9. CASE LoopReturned \/ RescanReturned
  BY <1>5, <1>9 DEF LoopReturned, RescanReturned, MainTypes
<1> QED
  BY <1>2, <1>4, <1>6, <1>7, <1>8, <1>9 DEF LsiNext, MainStep
(* The process goes down in one way, which changes nothing else. *)
LEMMA DownIsCrash ==
  ASSUME LsiNext, library' = "CRASHED"
  PROVE  Crash /\ err' = err /\ (stage' = stage \/ (stage = "dispatch" /\ stage' = "loop"))
<1>1. library # "CRASHED"
  BY DEF LsiNext
<1>2. ASSUME NEW crashes, Cleanup(crashes)
      PROVE  Crash
  BY <1>2 DEF Cleanup
<1>3. CASE KernelStep
  BY <1>1, <1>3 DEF KernelStep
<1>4. CASE LibraryStep /\ UNCHANGED mainVars
  <2>1. ~Loaded /\ ~RescanInLoop
    BY DEF Loaded, RescanInLoop, Lists
  <2>2. ~NextChip /\ ~WriteNew /\ ~StatRemove /\ ~WriteRemove /\ ~LoadLine
    BY <1>1 DEF NextChip, WriteNew, StatRemove, WriteRemove, LoadLine, LoopGoesTo, LoopStepFails
  <2>3. CASE LoadName \/ StatNew \/ ScanSucceeds
    BY <1>1, <1>4, <2>3 DEF LoadName, StatNew, ScanSucceeds, LoopGoesTo, mainVars
  <2>4. CASE LoadFails \/ ScanFails
    BY <1>2, <1>4, <2>4 DEF LoadFails, ScanFails, mainVars
  <2> QED
    BY <1>4, <2>1, <2>2, <2>3, <2>4 DEF LibraryStep
<1>5. CASE MainStep
  <2>1. ~UNCHANGED vars
    BY <1>1 DEF vars
  <2>2. ~(ReadConfigFile \/ Configured \/ LoadModule \/ LoopReturned \/ UseReturned \/ RescanReturned)
    BY <2>1 DEF ReadConfigFile, I2cdevInit, Configured, LoadModule, LoopReturned, UseReturned, RescanReturned, vars
  <2>3. ~(OpenRescans \/ Rescans)
    BY DEF OpenRescans, Rescans, I2cdevRescan, RescanTable, Lists, I2cdevInit
  <2>4. CASE RunsLoop
    BY <2>4 DEF RunsLoop, InitializeAll, RemoveAll, BeginLoop, GoesTo
  <2>5. CASE Dispatch
    BY <2>1, <2>5 DEF Dispatch, GoesTo
  <2>6. CASE Finish
    BY <1>2, <2>1, <2>6 DEF Finish, I2cdevCleanup
  <2> QED
    BY <1>5, <2>2, <2>3, <2>4, <2>5, <2>6 DEF MainStep
<1> QED
  BY <1>3, <1>4, <1>5 DEF LsiNext

LEMMA LsiInvInit == ASSUME LsiInit PROVE LsiInv
<1>1. /\ options \in Options /\ stage = "start" /\ err = "ok" /\ left = 0 /\ status = "none"
      /\ call = NoCall /\ library = "UNINITIALIZED" /\ adapters = {} /\ chips = <<>> /\ ~loaded
  BY DEF LsiInit, Init
<1>2. options.rescans \in Nat
  BY <1>1, OptionsAssumption DEF Option
<1>3. LoopInv
  BY LoopInvInit DEF LsiInit
<1>4. SourceIn(Sources)
  BY <1>1 DEF SourceIn
<1>5. Control
  BY <1>1, <1>2 DEF Control, CallIsMains, LibraryIsMains, StageIsAsked, RescansLeft, CleanIsEmpty
<1>6. Fresh /\ LoopIsDone
  BY <1>1 DEF Fresh, LoopIsDone, AfterLoop
<1>7. LsiTypeOK
  BY <1>1, <1>3 DEF LsiTypeOK, LoopInv, ChipsInv
<1> QED
  BY <1>1, <1>3, <1>4, <1>5, <1>6, <1>7 DEF LsiInv, MainInv

LEMMA LsiNextKeepsInv ==
  ASSUME LsiInv, [LsiNext]_allVars
  PROVE  LsiInv'
<1>1. LsiTypeOK /\ TypeOK /\ MainTypes /\ ret \in {"ok", "error"}
  BY DEF LsiInv, LsiTypeOK, MainTypes, TypeOK
<1>2. MainTypes'
  BY <1>1, MainTypesKept
<1>3. options' = options /\ (Asked("remove")' <=> Asked("remove"))
      /\ (Asked("initialize")' <=> Asked("initialize"))
      /\ (NeedsAdapter' <=> NeedsAdapter) /\ (Asked("probe")' <=> Asked("probe"))
      /\ (MayRestart' <=> MayRestart) /\ Sources' = Sources
  BY OptionsStay, AskedStays
<1>4. CASE UNCHANGED allVars
  <2>1. UNCHANGED vars /\ UNCHANGED mainVars
    BY <1>4 DEF allVars
  <2>2. UNCHANGED <<roots, devices, changes, library, adapters, clients, loaded, chips, names, call, ret>>
    BY <2>1 DEF vars, kernelVars, tableVars, configVars
  <2>3. UNCHANGED <<options, stage, err, left, status>>
    BY <2>1 DEF mainVars
  <2>4. LsiTypeOK'
    BY <1>1, <2>2, <2>3 DEF LsiTypeOK, TypeOK
  <2>5. LoopInv => LoopInv'
    BY <2>1, NextKeepsLoopInv
  <2>6. SourceIn(Sources) => SourceIn(Sources)'
    BY <1>3, <2>2 DEF SourceIn, Reads
  <2>7. Control => Control'
    BY <1>3, <2>2, <2>3 DEF Control, CallIsMains, LibraryIsMains, StageIsAsked, RescansLeft, CleanIsEmpty
  <2>8. Fresh => Fresh'
    BY <2>2, <2>3 DEF Fresh, TableIsCurrent, Stale
  <2>9. LoopIsDone => LoopIsDone'
    BY <1>3, <2>2, <2>3 DEF LoopIsDone, AfterLoop, NothingLeft, NothingMissing, ParentsFirst, Taken
  <2> QED
    BY <2>2, <2>3, <2>4, <2>5, <2>6, <2>7, <2>8, <2>9 DEF LsiInv, MainInv
<1>5. CASE LsiNext /\ library' = "CRASHED"
  <2>1. /\ Crash /\ err' = err /\ library # "CRASHED"
        /\ stage' = stage \/ (stage = "dispatch" /\ stage' = "loop")
    BY <1>5, DownIsCrash DEF LsiNext
  <2>2. UNCHANGED <<roots, devices, changes, adapters, clients, loaded, chips, names, call, ret>>
    BY <2>1 DEF Crash, kernelVars, tableVars, configVars
  <2>3. TypeOK'
    BY <1>1, <1>5, <2>2 DEF TypeOK
  <2>4. LsiTypeOK'
    BY <1>1, <1>2, <2>1, <2>2, <2>3 DEF LsiTypeOK, MainTypes
  <2>5. stage' = "done" => LoopIsDone'
    BY <1>3, <2>1, <2>2 DEF LsiInv, LoopIsDone, AfterLoop, NothingLeft, NothingMissing, ParentsFirst, Taken
  <2>6. stage' # "exited"
    <3>1. stage = "exited" => ~Crash
      <4>1. SUFFICES ASSUME stage = "exited", LsiNext, library' = "CRASHED" PROVE FALSE
        BY <1>5
      <4>2. call = NoCall
        BY <1>1, <4>1 DEF LsiTypeOK
      <4>3. ~MainStep
        BY <4>1 DEF MainStep, ReadConfigFile, Configured, LoadModule, RunsLoop, LoopReturned, Dispatch,
           OpenRescans, UseReturned, Rescans, RescanReturned, Finish
      <4>4. ~LibraryStep
        BY <2>1, <4>2, NotOneAdapter DEF LsiInv, MainInv
      <4>5. ~KernelStep
        BY <2>1, <4>1 DEF KernelStep
      <4> QED
        BY <4>1, <4>3, <4>4, <4>5 DEF LsiNext
    <3> QED
      BY <2>1, <3>1
  <2> QED
    BY <1>5, <2>4, <2>5, <2>6 DEF LsiInv
<1>6. CASE LsiNext /\ library' # "CRASHED"
  <2>1. library # "CRASHED" /\ MainInv
    BY <1>6 DEF LsiNext, LsiInv
  <2>2. LoopInv'
    <3>1. [Next]_vars
      BY <1>6, LsiIsNext DEF Crash
    <3> QED
      BY <2>1, <3>1, NextKeepsLoopInv DEF MainInv
  <2>3. Control' /\ SourceIn(Sources)' /\ Fresh' /\ LoopIsDone'
    BY <1>1, <1>6, <2>1, ControlKept, SourcesKept, FreshKept, LoopIsDoneKept
  <2>4. LsiTypeOK'
    BY <1>2, <2>2, <2>3 DEF LsiTypeOK, MainTypes, LoopInv, ChipsInv, Control
  <2> QED
    BY <1>6, <2>2, <2>3, <2>4 DEF LsiInv, MainInv
<1> QED
  BY <1>4, <1>5, <1>6

LEMMA LsiInvHolds == LsiSpec => []LsiInv
<1>1. LsiInit => LsiInv
  BY LsiInvInit
<1>2. LsiInv /\ [LsiNext]_allVars => LsiInv'
  BY LsiNextKeepsInv
<1> QED
  BY <1>1, <1>2, PTL DEF LsiSpec

-----------------------------------------------------------------------------
(* main is in a call exactly as long as the library is, whatever it is      *)
(* asked for and whatever fails.                                            *)
THEOREM MainKeepsTypes == LsiSpec => []LsiTypeOK
<1>1. LsiInv => LsiTypeOK
  BY DEF LsiInv
<1> QED
  BY <1>1, LsiInvHolds, PTL

(* The chips lsi2c works with are those of the file, or the default files,  *)
(* that its command line names; but for a probe, whose failed rescan makes  *)
(* -R start over with the default files.                                    *)
THEOREM OneConfigurationIsUsed == LsiSpec => []OneConfiguration
<1>1. LsiInv => OneConfiguration
  <2> SUFFICES ASSUME LsiInv, library = "READY"
               PROVE  \/ \E items \in Inputs(options.file) : ReadFrom(chips, items)
                      \/ Asked("probe") /\ \E items \in DefaultInputs : ReadFrom(chips, items)
    BY DEF OneConfiguration
  <2>1. loaded /\ SourceIn(Sources)
    BY DEF LsiInv, MainInv, LsiTypeOK, TypeOK
  <2>2. \E items \in Sources : ReadFrom(chips, items)
    BY <2>1 DEF SourceIn
  <2> QED
    BY <2>2 DEF Sources, MayRestart
<1> QED
  BY <1>1, LsiInvHolds, PTL

(* Every way out of main, after any error of any step, leaves the library   *)
(* cleaned up, and success is reported only when the last step succeeded.   *)
THEOREM ExitIsClean == LsiSpec => []ExitsCleanedUp
<1>1. LsiInv => ExitsCleanedUp
  <2> SUFFICES ASSUME LsiInv, stage = "exited"
               PROVE  /\ library = "UNINITIALIZED" /\ chips = <<>> /\ adapters = {}
                      /\ (status = "success" => (err = "ok" /\ (options.rescans > 0 => ret = "ok")))
    BY DEF ExitsCleanedUp
  <2>1. MainInv /\ call = NoCall
    BY DEF LsiInv, LsiTypeOK
  <2>2. library = "UNINITIALIZED" /\ adapters = {}
    BY <2>1 DEF MainInv, Control, LibraryIsMains, CleanIsEmpty
  <2>3. chips = <<>>
    BY <2>1, <2>2 DEF MainInv, SourceIn
  <2> QED
    BY <2>1, <2>2, <2>3 DEF MainInv, Control, RescansLeft
<1> QED
  BY <1>1, LsiInvHolds, PTL

(* lsi2c -r that goes on without an error has removed every device the      *)
(* configuration names that can be removed, and no later rescan of -R makes *)
(* that untrue.                                                             *)
THEOREM RemovalIsComplete == LsiSpec => []RemoveIsDone
<1>1. LsiInv => RemoveIsDone
  <2> SUFFICES ASSUME LsiInv, stage = "done", err = "ok", changes = 0, "remove" \in options.asked, ~Asked("config")
               PROVE  \A k \in DOMAIN chips, d \in devices \ Firmware : ~Matches(d, chips[k])
    BY DEF RemoveIsDone
  <2>1. Asked("remove")
    <3>1. DOMAIN Order = 1..7 /\ Order[1] = "config" /\ Order[2] = "remove"
      BY DEF Order
    <3>2. "config" \notin options.asked
      BY <3>1 DEF Asked
    <3> QED
      BY <3>1, <3>2 DEF Asked
  <2> QED
    BY <2>1 DEF LsiInv, LoopIsDone, AfterLoop, NothingLeft
<1> QED
  BY <1>1, LsiInvHolds, PTL

(* lsi2c -i alike leaves a device for every chip whose adapter there is,    *)
(* those behind multiplexers that it made itself included.                  *)
THEOREM InitializationIsComplete == LsiSpec => []InitializeIsDone
<1>1. LsiInv => InitializeIsDone
  BY DEF LsiInv, InitializeIsDone, LoopIsDone, AfterLoop, NothingMissing
<1> QED
  BY <1>1, LsiInvHolds, PTL
-----------------------------------------------------------------------------
(* main comes to its end                                                    *)

LEMMA LessIsLessOfThree ==
  ASSUME NEW a \in Nat, NEW b \in Nat, NEW c \in Nat, NEW d \in Nat, NEW e \in Nat, NEW f \in Nat,
         \/ a < d
         \/ a = d /\ b < e
         \/ a = d /\ b = e /\ c < f
  PROVE  LexLess(<<a, b, c>>, <<d, e, f>>)
<1> DEFINE s == <<a, b, c>>
           t == <<d, e, f>>
<1>1. /\ s \in [1..3 -> Nat] /\ s[1] = a /\ s[2] = b /\ s[3] = c
      /\ t \in [1..3 -> Nat] /\ t[1] = d /\ t[2] = e /\ t[3] = f
  OBVIOUS
<1> HIDE DEF s, t
<1>2. \A j \in 1..3 : j = 1 \/ j = 2 \/ j = 3
  OBVIOUS
<1>3. \E i \in 1..3 : s[i] < t[i] /\ \A j \in 1..3 : j < i => s[j] = t[j]
  <2>1. CASE a < d
    <3>1. 1 \in 1..3 /\ s[1] < t[1] /\ \A j \in 1..3 : j < 1 => s[j] = t[j]
      BY <1>1, <1>2, <2>1
    <3> QED
      BY <3>1
  <2>2. CASE a = d /\ b < e
    <3>1. 2 \in 1..3 /\ s[2] < t[2] /\ \A j \in 1..3 : j < 2 => s[j] = t[j]
      BY <1>1, <1>2, <2>2
    <3> QED
      BY <3>1
  <2>3. CASE a = d /\ b = e /\ c < f
    <3>1. 3 \in 1..3 /\ s[3] < t[3] /\ \A j \in 1..3 : j < 3 => s[j] = t[j]
      BY <1>1, <1>2, <2>3
    <3> QED
      BY <3>1
  <2> QED
    BY <2>1, <2>2, <2>3
<1>4. DOMAIN t = 1..3
  BY <1>1
<1> QED
  BY <1>1, <1>3, <1>4 DEF LexLess, s, t

(* main's own steps lead to a later stage, or have less rescans to make.    *)
MainMoves ==
  \/ StagesToCome' < StagesToCome
  \/ StagesToCome' = StagesToCome /\ left' < left
  \/ StagesToCome' = StagesToCome /\ left' = left /\ stage = "rescanning" /\ stage' = "done"

LEMMA MovedRank ==
  ASSUME LsiTypeOK, LsiTypeOK', MainMoves
  PROVE  LexLess(MainRank', MainRank)
<1> DEFINE again == IF stage = "rescanning" THEN 1 ELSE 0
           againNext == IF stage' = "rescanning" THEN 1 ELSE 0
<1>1. /\ StagesToCome \in Nat /\ StagesToCome' \in Nat /\ left \in Nat /\ left' \in Nat
  BY DEF LsiTypeOK, StagesToCome
<1>2. again \in Nat /\ againNext \in Nat
  OBVIOUS
<1>3. stage = "rescanning" /\ stage' = "done" => againNext < again
  OBVIOUS
<1>4. MainRank = <<StagesToCome, left, again>> /\ MainRank' = <<StagesToCome', left', againNext>>
  BY DEF MainRank
<1> HIDE DEF again, againNext
<1>5. CASE StagesToCome' < StagesToCome
  BY <1>1, <1>2, <1>4, <1>5, LessIsLessOfThree
<1>6. CASE StagesToCome' = StagesToCome /\ left' < left
  BY <1>1, <1>2, <1>4, <1>6, LessIsLessOfThree
<1>7. CASE StagesToCome' = StagesToCome /\ left' = left /\ stage = "rescanning" /\ stage' = "done"
  BY <1>1, <1>2, <1>3, <1>4, <1>7, LessIsLessOfThree
<1> QED
  BY <1>5, <1>6, <1>7 DEF MainMoves

LEMMA MainStepMoves ==
  ASSUME LsiInv, MainStep, library # "CRASHED", library' # "CRASHED"
  PROVE  MainMoves
<1>1. left \in Nat
  BY DEF LsiInv, LsiTypeOK
<1>2. ASSUME NEW result, ToDone(result), stage \in {"module", "dispatch", "loop", "use", "using"}
      PROVE  MainMoves
  BY <1>2 DEF ToDone, MainMoves, StagesToCome
<1>3. CASE ReadConfigFile
  BY <1>3 DEF ReadConfigFile, GoesTo, Exit, MainMoves, StagesToCome
<1>4. CASE Configured
  BY <1>4 DEF Configured, GoesTo, Exit, MainMoves, StagesToCome
<1>5. CASE LoadModule
  <2>1. stage = "module" /\ (GoesTo("dispatch") \/ ToDone("error"))
    BY <1>5 DEF LoadModule
  <2>2. CASE GoesTo("dispatch")
    BY <2>1, <2>2 DEF GoesTo, MainMoves, StagesToCome
  <2> QED
    BY <1>2, <2>1, <2>2
<1>6. CASE RunsLoop
  BY <1>6 DEF RunsLoop, GoesTo, MainMoves, StagesToCome
<1>7. CASE LoopReturned
  BY <1>2, <1>7 DEF LoopReturned
<1>8. CASE Dispatch
  <2>1. stage = "dispatch" /\ (GoesTo("use") \/ ToDone("ok") \/ ToDone("error"))
    BY <1>8 DEF Dispatch, Crash
  <2>2. CASE GoesTo("use")
    BY <2>1, <2>2 DEF GoesTo, MainMoves, StagesToCome
  <2> QED
    BY <1>2, <2>1, <2>2
<1>9. CASE OpenRescans
  BY <1>9 DEF OpenRescans, GoesTo, MainMoves, StagesToCome
<1>10. CASE UseReturned
  BY <1>2, <1>10 DEF UseReturned
<1>11. CASE Rescans
  <2>1. stage = "done" /\ stage' = "rescanning" /\ left' = left - 1
    BY <1>11 DEF Rescans
  <2> QED
    BY <1>1, <2>1 DEF MainMoves, StagesToCome
<1>12. CASE RescanReturned
  <2>1. stage = "rescanning" /\ stage' = "done" /\ (left' = left \/ left' = 0)
    BY <1>12 DEF RescanReturned
  <2>2. left' = left \/ left' < left
    BY <1>1, <2>1
  <2> QED
    BY <2>1, <2>2 DEF MainMoves, StagesToCome
<1>13. CASE Finish
  BY <1>13 DEF Finish, Exit, MainMoves, StagesToCome
<1> QED
  BY <1>3, <1>4, <1>5, <1>6, <1>7, <1>8, <1>9, <1>10, <1>11, <1>12, <1>13 DEF MainStep

(* lsi2c comes to its exit whatever becomes of its calls: the loop of       *)
(* rescans is above the label that a failed rescan jumps back to, and still *)
(* is not begun again.                                                      *)
THEOREM MainLeavesLess == LsiSpec => MainShrinks
<1>1. LsiInv /\ LsiInv' /\ [LsiNext]_allVars =>
        [ProgramStep => \/ library' = "CRASHED"
                        \/ LexLess(MainRank', MainRank)
                        \/ MainRank' = MainRank /\ LexLess(CallRank', CallRank)]_allVars
  <2> SUFFICES ASSUME LsiInv, LsiInv', ProgramStep, library' # "CRASHED"
               PROVE  \/ LexLess(MainRank', MainRank)
                      \/ MainRank' = MainRank /\ LexLess(CallRank', CallRank)
    OBVIOUS
  <2>1. CASE MainStep
    BY <2>1, MainStepMoves, MovedRank DEF LsiInv, ProgramStep
  <2>2. CASE LibraryStep /\ UNCHANGED mainVars
    <3>1. MainRank' = MainRank
      BY <2>2 DEF MainRank, StagesToCome, mainVars
    <3> QED
      <4>1. ChipsInv /\ TypeOK'
        BY DEF LsiInv, LsiTypeOK, MainInv, LoopInv, ProgramStep
      <4> QED
        BY <2>2, <3>1, <4>1, CallRankFalls
  <2> QED
    BY <2>1, <2>2 DEF ProgramStep
<1> QED
  BY <1>1, LsiInvHolds, PTL DEF LsiSpec, MainShrinks
==============================================================================
