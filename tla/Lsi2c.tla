-------------------------------- MODULE Lsi2c --------------------------------
(***************************************************************************)
(* The utility lsi2c (lsi2c/lsi2c.c): main reads the configuration, does   *)
(* the first thing its options ask for in a fixed order, rescans as often  *)
(* as it was told to, cleans up and exits.  The library under it is        *)
(* ConfigChips, of which main makes one call at a time.                    *)
(***************************************************************************)
EXTENDS ConfigChips

CONSTANTS
  Options      (* the command lines considered *)

(* What main looks for, in this order: -C, -r, -i, then -S or -T, which     *)
(* need an adapter, -P, -F, which needs one as well but is asked after the  *)
(* probe, and the options that print.                                       *)
Order == <<"config", "remove", "initialize", "tune", "probe", "funcs", "print">>

(* The options kept in locals of main: -c (a file name, "-", or none), -k,  *)
(* what is asked, -p and -R.                                                *)
Option == [file : {"default", "dash", "named"}, kmod : BOOLEAN, asked : SUBSET Range(Order),
           path : SUBSET Bus, rescans : Nat]

ASSUME OptionsAssumption ==
  \A o \in Options : o \in Option /\ \A b, c \in o.path : b = c

VARIABLES
  options,     (* the command line                                          *)
  stage,       (* where main is                                             *)
  err,         (* its err: an error is negative                             *)
  left,        (* rescans the loop at done has still to make                *)
  status       (* the exit status                                           *)

mainVars == <<options, stage, err, left, status>>
allVars == <<vars, mainVars>>

(* main and the library keep their types, and main is in a call exactly     *)
(* while the library is.                                                    *)
LsiTypeOK ==
  /\ TypeOK
  /\ options \in Options
  /\ stage \in {"start", "configuring", "module", "dispatch", "loop", "use", "using",
                "done", "rescanning", "exited"}
  /\ err \in {"ok", "error"} /\ left \in Nat
  /\ status \in {"none", "success", "failure"}
  /\ (call # NoCall => stage \in {"configuring", "loop", "using", "rescanning"})

LsiInit ==
  /\ Init
  /\ options \in Options
  /\ stage = "start" /\ err = "ok" /\ left = 0 /\ status = "none"

-----------------------------------------------------------------------------
Exit(result) == stage' = "exited" /\ status' = result

(* done: the loop starts anew, unless something failed.                     *)
ToDone(result) ==
  /\ stage' = "done"
  /\ err' = result
  /\ left' = IF result = "ok" THEN options.rescans ELSE 0
  /\ UNCHANGED <<options, status>>

GoesTo(next) == stage' = next /\ UNCHANGED <<options, err, left, status>>

(* read_config_file: "-" is opened like any other name, but not recorded;   *)
(* the help (lsi2c.c:84) says that it stands for stdin, which the fopen     *)
(* that follows (:190) overwrites.  "dash" is thus a file of that name.     *)
Inputs(file) ==
  IF file = "default" THEN DefaultInputs
  ELSE {items \in CallerInputs : Head(items).named = (file = "named")}

ReadConfigFile ==
  /\ stage = "start"
  /\ \/ \E items \in Inputs(options.file) : I2cdevInit(items) /\ GoesTo("configuring")
     \/ /\ options.file # "default"
        /\ Exit("failure")
        /\ UNCHANGED <<vars, options, err, left>>

Configured ==
  /\ stage = "configuring" /\ call = NoCall
  /\ \/ ret = "ok" /\ GoesTo("module")
     \/ ret = "error" /\ Exit("failure") /\ UNCHANGED <<options, err, left>>
  /\ UNCHANGED vars

(* try_load_i2c_dev_mod: 1 when it is loaded, which is kept in err.         *)
NeedsModule == options.kmod \/ options.asked \cap {"tune", "probe", "funcs"} # {}

LoadModule ==
  /\ stage = "module"
  /\ \/ GoesTo("dispatch")
     \/ NeedsModule /\ ToDone("error")
  /\ UNCHANGED vars

(* Mutant of Asked: -i before -r. *)
AskedSwapped(what) ==
  LET order == <<"config", "initialize", "remove", "tune", "probe", "funcs", "print">>
  IN \E k \in DOMAIN order :
       /\ order[k] = what /\ what \in options.asked
       /\ \A j \in 1..(k - 1) : order[j] \notin options.asked

(* The first of what is asked for *)
Asked(what) ==
  \E k \in DOMAIN Order :
    /\ Order[k] = what /\ what \in options.asked
    /\ \A j \in 1..(k - 1) : Order[j] \notin options.asked

(* -S, -T and -F fail without the adapter, and when they cannot use it.     *)
NeedsAdapter == Asked("tune") \/ Asked("funcs")

RunsLoop ==
  /\ stage = "dispatch"
  /\ \/ Asked("remove") /\ RemoveAll
     \/ Asked("initialize") /\ InitializeAll
  /\ GoesTo("loop")

LoopReturned ==
  /\ stage = "loop" /\ call = NoCall
  /\ ToDone(ret)
  /\ UNCHANGED vars

(* Everything else looks the path up first, if there is one; a lookup       *)
(* asserts when no adapter was found.                                       *)
Found == options.path # {} /\ options.path \subseteq adapters
Lookup == \A what \in {"config", "remove", "initialize"} : what \notin options.asked

Dispatch ==
  /\ stage = "dispatch"
  /\ \/ Asked("config") /\ ToDone("ok") /\ UNCHANGED vars
     \/ /\ Lookup /\ options.path # {} /\ adapters = {}
        /\ Crash /\ GoesTo("dispatch")
     \/ /\ Lookup /\ (options.path # {} => adapters # {})
        /\ UNCHANGED vars
        /\ \/ NeedsAdapter /\ ~Found /\ ToDone("error")
           \/ (NeedsAdapter /\ Found) /\ GoesTo("use")
           \/ Asked("probe") /\ GoesTo("use")
           \/ ~NeedsAdapter /\ ~Asked("probe") /\ ToDone("ok")

(* Opening a client on the adapter, or on the probed path, may rescan; what *)
(* else can fail there is one of two results.  A probe's does not count.    *)
OpenRescans == stage = "use" /\ RescanTable /\ GoesTo("using")

UseReturned ==
  /\ \/ stage = "use"
     \/ stage = "using" /\ call = NoCall
  /\ \/ (stage = "using" => (ret = "ok" \/ Asked("probe"))) /\ ToDone("ok")
     \/ NeedsAdapter /\ ToDone("error")
  /\ UNCHANGED vars

(* The loop of rescans: a failed one starts at done again, where err ends   *)
(* it.                                                                      *)
Rescans ==
  /\ stage = "done" /\ left > 0
  /\ I2cdevRescan
  /\ stage' = "rescanning" /\ left' = left - 1
  /\ UNCHANGED <<options, err, status>>

(* Mutant of RescanReturned: the rest of the rescans is made all the same.  *)
RescanReturnedAnyway ==
  /\ stage = "rescanning" /\ call = NoCall
  /\ stage' = "done" /\ err' = ret
  /\ UNCHANGED <<vars, options, left, status>>

(* Mutant of RescanReturned: the loop starts anew after an error.           *)
RescanReturnedRestarts ==
  /\ stage = "rescanning" /\ call = NoCall
  /\ stage' = "done" /\ err' = ret
  /\ left' = IF ret = "ok" THEN left ELSE options.rescans
  /\ UNCHANGED <<vars, options, status>>

RescanReturned ==
  /\ stage = "rescanning" /\ call = NoCall
  /\ stage' = "done" /\ err' = ret
  /\ left' = IF ret = "ok" THEN left ELSE 0
  /\ UNCHANGED <<vars, options, status>>

(* Mutant of Finish: after an error main exits without the cleanup.         *)
FinishUnlessError ==
  /\ stage = "done" /\ left = 0
  /\ \/ library = "UNINITIALIZED" /\ UNCHANGED vars
     \/ library = "READY" /\ err = "error" /\ UNCHANGED vars
     \/ library = "READY" /\ err = "ok" /\ I2cdevCleanup
  /\ IF library' = "CRASHED" THEN UNCHANGED <<stage, status>>
     ELSE Exit(IF err = "error" THEN "failure" ELSE "success")
  /\ UNCHANGED <<options, err, left>>

(* i2cdev_cleanup, which returns at once for a library that a failed rescan *)
(* has cleaned up, and exit.                                                *)
Finish ==
  /\ stage = "done" /\ left = 0
  /\ \/ library = "UNINITIALIZED" /\ UNCHANGED vars
     \/ I2cdevCleanup
  /\ IF library' = "CRASHED" THEN UNCHANGED <<stage, status>>
     ELSE Exit(IF err = "error" THEN "failure" ELSE "success")
  /\ UNCHANGED <<options, err, left>>

MainStep ==
  \/ ReadConfigFile \/ Configured \/ LoadModule
  \/ RunsLoop \/ LoopReturned \/ Dispatch \/ OpenRescans \/ UseReturned
  \/ Rescans \/ RescanReturned \/ Finish

LsiNext ==
  /\ library # "CRASHED"
  /\ \/ MainStep
     \/ (KernelStep \/ LibraryStep) /\ UNCHANGED mainVars

LsiSpec == LsiInit /\ [][LsiNext]_allVars

(* main and the library are one thread, which is scheduled.                 *)
ProgramStep == library # "CRASHED" /\ (MainStep \/ (LibraryStep /\ UNCHANGED mainVars))
LsiFairSpec == LsiSpec /\ WF_allVars(ProgramStep)

-----------------------------------------------------------------------------
(* Properties *)

(* The list in use is the one the command line names, where "-" names a     *)
(* file as the code has it.  The exception is a probe whose rescan failed   *)
(* and cleaned up, with -F or without: main drops its error, and the        *)
(* rescans that follow initialise the library from the default files.       *)
OneConfiguration ==
  library = "READY" =>
    \/ \E items \in Inputs(options.file) : ReadFrom(chips, items)
    \/ Asked("probe") /\ \E items \in DefaultInputs : ReadFrom(chips, items)

(* Every way out of main leaves the library cleaned up, and with success    *)
(* only when the last thing it did had not failed.                          *)
ExitsCleanedUp ==
  stage = "exited" =>
    /\ library = "UNINITIALIZED" /\ chips = <<>> /\ adapters = {}
    /\ (status = "success" => (err = "ok" /\ (options.rescans > 0 => ret = "ok")))

(* lsi2c -r that goes on without an error, in a process and a kernel that   *)
(* nothing disturbed, has removed every device the configuration names      *)
(* that can be removed, whatever else was asked for.                        *)
RemoveIsDone ==
  stage = "done" /\ err = "ok" /\ changes = 0 /\ "remove" \in options.asked /\ ~Asked("config") =>
    \A k \in DOMAIN chips, d \in devices \ Firmware : ~Matches(d, chips[k])

(* lsi2c -i alike leaves a device for every chip that has an address and    *)
(* whose adapter there is, when multiplexers come first in the file.        *)
InitializeIsDone ==
  stage = "done" /\ err = "ok" /\ changes = 0 /\ Asked("initialize") /\ ParentsFirst =>
    \A k \in DOMAIN chips :
      chips[k].bus \in Present(roots, devices) /\ chips[k].addr \in Addr =>
        Taken(chips[k].bus, chips[k].addr)

(* What main has still to do, but for the call it is in.                    *)
StagesToCome ==
  CASE stage = "start" -> 7 [] stage = "configuring" -> 6 [] stage = "module" -> 5
    [] stage = "dispatch" -> 4 [] stage \in {"loop", "use"} -> 3 [] stage = "using" -> 2
    [] stage \in {"done", "rescanning"} -> 1 [] stage = "exited" -> 0

MainRank == <<StagesToCome, left, IF stage = "rescanning" THEN 1 ELSE 0>>

(* Each step of the program leaves less to do: the loop of rescans, whose   *)
(* count is reset by every error, does not begin anew.                      *)
MainShrinks ==
  [][ProgramStep =>
       \/ library' = "CRASHED"
       \/ LexLess(MainRank', MainRank)
       \/ MainRank' = MainRank /\ LexLess(CallRank', CallRank)]_allVars

(* lsi2c ends, however its rescans fail.                                    *)
MainExits == <>(stage = "exited" \/ library = "CRASHED")
==============================================================================
