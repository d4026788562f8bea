----------------------------- MODULE ConfigFile -----------------------------
(***************************************************************************)
(* What the library reads from a configuration file: lines like            *)
(* "pca9541-i2c-1:0.1-0x73" become dev_config_chip entries (init.c,        *)
(* data.c), and the name of every file that has one is recorded in the     *)
(* array dev_config_files.                                                 *)
(*                                                                         *)
(* A line is what the code tells apart: how many dashes it has, its        *)
(* prefix, whether its type is "i2c", how its bus is spelled, its address. *)
(***************************************************************************)
EXTENDS Integers, SequencesExt

CONSTANTS
  Bus,       (* the places adapters can be at                              *)
  BusZero,   (* the one that has number 0                                  *)
  Name,      (* device names                                               *)
  Addr,      (* addresses a device can have                                *)
  NoAddr     (* address 0, which none has                                  *)

ASSUME ConfigAssumption ==
  /\ BusZero \in Bus
  /\ NoAddr \notin Addr

(* How a line spells its bus: exactly as the library names the adapter, in *)
(* another way that denotes it (its number, "01:0.1"), or as a number with *)
(* something behind it.                                                    *)
Spelling == {"canonical", "other", "junk"}

Line == [dashes : 0..3, prefix : Name, i2c : BOOLEAN, spelled : Spelling,
         bus : Bus, addr : Addr \cup {NoAddr}]

(* A new file, with or without a name, the next line of one, or a file     *)
(* that is there and cannot be opened.                                     *)
Item == [kind : {"file"}, named : BOOLEAN] \cup [kind : {"line"}, line : Line]
          \cup [kind : {"unreadable"}]

(* What an application passes to i2cdev_init is one open file; the files in *)
(* the default places are opened by their names.                            *)
IsStream(items) ==
  /\ items # <<>> /\ Head(items).kind = "file"
  /\ \A k \in 2..Len(items) : items[k].kind = "line"

AreDefaultFiles(items) ==
  \A k \in DOMAIN items :
    /\ items[k].kind = "file" => items[k].named
    /\ items[k].kind = "line" => k > 1 /\ items[k - 1].kind # "unreadable"

Chip == [prefix : Name, addr : Addr \cup {NoAddr}, path : {"canonical", "other", "none"},
         bus : Bus, matched : BOOLEAN, available : BOOLEAN]

(* dev_parse_bus_id: without "i2c-" the bus stays zeroed; a number with     *)
(* something behind it is kept as the number, but without a path.           *)
ParseBusId(line) ==
  IF ~line.i2c THEN [path |-> "none", bus |-> BusZero]
  ELSE [path |-> IF line.spelled = "junk" THEN "none" ELSE line.spelled, bus |-> line.bus]

(* A line with no third dash is added with the bus and the address zeroed. *)
ChipOf(line) ==
  LET id == IF line.dashes = 3 THEN ParseBusId(line) ELSE [path |-> "none", bus |-> BusZero]
  IN [prefix |-> line.prefix, addr |-> IF line.dashes = 3 THEN line.addr ELSE NoAddr,
      path |-> id.path, bus |-> id.bus, matched |-> FALSE, available |-> FALSE]

(* Blank lines, comments and lines with less than two dashes are dropped. *)
IsChipLine(line) == line.dashes >= 2

(* The end of the list is where a chip is inserted. *)
ParseLine(chips, line) == IF IsChipLine(line) THEN Append(chips, ChipOf(line)) ELSE chips

-----------------------------------------------------------------------------
(* The array of file names *)

NameTable == [count : Nat, max : Nat, buffer : {"null", "block"}]
NoNames == [count |-> 0, max |-> 0, buffer |-> "null"]

(* realloc of glibc: size 0 frees a block, and makes a minimal one of NULL, *)
(* which still has room for one pointer.                                    *)
Realloc(buffer, elements) == IF elements = 0 /\ buffer = "block" THEN "null" ELSE "block"

(* parse_config doubles the capacity, which starts with 0.  What it stores  *)
(* is the beginning of the name, not a pointer to it.                       *)
RecordName(t) ==
  LET full == t.count + 1 > t.max
      max == IF full THEN 2 * t.max ELSE t.max
  IN [count |-> t.count + 1, max |-> max,
      buffer |-> IF full THEN Realloc(t.buffer, max) ELSE t.buffer]

(* Storing through NULL, and freeing text as if it were a pointer, crash. *)
StoreCrashes(t) == RecordName(t).buffer = "null"
FreeCrashes(t) == t.count > 0

==============================================================================
