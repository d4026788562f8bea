------------------------------ MODULE MCConfig ------------------------------
(* Small boards and configurations of ConfigChips for TLC. *)
EXTENDS ConfigChips, TLC

CONSTANTS root, side,     (* root adapters                                       *)
          behind,         (* a channel of a multiplexer on the first             *)
          mux, rtc,       (* device names                                        *)
          x70, x68        (* addresses                                           *)

TheProvider == (root :> NoDevice) @@ (side :> NoDevice) @@ (behind :> [bus |-> root, addr |-> x70, name |-> mux])

File(named) == [kind |-> "file", named |-> named]
Full(prefix, bus, spelled, addr) ==
  [kind |-> "line",
   line |-> [dashes |-> 3, prefix |-> prefix, i2c |-> TRUE, spelled |-> spelled, bus |-> bus, addr |-> addr]]

(* A multiplexer and a device behind it, with a comment between them. *)
Comment == [Full(rtc, side, "canonical", x68) EXCEPT !.line.dashes = 0]
ParentThenChild ==
  <<File(FALSE), Full(mux, root, "canonical", x70), Comment, Full(rtc, behind, "canonical", x68),
    Full(rtc, side, "canonical", x68)>>

(* The child first; a bus spelled by its number; the device of the firmware. *)
ChildFirst ==
  <<File(FALSE), Full(rtc, behind, "other", x68), Full(mux, root, "canonical", x70)>>
Fixed == <<File(FALSE), Full(rtc, root, "canonical", x68), Full(mux, behind, "canonical", x70)>>

(* Lines that leave a chip without a path or without an address. *)
Junk == <<File(FALSE), Full(rtc, behind, "junk", x68), Full(mux, root, "canonical", NoAddr)>>
NoBus == <<File(FALSE), [Full(rtc, root, "canonical", x68) EXCEPT !.line.i2c = FALSE]>>
TwoDashes == <<File(FALSE), [Full(mux, behind, "canonical", x70) EXCEPT !.line.dashes = 2]>>

(* Files with names, and one that cannot be read. *)
Named == <<File(TRUE), Full(mux, root, "canonical", x70)>>
TwoFiles == Named \o <<File(TRUE), Full(rtc, root, "canonical", x68)>>
Unreadable == [kind |-> "unreadable"]

TheCallerInputs == {ParentThenChild, ChildFirst, Fixed, Junk, NoBus, TwoDashes, Named}
TheDefaultInputs == {<<>>, TwoFiles, <<Unreadable>>, Named \o <<Unreadable>>}
TheFirmware == {[bus |-> root, addr |-> x68, name |-> rtc]}
==============================================================================
