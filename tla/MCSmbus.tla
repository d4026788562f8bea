------------------------------- MODULE MCSmbus -------------------------------
(* A small tree, and small sets of paths and calls, of SmbusCall for TLC. *)
EXTENDS SmbusCall, TLC

CONSTANTS
  r,           (* a root adapter                                            *)
  a, b,        (* the same channel of two multiplexers off it               *)
  p            (* a plain child of a, with a number beyond 255              *)

TheNr == (r :> 0) @@ (a :> 1) @@ (b :> 2) @@ (p :> 300)
TheParent == (r :> NoAdapter) @@ (a :> r) @@ (b :> r) @@ (p :> a)
TheMuxId == (r :> -1) @@ (a :> 0) @@ (b :> 1) @@ (p :> -1)
TheChannel == (r :> -1) @@ (a :> 0) @@ (b :> 0) @@ (p :> -1)

Num(n) == [n |-> n, whole |-> TRUE]
Junk(n) == [n |-> n, whole |-> FALSE]
Nothing == [empty |-> TRUE, id |-> Num(0), dot |-> "none", chan |-> Num(0)]
BusToken(n) == [Nothing EXCEPT !.empty = FALSE, !.id = n]
MuxToken(n, m) == [BusToken(n) EXCEPT !.dot = "inside", !.chan = m]

(* 7 is the number of no adapter; 2000 is 0 as an int here. *)
Tokens ==
  {Nothing, BusToken(Num(0)), BusToken(Num(1)), BusToken(Num(7)), BusToken(Num(300)), BusToken(Num(2000)), BusToken(Junk(0)),
   MuxToken(Num(0), Num(0)), MuxToken(Num(1), Num(0)), MuxToken(Num(0), Junk(0)), MuxToken(Junk(1), Num(0)),
   [BusToken(Num(1)) EXCEPT !.dot = "last"]}

Deep(n, last) == [k \in 1..n |-> IF k = n THEN last ELSE BusToken(Num(0))]
ThePaths ==
  UNION {[1..n -> Tokens] : n \in 0..3}
    \cup {Deep(n, last) : n \in 4..7, last \in {Nothing, BusToken(Num(0))}}
    \cup {Append(Deep(n, Nothing), BusToken(Num(0))) : n \in 4..7}

Call(op, addr, ten, length) == [op |-> op, addr |-> addr, ten |-> ten, length |-> length]
TheRequests ==
  {Call(op, addr, FALSE, 1) : op \in {"write_quick", "process_call", "transfer_data", "write_data"}, addr \in {80}}
    \cup {Call(op, 80, FALSE, n) : op \in WriteBlockOps \cup {"read_i2c_block_data", "block_process_call"},
                                   n \in {0, 32, 33}}
    \cup {Call("read_block_data", 80, FALSE, 0), Call("read_data", 80, FALSE, 255)}
    \cup {Call(op, addr, TRUE, 1) : op \in {"read_byte", "read_data"}, addr \in {80, 512}}
    \cup {Call("probe", addr, FALSE, mode) : addr \in {0, 16, 80, 200}, mode \in {0, 1, 2}}
==============================================================================
