------------------------------ MODULE MCBusTree ------------------------------
(* Small topologies of BusTree for TLC. *)
EXTENDS BusTree

CONSTANTS
  r,           (* a root adapter                                       *)
  a0,          (* the only channel of multiplexer A, off r             *)
  b0,          (* the only channel of multiplexer B, off r             *)
  c0,          (* the only channel of multiplexer C, off b0            *)
  d            (* an adapter off b0 that is no multiplexer's channel   *)

FiveBuses == {r, a0, b0, c0, d}

TheParent == (r :> NULL) @@ (a0 :> r) @@ (b0 :> r) @@ (c0 :> b0) @@ (d :> b0)
TheChan == (r :> -1) @@ (a0 :> 0) @@ (b0 :> 0) @@ (c0 :> 0) @@ (d :> -1)
==============================================================================
