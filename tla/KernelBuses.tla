----------------------------- MODULE KernelBuses -----------------------------
(***************************************************************************)
(* The kernel and devtmpfs as the library sees them through sysfs, stat(2) *)
(* and open(2): which bus holds which i2c number, and which device node    *)
(* /dev/i2c-<nr> names it.  The library never changes this state.          *)
(*                                                                         *)
(* A bus is a physical segment that keeps its place in the topology (a     *)
(* channel of a multiplexer, say); its number is handed out when the       *)
(* adapter is registered, so the same bus may come back under another      *)
(* number and the same number may later mean another bus.  A device node   *)
(* has an identity (st_dev, st_ino), fresh whenever the node is made.      *)
(***************************************************************************)
EXTENDS Naturals

CONSTANTS
  Bus,    (* physical bus segments                              *)
  Nr,     (* the adapter numbers the kernel hands out           *)
  Ino,    (* identities (st_dev, st_ino) of device nodes        *)
  NULL

ASSUME KernelAssumption ==
  /\ Nr \subseteq Nat
  /\ NULL \notin Bus
  /\ NULL \notin Ino

VARIABLE node   (* per number: the bus registered there, the node's identity *)

NodeTypeOK == node \in [Nr -> [bus : Bus \cup {NULL}, ino : Ino \cup {NULL}]]

Plugged == {n \in Nr : node[n].bus # NULL}

KernelInit == node = [n \in Nr |-> [bus |-> NULL, ino |-> NULL]]

(* An adapter driver or a multiplexer registers bus b under a free number. *)
Plug(n, b) ==
  /\ n \notin Plugged
  /\ \A m \in Nr : node[m].bus # b
  /\ node' = [node EXCEPT ![n].bus = b]

(* The adapter goes away and takes its device node with it. *)
Unplug(n) ==
  /\ n \in Plugged
  /\ node' = [node EXCEPT ![n] = [bus |-> NULL, ino |-> NULL]]

(* i2c-dev makes /dev/i2c-n for a registered adapter. *)
MakeNode(n, i) ==
  /\ n \in Plugged
  /\ node[n].ino = NULL
  /\ node' = [node EXCEPT ![n].ino = i]

(* i2c-dev is unloaded: the node goes, the adapter stays. *)
DropNode(n) ==
  /\ node[n].ino # NULL
  /\ node' = [node EXCEPT ![n].ino = NULL]

(* One change of the kernel's state; a new node takes an identity that is   *)
(* in use nowhere, which the user of this module passes as "fresh".         *)
KernelNext(fresh) ==
  \E n \in Nr :
    \/ \E b \in Bus : Plug(n, b)
    \/ Unplug(n)
    \/ \E i \in fresh : MakeNode(n, i)
    \/ DropNode(n)
==============================================================================
