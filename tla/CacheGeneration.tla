--------------------------- MODULE CacheGeneration ---------------------------
(***************************************************************************)
(* What the library promises about the pointers a client keeps into the    *)
(* adapter table, without adapters, numbers, nodes or descriptors: the     *)
(* table has a generation, a client is bound to the current generation or  *)
(* to nothing, and a new generation (a rescan, a cleanup) unbinds everyone *)
(* in the same step.                                                       *)
(***************************************************************************)
CONSTANTS Client, Generation, None   (* None is not a generation *)

VARIABLES
  gen,     (* generation of the adapter table, None when there is no table *)
  bound    (* per client: the generation its adapter belongs to, or None   *)

vars == <<gen, bound>>

Init == gen = None /\ bound = [c \in Client |-> None]

(* The table is built, rebuilt or dropped: nobody stays bound. *)
Rebuild ==
  /\ gen' \in (Generation \cup {None}) \ {gen}
  /\ bound' = [c \in Client |-> None]

(* Client c is attached to an adapter of the current table. *)
Bind(c) ==
  /\ gen # None
  /\ bound[c] = None
  /\ bound' = [bound EXCEPT ![c] = gen]
  /\ UNCHANGED gen

(* Client c is deleted. *)
Release(c) ==
  /\ bound' = [bound EXCEPT ![c] = None]
  /\ UNCHANGED gen

Next == Rebuild \/ \E c \in Client : Bind(c) \/ Release(c)

Spec == Init /\ [][Next]_vars
==============================================================================
