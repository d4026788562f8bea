------------------------------- MODULE Variant -------------------------------
(***************************************************************************)
(* What falls with each step of something that comes to an end: tuples of  *)
(* naturals, the most significant first.                                   *)
(***************************************************************************)
EXTENDS Integers

LexLess(s, t) ==
  /\ s \in [DOMAIN t -> Nat] /\ t \in [DOMAIN t -> Nat]
  /\ \E i \in DOMAIN t : s[i] < t[i] /\ \A j \in DOMAIN t : j < i => s[j] = t[j]
==============================================================================
