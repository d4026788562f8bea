--------------------------- MODULE MCAdapterCache ----------------------------
(* Small instances of AdapterCache for TLC. *)
EXTENDS AdapterCache, TLC

CONSTANTS c1, c2, b1, b2, s1, s2, f1, f2, i1, i2, i3

OneClient == {c1}
TwoClients == {c1, c2}
OneBus == {b1}
TwoBuses == {b1, b2}
TwoScans == {s1, s2}
OneFd == {f1}
TwoFds == {f1, f2}
TwoInos == {i1, i2}
ThreeInos == {i1, i2, i3}

(* The members of these sets are interchangeable: no definition of the     *)
(* specification names one.                                                *)
Symmetric(clients, buses, inos, files) ==
  Permutations(clients) \cup Permutations(buses) \cup Permutations(inos)
  \cup Permutations(files) \cup Permutations(TwoScans)

SafetySymmetry == Symmetric(TwoClients, TwoBuses, ThreeInos, TwoFds)
=============================================================================
