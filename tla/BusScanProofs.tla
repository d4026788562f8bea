---------------------------- MODULE BusScanProofs ----------------------------
(***************************************************************************)
(* What a scan finds although adapters come and go while it reads them:    *)
(* one that nothing disturbed has every bus under its place, no adapter is *)
(* left out of the tree unless three changes fell into one scan, and each  *)
(* scan comes to its end.  Proved for every topology and every set of      *)
(* numbers.                                                                *)
(*                                                                         *)
(* Directories are nested as the buses are (Placed, Trail), and a bus goes *)
(* only when nothing hangs off it.  So with each change what was read      *)
(* differs from what there is by one more step: with none they agree       *)
(* (AsItIs), with one they differ by what came or by what went (OneAway),  *)
(* with two an adapter that was read may have lost its parent, but not if  *)
(* it is still there (TwoAway).                                            *)
(***************************************************************************)
EXTENDS BusTreeProofs

-----------------------------------------------------------------------------
(* sysfs *)

(* A bus has one number at a time. *)
OneNumber == \A m, n \in Plugged : node[m].bus = node[n].bus => m = n

(* The directory of a bus is in the directory of the bus it hangs off. *)
Placed ==
  \A n \in Plugged :
    IF Parent[node[n].bus] = NULL THEN dir[n] = <<n>>
    ELSE \E q \in Plugged : node[q].bus = Parent[node[n].bus] /\ dir[n] = Append(dir[q], n)

Starts(t, s, i) == Len(t) = i /\ \A j \in 1..i : t[j] = s[j]

(* The numbers in the path of a directory are those of the buses above. *)
Trail ==
  \A n \in Plugged : \A i \in 1..Len(dir[n]) :
    dir[n][i] \in Plugged /\ Starts(dir[dir[n][i]], dir[n], i)

KernelInv == OneNumber /\ Placed /\ Trail

LEMMA AppendEnds ==
  ASSUME NEW S, NEW s \in Seq(S), NEW x \in S
  PROVE  /\ Append(s, x) \in Seq(S) /\ Len(Append(s, x)) = Len(s) + 1 /\ Len(s) \in Nat
         /\ Append(s, x)[Len(s) + 1] = x
         /\ \A i \in 1..Len(s) : Append(s, x)[i] = s[i]
OBVIOUS

LEMMA AppendsSame ==
  ASSUME NEW S, NEW s \in Seq(S), NEW t \in Seq(S), NEW x \in S, NEW y \in S,
         Append(s, x) = Append(t, y)
  PROVE  s = t /\ x = y
<1>1. /\ Len(Append(s, x)) = Len(s) + 1 /\ Len(Append(t, y)) = Len(t) + 1
      /\ Len(s) \in Nat /\ Len(t) \in Nat
      /\ Append(s, x)[Len(s) + 1] = x /\ Append(t, y)[Len(t) + 1] = y
      /\ \A i \in 1..Len(s) : Append(s, x)[i] = s[i]
      /\ \A i \in 1..Len(t) : Append(t, y)[i] = t[i]
  BY AppendEnds
<1>2. Len(s) = Len(t)
  BY <1>1
<1>3. \A i \in 1..Len(s) : s[i] = t[i]
  BY <1>1, <1>2
<1>4. x = y
  BY <1>1, <1>2
<1> QED
  BY <1>2, <1>3, <1>4

LEMMA OneIsAppended ==
  ASSUME NEW S, NEW s \in Seq(S), NEW x \in S, Append(s, x) = <<x>>
  PROVE  s = <<>>
<1>1. Len(s) = 0
  <2>1. Len(Append(s, x)) = Len(s) + 1 /\ Len(s) \in Nat
    OBVIOUS
  <2>2. Len(<<x>>) = 1
    OBVIOUS
  <2> QED
    BY <2>1, <2>2
<1> QED
  BY <1>1

(* The path of a directory ends in the directory's own number. *)
LEMMA EndsInSelf ==
  ASSUME TypeOK, HasDirectory, Placed, NEW n \in Plugged
  PROVE  /\ dir[n] \in Seq(Nr) /\ n \in Nr /\ Len(dir[n]) \in Nat /\ Len(dir[n]) >= 1
         /\ dir[n][Len(dir[n])] = n
<1>1. n \in Nr /\ dir[n] \in Seq(Nr) /\ dir[n] # <<>>
  BY DEF TypeOK, Plugged, HasDirectory
<1>2. Len(dir[n]) \in Nat /\ Len(dir[n]) >= 1
  <2>1. PICK s \in Seq(Nr) : s = dir[n] /\ s # <<>>
    BY <1>1
  <2>2. Len(s) \in Nat /\ Len(s) >= 1
    BY <2>1
  <2> QED
    BY <2>1, <2>2
<1>3. CASE Parent[node[n].bus] = NULL
  <2>1. dir[n] = <<n>>
    BY <1>3 DEF Placed
  <2> QED
    BY <1>1, <1>2, <2>1
<1>4. CASE Parent[node[n].bus] # NULL
  <2>1. PICK q \in Plugged : dir[n] = Append(dir[q], n)
    BY <1>4 DEF Placed
  <2>2. dir[q] \in Seq(Nr)
    BY DEF TypeOK, Plugged
  <2>3. PICK s \in Seq(Nr) : s = dir[q]
    BY <2>2
  <2>4. Append(s, n)[Len(s) + 1] = n /\ Len(Append(s, n)) = Len(s) + 1
    BY <1>1, AppendEnds
  <2> QED
    BY <1>1, <1>2, <2>1, <2>3, <2>4
<1> QED
  BY <1>3, <1>4

(* A directory that ends like that is in the directory of its parent's bus. *)
LEMMA InParentsDirectory ==
  ASSUME TypeOK, HasDirectory, Placed, NEW q \in Plugged, NEW n \in Plugged,
         dir[n] = Append(dir[q], n)
  PROVE  Parent[node[n].bus] = node[q].bus
<1>1. dir[q] \in Seq(Nr) /\ n \in Nr /\ dir[q] # <<>> /\ q \in Nr
  BY DEF TypeOK, Plugged, HasDirectory
<1>2. CASE Parent[node[n].bus] = NULL
  <2>1. dir[n] = <<n>>
    BY <1>2 DEF Placed
  <2>2. PICK s \in Seq(Nr) : s = dir[q]
    BY <1>1
  <2>3. Append(s, n) = <<n>>
    BY <2>1, <2>2
  <2>4. s = <<>>
    BY <1>1, <2>3, OneIsAppended
  <2> QED
    BY <1>1, <2>2, <2>4
<1>3. CASE Parent[node[n].bus] # NULL
  <2>1. PICK p \in Plugged : node[p].bus = Parent[node[n].bus] /\ dir[n] = Append(dir[p], n)
    BY <1>3 DEF Placed
  <2>2. dir[p] \in Seq(Nr)
    BY DEF TypeOK, Plugged
  <2>3. PICK s \in Seq(Nr), t \in Seq(Nr) : s = dir[q] /\ t = dir[p]
    BY <1>1, <2>2
  <2>4. Append(s, n) = Append(t, n)
    BY <2>1, <2>3
  <2>5. s = t
    BY <1>1, <2>4, AppendsSame
  <2>6. p = q
    BY <2>3, <2>5, EndsInSelf
  <2> QED
    BY <2>1, <2>6
<1> QED
  BY <1>2, <1>3

(* What a change of the topology does. *)
Added(x) ==
  /\ x \in Nr /\ x \notin Plugged
  /\ Plugged' = Plugged \cup {x}
  /\ \A n \in Plugged : node'[n].bus = node[n].bus /\ dir'[n] = dir[n]
  /\ \A n \in Plugged : node[n].bus # node'[x].bus
  /\ IF Parent[node'[x].bus] = NULL THEN dir'[x] = <<x>>
     ELSE \E q \in Plugged : node[q].bus = Parent[node'[x].bus] /\ dir'[x] = Append(dir[q], x)

Removed(x) ==
  /\ x \in Plugged
  /\ Plugged' = Plugged \ {x}
  /\ \A n \in Plugged' : node'[n].bus = node[n].bus /\ dir'[n] = dir[n]
  /\ \A n \in Plugged : Parent[node[n].bus] # node[x].bus

LEMMA ChangeAddsOrRemoves ==
  ASSUME TypeOK, TopologyChanges
  PROVE  \E x \in Nr : Added(x) \/ Removed(x)
<1>1. NodeTypeOK /\ dir \in [Nr -> Seq(Nr)] /\ Plugged \subseteq Nr
  BY DEF TypeOK, Plugged
<1>2. ASSUME NEW x \in Nr, NEW b \in Bus, BusAppears(x, b) PROVE Added(x)
  <2>1. node' = [node EXCEPT ![x].bus = b] /\ b # NULL /\ x \notin Plugged /\ \A m \in Nr : node[m].bus # b
    BY <1>2, KernelAssumption DEF BusAppears, Plug
  <2>2. \A m \in Nr : m # x => node'[m] = node[m]
    BY <1>1, <2>1 DEF NodeTypeOK
  <2>3. node'[x].bus = b
    BY <1>1, <2>1 DEF NodeTypeOK
  <2>4. Plugged' = Plugged \cup {x}
    BY <2>1, <2>2, <2>3 DEF Plugged
  <2>5. \A n \in Plugged : n \in Nr /\ n # x
    BY <1>1, <2>1
  <2>6. CASE Parent[b] = NULL
    <3>1. dir' = [dir EXCEPT ![x] = <<x>>]
      BY <1>2, <2>6 DEF BusAppears
    <3>2. dir'[x] = <<x>> /\ \A n \in Plugged : dir'[n] = dir[n]
      BY <1>1, <2>5, <3>1
    <3> QED
      BY <1>1, <2>1, <2>2, <2>3, <2>4, <2>5, <2>6, <3>2 DEF Added
  <2>7. CASE Parent[b] # NULL
    <3>1. PICK q \in Plugged : q = NumberOf(Parent[b]) /\ node[q].bus = Parent[b]
      BY <1>2, <2>7 DEF BusAppears, IsPlugged, NumberOf
    <3>2. dir' = [dir EXCEPT ![x] = Append(dir[q], x)]
      BY <1>2, <2>7, <3>1 DEF BusAppears
    <3>3. dir'[x] = Append(dir[q], x) /\ \A n \in Plugged : dir'[n] = dir[n]
      BY <1>1, <2>5, <3>2
    <3>4. \E p \in Plugged : node[p].bus = Parent[node'[x].bus] /\ dir'[x] = Append(dir[p], x)
      BY <2>3, <3>1, <3>3
    <3> QED
      BY <1>1, <2>1, <2>2, <2>3, <2>4, <2>5, <2>7, <3>3, <3>4 DEF Added
  <2> QED
    BY <2>6, <2>7
<1>3. ASSUME NEW x \in Nr, BusGoes(x) PROVE Removed(x)
  <2>1. /\ node' = [node EXCEPT ![x] = [bus |-> NULL, ino |-> NULL]]
        /\ dir' = [dir EXCEPT ![x] = <<>>]
        /\ x \in Plugged
    BY <1>3 DEF BusGoes, Unplug
  <2>2. \A m \in Nr : m # x => node'[m] = node[m] /\ dir'[m] = dir[m]
    BY <1>1, <2>1 DEF NodeTypeOK
  <2>3. node'[x].bus = NULL
    BY <1>1, <2>1 DEF NodeTypeOK
  <2>4. Plugged' = Plugged \ {x}
    BY <2>2, <2>3 DEF Plugged
  <2>5. ASSUME NEW n \in Plugged PROVE Parent[node[n].bus] # node[x].bus
    <3>1. node[n].bus \in Bus /\ node[x].bus \in Bus
      BY <1>1, <2>1 DEF NodeTypeOK, Plugged
    <3>2. CASE Parent[node[n].bus] = node[x].bus
      <4>1. node[x].bus # NULL
        BY <2>1 DEF Plugged
      <4> QED
        BY <1>3, <2>1, <2>5, <3>1, <3>2 DEF BusGoes, IsPlugged
    <3> QED
      BY <3>2
  <2> QED
    BY <1>1, <2>1, <2>2, <2>4, <2>5 DEF Removed
<1> QED
  BY <1>2, <1>3 DEF TopologyChanges

(* A bus goes only when none hangs off it: its directory has none in it. *)
LEMMA RemovedIsLeaf ==
  ASSUME TypeOK, HasDirectory, Placed, NEW x, Removed(x), NEW n \in Plugged
  PROVE  dir[n] # Append(dir[x], n)
BY InParentsDirectory DEF Removed

LEMMA AddedKeepsKernel ==
  ASSUME TypeOK, HasDirectory, KernelInv, NEW x, Added(x)
  PROVE  KernelInv'
<1>1. /\ x \in Nr /\ x \notin Plugged /\ Plugged' = Plugged \cup {x}
      /\ \A n \in Plugged : node'[n].bus = node[n].bus /\ dir'[n] = dir[n]
      /\ \A n \in Plugged : node[n].bus # node'[x].bus
  BY DEF Added
<1>2. OneNumber'
  BY <1>1 DEF KernelInv, OneNumber
<1>3. Placed'
  <2> SUFFICES ASSUME NEW n \in Plugged'
               PROVE  IF Parent[node'[n].bus] = NULL THEN dir'[n] = <<n>>
                      ELSE \E q \in Plugged' : node'[q].bus = Parent[node'[n].bus] /\ dir'[n] = Append(dir'[q], n)
    BY DEF Placed
  <2>1. CASE n = x
    BY <1>1, <2>1 DEF Added
  <2>2. CASE n # x
    <3>1. n \in Plugged
      BY <1>1, <2>2
    <3>2. CASE Parent[node[n].bus] = NULL
      BY <1>1, <3>1, <3>2 DEF KernelInv, Placed
    <3>3. CASE Parent[node[n].bus] # NULL
      <4>1. PICK q \in Plugged : node[q].bus = Parent[node[n].bus] /\ dir[n] = Append(dir[q], n)
        BY <3>1, <3>3 DEF KernelInv, Placed
      <4>2. node'[q].bus = Parent[node'[n].bus] /\ dir'[n] = Append(dir'[q], n) /\ q \in Plugged'
        BY <1>1, <3>1, <4>1
      <4> QED
        BY <1>1, <3>1, <3>3, <4>2
    <3> QED
      BY <3>2, <3>3
  <2> QED
    BY <2>1, <2>2
<1>4. Trail'
  <2> SUFFICES ASSUME NEW n \in Plugged', NEW i \in 1..Len(dir'[n])
               PROVE  dir'[n][i] \in Plugged' /\ Starts(dir'[dir'[n][i]], dir'[n], i)
    BY DEF Trail
  <2>1. CASE n # x
    <3>1. n \in Plugged /\ dir'[n] = dir[n]
      BY <1>1, <2>1
    <3>2. dir[n][i] \in Plugged /\ Starts(dir[dir[n][i]], dir[n], i)
      BY <3>1 DEF KernelInv, Trail
    <3>3. PICK m \in Plugged : m = dir[n][i]
      BY <3>2
    <3>4. dir'[m] = dir[m] /\ m \in Plugged'
      BY <1>1
    <3> QED
      BY <3>1, <3>2, <3>3, <3>4
  <2>2. CASE n = x
    <3>1. CASE dir'[x] = <<x>>
      <4>0. <<x>> \in Seq(Nr) /\ Len(<<x>>) = 1 /\ <<x>>[1] = x
        BY <1>1
      <4>1. PICK t \in Seq(Nr) : t = <<x>> /\ Len(t) = 1 /\ t[1] = x
        BY <4>0, Zenon
      <4>2. dir'[n] = t /\ x \in Plugged'
        BY <1>1, <2>2, <3>1, <4>1
      <4>4. i = 1
        <5>1. Len(dir'[n]) = 1
          BY <4>1, <4>2
        <5> QED
          BY <5>1
      <4>3. Starts(t, t, 1)
        BY <4>1 DEF Starts
      <4> QED
        BY <2>2, <4>1, <4>2, <4>3, <4>4
    <3>2. CASE \E q \in Plugged : dir'[x] = Append(dir[q], x)
      <4>1. PICK q \in Plugged : dir'[x] = Append(dir[q], x)
        BY <3>2
      <4>2. dir[q] \in Seq(Nr)
        BY DEF TypeOK, Plugged
      <4>3. PICK s \in Seq(Nr) : s = dir[q]
        BY <4>2
      <4>4. PICK t \in Seq(Nr) : t = Append(s, x)
        BY <1>1, <4>3, AppendEnds
      <4>5. /\ Len(t) = Len(s) + 1 /\ Len(s) \in Nat /\ t[Len(s) + 1] = x
            /\ \A j \in 1..Len(s) : t[j] = s[j]
        BY <1>1, <4>4, AppendEnds
      <4>6. dir'[x] = t
        BY <4>1, <4>3, <4>4
      <4>7. CASE i = Len(s) + 1
        <5>1. dir'[n][i] = x
          BY <2>2, <4>5, <4>6, <4>7
        <5> QED
          BY <1>1, <2>2, <4>5, <4>6, <4>7, <5>1 DEF Starts
      <4>8. CASE i \in 1..Len(s)
        <5>1. s[i] \in Plugged /\ Starts(dir[s[i]], s, i)
          BY <4>3, <4>8 DEF KernelInv, Trail
        <5>2. PICK m \in Plugged : m = s[i]
          BY <5>1
        <5>3. dir'[m] = dir[m] /\ m \in Plugged' /\ t[i] = m
          BY <1>1, <4>5, <4>8, <5>2
        <5>4. Starts(dir[m], t, i)
          BY <4>5, <4>8, <5>1, <5>2 DEF Starts
        <5> QED
          BY <2>2, <4>6, <5>3, <5>4
      <4> QED
        BY <2>2, <4>5, <4>6, <4>7, <4>8
    <3> QED
      BY <3>1, <3>2 DEF Added
  <2> QED
    BY <2>1, <2>2
<1> QED
  BY <1>2, <1>3, <1>4 DEF KernelInv

LEMMA RemovedKeepsKernel ==
  ASSUME TypeOK, HasDirectory, KernelInv, NEW x, Removed(x)
  PROVE  KernelInv'
<1>1. /\ x \in Plugged /\ Plugged' = Plugged \ {x}
      /\ \A n \in Plugged' : n \in Plugged /\ node'[n].bus = node[n].bus /\ dir'[n] = dir[n]
      /\ \A n \in Plugged : Parent[node[n].bus] # node[x].bus
  BY DEF Removed
<1>2. OneNumber'
  BY <1>1 DEF KernelInv, OneNumber
<1>3. Placed'
  <2> SUFFICES ASSUME NEW n \in Plugged'
               PROVE  IF Parent[node'[n].bus] = NULL THEN dir'[n] = <<n>>
                      ELSE \E q \in Plugged' : node'[q].bus = Parent[node'[n].bus] /\ dir'[n] = Append(dir'[q], n)
    BY DEF Placed
  <2>1. n \in Plugged
    BY <1>1
  <2>2. CASE Parent[node[n].bus] = NULL
    BY <1>1, <2>1, <2>2 DEF KernelInv, Placed
  <2>3. CASE Parent[node[n].bus] # NULL
    <3>1. PICK q \in Plugged : node[q].bus = Parent[node[n].bus] /\ dir[n] = Append(dir[q], n)
      BY <2>1, <2>3 DEF KernelInv, Placed
    <3>2. q \in Plugged'
      BY <1>1, <2>1, <3>1
    <3> QED
      BY <1>1, <2>3, <3>1, <3>2
  <2> QED
    BY <2>2, <2>3
<1>4. Trail'
  <2> SUFFICES ASSUME NEW n \in Plugged', NEW i \in 1..Len(dir'[n])
               PROVE  dir'[n][i] \in Plugged' /\ Starts(dir'[dir'[n][i]], dir'[n], i)
    BY DEF Trail
  <2>1. n \in Plugged /\ dir'[n] = dir[n] /\ n # x
    BY <1>1
  <2>2. PICK s \in Seq(Nr) : s = dir[n] /\ s[Len(s)] = n /\ Len(s) \in Nat
    BY <2>1, EndsInSelf DEF KernelInv
  <2>3. PICK m \in Plugged : m = s[i] /\ Starts(dir[m], s, i)
    BY <2>1, <2>2 DEF KernelInv, Trail
  <2>4. m # x
    <3> SUFFICES ASSUME m = x PROVE FALSE
      OBVIOUS
    <3>1. i # Len(s)
      BY <2>1, <2>2, <2>3
    <3>2. i + 1 \in 1..Len(s) /\ i \in Nat
      BY <2>1, <2>2, <3>1
    <3>3. PICK c \in Plugged : c = s[i + 1] /\ Starts(dir[c], s, i + 1)
      BY <2>1, <2>2, <3>2 DEF KernelInv, Trail
    <3>4. dir[c] \in Seq(Nr) /\ dir[x] \in Seq(Nr) /\ c \in Nr
      BY <1>1 DEF TypeOK, Plugged
    <3>5. PICK t \in Seq(Nr), u \in Seq(Nr) : t = dir[x] /\ u = dir[c]
      BY <3>4
    <3>6. Starts(t, s, i) /\ Starts(u, s, i + 1)
      BY <2>3, <3>3, <3>5
    <3>7. u = Append(t, c)
      <4> PICK a \in Seq(Nr) : a = Append(t, c)
        BY <3>4, AppendEnds
      <4>1. /\ Len(a) = Len(t) + 1 /\ Len(t) \in Nat /\ a[Len(t) + 1] = c
            /\ \A j \in 1..Len(t) : a[j] = t[j]
        BY <3>4, AppendEnds
      <4>2. Len(u) = i + 1 /\ Len(t) = i /\ u[i + 1] = c
        BY <3>2, <3>3, <3>6 DEF Starts
      <4>3. \A j \in 1..i : u[j] = s[j] /\ t[j] = s[j]
        BY <3>2, <3>6 DEF Starts
      <4>4. Len(a) = Len(u) /\ \A j \in 1..Len(u) : a[j] = u[j]
        <5>1. \A j \in 1..Len(u) : j = i + 1 \/ j \in 1..i
          BY <4>2
        <5> QED
          BY <4>1, <4>2, <4>3, <5>1
      <4> QED
        BY <4>4
    <3> QED
      BY <3>5, <3>7, RemovedIsLeaf DEF KernelInv
  <2>5. m \in Plugged' /\ dir'[m] = dir[m]
    BY <1>1, <2>4
  <2> QED
    BY <2>1, <2>2, <2>3, <2>5
<1> QED
  BY <1>2, <1>3, <1>4 DEF KernelInv

LEMMA SameKernel ==
  ASSUME KernelInv, UNCHANGED sysfs
  PROVE  KernelInv' /\ Plugged' = Plugged
<1>1. node' = node /\ dir' = dir
  BY DEF sysfs
<1> QED
  BY <1>1 DEF KernelInv, OneNumber, Placed, Trail, Starts, Plugged

-----------------------------------------------------------------------------
(* What the scan reads *)

DirOf(n) == adapters[n].devpath

EndInSelf == \A n \in Scanned : DirOf(n)[Len(DirOf(n))] = n

(* The adapters that are in the array or will be, as far as they are there. *)
Seen == Scanned \cup left

(* Directory path d of adapter n is that of a root adapter, or it is in the *)
(* directory of an adapter that was read or is there to be read.            *)
Supported(d, n) ==
  \/ d = <<n>>
  \/ \E q \in Scanned : d = Append(DirOf(q), n)
  \/ \E q \in left \cap Plugged : d = Append(dir[q], n)

Whole(n) == DirOf(n) = <<n>> \/ \E q \in Scanned : DirOf(n) = Append(DirOf(q), n)

(* What was read of adapter n is what its directory has. *)
Current(n) == DirectoryExists(n) /\ adapters[n].chan = Chan[node[n].bus]

AsItIs == Plugged = Seen /\ \A n \in Scanned : Current(n)

OneAway ==
  /\ Seen \subseteq Plugged \/ Plugged \subseteq Seen
  /\ \A n \in Scanned \cap Plugged : DirectoryExists(n)
  /\ \A n \in Scanned : Supported(DirOf(n), n)

TwoAway ==
  /\ \A n \in Scanned \cap Plugged : Supported(DirOf(n), n)
  /\ \A n \in left \cap Plugged : Supported(dir[n], n)

(* How far what is read can be from what there is, by the changes so far:   *)
(* each of the three fails after one change more.                           *)
Reading ==
  pc = "read" =>
    /\ Scanned \cap left = {}
    /\ changes = 0 => AsItIs
    /\ changes <= 1 => OneAway
    /\ changes <= 2 => TwoAway

(* With two changes the parent of an adapter may be missing, but then the   *)
(* adapter is gone, and the scan fails when it opens its directory.         *)
Later ==
  pc \notin {"idle", "read"} =>
    /\ changes = 0 => Plugged = Scanned /\ \A n \in Scanned : Current(n)
    /\ changes <= 1 => \A n \in Scanned : Whole(n)
    /\ changes <= 2 => \A n \in Scanned :
         Whole(n) \/ (n \notin Plugged /\ pc # "ready" /\ (pc = "devices" => n \in left))

ScanInv == EndInSelf /\ Reading /\ Later

-----------------------------------------------------------------------------
(* Steps of the kernel during the scan *)

LEMMA AddedWhileReading ==
  ASSUME TypeOK, KernelInv, Reading, pc = "read", NEW x, Added(x),
         UNCHANGED treeVars, changes' = changes + 1
  PROVE  Reading'
<1>1. /\ pc' = pc /\ left' = left /\ adapters' = adapters /\ Scanned' = Scanned
      /\ changes \in Nat /\ \A n : DirOf(n)' = DirOf(n)
  BY DEF treeVars, TypeOK, Scanned, DirOf
<1>2. /\ x \notin Plugged /\ Plugged' = Plugged \cup {x}
      /\ \A n \in Plugged : dir'[n] = dir[n] /\ node'[n].bus = node[n].bus
  BY DEF Added
<1>3. ASSUME NEW n, NEW d, Supported(d, n)
      PROVE  d = <<n>> \/ (\E q \in Scanned : d = Append(DirOf(q), n))
                       \/ (\E q \in left' \cap Plugged' : d = Append(dir'[q], n))
  BY <1>1, <1>2, <1>3 DEF Supported
<1>4. ASSUME changes = 0 PROVE OneAway'
  <2>1. AsItIs /\ OneAway
    BY <1>4 DEF Reading
  <2>2. Seen' = Plugged /\ Seen' \subseteq Plugged'
    BY <1>1, <1>2, <2>1 DEF AsItIs, Seen
  <2>3. ASSUME NEW n \in Scanned PROVE dir'[n] = DirOf(n) /\ n \in Plugged'
    BY <1>1, <1>2, <2>1 DEF AsItIs, Current, DirectoryExists, DirOf
  <2>4. \A n \in Scanned' : DirectoryExists(n)'
    BY <1>1, <2>3 DEF DirectoryExists, DirOf
  <2>5. ASSUME NEW n \in Scanned' PROVE Supported(DirOf(n), n)'
    <3>1. Supported(DirOf(n), n)
      BY <1>1, <2>1 DEF OneAway
    <3> QED
      BY <1>1, <1>3, <3>1 DEF Supported
  <2> QED
    BY <2>2, <2>4, <2>5 DEF OneAway
<1>5. ASSUME changes <= 1 PROVE TwoAway'
  <2>1. OneAway /\ TwoAway
    BY <1>1, <1>5 DEF Reading
  <2>2. ASSUME NEW n \in (Scanned \cap Plugged)' PROVE Supported(DirOf(n), n)'
    <3>1. Supported(DirOf(n), n)
      BY <1>1, <2>1 DEF OneAway
    <3> QED
      BY <1>1, <1>3, <3>1 DEF Supported
  <2>3. ASSUME NEW n \in (left \cap Plugged)' PROVE Supported(dir[n], n)'
    <3>1. CASE n # x
      <4>1. n \in left \cap Plugged /\ dir'[n] = dir[n]
        BY <1>1, <1>2, <2>3, <3>1
      <4>2. Supported(dir[n], n)
        BY <2>1, <4>1 DEF TwoAway
      <4>3. PICK d : d = dir[n]
        OBVIOUS
      <4>4. Supported(d, n)'
        BY <1>1, <1>3, <4>2, <4>3 DEF Supported
      <4> QED
        BY <4>1, <4>3, <4>4
    <3>2. CASE n = x
      <4>1. Plugged \subseteq Seen
        BY <1>1, <1>2, <2>1, <2>3, <3>2 DEF OneAway, Seen
      <4>2. CASE dir'[x] = <<x>>
        BY <3>2, <4>2 DEF Supported
      <4>3. CASE \E q \in Plugged : dir'[x] = Append(dir[q], x)
        <5>1. PICK q \in Plugged : dir'[x] = Append(dir[q], x)
          BY <4>3
        <5>2. CASE q \in Scanned
          <6>1. DirOf(q) = dir[q]
            BY <2>1, <5>2 DEF OneAway, DirectoryExists, DirOf
          <6>2. DirOf(q)' = dir[q] /\ q \in Scanned'
            BY <1>1, <5>2, <6>1
          <6> QED
            BY <3>2, <5>1, <6>2 DEF Supported
        <5>3. CASE q \in left
          <6>1. q \in left' \cap Plugged' /\ dir'[q] = dir[q]
            BY <1>1, <1>2, <5>3
          <6> QED
            BY <3>2, <5>1, <6>1 DEF Supported
        <5> QED
          BY <4>1, <5>2, <5>3 DEF Seen
      <4> QED
        BY <4>2, <4>3 DEF Added
    <3> QED
      BY <3>1, <3>2
  <2> QED
    BY <2>2, <2>3 DEF TwoAway
<1>6. Scanned' \cap left' = {}
  BY <1>1 DEF Reading
<1> QED
  BY <1>1, <1>4, <1>5, <1>6 DEF Reading

LEMMA RemovedWhileReading ==
  ASSUME TypeOK, HasDirectory, KernelInv, Reading, pc = "read", NEW x, Removed(x),
         UNCHANGED treeVars, changes' = changes + 1
  PROVE  Reading'
<1>1. /\ pc' = pc /\ left' = left /\ adapters' = adapters /\ Scanned' = Scanned
      /\ changes \in Nat /\ \A n : DirOf(n)' = DirOf(n)
  BY DEF treeVars, TypeOK, Scanned, DirOf
<1>2. /\ x \in Plugged /\ Plugged' = Plugged \ {x}
      /\ \A n \in Plugged' : dir'[n] = dir[n] /\ node'[n].bus = node[n].bus
  BY DEF Removed
<1>3. ASSUME NEW n \in Plugged, Supported(dir[n], n)
      PROVE  dir[n] = <<n>> \/ (\E q \in Scanned : dir[n] = Append(DirOf(q), n))
                            \/ (\E q \in left' \cap Plugged' : dir[n] = Append(dir'[q], n))
  <2>1. dir[n] # Append(dir[x], n)
    BY RemovedIsLeaf DEF KernelInv
  <2> QED
    BY <1>1, <1>2, <1>3, <2>1 DEF Supported
<1>4. ASSUME changes = 0 PROVE OneAway'
  <2>1. AsItIs /\ OneAway
    BY <1>4 DEF Reading
  <2>2. Seen' = Plugged /\ Plugged' \subseteq Seen'
    BY <1>1, <1>2, <2>1 DEF AsItIs, Seen
  <2>3. \A n \in Scanned : dir[n] = DirOf(n) /\ n \in Plugged
    BY <1>1, <1>2, <2>1 DEF AsItIs, Current, DirectoryExists, DirOf
  <2>4. \A n \in (Scanned \cap Plugged)' : DirectoryExists(n)'
    BY <1>1, <1>2, <2>3 DEF DirectoryExists, DirOf
  <2>5. ASSUME NEW n \in Scanned' PROVE Supported(DirOf(n), n)'
    <3>1. PICK d : d = dir[n] /\ d = DirOf(n) /\ d = DirOf(n)'
      BY <1>1, <2>3
    <3>2. Supported(dir[n], n) /\ n \in Plugged
      BY <1>1, <2>1, <2>3, <3>1 DEF OneAway
    <3>3. Supported(d, n)'
      BY <1>1, <1>3, <3>1, <3>2 DEF Supported
    <3> QED
      BY <3>1, <3>3
  <2> QED
    BY <2>2, <2>4, <2>5 DEF OneAway
<1>5. ASSUME changes <= 1 PROVE TwoAway'
  <2>1. OneAway /\ TwoAway
    BY <1>1, <1>5 DEF Reading
  <2>2. ASSUME NEW n \in (Scanned \cap Plugged)' PROVE Supported(DirOf(n), n)'
    <3>1. PICK d : d = dir[n] /\ d = DirOf(n) /\ d = DirOf(n)'
      BY <1>1, <1>2, <2>1, <2>2 DEF OneAway, DirectoryExists, DirOf
    <3>2. Supported(dir[n], n) /\ n \in Plugged
      BY <1>1, <1>2, <2>1, <2>2, <3>1 DEF OneAway
    <3>3. Supported(d, n)'
      BY <1>1, <1>3, <3>1, <3>2 DEF Supported
    <3> QED
      BY <3>1, <3>3
  <2>3. ASSUME NEW n \in (left \cap Plugged)' PROVE Supported(dir[n], n)'
    <3>1. n \in left \cap Plugged /\ dir'[n] = dir[n]
      BY <1>1, <1>2, <2>3
    <3>2. Supported(dir[n], n)
      BY <2>1, <3>1 DEF TwoAway
    <3>3. PICK d : d = dir[n]
      OBVIOUS
    <3>4. Supported(d, n)'
      BY <1>1, <1>3, <3>1, <3>2, <3>3 DEF Supported
    <3> QED
      BY <3>1, <3>3, <3>4
  <2> QED
    BY <2>2, <2>3 DEF TwoAway
<1>6. Scanned' \cap left' = {}
  BY <1>1 DEF Reading
<1> QED
  BY <1>1, <1>4, <1>5, <1>6 DEF Reading

LEMMA KernelStepKeepsScan ==
  ASSUME TreeInv, KernelInv, ScanInv, KernelStep
  PROVE  KernelInv' /\ ScanInv'
<1>1. TypeOK /\ HasDirectory
  BY PartsOfInv
<1>2. PICK x : Added(x) \/ Removed(x)
  BY <1>1, ChangeAddsOrRemoves DEF KernelStep
<1>3. KernelInv'
  BY <1>1, <1>2, AddedKeepsKernel, RemovedKeepsKernel
<1>4. /\ UNCHANGED <<pc, left, adapters>> /\ UNCHANGED treeVars
      /\ changes' = (IF pc = "idle" THEN 0 ELSE changes + 1) /\ changes \in Nat
  BY <1>1 DEF KernelStep, treeVars, TypeOK
<1>5. EndInSelf'
  BY <1>4 DEF ScanInv, EndInSelf, DirOf, Scanned
<1>6. Reading'
  <2>1. CASE pc = "read"
    <3>1. changes' = changes + 1
      BY <1>4, <2>1
    <3>2. KernelInv /\ Reading
      BY DEF ScanInv
    <3>3. CASE Added(x)
      BY <1>1, <1>4, <2>1, <3>1, <3>2, <3>3, AddedWhileReading
    <3>4. CASE Removed(x)
      BY <1>1, <1>4, <2>1, <3>1, <3>2, <3>4, RemovedWhileReading
    <3> QED
      BY <1>2, <3>3, <3>4
  <2>2. CASE pc # "read"
    BY <1>4, <2>2 DEF Reading
  <2> QED
    BY <2>1, <2>2
<1>7. Later'
  <2> SUFFICES ASSUME pc \notin {"idle", "read"} PROVE Later'
    BY <1>4 DEF Later
  <2>1. changes' = changes + 1 /\ Scanned' = Scanned
    BY <1>4 DEF Scanned
  <2>2. \A n \in Scanned : Whole(n) => Whole(n)'
    BY <1>4 DEF Whole, DirOf, Scanned
  <2>3. changes <= 1 => \A n \in Scanned : Whole(n)'
    BY <2>2 DEF ScanInv, Later
  <2> QED
    BY <1>4, <2>1, <2>3 DEF Later
<1> QED
  BY <1>3, <1>5, <1>6, <1>7 DEF ScanInv

-----------------------------------------------------------------------------
(* Steps of the scan *)

LEMMA DroppedIsIdle ==
  ASSUME DropTable, pc' = "idle"
  PROVE  ScanInv'
<1>1. Scanned' = {}
  BY DEF DropTable, NoAdapters, Scanned
<1> QED
  BY <1>1 DEF ScanInv, EndInSelf, Reading, Later

LEMMA BeginScanStartsIt ==
  ASSUME TypeOK, KernelInv, BeginScan
  PROVE  ScanInv'
<1>1. Scanned' = {} /\ node' = node /\ dir' = dir /\ Plugged' = Plugged
      /\ left' = Plugged /\ pc' = (IF Plugged = {} THEN "ready" ELSE "read")
  BY DEF BeginScan, DropTable, NoAdapters, Scanned, sysfs, Plugged
<1>2. EndInSelf'
  BY <1>1 DEF EndInSelf
<1>3. Later'
  BY <1>1 DEF Later
<1>4. AsItIs' /\ OneAway'
  BY <1>1 DEF AsItIs, OneAway, Seen
<1>5. ASSUME NEW n \in (left \cap Plugged)' PROVE Supported(dir[n], n)'
  <2>1. n \in Plugged
    BY <1>1, <1>5
  <2>2. CASE Parent[node[n].bus] = NULL
    BY <1>1, <2>1, <2>2 DEF KernelInv, Placed, Supported
  <2>3. CASE Parent[node[n].bus] # NULL
    <3>1. PICK q \in Plugged : dir[n] = Append(dir[q], n)
      BY <2>1, <2>3 DEF KernelInv, Placed
    <3> QED
      BY <1>1, <3>1 DEF Supported
  <2> QED
    BY <2>2, <2>3
<1>6. Reading'
  BY <1>1, <1>4, <1>5 DEF Reading, TwoAway
<1> QED
  BY <1>2, <1>3, <1>6 DEF ScanInv

LEMMA ReadAdapterKeepsScan ==
  ASSUME TreeInv, KernelInv, ScanInv, NEW x \in Nr, ReadAdapter(x)
  PROVE  ScanInv'
<1>1. /\ UNCHANGED <<node, dir, pc, changes>> /\ Plugged' = Plugged
      /\ pc = "read" /\ x \in left /\ left' = left \ {x} /\ x \notin Scanned
      /\ Scanned \cap left = {}
  BY DEF ReadAdapter, sysfs, Plugged, ScanInv, Reading
<1>2. TypeOK /\ HasDirectory /\ Placed
  BY PartsOfInv DEF KernelInv
<1>3. Later'
  BY <1>1 DEF Later
<1>4. CASE x \notin Plugged
  <2>1. adapters' = adapters /\ Scanned' = Scanned /\ \A n : DirOf(n)' = DirOf(n)
    BY <1>4 DEF ReadAdapter, Scanned, DirOf
  <2>2. EndInSelf'
    BY <2>1 DEF ScanInv, EndInSelf
  <2>3. ASSUME NEW n, NEW d, Supported(d, n) PROVE Supported(d, n)'
    <3>1. left' \cap Plugged' = left \cap Plugged
      BY <1>1, <1>4
    <3> QED
      BY <1>1, <2>1, <2>3, <3>1 DEF Supported
  <2>4. changes = 0 => FALSE
    BY <1>1, <1>4 DEF ScanInv, Reading, AsItIs, Seen
  <2>5. ASSUME OneAway PROVE OneAway'
    <3>1. Plugged' \subseteq Seen'
      BY <1>1, <1>4, <2>1, <2>5 DEF OneAway, Seen
    <3>2. \A n \in (Scanned \cap Plugged)' : DirectoryExists(n)'
      BY <1>1, <2>1, <2>5 DEF OneAway, DirectoryExists
    <3>3. ASSUME NEW n \in Scanned' PROVE Supported(DirOf(n), n)'
      <4>1. PICK d : d = DirOf(n)
        OBVIOUS
      <4>2. Supported(d, n)
        BY <2>1, <2>5, <4>1 DEF OneAway
      <4>3. Supported(d, n)'
        BY <2>3, <4>2
      <4> QED
        BY <2>1, <4>1, <4>3
    <3> QED
      BY <3>1, <3>2, <3>3 DEF OneAway
  <2>6. ASSUME TwoAway PROVE TwoAway'
    <3>1. ASSUME NEW n \in (Scanned \cap Plugged)' PROVE Supported(DirOf(n), n)'
      <4>1. PICK d : d = DirOf(n)
        OBVIOUS
      <4>2. Supported(d, n)
        BY <1>1, <2>1, <2>6, <4>1 DEF TwoAway
      <4>3. Supported(d, n)'
        BY <2>3, <4>2
      <4> QED
        BY <2>1, <4>1, <4>3
    <3>2. ASSUME NEW n \in (left \cap Plugged)' PROVE Supported(dir[n], n)'
      <4>1. PICK d : d = dir[n] /\ d = dir'[n]
        BY <1>1
      <4>2. Supported(d, n)
        BY <1>1, <2>6, <4>1 DEF TwoAway
      <4>3. Supported(d, n)'
        BY <2>3, <4>2
      <4> QED
        BY <4>1, <4>3
    <3> QED
      BY <3>1, <3>2 DEF TwoAway
  <2>7. Scanned' \cap left' = {}
    BY <1>1, <2>1
  <2>8. Reading'
    BY <1>1, <2>4, <2>5, <2>6, <2>7 DEF ScanInv, Reading
  <2> QED
    BY <1>3, <2>2, <2>8 DEF ScanInv
<1>5. CASE x \in Plugged
  <2>1. adapters' = [m \in Scanned \cup {x} |->
          IF m = x THEN [devpath |-> dir[x], chan |-> Chan[node[x].bus],
                         busId |-> -1, children |-> <<>>, path |-> <<>>]
          ELSE adapters[m]]
    BY <1>5 DEF ReadAdapter, WithAdapter, Scanned
  <2>2. /\ Scanned' = Scanned \cup {x}
        /\ adapters'[x].devpath = dir[x] /\ adapters'[x].chan = Chan[node[x].bus]
        /\ \A m \in Scanned : adapters'[m] = adapters[m]
    BY <1>1, <2>1 DEF Scanned
  <2>3. DirOf(x)' = dir[x] /\ \A m \in Scanned : DirOf(m)' = DirOf(m)
    BY <2>2 DEF DirOf
  <2>4. EndInSelf'
    BY <1>2, <1>5, <2>2, <2>3, EndsInSelf DEF ScanInv, EndInSelf
  <2>5. ASSUME NEW n, NEW d, Supported(d, n) PROVE Supported(d, n)'
    <3>1. CASE d = <<n>>
      BY <3>1 DEF Supported
    <3>2. CASE \E q \in Scanned : d = Append(DirOf(q), n)
      BY <2>2, <2>3, <3>2 DEF Supported
    <3>3. CASE \E q \in left \cap Plugged : d = Append(dir[q], n)
      <4>1. PICK q \in left \cap Plugged : d = Append(dir[q], n)
        BY <3>3
      <4>2. CASE q = x
        BY <2>2, <2>3, <4>1, <4>2 DEF Supported
      <4>3. CASE q # x
        <5>1. q \in left' \cap Plugged' /\ dir'[q] = dir[q]
          BY <1>1, <4>1, <4>3
        <5> QED
          BY <4>1, <5>1 DEF Supported
      <4> QED
        BY <4>2, <4>3
    <3> QED
      BY <2>5, <3>1, <3>2, <3>3 DEF Supported
  <2>6. Seen' = Seen /\ Scanned' \cap left' = {}
    BY <1>1, <2>2 DEF Seen
  <2>7. ASSUME AsItIs PROVE AsItIs'
    <3>1. \A n \in Scanned : Current(n)'
      BY <1>1, <2>2, <2>7 DEF AsItIs, Current, DirectoryExists
    <3>2. Current(x)'
      BY <1>1, <1>5, <2>2 DEF Current, DirectoryExists
    <3> QED
      BY <1>1, <2>2, <2>6, <2>7, <3>1, <3>2 DEF AsItIs
  <2>8. ASSUME OneAway, TwoAway PROVE OneAway'
    <3>1. ASSUME NEW n \in (Scanned \cap Plugged)' PROVE DirectoryExists(n)'
      BY <1>1, <1>5, <2>2, <2>8, <3>1 DEF OneAway, DirectoryExists
    <3>2. ASSUME NEW n \in Scanned' PROVE Supported(DirOf(n), n)'
      <4>1. PICK d : d = DirOf(n)'
        OBVIOUS
      <4>2. Supported(d, n)
        BY <1>1, <1>5, <2>2, <2>3, <2>8, <4>1 DEF OneAway, TwoAway
      <4>3. Supported(d, n)'
        BY <2>5, <4>2
      <4> QED
        BY <4>1, <4>3
    <3> QED
      BY <1>1, <2>6, <2>8, <3>1, <3>2 DEF OneAway
  <2>9. ASSUME TwoAway PROVE TwoAway'
    <3>1. ASSUME NEW n \in (Scanned \cap Plugged)' PROVE Supported(DirOf(n), n)'
      <4>1. PICK d : d = DirOf(n)'
        OBVIOUS
      <4>2. Supported(d, n)
        BY <1>1, <1>5, <2>2, <2>3, <2>9, <4>1 DEF TwoAway
      <4>3. Supported(d, n)'
        BY <2>5, <4>2
      <4> QED
        BY <4>1, <4>3
    <3>2. ASSUME NEW n \in (left \cap Plugged)' PROVE Supported(dir[n], n)'
      <4>1. PICK d : d = dir[n] /\ d = dir'[n]
        BY <1>1
      <4>2. Supported(d, n)
        BY <1>1, <2>9, <4>1 DEF TwoAway
      <4>3. Supported(d, n)'
        BY <2>5, <4>2
      <4> QED
        BY <4>1, <4>3
    <3> QED
      BY <3>1, <3>2 DEF TwoAway
  <2>10. Reading'
    <3>1. changes \in Nat /\ changes' = changes
      BY <1>1, <1>2 DEF TypeOK
    <3> QED
      BY <1>1, <2>6, <2>7, <2>8, <2>9, <3>1 DEF ScanInv, Reading
  <2> QED
    BY <1>3, <2>4, <2>10 DEF ScanInv
<1> QED
  BY <1>4, <1>5

LEMMA SortArrayKeepsScan ==
  ASSUME TreeInv, ScanInv, SortArray
  PROVE  ScanInv'
<1>1. /\ UNCHANGED <<node, dir, left, adapters, changes>> /\ Plugged' = Plugged
      /\ pc = "read" /\ left = {} /\ Scanned' = Scanned /\ changes \in Nat
      /\ pc' = (IF Scanned = {} THEN "ready" ELSE "roots")
  BY DEF SortArray, sysfs, Plugged, Scanned, TreeInv, TypeOK
<1>2. /\ changes = 0 => AsItIs
      /\ changes <= 1 => OneAway
      /\ changes <= 2 => TwoAway
  BY <1>1 DEF ScanInv, Reading
<1>3. EndInSelf' /\ Reading'
  BY <1>1 DEF ScanInv, EndInSelf, Reading, DirOf
<1>4. \A n \in Scanned : /\ Supported(DirOf(n), n) => Whole(n)'
                         /\ Current(n)' <=> Current(n)
  BY <1>1 DEF Supported, Whole, DirOf, Current, DirectoryExists
<1>5. Later'
  <2>1. ASSUME changes = 0 PROVE Plugged' = Scanned' /\ \A n \in Scanned' : Current(n)'
    BY <1>1, <1>2, <1>4, <2>1 DEF AsItIs, Seen
  <2>2. ASSUME changes <= 1, NEW n \in Scanned' PROVE Whole(n)'
    BY <1>1, <1>2, <1>4, <2>2 DEF OneAway
  <2>3. ASSUME changes <= 2, NEW n \in Scanned' PROVE Whole(n)' \/ (n \notin Plugged' /\ pc' = "roots")
    BY <1>1, <1>2, <1>4, <2>3 DEF TwoAway
  <2> QED
    BY <1>1, <2>1, <2>2, <2>3 DEF Later
<1> QED
  BY <1>3, <1>5 DEF ScanInv

(* Building the tree changes nothing of what was read, and an adapter that  *)
(* is gone is in the way of the scan's end.                                 *)
SameAsRead ==
  /\ UNCHANGED <<node, dir, changes>>
  /\ Scanned' = Scanned
  /\ \A n \in Scanned : /\ adapters'[n].devpath = adapters[n].devpath
                        /\ adapters'[n].chan = adapters[n].chan

StillInTheWay(n) == pc # "ready" /\ (pc = "devices" => n \in left)

LEMMA MemoryKeepsScan ==
  ASSUME ScanInv, SameAsRead, pc \notin {"idle", "read"}, pc' \notin {"idle", "read"},
         \A n \in Scanned \ Plugged : StillInTheWay(n) => StillInTheWay(n)'
  PROVE  ScanInv'
<1>1. /\ Plugged' = Plugged /\ Scanned' = Scanned /\ changes' = changes
      /\ \A n \in Scanned : DirOf(n)' = DirOf(n) /\ (Current(n) => Current(n)')
  BY DEF SameAsRead, Plugged, DirOf, Current, DirectoryExists
<1>2. \A n \in Scanned : Whole(n) => Whole(n)'
  BY <1>1 DEF Whole
<1>3. EndInSelf' /\ Reading'
  BY <1>1 DEF ScanInv, EndInSelf, Reading
<1>4. Later'
  <2>1. ASSUME changes <= 2, NEW n \in Scanned PROVE Whole(n)' \/ (n \notin Plugged' /\ StillInTheWay(n)')
    BY <1>1, <1>2, <2>1 DEF ScanInv, Later, StillInTheWay
  <2>2. changes <= 1 => \A n \in Scanned : Whole(n)'
    BY <1>2 DEF ScanInv, Later
  <2>3. changes = 0 => Plugged' = Scanned' /\ \A n \in Scanned : Current(n)'
    BY <1>1 DEF ScanInv, Later
  <2> QED
    BY <1>1, <2>1, <2>2, <2>3 DEF Later, StillInTheWay
<1> QED
  BY <1>3, <1>4 DEF ScanInv

LEMMA BuildKeepsScan ==
  ASSUME TreeInv, ScanInv, TakeRoot \/ TakeChild \/ ChildrenTaken \/ TreeBuilt \/ GeneratePath
  PROVE  ScanInv' /\ SameAsRead
<1>1. /\ UNCHANGED <<node, dir, changes>>
      /\ pc \in {"roots", "children", "paths"} /\ pc' \in {"roots", "children", "paths"}
  BY DEF TakeRoot, TakeChild, ChildrenTaken, TreeBuilt, GeneratePath, sysfs
<1>2. SameAsRead
  <2>1. CASE TakeChild
    <3>1. PICK p \in Scanned, x \in Scanned : Moves(x, p)
      BY <2>1, TakeChildMoves
    <3> QED
      BY <1>1, <3>1 DEF Moves, SameAsRead, Scanned
  <2>2. CASE GeneratePath
    <3>1. adapters' = [adapters EXCEPT ![Head(todo)].path = PathOf(Head(todo))]
      BY <2>2 DEF GeneratePath
    <3>2. PICK h, p : adapters' = [adapters EXCEPT ![h].path = p]
      BY <3>1
    <3>3. adapters \in [Scanned -> Adapter]
      BY DEF TreeInv, TypeOK, Scanned
    <3>4. DOMAIN adapters' = Scanned
      BY <3>2, <3>3
    <3>5. ASSUME NEW n \in Scanned
          PROVE adapters'[n].devpath = adapters[n].devpath /\ adapters'[n].chan = adapters[n].chan
      <4>1. CASE n = h
        <5>1. adapters'[n] = [adapters[n] EXCEPT !.path = p] /\ adapters[n] \in Adapter
          BY <3>2, <3>3, <4>1
        <5> QED
          BY <5>1 DEF Adapter
      <4>2. CASE n # h
        BY <3>2, <3>3, <4>2
      <4> QED
        BY <4>1, <4>2
    <3> QED
      BY <1>1, <3>4, <3>5 DEF SameAsRead, Scanned
  <2>3. CASE TakeRoot \/ ChildrenTaken \/ TreeBuilt
    <3>1. adapters' = adapters
      BY <2>3 DEF TakeRoot, ChildrenTaken, TreeBuilt
    <3> QED
      BY <1>1, <3>1 DEF SameAsRead, Scanned
  <2> QED
    BY <2>1, <2>2, <2>3
<1> QED
  BY <1>1, <1>2, MemoryKeepsScan DEF StillInTheWay

LEMMA DirectoriesKeepScan ==
  ASSUME TreeInv, ScanInv, PathsGenerated \/ \E x \in Nr : OpenDirectory(x)
  PROVE  ScanInv' /\ SameAsRead
<1>1. CASE PathsGenerated
  <2>1. /\ UNCHANGED <<node, dir, changes, adapters>> /\ Scanned' = Scanned
        /\ pc = "paths" /\ pc' = "devices" /\ left' = Scanned
    BY <1>1 DEF PathsGenerated, sysfs, Scanned
  <2>2. SameAsRead
    BY <2>1 DEF SameAsRead
  <2> QED
    BY <2>1, <2>2, MemoryKeepsScan DEF StillInTheWay
<1>2. CASE \E x \in Nr : OpenDirectory(x)
  <2>1. PICK x \in Nr : OpenDirectory(x)
    BY <1>2
  <2>2. /\ UNCHANGED <<node, dir, changes, adapters>> /\ Scanned' = Scanned
        /\ pc = "devices" /\ pc' = (IF left' = {} THEN "ready" ELSE "devices")
        /\ left' = left \ {x} /\ x \in Plugged
    BY <2>1 DEF OpenDirectory, NextDirectory, DirectoryExists, sysfs, Scanned
  <2>3. SameAsRead
    BY <2>2 DEF SameAsRead
  <2> QED
    BY <2>2, <2>3, MemoryKeepsScan DEF StillInTheWay
<1> QED
  BY <1>1, <1>2

-----------------------------------------------------------------------------
(* What the build leaves on the search list *)

(* bus_children_get leaves no adapter whose parent it has put in the tree:  *)
(* it comes to each, and the children it finds it comes to as well.         *)
Taken ==
  /\ pc = "roots" => \A p \in Scanned : Children(p) = <<>>
  /\ pc \in {"children", "paths", "devices", "ready"} =>
       \A n \in ToSet(search) : ParentId(n) # NULL
  /\ pc = "children" =>
       \A n \in ToSet(search) : ParentId(n) \in InTree =>
         \/ ParentId(n) \in ToSet(todo)
         \/ todo # <<>> /\ ParentId(n) \in ToSet(Children(Head(todo)))
  /\ pc \in {"paths", "devices", "ready"} =>
       \A n \in ToSet(search) : ParentId(n) \notin InTree

LEMMA NothingBelow ==
  ASSUME TypeOK, NEW id, FirstBelow(id) = 0
  PROVE  \A n \in ToSet(search) : ParentId(n) # id
<1>1. search \in Seq(Nr)
  <2>1. search \in Seq(Scanned) /\ Scanned \subseteq Nr
    BY DEF TypeOK, Scanned
  <2> QED
    BY <2>1, ListOfMore
<1>2. \A j \in DOMAIN search : ParentId(search[j]) # id /\ j # 0
  BY <1>1, FirstBelowIsFirst
<1> QED
  BY <1>2 DEF ToSet

LEMMA EmptySearchIsTaken ==
  ASSUME search' = <<>>, pc' # "roots"
  PROVE  Taken'
<1>1. ToSet(search') = {}
  BY DEF ToSet
<1> QED
  BY <1>1 DEF Taken

LEMMA SortArrayIsTaken ==
  ASSUME TreeInv, SortArray
  PROVE  Taken'
<1>1. /\ pc = "read" /\ Scanned' = Scanned /\ adapters' = adapters
      /\ pc' = (IF Scanned = {} THEN "ready" ELSE "roots")
  BY DEF SortArray, Scanned
<1>2. \A p \in Scanned : Children(p)' = <<>>
  BY <1>1 DEF TreeInv, ListInv, Listed, Children
<1>3. ToSet(search') = Scanned
  BY DEF SortArray, Scanned
<1> QED
  BY <1>1, <1>2, <1>3 DEF Taken

LEMMA TakeRootIsTaken ==
  ASSUME TreeInv, Taken, TakeRoot
  PROVE  Taken'
<1>1. /\ pc = "roots" /\ adapters' = adapters /\ Scanned' = Scanned
      /\ \A p \in Scanned : Children(p) = <<>> /\ Children(p)' = <<>>
  BY DEF TakeRoot, Taken, Scanned, Children
<1>2. CASE FirstBelow(NULL) # 0
  <2>1. pc' = pc
    BY <1>2 DEF TakeRoot
  <2> QED
    BY <1>1, <2>1 DEF Taken
<1>3. CASE FirstBelow(NULL) = 0
  <2>1. todo' = root /\ pc' = "children" /\ root' = root /\ search' = search
    BY <1>3 DEF TakeRoot
  <2>2. \A n \in ToSet(search) : ParentId(n) # NULL
    BY <1>3, NothingBelow DEF TreeInv
  <2>3. ASSUME NEW p \in InTree PROVE p \in ToSet(root)
    <3>1. p \in Scanned /\ p \notin ToSet(search)
      BY DEF InTree, Scanned
    <3>2. p \in ToSet(root) \/ (ParentId(p) \in Scanned /\ p \in ToSet(Children(ParentId(p))))
      BY <1>1, <3>1 DEF TreeInv, ListInv, Listed
    <3>3. \A q \in Scanned : ToSet(Children(q)) = {}
      BY <1>1 DEF ToSet
    <3> QED
      BY <3>2, <3>3
  <2>4. InTree' = InTree /\ \A n : ParentId(n)' = ParentId(n)
    BY <1>1, <2>1 DEF InTree, ParentId, Scanned
  <2> QED
    BY <2>1, <2>2, <2>3, <2>4 DEF Taken
<1> QED
  BY <1>2, <1>3

LEMMA TakeChildIsTaken ==
  ASSUME TreeInv, Taken, TakeChild
  PROVE  Taken'
<1>1. PICK p \in Scanned, x \in Scanned : Moves(x, p)
  BY TakeChildMoves
<1>2. pc = "children" /\ pc' = "children" /\ todo' = todo /\ todo # <<>>
  BY DEF TakeChild
<1>3. /\ p = Head(todo) /\ Scanned' = Scanned /\ ToSet(search') = ToSet(search) \ {x}
      /\ ToSet(Children(p)') = {x} \cup ToSet(Children(p))
      /\ \A n \in Scanned : ParentId(n)' = ParentId(n)
  BY <1>1 DEF Moves, Takes, Children, ParentId, Scanned
<1>4. ToSet(search) \subseteq Scanned
  BY ListElements DEF TreeInv, TypeOK, Scanned
<1>5. InTree' = InTree \cup {x}
  <2>1. InTree = Scanned \ ToSet(search) /\ InTree' = Scanned' \ ToSet(search')
    BY DEF InTree, Scanned
  <2> QED
    BY <1>3, <2>1
<1>6. ASSUME NEW n \in ToSet(search')
      PROVE  /\ ParentId(n)' # NULL
             /\ ParentId(n)' \in InTree' =>
                  ParentId(n)' \in ToSet(todo) \/ ParentId(n)' \in ToSet(Children(p)')
  <2>1. n \in ToSet(search) /\ ParentId(n)' = ParentId(n)
    BY <1>3, <1>4, <1>6
  <2> QED
    BY <1>2, <1>3, <1>5, <2>1 DEF Taken
<1>7. Children(Head(todo))' = Children(p)'
  BY <1>2, <1>3 DEF Children
<1> QED
  BY <1>2, <1>6, <1>7 DEF Taken

LEMMA ChildrenTakenIsTaken ==
  ASSUME TreeInv, Taken, ChildrenTaken
  PROVE  Taken'
<1>1. /\ UNCHANGED <<pc, adapters, search>> /\ pc = "children" /\ todo # <<>>
      /\ FirstBelow(Head(todo)) = 0
      /\ todo' = IF search = <<>> THEN Tail(todo) ELSE Children(Head(todo)) \o Tail(todo)
  BY DEF ChildrenTaken, Children
<1>2. CASE search = <<>>
  BY <1>1, <1>2, EmptySearchIsTaken
<1>3. CASE search # <<>>
  <2>1. todo \in Seq(Scanned) /\ TypeOK /\ ByParent
    BY DEF TreeInv, ListInv, TypeOK, Scanned
  <2>2. /\ Head(todo) \in Scanned /\ Tail(todo) \in Seq(Scanned)
        /\ ToSet(todo) = {Head(todo)} \cup ToSet(Tail(todo))
    BY <1>1, <2>1, HeadAndTail
  <2>3. Children(Head(todo)) \in Seq(Scanned)
    BY <2>1, <2>2, ChildrenAreScanned
  <2>4. ToSet(todo') = ToSet(Children(Head(todo))) \cup ToSet(Tail(todo))
    <3>1. PICK c \in Seq(Scanned), t \in Seq(Scanned) : c = Children(Head(todo)) /\ t = Tail(todo)
      BY <2>2, <2>3
    <3>2. ToSet(c \o t) = ToSet(c) \cup ToSet(t) /\ todo' = c \o t
      BY <1>1, <1>3, <3>1, ConcatSet
    <3> QED
      BY <3>1, <3>2
  <2>5. \A n \in ToSet(search) : ParentId(n) # Head(todo)
    BY <1>1, <2>1, NothingBelow
  <2>6. InTree' = InTree /\ \A n : ParentId(n)' = ParentId(n)
    BY <1>1 DEF InTree, ParentId
  <2>7. ASSUME NEW n \in ToSet(search), ParentId(n) \in InTree PROVE ParentId(n) \in ToSet(todo')
    BY <1>1, <2>2, <2>4, <2>5, <2>7 DEF Taken
  <2> QED
    BY <1>1, <2>6, <2>7 DEF Taken
<1> QED
  BY <1>2, <1>3

LEMMA TreeBuiltIsTaken ==
  ASSUME Taken, TreeBuilt
  PROVE  Taken'
<1>1. pc = "children" /\ pc' = "paths" /\ todo = <<>> /\ UNCHANGED <<adapters, search>>
  BY DEF TreeBuilt
<1>2. ToSet(todo) = {}
  BY <1>1 DEF ToSet
<1>3. InTree' = InTree /\ \A n : ParentId(n)' = ParentId(n)
  BY <1>1 DEF InTree, ParentId
<1> QED
  BY <1>1, <1>2, <1>3 DEF Taken

LEMMA TreeStaysTaken ==
  ASSUME TypeOK, Taken, search' = search, SameAsRead,
         \/ pc = "paths" /\ pc' \in {"paths", "devices"}
         \/ pc = "devices" /\ pc' \in {"devices", "ready"}
  PROVE  Taken'
<1>1. ToSet(search) \subseteq Scanned
  BY ListElements DEF TypeOK, Scanned
<1>2. InTree' = InTree /\ \A n \in Scanned : ParentId(n)' = ParentId(n)
  BY DEF InTree, ParentId, SameAsRead, Scanned
<1> QED
  BY <1>1, <1>2 DEF Taken

-----------------------------------------------------------------------------
(* The inductive invariant *)

PlaceInv == KernelInv /\ ScanInv /\ Taken

LEMMA PlaceInvInit == ASSUME Init PROVE PlaceInv
<1>1. Plugged = {} /\ Scanned = {} /\ pc = "idle" /\ search = <<>> /\ ToSet(search) = {}
  BY DEF Init, KernelInit, Plugged, NoAdapters, Scanned, ToSet
<1> QED
  BY <1>1 DEF PlaceInv, KernelInv, OneNumber, Placed, Trail, ScanInv, EndInSelf, Reading, Later, Taken

LEMMA NextKeepsPlace == ASSUME TreeInv, PlaceInv, [Next]_vars PROVE PlaceInv'
<1>1. TypeOK /\ KernelInv /\ ScanInv /\ Taken /\ (pc \in {"idle", "read"} => search = <<>>)
  BY DEF PlaceInv, TreeInv, ListInv, Listed
<1>2. CASE KernelStep
  <2>1. KernelInv' /\ ScanInv'
    BY <1>1, <1>2, KernelStepKeepsScan
  <2>2. UNCHANGED <<pc, adapters, search, todo>>
    BY <1>2 DEF KernelStep, treeVars
  <2>3. InTree' = InTree /\ \A n : ParentId(n)' = ParentId(n)
    BY <2>2 DEF InTree, ParentId
  <2>4. Taken'
    BY <1>1, <2>2, <2>3 DEF Taken, Children, Scanned
  <2> QED
    BY <2>1, <2>4 DEF PlaceInv
<1>3. CASE I2cdevCleanup \/ \E n \in Nr : DirectoryGone(n)
  <2>1. DropTable /\ pc' = "idle" /\ UNCHANGED sysfs /\ search' = <<>>
    BY <1>3 DEF I2cdevCleanup, DirectoryGone, Cleanup, DropTable
  <2> QED
    BY <1>1, <2>1, DroppedIsIdle, SameKernel, EmptySearchIsTaken DEF PlaceInv
<1>4. CASE BeginScan
  <2>1. UNCHANGED sysfs /\ search' = <<>> /\ pc' # "roots"
    BY <1>4 DEF BeginScan, DropTable
  <2> QED
    BY <1>1, <1>4, <2>1, BeginScanStartsIt, SameKernel, EmptySearchIsTaken DEF PlaceInv
<1>5. CASE \E n \in Nr : ReadAdapter(n)
  <2>1. UNCHANGED sysfs /\ search' = <<>> /\ pc' # "roots"
    BY <1>1, <1>5 DEF ReadAdapter
  <2> QED
    BY <1>1, <1>5, <2>1, ReadAdapterKeepsScan, SameKernel, EmptySearchIsTaken DEF PlaceInv
<1>6. CASE SortArray
  <2>1. UNCHANGED sysfs
    BY <1>6 DEF SortArray
  <2> QED
    BY <1>1, <1>6, <2>1, SortArrayKeepsScan, SortArrayIsTaken, SameKernel DEF PlaceInv
<1>7. CASE TakeRoot \/ TakeChild \/ ChildrenTaken \/ TreeBuilt \/ GeneratePath
  <2>1. ScanInv' /\ SameAsRead
    BY <1>1, <1>7, BuildKeepsScan
  <2>2. UNCHANGED sysfs
    BY <1>7 DEF TakeRoot, TakeChild, ChildrenTaken, TreeBuilt, GeneratePath
  <2>3. ASSUME GeneratePath PROVE Taken'
    <3>1. pc = "paths" /\ pc' = "paths" /\ search' = search
      BY <2>3 DEF GeneratePath
    <3> QED
      BY <1>1, <2>1, <3>1, TreeStaysTaken
  <2>4. Taken'
    BY <1>1, <1>7, <2>3, TakeRootIsTaken, TakeChildIsTaken, ChildrenTakenIsTaken, TreeBuiltIsTaken
  <2> QED
    BY <1>1, <2>1, <2>2, <2>4, SameKernel DEF PlaceInv
<1>8. CASE PathsGenerated \/ \E n \in Nr : OpenDirectory(n)
  <2>1. ScanInv' /\ SameAsRead
    BY <1>1, <1>8, DirectoriesKeepScan
  <2>2. /\ UNCHANGED sysfs /\ search' = search
        /\ \/ pc = "paths" /\ pc' = "devices"
           \/ pc = "devices" /\ pc' \in {"devices", "ready"}
    BY <1>8 DEF PathsGenerated, OpenDirectory, NextDirectory
  <2>3. Taken'
    BY <1>1, <2>1, <2>2, TreeStaysTaken
  <2> QED
    BY <1>1, <2>1, <2>2, <2>3, SameKernel DEF PlaceInv
<1>9. CASE UNCHANGED vars
  <2>1. UNCHANGED <<node, dir, pc, left, adapters, search, root, todo, changes>> /\ UNCHANGED sysfs
    BY <1>9 DEF vars, sysfs, treeVars
  <2>2. Plugged' = Plugged /\ InTree' = InTree /\ \A n : ParentId(n)' = ParentId(n)
    BY <2>1 DEF Plugged, InTree, ParentId
  <2>3. /\ EndInSelf' /\ Later'
        /\ \A n, d : Supported(d, n)' <=> Supported(d, n)
        /\ \A n : (Current(n)' <=> Current(n)) /\ (DirectoryExists(n)' <=> DirectoryExists(n))
    BY <1>1, <2>1, <2>2
       DEF ScanInv, EndInSelf, Later, Supported, Current, DirectoryExists, Whole, DirOf, Scanned
  <2>4. Reading'
    BY <1>1, <2>1, <2>2, <2>3 DEF ScanInv, Reading, AsItIs, OneAway, TwoAway, Seen, DirOf, Scanned
  <2>5. Taken'
    BY <1>1, <2>1, <2>2 DEF Taken, Children, Scanned
  <2> QED
    BY <1>1, <2>1, <2>3, <2>4, <2>5, SameKernel DEF PlaceInv, ScanInv
<1> QED
  BY <1>2, <1>3, <1>4, <1>5, <1>6, <1>7, <1>8, <1>9 DEF Next

LEMMA PlaceInvHolds == Spec => [](TreeInv /\ PlaceInv)
<1>1. Init => PlaceInv
  BY PlaceInvInit
<1>2. TreeInv /\ PlaceInv /\ [Next]_vars => PlaceInv'
  BY NextKeepsPlace
<1> QED
  BY <1>1, <1>2, TreeInvHolds, PTL DEF Spec

-----------------------------------------------------------------------------
(* No adapter is left out *)

LEMMA ParentOfWhole ==
  ASSUME TypeOK, Directories, EndInSelf, NEW n \in Scanned, NEW q \in Scanned,
         DirOf(n) = Append(DirOf(q), n)
  PROVE  /\ ParentId(n) = q /\ ParentId(n) # NULL
         /\ Len(DirOf(n)) \in Nat /\ Len(DirOf(q)) \in Nat /\ Len(DirOf(q)) < Len(DirOf(n))
<1>1. /\ n \in Nr /\ q \in Nr /\ DirOf(q) \in Seq(Nr) /\ DirOf(q) # <<>>
      /\ DirOf(q)[Len(DirOf(q))] = q
  BY DEF TypeOK, Scanned, Adapter, DirOf, Directories, EndInSelf
<1>2. PICK s \in Seq(Nr) : s = DirOf(q)
  BY <1>1
<1>3. PICK t \in Seq(Nr) : t = Append(s, n)
  BY <1>1, AppendEnds
<1>4. /\ Len(s) \in Nat /\ Len(s) >= 1 /\ s[Len(s)] = q /\ Len(t) = Len(s) + 1
      /\ \A j \in 1..Len(s) : t[j] = s[j]
  <2>1. Len(s) \in Nat /\ Len(s) >= 1 /\ s[Len(s)] = q
    BY <1>1, <1>2
  <2> QED
    BY <1>1, <1>3, <2>1, AppendEnds
<1>5. t[Len(t) - 1] = q /\ Len(t) # 1
  BY <1>4
<1>6. DirOf(n) = t
  BY <1>2, <1>3
<1>7. ParentId(n) = q
  BY <1>5, <1>6 DEF ParentId, DirOf
<1> QED
  BY <1>1, <1>2, <1>4, <1>6, <1>7, TopologyAssumption

LEMMA WholeIsTaken ==
  ASSUME TreeInv, PlaceInv, pc = "ready", \A n \in Scanned : Whole(n)
  PROVE  search = <<>>
<1> SUFFICES ASSUME search # <<>> PROVE FALSE
  OBVIOUS
<1>1. TypeOK /\ Directories /\ EndInSelf /\ Taken
  BY DEF TreeInv, ListInv, PlaceInv, ScanInv
<1>2. search \in Seq(Scanned) /\ ToSet(search) \subseteq Scanned
  BY <1>1, ListElements DEF TypeOK, Scanned
<1>3. ToSet(search) # {}
  BY <1>2, HeadAndTail
<1> DEFINE L == {Len(DirOf(n)) : n \in ToSet(search)}
<1>4. L \in SUBSET Nat /\ L # {}
  <2>1. \A n \in Scanned : DirOf(n) \in Seq(Nr)
    BY <1>1 DEF TypeOK, Adapter, DirOf, Scanned
  <2>2. \A n \in Scanned : Len(DirOf(n)) \in Nat
    BY <2>1
  <2> QED
    BY <1>2, <1>3, <2>2
<1>5. PICK j \in L : \A l \in L : j <= l
  BY <1>4, NatHasLeast
<1>6. PICK n \in ToSet(search) : j = Len(DirOf(n))
  BY <1>5
<1>7. ParentId(n) # NULL /\ ParentId(n) \notin InTree /\ n \in Scanned
  BY <1>1, <1>2 DEF Taken
<1>8. CASE DirOf(n) = <<n>>
  <2>1. Len(<<n>>) = 1
    OBVIOUS
  <2> QED
    BY <1>7, <1>8, <2>1 DEF ParentId, DirOf
<1>9. CASE \E q \in Scanned : DirOf(n) = Append(DirOf(q), n)
  <2>1. PICK q \in Scanned : DirOf(n) = Append(DirOf(q), n)
    BY <1>9
  <2>2. /\ ParentId(n) = q /\ Len(DirOf(n)) \in Nat /\ Len(DirOf(q)) \in Nat
        /\ Len(DirOf(q)) < Len(DirOf(n))
    BY <1>1, <1>7, <2>1, ParentOfWhole
  <2>3. q \in ToSet(search)
    BY <1>7, <2>2 DEF InTree, Scanned
  <2>4. j <= Len(DirOf(q))
    BY <1>5, <2>3
  <2> QED
    BY <1>6, <2>2, <2>4
<1> QED
  BY <1>7, <1>8, <1>9 DEF Whole

LEMMA LeftOutByReuse ==
  ASSUME TreeInv, PlaceInv
  PROVE  LeftOutOnlyByReuse
<1> SUFFICES ASSUME pc = "ready", search # <<>> PROVE changes \geq 3
  BY DEF LeftOutOnlyByReuse
<1>1. changes \in Nat
  BY DEF TreeInv, TypeOK
<1>2. changes <= 2 => \A n \in Scanned : Whole(n)
  BY DEF PlaceInv, ScanInv, Later
<1>3. ~(changes <= 2)
  BY <1>2, WholeIsTaken
<1> QED
  BY <1>1, <1>3

-----------------------------------------------------------------------------
(* The tree is the topology *)

LEMMA NumberOfBus ==
  ASSUME OneNumber, NEW n \in Plugged
  PROVE  NumberOf(node[n].bus) = n
BY DEF OneNumber, NumberOf

LEMMA BusOfNumber ==
  ASSUME NEW b, IsPlugged(b)
  PROVE  NumberOf(b) \in Plugged /\ node[NumberOf(b)].bus = b
BY DEF IsPlugged, NumberOf

(* A scan during which nothing changed is complete. *)
Undisturbed ==
  /\ TreeInv /\ KernelInv /\ EndInSelf
  /\ pc = "ready" /\ search = <<>> /\ Plugged = Scanned
  /\ \A n \in Scanned : Current(n)

LEMMA QuietIsUndisturbed ==
  ASSUME TreeInv, PlaceInv, pc = "ready", Quiet
  PROVE  Undisturbed
<1>1. Plugged = Scanned /\ (\A n \in Scanned : Current(n)) /\ \A n \in Scanned : Whole(n)
  BY DEF PlaceInv, ScanInv, Later, Quiet
<1>2. search = <<>>
  BY <1>1, WholeIsTaken
<1> QED
  BY <1>1, <1>2 DEF Undisturbed, PlaceInv, ScanInv

(* The parent of an adapter is the adapter of the bus it hangs off. *)
LEMMA ParentIsParent ==
  ASSUME Undisturbed, NEW n \in Scanned
  PROVE  IF Parent[node[n].bus] = NULL THEN ParentId(n) = NULL
         ELSE ParentId(n) \in Scanned /\ node[ParentId(n)].bus = Parent[node[n].bus]
<1>1. /\ TypeOK /\ Directories /\ EndInSelf /\ Placed /\ Plugged = Scanned
      /\ \A m \in Scanned : DirOf(m) = dir[m]
  BY DEF Undisturbed, TreeInv, ListInv, KernelInv, Current, DirectoryExists, DirOf
<1>2. CASE Parent[node[n].bus] = NULL
  <2>1. DirOf(n) = <<n>>
    BY <1>1, <1>2 DEF Placed
  <2>2. Len(<<n>>) = 1
    OBVIOUS
  <2> QED
    BY <1>2, <2>1, <2>2 DEF ParentId, DirOf
<1>3. CASE Parent[node[n].bus] # NULL
  <2>1. PICK q \in Scanned : node[q].bus = Parent[node[n].bus] /\ dir[n] = Append(dir[q], n)
    BY <1>1, <1>3 DEF Placed
  <2>2. DirOf(n) = Append(DirOf(q), n)
    BY <1>1, <2>1
  <2>3. ParentId(n) = q
    BY <1>1, <2>2, ParentOfWhole
  <2> QED
    BY <1>3, <2>1, <2>3
<1> QED
  BY <1>2, <1>3

LEMMA ChildrenHangOff ==
  ASSUME Undisturbed, NEW p \in Scanned
  PROVE  ToSet(Children(p)) = {n \in Scanned : Parent[node[n].bus] = node[p].bus}
<1>1. /\ TypeOK /\ ByParent /\ Listed /\ OneNumber /\ Plugged = Scanned
      /\ pc = "ready" /\ ToSet(search) = {}
  BY DEF Undisturbed, TreeInv, ListInv, KernelInv, ToSet
<1>2. p \in Nr /\ p # NULL /\ node[p].bus # NULL
  BY <1>1, TopologyAssumption DEF Plugged
<1>3. ASSUME NEW n \in ToSet(Children(p))
      PROVE  n \in Scanned /\ Parent[node[n].bus] = node[p].bus
  <2>1. n \in Scanned /\ ParentId(n) = p
    BY <1>1 DEF ByParent
  <2> QED
    BY <1>2, <2>1, ParentIsParent
<1>4. ASSUME NEW n \in Scanned, Parent[node[n].bus] = node[p].bus
      PROVE  n \in ToSet(Children(p))
  <2>1. ParentId(n) \in Scanned /\ node[ParentId(n)].bus = node[p].bus
    BY <1>2, <1>4, ParentIsParent
  <2>2. ParentId(n) = p
    BY <1>1, <2>1 DEF OneNumber
  <2>3. n \notin ToSet(root)
    BY <1>1, <1>2, <2>2 DEF ByParent
  <2> QED
    BY <1>1, <2>2, <2>3 DEF Listed
<1> QED
  BY <1>3, <1>4

(* So the id of an adapter counts the buses that come before its own. *)
LEMMA IdCountsBuses ==
  ASSUME Undisturbed, NEW p \in Scanned, NEW n \in ToSet(Children(p))
  PROVE  adapters[n].busId = Cardinality(Before(node[n].bus))
<1>1. /\ TypeOK /\ NodeTypeOK /\ IdIsRank /\ OneNumber /\ Plugged = Scanned /\ Scanned \subseteq Nr
      /\ \A m \in Scanned : adapters[m].chan = Chan[node[m].bus]
  BY DEF Undisturbed, TreeInv, TypeOK, KernelInv, Current, Scanned
<1>2. /\ ToSet(Children(p)) = {m \in Scanned : Parent[node[m].bus] = node[p].bus}
      /\ n \in Scanned /\ Parent[node[n].bus] = node[p].bus
  BY ChildrenHangOff
<1> DEFINE A == {m \in ToSet(Children(p)) : m < n /\ adapters[m].chan = adapters[n].chan}
           B == Before(node[n].bus)
           f == [m \in A |-> node[m].bus]
<1>3. adapters[n].busId = Cardinality(A)
  BY <1>1 DEF IdIsRank, Children, Scanned
<1>4. NumberOf(node[n].bus) = n
  BY <1>1, <1>2, NumberOfBus
<1>5. ASSUME NEW m \in A PROVE node[m].bus \in B
  <2>1. m \in Scanned /\ Parent[node[m].bus] = Parent[node[n].bus] /\ Chan[node[m].bus] = Chan[node[n].bus]
    BY <1>1, <1>2
  <2>2. NumberOf(node[m].bus) = m /\ IsPlugged(node[m].bus)
    BY <1>1, <2>1, NumberOfBus DEF IsPlugged
  <2>3. node[m].bus \in Bus
    BY <1>1, <2>1 DEF NodeTypeOK, Plugged
  <2> QED
    BY <1>4, <2>1, <2>2, <2>3 DEF Before
<1>6. ASSUME NEW b \in B PROVE \E m \in A : node[m].bus = b
  <2>1. /\ IsPlugged(b) /\ NumberOf(b) < n /\ Chan[b] = Chan[node[n].bus]
        /\ Parent[b] = node[p].bus
    BY <1>2, <1>4 DEF Before
  <2>2. PICK m \in Scanned : m = NumberOf(b) /\ node[m].bus = b
    BY <1>1, <2>1, BusOfNumber
  <2>3. m \in ToSet(Children(p))
    BY <1>2, <2>1, <2>2
  <2>4. adapters[m].chan = adapters[n].chan
    BY <1>1, <1>2, <2>1, <2>2
  <2> QED
    BY <2>1, <2>2, <2>3, <2>4
<1>7. \A k, m \in A : node[k].bus = node[m].bus => k = m
  BY <1>1, <1>2 DEF OneNumber
<1>8. IsFiniteSet(A)
  <2>1. A \in SUBSET Nr
    BY <1>1, <1>2
  <2> QED
    BY <2>1, TopologyAssumption, FS_Subset
<1> HIDE DEF A, B
<1>9. f \in Bijection(A, B)
  <2>1. f \in [A -> B]
    BY <1>5
  <2> QED
    BY <1>6, <1>7, <2>1 DEF Bijection, Injection, Surjection, IsInjective
<1>10. Cardinality(B) = Cardinality(A)
  BY <1>8, <1>9, FS_Bijection DEF ExistsBijection
<1> QED
  BY <1>3, <1>10 DEF B

(* Each number on the path of a directory is that of a bus, which hangs off *)
(* the one before it.                                                       *)
LEMMA LineOfDirectory ==
  ASSUME TypeOK, HasDirectory, KernelInv, NEW n \in Plugged, NEW s \in Seq(Nr), s = dir[n]
  PROVE  /\ Len(s) \in Nat /\ Len(s) >= 1 /\ s[Len(s)] = n
         /\ \A i \in 1..Len(s) : s[i] \in Plugged
         /\ Parent[node[s[1]].bus] = NULL
         /\ \A i \in 2..Len(s) : Parent[node[s[i]].bus] = node[s[i - 1]].bus
<1>1. Placed /\ Trail
  BY DEF KernelInv
<1>2. Len(s) \in Nat /\ Len(s) >= 1 /\ s[Len(s)] = n
  BY <1>1, EndsInSelf
<1>3. \A i \in 1..Len(s) : s[i] \in Plugged /\ Starts(dir[s[i]], s, i)
  BY <1>1 DEF Trail
<1>4. Parent[node[s[1]].bus] = NULL
  <2> SUFFICES ASSUME Parent[node[s[1]].bus] # NULL PROVE FALSE
    OBVIOUS
  <2>1. s[1] \in Plugged /\ Len(dir[s[1]]) = 1
    <3>1. 1 \in 1..Len(s)
      BY <1>2
    <3>2. s[1] \in Plugged /\ Starts(dir[s[1]], s, 1)
      BY <1>3, <3>1
    <3> QED
      BY <3>2 DEF Starts
  <2>2. PICK r \in Plugged : r = s[1]
    BY <2>1
  <2>3. PICK q \in Plugged : dir[r] = Append(dir[q], r)
    BY <1>1, <2>2 DEF Placed
  <2>4. dir[q] \in Seq(Nr) /\ Len(dir[q]) \in Nat /\ Len(dir[q]) >= 1 /\ r \in Nr
    BY <1>1, EndsInSelf
  <2>5. PICK t \in Seq(Nr) : t = dir[q]
    BY <2>4
  <2>6. Len(Append(t, r)) = Len(t) + 1
    BY <2>4, AppendEnds
  <2> QED
    BY <2>1, <2>2, <2>3, <2>4, <2>5, <2>6
<1>5. ASSUME NEW i \in 2..Len(s) PROVE Parent[node[s[i]].bus] = node[s[i - 1]].bus
  <2>1. i \in 1..Len(s) /\ i - 1 \in 1..Len(s) /\ i \in Nat
    BY <1>2
  <2>2. PICK m \in Plugged, q \in Plugged : m = s[i] /\ q = s[i - 1]
    BY <1>3, <2>1
  <2>3. Starts(dir[m], s, i) /\ Starts(dir[q], s, i - 1)
    BY <1>3, <2>1, <2>2
  <2>4. dir[m] \in Seq(Nr) /\ dir[q] \in Seq(Nr) /\ m \in Nr
    BY DEF TypeOK, Plugged
  <2>5. PICK u \in Seq(Nr), t \in Seq(Nr) : u = dir[m] /\ t = dir[q]
    BY <2>4
  <2>6. u = Append(t, m)
    <3> PICK a \in Seq(Nr) : a = Append(t, m)
      BY <2>4, AppendEnds
    <3>1. /\ Len(a) = Len(t) + 1 /\ Len(t) \in Nat /\ a[Len(t) + 1] = m
          /\ \A j \in 1..Len(t) : a[j] = t[j]
      BY <2>4, AppendEnds
    <3>2. Len(u) = i /\ Len(t) = i - 1 /\ \A j \in 1..i : u[j] = s[j]
      BY <2>3, <2>5 DEF Starts
    <3>3. \A j \in 1..(i - 1) : t[j] = s[j]
      BY <2>3, <2>5 DEF Starts
    <3>4. u[i] = m /\ a[i] = m
      BY <2>1, <2>2, <3>1, <3>2
    <3>5. \A j \in 1..i : j = i \/ j \in 1..(i - 1)
      BY <2>1
    <3>6. Len(a) = i /\ \A j \in 1..i : a[j] = u[j]
      BY <2>1, <3>1, <3>2, <3>3, <3>4, <3>5
    <3> QED
      BY <3>2, <3>6
  <2>7. Parent[node[m].bus] = node[q].bus
    BY <1>1, <2>5, <2>6, InParentsDirectory
  <2> QED
    BY <2>2, <2>7
<1> QED
  BY <1>2, <1>3, <1>4, <1>5

LEMMA PlaceIsFound ==
  ASSUME Undisturbed, NEW b \in Bus, IsPlugged(b)
  PROVE  \E line \in [DOMAIN dir[NumberOf(b)] -> Bus] :
           IsLine(line, b) /\ Finds(Place(line), NumberOf(b))
<1>1. /\ TypeOK /\ HasDirectory /\ KernelInv /\ OneNumber /\ ByParent /\ IdIsRank
      /\ NodeTypeOK /\ Plugged = Scanned /\ Scanned \subseteq Nr
      /\ \A m \in Scanned : adapters[m].chan = Chan[node[m].bus]
  BY PartsOfInv DEF Undisturbed, TreeInv, ListInv, KernelInv, TypeOK, Current, Scanned
<1>2. PICK n \in Plugged : n = NumberOf(b) /\ node[n].bus = b
  BY BusOfNumber
<1>3. dir[n] \in Seq(Nr)
  BY <1>1 DEF TypeOK, Plugged
<1>4. PICK s \in Seq(Nr) : s = dir[n]
  BY <1>3
<1>5. /\ Len(s) \in Nat /\ Len(s) >= 1 /\ s[Len(s)] = n /\ DOMAIN s = 1..Len(s)
      /\ \A i \in 1..Len(s) : s[i] \in Scanned
      /\ Parent[node[s[1]].bus] = NULL
      /\ \A i \in 2..Len(s) : Parent[node[s[i]].bus] = node[s[i - 1]].bus
  BY <1>1, <1>4, LineOfDirectory
<1> DEFINE K == Len(s)
           line == [i \in 1..K |-> node[s[i]].bus]
           at == [i \in 1..K |-> s[i]]
           place == Place(line)
<1>6. \A m \in Scanned : node[m].bus \in Bus /\ NumberOf(node[m].bus) = m
  BY <1>1, NumberOfBus DEF NodeTypeOK, Plugged
<1>7. line \in [1..K -> Bus] /\ Len(line) = K /\ DOMAIN line = 1..K
  BY <1>5, <1>6
<1>8. \A i \in 1..K : line[i] = node[s[i]].bus /\ NumberOf(line[i]) = s[i] /\ line[i] # NULL
  BY <1>5, <1>6, KernelAssumption
<1>9. IsLine(line, b)
  <2>1. Parent[line[1]] = NULL /\ line[K] = b
    BY <1>2, <1>5, <1>8
  <2>2. ASSUME NEW i \in 2..K PROVE Parent[line[i]] = line[i - 1]
    <3>1. i \in 1..K /\ i - 1 \in 1..K
      BY <1>5
    <3> QED
      BY <1>5, <1>8, <3>1
  <2> HIDE DEF line, K
  <2> QED
    BY <1>7, <2>1, <2>2 DEF IsLine
<1>10. /\ DOMAIN place = 1..K
       /\ \A i \in 1..K : place[i] =
            IF Parent[line[i]] = NULL \/ Chan[line[i]] = -1 THEN BusToken(NumberOf(line[i]))
            ELSE [type |-> "MUX", id |-> Cardinality(Before(line[i])), value |-> Chan[line[i]]]
  BY <1>7 DEF Place
<1>11. Len(place) = K /\ place # <<>>
  <2>1. Len(place) = K
    <3>1. place \in [1..K -> {place[i] : i \in 1..K}]
      BY <1>7 DEF Place
    <3> HIDE DEF place, K
    <3>2. K \in Nat
      BY <1>5 DEF K
    <3> QED
      BY <3>1, <3>2
  <2>2. 1 \in DOMAIN place /\ DOMAIN <<>> = {}
    BY <1>5, <1>10
  <2> HIDE DEF place
  <2> QED
    BY <2>1, <2>2
<1> HIDE DEF line, place, K
<1>12. place[1].id = s[1]
  BY <1>5, <1>8, <1>9, <1>10 DEF IsLine, BusToken, K
<1>13. ASSUME NEW i \in 2..K PROVE s[i] = ChildFor(s[i - 1], place[i])
  <2>1. i \in 1..K /\ i - 1 \in 1..K
    BY <1>5 DEF K
  <2>2. PICK m \in Scanned, p \in Scanned : m = s[i] /\ p = s[i - 1]
    BY <1>5, <2>1 DEF K
  <2>3. Parent[node[m].bus] = node[p].bus
    BY <1>5, <2>2 DEF K
  <2>4. m \in ToSet(Children(p))
    BY <2>3, ChildrenHangOff
  <2>5. /\ line[i] = node[m].bus /\ Parent[line[i]] # NULL /\ NumberOf(line[i]) = m
        /\ adapters[m].chan = Chan[line[i]]
    <3>1. line[i] = node[m].bus /\ NumberOf(line[i]) = m
      BY <1>8, <2>1, <2>2
    <3>2. Parent[line[i]] # NULL
      BY <1>1, <2>2, <2>3, <3>1 DEF Plugged
    <3> QED
      BY <1>1, <3>1, <3>2
  <2>6. Chan[line[i]] \in Nat \cup {-1}
    BY <1>7, <2>1, TopologyAssumption
  <2>7. adapters[m].busId = Cardinality(Before(line[i]))
    BY <2>4, <2>5, IdCountsBuses
  <2>8. place[i] = TokenOf(m)
    <3>1. CASE Chan[line[i]] = -1
      BY <1>10, <2>1, <2>5, <3>1 DEF TokenOf
    <3>2. CASE Chan[line[i]] \in Nat
      <4>1. Chan[line[i]] # -1 /\ Chan[line[i]] \geq 0
        BY <3>2
      <4> QED
        BY <1>10, <2>1, <2>5, <2>7, <4>1 DEF TokenOf
    <3> QED
      BY <2>6, <3>1, <3>2
  <2>9. ChildFor(p, TokenOf(m)) = m
    BY <1>1, <2>4, ChildIsFound
  <2> QED
    BY <2>2, <2>8, <2>9
<1>14. Finds(place, n)
  <2>1. at \in [1..Len(place) -> Scanned] /\ \A i \in 1..K : at[i] = s[i]
    BY <1>5, <1>11 DEF K
  <2>2. at[1] = place[1].id /\ at[Len(place)] = n
    BY <1>5, <1>11, <1>12, <2>1 DEF K
  <2>3. ASSUME NEW i \in 2..Len(place) PROVE at[i] = ChildFor(at[i - 1], place[i])
    <3>1. i \in 2..K /\ i \in 1..K /\ i - 1 \in 1..K
      BY <1>5, <1>11 DEF K
    <3>2. at[i] = s[i] /\ at[i - 1] = s[i - 1]
      BY <2>1, <3>1
    <3> HIDE DEF at
    <3> QED
      BY <1>13, <3>1, <3>2
  <2> HIDE DEF at
  <2> QED
    BY <1>11, <2>1, <2>2, <2>3 DEF Finds, Scanned
<1>15. line \in [DOMAIN dir[NumberOf(b)] -> Bus]
  BY <1>2, <1>4, <1>5, <1>7 DEF K
<1> QED
  BY <1>2, <1>9, <1>14, <1>15 DEF place

LEMMA PlacesAreFound ==
  ASSUME TreeInv, PlaceInv
  PROVE  PlaceDenotesBus
<1> SUFFICES ASSUME pc = "ready", Quiet
             PROVE  /\ search = <<>>
                    /\ \A b \in Bus : IsPlugged(b) =>
                         \E line \in [DOMAIN dir[NumberOf(b)] -> Bus] :
                           IsLine(line, b) /\ Finds(Place(line), NumberOf(b))
  BY DEF PlaceDenotesBus
<1>1. Undisturbed
  BY QuietIsUndisturbed
<1> QED
  BY <1>1, PlaceIsFound DEF Undisturbed

-----------------------------------------------------------------------------
(* The theorems *)

(* i2cdev_rescan detaches the clients of the adapters it finds in the tree: *)
(* an adapter that stayed on the search list would keep its clients.  That  *)
(* takes three changes during one scan at least, whatever the topology.     *)
THEOREM LeftOutNeedsReuse == Spec => []LeftOutOnlyByReuse
<1>1. TreeInv /\ PlaceInv => LeftOutOnlyByReuse
  BY LeftOutByReuse
<1> QED
  BY <1>1, PlaceInvHolds, PTL

(* The name that search_devbus_tree_fast_path takes for an adapter, its     *)
(* root's number and the ranks of the multiplexers' channels, leads to the  *)
(* bus at that place of the topology: a path is a name of the bus, not of   *)
(* the numbers that the kernel gave its multiplexers this time.             *)
THEOREM PlacesDenoteBuses == Spec => []PlaceDenotesBus
<1>1. TreeInv /\ PlaceInv => PlaceDenotesBus
  BY PlacesAreFound
<1> QED
  BY <1>1, PlaceInvHolds, PTL

-----------------------------------------------------------------------------
(* A scan comes to its end: each of its steps leaves less to do             *)

Distinct(s) == \A i, j \in DOMAIN s : s[i] = s[j] => i = j

(* The children of each adapter as a set. *)
Kids == [p \in Scanned |-> ToSet(Children(p))]

(* What is on todo is on it once, and is below nothing that todo leads to.  *)
AheadOnce ==
  pc \in {"children", "paths"} =>
    Distinct(todo) /\ \A n \in ToSet(todo) : ParentId(n) \notin Ahead

(* Only an adapter in the tree has children. *)
NoneBelowSearch ==
  pc \in {"roots", "children"} => \A n \in ToSet(search) : Children(n) = <<>>

AheadInv == AheadOnce /\ NoneBelowSearch

(* What some adapters lead to is the least set that has them and the        *)
(* children of its members.                                                 *)
LEMMA LeadToIsLeast ==
  ASSUME NEW K, NEW T \in SUBSET DOMAIN K, \A p \in DOMAIN K : K[p] \subseteq DOMAIN K
  PROVE  /\ T \subseteq LeadTo(T, K) /\ LeadTo(T, K) \subseteq DOMAIN K
         /\ \A p \in LeadTo(T, K) : K[p] \subseteq LeadTo(T, K)
         /\ \A S \in SUBSET DOMAIN K :
              (T \subseteq S /\ \A p \in S : K[p] \subseteq S) => LeadTo(T, K) \subseteq S
<1>1. /\ LeadTo(T, K) \subseteq DOMAIN K
      /\ \A S \in SUBSET DOMAIN K :
           (T \subseteq S /\ \A p \in S : K[p] \subseteq S) => LeadTo(T, K) \subseteq S
  BY DEF LeadTo
<1>2. T \subseteq LeadTo(T, K)
  BY DEF LeadTo
<1>3. ASSUME NEW p \in LeadTo(T, K), NEW n \in K[p] PROVE n \in LeadTo(T, K)
  <2>1. n \in DOMAIN K
    BY <1>1
  <2>2. ASSUME NEW S \in SUBSET DOMAIN K, T \subseteq S, \A q \in S : K[q] \subseteq S
        PROVE  n \in S
    <3>1. p \in S
      BY <1>1, <2>2
    <3> QED
      BY <2>2, <3>1
  <2> QED
    BY <2>1, <2>2 DEF LeadTo
<1> QED
  BY <1>1, <1>2, <1>3

(* An adapter whose turn it was is not come to again, when its children     *)
(* take its place.                                                          *)
LEMMA ParentIsPassed ==
  ASSUME NEW K, NEW T \in SUBSET DOMAIN K, \A p \in DOMAIN K : K[p] \subseteq DOMAIN K,
         NEW par, \A p \in DOMAIN K : \A c \in K[p] : par[c] = p,
         \A t \in T : par[t] \notin LeadTo(T, K),
         NEW p \in T, NEW T2, T2 \subseteq (T \ {p}) \cup K[p]
  PROVE  /\ LeadTo(T2, K) \subseteq LeadTo(T, K) \ {p}
         /\ \A t \in T2 : par[t] \notin LeadTo(T2, K)
<1> DEFINE S == LeadTo(T, K) \ {p}
<1>1. /\ T \subseteq LeadTo(T, K) /\ LeadTo(T, K) \subseteq DOMAIN K
      /\ \A q \in LeadTo(T, K) : K[q] \subseteq LeadTo(T, K)
  BY LeadToIsLeast
<1>2. p \in LeadTo(T, K) /\ par[p] \notin LeadTo(T, K) /\ p \in DOMAIN K
  BY <1>1
<1>3. \A q \in LeadTo(T, K) : p \notin K[q]
  BY <1>1, <1>2
<1>4. T2 \subseteq S /\ S \subseteq DOMAIN K /\ \A q \in S : K[q] \subseteq S
  BY <1>1, <1>2, <1>3
<1>5. T2 \subseteq DOMAIN K
  BY <1>4
<1> HIDE DEF S
<1>6. LeadTo(T2, K) \subseteq S
  BY <1>4, <1>5, LeadToIsLeast
<1>7. ASSUME NEW t \in T2 PROVE par[t] \notin LeadTo(T2, K)
  <2>1. CASE t \in T
    BY <1>6, <2>1 DEF S
  <2>2. CASE t \in K[p]
    <3>1. par[t] = p
      BY <1>2, <2>2
    <3> QED
      BY <1>6, <3>1 DEF S
  <2> QED
    BY <2>1, <2>2
<1> QED
  BY <1>6, <1>7 DEF S

(* A child without children of its own adds itself only. *)
LEMMA LeafIsAdded ==
  ASSUME NEW K, NEW T \in SUBSET DOMAIN K, \A p \in DOMAIN K : K[p] \subseteq DOMAIN K,
         NEW L, DOMAIN L = DOMAIN K, NEW x \in DOMAIN K, K[x] = {},
         \A p \in DOMAIN K : L[p] \subseteq K[p] \cup {x}, L[x] = {}
  PROVE  LeadTo(T, L) \subseteq LeadTo(T, K) \cup {x}
<1> DEFINE S == LeadTo(T, K) \cup {x}
<1>1. /\ T \subseteq LeadTo(T, K) /\ LeadTo(T, K) \subseteq DOMAIN K
      /\ \A q \in LeadTo(T, K) : K[q] \subseteq LeadTo(T, K)
  BY LeadToIsLeast
<1>2. T \subseteq S /\ S \subseteq DOMAIN L /\ \A q \in S : L[q] \subseteq S
  BY <1>1
<1> QED
  BY <1>2 DEF LeadTo

LEMMA TailIsDistinct ==
  ASSUME NEW S, NEW s \in Seq(S), s # <<>>, Distinct(s)
  PROVE  Distinct(Tail(s)) /\ Head(s) \notin ToSet(Tail(s))
<1>1. /\ Tail(s) \in Seq(S) /\ DOMAIN Tail(s) = 1..(Len(s) - 1) /\ DOMAIN s = 1..Len(s)
      /\ Head(s) = s[1] /\ Len(s) \in Nat /\ Len(s) >= 1
      /\ \A j \in 1..(Len(s) - 1) : Tail(s)[j] = s[j + 1]
  OBVIOUS
<1>2. Distinct(Tail(s))
  <2> SUFFICES ASSUME NEW i \in DOMAIN Tail(s), NEW j \in DOMAIN Tail(s), Tail(s)[i] = Tail(s)[j]
               PROVE  i = j
    BY DEF Distinct
  <2>1. i + 1 \in DOMAIN s /\ j + 1 \in DOMAIN s /\ s[i + 1] = s[j + 1] /\ i \in Nat /\ j \in Nat
    BY <1>1
  <2>2. i + 1 = j + 1
    BY <2>1 DEF Distinct
  <2> QED
    BY <2>1, <2>2
<1>3. ASSUME NEW j \in DOMAIN Tail(s) PROVE Tail(s)[j] # Head(s)
  <2>1. j + 1 \in DOMAIN s /\ 1 \in DOMAIN s /\ j + 1 # 1 /\ Tail(s)[j] = s[j + 1]
    BY <1>1
  <2> QED
    BY <1>1, <2>1 DEF Distinct
<1> QED
  BY <1>2, <1>3 DEF ToSet

LEMMA ConcatIsDistinct ==
  ASSUME NEW S, NEW s \in Seq(S), NEW t \in Seq(S), Distinct(s), Distinct(t),
         ToSet(s) \cap ToSet(t) = {}
  PROVE  Distinct(s \o t)
<1>1. /\ s \o t \in Seq(S) /\ DOMAIN (s \o t) = 1..(Len(s) + Len(t))
      /\ Len(s) \in Nat /\ Len(t) \in Nat /\ DOMAIN s = 1..Len(s) /\ DOMAIN t = 1..Len(t)
      /\ \A j \in 1..Len(s) : (s \o t)[j] = s[j]
      /\ \A j \in 1..Len(t) : (s \o t)[j + Len(s)] = t[j]
  OBVIOUS
<1>2. \A j \in DOMAIN (s \o t) :
        \/ j \in DOMAIN s /\ (s \o t)[j] = s[j] /\ s[j] \in ToSet(s)
        \/ j - Len(s) \in DOMAIN t /\ (s \o t)[j] = t[j - Len(s)] /\ t[j - Len(s)] \in ToSet(t)
  <2> SUFFICES ASSUME NEW j \in DOMAIN (s \o t)
               PROVE  \/ j \in DOMAIN s /\ (s \o t)[j] = s[j] /\ s[j] \in ToSet(s)
                      \/ j - Len(s) \in DOMAIN t /\ (s \o t)[j] = t[j - Len(s)] /\ t[j - Len(s)] \in ToSet(t)
    OBVIOUS
  <2>1. CASE j \in 1..Len(s)
    BY <1>1, <2>1 DEF ToSet
  <2>2. CASE j \notin 1..Len(s)
    <3>1. j - Len(s) \in 1..Len(t) /\ (j - Len(s)) + Len(s) = j
      BY <1>1, <2>2
    <3>2. (s \o t)[(j - Len(s)) + Len(s)] = t[j - Len(s)]
      BY <1>1, <3>1
    <3> QED
      BY <1>1, <3>1, <3>2 DEF ToSet
  <2> QED
    BY <2>1, <2>2
<1> SUFFICES ASSUME NEW i \in DOMAIN (s \o t), NEW j \in DOMAIN (s \o t), (s \o t)[i] = (s \o t)[j]
             PROVE  i = j
  BY DEF Distinct
<1>3. i \in Int /\ j \in Int
  BY <1>1
<1>4. CASE i \in DOMAIN s /\ (s \o t)[i] = s[i] /\ s[i] \in ToSet(s)
  <2>1. j \in DOMAIN s /\ (s \o t)[j] = s[j]
    BY <1>2, <1>4
  <2> QED
    BY <1>4, <2>1 DEF Distinct
<1>5. CASE i - Len(s) \in DOMAIN t /\ (s \o t)[i] = t[i - Len(s)] /\ t[i - Len(s)] \in ToSet(t)
  <2>1. j - Len(s) \in DOMAIN t /\ (s \o t)[j] = t[j - Len(s)]
    BY <1>2, <1>5
  <2>2. i - Len(s) = j - Len(s)
    BY <1>5, <2>1 DEF Distinct
  <2> QED
    BY <1>1, <1>3, <2>2
<1> QED
  BY <1>2, <1>4, <1>5

LEMMA RisingIsDistinct ==
  ASSUME NEW S \in SUBSET Nat, NEW s \in Seq(S), Rising(s)
  PROVE  Distinct(s)
<1> SUFFICES ASSUME NEW i \in DOMAIN s, NEW j \in DOMAIN s, i # j PROVE s[i] # s[j]
  BY DEF Distinct
<1>1. i \in Int /\ j \in Int /\ s[i] \in S /\ s[j] \in S
  BY ListElements
<1>2. \A n \in S : n \in Int
  OBVIOUS
<1>3. i < j \/ j < i
  BY <1>1
<1>4. s[i] < s[j] \/ s[j] < s[i]
  BY <1>3 DEF Rising
<1>5. \A m, n \in Int : m < n => m # n
  OBVIOUS
<1> QED
  BY <1>1, <1>2, <1>4, <1>5

-----------------------------------------------------------------------------
(* The recursions *)

ParentOf == [n \in Scanned |-> ParentId(n)]

LEMMA TreeIsClosed ==
  ASSUME TypeOK, ByParent
  PROVE  /\ ToSet(todo) \subseteq Scanned /\ todo \in Seq(Scanned)
         /\ DOMAIN Kids = Scanned
         /\ \A p \in Scanned : /\ Kids[p] = ToSet(Children(p)) /\ Kids[p] \subseteq Scanned
                               /\ Children(p) \in Seq(Scanned)
                               /\ \A c \in Kids[p] : ParentOf[c] = p
         /\ Ahead = LeadTo(ToSet(todo), Kids)
<1>1. todo \in Seq(Scanned)
  BY DEF TypeOK, Scanned
<1>2. ToSet(todo) \subseteq Scanned
  BY <1>1, ListElements
<1>3. Ahead = LeadTo(ToSet(todo), Kids)
  BY DEF Ahead, Kids, Children, Scanned
<1>4. ASSUME NEW p \in Scanned
      PROVE  /\ Kids[p] = ToSet(Children(p)) /\ Kids[p] \subseteq Scanned
             /\ Children(p) \in Seq(Scanned)
             /\ \A c \in Kids[p] : ParentOf[c] = p
  BY ChildrenAreScanned DEF ByParent, ParentOf, Kids
<1> QED
  BY <1>1, <1>2, <1>3, <1>4 DEF Kids

(* A turn of a recursion: the first of todo gives way to its children, or   *)
(* to nothing.                                                              *)
Turn ==
  /\ todo # <<>>
  /\ todo' = Tail(todo) \/ todo' = Children(Head(todo)) \o Tail(todo)
  /\ Scanned' = Scanned
  /\ \A n \in Scanned : /\ adapters'[n].children = adapters[n].children
                        /\ adapters'[n].devpath = adapters[n].devpath

LEMMA TurnLeavesLess ==
  ASSUME TypeOK, ByParent, InOrder, pc \in {"children", "paths"}, AheadOnce, Turn
  PROVE  /\ Ahead' \subseteq Ahead \ {Head(todo)} /\ Head(todo) \in Ahead
         /\ Distinct(todo') /\ \A n \in ToSet(todo') : ParentId(n)' \notin Ahead'
<1> DEFINE p == Head(todo)
           T == ToSet(todo)
<1>1. /\ T \subseteq Scanned /\ todo \in Seq(Scanned) /\ DOMAIN Kids = Scanned
      /\ \A q \in Scanned : /\ Kids[q] = ToSet(Children(q)) /\ Kids[q] \subseteq Scanned
                            /\ Children(q) \in Seq(Scanned)
                            /\ \A c \in Kids[q] : ParentOf[c] = q
      /\ Ahead = LeadTo(T, Kids)
  BY TreeIsClosed
<1>2. p \in T /\ p \in Scanned /\ Tail(todo) \in Seq(Scanned) /\ T = {p} \cup ToSet(Tail(todo))
  BY <1>1, HeadAndTail DEF Turn
<1>3. Distinct(todo) /\ Distinct(Tail(todo)) /\ p \notin ToSet(Tail(todo))
      /\ \A n \in T : ParentId(n) \notin Ahead
  <2>1. Distinct(todo) /\ \A n \in T : ParentId(n) \notin Ahead
    BY DEF AheadOnce
  <2> QED
    BY <1>1, <2>1, TailIsDistinct DEF Turn
<1>4. ToSet(todo') \subseteq (T \ {p}) \cup Kids[p]
  <2>1. CASE todo' = Tail(todo)
    BY <1>2, <1>3, <2>1
  <2>2. CASE todo' = Children(p) \o Tail(todo)
    <3>1. ToSet(todo') = Kids[p] \cup ToSet(Tail(todo))
      <4>1. PICK a, b \in Seq(Scanned) : a = Children(p) /\ b = Tail(todo)
        BY <1>1, <1>2
      <4>2. ToSet(a \o b) = ToSet(a) \cup ToSet(b)
        BY ConcatSet
      <4> QED
        BY <1>1, <1>2, <2>2, <4>1, <4>2
    <3> QED
      BY <1>2, <1>3, <3>1
  <2> QED
    BY <2>1, <2>2 DEF Turn
<1>5. Kids' = Kids
  BY <1>1 DEF Turn, Kids, Children
<1>6. Ahead' = LeadTo(ToSet(todo'), Kids)
  <2>1. Ahead' = LeadTo(ToSet(todo'), Kids')
    BY DEF Ahead, Kids, Children, Scanned
  <2> QED
    BY <1>5, <2>1
<1>7. \A n \in T : ParentOf[n] \notin LeadTo(T, Kids)
  BY <1>1, <1>3 DEF ParentOf
<1> HIDE DEF p, T
<1>8. /\ LeadTo(ToSet(todo'), Kids) \subseteq LeadTo(T, Kids) \ {p}
      /\ \A t \in ToSet(todo') : ParentOf[t] \notin LeadTo(ToSet(todo'), Kids)
  <2>1. /\ T \in SUBSET DOMAIN Kids /\ \A q \in DOMAIN Kids : Kids[q] \subseteq DOMAIN Kids
        /\ \A q \in DOMAIN Kids : \A c \in Kids[q] : ParentOf[c] = q
    BY <1>1
  <2> QED
    <3>1. PICK K, par, T2 : K = Kids /\ par = ParentOf /\ T2 = ToSet(todo')
      OBVIOUS
    <3>2. /\ T \in SUBSET DOMAIN K /\ \A q \in DOMAIN K : K[q] \subseteq DOMAIN K
          /\ \A q \in DOMAIN K : \A c \in K[q] : par[c] = q
          /\ \A t \in T : par[t] \notin LeadTo(T, K)
          /\ p \in T /\ T2 \subseteq (T \ {p}) \cup K[p]
      BY <1>2, <1>4, <1>7, <2>1, <3>1
    <3>3. LeadTo(T2, K) \subseteq LeadTo(T, K) \ {p} /\ \A t \in T2 : par[t] \notin LeadTo(T2, K)
      BY ONLY <3>2, ParentIsPassed
    <3> QED
      BY <3>1, <3>3
<1>9. p \in LeadTo(T, Kids)
  BY <1>1, <1>2, LeadToIsLeast
<1>10. \A n \in Scanned : ParentId(n)' = ParentOf[n]
  BY DEF Turn, ParentId, ParentOf
<1>11. ToSet(todo') \subseteq Scanned
  BY <1>1, <1>2, <1>4
<1>12. Distinct(todo')
  <2>1. CASE todo' = Tail(todo)
    BY <1>3, <2>1
  <2>2. CASE todo' = Children(p) \o Tail(todo)
    <3>1. Distinct(Children(p))
      <4>1. Rising(Children(p)) /\ Scanned \subseteq Nat
        BY <1>2, KernelAssumption DEF InOrder, TypeOK, Scanned
      <4> QED
        BY <1>1, <1>2, <4>1, RisingIsDistinct
    <3>2. ToSet(Children(p)) \cap ToSet(Tail(todo)) = {}
      <4> SUFFICES ASSUME NEW c \in ToSet(Children(p)), c \in ToSet(Tail(todo)) PROVE FALSE
        OBVIOUS
      <4>1. ParentOf[c] = p /\ c \in T
        BY <1>1, <1>2
      <4> QED
        BY <1>7, <1>9, <4>1
    <3> QED
      BY <1>1, <1>2, <1>3, <2>2, <3>1, <3>2, ConcatIsDistinct
  <2> QED
    BY <2>1, <2>2 DEF Turn, p
<1> QED
  BY <1>1, <1>6, <1>8, <1>9, <1>10, <1>11, <1>12 DEF p

LEMMA MoveKeepsAhead ==
  ASSUME TreeInv, AheadInv, TakeChild
  PROVE  AheadInv'
<1>1. PICK p \in Scanned, x \in Scanned : Moves(x, p)
  BY TakeChildMoves
<1>2. pc = "children" /\ UNCHANGED <<pc, todo>>
  BY DEF TakeChild
<1>3. /\ ToSet(todo) \subseteq Scanned /\ DOMAIN Kids = Scanned
      /\ \A q \in Scanned : Kids[q] = ToSet(Children(q)) /\ Kids[q] \subseteq Scanned
      /\ Ahead = LeadTo(ToSet(todo), Kids)
  BY TreeIsClosed DEF TreeInv, ListInv
<1>4. /\ x \in ToSet(search) /\ p \in ToSet(todo) /\ p \notin ToSet(search)
      /\ ToSet(search') = ToSet(search) \ {x} /\ Scanned' = Scanned
      /\ ToSet(adapters'[p].children) = {x} \cup ToSet(Children(p))
      /\ \A n \in Scanned : /\ adapters'[n].devpath = adapters[n].devpath
                            /\ n # p => adapters'[n].children = Children(n)
  BY <1>1 DEF Moves, Takes, TreeInv, ListInv, TodoIsInTree, Scanned
<1>5. Children(x) = <<>> /\ Kids[x] = {} /\ p # x
  BY <1>2, <1>3, <1>4 DEF AheadInv, NoneBelowSearch, ToSet
<1>6. /\ DOMAIN Kids' = Scanned /\ Kids'[x] = {}
      /\ \A q \in Scanned : Kids'[q] \subseteq Kids[q] \cup {x}
  <2>1. DOMAIN Kids' = Scanned /\ \A q \in Scanned : Kids'[q] = ToSet(adapters'[q].children)
    BY <1>4 DEF Kids, Children
  <2>2. ASSUME NEW q \in Scanned, q # p PROVE Kids'[q] = Kids[q]
    BY <1>3, <1>4, <2>1, <2>2
  <2>3. Kids'[p] = Kids[p] \cup {x}
    BY <1>3, <1>4, <2>1
  <2> QED
    BY <1>5, <2>1, <2>2, <2>3
<1>7. Ahead' = LeadTo(ToSet(todo), Kids')
  BY <1>2 DEF Ahead, Kids, Children, Scanned
<1>8. Ahead' \subseteq Ahead \cup {x}
  <2>1. PICK K, L, T : K = Kids /\ L = Kids' /\ T = ToSet(todo)
    OBVIOUS
  <2>2. /\ T \in SUBSET DOMAIN K /\ \A q \in DOMAIN K : K[q] \subseteq DOMAIN K
        /\ DOMAIN L = DOMAIN K /\ x \in DOMAIN K /\ K[x] = {} /\ L[x] = {}
        /\ \A q \in DOMAIN K : L[q] \subseteq K[q] \cup {x}
    BY <1>3, <1>5, <1>6, <2>1
  <2>3. LeadTo(T, L) \subseteq LeadTo(T, K) \cup {x}
    BY ONLY <2>2, LeafIsAdded
  <2> QED
    BY <1>3, <1>7, <2>1, <2>3
<1>9. ASSUME NEW n \in ToSet(todo) PROVE ParentId(n)' \notin Ahead'
  <2>1. n \in Scanned /\ n \notin ToSet(search) /\ ParentId(n) \notin Ahead
    BY <1>2, <1>3 DEF AheadInv, AheadOnce, TreeInv, ListInv, TodoIsInTree
  <2>2. ParentId(n)' = ParentId(n)
    BY <1>4, <2>1 DEF ParentId
  <2>3. ParentId(n) # x
    <3>1. n \in ToSet(root) \/ (ParentId(n) \in Scanned /\ n \in ToSet(Children(ParentId(n))))
      BY <1>2, <2>1 DEF TreeInv, ListInv, Listed
    <3>2. CASE n \in ToSet(root)
      <4>1. ParentId(n) = NULL /\ x \in Nr
        BY <3>2 DEF TreeInv, ListInv, ByParent, TypeOK, Scanned
      <4> QED
        BY <4>1, TopologyAssumption
    <3>3. CASE n \in ToSet(Children(ParentId(n)))
      BY <1>3, <1>5, <3>3
    <3> QED
      BY <3>1, <3>2, <3>3
  <2> QED
    BY <1>8, <2>1, <2>2, <2>3
<1>10. AheadOnce'
  <2>1. Distinct(todo)
    BY <1>2 DEF AheadInv, AheadOnce
  <2> QED
    BY <1>2, <1>9, <2>1 DEF AheadOnce, Distinct
<1>11. NoneBelowSearch'
  <2>1. ASSUME NEW n \in ToSet(search'), n \in Scanned PROVE Children(n)' = <<>>
    BY <1>2, <1>4, <2>1 DEF AheadInv, NoneBelowSearch, Children
  <2>2. ToSet(search') \subseteq Scanned
    <3>1. ToSet(search) \subseteq Scanned
      BY ListElements DEF TreeInv, TypeOK, Scanned
    <3> QED
      BY <1>4, <3>1
  <2> QED
    BY <2>1, <2>2 DEF NoneBelowSearch
<1> QED
  BY <1>10, <1>11 DEF AheadInv

(* Both recursions begin with the root adapters, which have no parent. *)
LEMMA RootsAreAhead ==
  ASSUME TypeOK, ByParent, InOrder, todo' = root, UNCHANGED <<adapters, root>>
  PROVE  AheadOnce'
<1>1. root \in Seq(Scanned) /\ Scanned \subseteq Nat /\ Scanned \subseteq Nr
  BY KernelAssumption DEF TypeOK, Scanned
<1>2. Distinct(root)
  BY <1>1, RisingIsDistinct DEF InOrder
<1>3. Ahead' \subseteq Scanned
  BY DEF Ahead, LeadTo, Scanned
<1>4. \A n \in ToSet(root) : ParentId(n)' = NULL
  BY DEF ByParent, ParentId
<1> QED
  BY <1>1, <1>2, <1>3, <1>4, TopologyAssumption DEF AheadOnce, Distinct

LEMMA ChildrenTakenIsTurn ==
  ASSUME TypeOK, ChildrenTaken \/ GeneratePath
  PROVE  Turn /\ pc \in {"children", "paths"} /\ UNCHANGED <<pc, left, search>>
<1>1. CASE ChildrenTaken
  BY <1>1 DEF ChildrenTaken, Turn, Children, Scanned
<1>2. CASE GeneratePath
  <2>1. /\ todo # <<>> /\ pc = "paths" /\ UNCHANGED <<pc, left, search>>
        /\ adapters' = [adapters EXCEPT ![Head(todo)].path = PathOf(Head(todo))]
        /\ todo' = Children(Head(todo)) \o Tail(todo)
    BY <1>2 DEF GeneratePath, Children
  <2>2. adapters \in [Scanned -> Adapter]
    BY DEF TypeOK, Scanned
  <2>3. Scanned' = Scanned
    BY <2>1 DEF Scanned
  <2>4. ASSUME NEW n \in Scanned
        PROVE  adapters'[n].children = adapters[n].children /\ adapters'[n].devpath = adapters[n].devpath
    <3>1. adapters[n] \in Adapter
      BY <2>2
    <3>2. adapters'[n] = IF n = Head(todo) THEN [adapters[n] EXCEPT !.path = PathOf(Head(todo))]
                         ELSE adapters[n]
      BY <2>1, <2>2
    <3> QED
      BY <3>1, <3>2 DEF Adapter
  <2> QED
    BY <2>1, <2>3, <2>4 DEF Turn
<1> QED
  BY <1>1, <1>2

LEMMA NextKeepsAhead == ASSUME TreeInv, AheadInv, [Next]_vars PROVE AheadInv'
<1>1. TypeOK /\ ByParent /\ InOrder
  BY DEF TreeInv, ListInv
<1>2. CASE UNCHANGED <<pc, adapters, search, todo>>
  <2>1. Ahead' = Ahead
    BY <1>2 DEF Ahead
  <2> QED
    BY <1>2, <2>1 DEF AheadInv, AheadOnce, NoneBelowSearch, Children, ParentId
<1>3. CASE pc' \notin {"roots", "children", "paths"}
  BY <1>3 DEF AheadInv, AheadOnce, NoneBelowSearch
<1>4. CASE SortArray
  <2>1. pc' \in {"roots", "ready"} /\ adapters' = adapters /\ pc = "read"
    BY <1>4 DEF SortArray
  <2>2. AheadOnce'
    BY <2>1 DEF AheadOnce
  <2>3. ToSet(search') \subseteq Scanned
    BY <1>4 DEF SortArray, Scanned
  <2>4. \A n \in Scanned : Children(n)' = <<>>
    BY <2>1 DEF TreeInv, ListInv, Listed, Children
  <2> QED
    BY <2>2, <2>3, <2>4 DEF AheadInv, NoneBelowSearch
<1>5. CASE TakeRoot
  <2>1. pc = "roots" /\ UNCHANGED adapters
    BY <1>5 DEF TakeRoot
  <2>2. CASE FirstBelow(NULL) # 0
    <3>1. search' = RemoveAt(search, FirstBelow(NULL)) /\ pc' = pc
      BY <1>5, <2>2 DEF TakeRoot
    <3>2. ToSet(search') \subseteq ToSet(search)
      <4>1. Takes(search[FirstBelow(NULL)], NULL)
        BY <1>1, <2>2, <3>1, FallingTakes DEF InOrder
      <4> QED
        BY <4>1 DEF Takes
    <3> QED
      BY <2>1, <3>1, <3>2 DEF AheadInv, AheadOnce, NoneBelowSearch, Children
  <2>3. CASE FirstBelow(NULL) = 0
    <3>1. todo' = root /\ UNCHANGED <<root, search, adapters>>
      BY <1>5, <2>3 DEF TakeRoot
    <3>2. AheadOnce'
      BY <1>1, <3>1, RootsAreAhead
    <3>3. NoneBelowSearch'
      BY <2>1, <3>1 DEF AheadInv, NoneBelowSearch, Children
    <3> QED
      BY <3>2, <3>3 DEF AheadInv
  <2> QED
    BY <2>2, <2>3
<1>6. CASE TakeChild
  BY <1>6, MoveKeepsAhead
<1>7. CASE ChildrenTaken \/ GeneratePath
  <2>1. Turn /\ pc \in {"children", "paths"} /\ UNCHANGED <<pc, left, search>>
    BY <1>1, <1>7, ChildrenTakenIsTurn
  <2>2. AheadOnce'
    <3>1. Distinct(todo') /\ \A n \in ToSet(todo') : ParentId(n)' \notin Ahead'
      BY <1>1, <2>1, TurnLeavesLess DEF AheadInv
    <3> QED
      BY <3>1 DEF AheadOnce, Distinct
  <2>3. NoneBelowSearch'
    <3>1. ToSet(search) \subseteq Scanned
      BY ListElements DEF TreeInv, TypeOK, Scanned
    <3> QED
      BY <2>1, <3>1 DEF AheadInv, NoneBelowSearch, Children, Turn
  <2> QED
    BY <2>2, <2>3 DEF AheadInv
<1>8. CASE TreeBuilt
  <2>1. todo' = root /\ pc' = "paths" /\ UNCHANGED <<root, adapters>>
    BY <1>8 DEF TreeBuilt
  <2> QED
    BY <1>1, <2>1, RootsAreAhead DEF AheadInv, NoneBelowSearch
<1>9. CASE KernelStep
  BY <1>2, <1>9 DEF KernelStep, treeVars
<1>10. CASE \/ I2cdevCleanup \/ BeginScan \/ PathsGenerated
            \/ \E n \in Nr : ReadAdapter(n) \/ OpenDirectory(n) \/ DirectoryGone(n)
  BY <1>3, <1>10 DEF I2cdevCleanup, BeginScan, PathsGenerated, ReadAdapter, OpenDirectory,
     DirectoryGone, Cleanup, NextDirectory
<1>11. CASE UNCHANGED vars
  BY <1>2, <1>11 DEF vars, treeVars
<1> QED
  BY <1>4, <1>5, <1>6, <1>7, <1>8, <1>9, <1>10, <1>11 DEF Next

LEMMA AheadInvHolds == Spec => [](TreeInv /\ AheadInv)
<1>1. Init => AheadInv
  BY DEF Init, AheadInv, AheadOnce, NoneBelowSearch
<1>2. TreeInv /\ AheadInv /\ [Next]_vars => AheadInv'
  BY NextKeepsAhead
<1> QED
  BY <1>1, <1>2, TreeInvHolds, PTL DEF Spec

LEMMA LessIsLess ==
  ASSUME NEW a \in Nat, NEW b \in Nat, NEW c \in Nat, NEW d \in Nat,
         NEW e \in Nat, NEW f \in Nat, NEW g \in Nat, NEW h \in Nat,
         \/ a < e
         \/ a = e /\ b < f
         \/ a = e /\ b = f /\ c < g
         \/ a = e /\ b = f /\ c = g /\ d < h
  PROVE  LexLess(<<a, b, c, d>>, <<e, f, g, h>>)
<1> DEFINE s == <<a, b, c, d>>
           t == <<e, f, g, h>>
<1>1. /\ s \in [1..4 -> Nat] /\ s[1] = a /\ s[2] = b /\ s[3] = c /\ s[4] = d
      /\ t \in [1..4 -> Nat] /\ t[1] = e /\ t[2] = f /\ t[3] = g /\ t[4] = h
  OBVIOUS
<1> HIDE DEF s, t
<1>2. \A j \in 1..4 : j = 1 \/ j = 2 \/ j = 3 \/ j = 4
  OBVIOUS
<1>3. \E i \in 1..4 : s[i] < t[i] /\ \A j \in 1..4 : j < i => s[j] = t[j]
  <2>1. CASE a < e
    <3>1. 1 \in 1..4 /\ s[1] < t[1] /\ \A j \in 1..4 : j < 1 => s[j] = t[j]
      BY <1>1, <1>2, <2>1
    <3> QED
      BY <3>1
  <2>2. CASE a = e /\ b < f
    <3>1. 2 \in 1..4 /\ s[2] < t[2] /\ \A j \in 1..4 : j < 2 => s[j] = t[j]
      BY <1>1, <1>2, <2>2
    <3> QED
      BY <3>1
  <2>3. CASE a = e /\ b = f /\ c < g
    <3>1. 3 \in 1..4 /\ s[3] < t[3] /\ \A j \in 1..4 : j < 3 => s[j] = t[j]
      BY <1>1, <1>2, <2>3
    <3> QED
      BY <3>1
  <2>4. CASE a = e /\ b = f /\ c = g /\ d < h
    <3>1. 4 \in 1..4 /\ s[4] < t[4] /\ \A j \in 1..4 : j < 4 => s[j] = t[j]
      BY <1>1, <1>2, <2>4
    <3> QED
      BY <3>1
  <2> QED
    BY <2>1, <2>2, <2>3, <2>4
<1>4. DOMAIN t = 1..4
  BY <1>1
<1> QED
  BY <1>1, <1>3, <1>4 DEF LexLess, s, t

LEMMA FewerIsLess ==
  ASSUME NEW S, NEW T, IsFiniteSet(T), S \subseteq T, NEW x \in T, x \notin S
  PROVE  Cardinality(S) \in Nat /\ Cardinality(T) \in Nat /\ Cardinality(S) < Cardinality(T)
<1>1. IsFiniteSet(S) /\ Cardinality(S) <= Cardinality(T)
      /\ (Cardinality(S) = Cardinality(T) => S = T)
  BY FS_Subset
<1> QED
  BY <1>1, FS_CardinalityType

LEMMA RankIsMeasure ==
  ASSUME TypeOK
  PROVE  /\ IsFiniteSet(left) /\ IsFiniteSet(Ahead)
         /\ Phase \in Nat /\ Cardinality(left) \in Nat /\ Len(search) \in Nat
         /\ Cardinality(Ahead) \in Nat
<1>1. left \subseteq Nr /\ Ahead \subseteq Nr /\ search \in Seq(Scanned)
  BY DEF TypeOK, Ahead, LeadTo, Scanned
<1>2. IsFiniteSet(left) /\ IsFiniteSet(Ahead)
  BY <1>1, TopologyAssumption, FS_Subset
<1> QED
  BY <1>1, <1>2, FS_CardinalityType DEF TypeOK, Phase

LEMMA RankIsMeasureNext ==
  ASSUME TypeOK'
  PROVE  /\ Phase' \in Nat /\ Cardinality(left)' \in Nat /\ Len(search)' \in Nat
         /\ Cardinality(Ahead)' \in Nat
<1>1. left' \subseteq Nr /\ Ahead' \subseteq Nr /\ search' \in Seq(Scanned')
  BY DEF TypeOK, Ahead, LeadTo, Scanned
<1>2. IsFiniteSet(left') /\ IsFiniteSet(Ahead')
  BY <1>1, TopologyAssumption, FS_Subset
<1> QED
  BY <1>1, <1>2, FS_CardinalityType DEF TypeOK, Phase

LEMMA TakenShortens ==
  ASSUME TypeOK, NEW id, FirstBelow(id) # 0, search' = RemoveAt(search, FirstBelow(id))
  PROVE  Len(search') < Len(search)
<1>1. search \in Seq(Nr) /\ search \in Seq(Scanned)
  BY ListOfMore DEF TypeOK, Scanned
<1>2. FirstBelow(id) \in DOMAIN search
  BY <1>1, FirstBelowIsFirst
<1>3. Len(search') = Len(search) - 1 /\ Len(search) \in Nat
  BY <1>1, <1>2, RemoveAtTakes
<1> QED
  BY <1>3

LEMMA StepLeavesLess ==
  ASSUME TreeInv, TypeOK', AheadInv, ScanContinues
  PROVE  LexLess(Rank', Rank)
<1>1. TypeOK /\ ByParent /\ InOrder
  BY DEF TreeInv, ListInv
<1>2. /\ IsFiniteSet(left) /\ IsFiniteSet(Ahead)
      /\ Phase \in Nat /\ Cardinality(left) \in Nat /\ Len(search) \in Nat
      /\ Cardinality(Ahead) \in Nat
      /\ Phase' \in Nat /\ Cardinality(left') \in Nat /\ Len(search') \in Nat
      /\ Cardinality(Ahead') \in Nat
  BY <1>1, RankIsMeasure, RankIsMeasureNext
<1>3. /\ Rank = <<Phase, Cardinality(left), Len(search), Cardinality(Ahead)>>
      /\ Rank' = <<Phase', Cardinality(left'), Len(search'), Cardinality(Ahead')>>
  BY DEF Rank
<1> SUFFICES \/ Phase' < Phase
             \/ Phase' = Phase /\ Cardinality(left') < Cardinality(left)
             \/ Phase' = Phase /\ Cardinality(left') = Cardinality(left) /\ Len(search') < Len(search)
             \/ /\ Phase' = Phase /\ Cardinality(left') = Cardinality(left)
                /\ Len(search') = Len(search) /\ Cardinality(Ahead') < Cardinality(Ahead)
  BY <1>2, <1>3, LessIsLess
<1>4. pc' = pc => Phase' = Phase
  BY DEF Phase
<1>5. CASE SortArray
  BY <1>5 DEF SortArray, Phase
<1>6. CASE TakeRoot
  <2>1. pc = "roots" /\ left' = left
    BY <1>6 DEF TakeRoot
  <2>2. CASE FirstBelow(NULL) # 0
    <3>1. search' = RemoveAt(search, FirstBelow(NULL)) /\ pc' = pc
      BY <1>6, <2>2 DEF TakeRoot
    <3>2. Len(search') < Len(search)
      BY <1>1, <2>2, <3>1, TakenShortens
    <3> QED
      BY <1>4, <2>1, <3>1, <3>2
  <2>3. CASE FirstBelow(NULL) = 0
    <3>1. pc' = "children"
      BY <1>6, <2>3 DEF TakeRoot
    <3> QED
      BY <2>1, <3>1 DEF Phase
  <2> QED
    BY <2>2, <2>3
<1>7. CASE TakeChild
  <2>1. /\ left' = left /\ pc' = pc /\ FirstBelow(Head(todo)) # 0
        /\ search' = RemoveAt(search, FirstBelow(Head(todo)))
    BY <1>7 DEF TakeChild
  <2>2. Len(search') < Len(search)
    BY <1>1, <2>1, TakenShortens
  <2> QED
    BY <1>4, <2>1, <2>2
<1>8. CASE ChildrenTaken \/ GeneratePath
  <2>1. Turn /\ pc \in {"children", "paths"} /\ UNCHANGED <<pc, left, search>>
    BY <1>1, <1>8, ChildrenTakenIsTurn
  <2>2. Ahead' \subseteq Ahead \ {Head(todo)} /\ Head(todo) \in Ahead
    BY <1>1, <2>1, TurnLeavesLess DEF AheadInv
  <2>3. Cardinality(Ahead') < Cardinality(Ahead)
    BY <1>2, <2>2, FewerIsLess
  <2> QED
    BY <1>4, <2>1, <2>3
<1>9. CASE TreeBuilt
  BY <1>9 DEF TreeBuilt, Phase
<1>10. CASE PathsGenerated
  BY <1>10 DEF PathsGenerated, Phase
<1>11. CASE \E n \in Nr : ReadAdapter(n)
  <2>1. PICK n \in Nr : n \in left /\ left' = left \ {n} /\ pc' = pc
    BY <1>11 DEF ReadAdapter
  <2>2. Cardinality(left') < Cardinality(left)
    BY <1>2, <2>1, FewerIsLess
  <2> QED
    BY <1>4, <2>1, <2>2
<1>12. CASE \E n \in Nr : OpenDirectory(n)
  <2>1. PICK n \in Nr : n \in left /\ left' = left \ {n} /\ pc = "devices" /\ pc' \in {"ready", "devices"}
    BY <1>12 DEF OpenDirectory, NextDirectory
  <2>2. Cardinality(left') < Cardinality(left)
    BY <1>2, <2>1, FewerIsLess
  <2>3. CASE pc' = "ready"
    BY <2>1, <2>3 DEF Phase
  <2>4. CASE pc' = pc
    BY <1>4, <2>2, <2>4
  <2> QED
    BY <2>1, <2>3, <2>4
<1>13. CASE \E n \in Nr : DirectoryGone(n)
  BY <1>13 DEF DirectoryGone, NextDirectory, Cleanup, Phase
<1> QED
  BY <1>5, <1>6, <1>7, <1>8, <1>9, <1>10, <1>11, <1>12, <1>13 DEF ScanContinues

(* The recursions of adapter_tree_build and foreach_devbus_tree come to no  *)
(* adapter twice, for whoever is on the way is below nothing that is still  *)
(* ahead; so a scan has an end whatever it read, also when the directories  *)
(* of a torn scan make adapters each other's parents.                       *)
THEOREM ScanLeavesLess == Spec => ScanShrinks
<1>1. TreeInv /\ TreeInv' /\ AheadInv /\ [Next]_vars => [ScanContinues => LexLess(Rank', Rank)]_vars
  BY StepLeavesLess DEF TreeInv
<1> QED
  BY <1>1, AheadInvHolds, PTL DEF Spec, ScanShrinks
===============================================================================
