---------------------------- MODULE BusTreeProofs ----------------------------
(***************************************************************************)
(* A scan, torn or not, puts each adapter it found on one list, numbers    *)
(* the channels of a multiplexer in order, and names every adapter of the  *)
(* tree by a path that leads back to it.  Proved for every topology, every *)
(* set of numbers and any number of changes during the scan.               *)
(*                                                                         *)
(* That the build keeps each adapter on one list needs no list of those    *)
(* moved so far: which list an adapter can be on is a matter of its parent *)
(* (ByParent), and since the search list falls and adapters are taken from *)
(* its front, one that is still there is smaller than all its siblings in  *)
(* the tree (StillToCome).  So it is at their head that it is inserted.    *)
(***************************************************************************)
EXTENDS BusTree, FiniteSetTheorems, TLAPS

-----------------------------------------------------------------------------
(* The inductive invariant *)

Scanned == DOMAIN adapters

Children(p) == adapters[p].children

Rising(s) == \A i, j \in DOMAIN s : i < j => s[i] < s[j]

Falling(s) == \A i, j \in DOMAIN s : i < j => s[i] > s[j]

(* The directory of an adapter has at least its own number in its path. *)
Directories ==
  /\ \A n \in Plugged : dir[n] # <<>>
  /\ \A n \in Scanned : adapters[n].devpath # <<>>

InOrder == Falling(search) /\ Rising(root) /\ \A p \in Scanned : Rising(Children(p))

ByParent ==
  /\ \A n \in ToSet(root) : ParentId(n) = NULL
  /\ \A p \in Scanned : \A n \in ToSet(Children(p)) : n \in Scanned /\ ParentId(n) = p

StillToCome ==
  \A n \in ToSet(search) :
    /\ ParentId(n) = NULL => \A c \in ToSet(root) : n < c
    /\ \A p \in Scanned : ParentId(n) = p => \A c \in ToSet(Children(p)) : n < c

(* Nothing is listed before the array is sorted, everything afterwards. *)
Listed ==
  IF pc \in {"idle", "read"}
  THEN search = <<>> /\ root = <<>> /\ todo = <<>> /\ \A p \in Scanned : Children(p) = <<>>
  ELSE \A n \in Scanned :
         \/ n \in ToSet(search)
         \/ n \in ToSet(root)
         \/ ParentId(n) \in Scanned /\ n \in ToSet(Children(ParentId(n)))

TodoIsInTree == ToSet(todo) \cap ToSet(search) = {}

(* The tree is what its roots lead to: every set of adapters that has the   *)
(* roots and the children of its members has all of it.                     *)
Reached ==
  pc \in {"roots", "children", "paths"} =>
    \A S \in SUBSET Scanned :
      (ToSet(root) \subseteq S /\ \A p \in S : ToSet(Children(p)) \subseteq S) => InTree \subseteq S

HasPath(n) == adapters[n].path # <<>>

PathsFind == \A n \in Scanned : HasPath(n) => Finds(adapters[n].path, n)

(* Paths are made from the roots down, of all that the roots lead to. *)
PathsSoFar ==
  /\ pc \in {"read", "roots", "children"} => \A n \in Scanned : ~HasPath(n)
  /\ pc = "paths" =>
       /\ \A n \in ToSet(todo) :
            \/ n \in ToSet(root)
            \/ ParentId(n) \in Scanned /\ HasPath(ParentId(n)) /\ n \in ToSet(Children(ParentId(n)))
       /\ \A n \in ToSet(root) : HasPath(n) \/ n \in ToSet(todo)
       /\ \A p \in Scanned : HasPath(p) => \A n \in ToSet(Children(p)) : HasPath(n) \/ n \in ToSet(todo)
  /\ Built => \A n \in InTree : HasPath(n)

ListInv == Directories /\ InOrder /\ ByParent /\ StillToCome /\ Listed /\ TodoIsInTree

TreeInv == TypeOK /\ ListInv /\ IdIsRank /\ Reached /\ PathsFind /\ PathsSoFar

-----------------------------------------------------------------------------
(* Sequences *)

(* A set of numbers has a least one. *)
LEMMA NatHasLeast ==
  ASSUME NEW S \in SUBSET Nat, S # {}
  PROVE  \E j \in S : \A l \in S : j <= l
<1> DEFINE R == OpToRel(<, Nat)
<1>1. PICK j \in S : \A l \in S : ~(<<l, j>> \in R)
  BY NatLessThanWellFounded, WFMin, Zenon
<1>2. \A l \in S : <<l, j>> \in R <=> l < j
  BY DEF OpToRel
<1>3. \A l \in S : ~(l < j)
  BY <1>1, <1>2
<1> QED
  BY <1>3

LEMMA MinIsLeast ==
  ASSUME NEW S \in SUBSET Nat, S # {}
  PROVE  Min(S) \in S /\ \A l \in S : Min(S) <= l
BY NatHasLeast DEF Min

LEMMA ListElements ==
  ASSUME NEW S, NEW s \in Seq(S)
  PROVE  /\ DOMAIN s = 1..Len(s)
         /\ Len(s) \in Nat
         /\ \A j \in DOMAIN s : j \in Int /\ s[j] \in S
         /\ \A n \in ToSet(s) : n \in S
BY DEF ToSet

LEMMA ListOfMore ==
  ASSUME NEW S, NEW T, S \subseteq T, NEW s \in Seq(S)
  PROVE  s \in Seq(T)
<1>1. \A j \in 1..Len(s) : s[j] \in T
  OBVIOUS
<1>2. s \in [1..Len(s) -> T] /\ Len(s) \in Nat
  BY <1>1
<1> QED
  BY <1>2

LEMMA AppendIsLonger ==
  ASSUME NEW S, NEW s \in Seq(S), NEW x \in S
  PROVE  Append(s, x) \in Seq(S) /\ Append(s, x) # <<>> /\ Len(Append(s, x)) = Len(s) + 1
<1>1. Append(s, x) \in Seq(S) /\ Len(Append(s, x)) = Len(s) + 1 /\ Len(s) \in Nat
  OBVIOUS
<1>2. Len(Append(s, x)) # Len(<<>>)
  BY <1>1
<1> QED
  BY <1>1, <1>2

(* bus_parent_nr_lookup finds the first adapter with that parent. *)
LEMMA FirstBelowIsFirst ==
  ASSUME NEW id, search \in Seq(Nr)
  PROVE  \/ FirstBelow(id) = 0 /\ \A j \in DOMAIN search : ParentId(search[j]) # id
         \/ /\ FirstBelow(id) \in DOMAIN search
            /\ ParentId(search[FirstBelow(id)]) = id
            /\ \A j \in DOMAIN search : ParentId(search[j]) = id => FirstBelow(id) <= j
<1> DEFINE I == {j \in 1..Len(search) : ParentId(search[j]) = id}
<1>1. FirstBelow(id) = IF I # {} THEN Min(I) ELSE 0
  BY DEF FirstBelow, SelectInSeq
<1>2. I \in SUBSET Nat /\ DOMAIN search = 1..Len(search)
  OBVIOUS
<1>3. CASE I = {}
  BY <1>1, <1>2, <1>3
<1>4. CASE I # {}
  <2>1. Min(I) \in I /\ \A l \in I : Min(I) <= l
    BY <1>2, <1>4, MinIsLeast
  <2> QED
    BY <1>1, <1>2, <1>4, <2>1
<1> QED
  BY <1>3, <1>4

(* Taking out an element takes that element out, and keeps the order. *)
LEMMA RemoveAtTakes ==
  ASSUME NEW S, NEW s \in Seq(S), NEW i \in DOMAIN s
  PROVE  /\ RemoveAt(s, i) \in Seq(S)
         /\ Len(RemoveAt(s, i)) = Len(s) - 1
         /\ \A j \in DOMAIN RemoveAt(s, i) :
              RemoveAt(s, i)[j] = IF j < i THEN s[j] ELSE s[j + 1]
<1> DEFINE l == SubSeq(s, 1, i - 1)
           r == SubSeq(s, i + 1, Len(s))
<1>1. l \in Seq(S) /\ Len(l) = i - 1 /\ \A j \in 1..(i - 1) : l[j] = s[j]
  OBVIOUS
<1>2. r \in Seq(S) /\ Len(r) = Len(s) - i /\ \A j \in 1..(Len(s) - i) : r[j] = s[j + i]
  OBVIOUS
<1>3. RemoveAt(s, i) = l \o r
  BY DEF RemoveAt
<1> HIDE DEF l, r
<1>4. /\ l \o r \in Seq(S) /\ Len(l \o r) = Len(s) - 1
      /\ \A j \in 1..(Len(s) - 1) : (l \o r)[j] = IF j < i THEN s[j] ELSE s[j + 1]
  BY <1>1, <1>2
<1>5. DOMAIN (l \o r) = 1..(Len(s) - 1)
  BY <1>4
<1> QED
  BY <1>3, <1>4, <1>5

LEMMA RemoveAtSet ==
  ASSUME NEW S, NEW s \in Seq(S), NEW i \in DOMAIN s, \A j, k \in DOMAIN s : s[j] = s[k] => j = k
  PROVE  ToSet(RemoveAt(s, i)) = ToSet(s) \ {s[i]}
<1> DEFINE t == RemoveAt(s, i)
<1>1. /\ t \in Seq(S) /\ Len(t) = Len(s) - 1
      /\ \A j \in DOMAIN t : t[j] = IF j < i THEN s[j] ELSE s[j + 1]
  BY RemoveAtTakes
<1> HIDE DEF t
<1>2. ASSUME NEW j \in DOMAIN t PROVE t[j] \in ToSet(s) \ {s[i]}
  BY <1>1 DEF ToSet
<1>3. ASSUME NEW k \in DOMAIN s, k # i PROVE s[k] \in ToSet(t)
  <2>1. CASE k < i
    <3>1. k \in DOMAIN t /\ t[k] = s[k]
      BY <1>1, <2>1
    <3> QED
      BY <3>1 DEF ToSet
  <2>2. CASE k > i
    <3>1. k - 1 \in DOMAIN t /\ t[k - 1] = s[k]
      BY <1>1, <2>2
    <3> QED
      BY <3>1 DEF ToSet
  <2> QED
    BY <1>3, <2>1, <2>2
<1> QED
  BY <1>2, <1>3 DEF ToSet, t

-----------------------------------------------------------------------------
(* Taking an adapter from the search list *)

(* What a step that takes the first adapter below id leaves of the search   *)
(* list: the same, without the largest of the adapters below id.            *)
Takes(x, id) ==
  /\ x \in ToSet(search)
  /\ ParentId(x) = id
  /\ \A n \in ToSet(search) : ParentId(n) = id => n <= x
  /\ search' \in Seq(Scanned)
  /\ ToSet(search') = ToSet(search) \ {x}
  /\ Falling(search')

LEMMA FallingTakes ==
  ASSUME TypeOK, Falling(search), NEW id, FirstBelow(id) # 0,
         search' = RemoveAt(search, FirstBelow(id))
  PROVE  Takes(search[FirstBelow(id)], id)
<1> DEFINE i == FirstBelow(id)
           t == RemoveAt(search, i)
<1>1. search \in Seq(Scanned) /\ Scanned \subseteq Nat /\ search \in Seq(Nr)
  <2>1. search \in Seq(Scanned) /\ Scanned \subseteq Nr
    BY DEF TypeOK, Scanned
  <2> QED
    BY <2>1, KernelAssumption, ListOfMore
<1>2. /\ i \in DOMAIN search
      /\ ParentId(search[i]) = id
      /\ \A j \in DOMAIN search : ParentId(search[j]) = id => i <= j
  BY <1>1, FirstBelowIsFirst
<1>0. /\ DOMAIN search = 1..Len(search) /\ Len(search) \in Nat
       /\ \A j \in DOMAIN search : j \in Int /\ search[j] \in Nat
  BY <1>1, ListElements
<1>3. \A j, k \in DOMAIN search : search[j] = search[k] => j = k
  <2> SUFFICES ASSUME NEW j \in DOMAIN search, NEW k \in DOMAIN search, j # k
               PROVE  search[j] # search[k]
    OBVIOUS
  <2>1. j < k \/ k < j
    BY <1>0
  <2> QED
    BY <1>0, <2>1 DEF Falling
<1>4. /\ t \in Seq(Scanned) /\ Len(t) = Len(search) - 1
      /\ \A j \in DOMAIN t : t[j] = IF j < i THEN search[j] ELSE search[j + 1]
  BY <1>1, <1>2, RemoveAtTakes
<1>5. ToSet(t) = ToSet(search) \ {search[i]}
  BY <1>1, <1>2, <1>3, RemoveAtSet
<1> HIDE DEF i, t
<1>6. Falling(t)
  <2> SUFFICES ASSUME NEW j \in DOMAIN t, NEW k \in DOMAIN t, j < k PROVE t[j] > t[k]
    BY DEF Falling
  <2> DEFINE J == IF j < i THEN j ELSE j + 1
             K == IF k < i THEN k ELSE k + 1
  <2>1. J \in DOMAIN search /\ K \in DOMAIN search /\ J < K
    BY <1>2, <1>4
  <2>2. t[j] = search[J] /\ t[k] = search[K]
    BY <1>4
  <2> QED
    BY <2>1, <2>2 DEF Falling
<1>7. \A n \in ToSet(search) : ParentId(n) = id => n <= search[i]
  <2> SUFFICES ASSUME NEW j \in DOMAIN search, ParentId(search[j]) = id PROVE search[j] <= search[i]
    BY DEF ToSet
  <2>1. i <= j /\ search[i] \in Nat /\ search[j] \in Nat /\ i \in Int /\ j \in Int
    BY <1>2, <1>0
  <2>2. CASE i = j
    BY <2>1, <2>2
  <2>3. CASE i < j
    BY <1>2, <2>1, <2>3 DEF Falling
  <2> QED
    BY <2>1, <2>2, <2>3
<1>8. search' = t
  BY DEF i, t
<1>9. search[i] \in ToSet(search)
  BY <1>2 DEF ToSet
<1> QED
  BY <1>2, <1>4, <1>5, <1>6, <1>7, <1>8, <1>9 DEF Takes, i

-----------------------------------------------------------------------------
(* Lists *)

LEMMA RisingHead ==
  ASSUME NEW S \in SUBSET Nat, NEW s \in Seq(S), Rising(s), NEW x \in S, \A c \in ToSet(s) : x < c
  PROVE  /\ Rising(<<x>> \o s)
         /\ ToSet(<<x>> \o s) = {x} \cup ToSet(s)
         /\ <<x>> \o s \in Seq(S)
<1> DEFINE t == <<x>> \o s
<1>1. /\ t \in Seq(S) /\ Len(t) = Len(s) + 1 /\ DOMAIN t = 1..(Len(s) + 1)
      /\ t[1] = x /\ \A j \in 1..Len(s) : t[j + 1] = s[j]
  OBVIOUS
<1>0. \A j \in DOMAIN s : s[j] \in S
  BY ListElements
<1>2. \A j \in 1..Len(s) : x < s[j] /\ s[j] \in Nat
  <2> SUFFICES ASSUME NEW j \in 1..Len(s) PROVE x < s[j] /\ s[j] \in Nat
    OBVIOUS
  <2>1. j \in DOMAIN s
    OBVIOUS
  <2> QED
    BY <1>0, <2>1 DEF ToSet
<1> HIDE DEF t
<1>3. \A j \in 2..(Len(s) + 1) : j - 1 \in DOMAIN s /\ t[j] = s[j - 1]
  BY <1>1
<1>4. Rising(t)
  <2> SUFFICES ASSUME NEW j \in DOMAIN t, NEW k \in DOMAIN t, j < k PROVE t[j] < t[k]
    BY DEF Rising
  <2>1. k \in 2..(Len(s) + 1)
    BY <1>1
  <2>2. CASE j = 1
    BY <1>1, <1>2, <1>3, <2>1, <2>2
  <2>3. CASE j # 1
    <3>1. j \in 2..(Len(s) + 1) /\ j - 1 < k - 1
      BY <1>1, <2>1, <2>3
    <3> QED
      BY <1>3, <2>1, <3>1 DEF Rising
  <2> QED
    BY <2>2, <2>3
<1>5. ASSUME NEW j \in DOMAIN t PROVE t[j] \in {x} \cup ToSet(s)
  <2>1. j = 1 \/ j \in 2..(Len(s) + 1)
    BY <1>1
  <2> QED
    BY <1>1, <1>3, <2>1 DEF ToSet
<1>6. ASSUME NEW j \in DOMAIN s PROVE s[j] \in ToSet(t)
  <2>1. j + 1 \in DOMAIN t /\ t[j + 1] = s[j]
    BY <1>1
  <2> QED
    BY <2>1 DEF ToSet
<1>7. x \in ToSet(t)
  BY <1>1 DEF ToSet
<1>8. ToSet(t) = {x} \cup ToSet(s)
  BY <1>5, <1>6, <1>7 DEF ToSet
<1> QED
  BY <1>1, <1>4, <1>8 DEF t

(* compare_bus_list_insert puts an adapter at the head of a list of larger  *)
(* ones.                                                                    *)
LEMMA InsertedAtHead ==
  ASSUME NEW S \in SUBSET Nat, NEW s \in Seq(S), NEW x \in S, \A c \in ToSet(s) : x < c
  PROVE  InsertSibling(x, s) = <<x>> \o s
<1>1. CASE s = <<>>
  BY <1>1 DEF InsertSibling
<1>2. CASE s # <<>>
  <2>1. Head(s) = s[1] /\ 1 \in DOMAIN s
    BY <1>2
  <2>3. Head(s) \in Nat /\ x \in Nat
    BY <2>1, ListElements
  <2>2. x < Head(s)
    BY <2>1 DEF ToSet
  <2> QED
    BY <1>2, <2>2, <2>3 DEF InsertSibling
<1> QED
  BY <1>1, <1>2

LEMMA HeadAndTail ==
  ASSUME NEW S, NEW s \in Seq(S), s # <<>>
  PROVE  /\ Head(s) \in S /\ Head(s) \in ToSet(s) /\ Tail(s) \in Seq(S)
         /\ ToSet(s) = {Head(s)} \cup ToSet(Tail(s))
<1>1. /\ 1 \in DOMAIN s /\ Head(s) = s[1]
      /\ Tail(s) \in Seq(S) /\ DOMAIN Tail(s) = 1..(Len(s) - 1)
      /\ \A j \in DOMAIN Tail(s) : Tail(s)[j] = s[j + 1] /\ j + 1 \in DOMAIN s
      /\ \A j \in DOMAIN s : j = 1 \/ j - 1 \in DOMAIN Tail(s)
  OBVIOUS
<1>2. \A j \in DOMAIN s : j = 1 \/ (j - 1 \in DOMAIN Tail(s) /\ Tail(s)[j - 1] = s[j])
  BY <1>1
<1> QED
  BY <1>1, <1>2 DEF ToSet

LEMMA ConcatSet ==
  ASSUME NEW S, NEW s \in Seq(S), NEW t \in Seq(S)
  PROVE  s \o t \in Seq(S) /\ ToSet(s \o t) = ToSet(s) \cup ToSet(t)
<1>1. /\ s \o t \in Seq(S) /\ DOMAIN (s \o t) = 1..(Len(s) + Len(t))
      /\ \A j \in 1..Len(s) : j \in DOMAIN s /\ (s \o t)[j] = s[j]
      /\ \A j \in 1..Len(t) : j \in DOMAIN t /\ (s \o t)[j + Len(s)] = t[j]
  OBVIOUS
<1>2. \A j \in DOMAIN (s \o t) : j \in 1..Len(s) \/ j - Len(s) \in 1..Len(t)
  BY <1>1
<1>3. ASSUME NEW j \in DOMAIN (s \o t) PROVE (s \o t)[j] \in ToSet(s) \cup ToSet(t)
  <2>1. CASE j \in 1..Len(s)
    BY <1>1, <2>1 DEF ToSet
  <2>2. CASE j - Len(s) \in 1..Len(t)
    <3>1. (s \o t)[(j - Len(s)) + Len(s)] = t[j - Len(s)] /\ (j - Len(s)) + Len(s) = j
      BY <1>1, <2>2
    <3> QED
      BY <2>2, <3>1 DEF ToSet
  <2> QED
    BY <1>2, <2>1, <2>2
<1>4. \A j \in DOMAIN s : j \in DOMAIN (s \o t) /\ (s \o t)[j] = s[j]
  BY <1>1
<1>5. \A j \in DOMAIN t : j + Len(s) \in DOMAIN (s \o t) /\ (s \o t)[j + Len(s)] = t[j]
  BY <1>1
<1>6. ToSet(s) \subseteq ToSet(s \o t) /\ ToSet(t) \subseteq ToSet(s \o t)
  BY <1>4, <1>5 DEF ToSet
<1>7. ToSet(s \o t) \subseteq ToSet(s) \cup ToSet(t)
  BY <1>3 DEF ToSet
<1> QED
  BY <1>1, <1>6, <1>7

-----------------------------------------------------------------------------
(* Steps that leave the lists alone *)

(* ChildFor gives the first child that the token denotes. *)
LEMMA ChildForIsFirst ==
  ASSUME NEW S, NEW n, adapters[n].children \in Seq(S), NEW token
  PROVE  \/ ChildFor(n, token) = NULL /\ \A c \in ToSet(Children(n)) : ~Matches(c, token)
         \/ /\ ChildFor(n, token) \in ToSet(Children(n))
            /\ Matches(ChildFor(n, token), token)
<1> DEFINE list == adapters[n].children
           I == {j \in 1..Len(list) : Matches(list[j], token)}
           i == IF I # {} THEN Min(I) ELSE 0
<1>1. ChildFor(n, token) = IF i = 0 THEN NULL ELSE list[i]
  BY DEF ChildFor, SelectInSeq
<1>2. I \in SUBSET Nat /\ DOMAIN list = 1..Len(list)
  OBVIOUS
<1>3. CASE I = {}
  <2>1. \A c \in ToSet(list) : ~Matches(c, token)
    BY <1>2, <1>3 DEF ToSet
  <2>2. ChildFor(n, token) = NULL
    BY <1>1, <1>3
  <2> QED
    BY <2>1, <2>2 DEF Children
<1>4. CASE I # {}
  <2>1. Min(I) \in I
    BY <1>2, <1>4, MinIsLeast
  <2>2. i \in 1..Len(list) /\ Matches(list[i], token)
    BY <1>4, <2>1
  <2> HIDE DEF i
  <2>3. ChildFor(n, token) = list[i]
    BY <1>1, <2>2
  <2>4. list[i] \in ToSet(list)
    BY <1>2, <2>2 DEF ToSet
  <2> QED
    BY <2>2, <2>3, <2>4 DEF Children
<1> QED
  BY <1>3, <1>4

(* What a lookup reads of an adapter. *)
SameForLookup ==
  /\ DOMAIN adapters' = DOMAIN adapters
  /\ \A n \in Scanned : /\ adapters'[n].children = adapters[n].children
                        /\ adapters'[n].busId = adapters[n].busId
                        /\ adapters'[n].chan = adapters[n].chan

LEMMA SameLookup ==
  ASSUME SameForLookup, \A p \in Scanned : Children(p) \in Seq(Scanned),
         NEW path \in Seq(Token), NEW n, Finds(path, n)
  PROVE  Finds(path, n)'
<1>1. ASSUME NEW p \in Scanned, NEW token PROVE ChildFor(p, token)' = ChildFor(p, token)
  <2> DEFINE list == adapters[p].children
             I == {j \in 1..Len(list) : Matches(list[j], token)}
             Later(c) == IF token.type = "BUS" THEN c = token.id
                         ELSE adapters'[c].busId = token.id /\ adapters'[c].chan = token.value
             J == {j \in 1..Len(list) : Later(list[j])}
  <2>1. list' = list /\ list \in Seq(Scanned)
    BY DEF SameForLookup, Children
  <2>2. \A j \in 1..Len(list) : list[j] \in Scanned
    BY <2>1
  <2>3. \A c \in Scanned : Matches(c, token) <=> Later(c)
    BY DEF SameForLookup, Matches
  <2>4. I = J
    BY <2>2, <2>3
  <2>5. ChildFor(p, token) = LET i == IF I # {} THEN Min(I) ELSE 0 IN IF i = 0 THEN NULL ELSE list[i]
    BY DEF ChildFor, SelectInSeq
  <2>6. ChildFor(p, token)' = LET i == IF J # {} THEN Min(J) ELSE 0 IN IF i = 0 THEN NULL ELSE list[i]
    BY <2>1 DEF ChildFor, SelectInSeq, Matches
  <2> HIDE DEF list, I, J
  <2> QED
    BY <2>4, <2>5, <2>6
<1>2. PICK at \in [1..Len(path) -> Scanned] :
        /\ at[1] = path[1].id
        /\ \A i \in 2..Len(path) : at[i] = ChildFor(at[i - 1], path[i])
        /\ at[Len(path)] = n
  BY DEF Finds, Scanned
<1>3. ASSUME NEW i \in 2..Len(path) PROVE at[i] = ChildFor(at[i - 1], path[i])'
  <2>1. i - 1 \in 1..Len(path)
    OBVIOUS
  <2>2. at[i - 1] \in Scanned
    BY <2>1
  <2> QED
    BY <1>1, <1>2, <2>2
<1>4. path # <<>> /\ DOMAIN adapters' = Scanned
  BY DEF Finds, SameForLookup, Scanned
<1> QED
  BY <1>2, <1>3, <1>4 DEF Finds

LEMMA ListOfThose ==
  ASSUME NEW S, NEW T, NEW s \in Seq(S), ToSet(s) \subseteq T
  PROVE  s \in Seq(T)
<1>1. \A j \in 1..Len(s) : s[j] \in T
  BY DEF ToSet
<1>2. s = [j \in 1..Len(s) |-> s[j]] /\ Len(s) \in Nat
  OBVIOUS
<1> QED
  BY <1>1, <1>2

LEMMA ChildrenAreScanned ==
  ASSUME TypeOK, ByParent
  PROVE  \A p \in Scanned : Children(p) \in Seq(Scanned)
<1> SUFFICES ASSUME NEW p \in Scanned PROVE Children(p) \in Seq(Scanned)
  OBVIOUS
<1>1. adapters[p] \in Adapter
  BY DEF TypeOK, Scanned
<1>2. Children(p) \in Seq(Nr)
  BY <1>1 DEF Adapter, Children
<1>3. ToSet(Children(p)) \subseteq Scanned
  BY DEF ByParent
<1> QED
  BY <1>2, <1>3, ListOfThose

(* With the lists, all that speaks of them only is kept. *)
ListFacts == InOrder /\ ByParent /\ StillToCome /\ IdIsRank /\ PathsFind
             /\ \A n \in Scanned : adapters[n].devpath # <<>>

LEMMA AdaptersKept ==
  ASSUME TreeInv, UNCHANGED adapters
  PROVE  IdIsRank' /\ PathsFind' /\ (\A n \in Scanned : adapters[n].devpath # <<>>)'
<1>1. IdIsRank'
  <2> DEFINE Ranked(A) ==
        \A p \in DOMAIN A : \A n \in ToSet(A[p].children) :
          A[n].busId = Cardinality({m \in ToSet(A[p].children) : m < n /\ A[m].chan = A[n].chan})
  <2>1. Ranked(adapters)
    BY DEF TreeInv, IdIsRank
  <2>2. Ranked(adapters') => IdIsRank'
    BY DEF IdIsRank
  <2> HIDE DEF Ranked
  <2> QED
    BY <2>1, <2>2
<1>2. PathsFind'
  <2> SUFFICES ASSUME NEW n \in Scanned, HasPath(n) PROVE Finds(adapters[n].path, n)'
    BY DEF PathsFind, Scanned, HasPath
  <2>1. Finds(adapters[n].path, n)
    BY DEF TreeInv, PathsFind
  <2>2. SameForLookup
    BY DEF SameForLookup, Scanned
  <2>3. adapters[n].path \in Seq(Token)
    BY DEF TreeInv, TypeOK, Adapter, Scanned
  <2>4. PICK path \in Seq(Token) : path = adapters[n].path
    BY <2>3
  <2>5. Finds(path, n)'
    BY <2>1, <2>2, <2>4, SameLookup, ChildrenAreScanned DEF TreeInv, ListInv
  <2>6. path = (adapters[n].path)'
    BY <2>4
  <2> QED
    BY <2>5, <2>6
<1>3. (\A n \in Scanned : adapters[n].devpath # <<>>)'
  BY DEF TreeInv, ListInv, Directories, Scanned
<1> QED
  BY <1>1, <1>2, <1>3

LEMMA ListsKept ==
  ASSUME TreeInv, UNCHANGED <<adapters, search, root>>
  PROVE  ListFacts'
<1>1. InOrder'
  BY DEF TreeInv, ListInv, InOrder, Falling, Rising, Children, Scanned
<1>2. ByParent'
  BY DEF TreeInv, ListInv, ByParent, Children, Scanned, ParentId
<1>3. StillToCome'
  BY DEF TreeInv, ListInv, StillToCome, Children, Scanned, ParentId
<1> QED
  BY <1>1, <1>2, <1>3, AdaptersKept DEF ListFacts

LEMMA EmptyTable ==
  ASSUME adapters = NoAdapters, search = <<>>, root = <<>>
  PROVE  ListFacts
<1>1. Scanned = {} /\ ToSet(search) = {} /\ ToSet(root) = {} /\ DOMAIN search = {} /\ DOMAIN root = {}
  BY DEF NoAdapters, Scanned, ToSet
<1>2. InOrder /\ ByParent /\ StillToCome
  BY <1>1 DEF InOrder, ByParent, StillToCome, Falling, Rising
<1>3. IdIsRank
  BY <1>1 DEF IdIsRank, Scanned
<1>4. PathsFind
  BY <1>1 DEF PathsFind
<1> QED
  BY <1>1, <1>2, <1>3, <1>4 DEF ListFacts

LEMMA EmptyTableNext ==
  ASSUME adapters' = NoAdapters, search' = <<>>, root' = <<>>
  PROVE  ListFacts'
<1>1. Scanned' = {} /\ ToSet(search') = {} /\ ToSet(root') = {} /\ DOMAIN search' = {} /\ DOMAIN root' = {}
  BY DEF NoAdapters, Scanned, ToSet
<1>2. InOrder' /\ ByParent' /\ StillToCome'
  BY <1>1 DEF InOrder, ByParent, StillToCome, Falling, Rising
<1>3. IdIsRank'
  BY <1>1 DEF IdIsRank, Scanned
<1>4. PathsFind'
  BY <1>1 DEF PathsFind
<1> QED
  BY <1>1, <1>2, <1>3, <1>4 DEF ListFacts

HasDirectory == \A n \in Plugged : dir[n] # <<>>

LEMMA InvFromParts ==
  ASSUME TypeOK', HasDirectory', ListFacts', Listed', TodoIsInTree', Reached', PathsSoFar'
  PROVE  TreeInv'
BY DEF TreeInv, ListInv, Directories, ListFacts, HasDirectory

LEMMA PartsOfInv ==
  ASSUME TreeInv
  PROVE  TypeOK /\ HasDirectory /\ ListFacts /\ Listed /\ TodoIsInTree /\ Reached /\ PathsSoFar
BY DEF TreeInv, ListInv, Directories, ListFacts, HasDirectory

LEMMA InvInit == ASSUME Init PROVE TreeInv
<1>1. Scanned = {} /\ ToSet(search) = {} /\ ToSet(todo) = {}
  BY DEF Init, NoAdapters, Scanned, ToSet
<1>2. NodeTypeOK
  BY DEF Init, KernelInit, NodeTypeOK
<1>3. <<>> \in Seq(Nr) /\ \A S : <<>> \in Seq(S)
  OBVIOUS
<1>4. adapters \in [DOMAIN adapters -> Adapter] /\ DOMAIN adapters \subseteq Nr
  BY DEF Init, NoAdapters
<1>5. TypeOK
  BY <1>2, <1>3, <1>4, TopologyAssumption DEF Init, TypeOK
<1>6. Plugged = {}
  BY DEF Init, KernelInit, Plugged
<1>7. ListFacts
  BY EmptyTable DEF Init
<1>8. Listed /\ TodoIsInTree /\ Reached /\ PathsSoFar
  BY <1>1 DEF Init, Listed, TodoIsInTree, Reached, PathsSoFar, Built
<1> QED
  BY <1>5, <1>6, <1>7, <1>8 DEF TreeInv, ListInv, Directories, ListFacts

(* A bus keeps the path of its directory while it is there. *)
LEMMA TopologyKeepsDirectories ==
  ASSUME TypeOK, HasDirectory, TopologyChanges
  PROVE  NodeTypeOK' /\ dir' \in [Nr -> Seq(Nr)] /\ HasDirectory'
<1>1. NodeTypeOK /\ dir \in [Nr -> Seq(Nr)]
  BY DEF TypeOK
<1>2. CASE \E n \in Nr, b \in Bus : BusAppears(n, b)
  <2>1. PICK n \in Nr, b \in Bus : BusAppears(n, b)
    BY <1>2
  <2>2. node' = [node EXCEPT ![n].bus = b] /\ b # NULL
    BY <2>1, KernelAssumption DEF BusAppears, Plug
  <2>3. NodeTypeOK'
    BY <1>1, <2>2 DEF NodeTypeOK
  <2>4. \A m \in Nr : m # n => node'[m] = node[m]
    BY <1>1, <2>2 DEF NodeTypeOK
  <2>5. Plugged' \subseteq Plugged \cup {n}
    BY <2>4 DEF Plugged
  <2>6. PICK s \in Seq(Nr) : s # <<>> /\ dir' = [dir EXCEPT ![n] = s]
    <3>1. CASE Parent[b] = NULL
      <4>1. <<n>> \in Seq(Nr) /\ <<n>> # <<>>
        OBVIOUS
      <4>2. dir' = [dir EXCEPT ![n] = <<n>>]
        BY <2>1, <3>1 DEF BusAppears
      <4> QED
        BY <4>1, <4>2, Zenon
    <3>2. CASE Parent[b] # NULL
      <4>1. NumberOf(Parent[b]) \in Nr
        BY <2>1, <3>2 DEF BusAppears, IsPlugged, NumberOf, Plugged
      <4>2. dir[NumberOf(Parent[b])] \in Seq(Nr)
        BY <1>1, <4>1
      <4>3. PICK t \in Seq(Nr) : t = dir[NumberOf(Parent[b])]
        BY <4>2
      <4>4. Append(t, n) \in Seq(Nr) /\ Append(t, n) # <<>>
        BY AppendIsLonger
      <4>5. dir' = [dir EXCEPT ![n] = Append(t, n)]
        BY <2>1, <3>2, <4>3 DEF BusAppears
      <4> QED
        BY <4>4, <4>5, Zenon
    <3> QED
      BY <3>1, <3>2
  <2>7. dir' \in [Nr -> Seq(Nr)]
    BY <1>1, <2>6
  <2>8. ASSUME NEW m \in Plugged' PROVE dir'[m] # <<>>
    <3>1. CASE m = n
      BY <1>1, <2>6, <3>1
    <3>2. CASE m # n
      <4>1. m \in Plugged /\ m \in Nr
        BY <2>5, <3>2 DEF Plugged
      <4>2. dir'[m] = dir[m]
        BY <1>1, <2>6, <3>2, <4>1
      <4> QED
        BY <4>1, <4>2 DEF HasDirectory
    <3> QED
      BY <3>1, <3>2
  <2> QED
    BY <2>3, <2>7, <2>8 DEF HasDirectory
<1>3. CASE \E n \in Nr : BusGoes(n)
  <2>1. PICK n \in Nr : BusGoes(n)
    BY <1>3
  <2>2. node' = [node EXCEPT ![n] = [bus |-> NULL, ino |-> NULL]] /\ dir' = [dir EXCEPT ![n] = <<>>]
    BY <2>1 DEF BusGoes, Unplug
  <2>3. NodeTypeOK' /\ dir' \in [Nr -> Seq(Nr)]
    BY <1>1, <2>2 DEF NodeTypeOK
  <2>4. \A m \in Plugged' : m # n /\ m \in Plugged /\ dir'[m] = dir[m]
    BY <1>1, <2>2 DEF NodeTypeOK, Plugged
  <2> QED
    BY <2>3, <2>4 DEF HasDirectory
<1> QED
  BY <1>2, <1>3 DEF TopologyChanges

-----------------------------------------------------------------------------
(* The steps one by one *)

LEMMA KernelStepKeeps == ASSUME TreeInv, KernelStep PROVE TreeInv'
<1>1. NodeTypeOK' /\ dir' \in [Nr -> Seq(Nr)] /\ HasDirectory'
  BY PartsOfInv, TopologyKeepsDirectories DEF KernelStep
<1>2. UNCHANGED <<pc, left, adapters, search, root, todo>>
  BY DEF KernelStep, treeVars
<1>3. changes' \in 0..MaxChanges
  BY TopologyAssumption DEF KernelStep, TreeInv, TypeOK
<1>4. TypeOK'
  BY <1>1, <1>2, <1>3 DEF TreeInv, TypeOK
<1>5. ListFacts'
  BY <1>2, ListsKept
<1>6. Listed' /\ TodoIsInTree'
  BY <1>2 DEF TreeInv, ListInv, Listed, TodoIsInTree, Children, ParentId, Scanned
<1>7. pc \notin {"roots", "children", "paths"}
  BY DEF KernelStep
<1>8. Reached'
  BY <1>2, <1>7 DEF Reached
<1>9. PathsSoFar'
  BY <1>2, <1>7 DEF TreeInv, PathsSoFar, HasPath, Built, InTree, Scanned
<1> QED
  BY <1>1, <1>4, <1>5, <1>6, <1>8, <1>9, InvFromParts

(* Without a table, or a number of adapters yet to be read. *)
LEMMA DroppedIsFine ==
  ASSUME TreeInv, DropTable, UNCHANGED sysfs, changes' = 0, left' \subseteq Nr,
         pc' \in {"idle", "read", "ready"}
  PROVE  TreeInv'
<1>1. /\ adapters' = NoAdapters /\ search' = <<>> /\ root' = <<>> /\ todo' = <<>>
      /\ Scanned' = {} /\ DOMAIN adapters' = {} /\ ToSet(search)' = {} /\ ToSet(todo)' = {}
  BY DEF DropTable, NoAdapters, Scanned, ToSet
<1>2. UNCHANGED <<node, dir>>
  BY DEF sysfs
<1>3. <<>> \in Seq({})
  OBVIOUS
<1>4. adapters' \in [DOMAIN adapters' -> Adapter]
  BY <1>1 DEF NoAdapters
<1>5. NodeTypeOK' /\ dir' \in [Nr -> Seq(Nr)] /\ HasDirectory'
  BY <1>2, PartsOfInv DEF TypeOK, NodeTypeOK, HasDirectory, Plugged
<1>6. TypeOK'
  BY <1>1, <1>3, <1>4, <1>5, TopologyAssumption DEF TypeOK
<1>7. ListFacts'
  BY <1>1, EmptyTableNext
<1>8. Listed' /\ TodoIsInTree' /\ Reached' /\ PathsSoFar'
  BY <1>1 DEF Listed, TodoIsInTree, Reached, PathsSoFar, Built, InTree, Scanned
<1> QED
  BY <1>5, <1>6, <1>7, <1>8, InvFromParts

LEMMA CleanupKeeps ==
  ASSUME TreeInv, I2cdevCleanup \/ \E n \in Nr : DirectoryGone(n)
  PROVE  TreeInv'
<1>1. Cleanup /\ changes' = 0 /\ UNCHANGED sysfs
  BY DEF I2cdevCleanup, DirectoryGone
<1> QED
  BY <1>1, DroppedIsFine DEF Cleanup

LEMMA BeginScanKeeps == ASSUME TreeInv, BeginScan PROVE TreeInv'
<1>1. Plugged \subseteq Nr
  BY DEF Plugged
<1> QED
  BY <1>1, DroppedIsFine DEF BeginScan

LEMMA ReadAdapterKeeps == ASSUME TreeInv, NEW n \in Nr, ReadAdapter(n) PROVE TreeInv'
<1>1. /\ UNCHANGED <<node, dir, pc, search, root, todo, changes>>
      /\ pc = "read" /\ left' = left \ {n}
      /\ search = <<>> /\ root = <<>> /\ todo = <<>>
      /\ \A p \in Scanned : Children(p) = <<>> /\ ~HasPath(p) /\ adapters[p].devpath # <<>>
  BY DEF ReadAdapter, sysfs, TreeInv, ListInv, Listed, PathsSoFar, Directories
<1>2. NodeTypeOK /\ dir \in [Nr -> Seq(Nr)] /\ adapters \in [Scanned -> Adapter] /\ Scanned \subseteq Nr
  BY DEF TreeInv, TypeOK, Scanned
<1>3. CASE n \notin Plugged
  <2>1. adapters' = adapters
    BY <1>3 DEF ReadAdapter
  <2>2. TypeOK'
    BY <1>1, <2>1 DEF TreeInv, TypeOK, NodeTypeOK
  <2>3. HasDirectory'
    BY <1>1 DEF TreeInv, ListInv, Directories, HasDirectory, Plugged
  <2>4. ListFacts'
    BY <1>1, <2>1, ListsKept
  <2>5. Listed' /\ TodoIsInTree' /\ Reached' /\ PathsSoFar'
    BY <1>1, <2>1
       DEF Listed, TodoIsInTree, Reached, PathsSoFar, Built, Children, HasPath, Scanned, ToSet
  <2> QED
    BY <2>2, <2>3, <2>4, <2>5, InvFromParts
<1>4. CASE n \in Plugged
  <2> DEFINE new == [devpath |-> dir[n], chan |-> Chan[node[n].bus],
                     busId |-> -1, children |-> <<>>, path |-> <<>>]
  <2>1. adapters' = [m \in Scanned \cup {n} |-> IF m = n THEN new ELSE adapters[m]]
    BY <1>4 DEF ReadAdapter, WithAdapter, Scanned
  <2>2. /\ DOMAIN adapters' = Scanned \cup {n}
        /\ adapters'[n] = new /\ \A m \in Scanned : m # n => adapters'[m] = adapters[m]
    BY <2>1 DEF Scanned
  <2>3. node[n].bus \in Bus
    BY <1>2, <1>4 DEF NodeTypeOK, Plugged
  <2>4. Chan[node[n].bus] \in Int
    BY <2>3, TopologyAssumption
  <2>5. new \in Adapter
    BY <1>2, <2>4 DEF Adapter
  <2>6. dir[n] # <<>>
    BY <1>4 DEF TreeInv, ListInv, Directories
  <2>7. \A m \in DOMAIN adapters' : /\ adapters'[m].children = <<>> /\ adapters'[m].path = <<>>
                                    /\ adapters'[m].devpath # <<>>
    BY <1>1, <2>2, <2>6 DEF Children, HasPath
  <2>8. adapters' \in [DOMAIN adapters' -> Adapter]
    <3>1. \A m \in DOMAIN adapters' : adapters'[m] \in Adapter
      BY <1>2, <2>2, <2>5
    <3>2. adapters' = [m \in DOMAIN adapters' |-> adapters'[m]]
      BY <2>1
    <3> QED
      BY <3>1, <3>2
  <2> HIDE DEF new
  <2>9. search' \in Seq(DOMAIN adapters') /\ root' \in Seq(DOMAIN adapters') /\ todo' \in Seq(DOMAIN adapters')
    BY <1>1
  <2>10. TypeOK'
    <3>1. DOMAIN adapters' \subseteq Nr /\ NodeTypeOK' /\ dir' \in [Nr -> Seq(Nr)]
      BY <1>1, <1>2, <2>2 DEF NodeTypeOK
    <3> QED
      BY <1>1, <2>8, <2>9, <3>1 DEF TreeInv, TypeOK
  <2>11. HasDirectory'
    BY <1>1 DEF TreeInv, ListInv, Directories, HasDirectory, Plugged
  <2>12. ToSet(search') = {} /\ ToSet(root') = {} /\ \A m \in Scanned' : ToSet(adapters'[m].children) = {}
    BY <1>1, <2>7 DEF ToSet, Scanned
  <2>13. ListFacts'
    <3>1. InOrder'
      BY <1>1, <2>7 DEF InOrder, Falling, Rising, Children, Scanned
    <3>2. ByParent' /\ StillToCome'
      BY <2>12 DEF ByParent, StillToCome, Children
    <3>3. IdIsRank' /\ PathsFind'
      BY <2>7, <2>12 DEF IdIsRank, PathsFind, HasPath, Scanned
    <3> QED
      BY <2>7, <3>1, <3>2, <3>3 DEF ListFacts, Scanned
  <2>14. Listed' /\ TodoIsInTree' /\ Reached' /\ PathsSoFar'
    BY <1>1, <2>7, <2>12
       DEF Listed, TodoIsInTree, Reached, PathsSoFar, Built, Children, HasPath, Scanned
  <2> QED
    BY <2>10, <2>11, <2>13, <2>14, InvFromParts
<1> QED
  BY <1>3, <1>4

LEMMA SortArrayKeeps == ASSUME TreeInv, SortArray PROVE TreeInv'
<1>1. /\ UNCHANGED <<node, dir, left, adapters, root, todo, changes>>
      /\ pc' = IF Scanned = {} THEN "ready" ELSE "roots"
      /\ search = <<>> /\ root = <<>> /\ todo = <<>>
      /\ \A p \in Scanned : Children(p) = <<>> /\ ~HasPath(p) /\ adapters[p].devpath # <<>>
  BY DEF SortArray, sysfs, TreeInv, ListInv, Listed, PathsSoFar, Directories, Scanned
<1>2. PICK s \in [1..Cardinality(Scanned) -> Scanned] :
        ToSet(s) = Scanned /\ (\A i, j \in DOMAIN s : i < j => s[i] > s[j]) /\ search' = s
  BY DEF SortArray, Scanned
<1>3. Scanned \subseteq Nr
  BY DEF TreeInv, TypeOK, Scanned
<1>4. Cardinality(Scanned) \in Nat
  BY <1>3, TopologyAssumption, FS_Subset, FS_CardinalityType
<1>5. search' \in Seq(Scanned) /\ ToSet(search') = Scanned /\ Falling(search')
  BY <1>2, <1>4 DEF Falling
<1>6. TypeOK'
  <2>1. NodeTypeOK' /\ pc' \in {"idle", "read", "roots", "children", "paths", "devices", "ready"}
    BY <1>1 DEF TreeInv, TypeOK, NodeTypeOK
  <2> QED
    BY <1>1, <1>5, <2>1 DEF TreeInv, TypeOK, Scanned
<1>7. HasDirectory'
  BY <1>1 DEF TreeInv, ListInv, Directories, HasDirectory, Plugged
<1>8. ToSet(root') = {} /\ \A p \in Scanned : ToSet(Children(p)) = {}
  BY <1>1 DEF ToSet
<1>9. ListFacts'
  <2>1. InOrder'
    BY <1>1, <1>5 DEF InOrder, Falling, Rising, Children, Scanned
  <2>2. ByParent' /\ StillToCome'
    BY <1>1, <1>8 DEF ByParent, StillToCome, Children, Scanned
  <2>3. IdIsRank' /\ PathsFind'
    BY <1>1, <1>8 DEF IdIsRank, PathsFind, HasPath, Children, Scanned
  <2>4. (\A n \in Scanned : adapters[n].devpath # <<>>)'
    BY <1>1 DEF Scanned
  <2> QED
    BY <2>1, <2>2, <2>3, <2>4 DEF ListFacts
<1>10. Listed' /\ TodoIsInTree'
  <2>1. ToSet(todo') = {}
    BY <1>1 DEF ToSet
  <2> QED
    BY <1>1, <1>5, <2>1 DEF Listed, TodoIsInTree, Scanned
<1>11. InTree' = {}
  BY <1>1, <1>5 DEF InTree, Scanned
<1>12. Reached' /\ PathsSoFar'
  BY <1>1, <1>11 DEF Reached, PathsSoFar, Built, HasPath, Scanned
<1> QED
  BY <1>6, <1>7, <1>9, <1>10, <1>12, InvFromParts

(* What is in the tree is not on the search list any more. *)
LEMMA NotInSearch ==
  ASSUME TypeOK, ListInv
  PROVE  /\ ToSet(root) \cap ToSet(search) = {}
         /\ \A p \in Scanned : ToSet(Children(p)) \cap ToSet(search) = {}
<1>1. \A n \in ToSet(search) : n \in Int
  <2>1. search \in Seq(Scanned) /\ Scanned \subseteq Nr
    BY DEF TypeOK, Scanned
  <2>2. \A n \in ToSet(search) : n \in Scanned
    BY <2>1, ListElements
  <2>3. Scanned \subseteq Int
    BY <2>1, KernelAssumption
  <2> QED
    BY <2>2, <2>3
<1>2. ASSUME NEW n \in ToSet(search), n \in ToSet(root) PROVE FALSE
  <2>1. n < n
    BY <1>2 DEF ListInv, ByParent, StillToCome
  <2> QED
    BY <1>1, <2>1
<1>3. ASSUME NEW p \in Scanned, NEW n \in ToSet(search), n \in ToSet(Children(p)) PROVE FALSE
  <2>1. n < n
    BY <1>3 DEF ListInv, ByParent, StillToCome
  <2> QED
    BY <1>1, <2>1
<1> QED
  BY <1>2, <1>3

LEMMA TypesOfTodo ==
  ASSUME TypeOK, ByParent, pc' \in {"children", "paths"}, todo' \in Seq(Scanned),
         UNCHANGED <<node, dir, left, adapters, search, root, changes>>
  PROVE  TypeOK'
<1>1. NodeTypeOK'
  BY DEF TypeOK, NodeTypeOK
<1> QED
  BY <1>1 DEF TypeOK, Scanned

LEMMA ChildrenTakenKeeps == ASSUME TreeInv, ChildrenTaken PROVE TreeInv'
<1>1. /\ UNCHANGED <<node, dir, pc, left, adapters, search, root, changes>>
      /\ pc = "children" /\ todo # <<>>
      /\ todo' = IF search = <<>> THEN Tail(todo) ELSE Children(Head(todo)) \o Tail(todo)
  BY DEF ChildrenTaken, sysfs, Children
<1>2. todo \in Seq(Scanned)
  BY DEF TreeInv, TypeOK, Scanned
<1>3. /\ Head(todo) \in Scanned /\ Tail(todo) \in Seq(Scanned)
      /\ ToSet(Tail(todo)) \subseteq ToSet(todo)
  BY <1>1, <1>2, HeadAndTail
<1>4. Children(Head(todo)) \in Seq(Scanned)
  BY <1>3, ChildrenAreScanned DEF TreeInv, ListInv
<1>5. /\ todo' \in Seq(Scanned)
      /\ ToSet(todo') \subseteq ToSet(todo) \cup ToSet(Children(Head(todo)))
  <2>1. /\ Children(Head(todo)) \o Tail(todo) \in Seq(Scanned)
        /\ ToSet(Children(Head(todo)) \o Tail(todo)) = ToSet(Children(Head(todo))) \cup ToSet(Tail(todo))
    BY <1>3, <1>4, ConcatSet
  <2> QED
    BY <1>1, <1>3, <2>1
<1>6. TypeOK'
  BY <1>1, <1>5, TypesOfTodo DEF TreeInv, ListInv
<1>7. HasDirectory'
  BY <1>1 DEF TreeInv, ListInv, Directories, HasDirectory, Plugged
<1>8. ListFacts'
  BY <1>1, ListsKept
<1>9. Listed'
  BY <1>1 DEF TreeInv, ListInv, Listed, Children, ParentId, Scanned
<1>10. TodoIsInTree'
  BY <1>1, <1>3, <1>5, NotInSearch DEF TreeInv, ListInv, TodoIsInTree
<1>11. Reached' /\ PathsSoFar'
  BY <1>1 DEF TreeInv, Reached, PathsSoFar, Built, HasPath, Children, InTree, Scanned
<1> QED
  BY <1>6, <1>7, <1>8, <1>9, <1>10, <1>11, InvFromParts

LEMMA TreeBuiltKeeps == ASSUME TreeInv, TreeBuilt PROVE TreeInv'
<1>1. /\ UNCHANGED <<node, dir, left, adapters, search, root, changes>>
      /\ pc = "children" /\ pc' = "paths" /\ todo' = root
  BY DEF TreeBuilt, sysfs
<1>2. todo' \in Seq(Scanned)
  BY <1>1 DEF TreeInv, TypeOK, Scanned
<1>3. TypeOK'
  BY <1>1, <1>2, TypesOfTodo DEF TreeInv, ListInv
<1>4. HasDirectory'
  BY <1>1 DEF TreeInv, ListInv, Directories, HasDirectory, Plugged
<1>5. ListFacts'
  BY <1>1, ListsKept
<1>6. Listed'
  BY <1>1 DEF TreeInv, ListInv, Listed, Children, ParentId, Scanned
<1>7. TodoIsInTree'
  BY <1>1, NotInSearch DEF TreeInv, TodoIsInTree
<1>8. Reached'
  BY <1>1 DEF TreeInv, Reached, Children, InTree, Scanned
<1>9. PathsSoFar'
  BY <1>1 DEF TreeInv, PathsSoFar, Built, HasPath, Scanned
<1> QED
  BY <1>3, <1>4, <1>5, <1>6, <1>7, <1>8, <1>9, InvFromParts

LEMMA PathsGeneratedKeeps == ASSUME TreeInv, PathsGenerated PROVE TreeInv'
<1>1. /\ UNCHANGED <<node, dir, adapters, search, root, todo, changes>>
      /\ pc = "paths" /\ pc' = "devices" /\ todo = <<>> /\ left' = Scanned
  BY DEF PathsGenerated, sysfs, Scanned
<1>2. NodeTypeOK'
  BY <1>1 DEF TreeInv, TypeOK, NodeTypeOK
<1>3. TypeOK'
  BY <1>1, <1>2 DEF TreeInv, TypeOK, Scanned
<1>4. HasDirectory'
  BY <1>1 DEF TreeInv, ListInv, Directories, HasDirectory, Plugged
<1>5. ListFacts'
  BY <1>1, ListsKept
<1>6. Listed' /\ TodoIsInTree'
  BY <1>1 DEF TreeInv, ListInv, Listed, TodoIsInTree, Children, ParentId, Scanned
<1>7. Reached'
  BY <1>1 DEF Reached
<1>8. \A n \in InTree : HasPath(n)
  <2> DEFINE S == {n \in Scanned : HasPath(n)}
  <2>1. ToSet(todo) = {}
    BY <1>1 DEF ToSet
  <2>2. ToSet(root) \subseteq S
    <3>1. ToSet(root) \subseteq Scanned
      BY ListElements DEF TreeInv, TypeOK, Scanned
    <3> QED
      BY <1>1, <2>1, <3>1 DEF TreeInv, PathsSoFar
  <2>3. \A p \in S : ToSet(Children(p)) \subseteq S
    BY <1>1, <2>1 DEF TreeInv, ListInv, ByParent, PathsSoFar
  <2>4. InTree \subseteq S
    BY <1>1, <2>2, <2>3 DEF TreeInv, Reached
  <2> QED
    BY <2>4
<1>9. PathsSoFar'
  BY <1>1, <1>8 DEF PathsSoFar, Built, HasPath, InTree, Scanned
<1> QED
  BY <1>3, <1>4, <1>5, <1>6, <1>7, <1>9, InvFromParts

LEMMA OpenDirectoryKeeps == ASSUME TreeInv, NEW n \in Nr, OpenDirectory(n) PROVE TreeInv'
<1>1. /\ UNCHANGED <<node, dir, adapters, search, root, todo, changes>>
      /\ pc = "devices" /\ pc' \in {"devices", "ready"} /\ left' \subseteq left
  BY DEF OpenDirectory, NextDirectory, sysfs
<1>2. NodeTypeOK'
  BY <1>1 DEF TreeInv, TypeOK, NodeTypeOK
<1>3. TypeOK'
  BY <1>1, <1>2 DEF TreeInv, TypeOK
<1>4. HasDirectory'
  BY <1>1 DEF TreeInv, ListInv, Directories, HasDirectory, Plugged
<1>5. ListFacts'
  BY <1>1, ListsKept
<1>6. Listed' /\ TodoIsInTree'
  BY <1>1 DEF TreeInv, ListInv, Listed, TodoIsInTree, Children, ParentId, Scanned
<1>7. Reached'
  BY <1>1 DEF Reached
<1>8. PathsSoFar'
  BY <1>1 DEF TreeInv, PathsSoFar, Built, HasPath, InTree, Scanned
<1> QED
  BY <1>3, <1>4, <1>5, <1>6, <1>7, <1>8, InvFromParts

LEMMA TakeRootKeeps == ASSUME TreeInv, TakeRoot PROVE TreeInv'
<1>1. UNCHANGED <<node, dir, left, adapters, changes>> /\ pc = "roots"
  BY DEF TakeRoot, sysfs
<1>2. HasDirectory'
  BY <1>1 DEF TreeInv, ListInv, Directories, HasDirectory, Plugged
<1>3. IdIsRank' /\ PathsFind' /\ (\A n \in Scanned : adapters[n].devpath # <<>>)'
  BY <1>1, AdaptersKept
<1>4. CASE FirstBelow(NULL) # 0
  <2> DEFINE x == search[FirstBelow(NULL)]
  <2>1. /\ root' = <<x>> \o root /\ search' = RemoveAt(search, FirstBelow(NULL))
        /\ UNCHANGED <<pc, todo>>
    BY <1>4 DEF TakeRoot
  <2>2. Takes(x, NULL)
    BY <1>4, <2>1, FallingTakes DEF TreeInv, ListInv, InOrder
  <2> HIDE DEF x
  <2>3. search \in Seq(Scanned) /\ root \in Seq(Scanned) /\ Scanned \subseteq Nat
    BY KernelAssumption DEF TreeInv, TypeOK, Scanned
  <2>4. x \in Scanned
    BY <2>2, <2>3, ListElements DEF Takes
  <2>5. \A c \in ToSet(root) : x < c
    BY <2>2 DEF TreeInv, ListInv, StillToCome, Takes
  <2>6. /\ Rising(root') /\ ToSet(root') = {x} \cup ToSet(root) /\ root' \in Seq(Scanned)
    BY <2>1, <2>3, <2>4, <2>5, RisingHead DEF TreeInv, ListInv, InOrder
  <2>7. TypeOK'
    <3>1. NodeTypeOK'
      BY <1>1 DEF TreeInv, TypeOK, NodeTypeOK
    <3> QED
      BY <1>1, <2>1, <2>2, <2>6, <3>1 DEF TreeInv, TypeOK, Takes, Scanned
  <2>8. InOrder'
    BY <1>1, <2>2, <2>6 DEF TreeInv, ListInv, InOrder, Rising, Falling, Children, Scanned, Takes
  <2>9. ByParent'
    BY <1>1, <2>2, <2>6 DEF TreeInv, ListInv, ByParent, Children, Scanned, ParentId, Takes
  <2>10. StillToCome'
    <3> SUFFICES ASSUME NEW n \in ToSet(search)'
                 PROVE  /\ ParentId(n) = NULL => \A c \in ToSet(root)' : n < c
                        /\ \A p \in Scanned : ParentId(n) = p => \A c \in ToSet(Children(p)) : n < c
      BY <1>1 DEF StillToCome, Scanned, Children, ParentId
    <3>1. n \in ToSet(search) /\ n # x
      BY <2>2 DEF Takes
    <3>2. n \in Nat /\ x \in Nat
      BY <2>3, <2>4, <3>1, ListElements
    <3>3. ParentId(n) = NULL => n < x
      BY <2>2, <3>1, <3>2 DEF Takes
    <3> QED
      BY <2>6, <3>1, <3>3 DEF TreeInv, ListInv, StillToCome
  <2>11. Listed'
    BY <1>1, <2>1, <2>2, <2>6 DEF TreeInv, ListInv, Listed, Children, ParentId, Scanned, Takes
  <2>12. TodoIsInTree'
    BY <2>1, <2>2 DEF TreeInv, ListInv, TodoIsInTree, Takes
  <2>13. Reached'
    <3> SUFFICES ASSUME NEW S \in SUBSET Scanned, ToSet(root') \subseteq S,
                        \A p \in S : ToSet(Children(p)) \subseteq S
                 PROVE  InTree' \subseteq S
      BY <1>1 DEF Reached, Scanned, Children
    <3>1. InTree \subseteq S
      BY <1>1, <2>6 DEF TreeInv, Reached
    <3>2. InTree' = InTree \cup {x}
      BY <1>1, <2>2, <2>4 DEF InTree, Takes, Scanned
    <3> QED
      BY <2>6, <3>1, <3>2
  <2>14. PathsSoFar'
    BY <1>1, <2>1 DEF TreeInv, PathsSoFar, Built, HasPath, Scanned
  <2> QED
    BY <1>2, <1>3, <2>7, <2>8, <2>9, <2>10, <2>11, <2>12, <2>13, <2>14, InvFromParts DEF ListFacts
<1>5. CASE FirstBelow(NULL) = 0
  <2>1. todo' = root /\ pc' = "children" /\ UNCHANGED <<root, search>>
    BY <1>5 DEF TakeRoot
  <2>2. todo' \in Seq(Scanned)
    BY <2>1 DEF TreeInv, TypeOK, Scanned
  <2>3. TypeOK'
    BY <1>1, <2>1, <2>2, TypesOfTodo DEF TreeInv, ListInv
  <2>4. ListFacts'
    BY <1>1, <2>1, ListsKept
  <2>5. Listed'
    BY <1>1, <2>1 DEF TreeInv, ListInv, Listed, Children, ParentId, Scanned
  <2>6. TodoIsInTree'
    BY <2>1, NotInSearch DEF TreeInv, TodoIsInTree
  <2>7. Reached'
    BY <1>1, <2>1 DEF TreeInv, Reached, Children, InTree, Scanned
  <2>8. PathsSoFar'
    BY <1>1, <2>1 DEF TreeInv, PathsSoFar, Built, HasPath, Scanned
  <2> QED
    BY <1>2, <2>3, <2>4, <2>5, <2>6, <2>7, <2>8, InvFromParts
<1> QED
  BY <1>4, <1>5

-----------------------------------------------------------------------------
(* The numbers of a multiplexer's channels *)

(* In a list that rises, what comes before an adapter is what is smaller.  *)
LEMMA CountedInOrder ==
  ASSUME NEW S \in SUBSET Nat, NEW list \in Seq(S), Rising(list), NEW channel
  PROVE  LET count == CountBusMatchChannel(list, channel)
         IN /\ DOMAIN count = {n \in ToSet(list) : adapters[n].chan = channel}
            /\ \A n \in DOMAIN count :
                 /\ count[n] = Cardinality({m \in ToSet(list) : m < n /\ adapters[m].chan = channel})
                 /\ count[n] \in Nat
<1> DEFINE peers == {i \in DOMAIN list : adapters[list[i]].chan = channel}
           count == CountBusMatchChannel(list, channel)
           At(n) == SelectInSeq(list, LAMBDA m : m = n)
<1>1. count = [n \in {list[i] : i \in peers} |-> Cardinality({j \in peers : j < At(n)})]
  BY DEF CountBusMatchChannel
<1>2. DOMAIN list = 1..Len(list) /\ Len(list) \in Nat /\ \A j \in DOMAIN list : list[j] \in Nat
  BY ListElements
<1>3. {list[i] : i \in peers} = {n \in ToSet(list) : adapters[n].chan = channel}
  BY DEF ToSet
<1>4. ASSUME NEW n \in {list[i] : i \in peers}
      PROVE  /\ Cardinality({j \in peers : j < At(n)})
                  = Cardinality({m \in ToSet(list) : m < n /\ adapters[m].chan = channel})
             /\ Cardinality({j \in peers : j < At(n)}) \in Nat
  <2>1. PICK k \in peers : n = list[k]
    BY <1>4
  <2>2. k \in 1..Len(list) /\ k \in Nat /\ n \in Nat
    BY <1>2, <2>1
  <2>3. \A j \in 1..Len(list) : list[j] = n <=> j = k
    <3> SUFFICES ASSUME NEW j \in 1..Len(list), j # k PROVE list[j] # list[k]
      BY <2>1
    <3>1. j < k \/ k < j
      BY <2>2
    <3> QED
      BY <1>2, <2>2, <3>1 DEF Rising
  <2>4. At(n) = k
    <3> DEFINE I == {j \in 1..Len(list) : list[j] = n}
    <3>1. I = {k}
      BY <2>2, <2>3
    <3>2. I \in SUBSET Nat /\ I # {}
      BY <3>1, <2>2
    <3>3. Min(I) = k
      BY <3>1, <3>2, MinIsLeast
    <3>4. At(n) = IF I # {} THEN Min(I) ELSE 0
      BY DEF SelectInSeq
    <3> QED
      BY <3>2, <3>3, <3>4
  <2> HIDE DEF At
  <2> DEFINE A == {j \in peers : j < k}
             B == {m \in ToSet(list) : m < n /\ adapters[m].chan = channel}
             f == [j \in A |-> list[j]]
  <2>5. \A i, j \in DOMAIN list : list[i] < list[j] <=> i < j
    <3> SUFFICES ASSUME NEW i \in DOMAIN list, NEW j \in DOMAIN list, list[i] < list[j] PROVE i < j
      BY DEF Rising
    <3>1. i \in Int /\ j \in Int /\ list[i] \in Int /\ list[j] \in Int
      BY <1>2
    <3>2. i # j /\ ~(j < i)
      BY <3>1 DEF Rising
    <3> QED
      BY <3>1, <3>2
  <2>6. \A j \in A : list[j] \in B
    BY <2>1, <2>5 DEF ToSet
  <2>7. \A m \in B : \E j \in A : list[j] = m
    BY <2>1, <2>5 DEF ToSet
  <2>8. \A i, j \in A : list[i] = list[j] => i = j
    <3> SUFFICES ASSUME NEW i \in A, NEW j \in A, i # j PROVE list[i] # list[j]
      OBVIOUS
    <3>1. i < j \/ j < i
      BY <1>2
    <3> QED
      BY <1>2, <3>1 DEF Rising
  <2>9. f \in [A -> B]
    BY <2>6
  <2>10. f \in Bijection(A, B)
    BY <2>7, <2>8, <2>9 DEF Bijection, Injection, Surjection, IsInjective
  <2>11. IsFiniteSet(A) /\ Cardinality(A) \in Nat
    <3>1. A \in SUBSET (1..Len(list)) /\ IsFiniteSet(1..Len(list))
      BY <1>2, FS_Interval
    <3> QED
      BY <3>1, FS_Subset, FS_CardinalityType
  <2>12. Cardinality(B) = Cardinality(A)
    BY <2>10, <2>11, FS_Bijection DEF ExistsBijection
  <2> QED
    BY <2>4, <2>11, <2>12
<1> HIDE DEF count, peers, At
<1>5. DOMAIN count = {list[i] : i \in peers}
  BY <1>1
<1>6. \A n \in DOMAIN count : count[n] = Cardinality({j \in peers : j < At(n)})
  BY <1>1
<1> QED
  BY <1>3, <1>4, <1>5, <1>6 DEF count

(* The child that a turn of bus_children_get moves, and what it changes in  *)
(* the array.                                                               *)
Moves(x, p) ==
  /\ p \in Scanned /\ x \in Scanned /\ x \notin ToSet(Children(p))
  /\ p = Head(todo) /\ p \in ToSet(todo)
  /\ Takes(x, p)
  /\ DOMAIN adapters' = Scanned
  /\ adapters' \in [Scanned -> Adapter]
  /\ Rising(adapters'[p].children)
  /\ ToSet(adapters'[p].children) = {x} \cup ToSet(Children(p))
  /\ \A n \in Scanned : /\ adapters'[n].devpath = adapters[n].devpath
                        /\ adapters'[n].chan = adapters[n].chan
                        /\ adapters'[n].path = adapters[n].path
                        /\ n # p => adapters'[n].children = Children(n)
  /\ \A n \in Scanned :
       adapters'[n].busId =
         IF n \in ToSet(adapters'[p].children) /\ adapters[n].chan = adapters[x].chan
         THEN Cardinality({m \in ToSet(adapters'[p].children) :
                             m < n /\ adapters[m].chan = adapters[n].chan})
         ELSE adapters[n].busId

LEMMA TakeChildMoves ==
  ASSUME TreeInv, TakeChild
  PROVE  \E p, x \in Scanned : Moves(x, p)
<1> DEFINE p == Head(todo)
           i == FirstBelow(p)
           x == search[i]
           list == InsertSibling(x, adapters[p].children)
           channel == adapters[x].chan
           ids == CountBusMatchChannel(list, channel)
<1>1. /\ todo # <<>> /\ i # 0 /\ search' = RemoveAt(search, i)
      /\ adapters' = [n \in Scanned |->
             [adapters[n] EXCEPT !.children = IF n = p THEN list ELSE @,
                                 !.busId = IF n \in DOMAIN ids THEN ids[n] ELSE @]]
  BY DEF TakeChild, Scanned
<1>2. search \in Seq(Scanned) /\ todo \in Seq(Scanned) /\ Scanned \in SUBSET Nat /\ Scanned \subseteq Nr
  BY KernelAssumption DEF TreeInv, TypeOK, Scanned
<1>3. p \in Scanned /\ p \in ToSet(todo)
  BY <1>1, <1>2, HeadAndTail
<1>20. p = Head(todo)
  OBVIOUS
<1>4. Takes(x, p)
  BY <1>1, FallingTakes DEF TreeInv, ListInv, InOrder
<1>5. x \in Scanned
  BY <1>2, <1>4, ListElements DEF Takes
<1>6. Children(p) \in Seq(Scanned) /\ adapters[p].children = Children(p)
  BY <1>3, ChildrenAreScanned DEF TreeInv, ListInv, Children
<1> HIDE DEF p, i, x
<1>7. \A c \in ToSet(Children(p)) : x < c
  BY <1>3, <1>4 DEF TreeInv, ListInv, StillToCome, Takes
<1>8. list = <<x>> \o Children(p)
  BY <1>2, <1>5, <1>6, <1>7, InsertedAtHead
<1>9. /\ Rising(list) /\ ToSet(list) = {x} \cup ToSet(Children(p)) /\ list \in Seq(Scanned)
  BY <1>2, <1>3, <1>5, <1>6, <1>7, <1>8, RisingHead DEF TreeInv, ListInv, InOrder
<1> HIDE DEF list, channel
<1>10. /\ DOMAIN ids = {n \in ToSet(list) : adapters[n].chan = channel}
       /\ \A n \in DOMAIN ids :
            /\ ids[n] = Cardinality({m \in ToSet(list) : m < n /\ adapters[m].chan = channel})
            /\ ids[n] \in Nat
  BY <1>2, <1>9, CountedInOrder
<1> HIDE DEF ids
<1>11. adapters \in [Scanned -> Adapter]
  BY DEF TreeInv, TypeOK, Scanned
<1>12. list \in Seq(Nr)
  BY <1>2, <1>9, ListOfMore
<1>13. ASSUME NEW n \in Scanned
       PROVE  /\ adapters'[n] \in Adapter
              /\ adapters'[n].devpath = adapters[n].devpath
              /\ adapters'[n].chan = adapters[n].chan
              /\ adapters'[n].path = adapters[n].path
              /\ adapters'[n].children = IF n = p THEN list ELSE adapters[n].children
              /\ adapters'[n].busId = IF n \in DOMAIN ids THEN ids[n] ELSE adapters[n].busId
  <2>1. adapters[n] \in Adapter
    BY <1>11
  <2> DEFINE c == IF n = p THEN list ELSE adapters[n].children
             b == IF n \in DOMAIN ids THEN ids[n] ELSE adapters[n].busId
  <2>2. c \in Seq(Nr)
    BY <1>12, <2>1 DEF Adapter
  <2>3. b \in Int
    <3>1. n \in DOMAIN ids => ids[n] \in Nat
      BY <1>10
    <3>2. adapters[n].busId \in Int
      BY <2>1 DEF Adapter
    <3> QED
      BY <3>1, <3>2
  <2>4. adapters'[n] = [adapters[n] EXCEPT !.children = c, !.busId = b]
    BY <1>1
  <2> HIDE DEF b, c
  <2>5. /\ adapters'[n] \in Adapter
        /\ adapters'[n].devpath = adapters[n].devpath
        /\ adapters'[n].chan = adapters[n].chan
        /\ adapters'[n].path = adapters[n].path
        /\ adapters'[n].children = c
        /\ adapters'[n].busId = b
    BY <2>1, <2>2, <2>3, <2>4 DEF Adapter
  <2> QED
    BY <2>5 DEF b, c
<1>14. DOMAIN adapters' = Scanned /\ adapters' \in [Scanned -> Adapter]
  BY <1>1, <1>13
<1>15. adapters'[p].children = list
  BY <1>3, <1>13
<1>16. ASSUME NEW n \in Scanned
       PROVE  adapters'[n].busId =
         IF n \in ToSet(list) /\ adapters[n].chan = adapters[x].chan
         THEN Cardinality({m \in ToSet(list) : m < n /\ adapters[m].chan = adapters[n].chan})
         ELSE adapters[n].busId
  <2>1. CASE n \in ToSet(list) /\ adapters[n].chan = adapters[x].chan
    <3>1. adapters[n].chan = channel
      BY <2>1 DEF channel
    <3>2. n \in DOMAIN ids
      BY <1>10, <2>1, <3>1
    <3>3. adapters'[n].busId = Cardinality({m \in ToSet(list) : m < n /\ adapters[m].chan = channel})
      BY <1>10, <1>13, <3>2
    <3> QED
      BY <2>1, <3>1, <3>3
  <2>2. CASE ~(n \in ToSet(list) /\ adapters[n].chan = adapters[x].chan)
    <3>1. n \notin DOMAIN ids
      BY <1>10, <2>2 DEF channel
    <3> QED
      BY <1>13, <2>2, <3>1
  <2> QED
    BY <2>1, <2>2
<1>17. x \notin ToSet(Children(p))
  BY <1>2, <1>5, <1>7
<1>18. \A n \in Scanned : n # p => adapters'[n].children = Children(n)
  BY <1>13 DEF Children
<1>19. Moves(x, p)
  BY <1>3, <1>20, <1>4, <1>5, <1>9, <1>13, <1>14, <1>15, <1>16, <1>17, <1>18 DEF Moves
<1> QED
  BY <1>3, <1>5, <1>19

LEMMA TakeChildKeeps == ASSUME TreeInv, TakeChild PROVE TreeInv'
<1>1. PICK p \in Scanned, x \in Scanned : Moves(x, p)
  BY TakeChildMoves
<1>2. UNCHANGED <<node, dir, pc, left, root, todo, changes>> /\ pc = "children"
  BY DEF TakeChild, sysfs
<1> DEFINE list == adapters'[p].children
<1>3. /\ Scanned' = Scanned /\ Rising(list) /\ ToSet(list) = {x} \cup ToSet(Children(p))
      /\ \A q \in Scanned : Children(q)' = IF q = p THEN list ELSE Children(q)
  BY <1>1 DEF Moves, Scanned, Children
<1>4. \A n \in Scanned : /\ ParentId(n)' = ParentId(n)
                         /\ adapters'[n].chan = adapters[n].chan
                         /\ HasPath(n)' = HasPath(n)
  BY <1>1 DEF Moves, ParentId, HasPath
<1> HIDE DEF list
<1>5. /\ x \in ToSet(search) /\ ParentId(x) = p
      /\ \A n \in ToSet(search) : ParentId(n) = p => n <= x
      /\ search' \in Seq(Scanned) /\ ToSet(search') = ToSet(search) \ {x} /\ Falling(search')
  BY <1>1 DEF Moves, Takes
<1>6. search \in Seq(Scanned) /\ root \in Seq(Scanned) /\ todo \in Seq(Scanned) /\ Scanned \subseteq Nat
  BY KernelAssumption DEF TreeInv, TypeOK, Scanned
<1>7. \A n \in ToSet(search) \cup ToSet(root) : n \in Scanned
  BY <1>6, ListElements
<1>8. /\ \A n \in ToSet(root) : ParentId(n) = NULL
      /\ \A q \in Scanned : \A n \in ToSet(Children(q)) : n \in Scanned /\ ParentId(n) = q
  BY DEF TreeInv, ListInv, ByParent
<1>9. TypeOK'
  <2>1. NodeTypeOK'
    BY <1>2 DEF TreeInv, TypeOK, NodeTypeOK
  <2>2. DOMAIN adapters' = Scanned /\ adapters' \in [Scanned -> Adapter]
    BY <1>1 DEF Moves
  <2>3. Scanned \subseteq Nr
    BY DEF TreeInv, TypeOK, Scanned
  <2> QED
    BY <1>2, <1>5, <1>6, <2>1, <2>2, <2>3 DEF TreeInv, TypeOK
<1>10. HasDirectory' /\ (\A n \in Scanned : adapters[n].devpath # <<>>)'
  BY <1>1, <1>2, <1>3 DEF TreeInv, ListInv, Directories, HasDirectory, Plugged, Moves
<1>11. InOrder'
  <2>1. Rising(root)' /\ Falling(search)'
    BY <1>2, <1>5 DEF TreeInv, ListInv, InOrder, Rising, Falling
  <2>2. ASSUME NEW q \in Scanned PROVE Rising(Children(q)')
    <3>1. Rising(Children(q))
      BY DEF TreeInv, ListInv, InOrder
    <3> QED
      BY <1>3, <3>1
  <2>3. \A q \in Scanned' : Rising(Children(q))'
    BY <1>3, <2>2 DEF Rising
  <2> QED
    BY <2>1, <2>3 DEF InOrder
<1>12. ASSUME NEW q \in Scanned, NEW n \in ToSet(Children(q)') PROVE n \in Scanned /\ ParentId(n) = q
  <2>1. CASE q = p
    BY <1>3, <1>5, <1>8, <1>12, <2>1
  <2>2. CASE q # p
    BY <1>3, <1>8, <1>12, <2>2
  <2> QED
    BY <2>1, <2>2
<1>13. ByParent'
  <2>1. \A q \in Scanned' : \A n \in ToSet(Children(q)') : n \in Scanned' /\ ParentId(n)' = q
    BY <1>3, <1>4, <1>12
  <2>2. \A n \in ToSet(root') : ParentId(n)' = NULL
    BY <1>2, <1>4, <1>7, <1>8
  <2> QED
    BY <2>1, <2>2 DEF ByParent, ToSet
<1>14. StillToCome'
  <2>1. ASSUME NEW n \in ToSet(search') PROVE n \in ToSet(search) /\ n # x /\ n \in Scanned /\ n \in Nat
    BY <1>5, <1>6, <1>7, <2>1
  <2>2. ASSUME NEW n \in ToSet(search'), ParentId(n) = NULL, NEW c \in ToSet(root) PROVE n < c
    BY <2>1, <2>2 DEF TreeInv, ListInv, StillToCome
  <2>3. ASSUME NEW n \in ToSet(search'), NEW q \in Scanned, ParentId(n) = q, NEW c \in ToSet(Children(q)')
        PROVE  n < c
    <3>1. CASE c \in ToSet(Children(q))
      BY <2>1, <2>3, <3>1 DEF TreeInv, ListInv, StillToCome
    <3>2. CASE q = p /\ c = x
      <4>1. x \in Nat
        BY <1>6
      <4> QED
        BY <1>5, <2>1, <2>3, <3>2, <4>1
    <3> QED
      BY <1>3, <2>3, <3>1, <3>2
  <2>4. \A n \in ToSet(search') :
          /\ ParentId(n)' = NULL => \A c \in ToSet(root') : n < c
          /\ \A q \in Scanned' : ParentId(n)' = q => \A c \in ToSet(Children(q)') : n < c
    BY <1>2, <1>3, <1>4, <2>1, <2>2, <2>3
  <2> QED
    BY <2>4 DEF StillToCome, ToSet
<1>15. Listed'
  <2> SUFFICES ASSUME NEW n \in Scanned
               PROVE  \/ n \in ToSet(search')
                      \/ n \in ToSet(root')
                      \/ \E q \in Scanned : ParentId(n) = q /\ n \in ToSet(Children(q)')
    BY <1>2, <1>3, <1>4 DEF Listed, ToSet
  <2>1. \/ n \in ToSet(search)
        \/ n \in ToSet(root)
        \/ ParentId(n) \in Scanned /\ n \in ToSet(Children(ParentId(n)))
    BY <1>2 DEF TreeInv, ListInv, Listed
  <2>2. CASE n = x
    BY <1>3, <1>5, <2>2
  <2>3. CASE n # x
    BY <1>2, <1>3, <1>5, <2>1, <2>3
  <2> QED
    BY <2>2, <2>3
<1>16. TodoIsInTree'
  BY <1>2, <1>5 DEF TreeInv, ListInv, TodoIsInTree
<1>17. Reached'
  <2> SUFFICES ASSUME NEW S \in SUBSET Scanned, ToSet(root) \subseteq S,
                      \A q \in S : ToSet(Children(q)') \subseteq S
               PROVE  InTree' \subseteq S
    BY <1>2, <1>3 DEF Reached, ToSet
  <2>1. \A q \in S : ToSet(Children(q)) \subseteq S
    BY <1>3
  <2>2. InTree \subseteq S
    BY <1>2, <2>1 DEF TreeInv, Reached
  <2>3. p \in InTree
    BY <1>1 DEF Moves, TreeInv, ListInv, TodoIsInTree, InTree, Scanned
  <2>4. x \in S
    BY <1>3, <2>2, <2>3
  <2>5. InTree' = InTree \cup {x}
    BY <1>3, <1>5 DEF InTree, Scanned
  <2> QED
    BY <2>2, <2>4, <2>5
<1>18. IdIsRank'
  <2> DEFINE rank(L, n) == Cardinality({m \in ToSet(L) : m < n /\ adapters[m].chan = adapters[n].chan})
  <2>1. ASSUME NEW q \in Scanned, NEW n \in ToSet(Children(q)') PROVE adapters'[n].busId = rank(Children(q)', n)
    <3>1. n \in Scanned /\ ParentId(n) = q
      BY <1>12, <2>1
    <3>2. adapters'[n].busId = IF n \in ToSet(list) /\ adapters[n].chan = adapters[x].chan
                               THEN rank(list, n) ELSE adapters[n].busId
      BY <1>1, <3>1 DEF Moves, list
    <3>3. n \in ToSet(Children(q)) => adapters[n].busId = rank(Children(q), n)
      BY DEF TreeInv, IdIsRank, Scanned, Children
    <3>4. CASE q # p
      <4>1. Children(q)' = Children(q)
        BY <1>3, <3>4
      <4>2. n \notin ToSet(list)
        BY <1>3, <1>5, <1>8, <3>1, <3>4
      <4> HIDE DEF rank
      <4> QED
        BY <2>1, <3>2, <3>3, <4>1, <4>2
    <3>5. CASE q = p /\ adapters[n].chan = adapters[x].chan
      <4>1. Children(q)' = list /\ n \in ToSet(list)
        BY <1>3, <2>1, <3>5
      <4> HIDE DEF rank
      <4> QED
        BY <3>2, <3>5, <4>1
    <3>6. CASE q = p /\ adapters[n].chan # adapters[x].chan
      <4>1. Children(q)' = list /\ n \in ToSet(Children(q))
        BY <1>3, <2>1, <3>6
      <4>2. {m \in ToSet(list) : m < n /\ adapters[m].chan = adapters[n].chan}
            = {m \in ToSet(Children(q)) : m < n /\ adapters[m].chan = adapters[n].chan}
        BY <1>3, <3>6
      <4>3. rank(list, n) = rank(Children(q), n)
        BY <4>2
      <4> HIDE DEF rank
      <4> QED
        BY <3>2, <3>3, <3>6, <4>1, <4>3
    <3> QED
      BY <3>4, <3>5, <3>6
  <2>2. ASSUME NEW q \in Scanned, NEW n \in ToSet(Children(q)')
        PROVE  {m \in ToSet(Children(q)') : m < n /\ adapters[m].chan = adapters[n].chan}
               = {m \in ToSet(Children(q)') : m < n /\ adapters'[m].chan = adapters'[n].chan}
    BY <1>4, <1>12, <2>2
  <2>3. ASSUME NEW q \in Scanned, NEW n \in ToSet(Children(q)')
        PROVE  adapters'[n].busId =
                 Cardinality({m \in ToSet(Children(q)') : m < n /\ adapters'[m].chan = adapters'[n].chan})
    BY <2>1, <2>2, <2>3
  <2>4. \A q \in Scanned : Children(q)' = adapters'[q].children
    BY DEF Children
  <2>5. DOMAIN adapters' = Scanned
    BY <1>3 DEF Scanned
  <2>6. ASSUME NEW q \in DOMAIN adapters', NEW n \in ToSet(adapters'[q].children)
        PROVE  adapters'[n].busId =
                 Cardinality({m \in ToSet(adapters'[q].children) : m < n /\ adapters'[m].chan = adapters'[n].chan})
    <3>1. q \in Scanned /\ Children(q)' = adapters'[q].children
      BY <2>4, <2>5, <2>6
    <3> QED
      BY <2>3, <2>6, <3>1
  <2> QED
    BY <2>6 DEF IdIsRank, ToSet
<1>19. \A n \in Scanned' : ~HasPath(n)'
  BY <1>2, <1>3, <1>4 DEF TreeInv, PathsSoFar
<1>20. PathsFind' /\ PathsSoFar'
  BY <1>2, <1>19 DEF PathsFind, PathsSoFar, Built
<1>21. ListFacts'
  BY <1>10, <1>11, <1>13, <1>14, <1>18, <1>20 DEF ListFacts
<1> QED
  BY <1>9, <1>10, <1>15, <1>16, <1>17, <1>20, <1>21, InvFromParts

-----------------------------------------------------------------------------
(* Paths *)

(* The ids of a multiplexer's channels tell its children apart. *)
LEMMA TokenDenotesOne ==
  ASSUME TypeOK, ByParent, IdIsRank, NEW p \in Scanned,
         NEW n \in ToSet(Children(p)), NEW c \in ToSet(Children(p)), Matches(c, TokenOf(n))
  PROVE  c = n
<1> DEFINE Lower(m) == {k \in ToSet(Children(p)) : k < m /\ adapters[k].chan = adapters[m].chan}
<1>1. n \in Scanned /\ c \in Scanned /\ Scanned \subseteq Nr /\ ToSet(Children(p)) \subseteq Scanned
  BY DEF ByParent, TypeOK, Scanned
<1>2. adapters[n].busId = Cardinality(Lower(n)) /\ adapters[c].busId = Cardinality(Lower(c))
  BY DEF IdIsRank, Scanned, Children
<1>3. n \in Nat /\ c \in Nat
  BY <1>1, KernelAssumption
<1>4. CASE adapters[n].chan \geq 0
  <2>1. adapters[c].busId = adapters[n].busId /\ adapters[c].chan = adapters[n].chan
    BY <1>4 DEF Matches, TokenOf
  <2>2. IsFiniteSet(Lower(n)) /\ IsFiniteSet(Lower(c))
    <3>1. Lower(n) \in SUBSET Nr /\ Lower(c) \in SUBSET Nr
      BY <1>1
    <3> QED
      BY <3>1, TopologyAssumption, FS_Subset
  <2>3. CASE c < n
    <3>1. Lower(c) \subseteq Lower(n)
      <4> SUFFICES ASSUME NEW k \in Lower(c) PROVE k < n
        BY <2>1
      <4>1. k \in Nat /\ k < c
        BY <1>1, KernelAssumption
      <4> QED
        BY <1>3, <2>3, <4>1
    <3>2. c \in Lower(n) /\ c \notin Lower(c)
      BY <1>3, <2>1, <2>3
    <3> HIDE DEF Lower
    <3>3. Lower(c) = Lower(n)
      BY <1>2, <2>1, <2>2, <3>1, FS_Subset
    <3> QED
      BY <3>2, <3>3
  <2>4. CASE n < c
    <3>1. Lower(n) \subseteq Lower(c)
      <4> SUFFICES ASSUME NEW k \in Lower(n) PROVE k < c
        BY <2>1
      <4>1. k \in Nat /\ k < n
        BY <1>1, KernelAssumption
      <4> QED
        BY <1>3, <2>4, <4>1
    <3>2. n \in Lower(c) /\ n \notin Lower(n)
      BY <1>3, <2>1, <2>4
    <3> HIDE DEF Lower
    <3>3. Lower(c) = Lower(n)
      BY <1>2, <2>1, <2>2, <3>1, FS_Subset
    <3> QED
      BY <3>2, <3>3
  <2> QED
    BY <1>3, <2>3, <2>4
<1>5. CASE ~(adapters[n].chan \geq 0)
  BY <1>5 DEF Matches, TokenOf, BusToken
<1> QED
  BY <1>4, <1>5

LEMMA ChildIsFound ==
  ASSUME TypeOK, ByParent, IdIsRank, NEW p \in Scanned, NEW n \in ToSet(Children(p))
  PROVE  ChildFor(p, TokenOf(n)) = n
<1>1. adapters[p].children \in Seq(Scanned)
  BY ChildrenAreScanned DEF Children
<1>2. Matches(n, TokenOf(n))
  BY DEF Matches, TokenOf, BusToken
<1>3. /\ ChildFor(p, TokenOf(n)) \in ToSet(Children(p))
      /\ Matches(ChildFor(p, TokenOf(n)), TokenOf(n))
  BY <1>1, <1>2, ChildForIsFirst
<1> QED
  BY <1>3, TokenDenotesOne

LEMMA TokenOfChild ==
  ASSUME TypeOK, ByParent, IdIsRank, NEW p \in Scanned, NEW n \in ToSet(Children(p))
  PROVE  TokenOf(n) \in Token
<1>1. n \in Scanned /\ Scanned \subseteq Nr /\ ToSet(Children(p)) \subseteq Scanned
  BY DEF ByParent, TypeOK, Scanned
<1>2. adapters[n] \in Adapter /\ n \in Nat
  BY <1>1, KernelAssumption DEF TypeOK, Scanned
<1> DEFINE B == {m \in ToSet(Children(p)) : m < n /\ adapters[m].chan = adapters[n].chan}
<1>3. adapters[n].busId = Cardinality(B)
  BY DEF IdIsRank, Scanned, Children
<1>4. Cardinality(B) \in Nat
  <2>1. B \in SUBSET Nr
    BY <1>1
  <2> HIDE DEF B
  <2> QED
    BY <2>1, TopologyAssumption, FS_Subset, FS_CardinalityType
<1>5. adapters[n].chan \in Int
  BY <1>2 DEF Adapter
<1> HIDE DEF B
<1> QED
  BY <1>2, <1>3, <1>4, <1>5 DEF TokenOf, BusToken, Token

(* The path made for an adapter leads to it: from a root at once, from a    *)
(* child because the path of its parent leads to the parent.                *)
LEMMA PathLeadsBack ==
  ASSUME TypeOK, ByParent, IdIsRank, PathsFind, NEW n \in Scanned,
         \/ n \in ToSet(root)
         \/ ParentId(n) \in Scanned /\ HasPath(ParentId(n)) /\ n \in ToSet(Children(ParentId(n)))
  PROVE  PathOf(n) \in Seq(Token) /\ PathOf(n) # <<>> /\ Finds(PathOf(n), n)
<1>1. n \in Nat /\ Scanned \subseteq Nr /\ Len(<<>>) = 0
  BY KernelAssumption DEF TypeOK, Scanned
<1>2. CASE n \in ToSet(root)
  <2>1. PathOf(n) = <<BusToken(n)>>
    BY <1>2 DEF ByParent, PathOf
  <2>2. BusToken(n) \in Token /\ BusToken(n).id = n
    BY <1>1 DEF BusToken, Token
  <2>3. PICK b \in Token : b = BusToken(n) /\ b.id = n
    BY <2>2
  <2>4. <<b>> \in Seq(Token) /\ Len(<<b>>) = 1 /\ <<b>>[1] = b /\ <<b>> # <<>>
    OBVIOUS
  <2>5. Finds(<<b>>, n)
    <3> DEFINE at == [i \in 1..1 |-> n]
    <3>1. at \in [1..Len(<<b>>) -> Scanned] /\ at[1] = <<b>>[1].id /\ at[Len(<<b>>)] = n
      BY <2>3, <2>4
    <3>2. \A i \in 2..Len(<<b>>) : FALSE
      BY <2>4
    <3> QED
      BY <2>4, <3>1, <3>2 DEF Finds, Scanned
  <2> QED
    BY <2>1, <2>3, <2>4, <2>5
<1>3. CASE ParentId(n) \in Scanned /\ HasPath(ParentId(n)) /\ n \in ToSet(Children(ParentId(n)))
  <2>1. PICK p \in Scanned : p = ParentId(n)
    BY <1>3
  <2>2. p # NULL
    BY <1>1, TopologyAssumption
  <2>3. adapters[p].path \in Seq(Token)
    BY DEF TypeOK, Adapter, Scanned
  <2>4. PICK path \in Seq(Token) : path = adapters[p].path
    BY <2>3
  <2>5. Finds(path, p)
    BY <1>3, <2>1, <2>4 DEF PathsFind
  <2>6. TokenOf(n) \in Token /\ ChildFor(p, TokenOf(n)) = n
    BY <1>3, <2>1, TokenOfChild, ChildIsFound
  <2>7. PICK t \in Token : t = TokenOf(n) /\ ChildFor(p, t) = n
    BY <2>6
  <2>8. PathOf(n) = Append(path, t)
    BY <2>1, <2>2, <2>4, <2>7 DEF PathOf
  <2> DEFINE long == Append(path, t)
  <2>9. /\ long \in Seq(Token) /\ long # <<>> /\ Len(long) = Len(path) + 1
    BY AppendIsLonger
  <2>10. long[Len(path) + 1] = t /\ (\A i \in 1..Len(path) : long[i] = path[i]) /\ Len(path) \in Nat
    OBVIOUS
  <2>11. PICK at \in [1..Len(path) -> Scanned] :
           /\ at[1] = path[1].id
           /\ \A i \in 2..Len(path) : at[i] = ChildFor(at[i - 1], path[i])
           /\ at[Len(path)] = p
    BY <2>5 DEF Finds, Scanned
  <2>12. Len(path) \in Nat /\ Len(path) >= 1
    <3>1. path # <<>>
      BY <2>5 DEF Finds
    <3> QED
      BY <3>1
  <2> HIDE DEF long
  <2>13. Finds(long, n)
    <3> DEFINE on == [i \in 1..(Len(path) + 1) |-> IF i <= Len(path) THEN at[i] ELSE n]
    <3>1. on \in [1..Len(long) -> Scanned]
      BY <2>9, <2>12
    <3>2. on[1] = long[1].id
      BY <2>10, <2>11, <2>12
    <3>3. ASSUME NEW i \in 2..Len(long) PROVE on[i] = ChildFor(on[i - 1], long[i])
      <4>1. CASE i <= Len(path)
        <5>1. i \in 2..Len(path) /\ on[i] = at[i] /\ on[i - 1] = at[i - 1] /\ long[i] = path[i]
          BY <2>9, <2>10, <2>12, <4>1
        <5> HIDE DEF on
        <5> QED
          BY <2>11, <5>1
      <4>2. CASE i > Len(path)
        <5>1. i = Len(path) + 1 /\ on[i] = n /\ i - 1 = Len(path) /\ on[i - 1] = at[Len(path)] /\ long[i] = t
          BY <2>9, <2>10, <2>12, <4>2
        <5> HIDE DEF on
        <5> QED
          BY <2>7, <2>11, <5>1
      <4> QED
        BY <2>12, <4>1, <4>2
    <3>4. on[Len(long)] = n
      BY <2>9, <2>12
    <3> HIDE DEF on
    <3> QED
      BY <2>9, <3>1, <3>2, <3>3, <3>4 DEF Finds, Scanned
  <2> QED
    BY <2>8, <2>9, <2>13 DEF long
<1> QED
  BY <1>2, <1>3

LEMMA GeneratePathKeeps == ASSUME TreeInv, GeneratePath PROVE TreeInv'
<1> DEFINE n == Head(todo)
<1>1. /\ UNCHANGED <<node, dir, pc, left, search, root, changes>>
      /\ pc = "paths" /\ todo # <<>>
      /\ adapters' = [adapters EXCEPT ![n].path = PathOf(n)]
      /\ todo' = Children(n) \o Tail(todo)
  BY DEF GeneratePath, sysfs, Children
<1>2. todo \in Seq(Scanned) /\ adapters \in [Scanned -> Adapter]
  BY DEF TreeInv, TypeOK, Scanned
<1>3. /\ n \in Scanned /\ n \in ToSet(todo) /\ Tail(todo) \in Seq(Scanned)
      /\ ToSet(todo) = {n} \cup ToSet(Tail(todo))
  BY <1>1, <1>2, HeadAndTail
<1> HIDE DEF n
<1>4. /\ TypeOK /\ ByParent /\ IdIsRank /\ PathsFind
      /\ \A m \in ToSet(todo) :
            \/ m \in ToSet(root)
            \/ ParentId(m) \in Scanned /\ HasPath(ParentId(m)) /\ m \in ToSet(Children(ParentId(m)))
      /\ \A m \in ToSet(root) : HasPath(m) \/ m \in ToSet(todo)
      /\ \A p \in Scanned : HasPath(p) => \A m \in ToSet(Children(p)) : HasPath(m) \/ m \in ToSet(todo)
  BY <1>1 DEF TreeInv, ListInv, PathsSoFar
<1>5. PathOf(n) \in Seq(Token) /\ PathOf(n) # <<>> /\ Finds(PathOf(n), n)
  BY <1>3, <1>4, PathLeadsBack
<1>6. PICK path \in Seq(Token) : path = PathOf(n) /\ path # <<>> /\ Finds(path, n)
  BY <1>5
<1>7. adapters' = [adapters EXCEPT ![n].path = path]
  BY <1>1, <1>6
<1>8. ASSUME NEW m \in Scanned
      PROVE  /\ adapters'[m] \in Adapter
             /\ adapters'[m].devpath = adapters[m].devpath
             /\ adapters'[m].chan = adapters[m].chan
             /\ adapters'[m].children = adapters[m].children
             /\ adapters'[m].busId = adapters[m].busId
             /\ adapters'[m].path = IF m = n THEN path ELSE adapters[m].path
  <2>1. adapters[m] \in Adapter
    BY <1>2
  <2>2. adapters'[m] = IF m = n THEN [adapters[m] EXCEPT !.path = path] ELSE adapters[m]
    BY <1>2, <1>3, <1>7
  <2> QED
    BY <2>1, <2>2 DEF Adapter
<1>9. DOMAIN adapters' = Scanned /\ adapters' \in [Scanned -> Adapter]
  BY <1>2, <1>7, <1>8
<1>10. /\ Scanned' = Scanned /\ InTree' = InTree
       /\ \A m \in Scanned : /\ Children(m)' = Children(m) /\ ParentId(m)' = ParentId(m)
                             /\ HasPath(m)' <=> (m = n \/ HasPath(m))
  <2>1. Scanned' = Scanned
    BY <1>9 DEF Scanned
  <2>2. InTree' = InTree
    BY <1>1, <2>1 DEF InTree, Scanned, ToSet
  <2>3. ASSUME NEW m \in Scanned
        PROVE  Children(m)' = Children(m) /\ ParentId(m)' = ParentId(m)
    BY <1>8 DEF Children, ParentId
  <2>4. ASSUME NEW m \in Scanned
        PROVE  HasPath(m)' <=> (m = n \/ HasPath(m))
    <3>1. adapters'[m].path = IF m = n THEN path ELSE adapters[m].path
      BY <1>8
    <3> QED
      BY <1>6, <3>1 DEF HasPath
  <2> QED
    BY <2>1, <2>2, <2>3, <2>4
<1>11. Children(n) \in Seq(Scanned)
  BY <1>3, <1>4, ChildrenAreScanned
<1>12. todo' \in Seq(Scanned) /\ ToSet(todo') = ToSet(Children(n)) \cup ToSet(Tail(todo))
  <2>1. todo' = Children(n) \o Tail(todo)
    BY <1>1
  <2>2. PICK c \in Seq(Scanned) : c = Children(n)
    BY <1>11
  <2>3. PICK rest \in Seq(Scanned) : rest = Tail(todo)
    BY <1>3
  <2>4. c \o rest \in Seq(Scanned) /\ ToSet(c \o rest) = ToSet(c) \cup ToSet(rest)
    BY ONLY c \in Seq(Scanned), rest \in Seq(Scanned), ConcatSet, Zenon
  <2> QED
    BY <2>1, <2>2, <2>3, <2>4
<1>13. TypeOK'
  <2>1. NodeTypeOK'
    BY <1>1, <1>4 DEF TypeOK, NodeTypeOK
  <2>2. search' \in Seq(Scanned) /\ root' \in Seq(Scanned) /\ Scanned \subseteq Nr
    BY <1>1, <1>4 DEF TypeOK, Scanned
  <2> QED
    BY <1>1, <1>4, <1>9, <1>12, <2>1, <2>2 DEF TypeOK
<1>14. HasDirectory' /\ (\A m \in Scanned : adapters[m].devpath # <<>>)'
  BY <1>1, <1>8, <1>10 DEF TreeInv, ListInv, Directories, HasDirectory, Plugged
<1>15. InOrder'
  <2>1. Rising(root)' /\ Falling(search)'
    BY <1>1 DEF TreeInv, ListInv, InOrder, Rising, Falling
  <2>2. \A p \in Scanned' : Rising(Children(p))'
    BY <1>10 DEF TreeInv, ListInv, InOrder, Rising
  <2> QED
    BY <2>1, <2>2 DEF InOrder
<1>16. \A p \in Scanned : \A m \in ToSet(Children(p)) : m \in Scanned /\ ParentId(m) = p
  BY <1>4 DEF ByParent
<1>17. \A m \in ToSet(root) \cup ToSet(search) : m \in Scanned
  <2>1. root \in Seq(Scanned) /\ search \in Seq(Scanned)
    BY <1>4 DEF TypeOK, Scanned
  <2> QED
    BY <2>1, ListElements
<1>18. ByParent'
  <2>1. \A m \in ToSet(root') : ParentId(m)' = NULL
    BY <1>1, <1>4, <1>10, <1>17 DEF ByParent
  <2>2. \A p \in Scanned' : \A m \in ToSet(Children(p)') : m \in Scanned' /\ ParentId(m)' = p
    BY <1>10, <1>16
  <2> QED
    BY <2>1, <2>2 DEF ByParent, ToSet
<1>19. StillToCome'
  <2>1. \A m \in ToSet(search') :
          /\ ParentId(m)' = NULL => \A c \in ToSet(root') : m < c
          /\ \A p \in Scanned' : ParentId(m)' = p => \A c \in ToSet(Children(p)') : m < c
    BY <1>1, <1>10, <1>17 DEF TreeInv, ListInv, StillToCome
  <2> QED
    BY <2>1 DEF StillToCome, ToSet
<1>20. IdIsRank'
  <2>1. ASSUME NEW p \in Scanned, NEW m \in ToSet(adapters[p].children)
        PROVE  adapters'[m].busId =
                 Cardinality({k \in ToSet(adapters[p].children) : k < m /\ adapters'[k].chan = adapters'[m].chan})
    <3>1. \A k \in ToSet(adapters[p].children) : k \in Scanned
      BY <1>16 DEF Children
    <3>2. {k \in ToSet(adapters[p].children) : k < m /\ adapters'[k].chan = adapters'[m].chan}
          = {k \in ToSet(adapters[p].children) : k < m /\ adapters[k].chan = adapters[m].chan}
      BY <1>8, <2>1, <3>1
    <3>3. adapters[m].busId =
            Cardinality({k \in ToSet(adapters[p].children) : k < m /\ adapters[k].chan = adapters[m].chan})
      BY <1>4, <2>1 DEF IdIsRank, Scanned
    <3> QED
      BY <1>8, <2>1, <3>1, <3>2, <3>3
  <2>2. ASSUME NEW p \in DOMAIN adapters', NEW m \in ToSet(adapters'[p].children)
        PROVE  adapters'[m].busId =
                 Cardinality({k \in ToSet(adapters'[p].children) : k < m /\ adapters'[k].chan = adapters'[m].chan})
    <3>1. p \in Scanned /\ adapters'[p].children = adapters[p].children
      BY <1>8, <1>9, <2>2
    <3> QED
      BY <2>1, <2>2, <3>1
  <2> QED
    BY <2>2 DEF IdIsRank, ToSet
<1>21. PathsFind'
  <2>1. SameForLookup
    BY <1>8, <1>9 DEF SameForLookup, Scanned
  <2>2. \A p \in Scanned : Children(p) \in Seq(Scanned)
    BY <1>4, ChildrenAreScanned
  <2>3. ASSUME NEW m \in Scanned, HasPath(m)' PROVE Finds(adapters[m].path, m)'
    <3>1. CASE m = n
      <4>1. Finds(path, m)'
        BY <1>6, <2>1, <2>2, <3>1, SameLookup
      <4>2. path = (adapters[m].path)'
        BY <1>8, <3>1
      <4> QED
        BY <4>1, <4>2
    <3>2. CASE m # n
      <4>1. HasPath(m) /\ adapters[m].path \in Seq(Token)
        BY <1>2, <1>10, <2>3, <3>2 DEF Adapter
      <4>2. PICK old \in Seq(Token) : old = adapters[m].path
        BY <4>1
      <4>3. Finds(old, m)
        BY <1>4, <4>1, <4>2 DEF PathsFind
      <4>4. Finds(old, m)'
        BY <2>1, <2>2, <4>3, SameLookup
      <4>5. old = (adapters[m].path)'
        BY <1>8, <3>2, <4>2
      <4> QED
        BY <4>4, <4>5
    <3> QED
      BY <3>1, <3>2
  <2> QED
    BY <1>10, <2>3 DEF PathsFind
<1>22. Listed'
  <2>1. \A m \in Scanned' : \/ m \in ToSet(search')
                            \/ m \in ToSet(root')
                            \/ \E q \in Scanned' : ParentId(m)' = q /\ m \in ToSet(Children(q)')
    <3>1. \A m \in Scanned : \/ m \in ToSet(search)
                             \/ m \in ToSet(root)
                             \/ ParentId(m) \in Scanned /\ m \in ToSet(Children(ParentId(m)))
      BY <1>1 DEF TreeInv, ListInv, Listed
    <3> QED
      BY <1>1, <1>10, <3>1
  <2> QED
    BY <1>1, <2>1 DEF Listed, ToSet
<1>23. TodoIsInTree'
  <2>1. ToSet(Children(n)) \cap ToSet(search) = {}
    BY <1>3, NotInSearch DEF TreeInv
  <2>2. ToSet(Tail(todo)) \cap ToSet(search) = {}
    BY <1>3 DEF TreeInv, ListInv, TodoIsInTree
  <2>3. ToSet(todo') \cap ToSet(search') = {}
    BY <1>1, <1>12, <2>1, <2>2
  <2> QED
    BY <2>3 DEF TodoIsInTree, ToSet
<1>24. Reached'
  <2> SUFFICES ASSUME NEW S \in SUBSET Scanned, ToSet(root) \subseteq S,
                      \A p \in S : ToSet(Children(p)) \subseteq S
               PROVE  InTree \subseteq S
    BY <1>1, <1>10 DEF Reached, ToSet
  <2> QED
    BY <1>1 DEF TreeInv, Reached
<1>25. PathsSoFar'
  <2>1. ASSUME NEW m \in ToSet(todo')
        PROVE  m \in ToSet(root') \/ \E q \in Scanned' : ParentId(m)' = q /\ HasPath(q)' /\ m \in ToSet(Children(q)')
    <3>1. CASE m \in ToSet(Children(n))
      <4>1. PICK q \in Scanned : q = n
        BY <1>3
      <4>2. m \in Scanned /\ ParentId(m)' = q
        BY <1>10, <1>16, <3>1, <4>1
      <4>3. HasPath(q)' /\ Children(q)' = Children(q) /\ Children(q) = Children(n)
        BY <1>10, <4>1
      <4> QED
        BY <1>10, <3>1, <4>2, <4>3
    <3>2. CASE m \in ToSet(Tail(todo))
      <4>1. \/ m \in ToSet(root)
            \/ ParentId(m) \in Scanned /\ HasPath(ParentId(m)) /\ m \in ToSet(Children(ParentId(m)))
        BY <1>3, <1>4, <3>2
      <4>2. m \in Scanned
        BY <1>3, <3>2, ListElements
      <4> QED
        BY <1>1, <1>10, <4>1, <4>2
    <3> QED
      BY <1>12, <2>1, <3>1, <3>2
  <2>2. \A m \in ToSet(todo) : m = n \/ m \in ToSet(todo')
    BY <1>3, <1>12
  <2>3. \A m \in ToSet(root') : HasPath(m)' \/ m \in ToSet(todo')
    BY <1>1, <1>4, <1>10, <1>17, <2>2
  <2>4. ASSUME NEW p \in Scanned', HasPath(p)', NEW m \in ToSet(Children(p)')
        PROVE  HasPath(m)' \/ m \in ToSet(todo')
    <3>1. p \in Scanned /\ m \in ToSet(Children(p)) /\ m \in Scanned
      BY <1>10, <1>16, <2>4
    <3>2. CASE p = n
      BY <1>12, <3>1, <3>2
    <3>3. CASE p # n
      <4>1. HasPath(p)
        BY <1>10, <2>4, <3>1, <3>3
      <4> QED
        BY <1>4, <1>10, <2>2, <3>1, <4>1
    <3> QED
      BY <3>2, <3>3
  <2>5. \A m \in ToSet(todo') : \/ m \in ToSet(root')
                                \/ ParentId(m)' \in Scanned' /\ HasPath(ParentId(m))' /\ m \in ToSet(Children(ParentId(m))')
    BY <2>1
  <2>6. pc' = "paths"
    BY <1>1
  <2> QED
    BY ONLY <2>3, <2>4, <2>5, <2>6 DEF PathsSoFar, Built, ToSet
<1>26. ListFacts'
  BY <1>14, <1>15, <1>18, <1>19, <1>20, <1>21 DEF ListFacts
<1> QED
  BY <1>13, <1>14, <1>22, <1>23, <1>24, <1>25, <1>26, InvFromParts

LEMMA StutterKeeps == ASSUME TreeInv, UNCHANGED vars PROVE TreeInv'
<1>1. UNCHANGED <<node, dir, pc, left, adapters, search, root, todo, changes>>
  BY DEF vars, sysfs, treeVars
<1>2. TypeOK'
  <2>1. NodeTypeOK'
    BY <1>1 DEF TreeInv, TypeOK, NodeTypeOK
  <2> QED
    BY <1>1, <2>1 DEF TreeInv, TypeOK
<1>3. HasDirectory'
  BY <1>1 DEF TreeInv, ListInv, Directories, HasDirectory, Plugged
<1>4. ListFacts'
  BY <1>1, ListsKept
<1>5. Listed' /\ TodoIsInTree'
  BY <1>1 DEF TreeInv, ListInv, Listed, TodoIsInTree, Children, ParentId, Scanned
<1>6. Reached'
  BY <1>1 DEF TreeInv, Reached, Children, InTree, Scanned
<1>7. PathsSoFar'
  BY <1>1 DEF TreeInv, PathsSoFar, Built, HasPath, Children, ParentId, InTree, Scanned
<1> QED
  BY <1>2, <1>3, <1>4, <1>5, <1>6, <1>7, InvFromParts

LEMMA NextKeepsInv == ASSUME TreeInv, [Next]_vars PROVE TreeInv'
<1>1. CASE KernelStep
  BY <1>1, KernelStepKeeps
<1>2. CASE I2cdevCleanup \/ \E n \in Nr : DirectoryGone(n)
  BY <1>2, CleanupKeeps
<1>3. CASE BeginScan
  BY <1>3, BeginScanKeeps
<1>4. CASE \E n \in Nr : ReadAdapter(n)
  BY <1>4, ReadAdapterKeeps
<1>5. CASE SortArray
  BY <1>5, SortArrayKeeps
<1>6. CASE TakeRoot
  BY <1>6, TakeRootKeeps
<1>7. CASE TakeChild
  BY <1>7, TakeChildKeeps
<1>8. CASE ChildrenTaken
  BY <1>8, ChildrenTakenKeeps
<1>9. CASE TreeBuilt
  BY <1>9, TreeBuiltKeeps
<1>10. CASE GeneratePath
  BY <1>10, GeneratePathKeeps
<1>11. CASE PathsGenerated
  BY <1>11, PathsGeneratedKeeps
<1>12. CASE \E n \in Nr : OpenDirectory(n)
  BY <1>12, OpenDirectoryKeeps
<1>13. CASE UNCHANGED vars
  BY <1>13, StutterKeeps
<1> QED
  BY <1>1, <1>2, <1>3, <1>4, <1>5, <1>6, <1>7, <1>8, <1>9, <1>10, <1>11, <1>12, <1>13 DEF Next

LEMMA TreeInvHolds == Spec => []TreeInv
<1>1. Init => TreeInv
  BY InvInit
<1>2. TreeInv /\ [Next]_vars => TreeInv'
  BY NextKeepsInv
<1> QED
  BY <1>1, <1>2, PTL DEF Spec

-----------------------------------------------------------------------------
(* What follows from the invariant *)

(* The places of an adapter in a list. *)
At(s, n) == {j \in DOMAIN s : s[j] = n}

LEMMA AtOnePlace ==
  ASSUME NEW S \in SUBSET Nat, NEW s \in Seq(S), Rising(s) \/ Falling(s), NEW n
  PROVE  IF n \in ToSet(s) THEN \E i : At(s, n) = {i} ELSE At(s, n) = {}
<1>1. DOMAIN s = 1..Len(s) /\ \A j \in DOMAIN s : j \in Int /\ s[j] \in Int
  <2>1. DOMAIN s = 1..Len(s) /\ \A j \in DOMAIN s : j \in Int /\ s[j] \in S
    BY ListElements
  <2>2. S \subseteq Int
    OBVIOUS
  <2> QED
    BY <2>1, <2>2
<1>2. \A j, k \in DOMAIN s : s[j] = s[k] => j = k
  <2> SUFFICES ASSUME NEW j \in DOMAIN s, NEW k \in DOMAIN s, j # k
               PROVE  s[j] # s[k]
    OBVIOUS
  <2>1. j < k \/ k < j
    BY <1>1
  <2> QED
    BY <1>1, <2>1 DEF Rising, Falling
<1>3. CASE n \in ToSet(s)
  <2>1. PICK i \in DOMAIN s : s[i] = n
    BY <1>3 DEF ToSet
  <2>2. At(s, n) = {i}
    BY <1>2, <2>1 DEF At
  <2> QED
    BY <1>3, <2>2
<1>4. CASE n \notin ToSet(s)
  BY <1>4 DEF At, ToSet
<1> QED
  BY <1>3, <1>4

LEMMA ListedOnce ==
  ASSUME TreeInv, pc \notin {"idle", "read"}, NEW n \in Scanned
  PROVE  \E x : Listings(n) = {x}
<1> DEFINE InSearch == {<<-2, i>> : i \in At(search, n)}
           InRoot == {<<-1, i>> : i \in At(root, n)}
           Below(p) == {<<p, i>> : i \in At(Children(p), n)}
<1>1. Listings(n) = InSearch \cup InRoot \cup UNION {Below(p) : p \in Scanned}
  BY DEF Listings, At, Children, Scanned
<1>2. Scanned \in SUBSET Nat /\ NULL \notin Scanned /\ search \in Seq(Scanned) /\ root \in Seq(Scanned)
  <2>1. Scanned \subseteq Nr /\ search \in Seq(Scanned) /\ root \in Seq(Scanned)
    BY DEF TreeInv, TypeOK, Scanned
  <2> QED
    BY <2>1, KernelAssumption, TopologyAssumption
<1>3. TypeOK /\ ListInv /\ ByParent
  BY DEF TreeInv, ListInv
<1>4. \A p \in Scanned : Children(p) \in Seq(Scanned)
  BY <1>3, ChildrenAreScanned
<1>5. /\ IF n \in ToSet(search) THEN \E i : At(search, n) = {i} ELSE At(search, n) = {}
      /\ IF n \in ToSet(root) THEN \E i : At(root, n) = {i} ELSE At(root, n) = {}
  BY <1>2, <1>3, AtOnePlace DEF ListInv, InOrder
<1>6. ASSUME NEW p \in Scanned
      PROVE  IF n \in ToSet(Children(p)) THEN \E i : At(Children(p), n) = {i} ELSE At(Children(p), n) = {}
  <2>1. PICK c \in Seq(Scanned) : c = Children(p)
    BY <1>4
  <2>2. Rising(c)
    BY <1>3, <2>1 DEF ListInv, InOrder
  <2>3. IF n \in ToSet(c) THEN \E i : At(c, n) = {i} ELSE At(c, n) = {}
    BY <1>2, <2>2, AtOnePlace
  <2> QED
    BY <2>1, <2>3
<1>7. \/ n \in ToSet(search)
      \/ n \in ToSet(root)
      \/ ParentId(n) \in Scanned /\ n \in ToSet(Children(ParentId(n)))
  BY <1>3 DEF ListInv, Listed
<1>8. /\ n \in ToSet(search) => n \notin ToSet(root) /\ \A p \in Scanned : n \notin ToSet(Children(p))
      /\ n \in ToSet(root) => \A p \in Scanned : n \notin ToSet(Children(p))
      /\ \A p, q \in Scanned : n \in ToSet(Children(p)) /\ n \in ToSet(Children(q)) => p = q
  <2>1. n \in ToSet(search) => n \notin ToSet(root) /\ \A p \in Scanned : n \notin ToSet(Children(p))
    BY <1>3, NotInSearch
  <2>2. n \in ToSet(root) => \A p \in Scanned : n \notin ToSet(Children(p))
    BY <1>2, <1>3 DEF ByParent
  <2>3. \A p, q \in Scanned : n \in ToSet(Children(p)) /\ n \in ToSet(Children(q)) => p = q
    BY <1>3 DEF ByParent
  <2> QED
    BY <2>1, <2>2, <2>3
<1>9. CASE n \in ToSet(search)
  <2>1. PICK i : At(search, n) = {i}
    BY <1>5, <1>9
  <2>2. InRoot = {} /\ \A p \in Scanned : Below(p) = {}
    BY <1>5, <1>6, <1>8, <1>9
  <2>3. InSearch = {<<-2, i>>}
    BY <2>1
  <2> HIDE DEF InSearch, InRoot, Below
  <2>4. Listings(n) = {<<-2, i>>}
    BY <1>1, <2>2, <2>3
  <2> QED
    BY <2>4
<1>10. CASE n \in ToSet(root)
  <2>1. PICK i : At(root, n) = {i}
    BY <1>5, <1>10
  <2>2. InSearch = {} /\ \A p \in Scanned : Below(p) = {}
    BY <1>5, <1>6, <1>8, <1>10
  <2>3. InRoot = {<<-1, i>>}
    BY <2>1
  <2> HIDE DEF InSearch, InRoot, Below
  <2>4. Listings(n) = {<<-1, i>>}
    BY <1>1, <2>2, <2>3
  <2> QED
    BY <2>4
<1>11. CASE ParentId(n) \in Scanned /\ n \in ToSet(Children(ParentId(n)))
  <2>1. PICK q \in Scanned : n \in ToSet(Children(q))
    BY <1>11
  <2>2. PICK i : At(Children(q), n) = {i}
    BY <1>6, <2>1
  <2>3. InSearch = {} /\ InRoot = {} /\ \A p \in Scanned : p # q => Below(p) = {}
    BY <1>5, <1>6, <1>8, <2>1
  <2>4. Below(q) = {<<q, i>>}
    BY <2>2
  <2> HIDE DEF InSearch, InRoot, Below
  <2>5. Listings(n) = {<<q, i>>}
    BY <1>1, <2>3, <2>4
  <2> QED
    BY <2>5
<1> QED
  BY <1>7, <1>9, <1>10, <1>11

(* A path leads to one adapter: where two lookups part for the first time,  *)
(* they were at the same adapter the turn before.                           *)
LEMMA FindsOne ==
  ASSUME NEW path \in Seq(Token), NEW m, NEW n, Finds(path, m), Finds(path, n)
  PROVE  m = n
<1>1. PICK at \in [1..Len(path) -> Scanned] :
        /\ at[1] = path[1].id
        /\ \A i \in 2..Len(path) : at[i] = ChildFor(at[i - 1], path[i])
        /\ at[Len(path)] = m
  BY DEF Finds, Scanned
<1>2. PICK on \in [1..Len(path) -> Scanned] :
        /\ on[1] = path[1].id
        /\ \A i \in 2..Len(path) : on[i] = ChildFor(on[i - 1], path[i])
        /\ on[Len(path)] = n
  BY DEF Finds, Scanned
<1>3. Len(path) \in Nat /\ Len(path) >= 1
  <2>1. path # <<>>
    BY DEF Finds
  <2> QED
    BY <2>1
<1> DEFINE apart == {i \in 1..Len(path) : at[i] # on[i]}
<1>4. CASE apart # {}
  <2>1. apart \in SUBSET Nat
    OBVIOUS
  <2>2. PICK j \in apart : \A l \in apart : j <= l
    BY <1>4, <2>1, NatHasLeast
  <2>3. j \in 2..Len(path) /\ j - 1 \in 1..Len(path)
    BY <1>1, <1>2, <1>3, <2>2
  <2>4. at[j - 1] = on[j - 1]
    BY <2>2, <2>3
  <2> QED
    BY <1>1, <1>2, <2>2, <2>3, <2>4
<1>5. CASE apart = {}
  BY <1>1, <1>2, <1>3, <1>5
<1> QED
  BY <1>4, <1>5

LEMMA TreeInvImplies == ASSUME TreeInv PROVE TypeOK /\ OnOneList /\ IdIsRank /\ LookupFindsPath
<1>1. OnOneList
  <2> SUFFICES ASSUME pc \in {"roots", "children", "paths", "devices", "ready"}, NEW n \in Scanned
               PROVE  Cardinality(Listings(n)) = 1
    BY DEF OnOneList, Scanned
  <2>1. PICK x : Listings(n) = {x}
    BY ListedOnce
  <2> QED
    BY <2>1, FS_Singleton
<1>2. LookupFindsPath
  <2> SUFFICES ASSUME Built, NEW n \in InTree PROVE Finds(adapters[n].path, n)
    BY DEF LookupFindsPath
  <2>1. HasPath(n) /\ n \in Scanned
    BY DEF TreeInv, PathsSoFar, InTree, Scanned
  <2> QED
    BY <2>1 DEF TreeInv, PathsFind
<1> QED
  BY <1>1, <1>2 DEF TreeInv

-----------------------------------------------------------------------------
(* The theorems *)

(* Every variable keeps its type: in particular no list ever refers to an   *)
(* adapter that is not in the array (i2c-bus-parser.c frees the adapters    *)
(* of a table with the table).                                              *)
THEOREM TreeKeepsTypes == Spec => []TypeOK
<1>1. TreeInv => TypeOK
  BY TreeInvImplies
<1> QED
  BY <1>1, TreeInvHolds, PTL

(* adapter_tree_build moves entries between lists with hand-made links; at  *)
(* each of its steps every adapter is on one list, once, also in a scan     *)
(* that was torn by adapters coming and going.                              *)
THEOREM EachOnOneList == Spec => []OnOneList
<1>1. TreeInv => OnOneList
  BY TreeInvImplies
<1> QED
  BY <1>1, TreeInvHolds, PTL

(* count_bus_match_channel_set_bus renumbers the siblings each time one is  *)
(* inserted; whatever the order in which they come, the id of an adapter is *)
(* its rank by number among the siblings with its channel.                  *)
THEOREM ChannelsAreRanked == Spec => []IdIsRank
<1>1. TreeInv => IdIsRank
  BY TreeInvImplies
<1> QED
  BY <1>1, TreeInvHolds, PTL

(* The path that generate_bus_paths makes for an adapter leads              *)
(* search_devbus_tree_fast_path back to that adapter, in topologies of any  *)
(* depth and after a torn scan.                                             *)
THEOREM PathsLeadBack == Spec => []LookupFindsPath
<1>1. TreeInv => LookupFindsPath
  BY TreeInvImplies
<1> QED
  BY <1>1, TreeInvHolds, PTL

(* The paths of a finished scan are names: no two adapters of the tree have *)
(* the same path, however many multiplexers share their channels.           *)
PathsAreNames ==
  Built => \A m, n \in InTree : adapters[m].path = adapters[n].path => m = n

(* The lookup of a path ends at one adapter at most, so generate_bus_paths  *)
(* gave no two adapters of the tree the same one.                           *)
THEOREM PathsTellApart == Spec => []PathsAreNames
<1>1. TreeInv => PathsAreNames
  <2> SUFFICES ASSUME TreeInv, Built, NEW m \in InTree, NEW n \in InTree,
                      adapters[m].path = adapters[n].path
               PROVE  m = n
    BY DEF PathsAreNames
  <2>1. Finds(adapters[m].path, m) /\ Finds(adapters[n].path, n)
    BY TreeInvImplies DEF LookupFindsPath
  <2>2. adapters[m].path \in Seq(Token)
    BY DEF TreeInv, TypeOK, InTree, Adapter
  <2>3. PICK path \in Seq(Token) : path = adapters[m].path
    BY <2>2
  <2>4. Finds(path, m) /\ Finds(path, n)
    BY <2>1, <2>3
  <2> QED
    BY <2>4, FindsOne
<1> QED
  BY <1>1, TreeInvHolds, PTL
=============================================================================
