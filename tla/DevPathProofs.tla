--------------------------- MODULE DevPathProofs ----------------------------
(***************************************************************************)
(* What a lookup by path computes, for every tree, every set of paths and   *)
(* every size of the array: the inductive invariant of DevPath and its      *)
(* preservation by each step of the lookup.                                 *)
(***************************************************************************)
EXTENDS DevPath, TLAPS

-----------------------------------------------------------------------------
(* Numbers: an int keeps what is below IntHalf. *)

LEMMA ToIntKeeps ==
  ASSUME NEW n \in Nat
  PROVE  ToInt(n) \in Int /\ (n < IntHalf => ToInt(n) = n)
<1> DEFINE size == 2 * IntHalf
<1>1. IntHalf \in Nat /\ IntHalf > 0
  BY PathAssumption
<1>2. n % size \in 0..(size - 1) /\ (n < IntHalf => n % size = n)
  BY <1>1
<1> QED
  BY <1>1, <1>2 DEF ToInt

LEMMA TokenTypes ==
  ASSUME NEW token \in Token
  PROVE  ParseToken(token) \in Entry /\ ParseToken(token).type # "END"
<1>1. ToInt(token.id.n) \in Int /\ ToInt(token.chan.n) \in Int
  BY ToIntKeeps DEF Token, Number
<1> QED
  BY <1>1 DEF ParseToken, Entry, BUS_NR_ANY

LEMMA PathTypes ==
  ASSUME NEW p \in Paths
  PROVE  p \in Seq(Token) /\ Len(p) \in Nat /\ \A k \in 1..Len(p) : p[k] \in Token
BY PathAssumption

-----------------------------------------------------------------------------
(* Trails *)

(* A trail can be cut anywhere. *)
LEMMA TrailCut ==
  ASSUME NEW p, NEW n \in Nat, NEW m \in 1..n, NEW a, Denotes(p, n, a)
  PROVE  \E b \in Adapter : Denotes(p, m, b)
<1>1. PICK trail \in [1..n -> Adapter] :
        /\ Nr[trail[1]] = p[1].id.n
        /\ \A k \in 1..(n - 1) : Hop(p, k, trail[k], trail[k + 1])
  BY DEF Denotes
<1> DEFINE start == [k \in 1..m |-> trail[k]]
<1>2. start \in [1..m -> Adapter] /\ start[m] \in Adapter
  OBVIOUS
<1>3. Nr[start[1]] = p[1].id.n
  BY <1>1
<1>4. \A k \in 1..(m - 1) :
        k \in 1..(n - 1) /\ start[k + 1] = trail[k + 1] /\ start[k] = trail[k]
  OBVIOUS
<1>5. \A k \in 1..(m - 1) : Hop(p, k, start[k], start[k + 1])
  BY <1>1, <1>4
<1>6. Denotes(p, m, start[m])
  BY <1>2, <1>3, <1>5 DEF Denotes
<1> QED
  BY <1>2, <1>6

(* A trail is one hop longer than another. *)
LEMMA TrailStep ==
  ASSUME NEW p, NEW n \in Nat, n > 0, NEW a \in Adapter
  PROVE  Denotes(p, n + 1, a) <=> \E b \in Adapter : Denotes(p, n, b) /\ Hop(p, n, b, a)
<1>0. (n + 1) - 1 = n
  OBVIOUS
<1>1. ASSUME Denotes(p, n + 1, a)
      PROVE  \E b \in Adapter : Denotes(p, n, b) /\ Hop(p, n, b, a)
  <2>1. PICK trail \in [1..(n + 1) -> Adapter] :
          /\ trail[n + 1] = a
          /\ Nr[trail[1]] = p[1].id.n
          /\ \A k \in 1..n : Hop(p, k, trail[k], trail[k + 1])
    BY <1>0, <1>1 DEF Denotes
  <2> DEFINE start == [k \in 1..n |-> trail[k]]
  <2>2. start \in [1..n -> Adapter] /\ start[n] = trail[n]
    OBVIOUS
  <2>3. Nr[start[1]] = p[1].id.n
    BY <2>1
  <2>4. \A k \in 1..(n - 1) :
          k \in 1..n /\ start[k + 1] = trail[k + 1] /\ start[k] = trail[k]
    OBVIOUS
  <2>5. \A k \in 1..(n - 1) : Hop(p, k, start[k], start[k + 1])
    BY <2>1, <2>4
  <2>6. Denotes(p, n, trail[n])
    BY <2>2, <2>3, <2>5 DEF Denotes
  <2>7. n \in 1..n /\ trail[n] \in Adapter
    OBVIOUS
  <2> QED
    BY <2>1, <2>6, <2>7
<1>2. ASSUME NEW b \in Adapter, Denotes(p, n, b), Hop(p, n, b, a)
      PROVE  Denotes(p, n + 1, a)
  <2>1. PICK trail \in [1..n -> Adapter] :
          /\ trail[n] = b
          /\ Nr[trail[1]] = p[1].id.n
          /\ \A k \in 1..(n - 1) : Hop(p, k, trail[k], trail[k + 1])
    BY <1>2 DEF Denotes
  <2> DEFINE longer == [k \in 1..(n + 1) |-> IF k = n + 1 THEN a ELSE trail[k]]
  <2>2. longer \in [1..(n + 1) -> Adapter] /\ longer[n + 1] = a /\ longer[n] = b
    BY <2>1
  <2>3. Nr[longer[1]] = p[1].id.n
    BY <2>1
  <2>4. ASSUME NEW k \in 1..n PROVE Hop(p, k, longer[k], longer[k + 1])
    <3>1. CASE k = n
      BY <1>2, <2>2, <3>1
    <3>2. CASE k # n
      <4>1. k \in 1..(n - 1) /\ longer[k + 1] = trail[k + 1] /\ longer[k] = trail[k]
        BY <3>2
      <4> QED
        BY <2>1, <4>1
    <3> QED
      BY <3>1, <3>2
  <2> HIDE DEF longer
  <2> QED
    BY <1>0, <2>2, <2>3, <2>4 DEF Denotes
<1> QED
  BY <1>1, <1>2

LEMMA TrailStart ==
  ASSUME NEW p, NEW a \in Adapter
  PROVE  Denotes(p, 1, a) <=> Nr[a] = p[1].id.n
<1>1. ASSUME Nr[a] = p[1].id.n PROVE Denotes(p, 1, a)
  <2> DEFINE trail == [k \in 1..1 |-> a]
  <2>1. trail \in [1..1 -> Adapter] /\ trail[1] = a /\ 1..(1 - 1) = {}
    OBVIOUS
  <2> QED
    BY <1>1, <2>1 DEF Denotes
<1> QED
  BY <1>1 DEF Denotes

-----------------------------------------------------------------------------
(* The inductive invariant: what is in the array comes from the path, token *)
(* by token; the walk is at the one adapter that the path up to there       *)
(* denotes.                                                                 *)
Parsed == \A k \in 1..count : ~path[k].empty /\ disc[k] = ParseToken(path[k])

Parsing == Len(disc) = count /\ depth = 0 /\ match = NoAdapter

Walking ==
  /\ AtEnd
  /\ Len(disc) = count + 1 /\ disc[count + 1] = EndEntry
  /\ depth <= count
  /\ depth > 0 =>
       /\ match \in Adapter
       /\ WellFormed(path) => \A a \in Adapter : Denotes(path, depth, a) <=> a = match

PathInv ==
  /\ PathTypeOK
  /\ count <= MaxBusDepth
  /\ Parsed
  /\ state = "parsing" => Parsing
  /\ state = "walking" => Walking
  /\ RoomForPath
  /\ FoundIsDenoted

LEMMA PathInvInit == ASSUME PathInit PROVE PathInv
<1>1. path \in Paths /\ Len(path) \in Nat
  BY PathTypes DEF PathInit
<1> QED
  BY <1>1, PathAssumption
  DEF PathInit, PathInv, PathTypeOK, Parsed, Parsing, RoomForPath, FoundIsDenoted

(* A step that stops the parser, or that goes on parsing. *)
LEMMA ParsingKeepsPathInv ==
  ASSUME PathInv, NextToken \/ EndPath
  PROVE  PathInv'
<1>1. /\ path \in Paths /\ Len(path) \in Nat /\ count \in 0..Len(path) /\ disc \in Seq(Entry)
      /\ state = "parsing" /\ Len(disc) = count /\ count <= MaxBusDepth
      /\ depth = 0 /\ match = NoAdapter /\ depth' = 0 /\ match' = NoAdapter /\ path' = path
  BY PathTypes DEF PathInv, PathTypeOK, Parsing, NextToken, EndPath
<1>2. CASE NextToken /\ count < MaxBusDepth
  <2>1. count < Len(path) /\ ~path[count + 1].empty /\ count + 1 \in 1..Len(path)
    BY <1>1, <1>2 DEF NextToken, AtEnd
  <2>2. ParseToken(path[count + 1]) \in Entry
    BY <1>1, <2>1, PathTypes, TokenTypes
  <2>3. /\ disc' = Append(disc, ParseToken(path[count + 1]))
        /\ count' = count + 1 /\ state' = "parsing"
    BY <1>1, <1>2 DEF NextToken
  <2>4. /\ disc' \in Seq(Entry) /\ Len(disc') = count + 1
        /\ \A k \in 1..count : disc'[k] = disc[k]
        /\ disc'[count + 1] = ParseToken(path[count + 1])
    BY <1>1, <2>2, <2>3
  <2>5. Parsed'
    BY <1>1, <2>1, <2>3, <2>4 DEF PathInv, Parsed
  <2> QED
    BY <1>1, <1>2, <2>1, <2>3, <2>4, <2>5, PathAssumption
    DEF PathInv, PathTypeOK, Parsing, RoomForPath, FoundIsDenoted
<1>3. CASE NextToken /\ ~(count < MaxBusDepth)
  <2>1. state' = "overrun" /\ disc' = disc /\ count' = count /\ count < Len(path)
    BY <1>1, <1>3 DEF NextToken, AtEnd
  <2>2. count = MaxBusDepth
    BY <1>1, <1>3, PathAssumption
  <2>3. Parsed'
    BY <1>1, <2>1 DEF PathInv, Parsed
  <2> QED
    BY <1>1, <2>1, <2>2, <2>3, PathAssumption
    DEF PathInv, PathTypeOK, RoomForPath, FoundIsDenoted
<1>4. CASE EndPath /\ count < MaxBusDepth - 1
  <2>1. disc' = Append(disc, EndEntry) /\ state' = "walking" /\ count' = count /\ AtEnd
    BY <1>4 DEF EndPath
  <2>2. EndEntry \in Entry
    BY DEF EndEntry, Entry
  <2>3. /\ disc' \in Seq(Entry) /\ Len(disc') = count + 1
        /\ \A k \in 1..count : disc'[k] = disc[k]
        /\ disc'[count + 1] = EndEntry
    BY <1>1, <2>1, <2>2
  <2>4. Parsed'
    BY <1>1, <2>1, <2>3 DEF PathInv, Parsed
  <2>5. Walking'
    BY <1>1, <2>1, <2>3 DEF Walking, AtEnd
  <2> QED
    BY <1>1, <1>4, <2>1, <2>3, <2>4, <2>5, PathAssumption
    DEF PathInv, PathTypeOK, RoomForPath, FoundIsDenoted
<1>5. CASE EndPath /\ ~(count < MaxBusDepth - 1)
  <2>1. /\ disc' = disc /\ count' = count
        /\ state' = IF count = MaxBusDepth /\ count + 1 < Len(path) THEN "overrun" ELSE "aborted"
    BY <1>5 DEF EndPath
  <2>2. Parsed'
    BY <1>1, <2>1 DEF PathInv, Parsed
  <2> QED
    BY <1>1, <1>5, <2>1, <2>2, PathAssumption
    DEF PathInv, PathTypeOK, RoomForPath, FoundIsDenoted
<1> QED
  BY <1>2, <1>3, <1>4, <1>5

(* An entry that is not the terminator comes from a token of the path.      *)
LEMMA EntryOfToken ==
  ASSUME PathInv, state = "walking"
  PROVE  /\ depth \in 0..count
         /\ disc[depth + 1].type # "END" <=> depth < count
         /\ depth < count =>
              /\ depth + 1 \in 1..Len(path)
              /\ disc[depth + 1] = ParseToken(path[depth + 1])
         /\ WellFormed(path) => count = Len(path) /\ count > 0
<1>1. /\ path \in Paths /\ Len(path) \in Nat /\ count \in 0..Len(path) /\ depth \in 0..count
      /\ path \in Seq(Token) /\ disc[count + 1] = EndEntry /\ AtEnd
  BY PathTypes DEF PathInv, PathTypeOK, Walking
<1>2. ASSUME depth < count
      PROVE  /\ depth + 1 \in 1..Len(path)
             /\ disc[depth + 1] = ParseToken(path[depth + 1])
             /\ disc[depth + 1].type # "END"
  <2>1. depth + 1 \in 1..count /\ depth + 1 \in 1..Len(path)
    BY <1>1, <1>2
  <2> QED
    BY <1>1, <2>1, PathTypes, TokenTypes DEF PathInv, Parsed
<1>3. ASSUME ~(depth < count) PROVE disc[depth + 1].type = "END"
  BY <1>1, <1>3 DEF EndEntry
<1>4. ASSUME WellFormed(path) PROVE count = Len(path) /\ count > 0
  <2>1. Len(path) > 0
    BY <1>1, <1>4 DEF WellFormed
  <2>2. ASSUME count < Len(path) PROVE FALSE
    <3>1. count + 1 \in 1..Len(path)
      BY <1>1, <2>2
    <3> QED
      BY <1>1, <1>4, <2>2, <3>1 DEF WellFormed, AtEnd
  <2> QED
    BY <1>1, <2>1, <2>2
<1> QED
  BY <1>1, <1>2, <1>3, <1>4

(* In a well-formed path the walk follows exactly the hops of a trail, and  *)
(* there is at most one to follow.                                          *)
LEMMA FollowsIsHop ==
  ASSUME PathInv, state = "walking", depth > 0, depth < count, WellFormed(path), NEW a \in Adapter
  PROVE  /\ Follows(a, disc[depth + 1]) <=> Hop(path, depth, match, a)
         /\ \A b \in Adapter : Hop(path, depth, match, a) /\ Hop(path, depth, match, b) => a = b
<1> DEFINE token == path[depth + 1]
<1>1. depth \in Nat /\ depth + 1 \in 1..Len(path) /\ disc[depth + 1] = ParseToken(token)
  BY EntryOfToken DEF PathInv, PathTypeOK
<1>2. path \in Paths /\ token \in Token
  BY <1>1, PathTypes DEF PathInv, PathTypeOK
<1>3. /\ token.id.whole /\ token.id.n \in Nat /\ token.id.n < IntHalf
      /\ \/ token.dot = "none"
         \/ token.dot = "inside" /\ token.chan.whole /\ token.chan.n \in Nat /\ token.chan.n < IntHalf
  BY <1>1, <1>2 DEF WellFormed, IsNumber, Token, Number
<1>4. ToInt(token.id.n) = token.id.n /\ (token.dot = "inside" => ToInt(token.chan.n) = token.chan.n)
  BY <1>3, ToIntKeeps
<1>5. IF token.dot = "none"
      THEN ParseToken(token).type = "BUS" /\ ParseToken(token).id = token.id.n
      ELSE /\ ParseToken(token).type = "MUX" /\ ParseToken(token).id = token.id.n
           /\ ParseToken(token).value = token.chan.n
  BY <1>3, <1>4 DEF ParseToken, IsMux
<1>6. Follows(a, disc[depth + 1]) <=> Hop(path, depth, match, a)
  BY <1>1, <1>5 DEF Follows, Hop
<1>7. ASSUME NEW b \in Adapter, Hop(path, depth, match, a), Hop(path, depth, match, b)
      PROVE  a = b
  BY <1>3, <1>7, TreeAssumption DEF Hop
<1> QED
  BY <1>6, <1>7

LEMMA WalkingKeepsPathInv ==
  ASSUME PathInv, WalkFirst \/ WalkChild
  PROVE  PathInv'
<1>1. /\ path \in Paths /\ Len(path) \in Nat /\ count \in 0..Len(path) /\ depth \in 0..count
      /\ state = "walking" /\ path' = path /\ count' = count /\ disc' = disc
      /\ disc[depth + 1].type # "END" <=> depth < count
      /\ WellFormed(path) => count = Len(path) /\ count > 0
      /\ AtEnd /\ Len(disc) = count + 1 /\ disc[count + 1] = EndEntry
      /\ depth > 0 =>
           /\ match \in Adapter
           /\ WellFormed(path) => \A a \in Adapter : Denotes(path, depth, a) <=> a = match
  BY EntryOfToken, PathTypes DEF PathInv, PathTypeOK, WalkFirst, WalkChild, Finds, Walking
<1>2. Parsed'
  BY <1>1 DEF PathInv, Parsed
<1>3. ASSUME NEW a \in Adapter \cup {NoAdapter}, Finds(a),
             WellFormed(path) =>
               IF a = NoAdapter THEN \A b \in Adapter : ~Denotes(path, Len(path), b)
               ELSE Denotes(path, Len(path), a)
      PROVE  PathInv'
  BY <1>1, <1>2, <1>3 DEF Finds, PathInv, PathTypeOK, RoomForPath, FoundIsDenoted
<1>4. ASSUME NEW a \in Adapter, match' = a, depth' = depth + 1, state' = state, depth < count,
             WellFormed(path) => \A b \in Adapter : Denotes(path, depth + 1, b) <=> b = a
      PROVE  PathInv'
  <2>1. Walking'
    BY <1>1, <1>4 DEF Walking, AtEnd
  <2> QED
    BY <1>1, <1>2, <1>4, <2>1 DEF PathInv, PathTypeOK, RoomForPath, FoundIsDenoted
(* When nothing is denoted by a part of the path, nothing is by all of it.  *)
<1>5. ASSUME NEW n \in 1..Len(path), \A b \in Adapter : ~Denotes(path, n, b)
      PROVE  \A b \in Adapter : ~Denotes(path, Len(path), b)
  BY <1>1, <1>5, TrailCut
<1>6. CASE WalkFirst
  <2>1. depth = 0
    BY <1>6 DEF WalkFirst
  <2>2. ASSUME WellFormed(path)
        PROVE  /\ disc[1].type # "END" /\ 1 \in 1..Len(path)
               /\ \A b \in Adapter : Denotes(path, 1, b) <=> Nr[b] = disc[1].id
    <3>1. 1 \in 1..Len(path) /\ disc[1] = ParseToken(path[1]) /\ disc[1].type # "END"
      BY <1>1, <2>1, <2>2, EntryOfToken
    <3>2. path[1] \in Token /\ path[1].id.n \in Nat /\ path[1].id.n < IntHalf
      BY <1>1, <2>2, <3>1, PathTypes DEF WellFormed, IsNumber, Token, Number
    <3>3. disc[1].id = path[1].id.n
      BY <3>1, <3>2, ToIntKeeps DEF ParseToken
    <3> QED
      BY <3>1, <3>3, TrailStart
  <2>3. CASE disc[1].type = "END" /\ Finds(NoAdapter)
    BY <1>3, <2>2, <2>3
  <2>4. CASE (\A a \in Adapter : Nr[a] # disc[1].id) /\ Finds(NoAdapter)
    BY <1>3, <1>5, <2>2, <2>4
  <2>5. ASSUME NEW a \in Adapter, disc[1].type # "END", Nr[a] = disc[1].id,
               match' = a, depth' = 1, state' = state
        PROVE  PathInv'
    <3>1. depth < count /\ depth' = depth + 1
      BY <1>1, <2>1, <2>5
    <3>2. WellFormed(path) => \A b \in Adapter : Denotes(path, depth + 1, b) <=> b = a
      BY <2>1, <2>2, <2>5, TreeAssumption
    <3> QED
      BY <1>4, <2>5, <3>1, <3>2
  <2> QED
    BY <1>6, <2>3, <2>4, <2>5 DEF WalkFirst
<1>7. CASE WalkChild
  <2>1. depth > 0 /\ depth \in Nat /\ match \in Adapter
    BY <1>1, <1>7 DEF WalkChild
  <2>2. ASSUME WellFormed(path), depth < count, NEW b \in Adapter
        PROVE  Denotes(path, depth + 1, b) <=> Follows(b, disc[depth + 1])
    <3>1. Denotes(path, depth + 1, b) <=> \E c \in Adapter : Denotes(path, depth, c) /\ Hop(path, depth, c, b)
      BY <2>1, TrailStep
    <3>2. Denotes(path, depth + 1, b) <=> Hop(path, depth, match, b)
      BY <1>1, <2>1, <2>2, <3>1
    <3> QED
      BY <1>1, <2>1, <2>2, <3>2, FollowsIsHop
  <2>3. CASE disc[depth + 1].type = "END" /\ Finds(match)
    BY <1>1, <1>3, <2>1, <2>3, TreeAssumption
  <2>4. CASE /\ disc[depth + 1].type # "END"
             /\ \A a \in Adapter : ~Follows(a, disc[depth + 1])
             /\ Finds(NoAdapter)
    <3>1. depth < count /\ depth + 1 \in 1..Len(path)
      BY <1>1, <2>1, <2>4
    <3> QED
      BY <1>3, <1>5, <2>2, <2>4, <3>1
  <2>5. ASSUME NEW a \in Adapter, Follows(a, disc[depth + 1]),
               match' = a, depth' = depth + 1, state' = state
        PROVE  PathInv'
    <3>1. depth < count
      BY <1>1, <2>5 DEF Follows
    <3>2. ASSUME WellFormed(path), NEW b \in Adapter
          PROVE  Denotes(path, depth + 1, b) <=> b = a
      BY <1>1, <2>1, <2>2, <2>5, <3>1, <3>2, FollowsIsHop
    <3> QED
      BY <1>4, <2>5, <3>1, <3>2
  <2> QED
    BY <1>7, <2>3, <2>4, <2>5 DEF WalkChild
<1> QED
  BY <1>6, <1>7

LEMMA LookupKeepsPathInv ==
  ASSUME PathInv, LookupStep
  PROVE  PathInv'
BY ParsingKeepsPathInv, WalkingKeepsPathInv DEF LookupStep

LEMMA PathInvStable ==
  ASSUME PathInv, UNCHANGED pathVars
  PROVE  PathInv'
BY DEF PathInv, pathVars, PathTypeOK, Parsed, Parsing, Walking, AtEnd, RoomForPath, FoundIsDenoted
=============================================================================
