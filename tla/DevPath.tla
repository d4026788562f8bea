------------------------------- MODULE DevPath -------------------------------
(***************************************************************************)
(* Looking an adapter up by its path, as "0:1.3:0.2" (i2c-dev-path.c, and   *)
(* search_devbus_tree_fast_path in i2c-bus-parser.c): the path is parsed    *)
(* token by token into an array of MAX_BUS_DEPTH entries, and the entries   *)
(* are then followed down the tree that the last scan built.                *)
(***************************************************************************)
EXTENDS Integers, Sequences

CONSTANTS
  Adapter,       (* the adapters of the tree                                 *)
  NoAdapter,     (* NULL                                                     *)
  Nr,            (* their numbers                                            *)
  Parent,        (* the adapter each is a child of                           *)
  MuxId, Channel,(* the multiplexer and the channel it is on, -1 for none    *)
  Paths,         (* the paths that are looked up                             *)
  MaxBusDepth,   (* MAX_BUS_DEPTH                                            *)
  IntHalf        (* 2^31: an int goes up to it                               *)

(* What strtoul makes of a text: a number, and whether that was all of it.  *)
(* An empty text is all of the number 0.                                    *)
Number == [n : Nat, whole : BOOLEAN]

(* What is between two colons: an empty text, or a number that may have a   *)
(* dot behind it, with or without something behind the dot.                 *)
Token == [empty : BOOLEAN, id : Number, dot : {"none", "last", "inside"}, chan : Number]

ASSUME TreeAssumption ==
  /\ NoAdapter \notin Adapter /\ Adapter # {}
  /\ Nr \in [Adapter -> Nat] /\ \A a, b \in Adapter : Nr[a] = Nr[b] => a = b
  /\ Parent \in [Adapter -> Adapter \cup {NoAdapter}]
  /\ MuxId \in [Adapter -> Int] /\ Channel \in [Adapter -> Int]
  /\ \A a, b \in Adapter :
       Parent[a] = Parent[b] /\ MuxId[a] = MuxId[b] /\ Channel[a] = Channel[b] /\ MuxId[a] # -1 => a = b

ASSUME PathAssumption ==
  /\ Paths \subseteq Seq(Token)
  /\ MaxBusDepth \in Nat /\ MaxBusDepth > 1
  /\ IntHalf \in Nat /\ IntHalf > 0

VARIABLES
  path,        (* the argument                                              *)
  state,       (* "parsing", "walking", "found", and how the process goes   *)
               (* down: "overrun" writing past the array, "aborted" by the  *)
               (* assert                                                    *)
  count,       (* token_cnt                                                 *)
  disc,        (* the entries stored so far                                 *)
  depth,       (* how many entries of it the walk has followed              *)
  match        (* dev_match                                                 *)

pathVars == <<path, state, count, disc, depth, match>>

BUS_NR_ANY == -1
Entry == [type : {"BUS", "MUX", "END"}, id : Int, value : Int]
EndEntry == [type |-> "END", id |-> 0, value |-> 0]

(* The variables keep their types: every token the parser has counted is in *)
(* the array, and the array is full to the count.                           *)
PathTypeOK ==
  /\ path \in Paths
  /\ state \in {"parsing", "walking", "found", "overrun", "aborted"}
  /\ count \in 0..Len(path)
  /\ disc \in Seq(Entry)
  /\ depth \in Nat
  /\ match \in Adapter \cup {NoAdapter}

PathInit ==
  /\ path \in Paths
  /\ state = "parsing" /\ count = 0 /\ disc = <<>>
  /\ depth = 0 /\ match = NoAdapter

-----------------------------------------------------------------------------
(* Parsing *)

(* The result of strtoul assigned to an int. *)
ToInt(n) ==
  LET low == n % (2 * IntHalf) IN IF low < IntHalf THEN low ELSE low - 2 * IntHalf

IsMux(token) == token.dot = "inside" /\ token.id.whole /\ token.chan.whole

(* parse_token.  What is not a number leaves an entry for a bus, with the   *)
(* number it starts with; the error -EINVAL is not looked at.               *)
ParseToken(token) ==
  [type  |-> IF IsMux(token) THEN "MUX" ELSE "BUS",
   id    |-> ToInt(token.id.n),
   value |-> IF IsMux(token) THEN ToInt(token.chan.n) ELSE BUS_NR_ANY]

(* An empty token ends the path; at the end of the text it is not looked at.*)
AtEnd == count < Len(path) => path[count + 1].empty

(* One turn of the loop in parse_i2cdev_path: the token is stored before    *)
(* anything checks that there is room for it.                               *)
NextToken ==
  /\ state = "parsing" /\ ~AtEnd
  /\ IF count < MaxBusDepth
     THEN /\ disc' = Append(disc, ParseToken(path[count + 1]))
          /\ count' = count + 1
          /\ UNCHANGED state
     ELSE state' = "overrun" /\ UNCHANGED <<disc, count>>
  /\ UNCHANGED <<path, depth, match>>

(* Mutant of EndPath: the assert lets one token more through. *)
EndPathLate ==
  /\ state = "parsing" /\ AtEnd
  /\ IF count < MaxBusDepth + 1
     THEN disc' = Append(disc, EndEntry) /\ state' = "walking"
     ELSE state' = "aborted" /\ UNCHANGED disc
  /\ UNCHANGED <<path, count, depth, match>>

(* The assert behind the loop, and the terminator; parsing an empty token   *)
(* stores one in the same place, which may be past the array.               *)
EndPath ==
  /\ state = "parsing" /\ AtEnd
  /\ IF count < MaxBusDepth - 1
     THEN disc' = Append(disc, EndEntry) /\ state' = "walking"
     ELSE /\ state' = IF count = MaxBusDepth /\ count + 1 < Len(path) THEN "overrun" ELSE "aborted"
          /\ UNCHANGED disc
  /\ UNCHANGED <<path, count, depth, match>>

-----------------------------------------------------------------------------
(* Walking *)

Finds(adapter) ==
  /\ state' = "found" /\ match' = adapter
  /\ UNCHANGED <<path, count, disc, depth>>

(* lookup_dev_bus_by_nr looks among all adapters, not only the roots, and   *)
(* whatever follows a dot in the first token is not looked at.              *)
WalkFirst ==
  /\ state = "walking" /\ depth = 0
  /\ \/ disc[1].type = "END" /\ Finds(NoAdapter)
     \/ /\ disc[1].type # "END"
        /\ \A a \in Adapter : Nr[a] # disc[1].id
        /\ Finds(NoAdapter)
     \/ \E a \in Adapter :
          /\ disc[1].type # "END" /\ Nr[a] = disc[1].id
          /\ match' = a /\ depth' = 1
          /\ UNCHANGED <<path, state, count, disc>>

(* Mutant of Follows: the multiplexer is not compared. *)
FollowsChannel(a, entry) ==
  /\ Parent[a] = match
  /\ \/ entry.type = "BUS" /\ Nr[a] = entry.id
     \/ entry.type = "MUX" /\ Channel[a] = entry.value

Follows(a, entry) ==
  /\ Parent[a] = match
  /\ \/ entry.type = "BUS" /\ Nr[a] = entry.id
     \/ entry.type = "MUX" /\ MuxId[a] = entry.id /\ Channel[a] = entry.value

(* Mutant of WalkChild: when no child matches, the loop goes on.            *)
WalkChildWaits ==
  /\ state = "walking" /\ depth > 0
  /\ LET entry == disc[depth + 1] IN
     \/ entry.type = "END" /\ Finds(match)
     \/ \E a \in Adapter :
          /\ entry.type # "END" /\ Follows(a, entry)
          /\ match' = a /\ depth' = depth + 1
          /\ UNCHANGED <<path, state, count, disc>>

WalkChild ==
  /\ state = "walking" /\ depth > 0
  /\ LET entry == disc[depth + 1] IN
     \/ entry.type = "END" /\ Finds(match)
     \/ /\ entry.type # "END"
        /\ \A a \in Adapter : ~Follows(a, entry)
        /\ Finds(NoAdapter)
     \/ \E a \in Adapter :
          /\ Follows(a, entry)
          /\ match' = a /\ depth' = depth + 1
          /\ UNCHANGED <<path, state, count, disc>>

LookupStep == NextToken \/ EndPath \/ WalkFirst \/ WalkChild

-----------------------------------------------------------------------------
(* Properties *)

(* A path the library prints: numbers that fit an int, the first one alone, *)
(* and behind it numbers of buses or channels of multiplexers.              *)
IsNumber(x) == x.whole /\ x.n < IntHalf
WellFormed(p) ==
  /\ p # <<>>
  /\ \A k \in 1..Len(p) :
       /\ ~p[k].empty /\ IsNumber(p[k].id)
       /\ p[k].dot = "none" \/ (p[k].dot = "inside" /\ k > 1 /\ IsNumber(p[k].chan))

(* What such a path means, told without the array: a trail of adapters,     *)
(* from the one with the first number, each the child of the one before it  *)
(* that the next token says.                                                *)
Hop(p, k, parent, child) ==
  /\ Parent[child] = parent
  /\ IF p[k + 1].dot = "none" THEN Nr[child] = p[k + 1].id.n
     ELSE MuxId[child] = p[k + 1].id.n /\ Channel[child] = p[k + 1].chan.n

Denotes(p, n, adapter) ==
  \E trail \in [1..n -> Adapter] :
    /\ trail[n] = adapter
    /\ Nr[trail[1]] = p[1].id.n
    /\ \A k \in 1..(n - 1) : Hop(p, k, trail[k], trail[k + 1])

(* The lookup of a well-formed path ends at an adapter the path denotes, or *)
(* with NULL when it denotes none.                                          *)
FoundIsDenoted ==
  state = "found" /\ WellFormed(path) =>
    IF match = NoAdapter THEN \A a \in Adapter : ~Denotes(path, Len(path), a)
    ELSE Denotes(path, Len(path), match)

(* The check for room comes after the store: only a path with more tokens   *)
(* than the array has entries gets past its end, and the assert stops every *)
(* other one that leaves no room for the terminator.                        *)
RoomForPath ==
  /\ state = "overrun" => Len(path) > MaxBusDepth
  /\ state = "aborted" => Len(path) >= MaxBusDepth - 1
  /\ Len(disc) <= MaxBusDepth
==============================================================================
