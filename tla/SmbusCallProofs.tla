-------------------------- MODULE SmbusCallProofs ---------------------------
(***************************************************************************)
(* What a call does on the wire and returns, for every tree, every set of   *)
(* paths and of calls.                                                      *)
(***************************************************************************)
EXTENDS SmbusCall, DevPathProofs

-----------------------------------------------------------------------------
(* The inductive invariant says, for each step of the call, what has been   *)
(* done before it; nothing is on the wire before the last but one.          *)
BeforeAccess == wire = <<>> /\ failure = "none" /\ block = 0 /\ got = 0

Opened == fd = match /\ match \in Adapter

(* What was put on the wire went to the client's device, and agrees with    *)
(* what is returned.                                                        *)
Outcome ==
  /\ \/ wire = <<>>
     \/ /\ Len(wire) = 1 /\ wire[1] \in Transaction
        /\ wire[1].bus = match /\ wire[1].addr = request.addr
        /\ request.ten => wire[1].ten \/ (~In(RdwrOps) /\ request.addr <= 127)
  /\ ret.ok => wire # <<>> /\ (wire[1].complete <=> AllDone)
  /\ ~ret.ok => wire = <<>> \/ ~wire[1].complete
  /\ ~ret.ok /\ failure # "none" =>
       ret.value = failure \/ (In({"process_call"}) /\ ret.value = "EPERM")

CallInv ==
  /\ PathInv /\ TypeOK
  /\ step # "lookup" => state = "found"
  /\ step \in {"lookup", "check", "open", "functionality", "slave", "access"} => BeforeAccess
  /\ step \in {"lookup", "check", "open"} => fd = NoAdapter
  /\ step \in {"check", "open"} => match \in Adapter
  /\ step \in {"functionality", "slave", "access"} => Opened
  /\ step = "access" /\ ~In(RdwrOps) => slave = request.addr /\ request.addr <= 127
  /\ step \in {"close", "returned"} => Outcome
  /\ FitsBuffers

LEMMA RequestTypes ==
  /\ request \in Requests =>
       /\ request.addr \in Nat /\ request.ten \in BOOLEAN /\ request.length \in Nat
       /\ request.op = "probe" => ~request.ten
  /\ BlockMax \in Nat /\ Replies \subseteq Nat
<1>1. request \in Requests =>
         /\ request \in Request
         /\ request.op = "probe" => ~request.ten
  BY RequestAssumption
<1>2. request \in Request =>
        request.addr \in Nat /\ request.ten \in BOOLEAN /\ request.length \in 0..255
  BY DEF Request
<1>3. \A n \in 0..255 : n \in Nat
  OBVIOUS
<1>4. BlockMax \in Nat /\ Replies \subseteq Nat
  BY <1>3, RequestAssumption
<1> QED
  BY <1>1, <1>2, <1>3, <1>4

LEMMA CallInvInit == ASSUME Init PROVE CallInv
<1>1. PathInv /\ PathTypeOK
  BY PathInvInit DEF Init, PathInv
<1>2. request.length \in Nat /\ BlockMax \in Nat
  BY RequestTypes DEF Init
<1>3. wire = <<>> /\ wire \in Seq(Transaction) /\ ret \in Results
  BY DEF Init, Success, Results
<1>4. TypeOK
  BY <1>1, <1>3 DEF Init, TypeOK
<1>5. FitsBuffers
  BY <1>2 DEF Init, FitsBuffers
<1> QED
  BY <1>1, <1>3, <1>4, <1>5 DEF Init, CallInv, BeforeAccess

(* While the path is looked up nothing else changes. *)
LEMMA LookupKeepsCallInv ==
  ASSUME CallInv, LookupStep, UNCHANGED callVars
  PROVE  CallInv'
<1>1. PathInv' /\ PathTypeOK'
  BY LookupKeepsPathInv DEF CallInv, PathInv
<1>2. step = "lookup"
  BY DEF CallInv, LookupStep, NextToken, EndPath, WalkFirst, WalkChild
<1> QED
  BY <1>1, <1>2 DEF CallInv, callVars, ioVars, TypeOK, BeforeAccess, FitsBuffers, In

(* The steps before the transaction. *)
LEMMA OpeningKeepsCallInv ==
  ASSUME CallInv, LookedUp \/ CheckAddr \/ Open \/ Functionality \/ SetSlave
  PROVE  CallInv'
<1>1. PathInv' /\ PathTypeOK' /\ UNCHANGED <<pathVars, request, wire, block, got>>
  BY PathInvStable
  DEF CallInv, PathInv, LookedUp, CheckAddr, Open, Functionality, SetSlave, ioVars
<1>2. request.addr \in Nat /\ match \in Adapter \cup {NoAdapter} /\ NoAdapter \notin Adapter
  BY RequestTypes, TreeAssumption DEF CallInv, TypeOK, PathTypeOK
<1>3. wire = <<>> /\ failure = "none" /\ FitsBuffers'
  BY <1>1 DEF CallInv, BeforeAccess, FitsBuffers, In, LookedUp, CheckAddr, Open, Functionality, SetSlave
<1>4. state = "found" /\ state' = "found" /\ match' = match
  BY <1>1 DEF CallInv, LookedUp, CheckAddr, Open, Functionality, SetSlave, pathVars
(* The call goes on. *)
<1>5. ASSUME NEW next \in {"check", "open", "functionality", "slave", "access"}, Proceeds(next),
             failure' = failure, fd' \in Adapter \cup {NoAdapter}, slave' \in Nat \cup {NoDevice},
             match \in Adapter,
             fd' = IF next \in {"check", "open"} THEN NoAdapter ELSE match,
             next = "access" /\ ~In(RdwrOps) => slave' = request.addr /\ request.addr <= 127
      PROVE  CallInv'
  <2>1. TypeOK'
    BY <1>1, <1>3, <1>5 DEF CallInv, TypeOK, Proceeds
  <2>2. BeforeAccess'
    BY <1>1, <1>3, <1>5 DEF CallInv, BeforeAccess, LookedUp, CheckAddr, Open, Functionality, SetSlave
  <2> QED
    BY <1>1, <1>3, <1>4, <1>5, <2>1, <2>2 DEF CallInv, Opened, Proceeds, In
(* The call ends with an error. *)
<1>6. ASSUME NEW errno \in Errno, Returns(Error(errno)) \/ Closes(Error(errno)),
             fd' \in Adapter \cup {NoAdapter}, slave' \in Nat \cup {NoDevice},
             failure' \in {"none", errno},
             step' = "returned" => fd' = NoAdapter
      PROVE  CallInv'
  <2>1. ret' = Error(errno) /\ ret' \in Results /\ ~ret'.ok /\ ret'.value = errno
    <3>1. ret' = [ok |-> FALSE, value |-> errno]
      BY <1>6 DEF Returns, Closes, Error
    <3> QED
      BY <3>1 DEF Error, Results
  <2>2. TypeOK'
    BY <1>1, <1>3, <1>6, <2>1 DEF CallInv, TypeOK, Returns, Closes, Errno
  <2>3. Outcome'
    BY <1>1, <1>3, <1>6, <2>1 DEF Outcome, In
  <2> QED
    BY <1>1, <1>3, <1>4, <1>6, <2>2, <2>3 DEF CallInv, Returns, Closes
<1>7. fd \in Adapter \cup {NoAdapter} /\ slave \in Nat \cup {NoDevice}
  BY DEF CallInv, TypeOK
<1>8. CASE LookedUp
  <2>1. fd' = fd /\ slave' = slave /\ failure' = failure /\ fd = NoAdapter
    BY <1>8 DEF LookedUp, ioVars, CallInv
  <2>2. CASE match = NoAdapter /\ Returns(Error("ENODEV"))
    BY <1>3, <1>6, <1>7, <2>1, <2>2 DEF Errno
  <2>3. CASE match # NoAdapter /\ Proceeds("check")
    BY <1>2, <1>3, <1>5, <1>7, <2>1, <2>3
  <2>4. CASE match # NoAdapter /\ Proceeds("open")
    BY <1>2, <1>3, <1>5, <1>7, <2>1, <2>4
  <2> QED
    BY <1>8, <2>2, <2>3, <2>4 DEF LookedUp
<1>9. CASE CheckAddr
  <2>1. fd' = fd /\ slave' = slave /\ failure' = failure /\ fd = NoAdapter /\ match \in Adapter
    BY <1>9 DEF CheckAddr, ioVars, CallInv
  <2>2. CASE Proceeds("open")
    BY <1>5, <1>7, <2>1, <2>2
  <2>3. CASE Returns(Error("EINVAL"))
    BY <1>3, <1>6, <1>7, <2>1, <2>3 DEF Errno
  <2> QED
    BY <1>9, <2>2, <2>3 DEF CheckAddr
<1>10. CASE Open
  <2>1. slave' = slave /\ fd = NoAdapter /\ match \in Adapter
    BY <1>10 DEF Open, CallInv
  <2>2. CASE Returns(Error("ECHRNG")) /\ fd' = fd /\ failure' = failure
    BY <1>3, <1>6, <1>7, <2>1, <2>2 DEF Errno
  <2>3. CASE Returns(Error("EACCES")) /\ fd' = fd /\ failure' = "EACCES"
    BY <1>6, <1>7, <2>1, <2>3 DEF Errno
  <2>4. CASE Proceeds("functionality") /\ fd' = match /\ failure' = failure
    BY <1>5, <1>7, <2>1, <2>4
  <2>5. CASE In(RdwrOps) /\ Proceeds("access") /\ fd' = match /\ failure' = failure
    BY <1>5, <1>7, <2>1, <2>5
  <2>6. CASE Proceeds("slave") /\ fd' = match /\ failure' = failure
    BY <1>5, <1>7, <2>1, <2>6
  <2> QED
    BY <1>10, <2>2, <2>3, <2>4, <2>5, <2>6 DEF Open
<1>11. CASE Functionality
  <2>1. slave' = slave /\ fd' = fd /\ fd = match /\ match \in Adapter
    BY <1>11 DEF Functionality, CallInv, Opened
  <2>2. CASE Proceeds("slave") /\ failure' = failure
    BY <1>5, <1>7, <2>1, <2>2
  <2>3. CASE Closes(Error("EIO")) /\ failure' = "EIO"
    BY <1>6, <1>7, <2>1, <2>3 DEF Errno, Closes
  <2> QED
    BY <1>11, <2>2, <2>3 DEF Functionality
<1>12. CASE SetSlave
  <2>1. fd' = fd /\ fd = match /\ match \in Adapter
    BY <1>12 DEF SetSlave, CallInv, Opened
  <2>2. CASE request.addr <= 127 /\ Proceeds("access") /\ slave' = request.addr /\ failure' = failure
    BY <1>2, <1>5, <1>7, <2>1, <2>2
  <2>3. CASE Closes(Error("EINVAL")) /\ failure' = "EINVAL" /\ slave' = slave
    BY <1>6, <1>7, <2>1, <2>3 DEF Errno, Closes
  <2> QED
    BY <1>12, <2>2, <2>3 DEF SetSlave
<1> QED
  BY <1>8, <1>9, <1>10, <1>11, <1>12

(* Any transaction with the device, and any result that agrees with it.     *)
LEMMA TransactionKeepsCallInv ==
  ASSUME CallInv, step = "access",
         NEW addr, NEW ten \in BOOLEAN, NEW kind \in {"quick", "read", "other"}, NEW complete \in BOOLEAN,
         Sends(addr, ten, kind, complete),
         addr = request.addr,
         request.ten => ten \/ (~In(RdwrOps) /\ request.addr <= 127),
         NEW result \in Results, Closes(result),
         result.ok => (complete <=> (In(RdwrOps) => result.value = Messages)) /\ failure' = failure,
         ~result.ok => ~complete /\ failure' = "EIO",
         result.ok \/ result.value = "EIO" \/ (In({"process_call"}) /\ result.value = "EPERM"),
         UNCHANGED <<pathVars, request, fd, slave>>,
         block' \in Nat, got' \in Nat, FitsBuffers'
  PROVE  CallInv'
<1> DEFINE tx == [bus |-> fd, addr |-> addr, ten |-> ten, kind |-> kind, complete |-> complete]
<1>1. PathInv' /\ PathTypeOK'
  BY PathInvStable DEF CallInv, PathInv
<1>2. request.addr \in Nat
  BY RequestTypes DEF CallInv, TypeOK
<1>3. tx \in Transaction
  BY <1>2 DEF CallInv, Opened, Transaction
<1>4. wire' = <<tx>> /\ failure' = IF result.ok THEN "none" ELSE "EIO"
  BY DEF CallInv, BeforeAccess, Sends
<1>5. wire' \in Seq(Transaction) /\ Len(wire') = 1 /\ wire'[1] = tx /\ wire' # <<>>
  BY <1>3, <1>4
<1>6. step' = "close" /\ ret' = result /\ failure' \in {"none", "EIO"}
  BY <1>4 DEF Closes
<1>7. Outcome'
  <2>1. ret'.ok => (wire'[1].complete <=> AllDone')
    BY <1>5, <1>6 DEF AllDone, Messages, In
  <2>2. ~ret'.ok => ~wire'[1].complete
    BY <1>5, <1>6
  <2>3. /\ wire'[1].bus = match' /\ wire'[1].addr = request'.addr
        /\ request'.ten => wire'[1].ten \/ (~In(RdwrOps)' /\ request'.addr <= 127)
    BY <1>5 DEF CallInv, Opened, In, pathVars
  <2>4. ~ret'.ok /\ failure' # "none" =>
          ret'.value = failure' \/ (In({"process_call"})' /\ ret'.value = "EPERM")
    BY <1>4, <1>6 DEF In
  <2> QED
    BY <1>3, <1>5, <2>1, <2>2, <2>3, <2>4 DEF Outcome
<1>8. TypeOK'
  BY <1>1, <1>5, <1>6 DEF CallInv, TypeOK, Errno
<1> QED
  BY <1>1, <1>6, <1>7, <1>8 DEF CallInv, pathVars

LEMMA ResultTypes ==
  /\ \A errno \in Errno :
       /\ Error(errno) \in Results /\ Error(errno).ok = FALSE /\ Error(errno).value = errno
  /\ \A n \in Nat : Success(n) \in Results /\ Success(n).ok = TRUE /\ Success(n).value = n
BY DEF Error, Success, Results

(* One that fails. *)
LEMMA FailureKeepsCallInv ==
  ASSUME CallInv, step = "access",
         NEW ten \in BOOLEAN, NEW kind \in {"quick", "read", "other"},
         Transacts(request.addr, ten, kind, FALSE),
         request.ten => ten \/ (~In(RdwrOps) /\ request.addr <= 127),
         NEW errno \in {"EIO", "EPERM"}, Closes(Error(errno)), errno = "EPERM" => In({"process_call"}),
         UNCHANGED <<pathVars, request, fd, slave>>,
         block' \in Nat, got' \in Nat, FitsBuffers'
  PROVE  CallInv'
<1>1. Error(errno) \in Results /\ ~Error(errno).ok /\ Error(errno).value = errno
  BY ResultTypes DEF Errno
<1>2. Sends(request.addr, ten, kind, FALSE) /\ failure' = "EIO"
  BY DEF Transacts
<1>3. FALSE \in BOOLEAN
  OBVIOUS
<1> DEFINE result == Error(errno)
<1>4. result \in Results /\ Closes(result) /\ ~result.ok
      /\ (result.value = "EIO" \/ (In({"process_call"}) /\ result.value = "EPERM"))
  BY <1>1
<1> HIDE DEF result
<1> QED
  BY <1>2, <1>3, <1>4, TransactionKeepsCallInv

(* One that reports success: made completely, or a transfer that did n of   *)
(* its messages.                                                            *)
LEMMA SuccessKeepsCallInv ==
  ASSUME CallInv, step = "access",
         NEW ten \in BOOLEAN, NEW kind \in {"quick", "read", "other"}, NEW complete \in BOOLEAN,
         Sends(request.addr, ten, kind, complete), failure' = failure,
         request.ten => ten \/ (~In(RdwrOps) /\ request.addr <= 127),
         NEW n \in Nat, Closes(Success(n)), complete <=> (In(RdwrOps) => n = Messages),
         UNCHANGED <<pathVars, request, fd, slave>>,
         block' \in Nat, got' \in Nat, FitsBuffers'
  PROVE  CallInv'
<1> DEFINE result == Success(n)
<1>1. result \in Results /\ Closes(result) /\ result.ok /\ result.value = n
  BY ResultTypes
<1>2. complete <=> (In(RdwrOps) => result.value = Messages)
  BY <1>1
<1> HIDE DEF result
<1> QED
  BY <1>1, <1>2, TransactionKeepsCallInv

LEMMA AccessKeepsCallInv ==
  ASSUME CallInv, Access
  PROVE  CallInv'
<1>1. /\ step = "access" /\ UNCHANGED <<pathVars, request, fd, slave>>
      /\ request.addr \in Nat /\ request.ten \in BOOLEAN /\ request.length \in Nat
      /\ BlockMax \in Nat /\ Replies \subseteq Nat
      /\ block = 0 /\ got = 0
  BY RequestTypes
  DEF CallInv, TypeOK, BeforeAccess, Access, AccessSimple, ProcessCall, ReadBlock, WriteBlock,
      ReadI2cBlock, BlockProcessCall, Transfer, Probe, Untouched
<1>2. /\ Clamp(request.length) \in Nat /\ Clamp(request.length) <= BlockMax
      /\ Clamp(request.length) <= request.length
  BY <1>1 DEF Clamp
(* What the SMBus calls have in common. *)
<1>3. ASSUME NEW kind, NEW complete, Smbus(kind, complete), ~In(RdwrOps)
      PROVE  Transacts(request.addr, FALSE, kind, complete) /\ request.addr <= 127
  <2>1. slave = request.addr /\ request.addr <= 127 /\ slave # NoDevice
    BY <1>1, <1>3, RequestAssumption DEF CallInv
  <2> QED
    BY <1>3, <2>1 DEF Smbus
<1>4. ASSUME ~In(RdwrOps), NEW kind \in {"quick", "read", "other"}, Smbus(kind, FALSE),
             NEW errno \in {"EIO", "EPERM"}, Closes(Error(errno)), errno = "EPERM" => In({"process_call"}),
             block' \in Nat, got' \in Nat, FitsBuffers'
      PROVE  CallInv'
  BY <1>1, <1>3, <1>4, FailureKeepsCallInv
<1>5. ASSUME ~In(RdwrOps), NEW kind \in {"quick", "read", "other"}, Smbus(kind, TRUE),
             NEW n \in Nat, Closes(Success(n)), block' \in Nat, got' \in Nat, FitsBuffers'
      PROVE  CallInv'
  <2>1. Sends(request.addr, FALSE, kind, TRUE) /\ failure' = failure /\ request.addr <= 127
    BY <1>3, <1>5 DEF Transacts
  <2>2. TRUE \in BOOLEAN /\ FALSE \in BOOLEAN /\ (TRUE <=> (In(RdwrOps) => n = Messages))
    BY <1>5
  <2> QED
    BY <1>1, <1>5, <2>1, <2>2, SuccessKeepsCallInv
<1>6. In(SimpleOps) \/ In({"process_call"}) \/ In({"read_block_data"}) \/ In(WriteBlockOps)
        \/ In({"read_i2c_block_data"}) \/ In({"block_process_call"}) \/ In({"probe"}) => ~In(RdwrOps)
  BY DEF In, SimpleOps, WriteBlockOps, RdwrOps
(* The lengths that fit: none, the clamped one and no more than was given.  *)
<1>7. ASSUME block' \in {0, Clamp(request.length)}, got' \in Nat, got' <= request.length
      PROVE  block' \in Nat /\ FitsBuffers'
  BY <1>1, <1>2, <1>7 DEF FitsBuffers, In
<1>8. ASSUME ~In(RdwrOps), block' = 0, got' = 0, NEW kind \in {"quick", "read", "other"},
             \/ Smbus(kind, FALSE) /\ Closes(Error("EIO"))
             \/ Smbus(kind, TRUE) /\ Closes(Success(0))
      PROVE  CallInv'
  <2>1. block' \in Nat /\ got' \in Nat /\ 0 \in Nat /\ FitsBuffers'
    BY <1>1, <1>7, <1>8
  <2>2. "EIO" \in {"EIO", "EPERM"} /\ ("EIO" = "EPERM" => In({"process_call"}))
    OBVIOUS
  <2>3. CASE Smbus(kind, FALSE) /\ Closes(Error("EIO"))
    BY <1>4, <1>8, <2>1, <2>2, <2>3
  <2>4. CASE Smbus(kind, TRUE) /\ Closes(Success(0))
    BY <1>5, <1>8, <2>1, <2>4
  <2> QED
    BY <1>8, <2>3, <2>4
<1>9. CASE ProcessCall
  <2>1. ~In(RdwrOps) /\ block' = 0 /\ got' = 0 /\ In({"process_call"})
    BY <1>1, <1>6, <1>9 DEF ProcessCall
  <2>2. block' \in Nat /\ got' \in Nat /\ 0 \in Nat /\ FitsBuffers'
    BY <1>1, <1>7, <2>1
  <2>3. CASE Smbus("other", FALSE) /\ Closes(Error("EPERM"))
    BY <1>4, <2>1, <2>2, <2>3
  <2>4. CASE Smbus("other", TRUE) /\ Closes(Success(0))
    BY <1>5, <2>1, <2>2, <2>4
  <2> QED
    BY <1>9, <2>3, <2>4 DEF ProcessCall
<1>10. CASE ReadBlock
  <2>1. ~In(RdwrOps) /\ In({"read_block_data"})
    BY <1>6, <1>10 DEF ReadBlock
  <2>2. CASE Smbus("other", FALSE) /\ Closes(Error("EIO")) /\ UNCHANGED <<block, got>>
    BY <1>1, <1>8, <2>1, <2>2
  <2>3. ASSUME NEW n \in Replies, Smbus("other", TRUE), Closes(Success(n)), block' = n, got' = n
        PROVE  CallInv'
    <3>1. n \in Nat /\ block' \in Nat /\ got' \in Nat
      BY <1>1, <2>3
    <3>2. FitsBuffers'
      BY <1>1, <2>1 DEF FitsBuffers, In
    <3> QED
      BY <1>5, <2>1, <2>3, <3>1, <3>2
  <2> QED
    BY <1>10, <2>2, <2>3 DEF ReadBlock
<1>11. CASE WriteBlock
  <2>1. ~In(RdwrOps) /\ block' = Clamp(request.length) /\ got' = 0
    BY <1>1, <1>6, <1>11 DEF WriteBlock
  <2>2. block' \in Nat /\ got' \in Nat /\ 0 \in Nat /\ FitsBuffers'
    BY <1>1, <1>7, <2>1
  <2>3. CASE Smbus("other", FALSE) /\ Closes(Error("EIO"))
    BY <1>4, <2>1, <2>2, <2>3
  <2>4. CASE Smbus("other", TRUE) /\ Closes(Success(0))
    BY <1>5, <2>1, <2>2, <2>4
  <2> QED
    BY <1>11, <2>3, <2>4 DEF WriteBlock
<1>12. CASE ReadI2cBlock
  <2>1. ~In(RdwrOps) /\ block' = Clamp(request.length)
    BY <1>6, <1>12 DEF ReadI2cBlock
  <2>2. CASE Smbus("other", FALSE) /\ Closes(Error("EIO")) /\ UNCHANGED got
    <3>1. block' \in Nat /\ got' \in Nat /\ FitsBuffers'
      BY <1>1, <1>7, <2>1, <2>2
    <3> QED
      BY <1>4, <2>1, <2>2, <3>1
  <2>3. CASE /\ Smbus("other", TRUE) /\ Closes(Success(Clamp(request.length)))
             /\ got' = Clamp(request.length)
    <3>1. block' \in Nat /\ got' \in Nat /\ FitsBuffers'
      BY <1>2, <1>7, <2>1, <2>3
    <3> QED
      BY <1>2, <1>5, <2>1, <2>3, <3>1
  <2> QED
    BY <1>12, <2>2, <2>3 DEF ReadI2cBlock
<1>13. CASE BlockProcessCall
  <2>1. ~In(RdwrOps) /\ block' = Clamp(request.length) /\ In({"block_process_call"})
    BY <1>6, <1>13 DEF BlockProcessCall
  <2>2. CASE Smbus("other", FALSE) /\ Closes(Error("EIO")) /\ UNCHANGED got
    <3>1. block' \in Nat /\ got' \in Nat /\ FitsBuffers'
      BY <1>1, <1>7, <2>1, <2>2
    <3> QED
      BY <1>4, <2>1, <2>2, <3>1
  <2>3. ASSUME NEW n \in Replies, Smbus("other", TRUE), Closes(Success(n)), got' = n
        PROVE  CallInv'
    <3>1. n \in Nat /\ block' \in Nat /\ got' \in Nat
      BY <1>1, <1>2, <2>1, <2>3
    <3>2. FitsBuffers'
      BY <1>1, <1>2, <2>1 DEF FitsBuffers, In
    <3> QED
      BY <1>5, <2>1, <2>3, <3>1, <3>2
  <2> QED
    BY <1>13, <2>2, <2>3 DEF BlockProcessCall
<1>14. CASE Transfer
  <2>1. In(RdwrOps) /\ block' = 0
    BY <1>1, <1>14 DEF Transfer
  <2> DEFINE ten == request.ten
  <2>2. ten \in BOOLEAN /\ (request.ten => ten \/ (~In(RdwrOps) /\ request.addr <= 127))
    BY <1>1
  <2>3. \/ Transacts(request.addr, ten, "other", FALSE) /\ Closes(Error("EIO")) /\ got' = 0
        \/ \E n \in 0..Messages :
             /\ Sends(request.addr, ten, "other", n = Messages) /\ Closes(Success(n))
             /\ got' \in {0, request.length} /\ failure' = failure
    BY <1>1, <1>14 DEF Transfer
  <2> HIDE DEF ten
  <2>4. "EIO" \in {"EIO", "EPERM"} /\ ("EIO" = "EPERM" => In({"process_call"}))
        /\ "other" \in {"quick", "read", "other"}
    OBVIOUS
  <2>5. ASSUME got' \in {0, request.length}
        PROVE  block' \in Nat /\ got' \in Nat /\ FitsBuffers'
    BY <1>1, <1>7, <2>1, <2>5
  <2>6. CASE Transacts(request.addr, ten, "other", FALSE) /\ Closes(Error("EIO")) /\ got' = 0
    BY <1>1, <2>2, <2>4, <2>5, <2>6, FailureKeepsCallInv
  <2>7. ASSUME NEW n \in 0..Messages, Sends(request.addr, ten, "other", n = Messages), Closes(Success(n)),
               got' \in {0, request.length}, failure' = failure
        PROVE  CallInv'
    <3> DEFINE complete == (n = Messages)
    <3>1. n \in Nat
      BY DEF Messages
    <3>2. /\ Sends(request.addr, ten, "other", complete) /\ complete \in BOOLEAN
          /\ complete <=> (In(RdwrOps) => n = Messages)
      BY <2>1, <2>7
    <3> HIDE DEF complete
    <3> QED
      BY <1>1, <2>2, <2>4, <2>5, <2>7, <3>1, <3>2, SuccessKeepsCallInv
  <2> QED
    BY <2>3, <2>6, <2>7
<1>15. CASE AccessSimple
  <2>1. ~In(RdwrOps) /\ block' = 0 /\ got' = 0
    BY <1>1, <1>6, <1>15 DEF AccessSimple
  <2> QED
    BY <1>8, <1>15, <2>1 DEF AccessSimple
<1>16. CASE Probe
  <2>1. ~In(RdwrOps) /\ block' = 0 /\ got' = 0
    BY <1>1, <1>6, <1>16 DEF Probe
  <2> DEFINE kind == IF ProbeReads(request.length, request.addr) THEN "read" ELSE "quick"
  <2>2. kind \in {"quick", "read", "other"}
    OBVIOUS
  <2>3. \/ Smbus(kind, FALSE) /\ Closes(Error("EIO"))
        \/ Smbus(kind, TRUE) /\ Closes(Success(0))
    BY <1>16 DEF Probe
  <2> HIDE DEF kind
  <2> QED
    BY <1>8, <2>1, <2>2, <2>3
<1> QED
  BY <1>9, <1>10, <1>11, <1>12, <1>13, <1>14, <1>15, <1>16 DEF Access

LEMMA CloseKeepsCallInv ==
  ASSUME CallInv, Close
  PROVE  CallInv'
<1>1. PathInv' /\ PathTypeOK'
  BY PathInvStable DEF CallInv, PathInv, Close
<1> QED
  BY <1>1 DEF CallInv, Close, TypeOK, Outcome, AllDone, Messages, FitsBuffers, In, pathVars

LEMMA CallInvStable ==
  ASSUME CallInv, UNCHANGED vars
  PROVE  CallInv'
<1>1. PathInv' /\ PathTypeOK'
  BY PathInvStable DEF CallInv, PathInv, vars
<1> QED
  BY <1>1
  DEF CallInv, vars, callVars, ioVars, pathVars, TypeOK, BeforeAccess, Opened, Outcome, AllDone, Messages,
      FitsBuffers, In

(* The inductive invariant holds at every step of every call: what each     *)
(* step of a dev_i2c_smbus_* call relies on was made sure by those before.  *)
THEOREM CallInvariant == Spec => []CallInv
<1>1. CallInv /\ [Next]_vars => CallInv'
  BY LookupKeepsCallInv, OpeningKeepsCallInv, AccessKeepsCallInv, CloseKeepsCallInv, CallInvStable
  DEF Next, CallStep
<1> QED
  BY CallInvInit, <1>1, PTL DEF Spec

-----------------------------------------------------------------------------
(* The theorems *)

(* smbus-dev.c: what a call keeps is of its type, and a call that returned  *)
(* has closed its descriptor.                                               *)
THEOREM CallTypes == Spec => []TypeOK
<1>1. CallInv => TypeOK
  BY DEF CallInv
<1> QED
  BY CallInvariant, <1>1, PTL

(* i2c-dev-path.c:138: however long a path and however small the array, only*)
(* a path with more tokens than entries is stored past the array's end.     *)
THEOREM PathHasRoom == Spec => []RoomForPath
<1>1. CallInv => RoomForPath
  BY DEF CallInv, PathInv
<1> QED
  BY CallInvariant, <1>1, PTL

(* i2c-bus-parser.c:431: in every tree a well-formed path leads to the one  *)
(* adapter it denotes, or to none when it denotes none.                     *)
THEOREM LookupIsRight == Spec => []FoundIsDenoted
<1>1. CallInv => FoundIsDenoted
  BY DEF CallInv, PathInv
<1> QED
  BY CallInvariant, <1>1, PTL

(* smbus-dev.c: whatever fails, every transaction of a call is with the     *)
(* client's device.                                                         *)
THEOREM DeviceIsRight == Spec => []TouchesItsDevice
<1>1. ASSUME CallInv, wire # <<>>, WellFormed(path), NEW k \in DOMAIN wire
      PROVE  /\ Denotes(path, Len(path), wire[k].bus)
             /\ wire[k].addr = request.addr
             /\ request.ten => wire[k].ten \/ (~In(RdwrOps) /\ request.addr <= 127)
  <2>1. step \in {"close", "returned"}
    BY <1>1 DEF CallInv, TypeOK, BeforeAccess
  <2>2. Outcome /\ state = "found" /\ FoundIsDenoted
    BY <1>1, <2>1 DEF CallInv, PathInv
  <2>3. Len(wire) = 1 /\ k = 1
    BY <1>1, <2>2 DEF Outcome, CallInv, TypeOK
  <2>4. wire[1].bus = match /\ match \in Adapter /\ match # NoAdapter
    BY <1>1, <2>2, TreeAssumption DEF Outcome, Transaction
  <2> QED
    BY <1>1, <2>2, <2>3, <2>4 DEF Outcome, FoundIsDenoted
<1>2. CallInv => TouchesItsDevice
  BY <1>1 DEF TouchesItsDevice
<1> QED
  BY CallInvariant, <1>2, PTL

(* smbus-dev.c: a call that returns success has made its transaction, all   *)
(* of it unless the result counts fewer messages than there were, and one   *)
(* that returns an error has completed none.                                *)
THEOREM SuccessIsReal == Spec => []SuccessMeansDone
<1>1. ASSUME CallInv, step = "returned"
      PROVE  IF ret.ok THEN Len(wire) = 1 /\ (wire[1].complete <=> AllDone)
             ELSE \A k \in DOMAIN wire : ~wire[k].complete
  <2>1. Outcome /\ wire \in Seq(Transaction)
    BY <1>1 DEF CallInv, TypeOK
  <2>2. wire = <<>> => DOMAIN wire = {}
    OBVIOUS
  <2>3. Len(wire) = 1 => DOMAIN wire = {1}
    BY <2>1
  <2> QED
    BY <2>1, <2>2, <2>3 DEF Outcome
<1>2. CallInv => SuccessMeansDone
  BY <1>1 DEF SuccessMeansDone
<1> QED
  BY CallInvariant, <1>2, PTL

(* smbus.c: no length given by the caller makes a call write past the block *)
(* on its stack or use more of the caller's buffer than it has, whatever    *)
(* the size of a block is; the lengths that devices give are not in it.     *)
THEOREM BuffersHold == Spec => []FitsBuffers
<1>1. CallInv => FitsBuffers
  BY DEF CallInv
<1> QED
  BY CallInvariant, <1>1, PTL

(* smbus-dev.c: the errno returned is that of the step that failed.         *)
THEOREM ErrnoIsRight == Spec => []ErrnoIsTheCause
<1>1. CallInv => ErrnoIsTheCause
  BY DEF CallInv, Outcome, ErrnoIsTheCause
<1> QED
  BY CallInvariant, <1>1, PTL
=============================================================================
