------------------------------ MODULE SmbusCall ------------------------------
(***************************************************************************)
(* One call on a device (smbus-dev.c, smbus.c): the path of the client is  *)
(* looked up as in DevPath, the adapter's node opened, the slave address   *)
(* set, the transaction made through an ioctl, the node closed.  Blocks go *)
(* through a buffer on the stack with room for BlockMax bytes.             *)
(*                                                                         *)
(* What opening does about changed buses is AdapterCache's subject; here   *)
(* the buses stay as the tree has them.                                    *)
(***************************************************************************)
EXTENDS DevPath

CONSTANTS
  Requests,      (* the calls considered                                     *)
  BlockMax,      (* I2C_SMBUS_BLOCK_MAX, the most a block can have           *)
  Replies,       (* lengths of the blocks devices answer with, a byte; that  *)
                 (* the kernel lets no more than BlockMax pass is not used   *)
  NoDevice

(* The functions of libi2cdev.h, by what they have in common: those without *)
(* a block; those that bring back a byte or a word; and so on.              *)
SimpleOps == {"write_quick", "write_byte", "write_byte_data", "write_word_data",
              "read_byte", "read_byte_data", "read_word_data"}
WriteBlockOps == {"write_block_data", "write_i2c_block_data"}
RdwrOps == {"transfer_data", "write_data", "read_data"}
Ops == SimpleOps \cup WriteBlockOps \cup RdwrOps
         \cup {"process_call", "read_block_data", "read_i2c_block_data", "block_process_call", "probe"}

(* length is what the caller's buffer has to give or to take; for a probe   *)
(* it is the mode.                                                          *)
Request == [op : Ops, addr : Nat, ten : BOOLEAN, length : 0..255]

(* i2c_check_client_addr_validity *)
ValidAddr(request) ==
  IF request.ten THEN request.addr <= 1023 ELSE request.addr # 0 /\ request.addr <= 127

(* A client is checked when it is made; a probe has no flags. *)
ASSUME RequestAssumption ==
  /\ Requests \subseteq Request
  /\ \A request \in Requests :
       IF request.op = "probe" THEN ~request.ten /\ request.addr <= 255 ELSE ValidAddr(request)
  /\ BlockMax \in Nat /\ Replies \subseteq 0..255
  /\ NoDevice \notin Nat

VARIABLES
  request,     (* the call                                                  *)
  step,        (* the next step of it                                       *)
  fd,          (* the adapter its descriptor is for                         *)
  slave,       (* kernel: the address set for the open file                 *)
  wire,        (* kernel: the transactions made, in order                   *)
  failure,     (* kernel: the errno of the step that failed                 *)
  block,       (* bytes put into the block on the stack                     *)
  got,         (* bytes stored in the caller's buffer                       *)
  ret          (* what the call returns                                     *)

ioVars == <<fd, slave, wire, failure, block, got>>
callVars == <<request, step, ret, ioVars>>
vars == <<pathVars, callVars>>

Errno == {"ENODEV", "EINVAL", "ECHRNG", "EACCES", "EIO", "EPERM"}
Results == [ok : {TRUE}, value : Nat] \cup [ok : {FALSE}, value : Errno]
Error(errno) == [ok |-> FALSE, value |-> errno]
Success(value) == [ok |-> TRUE, value |-> value]

Transaction == [bus : Adapter, addr : Nat, ten : BOOLEAN, complete : BOOLEAN,
                kind : {"quick", "read", "other"}]

(* The variables keep their types, and a call that returned has closed its  *)
(* descriptor.                                                              *)
TypeOK ==
  /\ PathTypeOK
  /\ request \in Requests
  /\ step \in {"lookup", "check", "open", "functionality", "slave", "access", "close", "returned"}
  /\ fd \in Adapter \cup {NoAdapter} /\ slave \in Nat \cup {NoDevice}
  /\ wire \in Seq(Transaction)
  /\ failure \in Errno \cup {"none"}
  /\ block \in Nat /\ got \in Nat
  /\ ret \in Results
  /\ (step = "returned" => fd = NoAdapter)

Init ==
  /\ PathInit
  /\ request \in Requests
  /\ step = "lookup"
  /\ fd = NoAdapter /\ slave = NoDevice /\ wire = <<>> /\ failure = "none"
  /\ block = 0 /\ got = 0
  /\ ret = Success(0)

-----------------------------------------------------------------------------
In(ops) == request.op \in ops

Returns(result) == step' = "returned" /\ ret' = result
Proceeds(next) == step' = next /\ UNCHANGED ret

(* Opened descriptors are closed on the way out. *)
Closes(result) == step' = "close" /\ ret' = result

(* dev_i2c_open, or the probe itself, looks the path up. *)
LookedUp ==
  /\ step = "lookup" /\ state = "found"
  /\ \/ match = NoAdapter /\ Returns(Error("ENODEV"))
     \/ match # NoAdapter /\ Proceeds(IF In({"probe"}) THEN "check" ELSE "open")
  /\ UNCHANGED <<pathVars, request, ioVars>>

CheckAddr ==
  /\ step = "check"
  /\ IF ValidAddr(request) THEN Proceeds("open") ELSE Returns(Error("EINVAL"))
  /\ UNCHANGED <<pathVars, request, ioVars>>

(* dev_i2c_open_i2c_dev: only nodes up to 255 are opened. *)
Open ==
  /\ step = "open"
  /\ \/ /\ Nr[match] > 255
        /\ Returns(Error("ECHRNG"))
        /\ UNCHANGED <<fd, failure>>
     \/ /\ Nr[match] <= 255
        /\ Returns(Error("EACCES")) /\ failure' = "EACCES"
        /\ UNCHANGED fd
     \/ /\ Nr[match] <= 255
        /\ Proceeds(IF In({"probe"}) THEN "functionality" ELSE IF In(RdwrOps) THEN "access" ELSE "slave")
        /\ fd' = match
        /\ UNCHANGED failure
  /\ UNCHANGED <<pathVars, request, slave, wire, block, got>>

(* Mutant of Functionality: its failure leaves without closing. *)
FunctionalityLeaks ==
  /\ step = "functionality"
  /\ \/ Proceeds("slave") /\ UNCHANGED failure
     \/ Returns(Error("EIO")) /\ failure' = "EIO"
  /\ UNCHANGED <<pathVars, request, fd, slave, wire, block, got>>

(* dev_i2c_get_functionality *)
Functionality ==
  /\ step = "functionality"
  /\ \/ Proceeds("slave") /\ UNCHANGED failure
     \/ Closes(Error("EIO")) /\ failure' = "EIO"
  /\ UNCHANGED <<pathVars, request, fd, slave, wire, block, got>>

(* Mutant of SetSlave: its failure is not looked at. *)
SetSlaveUnchecked ==
  /\ step = "slave"
  /\ Proceeds("access")
  /\ slave' = IF request.addr <= 127 THEN request.addr ELSE slave
  /\ UNCHANGED <<pathVars, request, fd, wire, failure, block, got>>

(* dev_i2c_set_slave_addr, with force: the kernel takes addresses of seven  *)
(* bits, unless I2C_TENBIT was set for the file, which the library does not.*)
SetSlave ==
  /\ step = "slave"
  /\ \/ /\ request.addr <= 127
        /\ Proceeds("access")
        /\ slave' = request.addr
        /\ UNCHANGED failure
     \/ /\ request.addr > 127
        /\ Closes(Error("EINVAL")) /\ failure' = "EINVAL"
        /\ UNCHANGED slave
  /\ UNCHANGED <<pathVars, request, fd, wire, block, got>>

(* The kernel makes a transaction, or part of one: when it fails, or does   *)
(* not do all the messages.                                                 *)
Sends(addr, ten, kind, complete) ==
  wire' = Append(wire, [bus |-> fd, addr |-> addr, ten |-> ten, kind |-> kind, complete |-> complete])

Transacts(addr, ten, kind, complete) ==
  /\ Sends(addr, ten, kind, complete)
  /\ failure' = IF complete THEN failure ELSE "EIO"

(* An ioctl of I2C_SMBUS goes to the address of the file, 0 when none is set.*)
Smbus(kind, complete) ==
  Transacts(IF slave = NoDevice THEN 0 ELSE slave, FALSE, kind, complete)

(* Mutant of Clamp: lengths are taken as they are. *)
ClampNone(length) == length

Clamp(length) == IF length > BlockMax THEN BlockMax ELSE length

Untouched == UNCHANGED <<pathVars, request, fd, slave>>

(* Mutant of AccessSimple: the result of the ioctl, -1, is returned as it is.*)
AccessSimpleRaw ==
  /\ step = "access" /\ In(SimpleOps)
  /\ \/ Smbus("other", FALSE) /\ Closes(Error("EPERM"))
     \/ Smbus("other", TRUE) /\ Closes(Success(0))
  /\ UNCHANGED <<block, got>> /\ Untouched

(* The wrappers without a block: a byte or a word comes back in the result, *)
(* masked so that it is never negative.                                     *)
AccessSimple ==
  /\ step = "access" /\ In(SimpleOps)
  /\ \/ Smbus("other", FALSE) /\ Closes(Error("EIO"))
     \/ Smbus("other", TRUE) /\ Closes(Success(0))
  /\ UNCHANGED <<block, got>> /\ Untouched

(* Mutant of ProcessCall: the wrapper's result is not looked at. *)
ProcessCallUnchecked ==
  /\ step = "access" /\ In({"process_call"})
  /\ \E complete \in BOOLEAN : Smbus("other", complete) /\ Closes(Success(0))
  /\ UNCHANGED <<block, got>> /\ Untouched

(* i2c_smbus_process_call returns -1 for every failure, which is -EPERM.    *)
ProcessCall ==
  /\ step = "access" /\ In({"process_call"})
  /\ \/ Smbus("other", FALSE) /\ Closes(Error("EPERM"))
     \/ Smbus("other", TRUE) /\ Closes(Success(0))
  /\ UNCHANGED <<block, got>> /\ Untouched

(* As many bytes as the device says are copied to the caller. *)
ReadBlock ==
  /\ step = "access" /\ In({"read_block_data"})
  /\ \/ Smbus("other", FALSE) /\ Closes(Error("EIO")) /\ UNCHANGED <<block, got>>
     \/ \E n \in Replies :
          Smbus("other", TRUE) /\ Closes(Success(n)) /\ block' = n /\ got' = n
  /\ Untouched

(* The length is cut down to a block's; the rest is not written.            *)
WriteBlock ==
  /\ step = "access" /\ In(WriteBlockOps)
  /\ block' = Clamp(request.length)
  /\ \/ Smbus("other", FALSE) /\ Closes(Error("EIO"))
     \/ Smbus("other", TRUE) /\ Closes(Success(0))
  /\ UNCHANGED got /\ Untouched

(* A kernel since 2.6.23 answers with the length it was asked for. *)
ReadI2cBlock ==
  /\ step = "access" /\ In({"read_i2c_block_data"})
  /\ block' = Clamp(request.length)
  /\ \/ Smbus("other", FALSE) /\ Closes(Error("EIO")) /\ UNCHANGED got
     \/ Smbus("other", TRUE) /\ Closes(Success(Clamp(request.length))) /\ got' = Clamp(request.length)
  /\ Untouched

(* The answer has the length the device gives it, not that of the request.  *)
BlockProcessCall ==
  /\ step = "access" /\ In({"block_process_call"})
  /\ block' = Clamp(request.length)
  /\ \/ Smbus("other", FALSE) /\ Closes(Error("EIO")) /\ UNCHANGED got
     \/ \E n \in Replies : Smbus("other", TRUE) /\ Closes(Success(n)) /\ got' = n
  /\ Untouched

(* i2c_transfer: the messages carry the client's address and flags; the     *)
(* result is the number of messages done, and fewer than were asked for are *)
(* no error.  What is read is in the last of them.                          *)
Messages == IF In({"transfer_data"}) THEN 2 ELSE 1

Transfer ==
  /\ step = "access" /\ In(RdwrOps)
  /\ \/ /\ Transacts(request.addr, request.ten, "other", FALSE)
        /\ Closes(Error("EIO"))
        /\ UNCHANGED got
     \/ \E n \in 0..Messages :
          /\ Sends(request.addr, request.ten, "other", n = Messages)
          /\ Closes(Success(n))
          /\ got' = IF In({"write_data"}) \/ n < Messages THEN got ELSE request.length
          /\ UNCHANGED failure
  /\ UNCHANGED block /\ Untouched

(* dev_i2c_smbus_probe: mode 0 reads where EEPROMs are, 2 always, every     *)
(* other mode writes.                                                       *)
ProbeReads(mode, addr) == mode = 2 \/ (mode = 0 /\ (addr \in 48..55 \/ addr \in 80..95))

Probe ==
  /\ step = "access" /\ In({"probe"})
  /\ LET kind == IF ProbeReads(request.length, request.addr) THEN "read" ELSE "quick" IN
     \/ Smbus(kind, FALSE) /\ Closes(Error("EIO"))
     \/ Smbus(kind, TRUE) /\ Closes(Success(0))
  /\ UNCHANGED <<block, got>> /\ Untouched

(* dev_i2c_close, which does not fail for a client, and the return. *)
Close ==
  /\ step = "close"
  /\ step' = "returned" /\ fd' = NoAdapter /\ slave' = NoDevice
  /\ UNCHANGED <<pathVars, request, ret, wire, failure, block, got>>

-----------------------------------------------------------------------------
Access ==
  \/ AccessSimple \/ ProcessCall \/ ReadBlock \/ WriteBlock \/ ReadI2cBlock
  \/ BlockProcessCall \/ Transfer \/ Probe

CallStep == LookedUp \/ CheckAddr \/ Open \/ Functionality \/ SetSlave \/ Access \/ Close

Next == (LookupStep /\ UNCHANGED callVars) \/ CallStep

Spec == Init /\ [][Next]_vars

(* The calling thread is scheduled. *)
FairSpec == Spec /\ WF_vars(Next)

-----------------------------------------------------------------------------
(* Properties *)

(* Whatever goes wrong on the way, no transaction reaches another device    *)
(* than the client's: it is on the bus its path denotes and at its address. *)
(* Clients with ten address bits are the exception in SMBus calls.          *)
TouchesItsDevice ==
  wire # <<>> /\ WellFormed(path) =>
    \A k \in DOMAIN wire :
      /\ Denotes(path, Len(path), wire[k].bus)
      /\ wire[k].addr = request.addr
      /\ (request.ten => wire[k].ten \/ (~In(RdwrOps) /\ request.addr <= 127))

(* A call that reports success has made one transaction, and has made it    *)
(* completely, unless it made it of messages and returned fewer than there  *)
(* were; one that reports an error has completed none.                      *)
AllDone == In(RdwrOps) => ret.value = Messages

SuccessMeansDone ==
  step = "returned" =>
    IF ret.ok THEN Len(wire) = 1 /\ (wire[1].complete <=> AllDone)
    ELSE \A k \in DOMAIN wire : ~wire[k].complete

(* No length the caller gives makes a call write past the block on the      *)
(* stack, take more from the caller's buffer than it has, or store more     *)
(* there than it has room for.  How much the two calls store whose answer   *)
(* has the device's own length is not the caller's to give: for             *)
(* read_block_data the header asks for a buffer that holds any answer, for  *)
(* block_process_call it does not (AnswerFitsLength).                       *)
FitsBuffers ==
  /\ ~In({"read_block_data"}) => block <= BlockMax /\ block <= request.length
  /\ ~In({"read_block_data", "block_process_call"}) => got <= request.length

(* libi2cdev.h:445: length is the size of the data block of a block process *)
(* call, and values holds it on the way in and on the way out.              *)
AnswerFitsLength == In({"block_process_call"}) => got <= request.length

(* The errno a call returns is that of the step that failed, except for the *)
(* process call, and for what the library finds itself.                     *)
ErrnoIsTheCause ==
  step = "returned" /\ ~ret.ok /\ failure # "none" =>
    ret.value = failure \/ (In({"process_call"}) /\ ret.value = "EPERM")

(* Every call returns, unless its path brings the process down. *)
Returned == <>(step = "returned" \/ state \in {"overrun", "aborted"})
==============================================================================
