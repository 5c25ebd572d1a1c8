--------------------------------- MODULE I2c ---------------------------------
(***************************************************************************)
(* The I2C master, lib/ips/i2c.cpp: write() and read() with their retries, *)
(* under hwLock, and the channel switch behind which the other devices of  *)
(* the bus are.  A thread's call is the sequence of steps it has still to  *)
(* make; a transfer is a step of several actions, cut where the bus acts.  *)
(*                                                                         *)
(* A byte is the set of its bits that are 1.  Those of CHANNEL_MAP have    *)
(* one each, which stands for the line of the bus that it opens.           *)
(***************************************************************************)
EXTENDS Integers, Sequences

CONSTANTS
  Threads, NoThread,
  Tries,        (* every retry counter starts at 10 in the code; a success   *)
                (* of the last try is a failure, so that one is not enough   *)
  CHANNEL_MAP,  (* for each channel, the line in its byte                    *)
  Noise,        (* bytes that a read of the switch may return by mistake     *)
  PowerUp,      (* what the registers of an I/O expander hold at first       *)
  MaxTrouble    (* a bound for model checking: timeouts and bus errors       *)

ASSUME I2cAssumption ==
  /\ NoThread \notin Threads
  /\ \A i, j \in DOMAIN CHANNEL_MAP : CHANNEL_MAP[i] = CHANNEL_MAP[j] => i = j
  /\ CHANNEL_MAP \in Seq({CHANNEL_MAP[i] : i \in DOMAIN CHANNEL_MAP})
  /\ Tries \in Nat /\ Tries > 1
  /\ MaxTrouble \in Nat

SwitchAddr == "switch"     \* I2C_SWTICH_ADDR
IoextAddr == "ioext"       \* I2C_IOEXT_ADDR
Dir == "dir"               \* I2C_IOEXT_REG_DIR
Out == "out"               \* I2C_IOEXT_REG_OUT
Idle == [op |-> "none"]

Channels == 0 .. Len(CHANNEL_MAP) - 1
Lines == {CHANNEL_MAP[i] : i \in DOMAIN CHANNEL_MAP}
LineOf(c) == CHANNEL_MAP[c + 1]

VARIABLES
  prog,        \* per thread, the steps left of its call; <<>> between calls
  data,        \* per thread, the bytes that the call has read
  ret,         \* per thread, how its last call ended
  hwLock, switchLock,
  channel,     \* the channel that the driver believes is selected
  drv,         \* the locals of the running transfer
  served,      \* transmitIntrs or receiveIntrs is not 0
  wire,        \* the transfer on the wire, or Idle
  pend,        \* the interrupts that the controller of the bus holds
  efd,         \* the counter of the eventfd is not 0
  rx,          \* the byte received last
  mux,         \* the control register of the switch
  port,        \* per line, the registers of its I/O expander
  pointer,     \* per line, the register its expander reads next
  trouble      \* timeouts and bus errors so far

drvVars == <<hwLock, drv, served>>
busVars == <<wire, pend, efd, rx>>
devVars == <<mux, port, pointer>>
i2cVars == <<prog, data, ret, switchLock, channel, drvVars, busVars, devVars, trouble>>

Quiet == [phase |-> "none", tries |-> 0, bb |-> 0, left |-> 0, txErr |-> FALSE]

I2cInit ==
  /\ prog = [t \in Threads |-> <<>>]
  /\ data = [t \in Threads |-> <<>>]
  /\ ret = [t \in Threads |-> "none"]
  /\ hwLock = NoThread /\ switchLock = NoThread
  /\ channel = 0
  /\ drv = Quiet
  /\ served = FALSE
  /\ wire = Idle /\ pend = {} /\ efd = FALSE /\ rx = {}
  /\ mux = {}
  /\ port = [l \in Lines |-> [r \in {Dir, Out} |-> PowerUp]]
  /\ pointer = [l \in Lines |-> Out]
  /\ trouble = 0

Trouble == trouble < MaxTrouble /\ trouble' = trouble + 1

(* ---- The steps of a call ------------------------------------------------ *)

Write(addr, bytes) == [op |-> "write", addr |-> addr, bytes |-> bytes]

(* read() appends to the vector it is given: again tells whether that holds *)
(* bytes already.                                                          *)
Read(addr, again) == [op |-> "read", addr |-> addr, again |-> again]

ReadRegister(addr, reg) == <<Write(addr, <<reg>>), Read(addr, FALSE)>>

(* Variant: the channel is selected before the switch is locked.           *)
SetChannelThenLock(c) ==
  <<Write(SwitchAddr, <<{LineOf(c)}>>), [op |-> "lock", channel |-> c]>>

(* setAndLockChannel(): the lock, the cached channel, then the write       *)
SetAndLockChannel(c) ==
  <<[op |-> "lock", channel |-> c], Write(SwitchAddr, <<{LineOf(c)}>>)>>

UnlockChannel == <<[op |-> "unlock"]>>

GetChannel == <<Read(SwitchAddr, FALSE), [op |-> "compare", retries |-> Tries]>>

At(t, op) == prog[t] # <<>> /\ Head(prog[t]).op = op

Returns(t, how) == ret' = [ret EXCEPT ![t] = how]

(* The call goes on behind its first step, with steps p before the rest.   *)
Continue(t, p) ==
  /\ prog' = [prog EXCEPT ![t] = p \o Tail(@)]
  /\ IF prog'[t] = <<>> THEN Returns(t, "ok") ELSE UNCHANGED ret

(* An exception leaves the call; it unlocks nothing.  selfTest() catches   *)
(* those of getChannel() and returns false.                                *)
Throw(t) ==
  /\ prog' = [prog EXCEPT ![t] = <<>>]
  /\ Returns(t, IF Head(prog[t]) \in {Read(SwitchAddr, FALSE), Read(SwitchAddr, TRUE)}
                  THEN "false" ELSE "throw")

LockSwitch(t) ==
  /\ At(t, "lock")
  /\ switchLock = NoThread
  /\ switchLock' = t
  /\ channel' = Head(prog[t]).channel
  /\ Continue(t, <<>>)
  /\ UNCHANGED <<data, drvVars, busVars, devVars, trouble>>

UnlockSwitch(t) ==
  /\ At(t, "unlock")
  /\ switchLock' = NoThread
  /\ Continue(t, <<>>)
  /\ UNCHANGED <<data, channel, drvVars, busVars, devVars, trouble>>

(* The loop of getChannel().  It reads on at the end of the vector, but    *)
(* looks at its first byte.  The exception is for a countdown that ended   *)
(* at 0; selfTest() catches it and returns with the switch locked.         *)
Compare(t) ==
  /\ At(t, "compare")
  /\ LET wrong == data[t][1] # {LineOf(channel)}
         left  == Head(prog[t]).retries - (IF wrong THEN 1 ELSE 0)
     IN \/ /\ wrong /\ left >= 0
           /\ Continue(t, <<Read(SwitchAddr, TRUE), [op |-> "compare", retries |-> left]>>)
        \/ /\ ~ (wrong /\ left >= 0)
           /\ IF left = 0 THEN prog' = [prog EXCEPT ![t] = <<>>] /\ Returns(t, "false")
                          ELSE Continue(t, <<>>)
  /\ UNCHANGED <<data, switchLock, channel, drvVars, busVars, devVars, trouble>>

(* ---- write() and read(): driverWriteBlocking(), driverReadBlocking() ---- *)

Transfer(t) == At(t, "write") \/ At(t, "read")

Running(phase) == hwLock # NoThread /\ drv.phase = phase

(* hwLock, XII_ADDR_TO_SEND and XIic_Start, which clears old interrupts    *)
Locked(t) ==
  /\ Transfer(t)
  /\ hwLock = NoThread
  /\ hwLock' = t

(* Variant: the count of completed transfers is not reset.                 *)
BeginUncounted(t) ==
  /\ Locked(t)
  /\ drv' = [phase |-> "transfer", tries |-> Tries, bb |-> 1, left |-> 0, txErr |-> FALSE]
  /\ pend' = {}
  /\ UNCHANGED <<prog, data, ret, switchLock, channel, served, wire, efd, rx, devVars, trouble>>

Begin(t) ==
  /\ Locked(t)
  /\ drv' = [phase |-> "transfer", tries |-> Tries, bb |-> 1, left |-> 0, txErr |-> FALSE]
  /\ served' = FALSE
  /\ pend' = {}
  /\ UNCHANGED <<prog, data, ret, switchLock, channel, wire, efd, rx, devVars, trouble>>

BeginFails(t) ==
  /\ Locked(t)
  /\ Trouble
  /\ Throw(t)
  /\ drv' = Quiet
  /\ UNCHANGED <<data, switchLock, channel, served, busVars, devVars>>

(* XIic_MasterSend, XIic_MasterRecv: the transfer goes on the wire, or the *)
(* bus is busy, or the call fails.                                         *)
TransferStarts ==
  /\ Running("transfer")
  /\ wire = Idle
  /\ wire' = Head(prog[hwLock])
  /\ drv' = [drv EXCEPT !.phase = "wait", !.left = Tries]
  /\ UNCHANGED <<prog, data, ret, switchLock, channel, hwLock, served, pend, efd, rx,
                 devVars, trouble>>

TransferBusy ==
  /\ Running("transfer")
  /\ IF wire = Idle THEN Trouble ELSE UNCHANGED trouble
  /\ drv' = [drv EXCEPT !.phase = "bnb", !.left = Tries]
  /\ UNCHANGED <<prog, data, ret, switchLock, channel, hwLock, served, busVars, devVars>>

(* A throw in the middle of a transfer: hwLock stays taken.                *)
Abort ==
  /\ Throw(hwLock)
  /\ drv' = Quiet

TransferFails ==
  /\ Running("transfer")
  /\ Trouble
  /\ Abort
  /\ UNCHANGED <<data, switchLock, channel, hwLock, served, busVars, devVars>>

(* Variant: one try too many, --bbRetries >= -1.                           *)
WaitForBusNotBusyTwice ==
  /\ Running("bnb")
  /\ IF efd THEN UNCHANGED trouble ELSE Trouble
  /\ efd' = FALSE
  /\ pend' = pend \ {"bnb"}
  /\ \/ /\ "bnb" \in pend
        /\ drv' = IF drv.bb >= 0 THEN [drv EXCEPT !.phase = "transfer", !.bb = @ - 1]
                                ELSE [drv EXCEPT !.phase = "wait", !.left = Tries]
        /\ UNCHANGED <<prog, ret>>
     \/ /\ "bnb" \notin pend /\ drv.left > 1
        /\ drv' = [drv EXCEPT !.left = @ - 1]
        /\ UNCHANGED <<prog, ret>>
     \/ /\ "bnb" \notin pend /\ drv.left = 1
        /\ Abort
  /\ UNCHANGED <<data, switchLock, channel, hwLock, served, wire, rx, devVars>>

(* waitForBusNotBusy(), one turn of its loop: an interrupt or a timeout.   *)
(* The transfer is tried once more after the first time.                   *)
WaitForBusNotBusy ==
  /\ Running("bnb")
  /\ IF efd THEN UNCHANGED trouble ELSE Trouble
  /\ efd' = FALSE
  /\ pend' = pend \ {"bnb"}
  /\ \/ /\ "bnb" \in pend
        /\ drv' = IF drv.bb > 0 THEN [drv EXCEPT !.phase = "transfer", !.bb = @ - 1]
                                ELSE [drv EXCEPT !.phase = "wait", !.left = Tries]
        /\ UNCHANGED <<prog, ret>>
     \/ /\ "bnb" \notin pend /\ drv.left > 1
        /\ drv' = [drv EXCEPT !.left = @ - 1]
        /\ UNCHANGED <<prog, ret>>
     \/ /\ "bnb" \notin pend /\ drv.left = 1
        /\ Abort
  /\ UNCHANGED <<data, switchLock, channel, hwLock, served, wire, rx, devVars>>

(* waitForInterrupt() returns and XIic_InterruptHandler() looks what it is *)
WaitForInterrupt ==
  /\ Running("wait")
  /\ ~ served /\ drv.left > 0
  /\ efd
  /\ efd' = FALSE
  /\ pend' = {}
  /\ served' = ("done" \in pend)
  /\ drv' = [drv EXCEPT !.left = @ - 1, !.txErr = @ \/ "error" \in pend]
  /\ UNCHANGED <<prog, data, ret, switchLock, channel, hwLock, wire, rx, devVars, trouble>>

(* A second without an interrupt: certain if nothing is on the wire.       *)
WaitTimesOut ==
  /\ Running("wait")
  /\ ~ served /\ drv.left > 0
  /\ ~ efd
  /\ IF wire = Idle THEN UNCHANGED trouble ELSE Trouble
  /\ drv' = [drv EXCEPT !.left = 0]
  /\ UNCHANGED <<prog, data, ret, switchLock, channel, hwLock, served, busVars, devVars>>

(* The end of a try: another one, an exception, which a transfer that the  *)
(* last try completed does not escape, or XIic_Stop.                       *)
EndTry ==
  /\ Running("wait")
  /\ served \/ drv.left = 0
  /\ \/ /\ ~ served /\ drv.tries > 1
        /\ drv' = [phase |-> "transfer", tries |-> drv.tries - 1, bb |-> 1, left |-> 0,
                   txErr |-> FALSE]
        /\ UNCHANGED <<prog, ret>>
     \/ /\ drv.tries = 1 \/ (served /\ drv.txErr /\ At(hwLock, "write"))
        /\ Abort
     \/ /\ served /\ drv.tries > 1
        /\ ~ (drv.txErr /\ At(hwLock, "write"))
        /\ drv' = [drv EXCEPT !.phase = "stop"]
        /\ UNCHANGED <<prog, ret>>
  /\ UNCHANGED <<data, switchLock, channel, hwLock, served, busVars, devVars, trouble>>

(* Variant: the mutex is not released.                                     *)
StopLocked ==
  /\ Running("stop")
  /\ LET t == hwLock
         step == Head(prog[t])
     IN /\ data' = IF step.op = "write" THEN data
                   ELSE [data EXCEPT ![t] = IF step.again THEN Append(@, rx) ELSE <<rx>>]
        /\ Continue(t, <<>>)
  /\ wire' = Idle
  /\ drv' = Quiet
  /\ UNCHANGED <<switchLock, channel, hwLock, served, pend, efd, rx, devVars, trouble>>

(* XIic_Stop disables the core: what was on the wire never completes.      *)
Stop ==
  /\ Running("stop")
  /\ LET t == hwLock
         step == Head(prog[t])
     IN /\ data' = IF step.op = "write" THEN data
                   ELSE [data EXCEPT ![t] = IF step.again THEN Append(@, rx) ELSE <<rx>>]
        /\ Continue(t, <<>>)
  /\ wire' = Idle
  /\ drv' = Quiet
  /\ hwLock' = NoThread
  /\ UNCHANGED <<switchLock, channel, served, pend, efd, rx, devVars, trouble>>

StopFails ==
  /\ Running("stop")
  /\ Trouble
  /\ Abort
  /\ wire' = Idle
  /\ UNCHANGED <<data, switchLock, channel, hwLock, served, pend, efd, rx, devVars>>

(* ---- The bus and the devices on it -------------------------------------- *)

(* The lines that the transfer on the wire reaches                         *)
Reached == IF wire.addr = SwitchAddr THEN {} ELSE mux \cap Lines

Raise(what) ==
  /\ pend' = pend \cup what
  /\ efd' = TRUE

(* A device takes what was written: the switch a mask, an expander the     *)
(* number of a register and, if there is a second byte, its new value.     *)
Sent ==
  /\ wire.op = "write"
  /\ wire.addr = SwitchAddr \/ Reached # {}
  /\ LET bytes == wire.bytes IN
       IF wire.addr = SwitchAddr
         THEN mux' = bytes[1] /\ UNCHANGED <<port, pointer>>
         ELSE /\ pointer' = [l \in Lines |-> IF l \in Reached THEN bytes[1] ELSE pointer[l]]
              /\ port' = [l \in Lines |-> IF l \in Reached /\ Len(bytes) = 2
                            THEN [port[l] EXCEPT ![bytes[1]] = bytes[2]] ELSE port[l]]
              /\ UNCHANGED mux
  /\ wire' = Idle
  /\ Raise({"done"})
  /\ UNCHANGED <<prog, data, ret, switchLock, channel, drvVars, rx, trouble>>

Received ==
  /\ wire.op = "read"
  /\ IF wire.addr = SwitchAddr THEN rx' \in {mux} \cup Noise
     ELSE \E l \in Reached : rx' = port[l][pointer[l]]
  /\ wire' = Idle
  /\ Raise({"done"})
  /\ UNCHANGED <<prog, data, ret, switchLock, channel, drvVars, devVars, trouble>>

(* Nobody acknowledges the address or a byte; a write may end with it.     *)
NotAcknowledged ==
  /\ wire # Idle
  /\ IF wire.addr # SwitchAddr /\ Reached = {} THEN UNCHANGED trouble ELSE Trouble
  /\ wire' = Idle
  /\ Raise({"error"}) \/ (wire.op = "write" /\ Raise({"error", "done"}))
  /\ UNCHANGED <<prog, data, ret, switchLock, channel, drvVars, rx, devVars>>

BusFree ==
  /\ Running("bnb")
  /\ wire = Idle
  /\ "bnb" \notin pend
  /\ Raise({"bnb"})
  /\ UNCHANGED <<prog, data, ret, switchLock, channel, drvVars, wire, rx, devVars, trouble>>

(* "sending the stop condition involves generating multiple interrupts"    *)
Intermediate ==
  /\ wire # Idle /\ ~ efd
  /\ Trouble
  /\ efd' = TRUE
  /\ UNCHANGED <<prog, data, ret, switchLock, channel, drvVars, wire, pend, rx, devVars>>

I2cNext ==
  \/ \E t \in Threads :
       LockSwitch(t) \/ UnlockSwitch(t) \/ Compare(t) \/ Begin(t) \/ BeginFails(t)
  \/ TransferStarts \/ TransferBusy \/ TransferFails
  \/ WaitForBusNotBusy \/ WaitForInterrupt \/ WaitTimesOut
  \/ EndTry \/ Stop \/ StopFails
  \/ Sent \/ Received \/ NotAcknowledged \/ BusFree \/ Intermediate
=============================================================================
