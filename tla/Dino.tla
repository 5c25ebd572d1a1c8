-------------------------------- MODULE Dino ---------------------------------
(***************************************************************************)
(* The two Dino boards, lib/ips/dino.cpp: an ADC and a DAC, each behind a  *)
(* channel of the I2C switch with an I/O expander that holds its settings. *)
(* Their calls, and I2c::check(), are sequences of steps of the I2C        *)
(* master, made by threads that share it.                                  *)
(*                                                                         *)
(* The register of an expander is the set of the fields that are true.     *)
(***************************************************************************)
EXTENDS I2c, SequencesExt

CONSTANTS
  ChannelOf,     (* per board, its "i2c_channel" in the hardware definition  *)
  CallsMade,     (* a bound for model checking: the calls that are made      *)
  MaxCalls       (* a bound for model checking: how many                     *)

Board == {"adc", "dac"}

Field == {"clk_dir", "data_dir", "status_led", "n_we", "input_zero", "sat_detect",
          "gain_lsb", "gain_msb"}
GainFields == {"gain_lsb", "gain_msb"}
Gain == SUBSET GainFields    \* GAIN_1, GAIN_2, GAIN_5, GAIN_10

ASSUME DinoAssumption ==
  /\ ChannelOf \in [Board -> Channels]
  /\ ChannelOf["adc"] # ChannelOf["dac"]
  /\ MaxCalls \in Nat
  /\ PowerUp \subseteq Field

VARIABLES
  call,          \* per thread, its call, or NoCall
  calls          \* calls so far

dinoVars == <<i2cVars, call, calls>>

NoCall == [kind |-> "none", board |-> "none"]

Call ==
       [kind : {"configure", "getDir", "getOut"}, board : Board]
  \cup [kind : {"setGain"}, board : {"dac"}, gain : Gain]
  \cup [kind : {"getGain"}, board : {"dac"}]
  \cup [kind : {"check"}, board : {"none"}]

(* The calls that return what a register holds, and the register           *)
Getters == {"getDir", "getOut", "getGain"}
Asked(kind) == IF kind = "getDir" THEN Dir ELSE Out

(* ---- The calls, as steps ------------------------------------------------ *)

GetIoext(reg) == ReadRegister(IoextAddr, reg)
SetIoext(reg, fields) == <<Write(IoextAddr, <<reg, fields>>)>>
Verify(fields) == <<[op |-> "verify", fields |-> fields]>>

(* DinoAdc::configureHardware() and DinoDac::configureHardware(): the      *)
(* direction register, then the values of the output register in turn.     *)
Directions == [adc |-> {"sat_detect"}, dac |-> {}]
Outputs == [adc |-> <<{"data_dir", "status_led", "n_we", "input_zero"},
                      {"data_dir", "status_led", "input_zero"}>>,
            dac |-> <<{"status_led"}>>]

ConfigureHardware(b) ==
     SetIoext(Dir, Directions[b]) \o GetIoext(Dir) \o Verify(Directions[b])
  \o [i \in DOMAIN Outputs[b] |-> Write(IoextAddr, <<Out, Outputs[b][i]>>)]
  \o GetIoext(Out) \o Verify(Last(Outputs[b]))

SetGain(gain) == GetIoext(Out) \o <<[op |-> "gain", gain |-> gain]>>

OnBoard(b, steps) == SetAndLockChannel(ChannelOf[b]) \o steps \o UnlockChannel

(* I2c::Switch::selfTest(), channel after channel, five steps for each     *)
SelfTest ==
  LET Test(c) == SetAndLockChannel(c) \o GetChannel \o UnlockChannel
  IN [k \in 1 .. 5 * Len(CHANNEL_MAP) |-> Test((k - 1) \div 5)[((k - 1) % 5) + 1]]

(* Variant: setGain() does not hold the switch while it reads.             *)
ProgramUnlocked(c) ==
  CASE c.kind = "configure" -> OnBoard(c.board, ConfigureHardware(c.board))
    [] c.kind = "getDir"    -> OnBoard(c.board, GetIoext(Dir))
    [] c.kind = "setGain"   -> OnBoard(c.board, GetIoext(Out))
                               \o OnBoard(c.board, <<[op |-> "gain", gain |-> c.gain]>>)
    [] c.kind = "check"     -> SelfTest
    [] OTHER                -> OnBoard(c.board, GetIoext(Out))

Program(c) ==
  CASE c.kind = "configure" -> OnBoard(c.board, ConfigureHardware(c.board))
    [] c.kind = "getDir"    -> OnBoard(c.board, GetIoext(Dir))
    [] c.kind = "setGain"   -> OnBoard(c.board, SetGain(c.gain))
    [] c.kind = "check"     -> SelfTest
    [] OTHER                -> OnBoard(c.board, GetIoext(Out))

Init ==
  /\ I2cInit
  /\ call = [t \in Threads |-> NoCall]
  /\ calls = 0

Begins(t, c) ==
  /\ prog[t] = <<>>
  /\ calls < MaxCalls
  /\ calls' = calls + 1
  /\ call' = [call EXCEPT ![t] = c]
  /\ prog' = [prog EXCEPT ![t] = Program(c)]
  /\ data' = [data EXCEPT ![t] = <<>>]
  /\ Returns(t, "none")
  /\ UNCHANGED <<switchLock, channel, drvVars, busVars, devVars, trouble>>

(* The comparison of a register with what was written                      *)
VerifyReadback(t) ==
  /\ At(t, "verify")
  /\ IF data[t] = <<Head(prog[t]).fields>> THEN Continue(t, <<>>) ELSE Throw(t)
  /\ UNCHANGED <<data, switchLock, channel, drvVars, busVars, devVars, trouble, call, calls>>

(* setGain() between its read and its write                                *)
ReplaceGain(t) ==
  /\ At(t, "gain")
  /\ Continue(t, SetIoext(Out, (data[t][1] \ GainFields) \cup Head(prog[t]).gain))
  /\ UNCHANGED <<data, switchLock, channel, drvVars, busVars, devVars, trouble, call, calls>>

Next ==
  \/ I2cNext /\ UNCHANGED <<call, calls>>
  \/ \E t \in Threads :
       \/ \E c \in Call \cap CallsMade : Begins(t, c)
       \/ VerifyReadback(t)
       \/ ReplaceGain(t)

Spec == Init /\ [][Next]_dinoVars

-----------------------------------------------------------------------------
(* The types of the bus, the boards and the calls.                         *)
TypeOK ==
  /\ \A t \in Threads : prog[t] # <<>> => ret[t] = "none"
  /\ ret \in [Threads -> {"none", "ok", "throw", "false"}]
  /\ {hwLock, switchLock} \subseteq Threads \cup {NoThread}
  /\ channel \in Channels
  /\ drv \in [phase : {"none", "transfer", "bnb", "wait", "stop"}, tries : 0 .. Tries,
              bb : {0, 1}, left : 0 .. Tries, txErr : BOOLEAN]
  /\ pend \subseteq {"done", "error", "bnb"}
  /\ {served, efd} \subseteq BOOLEAN
  /\ mux \subseteq Lines
  /\ port \in [Lines -> [{Dir, Out} -> SUBSET Field]]
  /\ pointer \in [Lines -> {Dir, Out}]
  /\ call \in [Threads -> Call \cup {NoCall}]

(* Whenever a step addresses an I/O expander, its thread holds the switch, *)
(* the switch shows the channel of its board, and the driver knows it: the *)
(* retries, repeated transfers and exceptions of others do not matter.     *)
ChannelSelected ==
  \A t \in Threads :
    Transfer(t) /\ Head(prog[t]).addr = IoextAddr =>
      /\ switchLock = t
      /\ channel = ChannelOf[call[t].board]
      /\ mux = {LineOf(channel)}

(* A call that is about to release the switch has had its effect: after    *)
(* configureHardware() both registers hold what was verified, after        *)
(* setGain(), which verifies nothing, the gain is the requested one.       *)
SettingsTaken ==
  \A t \in Threads : At(t, "unlock") =>
    LET regs == port[LineOf(ChannelOf[call[t].board])] IN
    /\ call[t].kind = "configure" =>
         /\ regs[Dir] = Directions[call[t].board]
         /\ regs[Out] = Last(Outputs[call[t].board])
    /\ call[t].kind = "setGain" => regs[Out] \cap GainFields = call[t].gain

(* A call that reads a register, by two transfers that others may delay,   *)
(* repeat and interrupt, has what the register of its board holds when it  *)
(* releases the switch: not the other register of the board, not one of    *)
(* the other board, and not a byte that an earlier transfer left.          *)
AnswersTrue ==
  \A t \in Threads : At(t, "unlock") /\ call[t].kind \in Getters =>
    data[t] = <<port[LineOf(ChannelOf[call[t].board])][Asked(call[t].kind)]>>

(* A call that comes to release the switch did what its name says: of its  *)
(* own board, and of the bus as the others have left it by then.           *)
CallsEffective == SettingsTaken /\ AnswersTrue

(* A transfer threw, and the bus is locked for good.                       *)
BusDead == hwLock # NoThread /\ drv = Quiet

(* A call threw, or returned, with the switch locked.                      *)
SwitchLeaked ==
  \E t \in Threads : switchLock = t /\ (prog[t] = <<>> \/ At(t, "lock"))

(* A board's registers are only changed by the configureHardware() and     *)
(* setGain() that hold its channel, and setGain() changes nothing but the  *)
(* gain - no setting of another thread is lost in between.  The exception  *)
(* is a transfer that completes after its call has thrown.                 *)
GainOnly ==
  [][\A b \in Board :
       LET l == LineOf(ChannelOf[b]) IN
       port'[l] # port[l] =>
         \/ BusDead
         \/ \E t \in Threads :
              /\ switchLock = t
              /\ call[t].kind \in {"configure", "setGain"} /\ call[t].board = b
              /\ call[t].kind = "setGain" =>
                   /\ port'[l][Dir] = port[l][Dir]
                   /\ port'[l][Out] \ GainFields = port[l][Out] \ GainFields]_dinoVars

(* Locks are left behind only after a timeout or an error of the bus.      *)
LeaksNeedTrouble == BusDead \/ SwitchLeaked => trouble > 0

(* "Invalid channel readback after 10 retries" (i2c.cpp:271): getChannel() *)
(* does not go on when the byte it read last is not the expected one.      *)
ReadbackChecked ==
  [][\A t \in Threads :
       At(t, "compare") /\ Last(data[t]) # {LineOf(channel)} => prog'[t] # Tail(prog[t])]_dinoVars

-----------------------------------------------------------------------------
(* A thread inside a call goes on, and gets a mutex that is released again *)
(* and again; the bus completes a transfer, or a wait for it times out.    *)
ThreadStep(t) ==
  \/ /\ LockSwitch(t) \/ UnlockSwitch(t) \/ Compare(t) \/ Begin(t)
     /\ UNCHANGED <<call, calls>>
  \/ VerifyReadback(t)
  \/ ReplaceGain(t)

BusStep ==
  /\ \/ TransferStarts \/ TransferBusy
     \/ WaitForBusNotBusy \/ WaitForInterrupt \/ WaitTimesOut \/ EndTry \/ Stop
     \/ Sent \/ Received \/ BusFree
  /\ UNCHANGED <<call, calls>>

Fairness ==
  /\ \A t \in Threads : SF_dinoVars(ThreadStep(t))
  /\ WF_dinoVars(BusStep)

FairSpec == Spec /\ Fairness

(* Every call returns, unless an earlier one has failed and left its lock: *)
(* the retries end, and no two calls wait for each other.                  *)
CallsReturn ==
  \A t \in Threads :
    (prog[t] # <<>>)
      ~> (prog[t] = <<>> \/ (trouble > 0 /\ (BusDead \/ SwitchLeaked)))
=============================================================================
