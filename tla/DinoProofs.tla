----------------------------- MODULE DinoProofs ------------------------------
(***************************************************************************)
(* Proofs about the Dino boards and the I2C master.                        *)
(*                                                                         *)
(* The invariant has a part for the steps that a call has left, which are  *)
(* an end of its program; for what a call knows when so many are left; for *)
(* the locks; for the transfer on the wire; and for a bus without trouble. *)
(***************************************************************************)
EXTENDS Dino, SequenceTheorems, TLAPS

-----------------------------------------------------------------------------
(* ---- The steps a call has left ------------------------------------------- *)

(* Named, because the lengths of sequences that are not known keep the     *)
(* provers from arithmetic.                                                *)
Remaining(p) == Len(p)
Values(b) == Len(Outputs[b])
Value(b, i) == Outputs[b][i]
Final(b) == Last(Outputs[b])
NumChannels == Len(CHANNEL_MAP)

Size(c) == CASE c.kind = "configure" -> 10 + Values(c.board)
             [] c.kind = "setGain"   -> 6
             [] c.kind = "check"     -> 5 * NumChannels
             [] OTHER                -> 5

Lock(ch) == [op |-> "lock", channel |-> ch]
Select(ch) == Write(SwitchAddr, <<{LineOf(ch)}>>)
Ask(reg) == Write(IoextAddr, <<reg>>)
Answer == Read(IoextAddr, FALSE)
Store(reg, fields) == Write(IoextAddr, <<reg, fields>>)
Unlock == [op |-> "unlock"]
Check(fields) == [op |-> "verify", fields |-> fields]
Replace(gain) == [op |-> "gain", gain |-> gain]
Countdown(n) == [op |-> "compare", retries |-> n]
Again == Read(SwitchAddr, TRUE)

(* The step of a board's call after which n - 1 are left                   *)
ConfigureStep(b, k, n) ==
  CASE n = 8 + k -> Store(Dir, Directions[b])
    [] n = 7 + k -> Ask(Dir)
    [] n = 6 + k -> Answer
    [] n = 5 + k -> Check(Directions[b])
    [] n \in 5 .. 4 + k -> Store(Out, Value(b, 5 + k - n))
    [] n = 4 -> Ask(Out)
    [] n = 3 -> Answer
    [] OTHER -> Check(Final(b))

GainStep(gain, n) ==
  CASE n = 4 -> Ask(Out)
    [] n = 3 -> Answer
    [] OTHER -> Replace(gain)

GetStep(kind, n) == IF n = 3 THEN Ask(Asked(kind)) ELSE Answer

InsideStep(c, n) ==
  CASE c.kind = "configure" -> ConfigureStep(c.board, Values(c.board), n)
    [] c.kind = "setGain"   -> GainStep(c.gain, n)
    [] OTHER                -> GetStep(c.kind, n)

BoardStep(c, n) ==
  CASE n = Size(c)     -> Lock(ChannelOf[c.board])
    [] n = Size(c) - 1 -> Select(ChannelOf[c.board])
    [] n = 1           -> Unlock
    [] n \in 2 .. Size(c) - 2 -> InsideStep(c, n)

TestedChannel(n) == NumChannels - 1 - ((n - 1) \div 5)

TestStep(k, ch) ==
  CASE k = 0 -> Lock(ch)
    [] k = 4 -> Select(ch)
    [] k = 3 -> Read(SwitchAddr, FALSE)
    [] k = 2 -> Countdown(Tries)
    [] k = 1 -> Unlock

StepOf(c, n) == IF c.kind = "check" THEN TestStep(n % 5, TestedChannel(n)) ELSE BoardStep(c, n)

(* What setGain() and getChannel() put in the place of a step              *)
Instead(c, p, i) ==
  \/ /\ c.kind = "setGain" /\ i = 1 /\ Remaining(p) = 2
     /\ \E f \in SUBSET Field : p[1] = Store(Out, f)
  \/ /\ c.kind = "check" /\ i = 1 /\ Remaining(p) % 5 = 3
     /\ p[1] = Again
  \/ /\ c.kind = "check" /\ i = 1 /\ Remaining(p) % 5 = 2
     /\ \E n \in 0 .. Tries : p[1] = Countdown(n)
  \/ /\ c.kind = "check" /\ i = 2 /\ Remaining(p) % 5 = 3 /\ p[1] = Again
     /\ \E n \in 0 .. Tries : p[2] = Countdown(n)

Sequence(p) == p \in Seq(Range(p))

EndOf(p, c) ==
  /\ Remaining(p) \in 0 .. Size(c)
  /\ Sequence(p)
  /\ \A i \in 1 .. Remaining(p) : p[i] = StepOf(c, Remaining(p) + 1 - i) \/ Instead(c, p, i)

(* ---- What a call knows with n steps left --------------------------------- *)

KnowsDirections(b, n, dir, ptr, da) ==
  LET k == Values(b) IN
  /\ n <= 7 + k => dir = Directions[b]
  /\ n = 6 + k => ptr = Dir
  /\ n = 5 + k => da = <<Directions[b]>>

KnowsOutputs(b, n, out, ptr, da) ==
  /\ n <= 4 => out = Final(b)
  /\ n = 3 => ptr = Out
  /\ n = 2 => da = <<Final(b)>>

KnowsGain(gain, p, out, ptr, da) ==
  /\ Remaining(p) = 3 => ptr = Out
  /\ Remaining(p) = 2 /\ p[1].op = "gain" => da = <<out>>
  /\ Remaining(p) = 2 /\ p[1].op = "write" =>
       /\ p[1].bytes[2] \ GainFields = out \ GainFields
       /\ p[1].bytes[2] \cap GainFields = gain
  /\ Remaining(p) = 1 => out \cap GainFields = gain

KnowsAnswer(kind, n, regs, ptr, da) ==
  /\ n = 2 => ptr = Asked(kind)
  /\ n = 1 => da = <<regs[Asked(kind)]>>

KnowsByte(p, ch, da) ==
  p[1].op = "compare" \/ p[1] = Again =>
    /\ Sequence(da) /\ da # <<>>
    /\ da[1] = {LineOf(ch)} => p[1] = Countdown(Tries)

Knows(c, p, ch, m, regs, ptr, da) ==
  /\ c.kind # "check" =>
       /\ ch = ChannelOf[c.board]
       /\ Remaining(p) <= Size(c) - 2 => m = {LineOf(ch)}
  /\ c.kind = "configure" => /\ KnowsDirections(c.board, Remaining(p), regs[Dir], ptr, da)
                             /\ KnowsOutputs(c.board, Remaining(p), regs[Out], ptr, da)
  /\ c.kind = "setGain" => KnowsGain(c.gain, p, regs[Out], ptr, da)
  /\ c.kind \in Getters => KnowsAnswer(c.kind, Remaining(p), regs, ptr, da)
  /\ c.kind = "check" => KnowsByte(p, ch, da)

BoardLine(c) == LineOf(ChannelOf[c.board])

(* ---- The invariant -------------------------------------------------------- *)

InCall(t) == prog[t] # <<>> /\ ~ At(t, "lock")

Programs == \A t \in Threads : prog[t] # <<>> => call[t] \in Call /\ EndOf(prog[t], call[t])

Knowledge ==
  \A t \in Threads : InCall(t) =>
    Knows(call[t], prog[t], channel, mux, port[BoardLine(call[t])],
          pointer[BoardLine(call[t])], data[t])

HolderInCall == InCall(hwLock)
HolderTransfers == Transfer(hwLock)

Locks ==
  /\ \A t \in Threads : InCall(t) => switchLock = t
  /\ hwLock = NoThread => drv = Quiet /\ wire = Idle
  /\ hwLock # NoThread =>
       /\ hwLock \in Threads /\ switchLock = hwLock
       /\ IF drv.phase = "none" THEN drv = Quiet /\ ~ HolderInCall ELSE HolderTransfers

(* A transfer has had its effect on the devices, or brought its answer.    *)
Happened(s, m, regs, ptr, byte) ==
  /\ s.op = "write" /\ s.addr = SwitchAddr => m = s.bytes[1]
  /\ s.op = "write" /\ s.addr # SwitchAddr =>
       ptr = s.bytes[1] /\ (Len(s.bytes) = 2 => regs[s.bytes[1]] = s.bytes[2])
  /\ s.op = "read" /\ s.addr # SwitchAddr => byte = regs[ptr]

Effect(s, l) == Happened(s, mux, port[l], pointer[l], rx)

(* What is on the wire and what the interrupts tell, while step s runs     *)
WireFacts(s, done, d, w, p, sv) ==
  /\ w \in {Idle, s}
  /\ "done" \in p => done \/ (s.op = "write" /\ "error" \in p)
  /\ sv => done \/ (s.op = "write" /\ d.txErr)
  /\ d.phase = "stop" => sv /\ done

OnWire ==
  hwLock # NoThread /\ drv.phase # "none" =>
    WireFacts(Head(prog[hwLock]), Effect(Head(prog[hwLock]), BoardLine(call[hwLock])),
              drv, wire, pend, served)

(* While nothing went wrong, the first try succeeds.                       *)
FirstTry(d, w, p, sv, e) ==
  /\ d.tries = Tries /\ ~ d.txErr
  /\ \/ /\ d.phase = "transfer"
        /\ w = Idle /\ ~ sv /\ ~ e /\ "done" \notin p
     \/ /\ d.phase = "wait" /\ ~ sv /\ d.left = Tries
        /\ w # Idle /\ ~ e /\ "done" \notin p
     \/ /\ d.phase = "wait" /\ ~ sv /\ d.left = Tries
        /\ w = Idle /\ e
     \/ /\ d.phase \in {"wait", "stop"} /\ sv
        /\ w = Idle /\ ~ e

NoTrouble ==
  trouble = 0 =>
    /\ \A t \in Threads : switchLock = t => InCall(t)
    /\ "error" \notin pend
    /\ efd => "done" \in pend
    /\ hwLock = NoThread => ~ efd
    /\ hwLock # NoThread => FirstTry(drv, wire, pend, served, efd)

(* A transfer that can be on the wire                                      *)
OfBus(s) ==
  \/ s = Idle
  \/ /\ s.op = "read"
     /\ \E a \in {SwitchAddr, IoextAddr}, again \in BOOLEAN : s = Read(a, again)
  \/ /\ s.op = "write" /\ s.addr = SwitchAddr
     /\ \E l \in Lines : s = Write(SwitchAddr, <<{l}>>)
  \/ /\ s.op = "write" /\ s.addr = IoextAddr
     /\ \E r \in {Dir, Out} :
          s = Write(IoextAddr, <<r>>) \/ \E f \in SUBSET Field : s = Write(IoextAddr, <<r, f>>)

Types ==
  /\ TypeOK
  /\ prog = [t \in Threads |-> prog[t]]
  /\ data = [t \in Threads |-> data[t]]
  /\ OfBus(wire)
  /\ trouble \in Nat

DinoInv == Types /\ Programs /\ Knowledge /\ Locks /\ OnWire /\ NoTrouble

-----------------------------------------------------------------------------
(* ---- The programs --------------------------------------------------------- *)

LEMMA Constants ==
  /\ Tries \in Nat /\ Tries > 1
  /\ NumChannels \in Nat /\ NumChannels >= 2
  /\ \A ch \in Channels : ch \in Nat /\ LineOf(ch) \in Lines
  /\ \A a, b \in Channels : LineOf(a) = LineOf(b) => a = b
  /\ \A b \in Board : ChannelOf[b] \in Channels
  /\ \A a, b \in Board : ChannelOf[a] = ChannelOf[b] => a = b
<1> USE I2cAssumption, DinoAssumption
<1>1. NumChannels \in Nat /\ DOMAIN CHANNEL_MAP = 1 .. NumChannels
  BY DEF I2cAssumption, NumChannels
<1>2. \A b \in Board : ChannelOf[b] \in Channels
  BY DEF DinoAssumption
<1>3. \A a, b \in Board : ChannelOf[a] = ChannelOf[b] => a = b
  BY DEF Board, DinoAssumption
<1>4. NumChannels >= 2
  <2>1. ChannelOf["adc"] \in 0 .. NumChannels - 1 /\ ChannelOf["dac"] \in 0 .. NumChannels - 1
    BY <1>2 DEF Board, Channels, NumChannels
  <2> QED
    BY <1>1, <2>1 DEF DinoAssumption
<1>5. ASSUME NEW ch \in Channels PROVE ch \in Nat /\ ch + 1 \in DOMAIN CHANNEL_MAP
  BY <1>1 DEF Channels, NumChannels
<1>6. \A ch \in Channels : LineOf(ch) \in Lines
  BY <1>5 DEF LineOf, Lines
<1>7. ASSUME NEW a \in Channels, NEW b \in Channels, LineOf(a) = LineOf(b) PROVE a = b
  <2>1. a + 1 = b + 1
    BY <1>5, <1>7 DEF LineOf, I2cAssumption
  <2> QED
    BY <1>5, <2>1
<1>8. Tries \in Nat /\ Tries > 1
  BY DEF I2cAssumption
<1> QED
  BY <1>8, <1>1, <1>2, <1>3, <1>4, <1>5, <1>6, <1>7

LEMMA Kinds ==
  ASSUME NEW c \in Call
  PROVE  /\ c.kind \in {"configure", "getDir", "getOut", "setGain", "getGain", "check"}
         /\ c.kind # "check" => c.board \in Board
         /\ c.kind = "setGain" => c.gain \in Gain
  BY DEF Call, Board

LEMMA TwoBoards ==
  ASSUME NEW b \in Board
  PROVE  /\ Values(b) \in {1, 2}
         /\ Directions[b] \in SUBSET Field
         /\ \A i \in 1 .. Values(b) : Value(b, i) \in SUBSET Field
         /\ Final(b) = Value(b, Values(b))
         /\ DOMAIN Outputs[b] = 1 .. Values(b)
<1>1. CASE b = "adc"
  BY <1>1 DEF Outputs, Directions, Field, Last, Values, Value, Final
<1>2. CASE b = "dac"
  BY <1>2 DEF Outputs, Directions, Field, Last, Values, Value, Final
<1> QED
  BY <1>1, <1>2 DEF Board

LEMMA Sizes ==
  ASSUME NEW c \in Call
  PROVE  Size(c) \in Nat /\ Size(c) >= 5
<1>1. CASE c.kind = "configure"
  BY <1>1, Kinds, TwoBoards DEF Size
<1>2. CASE c.kind # "configure"
  BY <1>2, Constants DEF Size
<1> QED
  BY <1>1, <1>2

LEMMA OfItsRange ==
  ASSUME NEW S, NEW p \in Seq(S)
  PROVE  Sequence(p)
<1>1. Len(p) \in Nat /\ p \in [1 .. Len(p) -> S] /\ DOMAIN p = 1 .. Len(p)
  BY LenProperties
<1>2. p \in [1 .. Len(p) -> Range(p)]
  BY <1>1 DEF Range
<1> QED
  BY <1>1, <1>2, SeqDef DEF Sequence

LEMMA TailOf ==
  ASSUME NEW p, Sequence(p), p # <<>>
  PROVE  /\ Remaining(p) \in Nat /\ Remaining(p) > 0
         /\ Remaining(Tail(p)) = Remaining(p) - 1
         /\ Sequence(Tail(p))
         /\ \A i \in 1 .. Remaining(p) - 1 : Tail(p)[i] = p[i + 1]
         /\ Head(p) = p[1]
         /\ <<>> \o Tail(p) = Tail(p)
         /\ Tail(p) = <<>> <=> Remaining(p) = 1
<1>1. Remaining(p) \in Nat /\ Remaining(p) > 0
  BY EmptySeq DEF Sequence, Remaining
<1>2. Tail(p) \in Seq(Range(p))
  BY HeadTailProperties DEF Sequence
<1>7. /\ Remaining(Tail(p)) = Remaining(p) - 1
      /\ \A i \in 1 .. Remaining(Tail(p)) : Tail(p)[i] = p[i + 1]
  BY HeadTailProperties DEF Sequence, Remaining
<1>3. Sequence(Tail(p))
  BY <1>2, OfItsRange
<1>4. <<>> \o Tail(p) = Tail(p)
  BY <1>2, ConcatEmptySeq
<1>5. Tail(p) = <<>> <=> Remaining(p) = 1
  <2>1. Tail(p) # <<>> => Remaining(Tail(p)) \in Nat \ {0}
    BY <1>2, EmptySeq DEF Remaining
  <2>2. ASSUME Tail(p) = <<>> PROVE Remaining(p) = 1
    <3>1. Remaining(Tail(p)) = 0
      BY <2>2, EmptySeq DEF Remaining
    <3> QED
      BY <1>1, <1>7, <3>1
  <2>3. ASSUME Remaining(p) = 1 PROVE Tail(p) = <<>>
    BY <1>1, <1>7, <2>1, <2>3
  <2> QED
    BY <2>2, <2>3
<1>6. Head(p) = p[1]
  BY DEF Sequence
<1> QED
  BY <1>1, <1>3, <1>4, <1>5, <1>6, <1>7

(* What is left after a step, or after the steps that replace it           *)
LEMMA StepsLeft ==
  ASSUME NEW c \in Call, NEW p, EndOf(p, c), p # <<>>
  PROVE  EndOf(Tail(p), c)
<1> DEFINE n == Remaining(p)
           q == Tail(p)
<1>1. /\ n \in Nat /\ n > 0 /\ Remaining(q) = n - 1 /\ Sequence(q)
      /\ \A i \in 1 .. n - 1 : q[i] = p[i + 1]
  BY TailOf DEF EndOf
<1>2. n <= Size(c) /\ Size(c) \in Nat
  BY Sizes DEF EndOf
<1>3. ASSUME NEW i \in 1 .. n - 1
      PROVE  q[i] = StepOf(c, (n - 1) + 1 - i) \/ Instead(c, q, i)
  <2> HIDE DEF n, q
  <2>1. i + 1 \in 1 .. n /\ n + 1 - (i + 1) = (n - 1) + 1 - i /\ q[i] = p[i + 1]
    BY <1>1
  <2>2. p[i + 1] = StepOf(c, n + 1 - (i + 1)) \/ Instead(c, p, i + 1)
    BY <2>1 DEF EndOf, n
  <2>3. ASSUME Instead(c, p, i + 1) PROVE Instead(c, q, i)
    <3>1. c.kind = "check" /\ i = 1 /\ n % 5 = 3 /\ \E r \in 0 .. Tries : p[2] = Countdown(r)
      BY <1>1, <2>3 DEF Instead, n
    <3>2. (n - 1) % 5 = 2
      BY <1>1, <3>1, SMTT(60)
    <3>3. Remaining(q) % 5 = 2
      BY <1>1, <3>2
    <3> QED
      BY <2>1, <3>1, <3>3 DEF Instead
  <2> QED
    BY <2>1, <2>2, <2>3
<1>4. n - 1 \in 0 .. Size(c)
  BY <1>1, <1>2
<1> QED
  BY <1>1, <1>3, <1>4 DEF EndOf

LEMMA NextStep ==
  ASSUME NEW c \in Call, NEW p, EndOf(p, c), p # <<>>
  PROVE  /\ Remaining(p) \in 1 .. Size(c)
         /\ p[1] = StepOf(c, Remaining(p)) \/ Instead(c, p, 1)
  BY TailOf, Sizes DEF EndOf

LEMMA StepsOfBoard ==
  ASSUME NEW c \in Call, NEW n \in 1 .. Size(c)
  PROVE  \/ n = Size(c) /\ BoardStep(c, n) = Lock(ChannelOf[c.board])
         \/ n = Size(c) - 1 /\ BoardStep(c, n) = Select(ChannelOf[c.board])
         \/ n = 1 /\ BoardStep(c, n) = Unlock
         \/ n \in 2 .. Size(c) - 2 /\ BoardStep(c, n) = InsideStep(c, n)
<1>1. Size(c) \in Nat /\ Size(c) >= 5
  BY Sizes
<1>2. CASE n = Size(c)
  BY <1>2 DEF BoardStep
<1>3. CASE n = Size(c) - 1
  BY <1>1, <1>3 DEF BoardStep
<1>4. CASE n = 1
  BY <1>1, <1>4 DEF BoardStep
<1>5. CASE n \in 2 .. Size(c) - 2
  BY <1>1, <1>5 DEF BoardStep
<1> QED
  BY <1>1, <1>2, <1>3, <1>4, <1>5

LEMMA NextOnBoard ==
  ASSUME NEW c \in Call, NEW p, EndOf(p, c), p # <<>>, c.kind # "check"
  PROVE  \/ Remaining(p) = Size(c) /\ p[1] = Lock(ChannelOf[c.board])
         \/ Remaining(p) = Size(c) - 1 /\ p[1] = Select(ChannelOf[c.board])
         \/ Remaining(p) = 1 /\ p[1] = Unlock
         \/ Remaining(p) \in 2 .. Size(c) - 2 /\ p[1] = InsideStep(c, Remaining(p))
         \/ /\ c.kind = "setGain" /\ Remaining(p) = 2
            /\ \E f \in SUBSET Field : p[1] = Store(Out, f)
<1>1. Remaining(p) \in 1 .. Size(c) /\ (p[1] = StepOf(c, Remaining(p)) \/ Instead(c, p, 1))
  BY NextStep
<1>2. CASE p[1] = StepOf(c, Remaining(p))
  BY <1>1, <1>2, StepsOfBoard DEF StepOf
<1>3. CASE Instead(c, p, 1)
  BY <1>3 DEF Instead
<1> QED
  BY <1>1, <1>2, <1>3

LEMMA NextOfTest ==
  ASSUME NEW c \in Call, NEW p, EndOf(p, c), p # <<>>, c.kind = "check"
  PROVE  \/ Remaining(p) % 5 = 0 /\ \E ch \in Channels : p[1] = Lock(ch)
         \/ Remaining(p) % 5 = 4 /\ \E ch \in Channels : p[1] = Select(ch)
         \/ Remaining(p) % 5 = 3 /\ \E again \in BOOLEAN : p[1] = Read(SwitchAddr, again)
         \/ Remaining(p) % 5 = 2 /\ \E r \in 0 .. Tries : p[1] = Countdown(r)
         \/ Remaining(p) % 5 = 1 /\ p[1] = Unlock
<1>1. Remaining(p) \in 1 .. Size(c) /\ (p[1] = StepOf(c, Remaining(p)) \/ Instead(c, p, 1))
  BY NextStep
<1>2. Size(c) = 5 * NumChannels /\ NumChannels \in Nat
  BY Constants DEF Size
<1> DEFINE n == Remaining(p)
           ch == TestedChannel(n)
           k == n % 5
<1>3. n \in Nat /\ k \in {0, 1, 2, 3, 4}
  <2> HIDE DEF n
  <2>1. n \in 1 .. 5 * NumChannels
    BY <1>1, <1>2 DEF n
  <2> QED
    BY <1>2, <2>1
<1>4. ch \in Channels
  <2> HIDE DEF n
  <2>1. n \in 1 .. 5 * NumChannels
    BY <1>1, <1>2 DEF n
  <2> QED
    BY <1>2, <2>1 DEF TestedChannel, Channels, NumChannels
<1>5. Tries \in 0 .. Tries
  BY Constants
<1>6. CASE p[1] = StepOf(c, n)
  <2>1. p[1] = TestStep(k, ch)
    BY <1>6 DEF StepOf
  <2> HIDE DEF n, ch, k
  <2>2. k = 0 => p[1] = Lock(ch)
    BY <2>1 DEF TestStep
  <2>3. k = 4 => p[1] = Select(ch)
    BY <2>1 DEF TestStep
  <2>4. k = 3 => p[1] = Read(SwitchAddr, FALSE)
    BY <2>1 DEF TestStep
  <2>5. k = 2 => p[1] = Countdown(Tries)
    BY <2>1 DEF TestStep
  <2>6. k = 1 => p[1] = Unlock
    BY <2>1 DEF TestStep
  <2>7. \/ k = 0 /\ p[1] = Lock(ch)
        \/ k = 4 /\ p[1] = Select(ch)
        \/ k = 3 /\ p[1] = Read(SwitchAddr, FALSE)
        \/ k = 2 /\ p[1] = Countdown(Tries)
        \/ k = 1 /\ p[1] = Unlock
    BY <1>3, <2>2, <2>3, <2>4, <2>5, <2>6
  <2> QED
    BY <1>4, <1>5, <2>7 DEF n, k
<1>7. CASE Instead(c, p, 1)
  BY <1>7 DEF Instead, Again
<1> QED
  BY <1>1, <1>6, <1>7

LEMMA ConfigureSteps ==
  ASSUME NEW b, NEW k \in {1, 2}, NEW n \in 2 .. 8 + k
  PROVE  \/ n = 8 + k /\ ConfigureStep(b, k, n) = Store(Dir, Directions[b])
         \/ n = 7 + k /\ ConfigureStep(b, k, n) = Ask(Dir)
         \/ n = 6 + k /\ ConfigureStep(b, k, n) = Answer
         \/ n = 5 + k /\ ConfigureStep(b, k, n) = Check(Directions[b])
         \/ n \in 5 .. 4 + k /\ ConfigureStep(b, k, n) = Store(Out, Value(b, 5 + k - n))
         \/ n = 4 /\ ConfigureStep(b, k, n) = Ask(Out)
         \/ n = 3 /\ ConfigureStep(b, k, n) = Answer
         \/ n = 2 /\ ConfigureStep(b, k, n) = Check(Final(b))
<1>2. CASE n = 8 + k
  <2>1. ConfigureStep(b, k, n) = Store(Dir, Directions[b])
    BY <1>2 DEF ConfigureStep
  <2> QED
    BY <1>2, <2>1
<1>3. CASE n = 7 + k
  <2>1. ConfigureStep(b, k, n) = Ask(Dir)
    BY <1>3 DEF ConfigureStep
  <2> QED
    BY <1>3, <2>1
<1>4. CASE n = 6 + k
  <2>1. ConfigureStep(b, k, n) = Answer
    BY <1>4 DEF ConfigureStep
  <2> QED
    BY <1>4, <2>1
<1>5. CASE n = 5 + k
  <2>1. ConfigureStep(b, k, n) = Check(Directions[b])
    BY <1>5 DEF ConfigureStep
  <2> QED
    BY <1>5, <2>1
<1>6. CASE n \in 5 .. 4 + k
  <2>1. ConfigureStep(b, k, n) = Store(Out, Value(b, 5 + k - n))
    BY <1>6 DEF ConfigureStep
  <2> QED
    BY <1>6, <2>1
<1>7. CASE n = 4
  <2>1. ConfigureStep(b, k, n) = Ask(Out)
    BY <1>7 DEF ConfigureStep
  <2> QED
    BY <1>7, <2>1
<1>8. CASE n = 3
  <2>1. ConfigureStep(b, k, n) = Answer
    BY <1>8 DEF ConfigureStep
  <2> QED
    BY <1>8, <2>1
<1>9. CASE n = 2
  <2>1. ConfigureStep(b, k, n) = Check(Final(b))
    BY <1>9 DEF ConfigureStep
  <2> QED
    BY <1>9, <2>1
<1>10. n \in {8 + k, 7 + k, 6 + k, 5 + k, 4, 3, 2} \/ n \in 5 .. 4 + k
  OBVIOUS
<1> QED
  BY <1>2, <1>3, <1>4, <1>5, <1>6, <1>7, <1>8, <1>9, <1>10

(* What the next step tells of the call                                    *)
StepFacts(c, n, s) ==
  /\ s.op \in {"lock", "write", "read", "compare", "unlock", "verify", "gain"}
  /\ s.op = "lock" =>
       /\ s.channel \in Channels
       /\ c.kind # "check" => n = Size(c) /\ s.channel = ChannelOf[c.board]
       /\ c.kind = "check" => n % 5 = 0
  /\ s.op # "lock" => /\ c.kind # "check" => n < Size(c)
                      /\ c.kind = "check" => n % 5 # 0
  /\ s.op \in {"write", "read"} =>
       /\ OfBus(s) /\ s # Idle
       /\ s.addr # SwitchAddr => c.kind # "check" /\ n <= Size(c) - 2
       /\ c.kind # "check" => n <= Size(c) - 1 /\ n > 1
       /\ c.kind = "check" => n % 5 \in {3, 4}
  /\ s.op = "unlock" => IF c.kind = "check" THEN n % 5 = 1 ELSE n = 1
  /\ s.op = "compare" => /\ c.kind = "check" /\ n % 5 = 2
                         /\ \E r \in 0 .. Tries : s = Countdown(r)
  /\ s.op = "verify" =>
       /\ c.kind = "configure"
       /\ \/ n = 5 + Values(c.board) /\ s = Check(Directions[c.board])
          \/ n = 2 /\ s = Check(Final(c.board))
  /\ s.op = "gain" => c.kind = "setGain" /\ n = 2 /\ s = Replace(c.gain)

LEMMA TestFacts ==
  ASSUME NEW c \in Call, NEW p, EndOf(p, c), p # <<>>, c.kind = "check"
  PROVE  StepFacts(c, Remaining(p), p[1])
<1> DEFINE k == Remaining(p) % 5
           s == p[1]
<1>1. \/ k = 0 /\ \E ch \in Channels : s = Lock(ch)
      \/ k = 4 /\ \E ch \in Channels : s = Select(ch)
      \/ k = 3 /\ \E again \in BOOLEAN : s = Read(SwitchAddr, again)
      \/ k = 2 /\ \E r \in 0 .. Tries : s = Countdown(r)
      \/ k = 1 /\ s = Unlock
  BY NextOfTest
<1> HIDE DEF k, s
<1> USE DEF StepFacts
<1>2. CASE k = 0 /\ \E ch \in Channels : s = Lock(ch)
  BY <1>2 DEF Lock, k, s
<1>3. CASE k = 4 /\ \E ch \in Channels : s = Select(ch)
  <2>1. PICK ch \in Channels : s = Select(ch)
    BY <1>3
  <2>2. s.op = "write" /\ s.addr = SwitchAddr
    BY <2>1 DEF Select, Write
  <2>3. OfBus(s)
    BY <2>1, <2>2, Constants DEF OfBus, Select
  <2>4. s # Idle
    BY <2>2 DEF Idle
  <2> QED
    BY <1>3, <2>2, <2>3, <2>4 DEF k, s
<1>4. CASE k = 3 /\ \E again \in BOOLEAN : s = Read(SwitchAddr, again)
  <2>1. s.op = "read" /\ s.addr = SwitchAddr
    BY <1>4 DEF Read
  <2>2. OfBus(s)
    BY <1>4, <2>1 DEF OfBus
  <2>3. s # Idle
    BY <2>1 DEF Idle
  <2> QED
    BY <1>4, <2>1, <2>2, <2>3 DEF k, s
<1>5. CASE k = 2 /\ \E r \in 0 .. Tries : s = Countdown(r)
  <2>1. s.op = "compare"
    BY <1>5 DEF Countdown
  <2> QED
    BY <1>5, <2>1 DEF k, s
<1>6. CASE k = 1 /\ s = Unlock
  BY <1>6 DEF Unlock, k, s
<1> QED
  BY <1>1, <1>2, <1>3, <1>4, <1>5, <1>6

LEMMA BusForms ==
  /\ \A r \in {Dir, Out} : /\ OfBus(Ask(r)) /\ Ask(r) # Idle
                           /\ Ask(r).op = "write"
                           /\ Ask(r).addr = IoextAddr
                           /\ Ask(r).bytes = <<r>>
  /\ \A r \in {Dir, Out}, f \in SUBSET Field :
       /\ OfBus(Store(r, f)) /\ Store(r, f) # Idle
       /\ Store(r, f).op = "write"
       /\ Store(r, f).addr = IoextAddr
       /\ Store(r, f).bytes = <<r, f>>
  /\ \A a \in {SwitchAddr, IoextAddr}, again \in BOOLEAN :
       /\ OfBus(Read(a, again)) /\ Read(a, again) # Idle
       /\ Read(a, again).op = "read"
       /\ Read(a, again).addr = a
       /\ Read(a, again).again = again
  /\ \A ch \in Channels : /\ OfBus(Select(ch)) /\ Select(ch) # Idle
                          /\ Select(ch).op = "write"
                          /\ Select(ch).addr = SwitchAddr
                          /\ Select(ch).bytes = <<{LineOf(ch)}>>
  /\ SwitchAddr # IoextAddr /\ Dir # Out
<1>1. ASSUME NEW r \in {Dir, Out}
      PROVE  /\ OfBus(Ask(r)) /\ Ask(r) # Idle
             /\ Ask(r).op = "write"
             /\ Ask(r).addr = IoextAddr
             /\ Ask(r).bytes = <<r>>
  <2>1. Ask(r).op = "write" /\ Ask(r).addr = IoextAddr
    BY DEF Ask, Write
  <2>2. OfBus(Ask(r))
    BY <2>1 DEF OfBus, Ask
  <2> QED
    BY <2>1, <2>2 DEF Idle, Ask, Write
<1>2. ASSUME NEW r \in {Dir, Out}, NEW f \in SUBSET Field
      PROVE  /\ OfBus(Store(r, f)) /\ Store(r, f) # Idle
             /\ Store(r, f).op = "write"
             /\ Store(r, f).addr = IoextAddr
             /\ Store(r, f).bytes = <<r, f>>
  <2>1. Store(r, f).op = "write" /\ Store(r, f).addr = IoextAddr
    BY DEF Store, Write
  <2>2. OfBus(Store(r, f))
    BY <2>1 DEF OfBus, Store
  <2> QED
    BY <2>1, <2>2 DEF Idle, Store, Write
<1>3. ASSUME NEW a \in {SwitchAddr, IoextAddr}, NEW again \in BOOLEAN
      PROVE  /\ OfBus(Read(a, again)) /\ Read(a, again) # Idle
             /\ Read(a, again).op = "read"
             /\ Read(a, again).addr = a
             /\ Read(a, again).again = again
  <2>1. Read(a, again).op = "read"
    BY DEF Read
  <2>2. OfBus(Read(a, again))
    BY <2>1 DEF OfBus
  <2> QED
    BY <2>1, <2>2 DEF Idle, Read
<1>4. ASSUME NEW ch \in Channels
      PROVE  /\ OfBus(Select(ch)) /\ Select(ch) # Idle
             /\ Select(ch).op = "write"
             /\ Select(ch).addr = SwitchAddr
             /\ Select(ch).bytes = <<{LineOf(ch)}>>
  <2>1. Select(ch).op = "write" /\ Select(ch).addr = SwitchAddr
    BY DEF Select, Write
  <2>2. OfBus(Select(ch))
    BY <2>1, Constants DEF OfBus, Select
  <2> QED
    BY <2>1, <2>2 DEF Idle, Select, Write
<1>5. SwitchAddr # IoextAddr /\ Dir # Out
  BY DEF SwitchAddr, IoextAddr, Dir, Out
<1> QED
  BY <1>1, <1>2, <1>3, <1>4, <1>5

LEMMA NextOfConfigure ==
  ASSUME NEW c \in Call, NEW p, EndOf(p, c), p # <<>>, c.kind = "configure",
         Remaining(p) \in 2 .. Size(c) - 2, NEW k \in {1, 2}, k = Values(c.board)
  PROVE  \/ Remaining(p) = 8 + k /\ p[1] = Store(Dir, Directions[c.board])
         \/ Remaining(p) = 7 + k /\ p[1] = Ask(Dir)
         \/ Remaining(p) = 6 + k /\ p[1] = Answer
         \/ Remaining(p) = 5 + k /\ p[1] = Check(Directions[c.board])
         \/ Remaining(p) \in 5 .. 4 + k /\ p[1] = Store(Out, Value(c.board, 5 + k - Remaining(p)))
         \/ Remaining(p) = 4 /\ p[1] = Ask(Out)
         \/ Remaining(p) = 3 /\ p[1] = Answer
         \/ Remaining(p) = 2 /\ p[1] = Check(Final(c.board))
<1>1. Size(c) = 10 + k
  BY DEF Size
<1>2. p[1] = InsideStep(c, Remaining(p))
  BY <1>1, NextOnBoard
<1>3. p[1] = ConfigureStep(c.board, k, Remaining(p))
  BY <1>2 DEF InsideStep
<1>4. Remaining(p) \in 2 .. 8 + k
  BY <1>1
<1> QED
  BY <1>3, <1>4, ConfigureSteps, SMTT(60)

LEMMA NextOfGain ==
  ASSUME NEW c \in Call, NEW p, EndOf(p, c), p # <<>>, c.kind = "setGain",
         Remaining(p) \in 2 .. Size(c) - 2
  PROVE  \/ Remaining(p) = 4 /\ p[1] = Ask(Out)
         \/ Remaining(p) = 3 /\ p[1] = Answer
         \/ Remaining(p) = 2 /\ p[1] = Replace(c.gain)
         \/ Remaining(p) = 2 /\ \E f \in SUBSET Field : p[1] = Store(Out, f)
<1>1. Size(c) = 6
  BY DEF Size
<1>2. Remaining(p) \in {2, 3, 4}
  BY <1>1
<1>3. \/ p[1] = InsideStep(c, Remaining(p))
      \/ Remaining(p) = 2 /\ \E f \in SUBSET Field : p[1] = Store(Out, f)
  BY <1>1, NextOnBoard
<1>4. ASSUME p[1] = InsideStep(c, Remaining(p))
      PROVE  \/ Remaining(p) = 4 /\ p[1] = Ask(Out)
             \/ Remaining(p) = 3 /\ p[1] = Answer
             \/ Remaining(p) = 2 /\ p[1] = Replace(c.gain)
  <2>1. p[1] = GainStep(c.gain, Remaining(p))
    BY <1>4 DEF InsideStep
  <2> QED
    BY <1>2, <2>1 DEF GainStep
<1> QED
  BY <1>3, <1>4

LEMMA NextOfGet ==
  ASSUME NEW c \in Call, NEW p, EndOf(p, c), p # <<>>,
         c.kind \in Getters, Remaining(p) \in 2 .. Size(c) - 2
  PROVE  /\ Asked(c.kind) \in {Dir, Out}
         /\ \/ Remaining(p) = 3 /\ p[1] = Ask(Asked(c.kind))
            \/ Remaining(p) = 2 /\ p[1] = Answer
<1>1. Size(c) = 5 /\ c.kind \notin {"configure", "setGain", "check"}
  BY DEF Size, Getters
<1>2. Remaining(p) \in {2, 3}
  BY <1>1
<1>3. p[1] = InsideStep(c, Remaining(p))
  BY <1>1, NextOnBoard
<1>4. p[1] = GetStep(c.kind, Remaining(p))
  BY <1>1, <1>3 DEF InsideStep
<1>5. Remaining(p) = 3 => p[1] = Ask(Asked(c.kind))
  BY <1>4 DEF GetStep
<1>6. Remaining(p) = 2 => p[1] = Answer
  BY <1>4 DEF GetStep
<1>7. Asked(c.kind) \in {Dir, Out}
  BY DEF Asked
<1> QED
  BY <1>2, <1>5, <1>6, <1>7

LEMMA BoardFacts ==
  ASSUME NEW c \in Call, NEW p, EndOf(p, c), p # <<>>, c.kind # "check"
  PROVE  StepFacts(c, Remaining(p), p[1])
<1> DEFINE n == Remaining(p)
           s == p[1]
<1>1. Size(c) \in Nat /\ Size(c) >= 5 /\ n \in 1 .. Size(c)
  BY Sizes, NextStep
<1>2. /\ c.kind \in {"configure", "getDir", "getOut", "setGain", "getGain"}
      /\ c.board \in Board /\ ChannelOf[c.board] \in Channels
  BY Kinds, Constants
<1>3. CASE n = Size(c) /\ s = Lock(ChannelOf[c.board])
  <2>1. s.op = "lock" /\ s.channel = ChannelOf[c.board]
    BY <1>3 DEF Lock
  <2> QED
    BY <1>1, <1>2, <1>3, <2>1 DEF StepFacts
<1>4. CASE n = Size(c) - 1 /\ s = Select(ChannelOf[c.board])
  <2>1. s.op = "write" /\ s.addr = SwitchAddr /\ OfBus(s) /\ s # Idle
    BY <1>2, <1>4, BusForms
  <2> HIDE DEF n, s
  <2>2. n < Size(c) /\ n > 1
    BY <1>1, <1>4
  <2> QED
    BY <1>1, <1>4, <2>1, <2>2 DEF StepFacts, n, s
<1>5. CASE n = 1 /\ s = Unlock
  <2>1. s.op = "unlock"
    BY <1>5 DEF Unlock
  <2> HIDE DEF n, s
  <2>2. n < Size(c)
    BY <1>1, <1>5
  <2> QED
    BY <1>5, <2>1, <2>2 DEF StepFacts, n, s
<1>6. CASE n \in 2 .. Size(c) - 2
  <2>1. \/ s \in {Store(Dir, Directions[c.board]), Ask(Dir), Ask(Out), Answer}
        \/ \E f \in SUBSET Field : s = Store(Out, f)
        \/ /\ c.kind = "configure"
           /\ \/ n = 5 + Values(c.board) /\ s = Check(Directions[c.board])
              \/ n = 2 /\ s = Check(Final(c.board))
        \/ c.kind = "setGain" /\ n = 2 /\ s = Replace(c.gain)
    <3>1. CASE c.kind = "configure"
      <4>1. PICK k \in {1, 2} : k = Values(c.board)
        BY <1>2, TwoBoards
      <4>2. ASSUME n \in 5 .. 4 + k PROVE Value(c.board, 5 + k - n) \in SUBSET Field
        <5> HIDE DEF n
        <5>1. 5 + k - n \in 1 .. k
          BY <4>2
        <5> QED
          BY <1>2, <4>1, <5>1, TwoBoards
      <4> QED
        BY <1>6, <3>1, <4>1, <4>2, NextOfConfigure
    <3>2. CASE c.kind = "setGain"
      BY <1>6, <3>2, NextOfGain
    <3>3. CASE c.kind \in Getters
      BY <1>6, <3>3, NextOfGet
    <3> QED
      BY <1>2, <3>1, <3>2, <3>3 DEF Getters
  <2> HIDE DEF n, s
  <2>2. n < Size(c) /\ n > 1 /\ n <= Size(c) - 2 /\ n <= Size(c) - 1
    BY <1>1, <1>6
  <2>3. ASSUME \/ s \in {Store(Dir, Directions[c.board]), Ask(Dir), Ask(Out), Answer}
               \/ \E f \in SUBSET Field : s = Store(Out, f)
        PROVE  StepFacts(c, n, s)
    <3>1. Directions[c.board] \in SUBSET Field
      BY <1>2, TwoBoards
    <3>2. s.op \in {"write", "read"} /\ OfBus(s) /\ s # Idle
      <4>1. CASE s \in {Store(Dir, Directions[c.board]), Ask(Dir), Ask(Out)}
        BY <3>1, <4>1, BusForms
      <4>2. CASE s = Answer
        BY <4>2, BusForms DEF Answer
      <4>3. CASE \E f \in SUBSET Field : s = Store(Out, f)
        BY <4>3, BusForms
      <4> QED
        BY <2>3, <4>1, <4>2, <4>3
    <3> QED
      BY <1>2, <2>2, <3>2 DEF StepFacts
  <2>4. ASSUME c.kind = "configure",
               \/ n = 5 + Values(c.board) /\ s = Check(Directions[c.board])
               \/ n = 2 /\ s = Check(Final(c.board))
        PROVE  StepFacts(c, n, s)
    <3>1. s.op = "verify"
      BY <2>4 DEF Check
    <3> QED
      BY <2>2, <2>4, <3>1 DEF StepFacts
  <2>5. ASSUME c.kind = "setGain", n = 2, s = Replace(c.gain)
        PROVE  StepFacts(c, n, s)
    <3>1. s.op = "gain"
      BY <2>5 DEF Replace
    <3> QED
      BY <2>2, <2>5, <3>1 DEF StepFacts
  <2> QED
    BY <2>1, <2>3, <2>4, <2>5 DEF n, s
<1>7. n \in {Size(c), Size(c) - 1, 1} \/ n \in 2 .. Size(c) - 2
  <2> HIDE DEF n
  <2> QED
    BY <1>1
<1> QED
  BY <1>1, <1>3, <1>4, <1>5, <1>6, <1>7, NextOnBoard

-----------------------------------------------------------------------------
(* ---- A call begins with its whole program --------------------------------- *)

IsJoined(p, s, m, u, n) ==
  /\ Sequence(p)
  /\ Remaining(p) = m + n
  /\ \A i \in 1 .. m : p[i] = s[i]
  /\ \A i \in 1 .. n : p[m + i] = u[i]

LEMMA Joined ==
  ASSUME NEW s, NEW u, Sequence(s), Sequence(u), NEW m \in Nat, NEW n \in Nat,
         Remaining(s) = m, Remaining(u) = n, NEW p, p = s \o u
  PROVE  IsJoined(p, s, m, u, n)
<1> DEFINE S == Range(s) \cup Range(u)
<1>1. s \in Seq(S) /\ u \in Seq(S)
  <2>1. Range(s) \subseteq S /\ Range(u) \subseteq S
    OBVIOUS
  <2> HIDE DEF S
  <2> QED
    BY <2>1, SeqMonotonic DEF Sequence
<1> HIDE DEF S
<1>2. /\ s \o u \in Seq(S)
      /\ Len(s \o u) = Len(s) + Len(u)
      /\ \A i \in 1 .. Len(s) + Len(u) :
           (s \o u)[i] = IF i <= Len(s) THEN s[i] ELSE u[i - Len(s)]
  BY <1>1, ConcatProperties
<1>3. \A i \in 1 .. m + n : (s \o u)[i] = IF i <= m THEN s[i] ELSE u[i - m]
  BY <1>2 DEF Remaining
<1>4. Sequence(s \o u) /\ Remaining(s \o u) = m + n
  BY <1>2, OfItsRange DEF Remaining
<1>5. ASSUME NEW i \in 1 .. m PROVE (s \o u)[i] = s[i]
  <2>1. i \in 1 .. m + n /\ i <= m
    OBVIOUS
  <2> QED
    BY <1>3, <2>1
<1>6. ASSUME NEW i \in 1 .. n PROVE (s \o u)[m + i] = u[i]
  <2>1. m + i \in 1 .. m + n /\ ~ (m + i <= m) /\ (m + i) - m = i
    OBVIOUS
  <2> QED
    BY <1>3, <2>1
<1> QED
  BY <1>4, <1>5, <1>6 DEF IsJoined

LEMMA Tuples ==
  /\ \A a : Sequence(<<a>>) /\ Remaining(<<a>>) = 1 /\ <<a>>[1] = a
  /\ \A a, b : /\ Sequence(<<a, b>>) /\ Remaining(<<a, b>>) = 2
               /\ <<a, b>>[1] = a /\ <<a, b>>[2] = b
<1>1. ASSUME NEW a PROVE Sequence(<<a>>)
  <2>1. <<a>> \in Seq({a})
    OBVIOUS
  <2> QED
    BY <2>1, OfItsRange
<1>2. ASSUME NEW a, NEW b PROVE Sequence(<<a, b>>)
  <2>1. <<a, b>> \in Seq({a, b})
    OBVIOUS
  <2> QED
    BY <2>1, OfItsRange
<1> QED
  BY <1>1, <1>2 DEF Remaining

LEMMA BoardProgram ==
  ASSUME NEW b, NEW body, Sequence(body), NEW n \in Nat, Remaining(body) = n
  PROVE  LET p == OnBoard(b, body) IN
         /\ Sequence(p) /\ Remaining(p) = n + 3
         /\ p[1] = Lock(ChannelOf[b]) /\ p[2] = Select(ChannelOf[b])
         /\ \A i \in 1 .. n : p[2 + i] = body[i]
         /\ p[n + 3] = Unlock
<1> DEFINE a == SetAndLockChannel(ChannelOf[b])
           q == a \o body
           p == q \o UnlockChannel
<1>1. Sequence(a) /\ Remaining(a) = 2 /\ a[1] = Lock(ChannelOf[b]) /\ a[2] = Select(ChannelOf[b])
  BY Tuples DEF SetAndLockChannel, Lock, Select
<1>2. Sequence(UnlockChannel) /\ Remaining(UnlockChannel) = 1 /\ UnlockChannel[1] = Unlock
  BY Tuples DEF UnlockChannel, Unlock
<1> HIDE DEF a
<1>3. /\ Sequence(q) /\ Remaining(q) = 2 + n
      /\ \A i \in 1 .. 2 : q[i] = a[i]
      /\ \A i \in 1 .. n : q[2 + i] = body[i]
  <2>1. Sequence(a) /\ Remaining(a) = 2 /\ 2 \in Nat
    BY <1>1
  <2> HIDE DEF q
  <2>2. q = a \o body
    BY DEF q
  <2>3. IsJoined(q, a, 2, body, n)
    BY <2>1, <2>2, Joined
  <2> QED
    BY <2>3 DEF IsJoined
<1> HIDE DEF q
<1>4. /\ Sequence(p) /\ Remaining(p) = (2 + n) + 1
      /\ \A i \in 1 .. 2 + n : p[i] = q[i]
      /\ \A i \in 1 .. 1 : p[(2 + n) + i] = UnlockChannel[i]
  <2>1. Sequence(UnlockChannel) /\ Remaining(UnlockChannel) = 1 /\ 1 \in Nat /\ 2 + n \in Nat
    BY <1>2
  <2> HIDE DEF p
  <2>2. p = q \o UnlockChannel
    BY DEF p
  <2>3. IsJoined(p, q, 2 + n, UnlockChannel, 1)
    BY <1>3, <2>1, <2>2, Joined
  <2> QED
    BY <2>3 DEF IsJoined
<1> HIDE DEF p
<1>5. p[1] = Lock(ChannelOf[b]) /\ p[2] = Select(ChannelOf[b])
  BY <1>1, <1>3, <1>4
<1>6. ASSUME NEW i \in 1 .. n PROVE p[2 + i] = body[i]
  <2>1. 2 + i \in 1 .. 2 + n
    OBVIOUS
  <2> QED
    BY <1>3, <1>4, <2>1
<1>7. p[n + 3] = Unlock
  <2>1. n + 3 = (2 + n) + 1
    OBVIOUS
  <2> QED
    BY <1>2, <1>4, <2>1
<1>8. Remaining(p) = n + 3
  BY <1>4
<1>9. p = OnBoard(b, body)
  BY DEF OnBoard, p, q, a
<1> QED
  BY <1>4, <1>5, <1>6, <1>7, <1>8, <1>9

(* A board's program is its body between the channel's lock and its release *)
LEMMA BodySuffices ==
  ASSUME NEW c \in Call, c.kind # "check",
         NEW body, Sequence(body), NEW n \in Nat, Remaining(body) = n, Size(c) = n + 3,
         \A i \in 1 .. n : body[i] = InsideStep(c, (n + 2) - i),
         NEW p, p = OnBoard(c.board, body)
  PROVE  EndOf(p, c) /\ Remaining(p) = Size(c)
<1>1. /\ Sequence(p) /\ Remaining(p) = n + 3
      /\ p[1] = Lock(ChannelOf[c.board]) /\ p[2] = Select(ChannelOf[c.board])
      /\ \A i \in 1 .. n : p[2 + i] = body[i]
      /\ p[n + 3] = Unlock
  BY BoardProgram
<1>2. ASSUME NEW i \in 1 .. n + 3 PROVE p[i] = StepOf(c, (n + 3) + 1 - i)
  <2> DEFINE j == (n + 3) + 1 - i
  <2>1. j \in 1 .. Size(c)
    OBVIOUS
  <2>2. \/ j = Size(c) /\ BoardStep(c, j) = Lock(ChannelOf[c.board])
        \/ j = Size(c) - 1 /\ BoardStep(c, j) = Select(ChannelOf[c.board])
        \/ j = 1 /\ BoardStep(c, j) = Unlock
        \/ j \in 2 .. Size(c) - 2 /\ BoardStep(c, j) = InsideStep(c, j)
    BY <2>1, StepsOfBoard
  <2>3. StepOf(c, j) = BoardStep(c, j)
    BY DEF StepOf
  <2>4. CASE i = 1
    <3>1. j = n + 3
      BY <2>4
    <3> QED
      BY <1>1, <2>2, <2>3, <2>4, <3>1
  <2>5. CASE i = 2
    <3>1. j = n + 2
      BY <2>5
    <3> QED
      BY <1>1, <2>2, <2>3, <2>5, <3>1, Sizes
  <2>6. CASE i = n + 3
    <3>1. j = 1
      BY <2>6
    <3> QED
      BY <1>1, <2>2, <2>3, <2>6, <3>1, Sizes
  <2>7. CASE i \in 3 .. n + 2
    <3>1. i - 2 \in 1 .. n /\ 2 + (i - 2) = i /\ (n + 2) - (i - 2) = j /\ j \in 2 .. Size(c) - 2
      BY <2>7
    <3>2. p[i] = InsideStep(c, j)
      BY <1>1, <3>1
    <3> QED
      BY <2>2, <2>3, <3>1, <3>2, Sizes
  <2>8. i \in {1, 2, n + 3} \/ i \in 3 .. n + 2
    OBVIOUS
  <2> QED
    BY <2>4, <2>5, <2>6, <2>7, <2>8
<1> QED
  BY <1>1, <1>2 DEF EndOf

LEMMA BeginsGet ==
  ASSUME NEW c \in Call, c.kind \in Getters
  PROVE  EndOf(Program(c), c) /\ Remaining(Program(c)) = Size(c)
<1> DEFINE r == Asked(c.kind)
           body == GetIoext(r)
<1>1. Program(c) = OnBoard(c.board, body)
  BY DEF Program, Getters, Asked
<1>2. /\ Sequence(body) /\ Remaining(body) = 2 /\ 2 \in Nat
      /\ body[1] = Ask(r) /\ body[2] = Answer
  BY Tuples DEF GetIoext, ReadRegister, Ask, Answer
<1>3. Size(c) = 2 + 3
  BY DEF Size, Getters
<1>4. \A n : InsideStep(c, n) = GetStep(c.kind, n)
  BY DEF InsideStep, Getters
<1>5. GetStep(c.kind, 3) = Ask(r) /\ GetStep(c.kind, 2) = Answer
  BY DEF GetStep
<1> HIDE DEF r, body
<1>6. \A i \in 1 .. 2 : body[i] = InsideStep(c, (2 + 2) - i)
  <2>1. body[1] = InsideStep(c, (2 + 2) - 1) /\ body[2] = InsideStep(c, (2 + 2) - 2)
    BY <1>2, <1>4, <1>5
  <2> QED
    BY <2>1
<1>7. c.kind # "check"
  BY DEF Getters
<1> QED
  BY <1>1, <1>2, <1>3, <1>6, <1>7, BodySuffices

LEMMA BeginsSetGain ==
  ASSUME NEW c \in Call, c.kind = "setGain"
  PROVE  EndOf(Program(c), c) /\ Remaining(Program(c)) = Size(c)
<1> DEFINE a == GetIoext(Out)
           z == <<Replace(c.gain)>>
           body == SetGain(c.gain)
<1>1. Program(c) = OnBoard(c.board, body)
  BY DEF Program
<1>2. Sequence(a) /\ Remaining(a) = 2 /\ 2 \in Nat /\ a[1] = Ask(Out) /\ a[2] = Answer
  BY Tuples DEF GetIoext, ReadRegister, Ask, Answer
<1>3. Sequence(z) /\ Remaining(z) = 1 /\ 1 \in Nat /\ z[1] = Replace(c.gain)
  BY Tuples
<1>4. body = a \o z
  BY DEF SetGain, Replace
<1> HIDE DEF a, z, body
<1>5. IsJoined(body, a, 2, z, 1)
  BY <1>2, <1>3, <1>4, Joined
<1>6. /\ Sequence(body) /\ Remaining(body) = 3 /\ 3 \in Nat
      /\ body[1] = Ask(Out) /\ body[2] = Answer /\ body[3] = Replace(c.gain)
  <2>1. body[2 + 1] = z[1]
    BY <1>5 DEF IsJoined
  <2> QED
    BY <1>2, <1>3, <1>5, <2>1 DEF IsJoined
<1>7. Size(c) = 3 + 3
  BY DEF Size
<1>8. \A n : InsideStep(c, n) = GainStep(c.gain, n)
  BY DEF InsideStep
<1>9. /\ GainStep(c.gain, 4) = Ask(Out) /\ GainStep(c.gain, 3) = Answer
      /\ GainStep(c.gain, 2) = Replace(c.gain)
  BY DEF GainStep
<1>10. \A i \in 1 .. 3 : body[i] = InsideStep(c, (3 + 2) - i)
  <2>1. /\ body[1] = InsideStep(c, (3 + 2) - 1) /\ body[2] = InsideStep(c, (3 + 2) - 2)
        /\ body[3] = InsideStep(c, (3 + 2) - 3)
    BY <1>6, <1>8, <1>9
  <2> QED
    BY <2>1
<1> QED
  BY <1>1, <1>6, <1>7, <1>10, BodySuffices

LEMMA BeginsConfigure ==
  ASSUME NEW c \in Call, c.kind = "configure"
  PROVE  EndOf(Program(c), c) /\ Remaining(Program(c)) = Size(c)
<1> DEFINE b == c.board
           body == ConfigureHardware(b)
           s1 == SetIoext(Dir, Directions[b])
           s2 == GetIoext(Dir)
           s3 == Verify(Directions[b])
           s4 == [i \in DOMAIN Outputs[b] |-> Write(IoextAddr, <<Out, Outputs[b][i]>>)]
           s5 == GetIoext(Out)
           s6 == Verify(Last(Outputs[b]))
           p2 == s1 \o s2
           p3 == p2 \o s3
           p4 == p3 \o s4
           p5 == p4 \o s5
<1>1. b \in Board
  BY Kinds
<1>2. PICK k \in {1, 2} : k = Values(b)
  BY <1>1, TwoBoards
<1>3. Program(c) = OnBoard(b, body)
  BY DEF Program
<1>4. body = p5 \o s6
  BY DEF ConfigureHardware
<1>5. Sequence(s1) /\ Remaining(s1) = 1 /\ s1[1] = Store(Dir, Directions[b])
  BY Tuples DEF SetIoext, Store
<1>6. Sequence(s2) /\ Remaining(s2) = 2 /\ s2[1] = Ask(Dir) /\ s2[2] = Answer
  BY Tuples DEF GetIoext, ReadRegister, Ask, Answer
<1>7. Sequence(s3) /\ Remaining(s3) = 1 /\ s3[1] = Check(Directions[b])
  BY Tuples DEF Verify, Check
<1>8. Sequence(s4) /\ Remaining(s4) = k /\ \A i \in 1 .. k : s4[i] = Store(Out, Value(b, i))
  <2>1. s4 = [i \in 1 .. k |-> Store(Out, Value(b, i))]
    BY <1>1, <1>2, TwoBoards DEF Store, Value
  <2> DEFINE S == {Store(Out, Value(b, i)) : i \in 1 .. k}
  <2> HIDE DEF s4
  <2>2. s4 \in Seq(S) /\ Len(s4) = k
    BY <2>1
  <2> HIDE DEF S
  <2>3. Sequence(s4) /\ Remaining(s4) = k
    BY <2>2, OfItsRange DEF Remaining
  <2> QED
    BY <2>1, <2>3
<1>9. Sequence(s5) /\ Remaining(s5) = 2 /\ s5[1] = Ask(Out) /\ s5[2] = Answer
  BY Tuples DEF GetIoext, ReadRegister, Ask, Answer
<1>10. Sequence(s6) /\ Remaining(s6) = 1 /\ s6[1] = Check(Final(b))
  BY Tuples DEF Verify, Check, Final
<1> HIDE DEF s1, s2, s3, s4, s5, s6, body
<1>11. 1 \in Nat /\ 2 \in Nat /\ 3 \in Nat /\ 4 \in Nat /\ k \in Nat /\ 4 + k \in Nat /\ 6 + k \in Nat
  OBVIOUS
<1>12. IsJoined(p2, s1, 1, s2, 2)
  BY <1>5, <1>6, <1>11, Joined
<1>13. Sequence(p2) /\ Remaining(p2) = 3
  BY <1>12 DEF IsJoined
<1>14. IsJoined(p3, p2, 3, s3, 1)
  BY <1>7, <1>11, <1>13, Joined
<1>15. Sequence(p3) /\ Remaining(p3) = 4
  BY <1>14 DEF IsJoined
<1>16. IsJoined(p4, p3, 4, s4, k)
  BY <1>8, <1>11, <1>15, Joined
<1>17. Sequence(p4) /\ Remaining(p4) = 4 + k
  BY <1>16 DEF IsJoined
<1>18. IsJoined(p5, p4, 4 + k, s5, 2)
  BY <1>9, <1>11, <1>17, Joined
<1>19. Sequence(p5) /\ Remaining(p5) = 6 + k
  <2>1. (4 + k) + 2 = 6 + k
    OBVIOUS
  <2> QED
    BY <1>18, <2>1 DEF IsJoined
<1>20. IsJoined(body, p5, 6 + k, s6, 1)
  BY <1>4, <1>10, <1>11, <1>19, Joined
<1> HIDE DEF p2, p3, p4, p5
<1>21. p5[1] = s1[1] /\ p5[2] = s2[1] /\ p5[3] = s2[2] /\ p5[4] = s3[1]
  <2>1. p2[1] = s1[1] /\ p2[1 + 1] = s2[1] /\ p2[1 + 2] = s2[2]
    BY <1>12 DEF IsJoined
  <2>2. p3[1] = p2[1] /\ p3[2] = p2[2] /\ p3[3] = p2[3] /\ p3[3 + 1] = s3[1]
    BY <1>14 DEF IsJoined
  <2>3. p4[1] = p3[1] /\ p4[2] = p3[2] /\ p4[3] = p3[3] /\ p4[4] = p3[4]
    BY <1>16 DEF IsJoined
  <2>4. p5[1] = p4[1] /\ p5[2] = p4[2] /\ p5[3] = p4[3] /\ p5[4] = p4[4]
    <3>1. 1 \in 1 .. 4 + k /\ 2 \in 1 .. 4 + k /\ 3 \in 1 .. 4 + k /\ 4 \in 1 .. 4 + k
      OBVIOUS
    <3> QED
      BY <1>18, <3>1 DEF IsJoined
  <2> QED
    BY <2>1, <2>2, <2>3, <2>4
<1>22. \A i \in 1 .. k : p5[4 + i] = s4[i]
  <2>1. ASSUME NEW i \in 1 .. k PROVE 4 + i \in 1 .. 4 + k
    OBVIOUS
  <2> QED
    BY <1>16, <1>18, <2>1 DEF IsJoined
<1>23. p5[(4 + k) + 1] = s5[1] /\ p5[(4 + k) + 2] = s5[2]
  BY <1>18 DEF IsJoined
<1>24. /\ Sequence(body) /\ Remaining(body) = (6 + k) + 1
       /\ \A i \in 1 .. 6 + k : body[i] = p5[i]
       /\ body[(6 + k) + 1] = s6[1]
  BY <1>20 DEF IsJoined
<1>25. Size(c) = (7 + k) + 3 /\ 7 + k \in Nat /\ (6 + k) + 1 = 7 + k
  BY <1>2 DEF Size
<1>26. \A n : InsideStep(c, n) = ConfigureStep(b, k, n)
  BY <1>2 DEF InsideStep
<1> HIDE DEF b
<1>27. ASSUME NEW i \in 1 .. 7 + k
       PROVE  body[i] = InsideStep(c, ((7 + k) + 2) - i)
  <2> DEFINE n == ((7 + k) + 2) - i
  <2>1. n \in 2 .. 8 + k
    OBVIOUS
  <2> HIDE DEF n
  <2>2. \/ n = 8 + k /\ ConfigureStep(b, k, n) = Store(Dir, Directions[b])
        \/ n = 7 + k /\ ConfigureStep(b, k, n) = Ask(Dir)
        \/ n = 6 + k /\ ConfigureStep(b, k, n) = Answer
        \/ n = 5 + k /\ ConfigureStep(b, k, n) = Check(Directions[b])
        \/ n \in 5 .. 4 + k /\ ConfigureStep(b, k, n) = Store(Out, Value(b, 5 + k - n))
        \/ n = 4 /\ ConfigureStep(b, k, n) = Ask(Out)
        \/ n = 3 /\ ConfigureStep(b, k, n) = Answer
        \/ n = 2 /\ ConfigureStep(b, k, n) = Check(Final(b))
    BY <2>1, ConfigureSteps
  <2>3. body[i] = ConfigureStep(b, k, n)
    <3>1. CASE n = 8 + k /\ ConfigureStep(b, k, n) = Store(Dir, Directions[b])
      <4>1. i = 1 /\ 1 \in 1 .. 6 + k
        BY <3>1 DEF n
      <4> QED
        BY <1>5, <1>21, <1>24, <3>1, <4>1
    <3>2. CASE n = 7 + k /\ ConfigureStep(b, k, n) = Ask(Dir)
      <4>1. i = 2 /\ 2 \in 1 .. 6 + k
        BY <3>2 DEF n
      <4> QED
        BY <1>6, <1>21, <1>24, <3>2, <4>1
    <3>3. CASE n = 6 + k /\ ConfigureStep(b, k, n) = Answer
      <4>1. i = 3 /\ 3 \in 1 .. 6 + k
        BY <3>3 DEF n
      <4> QED
        BY <1>6, <1>21, <1>24, <3>3, <4>1
    <3>4. CASE n = 5 + k /\ ConfigureStep(b, k, n) = Check(Directions[b])
      <4>1. i = 4 /\ 4 \in 1 .. 6 + k
        BY <3>4 DEF n
      <4> QED
        BY <1>7, <1>21, <1>24, <3>4, <4>1
    <3>5. CASE n \in 5 .. 4 + k /\ ConfigureStep(b, k, n) = Store(Out, Value(b, 5 + k - n))
      <4> DEFINE j == 5 + k - n
      <4>1. j \in 1 .. k /\ i = 4 + j /\ 4 + j \in 1 .. 6 + k
        BY <3>5 DEF n
      <4> HIDE DEF j
      <4>2. body[i] = s4[j]
        BY <1>22, <1>24, <4>1
      <4>3. s4[j] = Store(Out, Value(b, j))
        BY <1>8, <4>1
      <4> QED
        BY <3>5, <4>2, <4>3 DEF j
    <3>6. CASE n = 4 /\ ConfigureStep(b, k, n) = Ask(Out)
      <4>1. i = (4 + k) + 1 /\ (4 + k) + 1 \in 1 .. 6 + k
        BY <3>6 DEF n
      <4> QED
        BY <1>9, <1>23, <1>24, <3>6, <4>1
    <3>7. CASE n = 3 /\ ConfigureStep(b, k, n) = Answer
      <4>1. i = (4 + k) + 2 /\ (4 + k) + 2 \in 1 .. 6 + k
        BY <3>7 DEF n
      <4> QED
        BY <1>9, <1>23, <1>24, <3>7, <4>1
    <3>8. CASE n = 2 /\ ConfigureStep(b, k, n) = Check(Final(b))
      <4>1. i = (6 + k) + 1
        BY <3>8 DEF n
      <4> QED
        BY <1>10, <1>24, <3>8, <4>1
    <3> QED
      BY <2>2, <3>1, <3>2, <3>3, <3>4, <3>5, <3>6, <3>7, <3>8
  <2> QED
    BY <1>26, <2>3 DEF n
<1>28. Remaining(body) = 7 + k
  BY <1>24, <1>25
<1>29. Program(c) = OnBoard(c.board, body)
  BY <1>3 DEF b
<1> QED
  BY <1>24, <1>25, <1>27, <1>28, <1>29, BodySuffices

TestOf(ch) == SetAndLockChannel(ch) \o GetChannel \o UnlockChannel

LEMMA FiveSteps ==
  ASSUME NEW ch, NEW test, test = TestOf(ch)
  PROVE  /\ test[1] = Lock(ch) /\ test[2] = Select(ch) /\ test[3] = Read(SwitchAddr, FALSE)
         /\ test[4] = Countdown(Tries) /\ test[5] = Unlock
<1> DEFINE a == SetAndLockChannel(ch)
           q == a \o GetChannel
<1>1. Sequence(a) /\ Remaining(a) = 2 /\ a[1] = Lock(ch) /\ a[2] = Select(ch)
  BY Tuples DEF SetAndLockChannel, Lock, Select
<1>2. /\ Sequence(GetChannel) /\ Remaining(GetChannel) = 2
      /\ GetChannel[1] = Read(SwitchAddr, FALSE) /\ GetChannel[2] = Countdown(Tries)
  BY Tuples DEF GetChannel, Countdown
<1>3. Sequence(UnlockChannel) /\ Remaining(UnlockChannel) = 1 /\ UnlockChannel[1] = Unlock
  BY Tuples DEF UnlockChannel, Unlock
<1> HIDE DEF a
<1>4. 1 \in Nat /\ 2 \in Nat /\ 4 \in Nat
  OBVIOUS
<1>5. IsJoined(q, a, 2, GetChannel, 2)
  BY <1>1, <1>2, <1>4, Joined
<1>6. Sequence(q) /\ Remaining(q) = 4
  BY <1>5 DEF IsJoined
<1>7. test = q \o UnlockChannel
  BY DEF TestOf, a
<1> HIDE DEF q
<1>8. IsJoined(test, q, 4, UnlockChannel, 1)
  BY <1>3, <1>4, <1>6, <1>7, Joined
<1>9. q[1] = a[1] /\ q[2] = a[2] /\ q[2 + 1] = GetChannel[1] /\ q[2 + 2] = GetChannel[2]
  BY <1>5 DEF IsJoined
<1>10. /\ test[1] = q[1] /\ test[2] = q[2] /\ test[3] = q[3] /\ test[4] = q[4]
       /\ test[4 + 1] = UnlockChannel[1]
  BY <1>8 DEF IsJoined
<1>11. test[1] = Lock(ch) /\ test[2] = Select(ch)
  BY <1>1, <1>9, <1>10
<1>12. q[3] = GetChannel[1] /\ q[4] = GetChannel[2] /\ test[5] = UnlockChannel[1]
  BY <1>9, <1>10
<1>13. test[3] = Read(SwitchAddr, FALSE) /\ test[4] = Countdown(Tries) /\ test[5] = Unlock
  BY <1>2, <1>3, <1>10, <1>12
<1> QED
  BY <1>11, <1>13

LEMMA CountOfTest ==
  ASSUME NEW m \in Nat, NEW k \in 1 .. 5 * m
  PROVE  LET n == 5 * m + 1 - k IN
         /\ n \in 1 .. 5 * m
         /\ m - 1 - ((n - 1) \div 5) = (k - 1) \div 5
         /\ (k - 1) % 5 \in {0, 1, 2, 3, 4}
         /\ (k - 1) % 5 = 0 => n % 5 = 0
         /\ (k - 1) % 5 = 1 => n % 5 = 4
         /\ (k - 1) % 5 = 2 => n % 5 = 3
         /\ (k - 1) % 5 = 3 => n % 5 = 2
         /\ (k - 1) % 5 = 4 => n % 5 = 1
  OBVIOUS

LEMMA BeginsCheck ==
  ASSUME NEW c \in Call, c.kind = "check"
  PROVE  EndOf(Program(c), c) /\ Remaining(Program(c)) = Size(c)
<1> DEFINE m == NumChannels
           p == SelfTest
           Test(ch) == TestOf(ch)
<1>1. m \in Nat /\ Size(c) = 5 * m
  BY Constants DEF Size
<1>2. Program(c) = p
  BY DEF Program
<1>3. p = [k \in 1 .. 5 * m |-> Test((k - 1) \div 5)[((k - 1) % 5) + 1]]
  BY DEF SelfTest, NumChannels, TestOf
<1>4. Sequence(p) /\ Remaining(p) = 5 * m
  <2> DEFINE S == {Test((k - 1) \div 5)[((k - 1) % 5) + 1] : k \in 1 .. 5 * m}
  <2> HIDE DEF p, m, Test
  <2>1. p \in [1 .. 5 * m -> S]
    BY <1>3
  <2> HIDE DEF S
  <2>2. 5 * m \in Nat
    BY <1>1
  <2>3. p \in Seq(S) /\ Len(p) = 5 * m
    BY <2>1, <2>2
  <2> QED
    BY <2>3, OfItsRange DEF Remaining
<1>5. ASSUME NEW k \in 1 .. 5 * m PROVE p[k] = StepOf(c, 5 * m + 1 - k)
  <2> DEFINE n == 5 * m + 1 - k
             ch == (k - 1) \div 5
             j == (k - 1) % 5
             test == Test(ch)
  <2> HIDE DEF p, m
  <2>1. /\ m - 1 - ((n - 1) \div 5) = ch
        /\ j \in {0, 1, 2, 3, 4}
        /\ j = 0 => n % 5 = 0
        /\ j = 1 => n % 5 = 4
        /\ j = 2 => n % 5 = 3
        /\ j = 3 => n % 5 = 2
        /\ j = 4 => n % 5 = 1
    BY <1>1, CountOfTest
  <2>2. /\ test[1] = Lock(ch) /\ test[2] = Select(ch) /\ test[3] = Read(SwitchAddr, FALSE)
        /\ test[4] = Countdown(Tries) /\ test[5] = Unlock
    BY FiveSteps
  <2>3. p[k] = test[j + 1]
    BY <1>3
  <2>4. TestedChannel(n) = ch
    <3> HIDE DEF n, ch
    <3> QED
      BY <2>1 DEF TestedChannel, m
  <2>5. StepOf(c, n) = TestStep(n % 5, ch)
    BY <2>4 DEF StepOf
  <2> HIDE DEF n, ch, j, test
  <2>6. /\ TestStep(0, ch) = Lock(ch) /\ TestStep(4, ch) = Select(ch)
        /\ TestStep(3, ch) = Read(SwitchAddr, FALSE)
        /\ TestStep(2, ch) = Countdown(Tries) /\ TestStep(1, ch) = Unlock
    BY DEF TestStep
  <2>7. CASE j = 0
    <3>1. test[j + 1] = test[1] /\ n % 5 = 0
      BY <2>1, <2>7
    <3> QED
      BY <2>2, <2>3, <2>5, <2>6, <3>1 DEF n
  <2>8. CASE j = 1
    <3>1. test[j + 1] = test[2] /\ n % 5 = 4
      BY <2>1, <2>8
    <3> QED
      BY <2>2, <2>3, <2>5, <2>6, <3>1 DEF n
  <2>9. CASE j = 2
    <3>1. test[j + 1] = test[3] /\ n % 5 = 3
      BY <2>1, <2>9
    <3> QED
      BY <2>2, <2>3, <2>5, <2>6, <3>1 DEF n
  <2>10. CASE j = 3
    <3>1. test[j + 1] = test[4] /\ n % 5 = 2
      BY <2>1, <2>10
    <3> QED
      BY <2>2, <2>3, <2>5, <2>6, <3>1 DEF n
  <2>11. CASE j = 4
    <3>1. test[j + 1] = test[5] /\ n % 5 = 1
      BY <2>1, <2>11
    <3> QED
      BY <2>2, <2>3, <2>5, <2>6, <3>1 DEF n
  <2> QED
    BY <2>1, <2>7, <2>8, <2>9, <2>10, <2>11
<1> HIDE DEF p, m
<1>6. \A i \in 1 .. Remaining(p) : p[i] = StepOf(c, Remaining(p) + 1 - i)
  BY <1>4, <1>5
<1>7. Remaining(p) \in 0 .. Size(c)
  BY <1>1, <1>4
<1>8. EndOf(p, c)
  BY <1>4, <1>6, <1>7 DEF EndOf
<1> QED
  BY <1>1, <1>2, <1>4, <1>8

(* Every call starts with a program that fits it.                          *)
LEMMA Begun ==
  ASSUME NEW c \in Call
  PROVE  EndOf(Program(c), c) /\ Remaining(Program(c)) = Size(c)
  BY Kinds, BeginsGet, BeginsSetGain, BeginsConfigure, BeginsCheck DEF Getters

-----------------------------------------------------------------------------
(* ---- What a call knows after each of its steps ---------------------------- *)

LEMMA StoreEffect ==
  ASSUME NEW m, NEW regs, NEW ptr, NEW byte, NEW r \in {Dir, Out}, NEW f \in SUBSET Field
  PROVE  Happened(Store(r, f), m, regs, ptr, byte) <=> ptr = r /\ regs[r] = f
<1> DEFINE s == Store(r, f)
<1>1. /\ s.op = "write" /\ s.addr # SwitchAddr
      /\ s.bytes[1] = r /\ Len(s.bytes) = 2 /\ s.bytes[2] = f
  BY DEF Store, Write, SwitchAddr, IoextAddr
<1> HIDE DEF s
<1> QED
  BY <1>1 DEF Happened, s

LEMMA SelectEffect ==
  ASSUME NEW m, NEW regs, NEW ptr, NEW byte, NEW ch \in Channels
  PROVE  Happened(Select(ch), m, regs, ptr, byte) <=> m = {LineOf(ch)}
<1> DEFINE s == Select(ch)
<1>1. s.op = "write" /\ s.addr = SwitchAddr /\ s.bytes[1] = {LineOf(ch)}
  BY DEF Select, Write
<1> HIDE DEF s
<1> QED
  BY <1>1 DEF Happened, s

LEMMA Effects ==
  ASSUME NEW m, NEW regs, NEW ptr, NEW byte
  PROVE  /\ \A ch \in Channels : Happened(Select(ch), m, regs, ptr, byte) <=> m = {LineOf(ch)}
         /\ \A r \in {Dir, Out} : Happened(Ask(r), m, regs, ptr, byte) <=> ptr = r
         /\ \A r \in {Dir, Out}, f \in SUBSET Field :
              Happened(Store(r, f), m, regs, ptr, byte) <=> ptr = r /\ regs[r] = f
         /\ Happened(Answer, m, regs, ptr, byte) <=> byte = regs[ptr]
<1>1. \A ch \in Channels : Happened(Select(ch), m, regs, ptr, byte) <=> m = {LineOf(ch)}
  BY SelectEffect
<1>2. \A r \in {Dir, Out} : Happened(Ask(r), m, regs, ptr, byte) <=> ptr = r
  BY BusForms DEF Happened
<1>3. \A r \in {Dir, Out}, f \in SUBSET Field :
        Happened(Store(r, f), m, regs, ptr, byte) <=> ptr = r /\ regs[r] = f
  BY StoreEffect
<1>4. Happened(Answer, m, regs, ptr, byte) <=> byte = regs[ptr]
  BY BusForms DEF Happened, Answer
<1> QED
  BY <1>1, <1>2, <1>3, <1>4

(* What a transfer reads                                                   *)
Bytes(s, da, byte) == IF s.op = "write" THEN da
                      ELSE IF s.again THEN Append(da, byte) ELSE <<byte>>

LEMMA ReadBytes ==
  ASSUME NEW da, NEW byte
  PROVE  /\ \A s : s.op = "write" => Bytes(s, da, byte) = da
         /\ Bytes(Answer, da, byte) = <<byte>>
         /\ Bytes(Read(SwitchAddr, FALSE), da, byte) = <<byte>>
         /\ Bytes(Again, da, byte) = Append(da, byte)
<1>1. \A s : s.op = "write" => Bytes(s, da, byte) = da
  BY DEF Bytes
<1>2. Bytes(Answer, da, byte) = <<byte>>
  BY BusForms DEF Bytes, Answer
<1>3. Bytes(Read(SwitchAddr, FALSE), da, byte) = <<byte>>
  BY BusForms DEF Bytes
<1>4. Bytes(Again, da, byte) = Append(da, byte)
  BY BusForms DEF Bytes, Again
<1> QED
  BY <1>1, <1>2, <1>3, <1>4

LEMMA SecondStep ==
  ASSUME NEW c \in Call, NEW p, EndOf(p, c), Remaining(p) > 1, p # <<>>
  PROVE  /\ Tail(p) # <<>> /\ Tail(p)[1] = p[2] /\ Remaining(Tail(p)) = Remaining(p) - 1
         /\ EndOf(Tail(p), c)
         /\ p[2] = StepOf(c, Remaining(p) - 1) \/ Instead(c, p, 2)
<1> DEFINE n == Remaining(p)
<1>1. /\ n \in Nat /\ Remaining(Tail(p)) = n - 1
      /\ \A i \in 1 .. n - 1 : Tail(p)[i] = p[i + 1]
      /\ Tail(p) = <<>> <=> n = 1
  BY TailOf DEF EndOf
<1>2. EndOf(Tail(p), c)
  BY StepsLeft
<1>3. \A i \in 1 .. n : p[i] = StepOf(c, n + 1 - i) \/ Instead(c, p, i)
  BY DEF EndOf
<1>4. n > 1
  OBVIOUS
<1> HIDE DEF n
<1>5. 1 \in 1 .. n - 1 /\ 2 \in 1 .. n /\ n + 1 - 2 = n - 1 /\ n # 1
  BY <1>1, <1>4
<1>6. Tail(p)[1] = p[1 + 1]
  BY <1>1, <1>5
<1>7. p[2] = StepOf(c, n + 1 - 2) \/ Instead(c, p, 2)
  BY <1>3, <1>5
<1> QED
  BY <1>1, <1>2, <1>5, <1>6, <1>7 DEF n

LEMMA ValueIndex ==
  ASSUME NEW k \in {1, 2}, NEW n \in 5 .. 4 + k
  PROVE  5 + k - n \in 1 .. k /\ (n = 5 => 5 + k - n = k)
  OBVIOUS

(* The steps of configureHardware() that are transfers                     *)
ConfigureTransfer(b, k, n, s) ==
  \/ n = 9 + k /\ s = Select(ChannelOf[b])
  \/ n = 8 + k /\ s = Store(Dir, Directions[b])
  \/ n = 7 + k /\ s = Ask(Dir)
  \/ n = 6 + k /\ s = Answer
  \/ n \in 5 .. 4 + k /\ s = Store(Out, Value(b, 5 + k - n))
  \/ n = 4 /\ s = Ask(Out)
  \/ n = 3 /\ s = Answer

(* and what each of them shows                                             *)
Shown(b, k, n, dir, out, ptr, da) ==
  /\ n = 8 + k => dir = Directions[b]
  /\ n = 7 + k => ptr = Dir
  /\ n = 6 + k => da = <<dir>>
  /\ n = 5 => out = Final(b)
  /\ n = 4 => ptr = Out
  /\ n = 3 => da = <<out>>

LEMMA ConfigureShows ==
  ASSUME NEW b \in Board, NEW k \in {1, 2}, k = Values(b), NEW n \in 2 .. 9 + k,
         NEW s, NEW m, NEW regs, NEW ptr, NEW da, NEW byte,
         KnowsDirections(b, n, regs[Dir], ptr, da),
         KnowsOutputs(b, n, regs[Out], ptr, da),
         Happened(s, m, regs, ptr, byte),
         ConfigureTransfer(b, k, n, s)
  PROVE  Shown(b, k, n, regs[Dir], regs[Out], ptr, Bytes(s, da, byte))
<1>1. n = 8 + k => regs[Dir] = Directions[b]
  <2> SUFFICES ASSUME n = 8 + k PROVE regs[Dir] = Directions[b]
    OBVIOUS
  <2>1. s = Store(Dir, Directions[b])
    BY DEF ConfigureTransfer
  <2>2. PICK d \in SUBSET Field : d = Directions[b]
    BY TwoBoards
  <2>3. Happened(Store(Dir, d), m, regs, ptr, byte) /\ Dir \in {Dir, Out}
    BY <2>1, <2>2
  <2>4. regs[Dir] = d
    BY <2>3, Effects
  <2> QED
    BY <2>2, <2>4
<1>2. n = 7 + k => ptr = Dir
  <2> SUFFICES ASSUME n = 7 + k PROVE ptr = Dir
    OBVIOUS
  <2>1. s = Ask(Dir)
    BY DEF ConfigureTransfer
  <2> QED
    BY <2>1, Effects
<1>3. n = 6 + k => Bytes(s, da, byte) = <<regs[Dir]>>
  <2> SUFFICES ASSUME n = 6 + k PROVE Bytes(s, da, byte) = <<regs[Dir]>>
    OBVIOUS
  <2>1. s = Answer
    BY DEF ConfigureTransfer
  <2>2. ptr = Dir
    BY DEF KnowsDirections
  <2>3. byte = regs[ptr]
    BY <2>1, Effects
  <2>4. Bytes(s, da, byte) = <<byte>>
    BY <2>1, ReadBytes
  <2> QED
    BY <2>2, <2>3, <2>4
<1>4. n = 5 => regs[Out] = Final(b)
  <2> SUFFICES ASSUME n = 5 PROVE regs[Out] = Final(b)
    OBVIOUS
  <2>1. n \in 5 .. 4 + k
    OBVIOUS
  <2>2. 5 + k - n = k
    OBVIOUS
  <2>3. s = Store(Out, Value(b, 5 + k - n))
    BY DEF ConfigureTransfer
  <2>4. s = Store(Out, Value(b, k))
    BY <2>2, <2>3
  <2>5. Value(b, k) \in SUBSET Field /\ Final(b) = Value(b, k)
    BY TwoBoards
  <2>6. Happened(Store(Out, Value(b, k)), m, regs, ptr, byte)
    BY <2>4
  <2> QED
    BY <2>5, <2>6, StoreEffect
<1>5. n = 4 => ptr = Out
  <2> SUFFICES ASSUME n = 4 PROVE ptr = Out
    OBVIOUS
  <2>1. s = Ask(Out)
    BY DEF ConfigureTransfer
  <2> QED
    BY <2>1, Effects
<1>6. n = 3 => Bytes(s, da, byte) = <<regs[Out]>>
  <2> SUFFICES ASSUME n = 3 PROVE Bytes(s, da, byte) = <<regs[Out]>>
    OBVIOUS
  <2>1. s = Answer
    BY DEF ConfigureTransfer
  <2>2. ptr = Out
    BY DEF KnowsOutputs
  <2>3. byte = regs[ptr]
    BY <2>1, Effects
  <2>4. Bytes(s, da, byte) = <<byte>>
    BY <2>1, ReadBytes
  <2> QED
    BY <2>2, <2>3, <2>4
<1> QED
  BY <1>1, <1>2, <1>3, <1>4, <1>5, <1>6 DEF Shown

LEMMA ConfigureNext ==
  ASSUME NEW b \in Board, NEW k \in {1, 2}, k = Values(b), NEW n \in 3 .. 9 + k,
         NEW dir, NEW out, NEW ptr, NEW da, NEW db,
         KnowsDirections(b, n, dir, ptr, da),
         KnowsOutputs(b, n, out, ptr, da),
         Shown(b, k, n, dir, out, ptr, db)
  PROVE  /\ n # 5 + k => KnowsDirections(b, n - 1, dir, ptr, db)
         /\ KnowsOutputs(b, n - 1, out, ptr, db)
<1>1. n # 5 + k => KnowsDirections(b, n - 1, dir, ptr, db)
  BY DEF KnowsDirections, Shown
<1>2. KnowsOutputs(b, n - 1, out, ptr, db)
  BY DEF KnowsOutputs, Shown
<1> QED
  BY <1>1, <1>2

LEMMA TransferOnBoard ==
  ASSUME NEW c \in Call, NEW p, EndOf(p, c), p # <<>>, c.kind # "check",
         p[1].op \in {"write", "read"}
  PROVE  /\ Remaining(p) > 1 /\ Size(c) \in Nat /\ Remaining(p) \in 2 .. Size(c) - 1
         /\ Remaining(p) = Size(c) - 1 => p[1] = Select(ChannelOf[c.board])
<1>1. StepFacts(c, Remaining(p), p[1])
  BY BoardFacts
<1>2. Remaining(p) \in 1 .. Size(c) /\ Size(c) \in Nat /\ Size(c) >= 5
  BY NextStep, Sizes
<1>3. Remaining(p) <= Size(c) - 1 /\ Remaining(p) > 1
  BY <1>1 DEF StepFacts
<1>4. Remaining(p) = Size(c) - 1 => p[1] = Select(ChannelOf[c.board])
  BY <1>2, NextOnBoard
<1> QED
  BY <1>2, <1>3, <1>4

LEMMA ConfigureTransfers ==
  ASSUME NEW c \in Call, NEW p, EndOf(p, c), p # <<>>, c.kind = "configure",
         p[1].op \in {"write", "read"}, NEW k \in {1, 2}, k = Values(c.board)
  PROVE  /\ ConfigureTransfer(c.board, k, Remaining(p), p[1])
         /\ Remaining(p) # 5 + k /\ Remaining(p) \in 3 .. 9 + k
<1> DEFINE b == c.board
           n == Remaining(p)
           s == p[1]
<1>1. b \in Board
  BY Kinds
<1>2. k = Values(b)
  OBVIOUS
<1>3. Size(c) = 10 + k
  BY <1>2 DEF Size
<1>4. n \in 2 .. 9 + k /\ (n = 9 + k => s = Select(ChannelOf[b]))
  <2>1. n \in 2 .. Size(c) - 1 /\ (n = Size(c) - 1 => s = Select(ChannelOf[b]))
    BY TransferOnBoard
  <2> QED
    BY <1>3, <2>1
<1>5. n \in 2 .. 8 + k =>
        \/ n = 8 + k /\ s = Store(Dir, Directions[b])
        \/ n = 7 + k /\ s = Ask(Dir)
        \/ n = 6 + k /\ s = Answer
        \/ n = 5 + k /\ s = Check(Directions[b])
        \/ n \in 5 .. 4 + k /\ s = Store(Out, Value(b, 5 + k - n))
        \/ n = 4 /\ s = Ask(Out)
        \/ n = 3 /\ s = Answer
        \/ n = 2 /\ s = Check(Final(b))
  <2> SUFFICES ASSUME n \in 2 .. 8 + k
               PROVE  \/ n = 8 + k /\ s = Store(Dir, Directions[b])
                      \/ n = 7 + k /\ s = Ask(Dir)
                      \/ n = 6 + k /\ s = Answer
                      \/ n = 5 + k /\ s = Check(Directions[b])
                      \/ n \in 5 .. 4 + k /\ s = Store(Out, Value(b, 5 + k - n))
                      \/ n = 4 /\ s = Ask(Out)
                      \/ n = 3 /\ s = Answer
                      \/ n = 2 /\ s = Check(Final(b))
    OBVIOUS
  <2>1. n \in 2 .. Size(c) - 2
    BY <1>3
  <2> QED
    BY <1>2, <2>1, NextOfConfigure
<1>6. \A f : Check(f).op = "verify"
  BY DEF Check
<1>7. s.op # "verify"
  OBVIOUS
<1> HIDE DEF n, s, b
<1>8. ConfigureTransfer(b, k, n, s) /\ n # 5 + k /\ n \in 3 .. 9 + k
  <2>1. s # Check(Directions[b]) /\ s # Check(Final(b))
    BY <1>6, <1>7
  <2>2. CASE n = 9 + k
    BY <1>4, <2>2 DEF ConfigureTransfer
  <2>3. CASE n \in 2 .. 8 + k
    <3>1. \/ n = 8 + k /\ s = Store(Dir, Directions[b])
          \/ n = 7 + k /\ s = Ask(Dir)
          \/ n = 6 + k /\ s = Answer
          \/ n \in 5 .. 4 + k /\ s = Store(Out, Value(b, 5 + k - n))
          \/ n = 4 /\ s = Ask(Out)
          \/ n = 3 /\ s = Answer
      BY <1>5, <2>1, <2>3
    <3>2. ConfigureTransfer(b, k, n, s)
      BY <3>1 DEF ConfigureTransfer
    <3>3. n # 5 + k /\ n \in 3 .. 9 + k
      BY <3>1
    <3> QED
      BY <3>2, <3>3
  <2> QED
    BY <1>4, <2>2, <2>3
<1> QED
  BY <1>8 DEF n, s, b

LEMMA AfterConfigureTransfer ==
  ASSUME NEW c \in Call, NEW p, EndOf(p, c), p # <<>>, c.kind = "configure",
         p[1].op \in {"write", "read"},
         NEW m, NEW regs, NEW ptr, NEW da, NEW byte,
         Happened(p[1], m, regs, ptr, byte),
         KnowsDirections(c.board, Remaining(p), regs[Dir], ptr, da),
         KnowsOutputs(c.board, Remaining(p), regs[Out], ptr, da)
  PROVE  LET db == Bytes(p[1], da, byte) IN
         /\ KnowsDirections(c.board, Remaining(p) - 1, regs[Dir], ptr, db)
         /\ KnowsOutputs(c.board, Remaining(p) - 1, regs[Out], ptr, db)
<1> DEFINE b == c.board
           n == Remaining(p)
           s == p[1]
<1>1. b \in Board
  BY Kinds
<1>2. PICK k \in {1, 2} : k = Values(b)
  BY <1>1, TwoBoards
<1>8. ConfigureTransfer(b, k, n, s) /\ n # 5 + k /\ n \in 3 .. 9 + k
  BY <1>2, ConfigureTransfers
<1>4. n \in 2 .. 9 + k
  BY <1>8
<1> HIDE DEF n, s, b
<1>9. Shown(b, k, n, regs[Dir], regs[Out], ptr, Bytes(s, da, byte))
  BY <1>1, <1>2, <1>4, <1>8, ConfigureShows DEF n, s, b
<1>10. /\ KnowsDirections(b, n - 1, regs[Dir], ptr, Bytes(s, da, byte))
       /\ KnowsOutputs(b, n - 1, regs[Out], ptr, Bytes(s, da, byte))
  BY <1>1, <1>2, <1>8, <1>9, ConfigureNext DEF n, b
<1> QED
  BY <1>10 DEF n, s, b

LEMMA StoredGain ==
  ASSUME NEW p, NEW f \in SUBSET Field, p[1] = Store(Out, f)
  PROVE  p[1].op = "write" /\ p[1].bytes[2] = f
  BY DEF Store, Write

LEMMA AfterGainTransfer ==
  ASSUME NEW c \in Call, NEW p, EndOf(p, c), p # <<>>, c.kind = "setGain",
         p[1].op \in {"write", "read"},
         NEW m, NEW regs, NEW ptr, NEW da, NEW byte,
         Happened(p[1], m, regs, ptr, byte),
         KnowsGain(c.gain, p, regs[Out], ptr, da)
  PROVE  KnowsGain(c.gain, Tail(p), regs[Out], ptr, Bytes(p[1], da, byte))
<1> DEFINE n == Remaining(p)
           q == Tail(p)
           out == regs[Out]
           db == Bytes(p[1], da, byte)
<1> SUFFICES KnowsGain(c.gain, q, out, ptr, db)
  OBVIOUS
<1>1. Size(c) = 6
  BY DEF Size
<1>2. n \in 2 .. 5 /\ Remaining(p) > 1
  <2>1. n \in 2 .. Size(c) - 1 /\ Remaining(p) > 1
    BY TransferOnBoard
  <2> QED
    BY <1>1, <2>1
<1>3. /\ Remaining(q) = n - 1 /\ q[1] = p[2]
      /\ p[2] = StepOf(c, n - 1) \/ Instead(c, p, 2)
  BY <1>2, SecondStep
<1> HIDE DEF q, db
<1>4. CASE n = 5
  BY <1>3, <1>4 DEF KnowsGain
<1>5. n \in 2 .. 4 =>
        \/ n = 4 /\ p[1] = Ask(Out)
        \/ n = 3 /\ p[1] = Answer
        \/ n = 2 /\ p[1] = Replace(c.gain)
        \/ n = 2 /\ \E f \in SUBSET Field : p[1] = Store(Out, f)
  BY <1>1, NextOfGain
<1>6. CASE n = 4
  <2>1. p[1] = Ask(Out)
    BY <1>5, <1>6
  <2>2. ptr = Out
    BY <2>1, Effects
  <2> QED
    BY <1>3, <1>6, <2>2 DEF KnowsGain
<1>7. CASE n = 3
  <2>1. p[1] = Answer
    BY <1>5, <1>7
  <2>2. ptr = Out
    BY <1>7 DEF KnowsGain
  <2>3. byte = regs[ptr]
    BY <2>1, Effects
  <2>4. db = <<out>>
    BY <2>1, <2>2, <2>3, ReadBytes DEF db
  <2>5. q[1] = Replace(c.gain)
    <3>1. ~ Instead(c, p, 2)
      BY DEF Instead
    <3>2. p[2] = StepOf(c, 2)
      BY <1>3, <1>7, <3>1
    <3>3. BoardStep(c, 2) = InsideStep(c, 2)
      BY <1>1 DEF BoardStep
    <3>4. InsideStep(c, 2) = GainStep(c.gain, 2)
      BY DEF InsideStep
    <3>5. GainStep(c.gain, 2) = Replace(c.gain)
      BY DEF GainStep
    <3>6. StepOf(c, 2) = BoardStep(c, 2)
      BY DEF StepOf
    <3> QED
      BY <1>3, <3>2, <3>3, <3>4, <3>5, <3>6
  <2>6. q[1].op = "gain"
    BY <2>5 DEF Replace
  <2>7. Remaining(q) = 2
    BY <1>3, <1>7
  <2> QED
    BY <2>4, <2>6, <2>7 DEF KnowsGain
<1>8. CASE n = 2
  <2>1. p[1] # Replace(c.gain)
    BY DEF Replace
  <2>2. PICK f \in SUBSET Field : p[1] = Store(Out, f)
    BY <1>5, <1>8, <2>1
  <2>3. p[1].op = "write" /\ p[1].bytes[2] = f
    BY <2>2, StoredGain
  <2>4. f \cap GainFields = c.gain
    BY <1>8, <2>3 DEF KnowsGain
  <2>7. Happened(Store(Out, f), m, regs, ptr, byte)
    BY <2>2
  <2>5. out = f
    BY <2>7, StoreEffect
  <2>6. Remaining(q) = 1
    BY <1>3, <1>8
  <2> QED
    BY <2>4, <2>5, <2>6 DEF KnowsGain
<1> QED
  BY <1>2, <1>4, <1>6, <1>7, <1>8

LEMMA AfterAnswerTransfer ==
  ASSUME NEW c \in Call, NEW p, EndOf(p, c), p # <<>>, c.kind \in Getters,
         p[1].op \in {"write", "read"},
         NEW m, NEW regs, NEW ptr, NEW da, NEW byte,
         Happened(p[1], m, regs, ptr, byte),
         KnowsAnswer(c.kind, Remaining(p), regs, ptr, da)
  PROVE  KnowsAnswer(c.kind, Remaining(p) - 1, regs, ptr, Bytes(p[1], da, byte))
<1>1. PICK n, s, r : n = Remaining(p) /\ s = p[1] /\ r = Asked(c.kind)
  OBVIOUS
<1>2. Size(c) = 5 /\ c.kind # "check"
  BY DEF Size, Getters
<1>3. n \in 2 .. 4
  <2>1. n \in 2 .. Size(c) - 1
    BY <1>1, <1>2, TransferOnBoard
  <2> QED
    BY <1>2, <2>1
<1>4. ASSUME n \in 2 .. 3
      PROVE  r \in {Dir, Out} /\ (n = 3 => s = Ask(r)) /\ (n = 2 => s = Answer)
  <2>1. Remaining(p) \in 2 .. Size(c) - 2
    BY <1>1, <1>2, <1>4
  <2> QED
    BY <1>1, <2>1, NextOfGet
<1>5. CASE n = 4
  BY <1>1, <1>5 DEF KnowsAnswer
<1>6. CASE n = 3
  <2>1. Happened(Ask(r), m, regs, ptr, byte) /\ r \in {Dir, Out}
    BY <1>1, <1>4, <1>6
  <2>2. ptr = r
    BY <2>1, Effects
  <2> QED
    BY <1>1, <1>6, <2>2 DEF KnowsAnswer
<1>7. CASE n = 2
  <2>1. s = Answer
    BY <1>4, <1>7
  <2>2. Happened(Answer, m, regs, ptr, byte) /\ ptr = r
    BY <1>1, <1>7, <2>1 DEF KnowsAnswer
  <2>3. byte = regs[r]
    BY <2>2, Effects
  <2>4. Bytes(s, da, byte) = <<regs[r]>>
    BY <2>1, <2>3, ReadBytes
  <2> QED
    BY <1>1, <1>7, <2>4 DEF KnowsAnswer
<1> QED
  BY <1>3, <1>5, <1>6, <1>7

LEMMA AfterTestTransfer ==
  ASSUME NEW c \in Call, NEW p, EndOf(p, c), p # <<>>, c.kind = "check",
         p[1].op \in {"write", "read"},
         NEW ch, NEW da, NEW byte, KnowsByte(p, ch, da)
  PROVE  KnowsByte(Tail(p), ch, Bytes(p[1], da, byte))
<1> DEFINE n == Remaining(p)
           k == (n - 1) % 5
           q == Tail(p)
           db == Bytes(p[1], da, byte)
<1> SUFFICES KnowsByte(q, ch, db)
  OBVIOUS
<1>1. n % 5 \in {3, 4} /\ n \in Nat
  <2>1. StepFacts(c, n, p[1])
    BY TestFacts
  <2> QED
    BY <2>1, TailOf DEF StepFacts, EndOf
<1>2. n > 1
  <2> HIDE DEF n
  <2> QED
    BY <1>1
<1>3. q[1] = p[2] /\ (p[2] = StepOf(c, n - 1) \/ Instead(c, p, 2))
  BY <1>2, SecondStep
<1>4. StepOf(c, n - 1) = TestStep(k, TestedChannel(n - 1))
  BY DEF StepOf
<1>7. \A x : TestStep(3, x) = Read(SwitchAddr, FALSE) /\ TestStep(2, x) = Countdown(Tries)
  BY DEF TestStep
<1> HIDE DEF q, db
<1>5. CASE n % 5 = 4
  <2>1. ~ Instead(c, p, 2)
    BY <1>5 DEF Instead
  <2>2. k = 3
    <3> HIDE DEF n
    <3> QED
      BY <1>1, <1>5
  <2> HIDE DEF n, k
  <2>3. q[1] = Read(SwitchAddr, FALSE)
    BY <1>3, <1>4, <1>7, <2>1, <2>2
  <2>4. q[1].op = "read" /\ q[1].again = FALSE
    BY <2>3, BusForms
  <2>5. Again.again = TRUE
    BY BusForms DEF Again
  <2> QED
    BY <2>4, <2>5 DEF KnowsByte
<1>6. CASE n % 5 = 3
  <2>1. PICK again \in BOOLEAN : p[1] = Read(SwitchAddr, again)
    BY <1>6, NextOfTest
  <2>2. CASE again = FALSE
    <3>1. p[1].again = FALSE /\ Again.again = TRUE
      BY <2>1, <2>2, BusForms DEF Again
    <3>2. ~ Instead(c, p, 2)
      BY <3>1 DEF Instead
    <3>3. k = 2
      <4> HIDE DEF n
      <4> QED
        BY <1>1, <1>6
    <3> HIDE DEF n, k
    <3>4. q[1] = Countdown(Tries)
      BY <1>3, <1>4, <1>7, <3>2, <3>3
    <3>5. db = <<byte>>
      BY <2>1, <2>2, ReadBytes, ZenonT(60) DEF db
    <3>6. Sequence(<<byte>>) /\ <<byte>> # <<>>
      BY Tuples
    <3> QED
      BY <3>4, <3>5, <3>6 DEF KnowsByte
  <2>3. CASE again = TRUE
    <3>1. p[1] = Again
      BY <2>1, <2>3 DEF Again
    <3>2. Again # Countdown(Tries)
      <4>1. Again.op = "read" /\ Countdown(Tries).op = "compare"
        BY BusForms DEF Again, Countdown
      <4> QED
        BY <4>1
    <3>3. Sequence(da) /\ da # <<>> /\ da[1] # {LineOf(ch)}
      BY <3>1, <3>2 DEF KnowsByte
    <3>4. db = Append(da, byte)
      BY <3>1, ReadBytes DEF db
    <3>5. Sequence(db) /\ db # <<>> /\ db[1] = da[1]
      <4>1. PICK S : da \in Seq(S) /\ byte \in S
        <5>1. da \in Seq(Range(da) \cup {byte})
          <6>1. Range(da) \subseteq Range(da) \cup {byte}
            OBVIOUS
          <6> QED
            BY <3>3, <6>1, SeqMonotonic DEF Sequence
        <5> QED
          BY <5>1
      <4>2. Append(da, byte) \in Seq(S) /\ Append(da, byte) # <<>>
        BY <4>1, AppendProperties
      <4>3. Append(da, byte)[1] = da[1]
        BY <3>3, <4>1, AppendProperties, EmptySeq
      <4> QED
        BY <3>4, <4>2, <4>3, OfItsRange
    <3> QED
      BY <3>3, <3>5 DEF KnowsByte
  <2> QED
    BY <2>2, <2>3
<1> QED
  BY <1>1, <1>5, <1>6

LEMMA KnowsAfterTransfer ==
  ASSUME NEW c \in Call, NEW p, EndOf(p, c), p # <<>>, p[1].op \in {"write", "read"},
         NEW ch, NEW m, NEW regs, NEW ptr, NEW da, NEW byte,
         Happened(p[1], m, regs, ptr, byte),
         Knows(c, p, ch, m, regs, ptr, da)
  PROVE  Knows(c, Tail(p), ch, m, regs, ptr, Bytes(p[1], da, byte))
<1> DEFINE db == Bytes(p[1], da, byte)
           q == Tail(p)
<1> SUFFICES Knows(c, q, ch, m, regs, ptr, db)
  OBVIOUS
<1>1. Remaining(q) = Remaining(p) - 1
  BY TailOf DEF EndOf
<1>2. ASSUME c.kind # "check", Remaining(q) <= Size(c) - 2
      PROVE  m = {LineOf(ch)}
  <2>1. Remaining(p) \in 2 .. Size(c) - 1 /\ Size(c) \in Nat
    BY <1>2, TransferOnBoard
  <2>2. CASE Remaining(p) = Size(c) - 1
    <3>1. p[1] = Select(ChannelOf[c.board])
      BY <1>2, <2>2, TransferOnBoard
    <3>2. ChannelOf[c.board] \in Channels
      BY <1>2, Kinds, Constants
    <3>4. Happened(Select(ChannelOf[c.board]), m, regs, ptr, byte)
      BY <3>1
    <3>3. m = {LineOf(ChannelOf[c.board])}
      BY <3>2, <3>4, SelectEffect
    <3> QED
      BY <1>2, <3>3 DEF Knows
  <2>3. CASE Remaining(p) # Size(c) - 1
    <3>1. Remaining(p) <= Size(c) - 2
      BY <2>1, <2>3
    <3> QED
      BY <1>2, <3>1 DEF Knows
  <2> QED
    BY <2>2, <2>3
<1>3. ASSUME c.kind = "configure"
      PROVE  /\ KnowsDirections(c.board, Remaining(q), regs[Dir], ptr, db)
             /\ KnowsOutputs(c.board, Remaining(q), regs[Out], ptr, db)
  <2>1. /\ KnowsDirections(c.board, Remaining(p), regs[Dir], ptr, da)
        /\ KnowsOutputs(c.board, Remaining(p), regs[Out], ptr, da)
    BY <1>3 DEF Knows
  <2> QED
    BY <1>1, <1>3, <2>1, AfterConfigureTransfer
<1>4. ASSUME c.kind = "setGain" PROVE KnowsGain(c.gain, q, regs[Out], ptr, db)
  <2>1. KnowsGain(c.gain, p, regs[Out], ptr, da)
    BY <1>4 DEF Knows
  <2> QED
    BY <1>4, <2>1, AfterGainTransfer
<1>5. ASSUME c.kind = "check" PROVE KnowsByte(q, ch, db)
  <2>1. KnowsByte(p, ch, da)
    BY <1>5 DEF Knows
  <2> QED
    BY <1>5, <2>1, AfterTestTransfer
<1>6. c.kind # "check" => ch = ChannelOf[c.board]
  BY DEF Knows
<1>7. ASSUME c.kind \in Getters PROVE KnowsAnswer(c.kind, Remaining(q), regs, ptr, db)
  <2>1. KnowsAnswer(c.kind, Remaining(p), regs, ptr, da)
    BY <1>7 DEF Knows
  <2> QED
    BY <1>1, <1>7, <2>1, AfterAnswerTransfer
<1> HIDE DEF q, db
<1> QED
  BY <1>2, <1>3, <1>4, <1>5, <1>6, <1>7 DEF Knows

LEMMA KnowsAfterLock ==
  ASSUME NEW c \in Call, NEW p, EndOf(p, c), p # <<>>, p[1].op = "lock",
         NEW m, NEW regs, NEW ptr, NEW da
  PROVE  Knows(c, Tail(p), p[1].channel, m, regs, ptr, da)
<1> DEFINE q == Tail(p)
           n == Remaining(p)
           ch == p[1].channel
<1> SUFFICES Knows(c, q, ch, m, regs, ptr, da)
  OBVIOUS
<1>1. StepFacts(c, n, p[1])
  BY TestFacts, BoardFacts
<1>2. Remaining(q) = n - 1 /\ n \in Nat /\ n > 0
  BY TailOf DEF EndOf
<1>3. ASSUME c.kind # "check"
      PROVE  ch = ChannelOf[c.board] /\ n = Size(c) /\ Size(c) \in Nat
  BY <1>1, <1>3, Sizes DEF StepFacts
<1>4. ASSUME c.kind = "configure"
      PROVE  /\ KnowsDirections(c.board, Remaining(q), regs[Dir], ptr, da)
             /\ KnowsOutputs(c.board, Remaining(q), regs[Out], ptr, da)
  <2>1. PICK k \in {1, 2} : k = Values(c.board)
    BY <1>4, Kinds, TwoBoards
  <2>2. n = 10 + k
    BY <1>3, <1>4, <2>1 DEF Size
  <2>3. Remaining(q) = 9 + k
    BY <1>2, <2>2
  <2> HIDE DEF q
  <2> QED
    BY <2>1, <2>3 DEF KnowsDirections, KnowsOutputs
<1>5. ASSUME c.kind = "setGain" PROVE KnowsGain(c.gain, q, regs[Out], ptr, da)
  <2>1. n = 6
    BY <1>3, <1>5 DEF Size
  <2>2. Remaining(q) = 5
    BY <1>2, <2>1
  <2> HIDE DEF q
  <2> QED
    BY <2>2 DEF KnowsGain
<1>6. ASSUME c.kind = "check" PROVE KnowsByte(q, ch, da)
  <2> DEFINE k == (n - 1) % 5
  <2>1. n % 5 = 0
    BY <1>1, <1>6 DEF StepFacts
  <2>2. k = 4 /\ n > 1
    <3> HIDE DEF n
    <3> QED
      BY <1>2, <2>1
  <2>3. q[1] = p[2] /\ (p[2] = StepOf(c, n - 1) \/ Instead(c, p, 2))
    BY <2>2, SecondStep
  <2>4. ~ Instead(c, p, 2)
    BY <1>6, <2>1 DEF Instead
  <2>5. StepOf(c, n - 1) = TestStep(k, TestedChannel(n - 1))
    BY <1>6 DEF StepOf
  <2>6. \A x : TestStep(4, x) = Select(x)
    BY DEF TestStep
  <2>7. \A x : Select(x).op = "write" /\ Again.op = "read"
    BY DEF Select, Write, Again, Read
  <2> HIDE DEF q, n, k
  <2>8. q[1].op = "write"
    BY <2>2, <2>3, <2>4, <2>5, <2>6, <2>7
  <2> QED
    BY <2>7, <2>8 DEF KnowsByte
<1>7. ASSUME c.kind # "check" PROVE ~ (Remaining(q) <= Size(c) - 2)
  <2>1. Remaining(q) = Size(c) - 1 /\ Size(c) \in Nat
    BY <1>2, <1>3, <1>7
  <2> QED
    BY <2>1
<1>8. ASSUME c.kind \in Getters PROVE KnowsAnswer(c.kind, Remaining(q), regs, ptr, da)
  <2>1. n = 5
    BY <1>3, <1>8 DEF Size, Getters
  <2>2. Remaining(q) = 4
    BY <1>2, <2>1
  <2> HIDE DEF q
  <2> QED
    BY <2>2 DEF KnowsAnswer
<1> HIDE DEF q, n, ch
<1> QED
  BY <1>3, <1>4, <1>5, <1>6, <1>7, <1>8 DEF Knows

(* What the transfer of a step does to the devices, to the call's own ones *)
Done(s, m1, regs1, ptr1, m2, regs2, ptr2) ==
  IF s.addr = SwitchAddr THEN m2 = s.bytes[1] /\ regs2 = regs1 /\ ptr2 = ptr1
  ELSE /\ m2 = m1
       /\ ptr2 = s.bytes[1]
       /\ regs2 = IF Len(s.bytes) = 2 THEN [regs1 EXCEPT ![s.bytes[1]] = s.bytes[2]] ELSE regs1

LEMMA DoneHappened ==
  ASSUME NEW s, NEW m1, NEW regs1, NEW ptr1, NEW m2, NEW regs2, NEW ptr2, NEW byte,
         OfBus(s), s.op = "write", Done(s, m1, regs1, ptr1, m2, regs2, ptr2),
         s.bytes[1] \in DOMAIN regs1 \/ s.addr = SwitchAddr
  PROVE  Happened(s, m2, regs2, ptr2, byte)
  BY DEF Done, Happened

Registers == [{Dir, Out} -> SUBSET Field]

LEMMA DoneAsk ==
  ASSUME NEW m1, NEW regs1, NEW ptr1, NEW m2, NEW regs2, NEW ptr2, NEW r \in {Dir, Out},
         NEW s, s = Ask(r), Done(s, m1, regs1, ptr1, m2, regs2, ptr2)
  PROVE  regs2 = regs1
<1>1. s.addr # SwitchAddr /\ Len(s.bytes) = 1
  BY DEF Ask, Write, SwitchAddr, IoextAddr
<1> QED
  BY <1>1 DEF Done

LEMMA DoneStore ==
  ASSUME NEW m1, NEW regs1, NEW ptr1, NEW m2, NEW regs2, NEW ptr2, NEW r, NEW f,
         Done(Store(r, f), m1, regs1, ptr1, m2, regs2, ptr2)
  PROVE  regs2 = [regs1 EXCEPT ![r] = f]
<1> DEFINE s == Store(r, f)
<1>1. s.addr # SwitchAddr /\ s.bytes[1] = r /\ s.bytes[2] = f /\ Len(s.bytes) = 2
  BY DEF Store, Write, SwitchAddr, IoextAddr
<1> HIDE DEF s
<1> QED
  BY <1>1 DEF Done, s

LEMMA OnlyAskedOrStored ==
  ASSUME NEW c \in Call, NEW p, EndOf(p, c), p # <<>>, p[1].op = "write", c.kind # "check",
         Remaining(p) <= Size(c) - 2
  PROVE  \/ \E r \in {Dir, Out} : p[1] = Ask(r)
         \/ \E r \in {Dir, Out}, f \in SUBSET Field : p[1] = Store(r, f)
<1> DEFINE n == Remaining(p)
           s == p[1]
<1>1. n \in 2 .. Size(c) - 2
  <2>1. n \in 2 .. Size(c) - 1 /\ Size(c) \in Nat
    BY TransferOnBoard
  <2> QED
    BY <2>1
<1>2. \A x : Check(x).op = "verify" /\ Replace(x).op = "gain" /\ Answer.op = "read"
  BY BusForms DEF Check, Replace, Answer
<1>3. CASE c.kind = "configure"
  <2>1. PICK k \in {1, 2} : k = Values(c.board)
    BY <1>3, Kinds, TwoBoards
  <2>2. \/ s \in {Store(Dir, Directions[c.board]), Ask(Dir), Answer, Ask(Out)}
        \/ s \in {Check(Directions[c.board]), Check(Final(c.board))}
        \/ n \in 5 .. 4 + k /\ s = Store(Out, Value(c.board, 5 + k - n))
    BY <1>1, <1>3, <2>1, NextOfConfigure
  <2>3. s # Answer /\ s # Check(Directions[c.board]) /\ s # Check(Final(c.board))
    BY <1>2
  <2>4. Directions[c.board] \in SUBSET Field
    BY <1>3, Kinds, TwoBoards
  <2>5. ASSUME n \in 5 .. 4 + k PROVE Value(c.board, 5 + k - n) \in SUBSET Field
    <3> HIDE DEF n
    <3>1. 5 + k - n \in 1 .. k
      BY <2>5
    <3> QED
      BY <1>3, <2>1, <3>1, Kinds, TwoBoards
  <2> QED
    BY <2>2, <2>3, <2>4, <2>5
<1>4. CASE c.kind = "setGain"
  <2>1. \/ s \in {Ask(Out), Answer, Replace(c.gain)}
        \/ \E f \in SUBSET Field : s = Store(Out, f)
    BY <1>1, <1>4, NextOfGain
  <2> QED
    BY <1>2, <2>1
<1>5. CASE c.kind \in Getters
  <2>1. s = Answer \/ \E r \in {Dir, Out} : s = Ask(r)
    BY <1>1, <1>5, NextOfGet
  <2> QED
    BY <1>2, <2>1
<1> QED
  BY <1>3, <1>4, <1>5, Kinds DEF Getters

LEMMA ConfigureWrites ==
  ASSUME NEW b \in Board, NEW k \in {1, 2}, k = Values(b), NEW n \in 2 .. 9 + k,
         NEW s, ConfigureTransfer(b, k, n, s), s.op = "write",
         NEW m1, NEW regs1 \in Registers, NEW ptr1,
         NEW m2, NEW regs2, NEW ptr2,
         Done(s, m1, regs1, ptr1, m2, regs2, ptr2)
  PROVE  /\ n <= 7 + k => regs2[Dir] = regs1[Dir]
         /\ n <= 4 => regs2[Out] = regs1[Out]
         /\ n # 6 + k /\ n # 5 + k /\ n # 3 /\ n # 2
<1>1. s # Answer
  BY BusForms DEF Answer
<1>2. n # 6 + k /\ n # 5 + k /\ n # 3 /\ n # 2
  BY <1>1 DEF ConfigureTransfer
<1>3. \A r \in {Dir, Out} : s = Ask(r) => regs2 = regs1
  BY DoneAsk
<1>4. n = 7 + k => regs2 = regs1
  BY <1>3 DEF ConfigureTransfer
<1>5. n = 4 => regs2 = regs1
  BY <1>3 DEF ConfigureTransfer
<1>6. ASSUME n \in 5 .. 4 + k PROVE regs2[Dir] = regs1[Dir]
  <2>1. s = Store(Out, Value(b, 5 + k - n))
    BY <1>6 DEF ConfigureTransfer
  <2>2. 5 + k - n \in 1 .. k
    BY <1>6, ValueIndex
  <2>3. Value(b, 5 + k - n) \in SUBSET Field
    BY <2>2, TwoBoards
  <2> DEFINE v == Value(b, 5 + k - n)
  <2>4. Done(Store(Out, v), m1, regs1, ptr1, m2, regs2, ptr2)
    BY <2>1
  <2> HIDE DEF v
  <2>5. regs2 = [regs1 EXCEPT ![Out] = v]
    BY <2>4, DoneStore
  <2> QED
    BY <2>5 DEF Registers, Dir, Out
<1>7. n = 9 + k \/ n = 8 + k \/ n = 7 + k \/ n = 4 \/ n \in 5 .. 4 + k
  BY <1>2
<1> QED
  BY <1>2, <1>4, <1>5, <1>6, <1>7

(* Until it ends, the transfer's effect does not matter to what is known.  *)
LEMMA KnowsWhileSent ==
  ASSUME NEW c \in Call, NEW p, EndOf(p, c), p # <<>>, p[1].op = "write",
         NEW ch, NEW da, NEW m1, NEW regs1 \in Registers, NEW ptr1,
         NEW m2, NEW regs2, NEW ptr2,
         Done(p[1], m1, regs1, ptr1, m2, regs2, ptr2),
         Knows(c, p, ch, m1, regs1, ptr1, da)
  PROVE  Knows(c, p, ch, m2, regs2, ptr2, da)
<1> DEFINE n == Remaining(p)
           s == p[1]
<1>1. ASSUME c.kind # "check", n <= Size(c) - 2 PROVE m2 = {LineOf(ch)}
  <2>1. m1 = {LineOf(ch)}
    BY <1>1 DEF Knows
  <2>2. s.addr # SwitchAddr
    <3>1. n \in 2 .. Size(c) - 1 /\ Size(c) \in Nat
      BY <1>1, TransferOnBoard
    <3>2. n # Size(c) /\ n # Size(c) - 1 /\ n # 1
      BY <1>1, <3>1
    <3>3. \/ \E r \in {Dir, Out} : s = Ask(r)
          \/ \E r \in {Dir, Out}, f \in SUBSET Field : s = Store(r, f)
      BY <1>1, OnlyAskedOrStored
    <3> QED
      BY <3>3, BusForms
  <2> QED
    BY <2>1, <2>2 DEF Done
<1>2. ASSUME c.kind = "configure"
      PROVE  /\ KnowsDirections(c.board, n, regs2[Dir], ptr2, da)
             /\ KnowsOutputs(c.board, n, regs2[Out], ptr2, da)
  <2>1. /\ KnowsDirections(c.board, n, regs1[Dir], ptr1, da)
        /\ KnowsOutputs(c.board, n, regs1[Out], ptr1, da)
    BY <1>2 DEF Knows
  <2>2. PICK k \in {1, 2} : k = Values(c.board)
    BY <1>2, Kinds, TwoBoards
  <2>3. ConfigureTransfer(c.board, k, n, s) /\ n \in 2 .. 9 + k
    BY <1>2, <2>2, ConfigureTransfers
  <2>7. c.board \in Board
    BY <1>2, Kinds
  <2>4. /\ n <= 7 + k => regs2[Dir] = regs1[Dir]
        /\ n <= 4 => regs2[Out] = regs1[Out]
        /\ n # 6 + k /\ n # 5 + k /\ n # 3 /\ n # 2
    <3> HIDE DEF n
    <3> QED
      BY <2>2, <2>3, <2>7, ConfigureWrites
  <2> HIDE DEF n, s
  <2>5. KnowsDirections(c.board, n, regs2[Dir], ptr2, da)
    BY <2>1, <2>2, <2>4 DEF KnowsDirections
  <2>6. KnowsOutputs(c.board, n, regs2[Out], ptr2, da)
    BY <2>1, <2>4 DEF KnowsOutputs
  <2> QED
    BY <2>5, <2>6
<1>3. ASSUME c.kind = "setGain" PROVE KnowsGain(c.gain, p, regs2[Out], ptr2, da)
  <2>1. KnowsGain(c.gain, p, regs1[Out], ptr1, da)
    BY <1>3 DEF Knows
  <2>2. Size(c) = 6
    BY <1>3 DEF Size
  <2>3. n \in 2 .. 5
    <3>1. n \in 2 .. Size(c) - 1
      BY <1>3, TransferOnBoard
    <3> QED
      BY <2>2, <3>1
  <2>4. CASE n \in {4, 5}
    BY <2>4 DEF KnowsGain
  <2>5. CASE n \in {2, 3}
    <3>1. \/ n = 3 /\ s = Answer
          \/ n = 2 /\ s = Replace(c.gain)
          \/ n = 2 /\ \E f \in SUBSET Field : s = Store(Out, f)
      BY <1>3, <2>2, <2>5, NextOfGain
    <3>9. Answer.op = "read" /\ Replace(c.gain).op = "gain"
      BY DEF Answer, Read, Replace
    <3>2. s # Answer /\ s # Replace(c.gain)
      BY <3>9
    <3>3. n = 2
      BY <3>1, <3>2
    <3>4. PICK f \in SUBSET Field : s = Store(Out, f)
      BY <3>1, <3>2
    <3>5. s.op = "write" /\ s.bytes[2] = f
      BY <3>4, StoredGain
    <3>6. f \cap GainFields = c.gain
      BY <2>1, <3>3, <3>5 DEF KnowsGain
    <3>7. Done(Store(Out, f), m1, regs1, ptr1, m2, regs2, ptr2)
      BY <3>4
    <3>10. regs2 = [regs1 EXCEPT ![Out] = f]
      BY <3>7, DoneStore
    <3>8. regs2[Out] = f
      BY <3>10 DEF Registers
    <3> HIDE DEF s
    <3> QED
      BY <3>3, <3>5, <3>6, <3>8 DEF KnowsGain, s
  <2> QED
    BY <2>3, <2>4, <2>5
<1>4. ASSUME c.kind = "check" PROVE KnowsByte(p, ch, da)
  BY <1>4 DEF Knows
<1>5. c.kind # "check" => ch = ChannelOf[c.board]
  BY DEF Knows
<1>6. ASSUME c.kind \in Getters PROVE KnowsAnswer(c.kind, n, regs2, ptr2, da)
  <2>1. Size(c) = 5 /\ c.kind # "check"
    BY <1>6 DEF Size, Getters
  <2>2. n \in 2 .. Size(c) - 1
    BY <2>1, TransferOnBoard
  <2>3. n \in 2 .. 3 => n = 3 \/ s = Answer
    BY <1>6, <2>1, NextOfGet
  <2>4. Answer.op = "read"
    BY DEF Answer, Read
  <2>5. n \in 3 .. 4
    BY <2>1, <2>2, <2>3, <2>4
  <2> HIDE DEF n
  <2> QED
    BY <2>5 DEF KnowsAnswer
<1> HIDE DEF n, s
<1> QED
  BY <1>1, <1>2, <1>3, <1>4, <1>5, <1>6 DEF Knows, n

LEMMA AllFacts ==
  ASSUME NEW c \in Call, NEW p, EndOf(p, c), p # <<>>
  PROVE  StepFacts(c, Remaining(p), p[1])
  BY TestFacts, BoardFacts

(* Only the release of the switch is followed by its lock, or by nothing.  *)
LEMMA GoesOn ==
  ASSUME NEW c \in Call, NEW p, EndOf(p, c), p # <<>>, p[1].op # "unlock"
  PROVE  Tail(p) # <<>> /\ Tail(p)[1].op # "lock"
<1> DEFINE n == Remaining(p)
           q == Tail(p)
<1>1. /\ n \in 1 .. Size(c) /\ Size(c) \in Nat
      /\ Remaining(q) = n - 1 /\ (q = <<>> <=> n = 1)
      /\ EndOf(q, c)
  BY NextStep, TailOf, StepsLeft, Sizes DEF EndOf
<1>2. Unlock.op = "unlock"
  BY DEF Unlock
<1>3. CASE c.kind # "check"
  <2>1. n # 1
    <3>1. ASSUME n = 1 PROVE FALSE
      <4>1. Size(c) >= 5
        BY Sizes
      <4>2. c.kind = "setGain" => n # 2
        BY <3>1
      <4>3. p[1] = Unlock
        BY <1>1, <1>3, <3>1, <4>1, NextOnBoard
      <4> QED
        BY <1>2, <4>3
    <3> QED
      BY <3>1
  <2>2. q # <<>>
    BY <1>1, <2>1
  <2>3. StepFacts(c, n - 1, q[1])
    BY <1>1, <2>2, AllFacts
  <2>4. n - 1 # Size(c)
    BY <1>1
  <2> HIDE DEF n, q
  <2>5. q[1].op # "lock"
    BY <1>3, <2>3, <2>4 DEF StepFacts
  <2> QED
    BY <2>2, <2>5 DEF q
<1>4. CASE c.kind = "check"
  <2>1. n % 5 # 1
    BY <1>2, <1>4, NextOfTest
  <2>2. n # 1 /\ (n - 1) % 5 # 0
    <3> HIDE DEF n
    <3> QED
      BY <1>1, <2>1
  <2>3. q # <<>>
    BY <1>1, <2>2
  <2>4. StepFacts(c, n - 1, q[1])
    BY <1>1, <2>3, AllFacts
  <2> HIDE DEF n, q
  <2>5. q[1].op # "lock"
    BY <1>4, <2>2, <2>4 DEF StepFacts
  <2> QED
    BY <2>3, <2>5 DEF q
<1> QED
  BY <1>3, <1>4

LEMMA Ends ==
  ASSUME NEW c \in Call, NEW p, EndOf(p, c), p # <<>>, p[1].op = "unlock"
  PROVE  Tail(p) = <<>> \/ Tail(p)[1].op = "lock"
<1> DEFINE n == Remaining(p)
           q == Tail(p)
<1>1. /\ n \in 1 .. Size(c) /\ Size(c) \in Nat
      /\ Remaining(q) = n - 1 /\ (q = <<>> <=> n = 1)
      /\ EndOf(q, c)
  BY NextStep, TailOf, StepsLeft, Sizes DEF EndOf
<1>2. StepFacts(c, n, p[1])
  BY AllFacts
<1>3. CASE c.kind # "check"
  <2>1. n = 1
    BY <1>2, <1>3 DEF StepFacts
  <2> QED
    BY <1>1, <2>1
<1>4. CASE c.kind = "check" /\ q # <<>>
  <2>1. n % 5 = 1
    BY <1>2, <1>4 DEF StepFacts
  <2>2. (n - 1) % 5 = 0
    <3> HIDE DEF n
    <3> QED
      BY <1>1, <2>1
  <2>5. Remaining(q) % 5 = 0
    BY <1>1, <2>2
  <2> HIDE DEF n
  <2>3. \E ch \in Channels : q[1] = Lock(ch)
    <3> HIDE DEF q
    <3> QED
      BY <1>1, <1>4, <2>5, NextOfTest
  <2> HIDE DEF q
  <2>4. q[1].op = "lock"
    BY <2>3 DEF Lock
  <2> QED
    BY <2>4 DEF q
<1> QED
  BY <1>3, <1>4

(* The comparison never fails: it compares what is certain.                *)
LEMMA AfterVerify ==
  ASSUME NEW c \in Call, NEW p, EndOf(p, c), p # <<>>, p[1].op = "verify",
         NEW ch, NEW m, NEW regs, NEW ptr, NEW da,
         Knows(c, p, ch, m, regs, ptr, da)
  PROVE  /\ da = <<p[1].fields>>
         /\ Knows(c, Tail(p), ch, m, regs, ptr, da)
<1> DEFINE n == Remaining(p)
           q == Tail(p)
           b == c.board
<1>1. c.kind = "configure"
  BY AllFacts DEF StepFacts
<1>2. PICK k \in {1, 2} : k = Values(b)
  BY <1>1, Kinds, TwoBoards
<1>3. \/ n = 5 + k /\ p[1] = Check(Directions[b])
      \/ n = 2 /\ p[1] = Check(Final(b))
  BY <1>2, AllFacts DEF StepFacts
<1>4. /\ KnowsDirections(b, n, regs[Dir], ptr, da)
      /\ KnowsOutputs(b, n, regs[Out], ptr, da)
      /\ ch = ChannelOf[b]
      /\ n <= Size(c) - 2 => m = {LineOf(ch)}
  BY <1>1 DEF Knows
<1>5. Size(c) = 10 + k /\ Remaining(q) = n - 1
  BY <1>1, <1>2, TailOf DEF Size, EndOf
<1>6. da = <<p[1].fields>>
  <2>1. \A f : Check(f).fields = f
    BY DEF Check
  <2>2. CASE n = 5 + k /\ p[1] = Check(Directions[b])
    <3>1. da = <<Directions[b]>>
      BY <1>2, <1>4, <2>2 DEF KnowsDirections
    <3> QED
      BY <2>1, <2>2, <3>1
  <2>3. CASE n = 2 /\ p[1] = Check(Final(b))
    <3>1. da = <<Final(b)>>
      BY <1>4, <2>3 DEF KnowsOutputs
    <3> QED
      BY <2>1, <2>3, <3>1
  <2> QED
    BY <1>3, <2>2, <2>3
<1>7. n \in {5 + k, 2} /\ m = {LineOf(ch)}
  BY <1>3, <1>4, <1>5
<1> HIDE DEF n, q, b
<1>8. KnowsDirections(b, n - 1, regs[Dir], ptr, da)
  BY <1>2, <1>4, <1>7 DEF KnowsDirections
<1>9. KnowsOutputs(b, n - 1, regs[Out], ptr, da)
  BY <1>4, <1>7 DEF KnowsOutputs
<1>10. Knows(c, q, ch, m, regs, ptr, da)
  BY <1>1, <1>4, <1>5, <1>7, <1>8, <1>9 DEF Knows, b, Getters
<1> QED
  BY <1>6, <1>10 DEF q

(* Steps put before the rest of a call                                     *)
LEMMA InFront ==
  ASSUME NEW p, Sequence(p), p # <<>>, NEW x, NEW y
  PROVE  /\ IsJoined(<<x>> \o Tail(p), <<x>>, 1, Tail(p), Remaining(p) - 1)
         /\ IsJoined(<<x, y>> \o Tail(p), <<x, y>>, 2, Tail(p), Remaining(p) - 1)
<1>1. /\ Sequence(Tail(p)) /\ Remaining(Tail(p)) = Remaining(p) - 1
      /\ Remaining(p) - 1 \in Nat
  <2>1. Remaining(p) \in Nat /\ Remaining(p) > 0 /\ Sequence(Tail(p))
        /\ Remaining(Tail(p)) = Remaining(p) - 1
    BY TailOf
  <2> QED
    BY <2>1
<1>2. Sequence(<<x>>) /\ Remaining(<<x>>) = 1 /\ Sequence(<<x, y>>) /\ Remaining(<<x, y>>) = 2
  BY Tuples
<1>3. 1 \in Nat /\ 2 \in Nat
  OBVIOUS
<1> QED
  BY <1>1, <1>2, <1>3, Joined

LEMMA AfterGain ==
  ASSUME NEW c \in Call, NEW p, EndOf(p, c), p # <<>>, p[1].op = "gain",
         NEW ch, NEW m, NEW regs \in Registers, NEW ptr, NEW da,
         Knows(c, p, ch, m, regs, ptr, da)
  PROVE  LET f == (da[1] \ GainFields) \cup p[1].gain
             q == SetIoext(Out, f) \o Tail(p)
         IN EndOf(q, c) /\ q # <<>> /\ q[1].op = "write" /\ Knows(c, q, ch, m, regs, ptr, da)
<1> DEFINE n == Remaining(p)
           f == (da[1] \ GainFields) \cup p[1].gain
           x == Store(Out, f)
           q == SetIoext(Out, f) \o Tail(p)
<1>1. c.kind = "setGain" /\ n = 2 /\ p[1] = Replace(c.gain)
  BY AllFacts DEF StepFacts
<1>2. Size(c) = 6 /\ c.gain \in Gain
  BY <1>1, Kinds DEF Size
<1>3. q = <<x>> \o Tail(p)
  BY DEF SetIoext, Store
<1>4. /\ KnowsGain(c.gain, p, regs[Out], ptr, da)
      /\ ch = ChannelOf[c.board]
      /\ n <= Size(c) - 2 => m = {LineOf(ch)}
  BY <1>1 DEF Knows
<1>5. da = <<regs[Out]>> /\ m = {LineOf(ch)}
  BY <1>1, <1>2, <1>4 DEF KnowsGain
<1>6. p[1].gain = c.gain
  BY <1>1 DEF Replace
<1>7. /\ f \in SUBSET Field
      /\ f \ GainFields = regs[Out] \ GainFields
      /\ f \cap GainFields = c.gain
  <2>1. da[1] = regs[Out]
    BY <1>5
  <2>2. regs[Out] \in SUBSET Field
    BY DEF Registers
  <2> QED
    BY <1>2, <1>6, <2>1, <2>2 DEF Gain, GainFields, Field
<1> HIDE DEF f, q, n
<1>8. /\ Sequence(q) /\ Remaining(q) = 2
      /\ q[1] = x /\ q[2] = p[2]
  <2>1. IsJoined(<<x>> \o Tail(p), <<x>>, 1, Tail(p), n - 1)
    BY InFront DEF EndOf, n
  <2>2. IsJoined(q, <<x>>, 1, Tail(p), 1)
    BY <1>1, <1>3, <2>1
  <2>3. <<x>>[1] = x
    OBVIOUS
  <2>4. Tail(p)[1] = p[2]
    BY <1>1, SecondStep DEF n
  <2> DEFINE u == <<x>>
             r == Tail(p)
  <2> HIDE DEF u, r
  <2>5. IsJoined(q, u, 1, r, 1)
    BY <2>2 DEF u, r
  <2>6. Sequence(q) /\ Remaining(q) = 2 /\ q[1] = u[1] /\ q[1 + 1] = r[1]
    BY <2>5 DEF IsJoined
  <2>7. q[2] = r[1]
    BY <2>6
  <2> QED
    BY <2>3, <2>4, <2>6, <2>7 DEF u, r
<1>9. EndOf(q, c)
  <2>1. Instead(c, q, 1)
    BY <1>1, <1>7, <1>8 DEF Instead
  <2>2. p[2] = StepOf(c, 1)
    <3>1. p[2] = StepOf(c, n - 1) \/ Instead(c, p, 2)
      BY <1>1, SecondStep DEF n
    <3>2. ~ Instead(c, p, 2)
      BY <1>1 DEF Instead
    <3> QED
      BY <1>1, <3>1, <3>2
  <2>3. \A i \in 1 .. 2 : q[i] = StepOf(c, 2 + 1 - i) \/ Instead(c, q, i)
    <3>1. q[2] = StepOf(c, 2 + 1 - 2)
      BY <1>8, <2>2
    <3> QED
      BY <2>1, <3>1
  <2> QED
    BY <1>2, <1>8, <2>3 DEF EndOf
<1>10. q[1].op = "write" /\ q[1].bytes[2] = f
  BY <1>7, <1>8, StoredGain
<1>11. KnowsGain(c.gain, q, regs[Out], ptr, da)
  BY <1>7, <1>8, <1>10 DEF KnowsGain
<1>12. Knows(c, q, ch, m, regs, ptr, da)
  BY <1>1, <1>4, <1>5, <1>11 DEF Knows, Getters
<1>13. q # <<>>
  <2>1. Remaining(<<>>) = 0
    BY DEF Remaining
  <2> QED
    BY <1>8, <2>1
<1> QED
  BY <1>9, <1>10, <1>12, <1>13 DEF q, f

LEMMA CountsDown ==
  ASSUME NEW c \in Call, NEW p, EndOf(p, c), p # <<>>, p[1].op = "compare",
         NEW ch, NEW m, NEW regs, NEW ptr, NEW da,
         Knows(c, p, ch, m, regs, ptr, da)
  PROVE  /\ c.kind = "check" /\ Remaining(p) % 5 = 2
         /\ p[1].retries \in 0 .. Tries
         /\ Sequence(da) /\ da # <<>>
         /\ da[1] = {LineOf(ch)} => p[1].retries = Tries
<1>1. c.kind = "check" /\ Remaining(p) % 5 = 2 /\ \E r \in 0 .. Tries : p[1] = Countdown(r)
  BY AllFacts DEF StepFacts
<1>2. \A r : Countdown(r).retries = r
  BY DEF Countdown
<1>3. KnowsByte(p, ch, da)
  BY <1>1 DEF Knows
<1> QED
  BY <1>1, <1>2, <1>3 DEF KnowsByte

LEMMA AfterMatch ==
  ASSUME NEW c \in Call, NEW p, EndOf(p, c), p # <<>>, p[1].op = "compare",
         NEW ch, NEW m, NEW regs, NEW ptr, NEW da,
         Knows(c, p, ch, m, regs, ptr, da)
  PROVE  Knows(c, Tail(p), ch, m, regs, ptr, da)
<1> DEFINE n == Remaining(p)
           k == (n - 1) % 5
           q == Tail(p)
<1>1. c.kind = "check" /\ n % 5 = 2
  BY CountsDown
<1>2. n \in Nat
  BY TailOf DEF EndOf
<1>3. k = 1 /\ n > 1
  <2> HIDE DEF n
  <2> QED
    BY <1>1, <1>2
<1>4. q[1] = p[2] /\ (p[2] = StepOf(c, n - 1) \/ Instead(c, p, 2))
  BY <1>3, SecondStep
<1>5. ~ Instead(c, p, 2)
  BY <1>1 DEF Instead
<1>6. StepOf(c, n - 1) = TestStep(k, TestedChannel(n - 1))
  BY <1>1 DEF StepOf
<1>7. \A x : TestStep(1, x) = Unlock
  BY DEF TestStep
<1>8. Unlock.op = "unlock" /\ Again.op = "read"
  BY DEF Unlock, Again, Read
<1> HIDE DEF q, n, k
<1>9. q[1] = Unlock
  BY <1>3, <1>4, <1>5, <1>6, <1>7
<1>10. KnowsByte(q, ch, da)
  BY <1>8, <1>9 DEF KnowsByte
<1>11. Knows(c, q, ch, m, regs, ptr, da)
  BY <1>1, <1>10 DEF Knows, Getters
<1> QED
  BY <1>11 DEF q

LEMMA AfterTwo ==
  ASSUME NEW n \in Nat, n % 5 = 2
  PROVE  (n + 1) % 5 = 3
  OBVIOUS

LEMMA AfterMismatch ==
  ASSUME NEW c \in Call, NEW p, EndOf(p, c), p # <<>>, p[1].op = "compare",
         NEW ch, NEW m, NEW regs, NEW ptr, NEW da, NEW left \in 0 .. Tries,
         Knows(c, p, ch, m, regs, ptr, da), da[1] # {LineOf(ch)},
         NEW q, q = <<Again, Countdown(left)>> \o Tail(p)
  PROVE  EndOf(q, c) /\ q # <<>> /\ q[1].op = "read" /\ Knows(c, q, ch, m, regs, ptr, da)
<1> DEFINE n == Remaining(p)
           y == Countdown(left)
<1>1. c.kind = "check" /\ n % 5 = 2 /\ Sequence(da) /\ da # <<>>
  BY CountsDown
<1>2. n \in 1 .. Size(c) /\ Size(c) = 5 * NumChannels /\ NumChannels \in Nat
  BY <1>1, NextStep, Constants DEF Size
<1>3. (n + 1) % 5 = 3 /\ n + 1 \in 0 .. Size(c)
  <2> DEFINE m5 == 5 * NumChannels
  <2>1. m5 % 5 = 0 /\ m5 \in Nat
    BY <1>2
  <2> HIDE DEF n, m5
  <2>2. n \in 1 .. m5 /\ n % 5 = 2
    BY <1>1, <1>2 DEF m5
  <2>3. n # m5
    BY <2>1, <2>2
  <2>4. n + 1 \in 0 .. m5
    BY <2>1, <2>2, <2>3
  <2>5. n \in Nat
    BY <2>1, <2>2
  <2>6. (n + 1) % 5 = 3
    BY <1>1, <2>5, AfterTwo
  <2> QED
    BY <1>2, <2>4, <2>6 DEF m5
<1>4. /\ Sequence(q) /\ Remaining(q) = 2 + (n - 1)
      /\ q[1] = Again /\ q[2] = y
      /\ \A i \in 1 .. n - 1 : q[2 + i] = p[i + 1]
  <2>1. IsJoined(q, <<Again, y>>, 2, Tail(p), n - 1)
    BY InFront DEF EndOf
  <2>2. <<Again, y>>[1] = Again /\ <<Again, y>>[2] = y
    OBVIOUS
  <2>3. \A i \in 1 .. n - 1 : Tail(p)[i] = p[i + 1]
    BY TailOf DEF EndOf
  <2> DEFINE u == <<Again, y>>
             r == Tail(p)
  <2> HIDE DEF y, u, r, n
  <2>4. IsJoined(q, u, 2, r, n - 1)
    BY <2>1 DEF u, r
  <2>5. /\ Sequence(q) /\ Remaining(q) = 2 + (n - 1)
        /\ q[1] = u[1] /\ q[2] = u[2]
        /\ \A i \in 1 .. n - 1 : q[2 + i] = r[i]
    <3>1. Sequence(q) /\ Remaining(q) = 2 + (n - 1) /\ \A i \in 1 .. 2 : q[i] = u[i]
      BY <2>4 DEF IsJoined
    <3>2. \A i \in 1 .. n - 1 : q[2 + i] = r[i]
      BY <2>4 DEF IsJoined
    <3>3. q[1] = u[1] /\ q[2] = u[2]
      BY <3>1
    <3> QED
      BY <3>1, <3>2, <3>3, Zenon
  <2>6. \A i \in 1 .. n - 1 : r[i] = p[i + 1]
    BY <2>3 DEF r
  <2>7. u[1] = Again /\ u[2] = y
    BY <2>2 DEF u
  <2>8. ASSUME NEW i \in 1 .. n - 1 PROVE q[2 + i] = p[i + 1]
    <3>1. q[2 + i] = r[i]
      BY <2>5
    <3>2. r[i] = p[i + 1]
      BY <2>6
    <3> QED
      BY <3>1, <3>2
  <2>9. q[1] = Again /\ q[2] = y
    BY <2>5, <2>7
  <2> QED
    BY <2>5, <2>8, <2>9
<1>5. \A i \in 1 .. n : p[i] = StepOf(c, n + 1 - i) \/ Instead(c, p, i)
  BY DEF EndOf
<1>6. \A i \in 2 .. n : ~ Instead(c, p, i)
  BY <1>1 DEF Instead
<1>7. Remaining(q) = n + 1
  <2> HIDE DEF n
  <2> QED
    BY <1>2, <1>4
<1>8. Instead(c, q, 1)
  <2>1. Remaining(q) % 5 = 3
    BY <1>3, <1>7
  <2> QED
    BY <1>1, <1>4, <2>1 DEF Instead
<1>9. Instead(c, q, 2)
  <2>1. Remaining(q) % 5 = 3
    BY <1>3, <1>7
  <2>2. \E r \in 0 .. Tries : q[2] = Countdown(r)
    BY <1>4
  <2> QED
    BY <1>1, <1>4, <2>1, <2>2 DEF Instead
<1>10. ASSUME NEW i \in 3 .. n + 1 PROVE q[i] = StepOf(c, (n + 1) + 1 - i)
  <2> HIDE DEF n
  <2> DEFINE j == i - 1
  <2>1. /\ i - 2 \in 1 .. n - 1 /\ 2 + (i - 2) = i /\ (i - 2) + 1 = j /\ j \in 2 .. n
        /\ n + 1 - j = (n + 1) + 1 - i
    BY <1>2
  <2> HIDE DEF j
  <2>2. q[i] = p[j]
    BY <1>4, <2>1
  <2>3. p[j] = StepOf(c, n + 1 - j)
    BY <1>2, <1>5, <1>6, <2>1
  <2> QED
    BY <2>1, <2>2, <2>3
<1> HIDE DEF n
<1>11. EndOf(q, c)
  <2>1. \A i \in 1 .. n + 1 : q[i] = StepOf(c, (n + 1) + 1 - i) \/ Instead(c, q, i)
    <3> TAKE i \in 1 .. n + 1
    <3>1. i \in {1, 2} \/ i \in 3 .. n + 1
      BY <1>2
    <3> QED
      BY <1>8, <1>9, <1>10, <3>1
  <2> QED
    BY <1>3, <1>4, <1>7, <2>1 DEF EndOf
<1>12. q # <<>> /\ q[1].op = "read"
  <2>1. Remaining(<<>>) = 0
    BY DEF Remaining
  <2>2. Again.op = "read"
    BY DEF Again, Read
  <2>3. n + 1 # 0
    BY <1>2
  <2>4. q # <<>>
    BY <1>7, <2>1, <2>3
  <2> QED
    BY <1>4, <2>2, <2>4
<1>13. Again # Countdown(Tries)
  BY DEF Again, Read, Countdown
<1>14. KnowsByte(q, ch, da)
  BY <1>1, <1>4, <1>13 DEF KnowsByte
<1> QED
  BY <1>1, <1>11, <1>12, <1>14 DEF Knows, Getters

-----------------------------------------------------------------------------
(* ---- The steps of the threads --------------------------------------------- *)

LEMMA StepOfCall ==
  ASSUME Programs, NEW t \in Threads, prog[t] # <<>>
  PROVE  /\ call[t] \in Call /\ EndOf(prog[t], call[t])
         /\ Head(prog[t]) = prog[t][1]
         /\ <<>> \o Tail(prog[t]) = Tail(prog[t])
         /\ EndOf(Tail(prog[t]), call[t])
         /\ InCall(t) <=> prog[t][1].op # "lock"
         /\ Transfer(t) <=> prog[t][1].op \in {"write", "read"}
<1>1. call[t] \in Call /\ EndOf(prog[t], call[t])
  BY DEF Programs
<1>2. Head(prog[t]) = prog[t][1] /\ <<>> \o Tail(prog[t]) = Tail(prog[t])
  BY <1>1, TailOf DEF EndOf
<1>3. EndOf(Tail(prog[t]), call[t])
  BY <1>1, StepsLeft
<1>4. /\ InCall(t) <=> prog[t][1].op # "lock"
      /\ Transfer(t) <=> prog[t][1].op \in {"write", "read"}
  BY <1>2 DEF InCall, At, Transfer
<1> QED
  BY <1>1, <1>2, <1>3, <1>4

LEMMA AtStep ==
  ASSUME Programs, NEW t \in Threads, NEW op, At(t, op)
  PROVE  prog[t] # <<>> /\ prog[t][1].op = op
<1>1. prog[t] # <<>> /\ Head(prog[t]).op = op
  BY DEF At
<1> QED
  BY <1>1, StepOfCall

(* The mutex of the bus is taken only by the holder of the switch.         *)
LEMMA HolderOnly ==
  ASSUME Locks, NEW t \in Threads, InCall(t), ~ Transfer(t)
  PROVE  hwLock = NoThread
<1>1. SUFFICES ASSUME hwLock # NoThread PROVE FALSE
  OBVIOUS
<1>2. switchLock = t /\ hwLock = t
  BY <1>1 DEF Locks
<1> QED
  BY <1>1, <1>2 DEF Locks, HolderInCall, HolderTransfers

LEMMA GoesAhead ==
  ASSUME DinoInv, NEW t \in Threads, prog[t] # <<>>,
         NEW q, EndOf(q, call[t]), prog' = [prog EXCEPT ![t] = q],
         IF prog'[t] = <<>> THEN Returns(t, "ok") ELSE UNCHANGED ret,
         hwLock = NoThread,
         switchLock \in {t, NoThread}, switchLock' \in {t, NoThread}, channel' \in Channels,
         (switchLock' = t) <=> InCall(t)',
         InCall(t)' => Knows(call[t], q, channel', mux, port[BoardLine(call[t])],
                             pointer[BoardLine(call[t])], data[t]),
         UNCHANGED <<data, drvVars, busVars, devVars, trouble, call, calls>>
  PROVE  DinoInv'
<1>1. Types /\ TypeOK /\ Programs /\ Knowledge /\ Locks /\ NoTrouble
  BY DEF DinoInv, Types
<1>2. NoThread \notin Threads
  BY I2cAssumption DEF I2cAssumption
<1>3. prog = [u \in Threads |-> prog[u]]
  BY <1>1 DEF Types
<1>4. prog'[t] = q /\ \A u \in Threads : u # t => prog'[u] = prog[u]
  BY <1>3
<1>5. prog' = [u \in Threads |-> prog'[u]]
  BY <1>3
<1>6. \A u \in Threads : u # t => ~ InCall(u) /\ ~ InCall(u)'
  <2> SUFFICES ASSUME NEW u \in Threads, u # t PROVE ~ InCall(u) /\ ~ InCall(u)'
    OBVIOUS
  <2>1. ~ InCall(u)
    BY <1>1, <1>2 DEF Locks
  <2>2. prog'[u] = prog[u]
    BY <1>4
  <2> QED
    BY <2>1, <2>2 DEF InCall, At
<1>7. Types'
  <2>1. TypeOK'
    <3>1. ret' \in [Threads -> {"none", "ok", "throw", "false"}]
      BY <1>1 DEF Returns, TypeOK
    <3>2. \A u \in Threads : prog'[u] # <<>> => ret'[u] = "none"
      <4>1. ASSUME NEW u \in Threads, u # t, prog'[u] # <<>> PROVE ret'[u] = "none"
        BY <1>1, <1>4, <4>1 DEF Returns, TypeOK
      <4>2. prog'[t] # <<>> => ret'[t] = "none"
        BY <1>1 DEF TypeOK
      <4> QED
        BY <4>1, <4>2
    <3>3. {hwLock, switchLock}' \subseteq Threads \cup {NoThread}
      BY DEF drvVars
    <3> QED
      BY <1>1, <3>1, <3>2, <3>3 DEF TypeOK, drvVars, busVars, devVars
  <2>2. OfBus(wire')
    BY <1>1 DEF Types, busVars
  <2> QED
    BY <1>1, <1>5, <2>1, <2>2 DEF Types, OfBus
<1>8. Programs'
  <2>1. ASSUME NEW u \in Threads, prog'[u] # <<>>
        PROVE  call'[u] \in Call /\ EndOf(prog'[u], call'[u])
    <3>1. CASE u = t
      BY <1>1, <1>4, <3>1 DEF Programs
    <3>2. CASE u # t
      BY <1>1, <1>4, <2>1, <3>2 DEF Programs
    <3> QED
      BY <3>1, <3>2
  <2> QED
    BY <2>1 DEF Programs
<1>9. Knowledge'
  <2>1. ASSUME NEW u \in Threads, InCall(u)'
        PROVE  Knows(call'[u], prog'[u], channel', mux', port'[BoardLine(call'[u])],
                     pointer'[BoardLine(call'[u])], data'[u])
    <3>1. u = t
      BY <1>6, <2>1
    <3> QED
      BY <1>4, <2>1, <3>1 DEF devVars
  <2> QED
    BY <2>1 DEF Knowledge, BoardLine
<1>10. Locks'
  <2>1. \A u \in Threads : InCall(u)' => switchLock' = u
    BY <1>6
  <2>2. hwLock' = NoThread /\ drv' = drv /\ wire' = wire /\ drv = Quiet /\ wire = Idle
    BY <1>1 DEF Locks, drvVars, busVars
  <2> QED
    BY <2>1, <2>2 DEF Locks, Quiet, Idle
<1>11. OnWire'
  <2>1. hwLock' = NoThread
    BY DEF drvVars
  <2> QED
    BY <2>1 DEF OnWire
<1>12. NoTrouble'
  <2>1. \A u \in Threads : switchLock' = u => InCall(u)'
    BY <1>2
  <2>2. trouble' = trouble /\ pend' = pend /\ efd' = efd /\ hwLock' = NoThread
    BY DEF drvVars, busVars
  <2> QED
    BY <1>1, <2>1, <2>2 DEF NoTrouble
<1> QED
  BY <1>7, <1>8, <1>9, <1>10, <1>11, <1>12 DEF DinoInv

LEMMA LineOfBoard ==
  ASSUME NEW c \in Call, c.kind # "check"
  PROVE  /\ c.board \in Board /\ ChannelOf[c.board] \in Channels
         /\ BoardLine(c) \in Lines
  BY Kinds, Constants DEF BoardLine

LEMMA LockSwitchKeeps ==
  ASSUME DinoInv, NEW t \in Threads, LockSwitch(t), UNCHANGED <<call, calls>>
  PROVE  DinoInv'
<1> DEFINE p == prog[t]
           q == Tail(p)
           c == call[t]
<1>1. Types /\ TypeOK /\ Programs /\ Knowledge /\ Locks
  BY DEF DinoInv, Types
<1>2. p # <<>> /\ p[1].op = "lock" /\ NoThread \notin Threads
  BY <1>1, AtStep, I2cAssumption DEF LockSwitch, I2cAssumption
<1>3. /\ c \in Call /\ EndOf(p, c) /\ Head(p) = p[1] /\ <<>> \o Tail(p) = q /\ EndOf(q, c)
  BY <1>1, <1>2, StepOfCall
<1>4. prog' = [prog EXCEPT ![t] = q]
  BY <1>3 DEF LockSwitch, Continue
<1>5. IF prog'[t] = <<>> THEN Returns(t, "ok") ELSE UNCHANGED ret
  BY DEF LockSwitch, Continue
<1>6. hwLock = NoThread
  <2>1. switchLock = NoThread
    BY DEF LockSwitch
  <2> QED
    BY <1>1, <1>2, <2>1 DEF Locks
<1>7. channel' = p[1].channel /\ channel' \in Channels
  <2>1. channel' = p[1].channel
    BY <1>3 DEF LockSwitch
  <2>2. StepFacts(c, Remaining(p), p[1])
    BY <1>2, <1>3, AllFacts
  <2> QED
    BY <1>2, <2>1, <2>2 DEF StepFacts
<1>8. InCall(t)'
  <2>1. q # <<>> /\ q[1].op # "lock"
    BY <1>2, <1>3, GoesOn
  <2>2. prog'[t] = q
    BY <1>1, <1>4 DEF Types
  <2>3. Head(q) = q[1]
    BY <1>3, <2>1, TailOf DEF EndOf
  <2> HIDE DEF q
  <2> QED
    BY <2>1, <2>2, <2>3 DEF InCall, At
<1>9. Knows(c, q, channel', mux, port[BoardLine(c)], pointer[BoardLine(c)], data[t])
  BY <1>2, <1>3, <1>7, KnowsAfterLock
<1>10. switchLock \in {t, NoThread} /\ switchLock' = t
  BY DEF LockSwitch
<1>11. UNCHANGED <<data, drvVars, busVars, devVars, trouble, call, calls>>
  BY DEF LockSwitch
<1> HIDE DEF p, q, c
<1> QED
  BY <1>2, <1>3, <1>4, <1>5, <1>6, <1>7, <1>8, <1>9, <1>10, <1>11, GoesAhead DEF p, c

LEMMA UnlockSwitchKeeps ==
  ASSUME DinoInv, NEW t \in Threads, UnlockSwitch(t), UNCHANGED <<call, calls>>
  PROVE  DinoInv'
<1> DEFINE p == prog[t]
           q == Tail(p)
           c == call[t]
<1>1. Types /\ TypeOK /\ Programs /\ Knowledge /\ Locks
  BY DEF DinoInv, Types
<1>2. p # <<>> /\ p[1].op = "unlock" /\ NoThread \notin Threads
  BY <1>1, AtStep, I2cAssumption DEF UnlockSwitch, I2cAssumption
<1>3. /\ c \in Call /\ EndOf(p, c) /\ Head(p) = p[1] /\ <<>> \o Tail(p) = q /\ EndOf(q, c)
      /\ InCall(t) /\ ~ Transfer(t)
  BY <1>1, <1>2, StepOfCall
<1>4. prog' = [prog EXCEPT ![t] = q]
  BY <1>3 DEF UnlockSwitch, Continue
<1>5. IF prog'[t] = <<>> THEN Returns(t, "ok") ELSE UNCHANGED ret
  BY DEF UnlockSwitch, Continue
<1>6. hwLock = NoThread /\ switchLock = t
  BY <1>1, <1>3, HolderOnly DEF Locks
<1>7. channel' \in Channels
  BY <1>1 DEF UnlockSwitch, TypeOK
<1>8. ~ InCall(t)'
  <2>1. q = <<>> \/ q[1].op = "lock"
    BY <1>2, <1>3, Ends
  <2>2. prog'[t] = q
    BY <1>1, <1>4 DEF Types
  <2>3. q # <<>> => Head(q) = q[1]
    BY <1>3, TailOf DEF EndOf
  <2> HIDE DEF q
  <2> QED
    BY <2>1, <2>2, <2>3 DEF InCall, At
<1>9. switchLock \in {t, NoThread} /\ switchLock' = NoThread /\ switchLock' # t
  BY <1>2, <1>6 DEF UnlockSwitch
<1>10. UNCHANGED <<data, drvVars, busVars, devVars, trouble, call, calls>>
  BY DEF UnlockSwitch
<1> HIDE DEF p, q, c
<1> QED
  BY <1>2, <1>3, <1>4, <1>5, <1>6, <1>7, <1>8, <1>9, <1>10, GoesAhead DEF p, c

(* A step inside a call that is not a transfer                             *)
LEMMA WorksOn ==
  ASSUME DinoInv, NEW t \in Threads, InCall(t), ~ Transfer(t),
         NEW q, EndOf(q, call[t]), prog' = [prog EXCEPT ![t] = q],
         q # <<>>, q[1].op # "lock",
         Knows(call[t], q, channel, mux, port[BoardLine(call[t])],
               pointer[BoardLine(call[t])], data[t]),
         UNCHANGED <<ret, switchLock, channel, data, drvVars, busVars, devVars, trouble,
                     call, calls>>
  PROVE  DinoInv'
<1>1. Types /\ TypeOK /\ Programs /\ Knowledge /\ Locks
  BY DEF DinoInv, Types
<1>2. prog[t] # <<>>
  BY DEF InCall
<1>3. hwLock = NoThread /\ switchLock = t
  BY <1>1, HolderOnly DEF Locks
<1>4. prog'[t] = q
  BY <1>1 DEF Types
<1>5. InCall(t)'
  <2>1. Head(q) = q[1]
    BY TailOf DEF EndOf
  <2> QED
    BY <1>4, <2>1 DEF InCall, At
<1>6. IF prog'[t] = <<>> THEN Returns(t, "ok") ELSE UNCHANGED ret
  BY <1>4
<1>7. channel' \in Channels /\ channel' = channel
  BY <1>1 DEF TypeOK
<1>8. switchLock \in {t, NoThread} /\ switchLock' \in {t, NoThread} /\ switchLock' = t
  BY <1>3
<1>9. InCall(t)' => Knows(call[t], q, channel', mux, port[BoardLine(call[t])],
                          pointer[BoardLine(call[t])], data[t])
  BY <1>7
<1>10. UNCHANGED <<data, drvVars, busVars, devVars, trouble, call, calls>>
  OBVIOUS
<1> QED
  BY <1>2, <1>3, <1>5, <1>6, <1>7, <1>8, <1>9, <1>10, GoesAhead

LEMMA VerifyKeeps ==
  ASSUME DinoInv, NEW t \in Threads, VerifyReadback(t)
  PROVE  DinoInv'
<1> DEFINE p == prog[t]
           q == Tail(p)
           c == call[t]
<1>1. Types /\ TypeOK /\ Programs /\ Knowledge /\ Locks
  BY DEF DinoInv, Types
<1>2. p # <<>> /\ p[1].op = "verify"
  BY <1>1, AtStep DEF VerifyReadback
<1>3. /\ c \in Call /\ EndOf(p, c) /\ Head(p) = p[1] /\ <<>> \o Tail(p) = q /\ EndOf(q, c)
      /\ InCall(t) /\ ~ Transfer(t)
  BY <1>1, <1>2, StepOfCall
<1>4. Knows(c, p, channel, mux, port[BoardLine(c)], pointer[BoardLine(c)], data[t])
  BY <1>1, <1>3 DEF Knowledge
<1>5. /\ data[t] = <<p[1].fields>>
      /\ Knows(c, q, channel, mux, port[BoardLine(c)], pointer[BoardLine(c)], data[t])
  BY <1>2, <1>3, <1>4, AfterVerify
<1>6. Continue(t, <<>>)
  BY <1>3, <1>5 DEF VerifyReadback
<1>7. prog' = [prog EXCEPT ![t] = q]
  BY <1>3, <1>6 DEF Continue
<1>8. q # <<>> /\ q[1].op # "lock"
  BY <1>2, <1>3, GoesOn
<1>9. prog'[t] # <<>>
  BY <1>1, <1>7, <1>8 DEF Types
<1>10. UNCHANGED <<ret, switchLock, channel, data, drvVars, busVars, devVars, trouble,
                   call, calls>>
  BY <1>6, <1>9 DEF VerifyReadback, Continue
<1> HIDE DEF p, q, c
<1> QED
  BY <1>3, <1>5, <1>7, <1>8, <1>10, WorksOn DEF c

LEMMA GainKeeps ==
  ASSUME DinoInv, NEW t \in Threads, ReplaceGain(t)
  PROVE  DinoInv'
<1> DEFINE p == prog[t]
           c == call[t]
           f == (data[t][1] \ GainFields) \cup p[1].gain
           q == SetIoext(Out, f) \o Tail(p)
<1>1. Types /\ TypeOK /\ Programs /\ Knowledge /\ Locks
  BY DEF DinoInv, Types
<1>2. p # <<>> /\ p[1].op = "gain"
  BY <1>1, AtStep DEF ReplaceGain
<1>3. /\ c \in Call /\ EndOf(p, c) /\ Head(p) = p[1]
      /\ InCall(t) /\ ~ Transfer(t)
  BY <1>1, <1>2, StepOfCall
<1>4. Knows(c, p, channel, mux, port[BoardLine(c)], pointer[BoardLine(c)], data[t])
  BY <1>1, <1>3 DEF Knowledge
<1>5. port[BoardLine(c)] \in Registers
  <2>1. c.kind # "check"
    BY <1>2, <1>3, AllFacts DEF StepFacts
  <2> QED
    BY <1>1, <1>3, <2>1, LineOfBoard DEF TypeOK, Registers
<1>6. /\ EndOf(q, c) /\ q # <<>> /\ q[1].op = "write"
      /\ Knows(c, q, channel, mux, port[BoardLine(c)], pointer[BoardLine(c)], data[t])
  BY <1>2, <1>3, <1>4, <1>5, AfterGain
<1>7. prog' = [prog EXCEPT ![t] = q]
  BY <1>3 DEF ReplaceGain, Continue
<1>8. q[1].op # "lock"
  BY <1>6
<1> HIDE DEF q
<1>9. prog'[t] # <<>>
  BY <1>1, <1>6, <1>7 DEF Types
<1>10. UNCHANGED <<ret, switchLock, channel, data, drvVars, busVars, devVars, trouble,
                   call, calls>>
  BY <1>9 DEF ReplaceGain, Continue
<1> HIDE DEF p, c
<1> QED
  BY <1>3, <1>6, <1>7, <1>8, <1>10, WorksOn DEF c

LEMMA CompareKeeps ==
  ASSUME DinoInv, NEW t \in Threads, Compare(t), UNCHANGED <<call, calls>>
  PROVE  DinoInv'
<1> DEFINE p == prog[t]
           c == call[t]
           wrong == data[t][1] # {LineOf(channel)}
           left == Head(p).retries - (IF wrong THEN 1 ELSE 0)
<1>1. Types /\ TypeOK /\ Programs /\ Knowledge /\ Locks
  BY DEF DinoInv, Types
<1>2. p # <<>> /\ p[1].op = "compare"
  BY <1>1, AtStep DEF Compare
<1>3. /\ c \in Call /\ EndOf(p, c) /\ Head(p) = p[1] /\ <<>> \o Tail(p) = Tail(p)
      /\ EndOf(Tail(p), c)
      /\ InCall(t) /\ ~ Transfer(t)
  BY <1>1, <1>2, StepOfCall
<1>4. Knows(c, p, channel, mux, port[BoardLine(c)], pointer[BoardLine(c)], data[t])
  BY <1>1, <1>3 DEF Knowledge
<1>5. p[1].retries \in 0 .. Tries /\ (data[t][1] = {LineOf(channel)} => p[1].retries = Tries)
  BY <1>2, <1>3, <1>4, CountsDown
<1>6. Tries \in Nat /\ Tries > 1
  BY Constants
<1>7. \/ /\ wrong /\ left >= 0
         /\ Continue(t, <<Read(SwitchAddr, TRUE), Countdown(left)>>)
      \/ /\ ~ (wrong /\ left >= 0)
         /\ left # 0 => Continue(t, <<>>)
  BY DEF Compare, Countdown
<1>8. UNCHANGED <<switchLock, channel, data, drvVars, busVars, devVars, trouble, call, calls>>
  BY DEF Compare
<1> HIDE DEF p, c
<1>9. CASE wrong /\ left >= 0 /\ Continue(t, <<Read(SwitchAddr, TRUE), Countdown(left)>>)
  <2> DEFINE q == <<Again, Countdown(left)>> \o Tail(p)
  <2>1. left \in 0 .. Tries
    BY <1>3, <1>5, <1>6, <1>9
  <2>2. data[t][1] # {LineOf(channel)}
    BY <1>9
  <2> HIDE DEF left
  <2>3. /\ EndOf(q, c) /\ q # <<>> /\ q[1].op = "read"
        /\ Knows(c, q, channel, mux, port[BoardLine(c)], pointer[BoardLine(c)], data[t])
    BY <1>2, <1>3, <1>4, <2>1, <2>2, AfterMismatch
  <2>4. prog' = [prog EXCEPT ![t] = q]
    BY <1>9 DEF Continue, Again, p
  <2> HIDE DEF q
  <2>5. prog'[t] # <<>>
    BY <1>1, <2>3, <2>4 DEF Types
  <2>6. UNCHANGED <<ret, switchLock, channel, data, drvVars, busVars, devVars, trouble,
                    call, calls>>
    BY <1>8, <1>9, <2>5 DEF Continue
  <2>7. q[1].op # "lock"
    BY <2>3
  <2> QED
    BY <1>3, <2>3, <2>4, <2>6, <2>7, WorksOn DEF c
<1>10. CASE ~ (wrong /\ left >= 0) /\ (left # 0 => Continue(t, <<>>))
  <2> DEFINE q == Tail(p)
  <2>1. left # 0
    <3>1. CASE wrong
      BY <1>10, <3>1
    <3>2. CASE ~ wrong
      BY <1>3, <1>5, <1>6, <3>2
    <3> QED
      BY <3>1, <3>2
  <2>2. Continue(t, <<>>)
    BY <1>10, <2>1
  <2>3. Knows(c, q, channel, mux, port[BoardLine(c)], pointer[BoardLine(c)], data[t])
    BY <1>2, <1>3, <1>4, AfterMatch
  <2>4. prog' = [prog EXCEPT ![t] = q]
    BY <1>3, <2>2 DEF Continue, p
  <2>5. q # <<>> /\ q[1].op # "lock"
    BY <1>2, <1>3, GoesOn
  <2> HIDE DEF q
  <2>6. prog'[t] # <<>>
    BY <1>1, <2>4, <2>5 DEF Types
  <2>7. UNCHANGED <<ret, switchLock, channel, data, drvVars, busVars, devVars, trouble,
                    call, calls>>
    BY <1>8, <2>2, <2>6 DEF Continue
  <2>8. EndOf(q, c)
    BY <1>3 DEF q
  <2> QED
    BY <1>3, <2>3, <2>4, <2>5, <2>7, <2>8, WorksOn DEF c
<1> QED
  BY <1>7, <1>9, <1>10

LEMMA BeginsKeeps ==
  ASSUME DinoInv, NEW t \in Threads, NEW c \in Call, Begins(t, c)
  PROVE  DinoInv'
<1> DEFINE q == Program(c)
<1>1. Types /\ TypeOK /\ Programs /\ Knowledge /\ Locks /\ OnWire /\ NoTrouble
  BY DEF DinoInv, Types
<1>2. /\ prog[t] = <<>> /\ ~ InCall(t) /\ ~ Transfer(t)
      /\ call' = [call EXCEPT ![t] = c]
      /\ prog' = [prog EXCEPT ![t] = q]
      /\ data' = [data EXCEPT ![t] = <<>>]
      /\ ret' = [ret EXCEPT ![t] = "none"]
      /\ UNCHANGED <<switchLock, channel, drvVars, busVars, devVars, trouble>>
  BY DEF Begins, Returns, InCall, Transfer, At
<1>3. EndOf(q, c) /\ Remaining(q) = Size(c) /\ Size(c) \in Nat /\ Size(c) >= 5
  BY Begun, Sizes
<1>4. q # <<>> /\ Head(q) = q[1] /\ q[1].op = "lock"
  <2>1. Remaining(<<>>) = 0
    BY DEF Remaining
  <2>2. q # <<>>
    BY <1>3, <2>1
  <2>3. q[1].op = "lock"
    <3> HIDE DEF q
    <3>1. CASE c.kind = "check"
      <4>1. Size(c) = 5 * NumChannels /\ NumChannels \in Nat
        BY <3>1, Constants DEF Size
      <4>2. (5 * NumChannels) % 5 = 0
        BY <4>1
      <4>3. Remaining(q) % 5 = 0
        BY <1>3, <4>1, <4>2
      <4>4. \E ch \in Channels : q[1] = Lock(ch)
        BY <1>3, <2>2, <3>1, <4>3, NextOfTest
      <4> QED
        BY <4>4 DEF Lock
    <3>2. CASE c.kind # "check"
      <4>1. ASSUME c.kind = "setGain" PROVE Remaining(q) # 2
        BY <1>3
      <4>2. q[1] = Lock(ChannelOf[c.board])
        BY <1>3, <2>2, <3>2, <4>1, NextOnBoard
      <4> QED
        BY <4>2 DEF Lock
    <3> QED
      BY <3>1, <3>2
  <2> QED
    BY <1>3, <2>2, <2>3, TailOf DEF EndOf
<1> HIDE DEF q
<1>5. /\ prog'[t] = q /\ call'[t] = c /\ data'[t] = <<>> /\ ret'[t] = "none"
      /\ \A u \in Threads : u # t =>
           prog'[u] = prog[u] /\ call'[u] = call[u] /\ data'[u] = data[u] /\ ret'[u] = ret[u]
  BY <1>1, <1>2 DEF Types, TypeOK
<1>6. /\ ~ InCall(t)'
      /\ \A u \in Threads : u # t =>
           (InCall(u)' <=> InCall(u)) /\ (Transfer(u)' <=> Transfer(u))
  BY <1>4, <1>5 DEF InCall, Transfer, At
<1>7. Types'
  <2>1. prog' = [u \in Threads |-> prog'[u]]
    BY <1>1, <1>2 DEF Types
  <2>2. data' = [u \in Threads |-> data'[u]]
    BY <1>1, <1>2 DEF Types
  <2>3. TypeOK'
    <3>1. ret' \in [Threads -> {"none", "ok", "throw", "false"}]
      BY <1>1, <1>2 DEF TypeOK
    <3>2. call' \in [Threads -> Call \cup {NoCall}]
      BY <1>1, <1>2 DEF TypeOK
    <3>3. \A u \in Threads : prog'[u] # <<>> => ret'[u] = "none"
      BY <1>1, <1>5 DEF TypeOK
    <3> QED
      BY <1>1, <1>2, <3>1, <3>2, <3>3 DEF TypeOK, drvVars, busVars, devVars
  <2>4. OfBus(wire') /\ trouble' \in Nat
    BY <1>1, <1>2 DEF Types, busVars
  <2> QED
    BY <2>1, <2>2, <2>3, <2>4 DEF Types, OfBus
<1>8. Programs'
  <2>1. ASSUME NEW u \in Threads, prog'[u] # <<>>
        PROVE  call'[u] \in Call /\ EndOf(prog'[u], call'[u])
    <3>1. CASE u = t
      BY <1>3, <1>5, <3>1
    <3>2. CASE u # t
      BY <1>1, <1>5, <2>1, <3>2 DEF Programs
    <3> QED
      BY <3>1, <3>2
  <2> QED
    BY <2>1 DEF Programs
<1>9. Knowledge'
  <2>1. ASSUME NEW u \in Threads, InCall(u)'
        PROVE  Knows(call'[u], prog'[u], channel', mux', port'[BoardLine(call'[u])],
                     pointer'[BoardLine(call'[u])], data'[u])
    <3>1. u # t /\ InCall(u)
      BY <1>6, <2>1
    <3>2. Knows(call[u], prog[u], channel, mux, port[BoardLine(call[u])],
                pointer[BoardLine(call[u])], data[u])
      BY <1>1, <3>1 DEF Knowledge
    <3> QED
      BY <1>2, <1>5, <3>1, <3>2 DEF devVars
  <2> QED
    BY <2>1 DEF Knowledge, BoardLine
<1>10. Locks'
  <2>1. \A u \in Threads : InCall(u)' => switchLock' = u
    BY <1>1, <1>2, <1>6 DEF Locks
  <2>2. hwLock' = NoThread => drv' = Quiet /\ wire' = Idle
    BY <1>1, <1>2 DEF Locks, drvVars, busVars
  <2>3. ASSUME hwLock' # NoThread
        PROVE  /\ hwLock' \in Threads /\ switchLock' = hwLock'
               /\ IF drv'.phase = "none" THEN drv' = Quiet /\ ~ HolderInCall' ELSE HolderTransfers'
    <3>1. hwLock' = hwLock /\ drv' = drv /\ switchLock' = switchLock
      BY <1>2 DEF drvVars
    <3>2. /\ hwLock \in Threads /\ switchLock = hwLock
          /\ IF drv.phase = "none" THEN drv = Quiet /\ ~ HolderInCall ELSE HolderTransfers
      BY <1>1, <2>3, <3>1 DEF Locks
    <3>3. drv.phase # "none" => hwLock # t
      BY <1>2, <3>2 DEF HolderTransfers
    <3>4. CASE hwLock = t
      <4>1. ~ HolderInCall'
        BY <1>4, <1>5, <3>1, <3>4 DEF HolderInCall, InCall, At
      <4> QED
        BY <3>1, <3>2, <3>3, <3>4, <4>1
    <3>5. CASE hwLock # t
      <4>1. prog'[hwLock'] = prog[hwLock]
        BY <1>5, <3>1, <3>2, <3>5
      <4>2. ~ HolderInCall => ~ HolderInCall'
        BY <4>1 DEF HolderInCall, InCall, At
      <4>3. HolderTransfers => HolderTransfers'
        BY <4>1 DEF HolderTransfers, Transfer, At
      <4> QED
        BY <3>1, <3>2, <4>2, <4>3
    <3> QED
      BY <3>4, <3>5
  <2> QED
    BY <2>1, <2>2, <2>3 DEF Locks
<1>11. OnWire'
  <2>1. CASE hwLock = NoThread \/ drv.phase = "none"
    BY <1>2, <2>1 DEF OnWire, drvVars
  <2>2. CASE hwLock # NoThread /\ drv.phase # "none"
    <3>1. hwLock \in Threads /\ hwLock # t
      BY <1>1, <1>2, <2>2 DEF Locks, HolderTransfers
    <3>2. prog'[hwLock] = prog[hwLock] /\ call'[hwLock] = call[hwLock] /\ hwLock' = hwLock
      BY <1>2, <1>5, <3>1 DEF drvVars
    <3> QED
      BY <1>1, <1>2, <2>2, <3>2 DEF OnWire, Effect, drvVars, busVars, devVars, BoardLine
  <2> QED
    BY <2>1, <2>2
<1>12. NoTrouble'
  <2>1. trouble = 0 => \A u \in Threads : switchLock' = u => InCall(u)'
    BY <1>1, <1>2, <1>6 DEF NoTrouble
  <2> QED
    BY <1>1, <1>2, <2>1 DEF NoTrouble, drvVars, busVars
<1> QED
  BY <1>7, <1>8, <1>9, <1>10, <1>11, <1>12 DEF DinoInv

-----------------------------------------------------------------------------
(* ---- The steps of the driver ----------------------------------------------- *)

DriverStates == [phase : {"none", "transfer", "bnb", "wait", "stop"}, tries : 0 .. Tries,
                 bb : {0, 1}, left : 0 .. Tries, txErr : BOOLEAN]

(* The step that the transfer runs for, and its effect                     *)
Current == Head(prog[hwLock])
Completed == Effect(Current, BoardLine(call[hwLock]))

LEMMA TransferRuns ==
  ASSUME DinoInv, hwLock # NoThread, drv.phase # "none"
  PROVE  /\ hwLock \in Threads /\ Transfer(hwLock) /\ switchLock = hwLock
         /\ WireFacts(Current, Completed, drv, wire, pend, served)
         /\ trouble = 0 => FirstTry(drv, wire, pend, served, efd)
         /\ prog[hwLock] # <<>> /\ Current = prog[hwLock][1]
         /\ Current.op \in {"write", "read"}
         /\ OfBus(Current) /\ Current # Idle
         /\ drv \in DriverStates
<1>1. Types /\ TypeOK /\ Programs /\ Locks /\ OnWire /\ NoTrouble
  BY DEF DinoInv, Types
<1>2. hwLock \in Threads /\ Transfer(hwLock) /\ switchLock = hwLock
  BY <1>1 DEF Locks, HolderTransfers
<1>3. prog[hwLock] # <<>>
  BY <1>2 DEF Transfer, At
<1>4. /\ call[hwLock] \in Call /\ EndOf(prog[hwLock], call[hwLock])
      /\ Current = prog[hwLock][1]
      /\ Current.op \in {"write", "read"}
  BY <1>1, <1>2, <1>3, StepOfCall DEF Current
<1>5. OfBus(Current) /\ Current # Idle
  <2>1. StepFacts(call[hwLock], Remaining(prog[hwLock]), Current)
    BY <1>3, <1>4, AllFacts
  <2> QED
    BY <1>4, <2>1 DEF StepFacts
<1>6. WireFacts(Current, Completed, drv, wire, pend, served)
  BY <1>1 DEF OnWire, Current, Completed
<1>7. trouble = 0 => FirstTry(drv, wire, pend, served, efd)
  BY <1>1 DEF NoTrouble
<1>8. drv \in DriverStates
  BY <1>1 DEF TypeOK, DriverStates
<1> QED
  BY <1>2, <1>3, <1>4, <1>5, <1>6, <1>7, <1>8

LEMMA DriverKeeps ==
  ASSUME DinoInv, hwLock # NoThread, drv.phase # "none",
         UNCHANGED <<prog, data, ret, switchLock, channel, hwLock, rx, devVars, call, calls>>,
         drv' \in DriverStates, drv'.phase # "none",
         served' \in BOOLEAN, efd' \in BOOLEAN, pend' \subseteq {"done", "error", "bnb"},
         OfBus(wire'), trouble' \in Nat, trouble' = 0 => trouble = 0,
         WireFacts(Current, Completed, drv', wire', pend', served'),
         trouble' = 0 => /\ FirstTry(drv', wire', pend', served', efd')
                         /\ "error" \notin pend' /\ (efd' => "done" \in pend')
  PROVE  DinoInv'
<1>1. Types /\ TypeOK /\ Programs /\ Knowledge /\ Locks /\ OnWire /\ NoTrouble
  BY DEF DinoInv, Types
<1>2. Types'
  <2>1. TypeOK'
    BY <1>1 DEF TypeOK, DriverStates, devVars
  <2> QED
    BY <1>1, <2>1 DEF Types, OfBus
<1>3. Programs'
  BY <1>1 DEF Programs
<1>4. Knowledge'
  BY <1>1 DEF Knowledge, InCall, At, devVars, BoardLine
<1>5. Locks'
  <2>1. hwLock \in Threads /\ switchLock = hwLock /\ HolderTransfers
    BY <1>1 DEF Locks
  <2>2. HolderTransfers'
    BY <2>1 DEF HolderTransfers, Transfer, At
  <2>3. \A t \in Threads : InCall(t)' => switchLock' = t
    BY <1>1 DEF Locks, InCall, At
  <2>4. hwLock' = hwLock /\ switchLock' = switchLock
    OBVIOUS
  <2> QED
    BY <2>1, <2>2, <2>3, <2>4 DEF Locks
<1>6. OnWire'
  BY DEF OnWire, Current, Completed, Effect, devVars, BoardLine
<1>7. NoTrouble'
  <2>1. trouble = 0 => \A t \in Threads : switchLock' = t => InCall(t)'
    BY <1>1 DEF NoTrouble, InCall, At
  <2>2. hwLock' # NoThread
    OBVIOUS
  <2> QED
    BY <2>1, <2>2 DEF NoTrouble
<1> QED
  BY <1>2, <1>3, <1>4, <1>5, <1>6, <1>7 DEF DinoInv

LEMMA IsRunning ==
  ASSUME NEW ph, ph # "none", Running(ph)
  PROVE  hwLock # NoThread /\ drv.phase = ph /\ drv.phase # "none"
  BY DEF Running

LEMMA StartsKeeps ==
  ASSUME DinoInv, TransferStarts, UNCHANGED <<call, calls>>
  PROVE  DinoInv'
<1>1. hwLock # NoThread /\ drv.phase = "transfer" /\ drv.phase # "none"
  BY IsRunning DEF TransferStarts
<1>2. Types /\ TypeOK /\ NoTrouble
  BY DEF DinoInv, Types
<1>3. /\ WireFacts(Current, Completed, drv, wire, pend, served)
      /\ trouble = 0 => FirstTry(drv, wire, pend, served, efd)
      /\ OfBus(Current) /\ Current # Idle /\ drv \in DriverStates
  BY <1>1, TransferRuns
<1>4. /\ wire' = Current
      /\ drv' = [drv EXCEPT !.phase = "wait", !.left = Tries]
      /\ UNCHANGED <<prog, data, ret, switchLock, channel, hwLock, served, pend, efd, rx,
                     devVars, trouble>>
  BY DEF TransferStarts, Current
<1>5. drv' \in DriverStates /\ drv'.phase = "wait" /\ drv'.left = Tries
      /\ drv'.tries = drv.tries /\ drv'.txErr = drv.txErr
  <2>1. Tries \in 0 .. Tries
    BY Constants
  <2> QED
    BY <1>3, <1>4, <2>1 DEF DriverStates
<1>6. WireFacts(Current, Completed, drv', wire', pend', served')
  BY <1>3, <1>4, <1>5 DEF WireFacts
<1>7. trouble' = 0 => /\ FirstTry(drv', wire', pend', served', efd')
                      /\ "error" \notin pend' /\ (efd' => "done" \in pend')
  BY <1>1, <1>2, <1>3, <1>4, <1>5 DEF FirstTry, NoTrouble
<1>8. /\ served' \in BOOLEAN /\ efd' \in BOOLEAN /\ pend' \subseteq {"done", "error", "bnb"}
      /\ OfBus(wire') /\ trouble' \in Nat /\ (trouble' = 0 => trouble = 0)
      /\ drv'.phase # "none"
  BY <1>2, <1>3, <1>4, <1>5 DEF Types, TypeOK
<1> QED
  BY <1>1, <1>4, <1>5, <1>6, <1>7, <1>8, DriverKeeps

LEMMA BusyKeeps ==
  ASSUME DinoInv, TransferBusy, UNCHANGED <<call, calls>>
  PROVE  DinoInv'
<1>1. hwLock # NoThread /\ drv.phase = "transfer" /\ drv.phase # "none"
  BY IsRunning DEF TransferBusy
<1>2. Types /\ TypeOK /\ NoTrouble
  BY DEF DinoInv, Types
<1>3. /\ WireFacts(Current, Completed, drv, wire, pend, served)
      /\ trouble = 0 => FirstTry(drv, wire, pend, served, efd)
      /\ drv \in DriverStates
  BY <1>1, TransferRuns
<1>4. /\ drv' = [drv EXCEPT !.phase = "bnb", !.left = Tries]
      /\ UNCHANGED <<prog, data, ret, switchLock, channel, hwLock, served, busVars, devVars>>
  BY DEF TransferBusy
<1>5. drv' \in DriverStates /\ drv'.phase = "bnb" /\ drv'.txErr = drv.txErr
  <2>1. Tries \in 0 .. Tries
    BY Constants
  <2> QED
    BY <1>3, <1>4, <2>1 DEF DriverStates
<1>6. WireFacts(Current, Completed, drv', wire', pend', served')
  BY <1>3, <1>4, <1>5 DEF WireFacts, busVars
<1>7. trouble' \in Nat /\ trouble' # 0
  <2>1. trouble \in Nat
    BY <1>2 DEF Types
  <2>2. CASE wire = Idle
    BY <2>1, <2>2 DEF TransferBusy, Trouble
  <2>3. CASE wire # Idle
    <3>1. trouble # 0
      BY <1>1, <1>3, <2>3 DEF FirstTry
    <3> QED
      BY <2>1, <2>3, <3>1 DEF TransferBusy
  <2> QED
    BY <2>2, <2>3
<1>8. /\ served' \in BOOLEAN /\ efd' \in BOOLEAN /\ pend' \subseteq {"done", "error", "bnb"}
      /\ OfBus(wire') /\ drv'.phase # "none" /\ rx' = rx
  BY <1>2, <1>4, <1>5 DEF Types, TypeOK, busVars
<1> QED
  BY <1>1, <1>4, <1>5, <1>6, <1>7, <1>8, DriverKeeps

LEMMA InterruptKeeps ==
  ASSUME DinoInv, WaitForInterrupt, UNCHANGED <<call, calls>>
  PROVE  DinoInv'
<1>1. hwLock # NoThread /\ drv.phase = "wait" /\ drv.phase # "none"
  BY IsRunning DEF WaitForInterrupt
<1>2. Types /\ TypeOK /\ NoTrouble
  BY DEF DinoInv, Types
<1>3. /\ WireFacts(Current, Completed, drv, wire, pend, served)
      /\ trouble = 0 => FirstTry(drv, wire, pend, served, efd)
      /\ drv \in DriverStates
  BY <1>1, TransferRuns
<1>4. /\ ~ served /\ drv.left > 0 /\ efd
      /\ efd' = FALSE /\ pend' = {} /\ served' = ("done" \in pend)
      /\ drv' = [drv EXCEPT !.left = @ - 1, !.txErr = @ \/ "error" \in pend]
      /\ UNCHANGED <<prog, data, ret, switchLock, channel, hwLock, wire, rx, devVars, trouble>>
  BY DEF WaitForInterrupt
<1>5. /\ drv' \in DriverStates /\ drv'.phase = "wait" /\ drv'.tries = drv.tries
      /\ drv'.txErr = (drv.txErr \/ "error" \in pend)
  <2>1. drv.left - 1 \in 0 .. Tries
    BY <1>3, <1>4, Constants DEF DriverStates
  <2>2. drv.txErr \in BOOLEAN /\ (drv.txErr \/ "error" \in pend) \in BOOLEAN
    BY <1>3 DEF DriverStates
  <2> QED
    BY <1>1, <1>3, <1>4, <2>1, <2>2 DEF DriverStates
<1>6. WireFacts(Current, Completed, drv', wire', pend', served')
  BY <1>1, <1>3, <1>4, <1>5 DEF WireFacts
<1>7. trouble' = 0 => /\ FirstTry(drv', wire', pend', served', efd')
                      /\ "error" \notin pend' /\ (efd' => "done" \in pend')
  <2> SUFFICES ASSUME trouble = 0
               PROVE  FirstTry(drv', wire', pend', served', efd')
    BY <1>4
  <2>1. "error" \notin pend /\ "done" \in pend
    BY <1>2, <1>4 DEF NoTrouble
  <2>2. wire = Idle /\ drv.tries = Tries /\ ~ drv.txErr
    BY <1>1, <1>3, <1>4 DEF FirstTry
  <2> QED
    BY <1>4, <1>5, <2>1, <2>2 DEF FirstTry
<1>8. /\ served' \in BOOLEAN /\ efd' \in BOOLEAN /\ pend' \subseteq {"done", "error", "bnb"}
      /\ OfBus(wire') /\ trouble' \in Nat /\ (trouble' = 0 => trouble = 0)
      /\ drv'.phase # "none"
  <2>1. wire' = wire /\ trouble' = trouble /\ OfBus(wire) /\ trouble \in Nat
    BY <1>2, <1>4 DEF Types
  <2>3. served' \in BOOLEAN
    <3>1. ("done" \in pend) \in BOOLEAN
      OBVIOUS
    <3>2. served' = ("done" \in pend)
      BY <1>4
    <3> QED
      BY <3>1, <3>2, Zenon
  <2>4. efd' \in BOOLEAN
    BY <1>4, Zenon
  <2>2. served' \in BOOLEAN /\ efd' \in BOOLEAN /\ pend' \subseteq {"done", "error", "bnb"}
    BY <1>4, <2>3, <2>4, Zenon
  <2> QED
    BY <1>5, <2>1, <2>2
<1> QED
  BY <1>1, <1>4, <1>5, <1>6, <1>7, <1>8, DriverKeeps

LEMMA TimeoutKeeps ==
  ASSUME DinoInv, WaitTimesOut, UNCHANGED <<call, calls>>
  PROVE  DinoInv'
<1>1. hwLock # NoThread /\ drv.phase = "wait" /\ drv.phase # "none"
  BY IsRunning DEF WaitTimesOut
<1>2. Types /\ TypeOK /\ NoTrouble
  BY DEF DinoInv, Types
<1>3. /\ WireFacts(Current, Completed, drv, wire, pend, served)
      /\ trouble = 0 => FirstTry(drv, wire, pend, served, efd)
      /\ drv \in DriverStates
  BY <1>1, TransferRuns
<1>4. /\ ~ served /\ ~ efd
      /\ drv' = [drv EXCEPT !.left = 0]
      /\ UNCHANGED <<prog, data, ret, switchLock, channel, hwLock, served, busVars, devVars>>
  BY DEF WaitTimesOut
<1>5. drv' \in DriverStates /\ drv'.phase = "wait" /\ drv'.txErr = drv.txErr
  BY <1>1, <1>3, <1>4, Constants DEF DriverStates
<1>6. WireFacts(Current, Completed, drv', wire', pend', served')
  BY <1>1, <1>3, <1>4, <1>5 DEF WireFacts, busVars
<1>7. trouble' \in Nat /\ trouble' # 0
  <2>1. trouble \in Nat
    BY <1>2 DEF Types
  <2>2. CASE wire # Idle
    BY <2>1, <2>2 DEF WaitTimesOut, Trouble
  <2>3. CASE wire = Idle
    <3>1. trouble # 0
      BY <1>1, <1>3, <1>4, <2>3 DEF FirstTry
    <3> QED
      BY <2>1, <2>3, <3>1 DEF WaitTimesOut
  <2> QED
    BY <2>2, <2>3
<1>8. /\ served' \in BOOLEAN /\ efd' \in BOOLEAN /\ pend' \subseteq {"done", "error", "bnb"}
      /\ OfBus(wire') /\ drv'.phase # "none" /\ rx' = rx
  BY <1>2, <1>4, <1>5 DEF Types, TypeOK, busVars
<1> QED
  BY <1>1, <1>4, <1>5, <1>6, <1>7, <1>8, DriverKeeps

(* A call that throws leaves its locks behind, and nobody in a call.       *)
LEMMA AbortKeeps ==
  ASSUME DinoInv, NEW t \in Threads, InCall(t), hwLock' = t, Throw(t), drv' = Quiet,
         UNCHANGED <<data, switchLock, channel, served, rx, devVars, call, calls>>,
         efd' \in BOOLEAN, pend' \subseteq {"done", "error", "bnb"}, OfBus(wire'),
         trouble' \in Nat, trouble' # 0
  PROVE  DinoInv'
<1>1. Types /\ TypeOK /\ Programs /\ Knowledge /\ Locks
  BY DEF DinoInv, Types
<1>2. NoThread \notin Threads /\ switchLock = t
  BY <1>1, I2cAssumption DEF I2cAssumption, Locks
<1>3. prog'[t] = <<>> /\ \A u \in Threads : u # t => prog'[u] = prog[u]
  BY <1>1 DEF Types, Throw
<1>4. \A u \in Threads : ~ InCall(u)'
  <2> SUFFICES ASSUME NEW u \in Threads PROVE ~ InCall(u)'
    OBVIOUS
  <2>1. CASE u = t
    BY <1>3, <2>1 DEF InCall, At
  <2>2. CASE u # t
    <3>1. ~ InCall(u)
      BY <1>1, <1>2, <2>2 DEF Locks
    <3> QED
      BY <1>3, <2>2, <3>1 DEF InCall, At
  <2> QED
    BY <2>1, <2>2
<1>5. Types'
  <2>1. prog' = [u \in Threads |-> prog'[u]]
    BY <1>1 DEF Types, Throw
  <2>2. PICK how \in {"throw", "false"} : ret' = [ret EXCEPT ![t] = how]
    BY DEF Throw, Returns
  <2>3. ret' \in [Threads -> {"none", "ok", "throw", "false"}]
    BY <1>1, <2>2 DEF TypeOK
  <2>4. \A u \in Threads : prog'[u] # <<>> => ret'[u] = "none"
    BY <1>1, <1>3, <2>2 DEF TypeOK
  <2>5. drv' \in DriverStates
    BY Constants DEF DriverStates, Quiet
  <2>6. {hwLock, switchLock}' \subseteq Threads \cup {NoThread}
    BY <1>2
  <2>7. TypeOK'
    BY <1>1, <2>3, <2>4, <2>5, <2>6 DEF TypeOK, DriverStates, devVars
  <2> QED
    BY <1>1, <2>1, <2>7 DEF Types, OfBus
<1>6. Programs'
  <2>1. ASSUME NEW u \in Threads, prog'[u] # <<>>
        PROVE  call'[u] \in Call /\ EndOf(prog'[u], call'[u])
    BY <1>1, <1>3, <2>1 DEF Programs
  <2> QED
    BY <2>1 DEF Programs
<1>7. Knowledge'
  BY <1>4 DEF Knowledge
<1>8. Locks'
  <2>1. ~ HolderInCall'
    BY <1>3 DEF HolderInCall, InCall, At
  <2>2. drv'.phase = "none" /\ hwLock' # NoThread
    BY <1>2 DEF Quiet
  <2> QED
    BY <1>2, <1>4, <2>1, <2>2 DEF Locks, Quiet
<1>9. OnWire'
  BY DEF OnWire, Quiet
<1>10. NoTrouble'
  BY DEF NoTrouble
<1> QED
  BY <1>5, <1>6, <1>7, <1>8, <1>9, <1>10 DEF DinoInv

LEMMA TransferInCall ==
  ASSUME Programs, NEW t \in Threads, Transfer(t)
  PROVE  InCall(t)
<1>1. prog[t] # <<>>
  BY DEF Transfer, At
<1> QED
  BY <1>1, StepOfCall

LEMMA BeginFailsKeeps ==
  ASSUME DinoInv, NEW t \in Threads, BeginFails(t), UNCHANGED <<call, calls>>
  PROVE  DinoInv'
<1>1. Types /\ TypeOK /\ Programs
  BY DEF DinoInv, Types
<1>2. InCall(t)
  BY <1>1, TransferInCall DEF BeginFails, Locked
<1>3. /\ hwLock' = t /\ Throw(t) /\ drv' = Quiet /\ trouble' = trouble + 1
      /\ UNCHANGED <<data, switchLock, channel, served, busVars, devVars>>
  BY DEF BeginFails, Locked, Trouble
<1>4. /\ efd' \in BOOLEAN /\ pend' \subseteq {"done", "error", "bnb"} /\ OfBus(wire') /\ rx' = rx
      /\ trouble' \in Nat /\ trouble' # 0
  BY <1>1, <1>3 DEF Types, TypeOK, busVars
<1> QED
  BY <1>2, <1>3, <1>4, AbortKeeps

(* The exceptions of a transfer that runs                                  *)
LEMMA AbortsKeep ==
  ASSUME DinoInv, hwLock # NoThread, drv.phase # "none", Abort,
         UNCHANGED <<data, switchLock, channel, hwLock, served, rx, devVars, call, calls>>,
         efd' \in BOOLEAN, pend' \subseteq {"done", "error", "bnb"}, wire' \in {wire, Idle},
         trouble' \in Nat, trouble' # 0
  PROVE  DinoInv'
<1>1. Types /\ Programs
  BY DEF DinoInv, Types
<1>2. hwLock \in Threads /\ InCall(hwLock)
  BY <1>1, TransferRuns, TransferInCall
<1>3. Throw(hwLock) /\ drv' = Quiet
  BY DEF Abort
<1>4. OfBus(wire')
  BY <1>1 DEF Types, OfBus
<1> QED
  BY <1>2, <1>3, <1>4, AbortKeeps

LEMMA FailsKeeps ==
  ASSUME DinoInv, TransferFails \/ StopFails, UNCHANGED <<call, calls>>
  PROVE  DinoInv'
<1>1. hwLock # NoThread /\ drv.phase # "none"
  BY IsRunning DEF TransferFails, StopFails
<1>2. Types /\ TypeOK
  BY DEF DinoInv, Types
<1>3. /\ Abort /\ trouble' = trouble + 1
      /\ UNCHANGED <<data, switchLock, channel, hwLock, served, rx, devVars, pend, efd>>
      /\ wire' \in {wire, Idle}
  BY DEF TransferFails, StopFails, Trouble, busVars
<1>4. /\ efd' \in BOOLEAN /\ pend' \subseteq {"done", "error", "bnb"}
      /\ trouble' \in Nat /\ trouble' # 0
  BY <1>2, <1>3 DEF Types, TypeOK
<1> QED
  BY <1>1, <1>3, <1>4, AbortsKeep

LEMMA NotBusyKeeps ==
  ASSUME DinoInv, WaitForBusNotBusy, UNCHANGED <<call, calls>>
  PROVE  DinoInv'
<1>1. hwLock # NoThread /\ drv.phase = "bnb" /\ drv.phase # "none"
  BY IsRunning DEF WaitForBusNotBusy
<1>2. Types /\ TypeOK /\ NoTrouble
  BY DEF DinoInv, Types
<1>3. /\ WireFacts(Current, Completed, drv, wire, pend, served)
      /\ trouble = 0 => FirstTry(drv, wire, pend, served, efd)
      /\ drv \in DriverStates
  BY <1>1, TransferRuns
<1>4. /\ efd' = FALSE /\ pend' = pend \ {"bnb"}
      /\ UNCHANGED <<data, switchLock, channel, hwLock, served, wire, rx, devVars>>
  BY DEF WaitForBusNotBusy
<1>5. trouble' \in Nat /\ trouble' # 0
  <2>1. trouble \in Nat /\ trouble # 0
    BY <1>1, <1>2, <1>3 DEF Types, FirstTry
  <2> QED
    BY <2>1 DEF WaitForBusNotBusy, Trouble
<1>6. efd' \in BOOLEAN /\ pend' \subseteq {"done", "error", "bnb"} /\ OfBus(wire')
      /\ served' \in BOOLEAN
  BY <1>2, <1>4 DEF Types, TypeOK
<1>7. CASE Abort
  BY <1>1, <1>4, <1>5, <1>6, <1>7, AbortsKeep
<1>8. CASE /\ UNCHANGED <<prog, ret>>
           /\ \/ drv.bb > 0 /\ drv' = [drv EXCEPT !.phase = "transfer", !.bb = @ - 1]
              \/ drv' = [drv EXCEPT !.phase = "wait", !.left = Tries]
              \/ drv.left > 1 /\ drv' = [drv EXCEPT !.left = @ - 1]
  <2>1. Tries \in 0 .. Tries
    BY Constants
  <2>2. drv' \in DriverStates /\ drv'.phase \notin {"none", "stop"} /\ drv'.txErr = drv.txErr
    <3>1. CASE drv.bb > 0 /\ drv' = [drv EXCEPT !.phase = "transfer", !.bb = @ - 1]
      <4>1. drv.bb - 1 \in {0, 1}
        BY <1>3, <3>1 DEF DriverStates
      <4> QED
        BY <1>3, <3>1, <4>1 DEF DriverStates
    <3>2. CASE drv' = [drv EXCEPT !.phase = "wait", !.left = Tries]
      BY <1>3, <2>1, <3>2 DEF DriverStates
    <3>3. CASE drv.left > 1 /\ drv' = [drv EXCEPT !.left = @ - 1]
      <4>1. drv.left - 1 \in 0 .. Tries
        BY <1>3, <2>1, <3>3 DEF DriverStates
      <4> QED
        BY <1>1, <1>3, <3>3, <4>1 DEF DriverStates
    <3> QED
      BY <1>8, <3>1, <3>2, <3>3
  <2>3. WireFacts(Current, Completed, drv', wire', pend', served')
    BY <1>3, <1>4, <2>2 DEF WireFacts
  <2> QED
    BY <1>1, <1>4, <1>5, <1>6, <1>8, <2>2, <2>3, DriverKeeps
<1>9. \/ Abort
      \/ /\ UNCHANGED <<prog, ret>>
         /\ \/ drv.bb > 0 /\ drv' = [drv EXCEPT !.phase = "transfer", !.bb = @ - 1]
            \/ drv' = [drv EXCEPT !.phase = "wait", !.left = Tries]
            \/ drv.left > 1 /\ drv' = [drv EXCEPT !.left = @ - 1]
  BY DEF WaitForBusNotBusy
<1> QED
  BY <1>7, <1>8, <1>9

LEMMA EndTryKeeps ==
  ASSUME DinoInv, EndTry, UNCHANGED <<call, calls>>
  PROVE  DinoInv'
<1>1. hwLock # NoThread /\ drv.phase = "wait" /\ drv.phase # "none"
  BY IsRunning DEF EndTry
<1>2. Types /\ TypeOK /\ NoTrouble
  BY DEF DinoInv, Types
<1>3. /\ WireFacts(Current, Completed, drv, wire, pend, served)
      /\ trouble = 0 => FirstTry(drv, wire, pend, served, efd)
      /\ drv \in DriverStates /\ Current.op \in {"write", "read"} /\ prog[hwLock] # <<>>
  BY <1>1, TransferRuns
<1>4. /\ served \/ drv.left = 0
      /\ UNCHANGED <<data, switchLock, channel, hwLock, served, busVars, devVars, trouble>>
  BY DEF EndTry
<1>5. /\ efd' \in BOOLEAN /\ pend' \subseteq {"done", "error", "bnb"} /\ wire' = wire
      /\ OfBus(wire') /\ trouble' \in Nat /\ trouble' = trouble /\ served' \in BOOLEAN
      /\ efd' = efd /\ pend' = pend /\ rx' = rx
  BY <1>2, <1>4 DEF Types, TypeOK, busVars
<1>6. At(hwLock, "write") <=> Current.op = "write"
  BY <1>3 DEF At, Current
<1>7. Tries \in Nat /\ Tries > 1
  BY Constants
<1>8. trouble = 0 => served /\ drv.tries = Tries /\ ~ drv.txErr /\ wire = Idle /\ ~ efd
  BY <1>1, <1>3, <1>4, <1>7 DEF FirstTry
<1>9. CASE Abort
  <2>1. ASSUME trouble = 0, drv.tries = 1 \/ (served /\ drv.txErr /\ At(hwLock, "write"))
        PROVE  FALSE
    BY <1>7, <1>8, <2>1
  <2>2. \/ drv.tries = 1 \/ (served /\ drv.txErr /\ At(hwLock, "write"))
        \/ UNCHANGED <<prog, ret>>
    BY DEF EndTry
  <2>3. prog' # prog
    <3>1. hwLock \in Threads
      BY <1>1, TransferRuns
    <3>2. prog'[hwLock] = <<>>
      BY <1>2, <1>9, <3>1 DEF Types, Abort, Throw
    <3> QED
      BY <1>3, <3>2
  <2>4. trouble' # 0
    BY <1>5, <2>1, <2>2, <2>3
  <2> QED
    BY <1>1, <1>4, <1>5, <1>9, <2>4, AbortsKeep
<1>10. CASE /\ ~ served /\ drv.tries > 1
            /\ drv' = [phase |-> "transfer", tries |-> drv.tries - 1, bb |-> 1, left |-> 0,
                       txErr |-> FALSE]
            /\ UNCHANGED <<prog, ret>>
  <2>1. drv.tries - 1 \in 0 .. Tries /\ 0 \in 0 .. Tries
    BY <1>3, <1>7, <1>10 DEF DriverStates
  <2>2. drv' \in DriverStates /\ drv'.phase = "transfer"
    BY <1>10, <2>1 DEF DriverStates
  <2>3. WireFacts(Current, Completed, drv', wire', pend', served')
    BY <1>3, <1>4, <1>5, <1>10, <2>2 DEF WireFacts
  <2>4. trouble' # 0
    BY <1>5, <1>8, <1>10
  <2> QED
    BY <1>1, <1>4, <1>5, <1>10, <2>2, <2>3, <2>4, DriverKeeps
<1>11. CASE /\ served /\ drv.tries > 1
            /\ ~ (drv.txErr /\ At(hwLock, "write"))
            /\ drv' = [drv EXCEPT !.phase = "stop"]
            /\ UNCHANGED <<prog, ret>>
  <2>1. /\ drv' \in DriverStates /\ drv'.phase = "stop" /\ drv'.txErr = drv.txErr
        /\ drv'.tries = drv.tries
    BY <1>3, <1>11 DEF DriverStates
  <2>2. Completed
    BY <1>3, <1>6, <1>11 DEF WireFacts
  <2>3. WireFacts(Current, Completed, drv', wire', pend', served')
    BY <1>3, <1>4, <1>5, <1>11, <2>1, <2>2 DEF WireFacts
  <2>4. trouble' = 0 => /\ FirstTry(drv', wire', pend', served', efd')
                        /\ "error" \notin pend' /\ (efd' => "done" \in pend')
    BY <1>2, <1>4, <1>5, <1>8, <1>11, <2>1 DEF FirstTry, NoTrouble
  <2> QED
    BY <1>1, <1>4, <1>5, <1>11, <2>1, <2>3, <2>4, DriverKeeps
<1> QED
  BY <1>9, <1>10, <1>11 DEF EndTry

LEMMA BeginKeeps ==
  ASSUME DinoInv, NEW t \in Threads, Begin(t), UNCHANGED <<call, calls>>
  PROVE  DinoInv'
<1>1. Types /\ TypeOK /\ Programs /\ Knowledge /\ Locks /\ NoTrouble
  BY DEF DinoInv, Types
<1>2. /\ Transfer(t) /\ hwLock = NoThread /\ hwLock' = t
      /\ drv' = [phase |-> "transfer", tries |-> Tries, bb |-> 1, left |-> 0, txErr |-> FALSE]
      /\ served' = FALSE /\ pend' = {}
      /\ UNCHANGED <<prog, data, ret, switchLock, channel, wire, efd, rx, devVars, trouble>>
  BY DEF Begin, Locked
<1>3. InCall(t) /\ switchLock = t /\ NoThread \notin Threads /\ wire = Idle
  BY <1>1, <1>2, TransferInCall, I2cAssumption DEF Locks, I2cAssumption
<1>4. drv' \in DriverStates /\ drv'.phase = "transfer" /\ drv'.tries = Tries /\ ~ drv'.txErr
  <2>1. Tries \in 0 .. Tries /\ 0 \in 0 .. Tries
    BY Constants
  <2> QED
    BY <1>2, <2>1 DEF DriverStates
<1>5. Types'
  <2>1. {hwLock, switchLock}' \subseteq Threads \cup {NoThread}
    BY <1>2, <1>3
  <2>2. TypeOK'
    BY <1>1, <1>2, <1>4, <2>1 DEF TypeOK, DriverStates, devVars
  <2> QED
    BY <1>1, <1>2, <2>2 DEF Types, OfBus
<1>6. Programs'
  BY <1>1, <1>2 DEF Programs
<1>7. Knowledge'
  BY <1>1, <1>2 DEF Knowledge, InCall, At, devVars, BoardLine
<1>8. Locks'
  <2>1. HolderTransfers'
    BY <1>2 DEF HolderTransfers, Transfer, At
  <2>2. \A u \in Threads : InCall(u)' => switchLock' = u
    BY <1>1, <1>2 DEF Locks, InCall, At
  <2> QED
    BY <1>2, <1>3, <1>4, <2>1, <2>2 DEF Locks
<1>9. OnWire'
  <2>1. wire' = Idle /\ "done" \notin pend' /\ ~ served' /\ drv'.phase # "stop"
    BY <1>2, <1>3, <1>4
  <2>2. \A s, done : WireFacts(s, done, drv', wire', pend', served')
    BY <2>1 DEF WireFacts
  <2> QED
    BY <2>2, Zenon DEF OnWire
<1>10. NoTrouble'
  <2>1. ASSUME trouble = 0
        PROVE  FirstTry(drv', wire', pend', served', efd') /\ ~ efd'
    BY <1>1, <1>2, <1>3, <1>4, <2>1 DEF FirstTry, NoTrouble
  <2>2. trouble = 0 => \A u \in Threads : switchLock' = u => InCall(u)'
    BY <1>1, <1>2 DEF NoTrouble, InCall, At
  <2>3. hwLock' # NoThread /\ "error" \notin pend' /\ trouble' = trouble
    BY <1>2, <1>3
  <2> QED
    BY <2>1, <2>2, <2>3 DEF NoTrouble
<1> QED
  BY <1>5, <1>6, <1>7, <1>8, <1>9, <1>10 DEF DinoInv

LEMMA StopKeeps ==
  ASSUME DinoInv, Stop, UNCHANGED <<call, calls>>
  PROVE  DinoInv'
<1>1. hwLock # NoThread /\ drv.phase = "stop" /\ drv.phase # "none"
  BY IsRunning DEF Stop
<1>14. PICK t \in Threads : t = hwLock
  BY <1>1, TransferRuns
<1> DEFINE p == prog[t]
           c == call[t]
           q == Tail(p)
           db == Bytes(p[1], data[t], rx)
<1>2. Types /\ TypeOK /\ Programs /\ Knowledge /\ Locks /\ NoTrouble
  BY DEF DinoInv, Types
<1>3. /\ WireFacts(Current, Completed, drv, wire, pend, served)
      /\ trouble = 0 => FirstTry(drv, wire, pend, served, efd)
      /\ t \in Threads /\ Transfer(t) /\ switchLock = t
      /\ p # <<>> /\ Current = p[1] /\ p[1].op \in {"write", "read"}
  BY <1>1, <1>14, TransferRuns
<1>4. NoThread \notin Threads
  BY I2cAssumption DEF I2cAssumption
<1>5. /\ c \in Call /\ EndOf(p, c) /\ <<>> \o Tail(p) = q /\ EndOf(q, c) /\ InCall(t)
      /\ Head(p) = p[1]
  BY <1>2, <1>3, StepOfCall, TransferInCall
<1>6. Happened(p[1], mux, port[BoardLine(c)], pointer[BoardLine(c)], rx)
  BY <1>1, <1>3, <1>14 DEF WireFacts, Completed, Effect
<1>7. Knows(c, p, channel, mux, port[BoardLine(c)], pointer[BoardLine(c)], data[t])
  BY <1>2, <1>3, <1>5 DEF Knowledge
<1>8. Knows(c, q, channel, mux, port[BoardLine(c)], pointer[BoardLine(c)], db)
  BY <1>3, <1>5, <1>6, <1>7, KnowsAfterTransfer
<1>9. q # <<>> /\ q[1].op # "lock" /\ Head(q) = q[1]
  <2>1. q # <<>> /\ q[1].op # "lock"
    BY <1>3, <1>5, GoesOn
  <2> QED
    BY <1>5, <2>1, TailOf DEF EndOf
<1>10. /\ prog' = [prog EXCEPT ![t] = q]
       /\ data' = [data EXCEPT ![t] = db]
       /\ wire' = Idle /\ drv' = Quiet /\ hwLock' = NoThread
       /\ UNCHANGED <<switchLock, channel, served, pend, efd, rx, devVars, trouble>>
  <2>1. prog' = [prog EXCEPT ![t] = q]
    BY <1>5, <1>14 DEF Stop, Continue
  <2>2. data' = IF Head(p).op = "write" THEN data
                ELSE [data EXCEPT ![t] = IF Head(p).again THEN Append(@, rx) ELSE <<rx>>]
    BY <1>14 DEF Stop
  <2>3. data' = [data EXCEPT ![t] = db]
    <3> DEFINE s == p[1]
    <3>1. data = [u \in Threads |-> data[u]]
      BY <1>2 DEF Types
    <3> HIDE DEF s
    <3>2. data' = IF s.op = "write" THEN data
                  ELSE [data EXCEPT ![t] = IF s.again THEN Append(@, rx) ELSE <<rx>>]
      BY <1>5, <2>2 DEF s
    <3>3. CASE s.op = "write"
      <4>1. data' = data /\ db = data[t]
        BY <3>2, <3>3 DEF Bytes, s
      <4> QED
        BY <3>1, <4>1
    <3>4. CASE s.op # "write"
      <4>1. db = IF s.again THEN Append(data[t], rx) ELSE <<rx>>
        BY <3>4 DEF Bytes, s
      <4> QED
        BY <3>2, <3>4, <4>1
    <3> QED
      BY <3>3, <3>4
  <2> QED
    BY <2>1, <2>3 DEF Stop
<1> HIDE DEF p, q, c, db
<1>11. /\ prog'[t] = q /\ data'[t] = db
       /\ \A u \in Threads : u # t => prog'[u] = prog[u] /\ data'[u] = data[u]
  BY <1>2, <1>3, <1>10 DEF Types
<1>12. UNCHANGED ret
  BY <1>9, <1>11, <1>14 DEF Stop, Continue
<1>13. InCall(t)' /\ \A u \in Threads : u # t => ~ InCall(u)'
  <2>1. prog'[t] # <<>> /\ Head(prog'[t]).op # "lock"
    BY <1>9, <1>11
  <2>2. ASSUME NEW u \in Threads, u # t PROVE ~ InCall(u)'
    <3>1. ~ InCall(u)
      BY <1>2, <1>3, <2>2 DEF Locks
    <3> QED
      BY <1>11, <2>2, <3>1 DEF InCall, At
  <2> QED
    BY <2>1, <2>2 DEF InCall, At
<1>15. Types'
  <2>1. prog' = [u \in Threads |-> prog'[u]]
    BY <1>2, <1>10 DEF Types
  <2>2. data' = [u \in Threads |-> data'[u]]
    BY <1>2, <1>10 DEF Types
  <2>3. \A u \in Threads : prog'[u] # <<>> => ret'[u] = "none"
    BY <1>2, <1>3, <1>11, <1>12 DEF TypeOK, p
  <2>4. drv' \in DriverStates
    BY <1>10, Constants DEF DriverStates, Quiet
  <2>5. {hwLock, switchLock}' \subseteq Threads \cup {NoThread}
    BY <1>3, <1>10
  <2>6. TypeOK'
    BY <1>2, <1>10, <1>12, <2>3, <2>4, <2>5 DEF TypeOK, DriverStates, devVars
  <2>7. OfBus(wire') /\ trouble' \in Nat
    BY <1>2, <1>10 DEF OfBus, Types
  <2> QED
    BY <2>1, <2>2, <2>6, <2>7 DEF Types, OfBus
<1>16. Programs'
  <2>1. ASSUME NEW u \in Threads, prog'[u] # <<>>
        PROVE  call'[u] \in Call /\ EndOf(prog'[u], call'[u])
    <3>1. CASE u = t
      BY <1>5, <1>11, <3>1 DEF c
    <3>2. CASE u # t
      BY <1>2, <1>11, <2>1, <3>2 DEF Programs
    <3> QED
      BY <3>1, <3>2
  <2> QED
    BY <2>1 DEF Programs
<1>17. Knowledge'
  <2>1. ASSUME NEW u \in Threads, InCall(u)'
        PROVE  Knows(call'[u], prog'[u], channel', mux', port'[BoardLine(call'[u])],
                     pointer'[BoardLine(call'[u])], data'[u])
    <3>1. u = t
      BY <1>13, <2>1
    <3> QED
      BY <1>8, <1>10, <1>11, <3>1 DEF devVars, c
  <2> QED
    BY <2>1 DEF Knowledge, BoardLine
<1>18. Locks'
  <2>1. \A u \in Threads : InCall(u)' => switchLock' = u
    BY <1>3, <1>10, <1>13
  <2> QED
    BY <1>10, <2>1 DEF Locks
<1>19. OnWire'
  BY <1>10 DEF OnWire
<1>20. NoTrouble'
  <2>1. \A u \in Threads : switchLock' = u => InCall(u)'
    BY <1>3, <1>10, <1>13
  <2>2. trouble = 0 => ~ efd
    BY <1>1, <1>3 DEF FirstTry
  <2> QED
    BY <1>2, <1>10, <2>1, <2>2 DEF NoTrouble
<1> QED
  BY <1>15, <1>16, <1>17, <1>18, <1>19, <1>20 DEF DinoInv

-----------------------------------------------------------------------------
(* ---- The steps of the bus --------------------------------------------------- *)

LEMMA BusKeeps ==
  ASSUME DinoInv, UNCHANGED <<prog, data, ret, switchLock, channel, drvVars, call, calls>>,
         TypeOK', OfBus(wire'), trouble' \in Nat, Knowledge',
         hwLock = NoThread => wire' = Idle,
         hwLock # NoThread /\ drv.phase # "none" =>
           WireFacts(Current, Completed', drv, wire', pend', served),
         trouble' = 0 =>
           /\ trouble = 0 /\ "error" \notin pend' /\ (efd' => "done" \in pend')
           /\ hwLock = NoThread => ~ efd'
           /\ hwLock # NoThread => FirstTry(drv, wire', pend', served, efd')
  PROVE  DinoInv'
<1>1. Types /\ TypeOK /\ Programs /\ Locks /\ NoTrouble
  BY DEF DinoInv, Types
<1>2. hwLock' = hwLock /\ drv' = drv /\ served' = served
  BY DEF drvVars
<1>3. Types'
  BY <1>1 DEF Types, OfBus
<1>4. Programs'
  BY <1>1 DEF Programs
<1>5. Locks'
  <2>1. \A u \in Threads : InCall(u)' => switchLock' = u
    BY <1>1 DEF Locks, InCall, At
  <2>2. HolderInCall' <=> HolderInCall
    BY <1>2 DEF HolderInCall, InCall, At
  <2>3. HolderTransfers' <=> HolderTransfers
    BY <1>2 DEF HolderTransfers, Transfer, At
  <2>4. hwLock = NoThread => drv = Quiet /\ wire' = Idle
    BY <1>1 DEF Locks
  <2>5. hwLock # NoThread =>
          /\ hwLock \in Threads /\ switchLock = hwLock
          /\ IF drv.phase = "none" THEN drv = Quiet /\ ~ HolderInCall ELSE HolderTransfers
    BY <1>1 DEF Locks
  <2> HIDE DEF HolderInCall, HolderTransfers
  <2> QED
    BY <1>2, <2>1, <2>2, <2>3, <2>4, <2>5 DEF Locks
<1>6. OnWire'
  BY <1>2 DEF OnWire, Current, Completed
<1>7. NoTrouble'
  <2>1. trouble = 0 => \A u \in Threads : switchLock' = u => InCall(u)'
    BY <1>1 DEF NoTrouble, InCall, At
  <2> QED
    BY <1>2, <2>1 DEF NoTrouble
<1> QED
  BY <1>3, <1>4, <1>5, <1>6, <1>7 DEF DinoInv

(* What is on the wire is the transfer that runs, unless its call has      *)
(* thrown; then no thread is in a call that uses the bus.                  *)
LEMMA WireOf ==
  ASSUME DinoInv, wire # Idle
  PROVE  /\ hwLock # NoThread
         /\ drv.phase # "none" => wire = Current
         /\ drv.phase = "none" => trouble # 0 /\ \A u \in Threads : ~ InCall(u)
<1>1. Locks /\ NoTrouble
  BY DEF DinoInv
<1>2. hwLock # NoThread
  BY <1>1 DEF Locks
<1>3. drv.phase # "none" => wire = Current
  BY <1>2, TransferRuns DEF WireFacts
<1>4. ASSUME drv.phase = "none"
      PROVE  trouble # 0 /\ \A u \in Threads : ~ InCall(u)
  <2>1. trouble # 0
    BY <1>1, <1>2, <1>4 DEF NoTrouble, FirstTry
  <2>2. switchLock = hwLock /\ ~ InCall(hwLock)
    BY <1>1, <1>2, <1>4 DEF Locks, HolderInCall
  <2> QED
    BY <1>1, <2>1, <2>2 DEF Locks
<1> QED
  BY <1>2, <1>3, <1>4

(* A transfer that runs for a step of a board reaches its expander only.   *)
LEMMA ReachesBoard ==
  ASSUME DinoInv, wire # Idle, drv.phase # "none", wire.addr # SwitchAddr
  PROVE  /\ call[hwLock] \in Call /\ call[hwLock].kind # "check"
         /\ Reached = {BoardLine(call[hwLock])}
         /\ BoardLine(call[hwLock]) \in Lines
         /\ channel = ChannelOf[call[hwLock].board] /\ mux = {LineOf(channel)}
<1> DEFINE c == call[hwLock]
           p == prog[hwLock]
<1>1. hwLock # NoThread /\ wire = Current
  BY WireOf
<1>2. Programs /\ Knowledge
  BY DEF DinoInv
<1>3. hwLock \in Threads /\ p # <<>> /\ Current = p[1] /\ Current.op \in {"write", "read"}
      /\ Transfer(hwLock)
  BY <1>1, TransferRuns
<1>4. c \in Call /\ EndOf(p, c) /\ InCall(hwLock)
  BY <1>2, <1>3, StepOfCall, TransferInCall
<1>5. c.kind # "check" /\ Remaining(p) <= Size(c) - 2
  <2>1. StepFacts(c, Remaining(p), p[1])
    BY <1>3, <1>4, AllFacts
  <2> QED
    BY <1>1, <1>3, <2>1 DEF StepFacts
<1>6. Knows(c, p, channel, mux, port[BoardLine(c)], pointer[BoardLine(c)], data[hwLock])
  BY <1>2, <1>3, <1>4 DEF Knowledge
<1>7. channel = ChannelOf[c.board] /\ mux = {LineOf(channel)}
  BY <1>5, <1>6 DEF Knows
<1>8. BoardLine(c) \in Lines /\ mux = {BoardLine(c)}
  BY <1>4, <1>5, <1>7, LineOfBoard DEF BoardLine
<1>9. Reached = {BoardLine(c)}
  BY <1>8 DEF Reached
<1> QED
  BY <1>4, <1>5, <1>7, <1>8, <1>9

LEMMA Quiets ==
  ASSUME NEW w, w.op \in {"write", "read"}
  PROVE  w # Idle
  BY DEF Idle

LEMMA FreeKeeps ==
  ASSUME DinoInv, BusFree \/ Intermediate, UNCHANGED <<call, calls>>
  PROVE  DinoInv'
<1>1. Types /\ TypeOK /\ Knowledge /\ Locks /\ NoTrouble
  BY DEF DinoInv, Types
<1>2. /\ UNCHANGED <<prog, data, ret, switchLock, channel, drvVars, wire, rx, devVars>>
      /\ efd' = TRUE
      /\ pend' \in {pend, pend \cup {"bnb"}}
  BY DEF BusFree, Intermediate, Raise
<1>3. trouble' \in Nat /\ trouble' # 0
  <2>1. trouble \in Nat
    BY <1>1 DEF Types
  <2>2. CASE BusFree
    <3>1. hwLock # NoThread /\ drv.phase = "bnb"
      BY <2>2, IsRunning DEF BusFree
    <3>2. trouble # 0
      BY <1>1, <3>1 DEF NoTrouble, FirstTry
    <3> QED
      BY <2>1, <2>2, <3>2 DEF BusFree
  <2>3. CASE Intermediate
    BY <2>1, <2>3 DEF Intermediate, Trouble
  <2> QED
    BY <2>2, <2>3
<1>4. TypeOK'
  <2>1. pend' \subseteq {"done", "error", "bnb"} /\ efd' \in BOOLEAN
    BY <1>1, <1>2 DEF TypeOK
  <2> QED
    BY <1>1, <1>2, <2>1 DEF TypeOK, drvVars, devVars
<1>5. OfBus(wire') /\ (hwLock = NoThread => wire' = Idle)
  BY <1>1, <1>2 DEF Types, Locks
<1>6. Knowledge'
  BY <1>1, <1>2 DEF Knowledge, InCall, At, devVars, BoardLine
<1>7. ASSUME hwLock # NoThread, drv.phase # "none"
      PROVE  WireFacts(Current, Completed', drv, wire', pend', served)
  <2>1. WireFacts(Current, Completed, drv, wire, pend, served)
    BY <1>7, TransferRuns
  <2>2. Completed' <=> Completed
    BY <1>2 DEF Completed, Current, Effect, drvVars, devVars, BoardLine
  <2>3. wire' = wire /\ ("done" \in pend' <=> "done" \in pend)
        /\ ("error" \in pend' <=> "error" \in pend)
    BY <1>2
  <2> QED
    BY <2>1, <2>2, <2>3 DEF WireFacts
<1> QED
  BY <1>2, <1>3, <1>4, <1>5, <1>6, <1>7, BusKeeps

LEMMA NotAcknowledgedKeeps ==
  ASSUME DinoInv, NotAcknowledged, UNCHANGED <<call, calls>>
  PROVE  DinoInv'
<1>1. Types /\ TypeOK /\ Knowledge /\ Locks /\ NoTrouble
  BY DEF DinoInv, Types
<1>2. /\ UNCHANGED <<prog, data, ret, switchLock, channel, drvVars, rx, devVars>>
      /\ wire # Idle /\ wire' = Idle /\ efd' = TRUE
      /\ \/ pend' = pend \cup {"error"}
         \/ wire.op = "write" /\ pend' = pend \cup {"error", "done"}
  BY DEF NotAcknowledged, Raise
<1>3. trouble' \in Nat /\ trouble' # 0
  <2>1. trouble \in Nat
    BY <1>1 DEF Types
  <2>2. CASE wire.addr # SwitchAddr /\ Reached = {}
    <3>1. drv.phase = "none"
      BY <1>2, <2>2, ReachesBoard
    <3>2. trouble # 0
      BY <1>2, <3>1, WireOf
    <3> QED
      BY <2>1, <2>2, <3>2 DEF NotAcknowledged
  <2>3. CASE ~ (wire.addr # SwitchAddr /\ Reached = {})
    BY <2>1, <2>3 DEF NotAcknowledged, Trouble
  <2> QED
    BY <2>2, <2>3
<1>4. TypeOK'
  <2>1. pend' \subseteq {"done", "error", "bnb"} /\ efd' \in BOOLEAN
    BY <1>1, <1>2 DEF TypeOK
  <2> QED
    BY <1>1, <1>2, <2>1 DEF TypeOK, drvVars, devVars
<1>5. OfBus(wire') /\ (hwLock = NoThread => wire' = Idle)
  BY <1>2 DEF OfBus
<1>6. Knowledge'
  BY <1>1, <1>2 DEF Knowledge, InCall, At, devVars, BoardLine
<1>7. ASSUME hwLock # NoThread, drv.phase # "none"
      PROVE  WireFacts(Current, Completed', drv, wire', pend', served)
  <2>1. WireFacts(Current, Completed, drv, wire, pend, served)
    BY <1>7, TransferRuns
  <2>2. Completed' <=> Completed
    BY <1>2 DEF Completed, Current, Effect, drvVars, devVars, BoardLine
  <2>3. wire = Current
    BY <1>2, <1>7, WireOf
  <2> QED
    BY <1>2, <2>1, <2>2, <2>3 DEF WireFacts
<1> QED
  BY <1>2, <1>3, <1>4, <1>5, <1>6, <1>7, BusKeeps

LEMMA ReceivedKeeps ==
  ASSUME DinoInv, Received, UNCHANGED <<call, calls>>
  PROVE  DinoInv'
<1>1. Types /\ TypeOK /\ Knowledge /\ Locks /\ NoTrouble
  BY DEF DinoInv, Types
<1>2. /\ UNCHANGED <<prog, data, ret, switchLock, channel, drvVars, devVars, trouble>>
      /\ wire.op = "read" /\ wire' = Idle /\ efd' = TRUE /\ pend' = pend \cup {"done"}
  BY DEF Received, Raise
<1>3. wire # Idle /\ trouble' \in Nat
  BY <1>1, <1>2, Quiets DEF Types
<1>4. TypeOK'
  <2>1. pend' \subseteq {"done", "error", "bnb"} /\ efd' \in BOOLEAN
    BY <1>1, <1>2 DEF TypeOK
  <2> QED
    BY <1>1, <1>2, <2>1 DEF TypeOK, drvVars, devVars
<1>5. OfBus(wire') /\ (hwLock = NoThread => wire' = Idle)
  BY <1>2 DEF OfBus
<1>6. Knowledge'
  BY <1>1, <1>2 DEF Knowledge, InCall, At, devVars, BoardLine
<1>7. ASSUME hwLock # NoThread, drv.phase # "none"
      PROVE  WireFacts(Current, Completed', drv, wire', pend', served)
  <2>1. wire = Current /\ hwLock' = hwLock /\ prog' = prog /\ call' = call
    BY <1>2, <1>3, <1>7, WireOf DEF drvVars
  <2>2. Completed'
    <3> DEFINE s == Current
               l == BoardLine(call[hwLock])
    <3>1. s.op = "read"
      BY <1>2, <2>1
    <3>2. s.addr # SwitchAddr => rx' = port[l][pointer[l]]
      <4>1. wire.addr # SwitchAddr => Reached = {l}
        BY <1>3, <1>7, ReachesBoard
      <4> HIDE DEF l
      <4> QED
        BY <2>1, <4>1 DEF Received
    <3>3. Happened(s, mux, port[l], pointer[l], rx')
      BY <3>1, <3>2 DEF Happened
    <3> QED
      BY <1>2, <2>1, <3>3 DEF Completed, Current, Effect, devVars, BoardLine
  <2>3. WireFacts(Current, Completed, drv, wire, pend, served)
    BY <1>7, TransferRuns
  <2> QED
    BY <1>2, <2>1, <2>2, <2>3 DEF WireFacts
<1>8. ASSUME trouble' = 0
      PROVE  /\ trouble = 0 /\ "error" \notin pend' /\ (efd' => "done" \in pend')
             /\ hwLock # NoThread
             /\ FirstTry(drv, wire', pend', served, efd')
  <2>1. hwLock # NoThread
    BY <1>3, WireOf
  <2>2. trouble = 0 /\ "error" \notin pend /\ FirstTry(drv, wire, pend, served, efd)
    BY <1>1, <1>2, <1>8, <2>1 DEF NoTrouble
  <2> QED
    BY <1>2, <1>3, <2>1, <2>2 DEF FirstTry
<1> QED
  BY <1>2, <1>3, <1>4, <1>5, <1>6, <1>7, <1>8, BusKeeps

LEMMA WrittenForm ==
  ASSUME NEW s, OfBus(s), s.op = "write"
  PROVE  /\ s.addr = SwitchAddr => s.bytes[1] \in SUBSET Lines
         /\ s.addr # SwitchAddr => /\ s.bytes[1] \in {Dir, Out}
                                   /\ Len(s.bytes) = 2 => s.bytes[2] \in SUBSET Field
<1>1. s # Idle /\ s.op # "read"
  BY Quiets
<1>2. CASE s.addr = SwitchAddr
  <2>1. PICK l \in Lines : s = Write(SwitchAddr, <<{l}>>)
    BY <1>1, <1>2, BusForms DEF OfBus
  <2>2. s.bytes[1] = {l}
    BY <2>1 DEF Write
  <2> QED
    BY <1>2, <2>2
<1>3. CASE s.addr # SwitchAddr
  <2>1. PICK r \in {Dir, Out} :
          s = Write(IoextAddr, <<r>>) \/ \E f \in SUBSET Field : s = Write(IoextAddr, <<r, f>>)
    BY <1>1, <1>3 DEF OfBus
  <2>2. ASSUME s = Write(IoextAddr, <<r>>) PROVE s.bytes[1] = r /\ Len(s.bytes) # 2
    <3>1. s.bytes = <<r>>
      BY <2>2 DEF Write
    <3> QED
      BY <3>1
  <2>3. ASSUME NEW f \in SUBSET Field, s = Write(IoextAddr, <<r, f>>)
        PROVE  s.bytes[1] = r /\ s.bytes[2] = f
    <3>1. s.bytes = <<r, f>>
      BY <2>3 DEF Write
    <3> QED
      BY <3>1
  <2> QED
    BY <1>3, <2>1, <2>2, <2>3
<1> QED
  BY <1>2, <1>3

(* The registers of every expander stay what they can be, whichever ones   *)
(* the bytes reach.                                                        *)
LEMMA SentTypes ==
  ASSUME DinoInv, Sent
  PROVE  /\ mux' \in SUBSET Lines
         /\ port' \in [Lines -> Registers]
         /\ pointer' \in [Lines -> {Dir, Out}]
<1>1. mux \in SUBSET Lines /\ port \in [Lines -> Registers]
      /\ pointer \in [Lines -> {Dir, Out}] /\ OfBus(wire) /\ wire.op = "write"
  BY DEF DinoInv, Types, TypeOK, Registers, Sent
<1>2. CASE wire.addr = SwitchAddr
  BY <1>1, <1>2, WrittenForm DEF Sent
<1>3. CASE wire.addr # SwitchAddr
  <2> DEFINE b == wire.bytes
  <2>1. b[1] \in {Dir, Out} /\ (Len(b) = 2 => b[2] \in SUBSET Field)
    BY <1>1, <1>3, WrittenForm
  <2>2. /\ mux' = mux
        /\ pointer' = [l \in Lines |-> IF l \in Reached THEN b[1] ELSE pointer[l]]
        /\ port' = [l \in Lines |-> IF l \in Reached /\ Len(b) = 2
                      THEN [port[l] EXCEPT ![b[1]] = b[2]] ELSE port[l]]
    BY <1>3 DEF Sent
  <2> HIDE DEF b
  <2>3. pointer' \in [Lines -> {Dir, Out}]
    BY <1>1, <2>1, <2>2
  <2>4. ASSUME NEW l \in Lines, Len(b) = 2
        PROVE  [port[l] EXCEPT ![b[1]] = b[2]] \in Registers
    <3>1. port[l] \in Registers
      BY <1>1
    <3> QED
      BY <2>1, <2>4, <3>1 DEF Registers
  <2>5. port' \in [Lines -> Registers]
    BY <1>1, <2>2, <2>4
  <2> QED
    BY <1>1, <2>2, <2>3, <2>5
<1> QED
  BY <1>2, <1>3

LEMMA SentDone ==
  ASSUME DinoInv, Sent, drv.phase # "none", NEW l, l = BoardLine(call[hwLock])
  PROVE  /\ Done(Current, mux, port[l], pointer[l], mux', port'[l], pointer'[l])
         /\ Current.addr # SwitchAddr => l \in Lines /\ port[l] \in Registers
<1>1. wire # Idle /\ wire = Current /\ wire.op = "write"
  BY Quiets, WireOf DEF Sent
<1>2. CASE wire.addr = SwitchAddr
  BY <1>1, <1>2 DEF Sent, Done
<1>3. CASE wire.addr # SwitchAddr
  <2> DEFINE b == wire.bytes
  <2>1. l \in Lines /\ Reached = {l}
    BY <1>1, <1>3, ReachesBoard
  <2>2. /\ mux' = mux
        /\ pointer' = [k \in Lines |-> IF k \in Reached THEN b[1] ELSE pointer[k]]
        /\ port' = [k \in Lines |-> IF k \in Reached /\ Len(b) = 2
                      THEN [port[k] EXCEPT ![b[1]] = b[2]] ELSE port[k]]
    BY <1>3 DEF Sent
  <2>3. pointer'[l] = b[1]
    BY <2>1, <2>2
  <2>4. port'[l] = IF Len(b) = 2 THEN [port[l] EXCEPT ![b[1]] = b[2]] ELSE port[l]
    BY <2>1, <2>2
  <2>5. port[l] \in Registers
    BY <2>1 DEF DinoInv, Types, TypeOK, Registers
  <2>6. Done(wire, mux, port[l], pointer[l], mux', port'[l], pointer'[l])
    BY <1>3, <2>2, <2>3, <2>4 DEF Done
  <2> QED
    BY <1>1, <2>1, <2>5, <2>6
<1> QED
  BY <1>1, <1>2, <1>3

LEMMA SentKeeps ==
  ASSUME DinoInv, Sent, UNCHANGED <<call, calls>>
  PROVE  DinoInv'
<1>1. Types /\ TypeOK /\ Programs /\ Knowledge /\ Locks /\ NoTrouble
  BY DEF DinoInv, Types
<1>2. /\ UNCHANGED <<prog, data, ret, switchLock, channel, drvVars, rx, trouble>>
      /\ wire.op = "write" /\ wire' = Idle /\ efd' = TRUE /\ pend' = pend \cup {"done"}
  BY DEF Sent, Raise
<1>3. wire # Idle /\ hwLock # NoThread /\ trouble' \in Nat
  BY <1>1, <1>2, Quiets, WireOf DEF Types
<1>4. TypeOK'
  <2>1. pend' \subseteq {"done", "error", "bnb"} /\ efd' \in BOOLEAN
    BY <1>1, <1>2 DEF TypeOK
  <2>2. /\ mux' \subseteq Lines
        /\ port' \in [Lines -> [{Dir, Out} -> SUBSET Field]]
        /\ pointer' \in [Lines -> {Dir, Out}]
    BY SentTypes DEF Registers
  <2> QED
    BY <1>1, <1>2, <2>1, <2>2 DEF TypeOK, drvVars
<1>5. OfBus(wire') /\ (hwLock = NoThread => wire' = Idle)
  BY <1>2 DEF OfBus
<1>6. Knowledge'
  <2>1. SUFFICES ASSUME NEW u \in Threads, InCall(u)
                 PROVE  Knows(call[u], prog[u], channel, mux', port'[BoardLine(call[u])],
                              pointer'[BoardLine(call[u])], data[u])
    BY <1>2 DEF Knowledge, InCall, At, BoardLine
  <2> DEFINE l == BoardLine(call[u])
  <2>2. drv.phase # "none" /\ wire = Current
    BY <1>3, <2>1, WireOf
  <2>3. u = hwLock
    BY <1>1, <1>3, <2>1 DEF Locks
  <2>4. prog[u] # <<>> /\ prog[u][1] = Current /\ Current.op = "write"
    BY <1>2, <1>3, <2>2, <2>3, TransferRuns
  <2>5. call[u] \in Call /\ EndOf(prog[u], call[u])
    BY <1>1, <2>4, StepOfCall
  <2>6. Knows(call[u], prog[u], channel, mux, port[l], pointer[l], data[u])
    BY <1>1, <2>1 DEF Knowledge
  <2>7. Done(prog[u][1], mux, port[l], pointer[l], mux', port'[l], pointer'[l])
    BY <2>2, <2>3, <2>4, SentDone
  <2>8. CASE call[u].kind = "check"
    BY <2>6, <2>8 DEF Knows, Getters
  <2>9. CASE call[u].kind # "check"
    <3>1. l \in Lines
      BY <2>5, <2>9, LineOfBoard
    <3>2. port[l] \in Registers
      BY <1>1, <3>1 DEF TypeOK, Registers
    <3> QED
      BY <2>4, <2>5, <2>6, <2>7, <3>2, KnowsWhileSent
  <2> QED
    BY <2>8, <2>9
<1>7. ASSUME drv.phase # "none"
      PROVE  WireFacts(Current, Completed', drv, wire', pend', served)
  <2>1. PICK l : l = BoardLine(call[hwLock])
    OBVIOUS
  <2>2. /\ Done(Current, mux, port[l], pointer[l], mux', port'[l], pointer'[l])
        /\ Current.addr # SwitchAddr => port[l] \in Registers
    BY <1>7, <2>1, SentDone
  <2>3. wire = Current /\ OfBus(Current) /\ Current.op = "write"
    BY <1>2, <1>3, <1>7, WireOf, TransferRuns
  <2>4. Current.bytes[1] \in DOMAIN port[l] \/ Current.addr = SwitchAddr
    BY <2>2, <2>3, WrittenForm DEF Registers
  <2>5. Happened(Current, mux', port'[l], pointer'[l], rx')
    BY <2>2, <2>3, <2>4, DoneHappened
  <2>6. Completed'
    BY <1>2, <2>1, <2>5 DEF Completed, Current, Effect, BoardLine, drvVars
  <2>7. WireFacts(Current, Completed, drv, wire, pend, served)
    BY <1>3, <1>7, TransferRuns
  <2> QED
    BY <1>2, <2>3, <2>6, <2>7 DEF WireFacts
<1>8. ASSUME trouble' = 0
      PROVE  /\ trouble = 0 /\ "error" \notin pend' /\ (efd' => "done" \in pend')
             /\ FirstTry(drv, wire', pend', served, efd')
  <2>1. trouble = 0 /\ "error" \notin pend /\ FirstTry(drv, wire, pend, served, efd)
    BY <1>1, <1>2, <1>3, <1>8 DEF NoTrouble
  <2> QED
    BY <1>2, <1>3, <2>1 DEF FirstTry
<1> QED
  BY <1>2, <1>3, <1>4, <1>5, <1>6, <1>7, <1>8, BusKeeps

-----------------------------------------------------------------------------
(* ---- The invariant holds ----------------------------------------------------- *)

LEMMA HoldsAtFirst ==
  ASSUME Init
  PROVE  DinoInv
<1> USE I2cAssumption DEF Init, I2cInit
<1>1. TypeOK
  <2>1. channel \in Channels
    BY Constants DEF Channels, NumChannels
  <2>2. drv \in [phase : {"none", "transfer", "bnb", "wait", "stop"}, tries : 0 .. Tries,
                 bb : {0, 1}, left : 0 .. Tries, txErr : BOOLEAN]
    BY Constants DEF Quiet
  <2>3. PowerUp \in SUBSET Field
    BY DinoAssumption DEF DinoAssumption
  <2>4. /\ port \in [Lines -> [{Dir, Out} -> SUBSET Field]]
        /\ pointer \in [Lines -> {Dir, Out}]
    BY <2>3
  <2> QED
    BY <2>1, <2>2, <2>4 DEF TypeOK
<1>2. Types
  BY <1>1 DEF Types, OfBus
<1>3. \A t \in Threads : prog[t] = <<>> /\ ~ InCall(t)
  BY DEF InCall
<1>4. Programs /\ Knowledge /\ OnWire
  BY <1>3 DEF Programs, Knowledge, OnWire
<1>5. Locks /\ NoTrouble
  BY <1>3 DEF Locks, NoTrouble, I2cAssumption
<1> QED
  BY <1>2, <1>4, <1>5 DEF DinoInv

LEMMA Stutters ==
  ASSUME DinoInv, UNCHANGED dinoVars
  PROVE  DinoInv'
<1>1. UNCHANGED <<prog, data, ret, switchLock, channel, hwLock, drv, served, wire, pend, efd, rx,
                  mux, port, pointer, trouble, call, calls>>
  BY DEF dinoVars, i2cVars, drvVars, busVars, devVars
<1>2. Types'
  BY <1>1, ZenonT(60) DEF DinoInv, Types, TypeOK, OfBus
<1>3. Programs' /\ Knowledge'
  BY <1>1 DEF DinoInv, Programs, Knowledge, InCall, At, BoardLine
<1>4. Locks'
  BY <1>1 DEF DinoInv, Locks, HolderInCall, HolderTransfers, InCall, Transfer, At
<1>5. OnWire'
  BY <1>1 DEF DinoInv, OnWire, Effect, BoardLine
<1>6. NoTrouble'
  BY <1>1 DEF DinoInv, NoTrouble, InCall, At
<1> QED
  BY <1>2, <1>3, <1>4, <1>5, <1>6 DEF DinoInv

LEMMA EveryStep ==
  ASSUME DinoInv, [Next]_dinoVars
  PROVE  DinoInv'
<1>1. ASSUME NEW t \in Threads, UNCHANGED <<call, calls>>,
             LockSwitch(t) \/ UnlockSwitch(t) \/ Compare(t) \/ Begin(t) \/ BeginFails(t)
      PROVE  DinoInv'
  BY <1>1, LockSwitchKeeps, UnlockSwitchKeeps, CompareKeeps, BeginKeeps, BeginFailsKeeps
<1>2. ASSUME UNCHANGED <<call, calls>>, TransferStarts \/ TransferBusy \/ TransferFails
      PROVE  DinoInv'
  BY <1>2, StartsKeeps, BusyKeeps, FailsKeeps
<1>3. ASSUME UNCHANGED <<call, calls>>, WaitForBusNotBusy \/ WaitForInterrupt \/ WaitTimesOut
      PROVE  DinoInv'
  BY <1>3, NotBusyKeeps, InterruptKeeps, TimeoutKeeps
<1>4. ASSUME UNCHANGED <<call, calls>>, EndTry \/ Stop \/ StopFails
      PROVE  DinoInv'
  BY <1>4, EndTryKeeps, StopKeeps, FailsKeeps
<1>5. ASSUME UNCHANGED <<call, calls>>,
             Sent \/ Received \/ NotAcknowledged \/ BusFree \/ Intermediate
      PROVE  DinoInv'
  BY <1>5, SentKeeps, ReceivedKeeps, NotAcknowledgedKeeps, FreeKeeps
<1>6. ASSUME NEW t \in Threads, NEW c \in Call \cap CallsMade, Begins(t, c)
      PROVE  DinoInv'
  BY <1>6, BeginsKeeps
<1>7. ASSUME NEW t \in Threads, VerifyReadback(t) \/ ReplaceGain(t)
      PROVE  DinoInv'
  BY <1>7, VerifyKeeps, GainKeeps
<1>8. CASE UNCHANGED dinoVars
  BY <1>8, Stutters
<1>9. CASE I2cNext /\ UNCHANGED <<call, calls>>
  BY <1>1, <1>2, <1>3, <1>4, <1>5, <1>9 DEF I2cNext
<1> QED
  BY <1>6, <1>7, <1>8, <1>9 DEF Next

(* The strengthening of the four properties below holds always: what steps *)
(* a call of the boards has left, what it knows, who has the two mutexes,  *)
(* what is on the wire, and that nothing is lost while nothing goes wrong. *)
THEOREM DinoInvariance == Spec => []DinoInv
<1>1. Init => DinoInv
  BY HoldsAtFirst
<1>2. DinoInv /\ [Next]_dinoVars => DinoInv'
  BY EveryStep
<1> QED
  BY <1>1, <1>2, PTL DEF Spec

(* The locals of a transfer, the interrupts, the registers of the switch   *)
(* and of the expanders and the calls are always of their types.           *)
THEOREM DinoTypes == Spec => []TypeOK
<1>1. DinoInv => TypeOK
  BY DEF DinoInv, Types
<1> QED
  BY <1>1, DinoInvariance, PTL

LEMMA Selected ==
  ASSUME DinoInv
  PROVE  ChannelSelected
<1>1. Programs /\ Knowledge /\ Locks
  BY DEF DinoInv
<1>2. SUFFICES ASSUME NEW t \in Threads, Transfer(t), Head(prog[t]).addr = IoextAddr
               PROVE  /\ switchLock = t
                      /\ channel = ChannelOf[call[t].board]
                      /\ mux = {LineOf(channel)}
  BY DEF ChannelSelected
<1>3. InCall(t) /\ prog[t] # <<>>
  BY <1>1, <1>2, TransferInCall DEF Transfer, At
<1>4. /\ call[t] \in Call /\ EndOf(prog[t], call[t]) /\ Head(prog[t]) = prog[t][1]
      /\ prog[t][1].op \in {"write", "read"}
  BY <1>1, <1>2, <1>3, StepOfCall
<1>5. StepFacts(call[t], Remaining(prog[t]), prog[t][1])
  BY <1>3, <1>4, AllFacts
<1>6. call[t].kind # "check" /\ Remaining(prog[t]) <= Size(call[t]) - 2
  BY <1>2, <1>4, <1>5, BusForms DEF StepFacts
<1>7. Knows(call[t], prog[t], channel, mux, port[BoardLine(call[t])],
            pointer[BoardLine(call[t])], data[t])
  BY <1>1, <1>3 DEF Knowledge
<1> QED
  BY <1>1, <1>3, <1>6, <1>7 DEF Locks, Knows

(* Whenever write() or read() addresses an I/O expander, its thread holds  *)
(* the mutex of the switch, setAndLockChannel() has selected the channel   *)
(* of its board, and the cached channel is the one that the switch shows.  *)
THEOREM ChannelIsSelected == Spec => []ChannelSelected
<1>1. DinoInv => ChannelSelected
  BY Selected
<1> QED
  BY <1>1, DinoInvariance, PTL

LEMMA Taken ==
  ASSUME DinoInv
  PROVE  SettingsTaken
<1>1. Programs /\ Knowledge
  BY DEF DinoInv
<1>2. SUFFICES ASSUME NEW t \in Threads, At(t, "unlock"),
                      NEW regs, regs = port[BoardLine(call[t])]
               PROVE  /\ call[t].kind = "configure" =>
                           /\ regs[Dir] = Directions[call[t].board]
                           /\ regs[Out] = Last(Outputs[call[t].board])
                      /\ call[t].kind = "setGain" => regs[Out] \cap GainFields = call[t].gain
  BY DEF SettingsTaken, BoardLine
<1> DEFINE c == call[t]
           n == Remaining(prog[t])
<1>3. prog[t] # <<>> /\ prog[t][1].op = "unlock"
  BY <1>1, <1>2, AtStep
<1>4. c \in Call /\ EndOf(prog[t], c) /\ InCall(t)
  BY <1>1, <1>3, StepOfCall
<1>5. c.kind # "check" => n = 1
  BY <1>3, <1>4, AllFacts DEF StepFacts
<1>6. Knows(c, prog[t], channel, mux, regs, pointer[BoardLine(c)], data[t])
  BY <1>1, <1>2, <1>4 DEF Knowledge
<1>7. ASSUME c.kind = "configure"
      PROVE  regs[Dir] = Directions[c.board] /\ regs[Out] = Last(Outputs[c.board])
  <2>1. n = 1 /\ KnowsDirections(c.board, n, regs[Dir], pointer[BoardLine(c)], data[t])
        /\ KnowsOutputs(c.board, n, regs[Out], pointer[BoardLine(c)], data[t])
    BY <1>5, <1>6, <1>7 DEF Knows
  <2>2. PICK k \in {1, 2} : k = Values(c.board)
    BY <1>4, <1>7, Kinds, TwoBoards
  <2> HIDE DEF c, n
  <2> QED
    BY <2>1, <2>2 DEF KnowsDirections, KnowsOutputs, Final
<1>8. ASSUME c.kind = "setGain" PROVE regs[Out] \cap GainFields = c.gain
  BY <1>5, <1>6, <1>8 DEF Knows, KnowsGain
<1> QED
  BY <1>7, <1>8

LEMMA Answered ==
  ASSUME DinoInv
  PROVE  AnswersTrue
<1>1. Programs /\ Knowledge
  BY DEF DinoInv
<1>2. SUFFICES ASSUME NEW t \in Threads, At(t, "unlock"), call[t].kind \in Getters
               PROVE  data[t] = <<port[BoardLine(call[t])][Asked(call[t].kind)]>>
  BY DEF AnswersTrue, BoardLine
<1> DEFINE c == call[t]
           n == Remaining(prog[t])
<1>3. prog[t] # <<>> /\ prog[t][1].op = "unlock"
  BY <1>1, <1>2, AtStep
<1>4. c \in Call /\ EndOf(prog[t], c) /\ InCall(t)
  BY <1>1, <1>3, StepOfCall
<1>5. n = 1
  BY <1>2, <1>3, <1>4, AllFacts DEF StepFacts, Getters
<1>6. Knows(c, prog[t], channel, mux, port[BoardLine(c)], pointer[BoardLine(c)], data[t])
  BY <1>1, <1>2, <1>4 DEF Knowledge
<1>7. KnowsAnswer(c.kind, n, port[BoardLine(c)], pointer[BoardLine(c)], data[t])
  BY <1>2, <1>6 DEF Knows
<1> HIDE DEF c, n
<1> QED
  BY <1>5, <1>7 DEF KnowsAnswer, c

(* When the switch is released, configureHardware() has left both registers*)
(* of its board as it verified them and setGain() the gain it was asked    *)
(* for; getIoextDirectionRegister(), getIoextOutputRegister() and getGain()*)
(* return what the register of their board holds. The retries of their     *)
(* transfers and the calls of others change nothing in that.               *)
THEOREM CallsAreEffective == Spec => []CallsEffective
<1>1. DinoInv => CallsEffective
  BY Taken, Answered DEF CallsEffective
<1> QED
  BY <1>1, DinoInvariance, PTL

(* The exceptions that leave hwLock or the mutex of the switch taken are   *)
(* only thrown after a timeout or an error of the bus: without one, every  *)
(* first try succeeds, and no readback or countdown of a call is wrong.    *)
THEOREM LeaksComeOfTrouble == Spec => []LeaksNeedTrouble
<1>1. ASSUME DinoInv PROVE LeaksNeedTrouble
  <2>1. trouble \in Nat /\ NoTrouble /\ Locks
    BY <1>1 DEF DinoInv, Types
  <2>2. ASSUME trouble = 0 PROVE ~ BusDead
    <3>1. SUFFICES ASSUME hwLock # NoThread PROVE drv # Quiet
      BY DEF BusDead
    <3>2. drv.tries = Tries
      BY <2>1, <2>2, <3>1 DEF NoTrouble, FirstTry
    <3>3. Quiet.tries = 0
      BY DEF Quiet
    <3>4. Tries # 0
      BY Constants
    <3> QED
      BY <3>2, <3>3, <3>4
  <2>3. ASSUME trouble = 0 PROVE ~ SwitchLeaked
    BY <2>1, <2>3 DEF NoTrouble, SwitchLeaked, InCall
  <2> QED
    BY <2>1, <2>2, <2>3 DEF LeaksNeedTrouble
<1> QED
  BY <1>1, DinoInvariance, PTL

(* Of the calls, only configureHardware() and setGain() write a register's *)
(* value, and setGain() one that differs in the gain alone.                *)
MayChange(c, regs1, regs2) ==
  /\ c.kind \in {"configure", "setGain"}
  /\ c.kind = "setGain" => /\ regs2[Dir] = regs1[Dir]
                           /\ regs2[Out] \ GainFields = regs1[Out] \ GainFields

LEMMA WritesAllowed ==
  ASSUME NEW c \in Call, c.kind # "check", NEW p, EndOf(p, c), p # <<>>, p[1].op = "write",
         p[1].addr # SwitchAddr,
         NEW ch, NEW da, NEW m1, NEW regs1 \in Registers, NEW ptr1,
         NEW m2, NEW regs2, NEW ptr2,
         Done(p[1], m1, regs1, ptr1, m2, regs2, ptr2), regs2 # regs1,
         Knows(c, p, ch, m1, regs1, ptr1, da)
  PROVE  MayChange(c, regs1, regs2)
<1> DEFINE s == p[1]
           n == Remaining(p)
<1>1. n \in 2 .. Size(c) - 2
  <2>1. n \in 2 .. Size(c) - 1 /\ Size(c) \in Nat
    BY TransferOnBoard
  <2>2. n <= Size(c) - 2
    BY AllFacts DEF StepFacts
  <2> HIDE DEF n
  <2> QED
    BY <2>1, <2>2
<1>2. \A r \in {Dir, Out} : s # Ask(r)
  BY DoneAsk
<1>3. s # Answer /\ s # Replace(c.gain)
  <2>1. Answer.op = "read" /\ Replace(c.gain).op = "gain"
    BY DEF Answer, Read, Replace
  <2> QED
    BY <2>1
<1>4. c.kind \notin Getters
  BY <1>1, <1>2, <1>3, NextOfGet
<1>5. ASSUME c.kind = "setGain"
      PROVE  /\ regs2[Dir] = regs1[Dir]
             /\ regs2[Out] \ GainFields = regs1[Out] \ GainFields
  <2>1. n = 2 /\ \E f \in SUBSET Field : s = Store(Out, f)
    BY <1>1, <1>2, <1>3, <1>5, NextOfGain
  <2>2. PICK f \in SUBSET Field : s = Store(Out, f)
    BY <2>1
  <2>3. s.op = "write" /\ s.bytes[2] = f
    BY <2>2, StoredGain
  <2>4. KnowsGain(c.gain, p, regs1[Out], ptr1, da)
    BY <1>5 DEF Knows
  <2>5. f \ GainFields = regs1[Out] \ GainFields
    BY <2>1, <2>3, <2>4 DEF KnowsGain
  <2>6. Done(Store(Out, f), m1, regs1, ptr1, m2, regs2, ptr2)
    BY <2>2
  <2>7. regs2 = [regs1 EXCEPT ![Out] = f]
    BY <2>6, DoneStore
  <2>8. regs2[Out] = f /\ regs2[Dir] = regs1[Dir]
    BY <2>7 DEF Registers, Dir, Out
  <2> QED
    BY <2>5, <2>8
<1> QED
  BY <1>4, <1>5, Kinds DEF MayChange, Getters

LEMMA PortsChangeBySending ==
  ASSUME [Next]_dinoVars, port' # port
  PROVE  Sent /\ UNCHANGED <<call, calls>>
<1> USE DEF drvVars, busVars, devVars
<1>1. ~ UNCHANGED dinoVars
  BY DEF dinoVars, i2cVars
<1>2. ASSUME NEW t \in Threads,
             LockSwitch(t) \/ UnlockSwitch(t) \/ Compare(t) \/ Begin(t) \/ BeginFails(t)
      PROVE  FALSE
  BY <1>2 DEF LockSwitch, UnlockSwitch, Compare, Begin, BeginFails
<1>3. ASSUME TransferStarts \/ TransferBusy \/ TransferFails \/ WaitForBusNotBusy
             \/ WaitForInterrupt \/ WaitTimesOut \/ EndTry \/ Stop \/ StopFails
      PROVE  FALSE
  BY <1>3 DEF TransferStarts, TransferBusy, TransferFails, WaitForBusNotBusy,
              WaitForInterrupt, WaitTimesOut, EndTry, Stop, StopFails
<1>4. ASSUME Received \/ NotAcknowledged \/ BusFree \/ Intermediate
      PROVE  FALSE
  BY <1>4 DEF Received, NotAcknowledged, BusFree, Intermediate
<1>5. ASSUME NEW t \in Threads, NEW c \in Call \cap CallsMade, Begins(t, c)
      PROVE  FALSE
  BY <1>5 DEF Begins
<1>6. ASSUME NEW t \in Threads, VerifyReadback(t) \/ ReplaceGain(t)
      PROVE  FALSE
  BY <1>6 DEF VerifyReadback, ReplaceGain
<1> QED
  BY <1>1, <1>2, <1>3, <1>4, <1>5, <1>6 DEF Next, I2cNext

(* What GainOnly says of a step                                            *)
ChangesAllowed(b, l, new) ==
  new # port[l] =>
    \/ BusDead
    \/ \E t \in Threads :
         /\ switchLock = t
         /\ call[t].kind \in {"configure", "setGain"} /\ call[t].board = b
         /\ call[t].kind = "setGain" =>
              /\ new[Dir] = port[l][Dir]
              /\ new[Out] \ GainFields = port[l][Out] \ GainFields

LEMMA GainOnlyStep ==
  ASSUME DinoInv, [Next]_dinoVars, NEW b \in Board, NEW l, l = LineOf(ChannelOf[b])
  PROVE  ChangesAllowed(b, l, port'[l])
<1>1. SUFFICES ASSUME port'[l] # port[l], ~ BusDead
               PROVE  \E t \in Threads :
                        /\ switchLock = t
                        /\ call[t].kind \in {"configure", "setGain"} /\ call[t].board = b
                        /\ call[t].kind = "setGain" =>
                             /\ port'[l][Dir] = port[l][Dir]
                             /\ port'[l][Out] \ GainFields = port[l][Out] \ GainFields
  BY DEF ChangesAllowed
<1>2. Programs /\ Knowledge /\ Locks
  BY DEF DinoInv
<1>3. Sent /\ UNCHANGED <<call, calls>>
  BY <1>1, PortsChangeBySending
<1>4. wire # Idle /\ wire.op = "write" /\ hwLock # NoThread
  BY <1>3, Quiets, WireOf DEF Sent
<1>5. drv.phase # "none" /\ wire = Current
  BY <1>1, <1>2, <1>4, WireOf DEF Locks, BusDead
<1>6. PICK t \in Threads : t = hwLock /\ switchLock = t
  BY <1>2, <1>4 DEF Locks
<1> DEFINE c == call[t]
<1>7. wire.addr # SwitchAddr
  BY <1>1, <1>3 DEF Sent
<1>8. c \in Call /\ c.kind # "check" /\ Reached = {BoardLine(c)}
  BY <1>4, <1>5, <1>6, <1>7, ReachesBoard
<1>9. l = BoardLine(c)
  <2>1. l \in Reached
    <3>1. l \in Lines
      BY Constants
    <3>2. port' = [k \in Lines |-> IF k \in Reached /\ Len(wire.bytes) = 2
                     THEN [port[k] EXCEPT ![wire.bytes[1]] = wire.bytes[2]] ELSE port[k]]
      BY <1>3, <1>7 DEF Sent
    <3> HIDE DEF Reached
    <3> QED
      BY <1>1, <3>1, <3>2
  <2> QED
    BY <1>8, <2>1
<1>10. c.board = b
  <2>1. c.board \in Board
    BY <1>8, LineOfBoard
  <2>2. LineOf(ChannelOf[c.board]) = LineOf(ChannelOf[b])
    BY <1>9 DEF BoardLine
  <2> QED
    BY <2>1, <2>2, Constants
<1>11. prog[t] # <<>> /\ prog[t][1] = Current /\ Transfer(t)
  BY <1>4, <1>5, <1>6, TransferRuns
<1>12. EndOf(prog[t], c) /\ InCall(t)
  BY <1>2, <1>11, StepOfCall, TransferInCall
<1>13. Knows(c, prog[t], channel, mux, port[l], pointer[l], data[t])
  BY <1>2, <1>9, <1>12 DEF Knowledge
<1>14. /\ Done(prog[t][1], mux, port[l], pointer[l], mux', port'[l], pointer'[l])
       /\ port[l] \in Registers
  BY <1>3, <1>5, <1>6, <1>7, <1>9, <1>11, SentDone
<1>15. MayChange(c, port[l], port'[l])
  <2> DEFINE p == prog[t]
             regs1 == port[l]
             regs2 == port'[l]
  <2>1. SUFFICES MayChange(c, regs1, regs2)
    OBVIOUS
  <2>2. c \in Call /\ c.kind # "check" /\ EndOf(p, c) /\ p # <<>> /\ regs1 \in Registers
    BY <1>8, <1>11, <1>12, <1>14
  <2>3. Knows(c, p, channel, mux, regs1, pointer[l], data[t])
    BY <1>13
  <2>4. Done(p[1], mux, regs1, pointer[l], mux', regs2, pointer'[l]) /\ regs2 # regs1
    BY <1>1, <1>14
  <2>5. p[1].op = "write" /\ p[1].addr # SwitchAddr
    BY <1>4, <1>5, <1>7, <1>11
  <2> HIDE DEF c, p, regs1, regs2
  <2> QED
    BY <2>2, <2>3, <2>4, <2>5, WritesAllowed
<1> QED
  BY <1>6, <1>10, <1>15 DEF MayChange

(* An expander's registers change only by a configureHardware() or a       *)
(* setGain() that holds the switch for its board, and by a setGain() only  *)
(* in the gain: what another thread set before is not lost between its     *)
(* read and its write.                                                     *)
THEOREM OnlyGainChanges == Spec => GainOnly
<1>1. ASSUME DinoInv, [Next]_dinoVars
      PROVE  [\A b \in Board :
                LET l == LineOf(ChannelOf[b]) IN
                port'[l] # port[l] =>
                  \/ BusDead
                  \/ \E t \in Threads :
                       /\ switchLock = t
                       /\ call[t].kind \in {"configure", "setGain"} /\ call[t].board = b
                       /\ call[t].kind = "setGain" =>
                            /\ port'[l][Dir] = port[l][Dir]
                            /\ port'[l][Out] \ GainFields
                                 = port[l][Out] \ GainFields]_dinoVars
  BY <1>1, GainOnlyStep DEF ChangesAllowed
<1> QED
  BY <1>1, DinoInvariance, PTL DEF Spec, GainOnly
=============================================================================
