------------------------------ MODULE PipeProofs ------------------------------
(***************************************************************************)
(* Theorems about Pipe, for every ring size, every number and length of    *)
(* copies and lines, and every bus error.                                  *)
(***************************************************************************)
EXTENDS Pipe, DmaSgProofs, SequenceTheorems

USE PipeAssumption

-----------------------------------------------------------------------------
(* ---- The thread is a client of the Dma ----------------------------------- *)

Links == [word : Seq(Nat), last : BOOLEAN]

Places == {"idle", "read", "line", "write", "writeComplete", "written", "readComplete", "done",
           "exception"}

PipeTypes ==
  /\ program \in Programs
  /\ at \in Places
  /\ copies \in Nat /\ len \in Nat
  /\ link \in Seq(Links)
  /\ gaveUp \in BOOLEAN /\ overran \in BOOLEAN
  /\ program = "pipe" => link = <<>> /\ len <= 1 /\ result = "none" /\ at # "idle"
  /\ program = "memcpy" => at # "line" /\ (at \notin {"idle", "exception"} => len >= 1)

Copied == [i \in 1 .. len |-> [word |-> <<copies, i>>, last |-> (i = len)]]

LEMMA CopiedType ==
  ASSUME PipeTypes
  PROVE  Copied \in Seq(Links) /\ Len(Copied) = len
<1>1. len \in Nat /\ copies \in Nat
  BY DEF PipeTypes
<1>2. ASSUME NEW i \in 1 .. len
      PROVE  [word |-> <<copies, i>>, last |-> (i = len)] \in Links
  <2>1. <<copies, i>> \in Seq(Nat)
    BY <1>1
  <2> QED
    BY <2>1 DEF Links
<1>3. Copied \in [1 .. len -> Links]
  BY <1>2 DEF Copied
<1> QED
  BY <1>1, <1>3

LEMMA PipeStart ==
  ASSUME PipeInit
  PROVE  PipeTypes
<1>1. link \in Seq(Links)
  <2>1. <<>> \in Seq(Links)
    OBVIOUS
  <2> QED
    BY <2>1 DEF PipeInit
<1>2. gaveUp \in BOOLEAN /\ overran \in BOOLEAN /\ program \in Programs
  BY DEF PipeInit
<1>3. at \in Places /\ (program = "memcpy" => at = "idle") /\ (program = "pipe" => at = "read")
  BY <1>2 DEF PipeInit, Places
<1> QED
  BY <1>1, <1>2, <1>3 DEF PipeInit, PipeTypes

LEMMA PipeTypesStep ==
  ASSUME PipeTypes, [PipeNext]_allVars
  PROVE  PipeTypes'
<1> USE DEF PipeTypes, Places, callVars, linkVars, pipeVars
<1>1. CASE CopyAtOnce \/ CopyBegins
  <2>1. UNCHANGED <<program, link, gaveUp, overran>> /\ program # "pipe" /\ copies' \in Nat
    BY <1>1 DEF CopyAtOnce, CopyBegins
  <2>2. len' \in Nat /\ at' \in {"idle", "read"} /\ (at' # "idle" => len' >= 1)
    <3>1. CASE CopyAtOnce
      BY <3>1 DEF CopyAtOnce
    <3>2. CASE CopyBegins
      <4>1. len' \in Nat \ {0} /\ at' = "read"
        BY <3>2 DEF CopyBegins
      <4> QED
        BY <4>1
    <3> QED
      BY <1>1, <3>1, <3>2
  <2> QED
    BY <2>1, <2>2
<1>2. CASE Read \/ Write \/ WriteComplete \/ ReadComplete
  BY <1>2 DEF Read, Write, WriteComplete, ReadComplete, Then
<1>3. CASE Line \/ BadLine \/ LongLine
  <2>1. /\ at = "line" /\ at' \in {"write", "exception"} /\ copies' \in Nat
        /\ len' \in {0, 1, len} /\ overran' \in BOOLEAN
        /\ UNCHANGED <<program, link, result, gaveUp>>
    <3>1. CASE Line
      BY <3>1 DEF Line
    <3>2. CASE BadLine
      BY <3>2 DEF BadLine
    <3>3. CASE LongLine
      BY <3>3 DEF LongLine
    <3> QED
      BY <1>3, <3>1, <3>2, <3>3
  <2>2. program = "pipe" /\ link = <<>> /\ len \in Nat /\ len <= 1 /\ result = "none"
    BY <2>1
  <2>3. len' \in Nat /\ len' <= 1
    BY <2>1, <2>2
  <2>4. link' \in Seq(Links)
    BY <2>1
  <2> QED
    BY <2>1, <2>2, <2>3, <2>4
<1>4. CASE Written \/ CopyReturns \/ PrintWords
  BY <1>4 DEF Written, CopyReturns, PrintWords
<1>5. ASSUME NEW ch \in Chan, InCall(ch) \/ TimeOut(ch)
      PROVE  PipeTypes'
  BY <1>5 DEF InCall, TimeOut, Then
<1>6. CASE Feed
  <2>1. CASE program = "pipe"
    BY <1>6, <2>1 DEF Feed
  <2>2. CASE program # "pipe"
    <3>1. link' = link \o Copied
      BY <1>6, <2>2 DEF Feed, Copied
    <3>2. link' \in Seq(Links)
      BY <3>1, CopiedType
    <3> QED
      BY <1>6, <2>2, <3>2 DEF Feed
  <2> QED
    BY <2>1, <2>2
<1>7. CASE Receive
  <2>1. link # <<>> /\ link' = Tail(link)
    BY <1>7 DEF Receive
  <2>2. link' \in Seq(Links)
    BY <2>1
  <2> QED
    BY <1>7, <2>1, <2>2 DEF Receive
<1>8. CASE Send \/ Arrive \/ Fault \/ UNCHANGED allVars
  BY <1>8 DEF Send, Arrive, Fault, allVars
<1> QED
  BY <1>1, <1>2, <1>3, <1>4, <1>5, <1>6, <1>7, <1>8 DEF PipeNext

(* What a step of a program does to one direction                          *)
NothingSent(ch) == \E kind \in {"true", "false"} : NoTransfer(ch, kind)

CallStep(ch) ==
  \/ Post(ch) \/ CompleteCall(ch) \/ NothingSent(ch)
  \/ WaitInterrupt(ch) \/ WaitTimeout(ch) \/ Lock(ch)
  \/ ch = "rx" /\ (RxDrop \/ RxDropFree \/ RxAck \/ RxNoIoc \/ RxFetch)
  \/ ch = "tx" /\ (TxFetch \/ TxAck)

EngineStep(ch) ==
  \/ \E last \in BOOLEAN : (ch = "tx" => last) /\ HwComplete(ch, last)
  \/ \E kind \in Faults : HwFault(ch, kind, TRUE)

LEMMA PipeSteps ==
  ASSUME PipeTypes, PipeNext
  PROVE  (\E ch \in Chan : CallStep(ch) \/ EngineStep(ch)) \/ UNCHANGED vars
<1>1. Read \/ ReadComplete => CallStep("rx")
  BY DEF Read, ReadComplete, CallStep
<1>2. Write \/ WriteComplete => CallStep("tx")
  BY DEF Write, WriteComplete, NothingSent, CallStep
<1>3. \A ch \in Chan : InCall(ch) \/ TimeOut(ch) => CallStep(ch)
  BY DEF InCall, TimeOut, CallStep
<1>4. (Send => EngineStep("tx")) /\ (Arrive => EngineStep("rx"))
  BY DEF Send, Arrive, EngineStep
<1>5. Receive => EngineStep("rx")
  <2> SUFFICES ASSUME Receive PROVE EngineStep("rx")
    OBVIOUS
  <2>1. link \in Seq(Links) /\ link # <<>> /\ HwComplete("rx", Head(link).last)
    BY DEF PipeTypes, Receive
  <2>2. Head(link) \in Links
    BY <2>1
  <2> QED
    BY <2>1, <2>2 DEF EngineStep, Links
<1>6. Fault => \E ch \in Chan : EngineStep(ch)
  BY DEF Fault, EngineStep
<1>7. CopyAtOnce \/ CopyBegins \/ Line \/ BadLine \/ LongLine \/ Written \/ CopyReturns \/ PrintWords \/ Feed => UNCHANGED vars
  BY DEF CopyAtOnce, CopyBegins, Line, BadLine, LongLine, Written, CopyReturns, PrintWords, Feed
<1> QED
  BY <1>1, <1>2, <1>3, <1>4, <1>5, <1>6, <1>7 DEF PipeNext, Chan

(* The four calls use the Dma as any client may: what was proved of it     *)
(* holds for memcpy() and for villas-fpga-pipe.                            *)
THEOREM CopierIsClient == PipeSpec => Spec
<1>1. PipeInit => Init /\ PipeTypes
  BY PipeStart DEF PipeInit
<1>2. ASSUME NEW ch \in Chan, CallStep(ch) \/ EngineStep(ch)
      PROVE  Next
  <2>1. CASE CallStep(ch)
    <3>1. NothingSent(ch) => \E kind \in {"true", "false", "throw"} : NoTransfer(ch, kind)
      BY DEF NothingSent
    <3> QED
      BY <2>1, <3>1 DEF CallStep, Next, Thread
  <2>2. CASE EngineStep(ch)
    BY <2>2 DEF EngineStep, Next, Hardware, Chan
  <2> QED
    BY <1>2, <2>1, <2>2
<1>3. PipeTypes /\ [PipeNext]_allVars => [Next]_vars
  BY <1>2, PipeSteps DEF allVars
<1>4. PipeTypes /\ [PipeNext]_allVars => PipeTypes'
  BY PipeTypesStep
<1> QED
  BY <1>1, <1>3, <1>4, PTL DEF PipeSpec, Spec

LEMMA PipeTypesHold == PipeSpec => []PipeTypes
<1>1. PipeInit => PipeTypes
  BY PipeStart
<1>2. PipeTypes /\ [PipeNext]_allVars => PipeTypes'
  BY PipeTypesStep
<1> QED
  BY <1>1, <1>2, PTL DEF PipeSpec

-----------------------------------------------------------------------------
(* ---- One descriptor at a time -------------------------------------------- *)

(* Nothing is in flight.                                                   *)
Quiet(ch) ==
  /\ ring[ch].handed = ring[ch].taken /\ ring[ch].done = ring[ch].taken
  /\ irq[ch] = 0 /\ ~ ioc[ch] /\ fault[ch] = "none"

(* A descriptor is in flight, or it completed and raised its interrupt.    *)
Busy(ch) ==
  /\ ring[ch].handed = ring[ch].taken + 1 /\ fault[ch] = "none"
  /\ \/ ring[ch].done = ring[ch].taken /\ irq[ch] = 0 /\ ~ ioc[ch]
     \/ /\ ring[ch].done = ring[ch].handed /\ irq[ch] = 1 /\ ioc[ch]
        /\ ring[ch].handed \in ring[ch].eof
        /\ ch = "rx" /\ program = "memcpy" => len = 1

(* Nothing will ever be announced: a bus error, or a word that is not the  *)
(* end of its frame.                                                       *)
Halted(ch) ==
  /\ ring[ch].handed = ring[ch].taken + 1 /\ irq[ch] = 0 /\ ~ ioc[ch]
  /\ \/ fault[ch] = "open" /\ ring[ch].done = ring[ch].taken
     \/ fault[ch] = "marked"
     \/ ch = "rx" /\ len > 1 /\ ring[ch].done = ring[ch].handed

Waiting(ch) == Busy(ch) \/ Halted(ch)

(* The interrupt was seen; the descriptor is still in the hw group.        *)
Noticed(ch) ==
  /\ ring[ch].handed = ring[ch].taken + 1 /\ ring[ch].done = ring[ch].handed
  /\ ring[ch].handed \in ring[ch].eof
  /\ irq[ch] = 0 /\ ioc[ch] /\ fault[ch] = "none"
  /\ ch = "rx" /\ program = "memcpy" => len = 1

(* readComplete() has acknowledged it.                                     *)
Acked ==
  /\ ring["rx"].handed = ring["rx"].taken + 1 /\ ring["rx"].done = ring["rx"].handed
  /\ ring["rx"].handed \in ring["rx"].eof
  /\ irq["rx"] = 0 /\ ~ ioc["rx"] /\ fault["rx"] = "none"
  /\ program = "memcpy" => len = 1

(* writeComplete() has taken the descriptor, and will acknowledge.         *)
TakenBack ==
  /\ ring["tx"].handed = ring["tx"].taken /\ ring["tx"].done = ring["tx"].taken
  /\ irq["tx"] = 0 /\ fault["tx"] = "none"

TxCall ==
  \/ pc["tx"] = "wait" /\ (IF len = 0 THEN Quiet("tx") ELSE Waiting("tx"))
  \/ pc["tx"] \in {"lock", "fetch"} /\ (IF len = 0 THEN Quiet("tx") ELSE Noticed("tx"))
  \/ pc["tx"] = "ack" /\ TakenBack /\ batch["tx"] = (IF len = 0 THEN 0 ELSE 1)
  \/ pc["tx"] = "idle" /\ Quiet("tx") /\ (len # 0 => ret["tx"].bds = 1)

RxCall ==
  \/ pc["rx"] = "wait" /\ Waiting("rx")
  \/ pc["rx"] \in {"lock", "ack"} /\ Noticed("rx")
  \/ pc["rx"] = "fetch" /\ Acked
  \/ pc["rx"] = "idle" /\ Quiet("rx") /\ ret["rx"].bds = 1 /\ (program = "memcpy" => len = 1)

(* A step leaves a direction alone.                                        *)
Still(ch) ==
  /\ ring'[ch] = ring[ch] /\ irq'[ch] = irq[ch] /\ ioc'[ch] = ioc[ch] /\ fault'[ch] = fault[ch]
  /\ pc'[ch] = pc[ch] /\ ret'[ch] = ret[ch] /\ batch'[ch] = batch[ch]

LEMMA Others ==
  ASSUME TypeOK, NEW ch \in Chan, CallStep(ch) \/ EngineStep(ch), NEW c \in Chan, c # ch
  PROVE  Still(c)
<1> USE DEF TypeOK, Return, Leave, hwVars, PostFrame, Still
<1>1. CASE NothingSent(ch) \/ CompleteCall(ch) \/ WaitInterrupt(ch) \/ WaitTimeout(ch)
           \/ Lock(ch)
  BY <1>1 DEF NothingSent, NoTransfer, CompleteCall, WaitInterrupt, WaitTimeout, Lock
<1>2. CASE Post(ch)
  BY <1>2 DEF Post, PostRingFull, PostMisaligned, PostOk, PostRejected
<1>3. CASE EngineStep(ch)
  BY <1>3, ZenonT(60) DEF EngineStep, HwComplete, Raise, HwFault
<1>4. CASE ch = "rx" /\ (RxAck \/ RxNoIoc)
  BY <1>4 DEF RxAck, RxNoIoc
<1>5. CASE ch = "rx" /\ (RxDrop \/ RxDropFree)
  BY <1>5 DEF RxDrop, RxDropFree
<1>6. CASE ch = "rx" /\ RxFetch
  BY <1>6 DEF RxFetch, Finish
<1>7. CASE ch = "tx" /\ TxFetch
  BY <1>7 DEF TxFetch
<1>8. CASE ch = "tx" /\ TxAck
  BY <1>8 DEF TxAck, Finish
<1> QED
  BY <1>1, <1>2, <1>3, <1>4, <1>5, <1>6, <1>7, <1>8 DEF CallStep

LEMMA Frames ==
  ASSUME NEW ch \in Chan, Still(ch), UNCHANGED <<len, program>>
  PROVE  /\ Quiet(ch) => Quiet(ch)'
         /\ Waiting(ch) => Waiting(ch)'
         /\ ch = "tx" /\ TxCall => TxCall'
         /\ ch = "rx" /\ RxCall => RxCall'
<1>1. Quiet(ch) => Quiet(ch)'
  BY DEF Still, Quiet
<1>2. Waiting(ch) => Waiting(ch)'
  BY DEF Still, Waiting, Busy, Halted
<1>3. Noticed(ch) => Noticed(ch)'
  BY DEF Still, Noticed
<1>4. ch = "rx" /\ Acked => Acked'
  BY DEF Still, Acked
<1>5. ch = "tx" /\ TakenBack => TakenBack'
  BY DEF Still, TakenBack
<1>6. ch = "tx" /\ TxCall => TxCall'
  BY <1>1, <1>2, <1>3, <1>5 DEF TxCall, Still
<1>7. ch = "rx" /\ RxCall => RxCall'
  BY <1>1, <1>2, <1>3, <1>4 DEF RxCall, Still
<1> QED
  BY <1>1, <1>2, <1>6, <1>7

(* read() and write() hand over one descriptor, or throw.                  *)
LEMMA PostEffect ==
  ASSUME TypeOK, NEW ch \in Chan, Post(ch)
  PROVE  /\ pc[ch] = "idle" /\ UNCHANGED <<pc, irq, ioc, fault>>
         /\ ring'[ch].done = ring[ch].done /\ ring'[ch].taken = ring[ch].taken
         /\ ring'[ch].eof = ring[ch].eof
         /\ \/ ret'[ch].kind = "throw" /\ ring'[ch].handed = ring[ch].handed
            \/ ret'[ch].kind = "true" /\ ring'[ch].handed = ring[ch].handed + 1
<1> USE DEF Return, PostFrame, MayPost, hwVars, Plain
<1>1. ring[ch] \in Ring
  BY DEF TypeOK
<1>2. CASE PostRingFull(ch)
  BY <1>1, <1>2 DEF PostRingFull, TypeOK
<1>3. CASE PostMisaligned(ch) \/ PostRejected(ch)
  <2>1. ring' = [ring EXCEPT ![ch] = Alloc(@, 1)] /\ ret' = [ret EXCEPT ![ch] = Plain("throw")]
    BY <1>3 DEF PostMisaligned, PostRejected
  <2>2. pc[ch] = "idle" /\ UNCHANGED <<pc, irq, ioc, fault>>
    BY <1>3 DEF PostMisaligned, PostRejected
  <2>3. ring'[ch] = Alloc(ring[ch], 1) /\ ret'[ch].kind = "throw"
    BY <2>1 DEF TypeOK
  <2> QED
    BY <1>1, <2>2, <2>3 DEF Alloc, Ring
<1>4. CASE PostOk(ch)
  <2>1. ring'[ch] = ToHw(Alloc(ring[ch], 1), 1) /\ ret'[ch].kind = "true"
    BY <1>4 DEF PostOk, TypeOK
  <2>2. pc[ch] = "idle" /\ UNCHANGED <<pc, irq, ioc, fault>>
    BY <1>4 DEF PostOk
  <2> QED
    BY <1>1, <2>1, <2>2 DEF Alloc, ToHw, Ring
<1> QED
  BY <1>2, <1>3, <1>4 DEF Post

LEMMA PostStep ==
  ASSUME TypeOK, NEW ch \in Chan, Quiet(ch), Post(ch)
  PROVE  /\ pc[ch] = "idle" /\ UNCHANGED pc
         /\ IF ret'[ch].kind = "throw" THEN Quiet(ch)' ELSE Waiting(ch)'
<1>1. ring[ch].handed \in Nat /\ ring[ch].taken \in Nat /\ ring[ch].done \in Nat
  BY DEF TypeOK, Ring
<1> QED
  BY <1>1, PostEffect DEF Quiet, Waiting, Busy

(* The engine acts on a direction only while a descriptor is in flight.    *)
LEMMA ActiveWaits ==
  ASSUME TypeOK, NEW ch \in Chan, Active(ch)
  PROVE  /\ ~ Quiet(ch) /\ ~ Noticed(ch)
         /\ (ch = "rx" => ~ Acked) /\ (ch = "tx" => ~ TakenBack)
<1>1. ring[ch].handed \in Nat /\ ring[ch].taken \in Nat /\ ring[ch].done \in Nat
  BY DEF TypeOK, Ring
<1> QED
  BY <1>1 DEF Active, Quiet, Noticed, Acked, TakenBack

(* A word that ends its frame belongs to a copy of one word.               *)
LEMMA EngineWaits ==
  ASSUME TypeOK, NEW ch \in Chan, Waiting(ch), UNCHANGED <<len, program>>,
         \/ \E kind \in Faults : HwFault(ch, kind, TRUE)
         \/ \E last \in BOOLEAN : /\ HwComplete(ch, last)
                                  /\ last => (ch = "rx" /\ program = "memcpy" => len = 1)
                                  /\ ~ last => ch = "rx" /\ len > 1
  PROVE  Waiting(ch)' /\ Active(ch) /\ UNCHANGED <<pc, ret, batch>>
<1>1. ring[ch] \in Ring /\ ring[ch].handed \in Nat /\ ring[ch].taken \in Nat /\ ring[ch].done \in Nat
  BY DEF TypeOK, Ring
<1>2. Active(ch) /\ UNCHANGED <<pc, ret, batch>>
  BY DEF HwFault, HwComplete
<1>3. /\ ring[ch].handed = ring[ch].taken + 1 /\ ring[ch].done = ring[ch].taken
      /\ irq[ch] = 0 /\ ~ ioc[ch] /\ fault[ch] = "none"
  <2>1. ring[ch].done < ring[ch].handed /\ fault[ch] = "none"
    BY <1>2 DEF Active
  <2> QED
    BY <1>1, <2>1 DEF Waiting, Busy, Halted
<1>4. ASSUME NEW kind \in Faults, HwFault(ch, kind, TRUE)
      PROVE  Waiting(ch)'
  <2>1. /\ ring'[ch] = (IF kind = "marked" THEN Complete(ring[ch], TRUE) ELSE ring[ch])
        /\ irq'[ch] = irq[ch] /\ ioc'[ch] = ioc[ch] /\ fault'[ch] = kind
        /\ kind \in {"open", "marked"}
    <3>1. kind \in {"open", "marked"}
      BY DmaAssumption
    <3> QED
      BY <1>4, <3>1 DEF HwFault, TypeOK
  <2>2. ring'[ch].handed = ring[ch].handed /\ ring'[ch].taken = ring[ch].taken
    BY <1>1, <2>1 DEF Complete, Ring
  <2> QED
    BY <1>3, <2>1, <2>2 DEF Waiting, Halted
<1>5. ASSUME NEW last \in BOOLEAN, HwComplete(ch, last),
             last => (ch = "rx" /\ program = "memcpy" => len = 1), ~ last => ch = "rx" /\ len > 1
      PROVE  Waiting(ch)'
  <2>1. ring'[ch] = Complete(ring[ch], last) /\ fault'[ch] = fault[ch]
    BY <1>5 DEF HwComplete, TypeOK, hwVars
  <2>2. /\ ring'[ch].handed = ring[ch].handed /\ ring'[ch].taken = ring[ch].taken
        /\ ring'[ch].done = ring[ch].done + 1
        /\ last => ring[ch].done + 1 \in ring'[ch].eof
    <3>1. PICK e : /\ ring'[ch] = [ring[ch] EXCEPT !.done = @ + 1, !.eof = e]
                   /\ last => ring[ch].done + 1 \in e
      BY <2>1, ZenonT(60) DEF Complete
    <3> QED
      BY <1>1, <3>1 DEF Ring
  <2>3. last => irq'[ch] = 1 /\ ioc'[ch]
    BY <1>3, <1>5 DEF HwComplete, Raise, TypeOK
  <2>4. ~ last => irq'[ch] = irq[ch] /\ ioc'[ch] = ioc[ch]
    BY <1>5 DEF HwComplete
  <2>5. CASE last
    BY <1>1, <1>3, <1>5, <2>1, <2>2, <2>3, <2>5, ZenonT(60) DEF Waiting, Busy
  <2>6. CASE ~ last
    BY <1>1, <1>3, <1>5, <2>1, <2>2, <2>4, <2>6 DEF Waiting, Halted
  <2> QED
    BY <2>5, <2>6
<1> QED
  BY <1>2, <1>4, <1>5

(* ---- The completion calls ------------------------------------------------ *)

LEMMA WaitStep ==
  ASSUME ~ Relatch, TypeOK, NEW ch \in Chan, WaitInterrupt(ch), UNCHANGED <<len, program>>,
         Quiet(ch) \/ Waiting(ch)
  PROVE  /\ ~ Quiet(ch) /\ pc[ch] = "wait" /\ pc'[ch] = "lock"
         /\ Noticed(ch)' /\ UNCHANGED ret
<1>1. /\ irq[ch] > 0 /\ pc[ch] = "wait" /\ pc'[ch] = "lock" /\ irq'[ch] = 0
      /\ UNCHANGED <<ring, ioc, fault, ret>>
  BY DEF WaitInterrupt, TypeOK, hwVars
<1>2. ~ Quiet(ch) /\ Busy(ch)
  BY <1>1 DEF Quiet, Waiting, Halted
<1> QED
  BY <1>1, <1>2 DEF Busy, Noticed

LEMMA LockStep ==
  ASSUME TypeOK, NEW ch \in Chan, Lock(ch), UNCHANGED <<len, program>>
  PROVE  /\ pc[ch] = "lock" /\ pc'[ch] = (IF ch = "rx" THEN "ack" ELSE "fetch") /\ UNCHANGED ret
         /\ Quiet(ch) => Quiet(ch)'
         /\ Noticed(ch) => Noticed(ch)'
BY DEF Lock, TypeOK, hwVars, Quiet, Noticed

LEMMA RxAckStep ==
  ASSUME TypeOK, RxAck, Noticed("rx"), UNCHANGED <<len, program>>
  PROVE  pc["rx"] = "ack" /\ pc'["rx"] = "fetch" /\ Acked' /\ UNCHANGED ret
BY DEF RxAck, TypeOK, hwVars, Noticed, Acked, Chan

LEMMA RxFetchStep ==
  ASSUME TypeOK, RingInv, RxFetch, Acked, UNCHANGED <<len, program>>
  PROVE  /\ pc["rx"] = "fetch" /\ pc'["rx"] = "idle" /\ Quiet("rx")'
         /\ ret'["rx"].kind = "comp" /\ ret'["rx"].bds = 1
         /\ ring'["rx"].handed = ring["rx"].handed /\ ring'["rx"].done = ring["rx"].done
<1>1. ring["rx"] \in Ring /\ ring["rx"].taken \in Nat
  BY DEF TypeOK, Chan, Ring
<1>2. PICK k \in 0 .. Coalesce :
        /\ IsFromHw(ring["rx"], Coalesce, k)
        /\ LET r == FromHw(ring["rx"], k)
           IN \/ k < Coalesce /\ errcnt["rx"] = 0 /\ ring' = [ring EXCEPT !["rx"] = r]
                 /\ Return("rx", Plain("throw"))
              \/ Finish("rx", r, k)
  BY DEF RxFetch
<1>3. k = 1
  <2>1. k = 0 \/ k = 1
    BY DEF Coalesce
  <2>2. ASSUME k = 0 PROVE FALSE
    <3>1. Whole(ring["rx"], 1)
      BY DEF Acked, Whole
    <3>2. 1 <= ring["rx"].done - ring["rx"].taken
      BY <1>1 DEF Acked
    <3> QED
      BY <1>2, <2>2, <3>1, <3>2 DEF IsFromHw, Coalesce
  <2> QED
    BY <2>1, <2>2
<1> DEFINE r == FromHw(ring["rx"], 1)
<1>4. r \in Ring /\ r.taken = ring["rx"].taken + 1 /\ r.done = ring["rx"].done
      /\ r.handed = ring["rx"].handed /\ r.freed = ring["rx"].freed
  BY <1>1, FromHwType DEF FromHw, Ring
<1>5. CanFree(r, 1) /\ ~ BadStatus("rx", r)
  <2>1. ring["rx"].taken = ring["rx"].freed /\ fault["rx"] = "none"
    <3>1. ring["rx"].freed \in Nat
      BY <1>1 DEF Ring
    <3> QED
      BY <3>1 DEF RingInv, NothingHeldBack, InHand, RxFetch, Chan, Acked
  <2> QED
    BY <1>4, <2>1 DEF CanFree, BadStatus
<1>6. Finish("rx", r, 1)
  BY <1>2, <1>3 DEF Coalesce
<1> HIDE DEF r
<1>7. ring' = [ring EXCEPT !["rx"] = Free(r, 1)] /\ ret' = [ret EXCEPT !["rx"] = Completion(1, intrs["rx"])]
  BY <1>5, <1>6 DEF Finish, Return
<1>8. ring'["rx"] = Free(r, 1) /\ ret'["rx"] = Completion(1, intrs["rx"])
  BY <1>7 DEF TypeOK, Chan
<1>9. Free(r, 1).handed = r.handed /\ Free(r, 1).done = r.done /\ Free(r, 1).taken = r.taken
  BY <1>4 DEF Free, Ring
<1>10. /\ pc["rx"] = "fetch" /\ pc'["rx"] = "idle"
       /\ irq'["rx"] = irq["rx"] /\ ioc'["rx"] = ioc["rx"] /\ fault'["rx"] = fault["rx"]
  BY DEF RxFetch, Leave, TypeOK, Chan, hwVars
<1>11. Quiet("rx")'
  BY <1>1, <1>4, <1>8, <1>9, <1>10 DEF Quiet, Acked
<1> QED
  BY <1>4, <1>8, <1>9, <1>10, <1>11 DEF Completion

LEMMA TxFetchStep ==
  ASSUME TypeOK, TxFetch, Quiet("tx") \/ Noticed("tx"), UNCHANGED <<len, program>>
  PROVE  /\ pc["tx"] = "fetch"
         /\ ring'["tx"].handed = ring["tx"].handed /\ ring'["tx"].done = ring["tx"].done
         /\ IF Quiet("tx")
              THEN \/ pc'["tx"] = "ack" /\ TakenBack' /\ batch'["tx"] = 0 /\ UNCHANGED ret
                   \/ pc'["tx"] = "idle" /\ Quiet("tx")' /\ ret'["tx"].kind = "throw"
              ELSE pc'["tx"] = "ack" /\ TakenBack' /\ batch'["tx"] = 1 /\ UNCHANGED ret
<1>1. /\ ring["tx"] \in Ring /\ ring["tx"].taken \in Nat /\ ring["tx"].done \in Nat
      /\ ring["tx"].handed \in Nat
  BY DEF TypeOK, Chan, Ring
<1>2. PICK k \in 0 .. Coalesce :
        /\ IsFromHw(ring["tx"], Coalesce, k)
        /\ ring' = [ring EXCEPT !["tx"] = FromHw(ring["tx"], k)]
        /\ \/ /\ k < Coalesce /\ pc' = [pc EXCEPT !["tx"] = "idle"]
              /\ ret' = [ret EXCEPT !["tx"] = Plain("throw")]
           \/ /\ pc' = [pc EXCEPT !["tx"] = "ack"] /\ batch' = [batch EXCEPT !["tx"] = k]
              /\ UNCHANGED ret
  BY DEF TxFetch, Return, Leave
<1>3. /\ ring'["tx"].handed = ring["tx"].handed /\ ring'["tx"].done = ring["tx"].done
      /\ ring'["tx"].taken = ring["tx"].taken + k
  <2>1. ring'["tx"] = FromHw(ring["tx"], k)
    BY <1>2 DEF TypeOK, Chan
  <2> QED
    BY <1>1, <2>1 DEF FromHw, Ring, Coalesce
<1>4. pc["tx"] = "fetch" /\ UNCHANGED <<ioc, irq, fault>>
  BY DEF TxFetch, hwVars
<1>5. CASE Quiet("tx")
  <2>1. k = 0
    BY <1>1, <1>2, <1>5 DEF Quiet, IsFromHw, Coalesce
  <2>2. \/ pc'["tx"] = "ack" /\ batch'["tx"] = 0 /\ UNCHANGED ret
        \/ pc'["tx"] = "idle" /\ ret'["tx"].kind = "throw"
    BY <1>2, <2>1 DEF TypeOK, Chan, Plain
  <2>3. Quiet("tx")' /\ TakenBack'
    BY <1>1, <1>3, <1>4, <1>5, <2>1 DEF Quiet, TakenBack
  <2> QED
    BY <1>3, <1>4, <1>5, <2>2, <2>3
<1>6. CASE ~ Quiet("tx")
  <2>1. Noticed("tx")
    BY <1>6
  <2>2. k = 1
    <3>1. k = 0 \/ k = 1
      BY DEF Coalesce
    <3>2. ASSUME k = 0 PROVE FALSE
      <4>1. Whole(ring["tx"], 1) /\ 1 <= ring["tx"].done - ring["tx"].taken
        BY <1>1, <2>1 DEF Noticed, Whole
      <4> QED
        BY <1>2, <3>2, <4>1 DEF IsFromHw, Coalesce
    <3> QED
      BY <3>1, <3>2
  <2>3. pc'["tx"] = "ack" /\ batch'["tx"] = 1 /\ UNCHANGED ret
    BY <1>2, <2>2 DEF TypeOK, Chan, Coalesce
  <2>4. TakenBack'
    BY <1>1, <1>3, <1>4, <2>1, <2>2 DEF Noticed, TakenBack
  <2> QED
    BY <1>3, <1>4, <1>6, <2>3, <2>4
<1> QED
  BY <1>5, <1>6

LEMMA TxAckStep ==
  ASSUME TypeOK, RingInv, TxAck, TakenBack, UNCHANGED <<len, program>>
  PROVE  /\ pc["tx"] = "ack" /\ pc'["tx"] = "idle" /\ Quiet("tx")'
         /\ ret'["tx"].kind = "comp" /\ ret'["tx"].bds = batch["tx"]
         /\ ring'["tx"].handed = ring["tx"].handed /\ ring'["tx"].done = ring["tx"].done
<1>1. /\ ring["tx"] \in Ring /\ batch["tx"] \in Nat /\ fault["tx"] = "none" /\ pc["tx"] = "ack"
  BY DEF TypeOK, Chan, TakenBack, TxAck
<1>2. CanFree(ring["tx"], batch["tx"]) /\ ~ BadStatus("tx", ring["tx"])
  BY <1>1 DEF RingInv, NothingHeldBack, InHand, CanFree, Chan, BadStatus
<1>3. PICK q \in {ring["tx"], Free(ring["tx"], batch["tx"])} :
        /\ ring' = [ring EXCEPT !["tx"] = q]
        /\ ret' = [ret EXCEPT !["tx"] = Completion(batch["tx"], intrs["tx"])]
  BY <1>2 DEF TxAck, Finish, Return
<1>4. q.handed = ring["tx"].handed /\ q.done = ring["tx"].done /\ q.taken = ring["tx"].taken
  BY <1>1, <1>3 DEF Free, Ring
<1>5. ring'["tx"] = q /\ ret'["tx"] = Completion(batch["tx"], intrs["tx"])
  BY <1>3 DEF TypeOK, Chan
<1>6. /\ pc'["tx"] = "idle" /\ ioc'["tx"] = FALSE /\ irq'["tx"] = irq["tx"]
      /\ fault'["tx"] = fault["tx"]
  BY DEF TxAck, Leave, TypeOK, Chan, hwVars
<1>7. Quiet("tx")'
  BY <1>4, <1>5, <1>6 DEF TakenBack, Quiet
<1> QED
  BY <1>1, <1>4, <1>5, <1>6, <1>7 DEF Completion

-----------------------------------------------------------------------------
(* ---- Where the thread is tells what is in flight ------------------------- *)

BetweenCalls == pc["tx"] = "idle" /\ pc["rx"] = "idle"

PipeAt ==
  \/ at \in {"idle", "read"} /\ BetweenCalls /\ Quiet("tx") /\ Quiet("rx")
  \/ at \in {"line", "write"} /\ BetweenCalls /\ Quiet("tx") /\ Waiting("rx")
  \/ /\ at = "writeComplete" /\ BetweenCalls /\ Waiting("rx")
     /\ IF len = 0 THEN Quiet("tx") ELSE Waiting("tx")
  \/ at = "written" /\ pc["rx"] = "idle" /\ Waiting("rx") /\ TxCall
  \/ at = "readComplete" /\ BetweenCalls /\ Quiet("tx") /\ Waiting("rx")
  \/ at = "done" /\ pc["tx"] = "idle" /\ Quiet("tx") /\ RxCall
  \/ /\ at = "exception" /\ BetweenCalls
     /\ Quiet("tx") \/ Waiting("tx")
     /\ Quiet("rx") \/ Waiting("rx")

(* A call that has not returned has no outcome.                            *)
NoOutcome == \A ch \in Chan : pc[ch] # "idle" => ret[ch].kind = "none"

(* The engine acts on a direction.                                         *)
EngineActs(ch) ==
  \/ \E kind \in Faults : HwFault(ch, kind, TRUE)
  \/ \E last \in BOOLEAN : /\ HwComplete(ch, last)
                           /\ last => (ch = "rx" /\ program = "memcpy" => len = 1)
                           /\ ~ last => ch = "rx" /\ len > 1

LEMMA EngineAt ==
  ASSUME TypeOK, PipeAt, NEW ch \in Chan, EngineActs(ch), UNCHANGED <<at, len, program>>
  PROVE  PipeAt' /\ Waiting(ch) /\ UNCHANGED <<pc, ret>>
<1>1. EngineStep(ch)
  BY DEF EngineActs, EngineStep
<1>2. Active(ch) /\ UNCHANGED <<pc, ret, batch>>
  BY DEF EngineActs, HwFault, HwComplete
<1>3. ~ Quiet(ch) /\ ~ Noticed(ch) /\ (ch = "rx" => ~ Acked) /\ (ch = "tx" => ~ TakenBack)
  BY <1>2, ActiveWaits
<1>4. Waiting(ch) => Waiting(ch)'
  BY EngineWaits DEF EngineActs
<1>5. CASE ch = "rx"
  <2>1. Still("tx")
    BY <1>1, <1>5, Others DEF Chan
  <2>2. (Quiet("tx") => Quiet("tx")') /\ (Waiting("tx") => Waiting("tx")') /\ (TxCall => TxCall')
    BY <2>1, Frames DEF Chan
  <2>3. Waiting("rx")
    BY <1>3, <1>5 DEF PipeAt, RxCall
  <2>4. RxCall => RxCall'
    BY <1>2, <1>3, <1>4, <1>5 DEF RxCall
  <2>5. BetweenCalls' = BetweenCalls /\ pc' = pc /\ len' = len /\ at' = at
    BY <1>2 DEF BetweenCalls
  <2>6. Waiting("rx")' /\ ~ Quiet("rx")
    BY <1>3, <1>4, <1>5, <2>3
  <2> HIDE DEF PipeAt
  <2>7. PipeAt'
    BY <2>2, <2>4, <2>5, <2>6 DEF PipeAt
  <2> QED
    BY <1>2, <1>5, <2>3, <2>7
<1>6. CASE ch = "tx"
  <2>1. Still("rx")
    BY <1>1, <1>6, Others DEF Chan
  <2>2. (Quiet("rx") => Quiet("rx")') /\ (Waiting("rx") => Waiting("rx")') /\ (RxCall => RxCall')
    BY <2>1, Frames DEF Chan
  <2>3. Waiting("tx")
    BY <1>3, <1>6 DEF PipeAt, TxCall
  <2>4. TxCall => TxCall'
    BY <1>2, <1>3, <1>4, <1>6 DEF TxCall
  <2>5. BetweenCalls' = BetweenCalls /\ pc' = pc /\ len' = len /\ at' = at
    BY <1>2 DEF BetweenCalls
  <2>6. Waiting("tx")' /\ ~ Quiet("tx")
    BY <1>3, <1>4, <1>6, <2>3
  <2>7. PipeAt'
    BY <2>2, <2>4, <2>5, <2>6 DEF PipeAt
  <2> QED
    BY <1>2, <1>6, <2>3, <2>7
<1> QED
  BY <1>5, <1>6 DEF Chan

(* The steps between the calls leave the Dma alone.                        *)
LEMMA ClientAt ==
  ASSUME TypeOK, PipeTypes, PipeAt,
         CopyAtOnce \/ CopyBegins \/ Line \/ BadLine \/ LongLine \/ Written \/ CopyReturns \/ PrintWords \/ Feed
  PROVE  PipeAt'
<1>1. Still("tx") /\ Still("rx") /\ pc' = pc /\ ret' = ret
  BY DEF CopyAtOnce, CopyBegins, Line, BadLine, LongLine, Written, CopyReturns, PrintWords, Feed, vars, hwVars, Still
<1>2. (Quiet("tx") => Quiet("tx")') /\ (Quiet("rx") => Quiet("rx")')
  BY <1>1 DEF Still, Quiet
<1>3. CASE CopyAtOnce \/ CopyBegins
  BY <1>1, <1>2, <1>3 DEF CopyAtOnce, CopyBegins, PipeAt, BetweenCalls
<1>4. CASE Line \/ BadLine \/ LongLine
  <2>1. Waiting("rx") => Waiting("rx")'
    <3>1. program # "memcpy" /\ program' = program /\ len <= 1
      BY <1>4 DEF Line, BadLine, LongLine, PipeTypes
    <3>2. len \in Nat
      BY DEF PipeTypes
    <3> QED
      BY <1>1, <3>1, <3>2 DEF Waiting, Busy, Halted, Still
  <2>2. at = "line" /\ at' \in {"write", "exception"}
    BY <1>4 DEF Line, BadLine, LongLine
  <2> QED
    BY <1>1, <1>2, <2>1, <2>2 DEF PipeAt, BetweenCalls
<1>5. CASE Written
  <2>1. Waiting("rx") => Waiting("rx")'
    BY <1>1, <1>5, Frames DEF Written, Chan
  <2>2. at = "written" /\ pc["tx"] = "idle"
    BY <1>5 DEF Written
  <2>3. Quiet("tx") /\ Waiting("rx") /\ pc["rx"] = "idle" /\ (len # 0 => ret["tx"].bds = 1)
    BY <2>2 DEF PipeAt, TxCall
  <2>4. program = "memcpy" => len # 0
    BY <2>2 DEF PipeTypes
  <2>5. at' = "readComplete"
    BY <1>5, <2>3, <2>4 DEF Written
  <2> QED
    BY <1>1, <1>2, <2>1, <2>2, <2>3, <2>5 DEF PipeAt, BetweenCalls
<1>6. CASE CopyReturns \/ PrintWords
  <2>1. at = "done" /\ pc["rx"] = "idle" /\ at' \in {"idle", "read"}
    BY <1>6 DEF CopyReturns, PrintWords
  <2>2. Quiet("rx") /\ Quiet("tx") /\ pc["tx"] = "idle"
    BY <2>1, <1>6 DEF PipeAt, RxCall
  <2> QED
    BY <1>1, <1>2, <2>1, <2>2 DEF PipeAt, BetweenCalls
<1>7. CASE Feed
  <2>1. UNCHANGED <<at, len, program>>
    BY <1>7 DEF Feed, callVars
  <2>2. /\ Waiting("rx") => Waiting("rx")'
        /\ Waiting("tx") => Waiting("tx")'
        /\ RxCall => RxCall'
        /\ TxCall => TxCall'
    BY <1>1, <2>1, Frames DEF Chan
  <2>3. BetweenCalls' = BetweenCalls
    BY <1>1 DEF BetweenCalls
  <2> QED
    BY <1>1, <1>2, <2>1, <2>2, <2>3 DEF PipeAt
<1> QED
  BY <1>3, <1>4, <1>5, <1>6, <1>7

LEMMA CallAt ==
  ASSUME TypeOK, PipeTypes, PipeAt, Read \/ Write \/ WriteComplete \/ ReadComplete
  PROVE  PipeAt' /\ (NoOutcome => NoOutcome')
<1> USE DEF Chan
<1>1. /\ UNCHANGED <<len, program>> /\ ret \in [Chan -> Result]
      /\ pc \in [Chan -> {"idle", "wait", "drop", "free", "lock", "ack", "fetch"}]
  BY DEF Read, Write, WriteComplete, ReadComplete, TypeOK
<1>2. CASE Read
  <2>1. at = "read" /\ BetweenCalls /\ Quiet("tx") /\ Quiet("rx")
    BY <1>2 DEF Read, PipeAt
  <2>2. Still("tx")
    BY <1>2, Others DEF Read, CallStep
  <2>3. UNCHANGED pc /\ (IF ret'["rx"].kind = "throw" THEN Quiet("rx")' ELSE Waiting("rx")')
    BY <1>2, <2>1, PostStep DEF Read
  <2>4. Quiet("tx")'
    BY <1>1, <2>1, <2>2, Frames
  <2>5. at' = (IF ret'["rx"].kind = "throw" THEN "exception" ELSE IF program = "pipe" THEN "line" ELSE "write")
    BY <1>2 DEF Read, Then, Threw
  <2>6. PipeAt'
    BY <2>1, <2>3, <2>4, <2>5 DEF PipeAt, BetweenCalls
  <2> QED
    BY <2>1, <2>3, <2>6 DEF NoOutcome, BetweenCalls
<1>3. CASE Write
  <2>1. at = "write" /\ BetweenCalls /\ Quiet("tx") /\ Waiting("rx")
    BY <1>3 DEF Write, PipeAt
  <2>2. Still("rx")
    BY <1>3, Others DEF Write, CallStep, NothingSent
  <2>3. Waiting("rx")'
    BY <1>1, <2>1, <2>2, Frames
  <2>4. at' = IF ret'["tx"].kind = "throw" THEN "exception" ELSE "writeComplete"
    BY <1>3 DEF Write, Then, Threw
  <2>5. CASE len = 0
    <3>1. PICK kind \in {"true", "false"} : NoTransfer("tx", kind)
      BY <1>3, <2>5 DEF Write
    <3>2. UNCHANGED <<pc, ring, irq, ioc, fault>> /\ ret'["tx"].kind # "throw"
      BY <1>1, <3>1 DEF NoTransfer, hwVars, Return, Plain
    <3>3. Quiet("tx")'
      BY <2>1, <3>2 DEF Quiet
    <3>4. PipeAt'
      BY <1>1, <2>1, <2>3, <2>4, <2>5, <3>2, <3>3 DEF PipeAt, BetweenCalls
    <3> QED
      BY <2>1, <3>2, <3>4 DEF NoOutcome, BetweenCalls
  <2>6. CASE len # 0
    <3>1. UNCHANGED pc /\ (IF ret'["tx"].kind = "throw" THEN Quiet("tx")' ELSE Waiting("tx")')
      BY <1>3, <2>1, <2>6, PostStep DEF Write
    <3>2. PipeAt'
      BY <1>1, <2>1, <2>3, <2>4, <2>6, <3>1 DEF PipeAt, BetweenCalls
    <3> QED
      BY <2>1, <3>1, <3>2 DEF NoOutcome, BetweenCalls
  <2> QED
    BY <2>5, <2>6
<1>4. CASE WriteComplete
  <2>1. /\ at = "writeComplete" /\ BetweenCalls /\ Waiting("rx") /\ at' = "written"
        /\ IF len = 0 THEN Quiet("tx") ELSE Waiting("tx")
    BY <1>4 DEF WriteComplete, PipeAt
  <2>2. /\ pc'["tx"] = "wait" /\ pc'["rx"] = "idle" /\ UNCHANGED <<ring, irq, ioc, fault>>
        /\ ret'["tx"].kind = "none"
    BY <1>1, <1>4, <2>1 DEF WriteComplete, CompleteCall, hwVars, Return, Plain, BetweenCalls
  <2>3. Waiting("rx")'
    BY <1>1, <2>1, <2>2 DEF Waiting, Busy, Halted
  <2>4. IF len = 0 THEN Quiet("tx")' ELSE Waiting("tx")'
    BY <1>1, <2>1, <2>2 DEF Waiting, Busy, Halted, Quiet
  <2>5. PipeAt'
    BY <1>1, <2>1, <2>2, <2>3, <2>4 DEF PipeAt, TxCall
  <2> QED
    BY <2>2, <2>5 DEF NoOutcome
<1>5. CASE ReadComplete
  <2>1. /\ at = "readComplete" /\ BetweenCalls /\ Waiting("rx") /\ Quiet("tx") /\ at' = "done"
    BY <1>5 DEF ReadComplete, PipeAt
  <2>2. /\ pc'["rx"] = "wait" /\ pc'["tx"] = "idle" /\ UNCHANGED <<ring, irq, ioc, fault>>
        /\ ret'["rx"].kind = "none"
    BY <1>1, <1>5, <2>1 DEF ReadComplete, CompleteCall, hwVars, Return, Plain, BetweenCalls
  <2>3. Waiting("rx")' /\ Quiet("tx")'
    BY <1>1, <2>1, <2>2 DEF Waiting, Busy, Halted, Quiet
  <2>4. PipeAt'
    BY <2>1, <2>2, <2>3 DEF PipeAt, RxCall
  <2> QED
    BY <2>2, <2>4 DEF NoOutcome
<1> QED
  BY <1>2, <1>3, <1>4, <1>5

(* How many chunks were received before the one of this round              *)
Turn == IF at = "done" /\ pc["rx"] = "idle" THEN ring["rx"].taken - 1 ELSE ring["rx"].taken

(* What a step inside a completion call keeps                              *)
InCallKeeps ==
  /\ \A c \in Chan : ring'[c].handed = ring[c].handed /\ ring'[c].done = ring[c].done
  /\ UNCHANGED <<fault, len, program>>
  /\ Turn' = Turn
  /\ at' = at \/ (at' = "exception" /\ at = "written" /\ len = 0)
  /\ ring'["tx"] = ring["tx"] \/ (ring["tx"].done = ring["tx"].handed /\ fault["tx"] = "none")

LEMMA TxInCallAt ==
  ASSUME ~ Relatch, TypeOK, RingInv, PipeTypes, PipeAt, NoOutcome, InCall("tx")
  PROVE  PipeAt' /\ NoOutcome' /\ InCallKeeps
<1> USE DEF Chan
<1>1. UNCHANGED <<len, program>> /\ at' = IF ret'["tx"].kind = "throw" THEN "exception" ELSE at
  BY DEF InCall, Then, Threw
<1>2. WaitInterrupt("tx") \/ Lock("tx") \/ TxFetch \/ TxAck
  BY DEF InCall
<1>3. pc["tx"] # "idle" /\ UNCHANGED fault
  BY <1>2 DEF WaitInterrupt, Lock, TxFetch, TxAck, hwVars
<1>4. at = "written" /\ pc["rx"] = "idle" /\ Waiting("rx") /\ TxCall /\ ret["tx"].kind = "none"
  BY <1>3 DEF PipeAt, BetweenCalls, NoOutcome
<1>5. Still("rx")
  BY Others DEF InCall, CallStep
<1>6. Waiting("rx")'
  BY <1>1, <1>4, <1>5, Frames
<1>7. /\ TxCall' /\ at' = "written" /\ (pc'["tx"] # "idle" => ret'["tx"].kind = "none")
      => PipeAt' /\ NoOutcome' /\ Turn' = Turn
  BY <1>4, <1>5, <1>6 DEF PipeAt, NoOutcome, Still, Turn
<1>8. ring'["rx"] = ring["rx"]
  BY <1>5 DEF Still
<1>9. CASE WaitInterrupt("tx")
  <2>1. pc["tx"] = "wait" /\ UNCHANGED ring
    BY <1>9 DEF WaitInterrupt
  <2>2. IF len = 0 THEN Quiet("tx") ELSE Waiting("tx")
    BY <1>4, <2>1 DEF TxCall
  <2>3. len # 0 /\ pc'["tx"] = "lock" /\ Noticed("tx")' /\ UNCHANGED ret
    BY <1>1, <1>9, <2>2, WaitStep
  <2> QED
    BY <1>1, <1>3, <1>4, <1>7, <1>8, <2>1, <2>3 DEF TxCall, InCallKeeps
<1>10. CASE Lock("tx")
  <2>1. /\ pc["tx"] = "lock" /\ pc'["tx"] = "fetch" /\ UNCHANGED <<ret, ring>>
        /\ Quiet("tx") => Quiet("tx")'
        /\ Noticed("tx") => Noticed("tx")'
    BY <1>1, <1>10, LockStep DEF Lock
  <2>2. IF len = 0 THEN Quiet("tx") ELSE Noticed("tx")
    BY <1>4, <2>1 DEF TxCall
  <2> QED
    BY <1>1, <1>3, <1>4, <1>7, <1>8, <2>1, <2>2 DEF TxCall, InCallKeeps
<1>11. CASE TxFetch
  <2>1. pc["tx"] = "fetch"
    BY <1>11 DEF TxFetch
  <2>2. IF len = 0 THEN Quiet("tx") ELSE Noticed("tx")
    BY <1>4, <2>1 DEF TxCall
  <2>3. ring["tx"].handed \in Nat /\ ring["tx"].taken \in Nat
    BY DEF TypeOK, Ring
  <2>4. Quiet("tx") <=> len = 0
    BY <2>2, <2>3 DEF Quiet, Noticed
  <2>5. /\ ring'["tx"].handed = ring["tx"].handed /\ ring'["tx"].done = ring["tx"].done
        /\ \/ pc'["tx"] = "ack" /\ TakenBack' /\ batch'["tx"] = (IF len = 0 THEN 0 ELSE 1) /\ UNCHANGED ret
           \/ len = 0 /\ pc'["tx"] = "idle" /\ Quiet("tx")' /\ ret'["tx"].kind = "throw"
    BY <1>1, <1>11, <2>2, <2>4, TxFetchStep
  <2>8. ring["tx"].done = ring["tx"].handed /\ fault["tx"] = "none"
    BY <2>2, <2>3 DEF Quiet, Noticed
  <2>6. CASE pc'["tx"] = "ack"
    BY <1>1, <1>3, <1>4, <1>7, <1>8, <2>5, <2>6, <2>8 DEF TxCall, InCallKeeps
  <2>7. CASE pc'["tx"] # "ack"
    <3>1. at' = "exception" /\ pc'["tx"] = "idle" /\ pc'["rx"] = "idle" /\ Quiet("tx")' /\ len = 0
      BY <1>1, <1>4, <1>5, <2>5, <2>7 DEF Still
    <3>2. PipeAt' /\ NoOutcome' /\ Turn' = Turn
      BY <1>4, <1>6, <1>8, <3>1 DEF PipeAt, BetweenCalls, NoOutcome, Turn
    <3> QED
      BY <1>1, <1>3, <1>4, <1>8, <2>5, <2>8, <3>1, <3>2 DEF InCallKeeps
  <2> QED
    BY <2>6, <2>7
<1>12. CASE TxAck
  <2>1. pc["tx"] = "ack"
    BY <1>12 DEF TxAck
  <2>2. TakenBack /\ batch["tx"] = (IF len = 0 THEN 0 ELSE 1)
    BY <1>4, <2>1 DEF TxCall
  <2>3. /\ pc'["tx"] = "idle" /\ Quiet("tx")' /\ ret'["tx"].kind = "comp" /\ ret'["tx"].bds = batch["tx"]
        /\ ring'["tx"].handed = ring["tx"].handed /\ ring'["tx"].done = ring["tx"].done
    BY <1>1, <1>12, <2>2, TxAckStep
  <2> QED
    BY <1>1, <1>3, <1>4, <1>7, <1>8, <2>2, <2>3 DEF TxCall, InCallKeeps, TakenBack
<1> QED
  BY <1>2, <1>9, <1>10, <1>11, <1>12

LEMMA RxInCallAt ==
  ASSUME ~ Relatch, TypeOK, RingInv, PipeTypes, PipeAt, NoOutcome, InCall("rx")
  PROVE  PipeAt' /\ NoOutcome' /\ InCallKeeps
<1> USE DEF Chan
<1>1. UNCHANGED <<len, program>> /\ at' = IF ret'["rx"].kind = "throw" THEN "exception" ELSE at
  BY DEF InCall, Then, Threw
<1>2. WaitInterrupt("rx") \/ Lock("rx") \/ RxDrop \/ RxDropFree \/ RxAck \/ RxNoIoc \/ RxFetch
  BY DEF InCall
<1>3. pc["rx"] # "idle" /\ UNCHANGED fault
  BY <1>2 DEF WaitInterrupt, Lock, RxDrop, RxDropFree, RxAck, RxNoIoc, RxFetch, hwVars
<1>4. at = "done" /\ pc["tx"] = "idle" /\ Quiet("tx") /\ RxCall /\ ret["rx"].kind = "none"
  BY <1>3 DEF PipeAt, BetweenCalls, NoOutcome
<1>5. Still("tx")
  BY Others DEF InCall, CallStep
<1>6. Quiet("tx")' /\ pc'["tx"] = "idle" /\ ring'["tx"] = ring["tx"]
  BY <1>1, <1>4, <1>5, Frames DEF Still
<1>7. RxCall' /\ at' = "done" /\ (pc'["rx"] # "idle" => ret'["rx"].kind = "none") => PipeAt' /\ NoOutcome'
  BY <1>6 DEF PipeAt, NoOutcome
<1>8. CASE WaitInterrupt("rx")
  <2>1. pc["rx"] = "wait" /\ UNCHANGED ring
    BY <1>8 DEF WaitInterrupt
  <2>2. Waiting("rx")
    BY <1>4, <2>1 DEF RxCall
  <2>3. pc'["rx"] = "lock" /\ Noticed("rx")' /\ UNCHANGED ret
    BY <1>1, <1>8, <2>2, WaitStep
  <2> QED
    BY <1>1, <1>3, <1>4, <1>6, <1>7, <2>1, <2>3 DEF RxCall, InCallKeeps, Turn
<1>9. CASE Lock("rx")
  <2>1. /\ pc["rx"] = "lock" /\ pc'["rx"] = "ack" /\ UNCHANGED <<ret, ring>>
        /\ Noticed("rx") => Noticed("rx")'
    BY <1>1, <1>9, LockStep DEF Lock
  <2>2. Noticed("rx")
    BY <1>4, <2>1 DEF RxCall
  <2> QED
    BY <1>1, <1>3, <1>4, <1>6, <1>7, <2>1, <2>2 DEF RxCall, InCallKeeps, Turn
<1>10. CASE RxAck
  <2>1. pc["rx"] = "ack" /\ UNCHANGED ring
    BY <1>10 DEF RxAck
  <2>2. Noticed("rx")
    BY <1>4, <2>1 DEF RxCall
  <2>3. pc'["rx"] = "fetch" /\ Acked' /\ UNCHANGED ret
    BY <1>1, <1>10, <2>2, RxAckStep
  <2> QED
    BY <1>1, <1>3, <1>4, <1>6, <1>7, <2>1, <2>3 DEF RxCall, InCallKeeps, Turn
<1>11. ~ RxDrop /\ ~ RxDropFree /\ ~ RxNoIoc
  BY <1>4 DEF RxDrop, RxDropFree, RxNoIoc, RxCall, Noticed
<1>12. CASE RxFetch
  <2>1. pc["rx"] = "fetch"
    BY <1>12 DEF RxFetch
  <2>2. Acked
    BY <1>4, <2>1 DEF RxCall
  <2>3. /\ pc'["rx"] = "idle" /\ Quiet("rx")' /\ ret'["rx"].kind = "comp" /\ ret'["rx"].bds = 1
        /\ ring'["rx"].handed = ring["rx"].handed /\ ring'["rx"].done = ring["rx"].done
    BY <1>1, <1>12, <2>2, RxFetchStep
  <2>4. at' = "done" /\ (program = "memcpy" => len = 1)
    BY <1>1, <1>4, <2>2, <2>3 DEF Acked
  <2>5. Turn' = Turn
    <3>1. ring["rx"].taken \in Nat
      BY DEF TypeOK, Ring
    <3>2. ring'["rx"].taken = ring["rx"].taken + 1
      BY <2>2, <2>3 DEF Acked, Quiet
    <3> QED
      BY <1>4, <2>1, <2>3, <2>4, <3>1, <3>2 DEF Turn
  <2> QED
    BY <1>1, <1>3, <1>4, <1>6, <1>7, <2>3, <2>4, <2>5 DEF RxCall, InCallKeeps
<1> QED
  BY <1>2, <1>8, <1>9, <1>10, <1>11, <1>12

(* A wait gives up without a transfer in flight only in writeComplete()    *)
(* after a write() of nothing.                                             *)
LEMMA TimeOutAt ==
  ASSUME TypeOK, PipeTypes, PipeAt, NoOutcome, NEW ch \in Chan, TimeOut(ch), ~ gaveUp'
  PROVE  PipeAt' /\ NoOutcome' /\ InCallKeeps
<1> USE DEF Chan
<1>1. /\ UNCHANGED <<at, len, program, ring, irq, ioc, fault, ret>> /\ pc[ch] = "wait"
      /\ ring[ch].handed <= ring[ch].taken
  <2>1. ring[ch].handed \in Nat /\ ring[ch].taken \in Nat
    BY DEF TypeOK, Ring
  <2>2. ~ (ring[ch].handed > ring[ch].taken)
    BY Zenon DEF TimeOut
  <2> QED
    BY <2>1, <2>2 DEF TimeOut, WaitTimeout, callVars, hwVars
<1>2. ~ Waiting(ch)
  <2>1. ring[ch].handed \in Nat /\ ring[ch].taken \in Nat
    BY DEF TypeOK, Ring
  <2> QED
    BY <1>1, <2>1 DEF Waiting, Busy, Halted
<1>3. ch = "tx"
  BY <1>1, <1>2 DEF PipeAt, BetweenCalls, RxCall
<1>4. at = "written" /\ pc["rx"] = "idle" /\ Waiting("rx") /\ TxCall
  BY <1>1, <1>3 DEF PipeAt, BetweenCalls
<1>5. len = 0 /\ Quiet("tx")
  BY <1>1, <1>2, <1>3, <1>4 DEF TxCall
<1>6. pc' = [pc EXCEPT !["tx"] = "lock"]
  BY <1>3 DEF TimeOut, WaitTimeout
<1>7. pc'["tx"] = "lock" /\ pc'["rx"] = pc["rx"]
  BY <1>6 DEF TypeOK
<1>8. Quiet("tx")' /\ Waiting("rx")'
  BY <1>1, <1>4, <1>5 DEF Quiet, Waiting, Busy, Halted
<1>9. PipeAt' /\ NoOutcome'
  BY <1>1, <1>3, <1>4, <1>5, <1>7, <1>8 DEF PipeAt, TxCall, NoOutcome
<1> QED
  BY <1>1, <1>4, <1>7, <1>9 DEF InCallKeeps, Turn

-----------------------------------------------------------------------------
(* ---- The words ----------------------------------------------------------- *)

(* A word of this round was received.                                      *)
Got == ring["rx"].done > Turn

Round == {"writeComplete", "written", "readComplete", "done"}

(* The words of every descriptor that completed have left the memory.      *)
FedAt ==
  \/ fed = ring["tx"].handed
  \/ fed = ring["tx"].done /\ fed = ring["tx"].taken /\ ring["tx"].handed = fed + 1
  \/ fault["tx"] = "marked" /\ fed = ring["tx"].taken /\ ring["tx"].handed = fed + 1

(* The link holds the words of this copy only.                             *)
LinkAt ==
  program = "memcpy" /\ fault["rx"] = "none" =>
    /\ at \notin Round => link = <<>> /\ ~ Got /\ fed = ring["tx"].handed
    /\ at \in Round /\ Got =>
         fed = ring["tx"].handed /\ (len = 1 => link = <<>> /\ mem = <<copies, 1>>)
    /\ at \in Round /\ ~ Got =>
         link = <<>> \/ (fed = ring["tx"].handed /\ link = Copied)

ResultAt ==
  result = "true" => at = "idle" /\ (len = 0 \/ (len = 1 /\ mem = <<copies, 1>>))

PrintAt ==
  program = "pipe" /\ fault["rx"] = "none" =>
    /\ Len(printed) = Turn
    /\ ring["rx"].done > Len(printed) =>
         \E k \in 0 .. ring["rx"].done : mem = <<k>> /\ (overran \/ k = ring["rx"].done)

LEMMA Counts ==
  ASSUME TypeOK, NEW ch \in Chan
  PROVE  ring[ch].handed \in Nat /\ ring[ch].done \in Nat /\ ring[ch].taken \in Nat
BY DEF TypeOK, Ring

LEMMA TailOfOne ==
  ASSUME NEW S, NEW s \in Seq(S), Len(s) = 1
  PROVE  Tail(s) = <<>>
<1>1. Tail(s) \in Seq(S) /\ Len(Tail(s)) = 0
  OBVIOUS
<1> QED
  BY <1>1, EmptySeq

LEMMA CopiedWords ==
  ASSUME PipeTypes, len >= 1
  PROVE  /\ Head(Copied) = [word |-> <<copies, 1>>, last |-> (1 = len)]
         /\ Copied # <<>>
         /\ len = 1 => Tail(Copied) = <<>>
<1>1. Copied \in Seq(Links) /\ Len(Copied) = len /\ len \in Nat
  BY CopiedType DEF PipeTypes
<1>2. Copied[1] = [word |-> <<copies, 1>>, last |-> (1 = len)]
  BY <1>1 DEF Copied
<1> HIDE DEF Copied
<1>3. Head(Copied) = Copied[1] /\ Copied # <<>>
  BY <1>1
<1>4. ASSUME len = 1 PROVE Tail(Copied) = <<>>
  BY <1>1, <1>4, TailOfOne
<1> QED
  BY <1>2, <1>3, <1>4

(* What the engine receives from the link is the first word of the copy.   *)
LEMMA ReceiveHead ==
  ASSUME TypeOK, PipeTypes, PipeAt, LinkAt, Receive
  PROVE  /\ program = "memcpy" /\ len >= 1 /\ at \in Round /\ ~ Got
         /\ fed = ring["tx"].handed
         /\ HwComplete("rx", len = 1) /\ mem' = <<copies, 1>>
         /\ len = 1 => link' = <<>>
<1>1. link # <<>> /\ HwComplete("rx", Head(link).last) /\ mem' = Head(link).word /\ link' = Tail(link)
  BY DEF Receive
<1>2. Active("rx")
  BY <1>1 DEF HwComplete
<1>3. fault["rx"] = "none" /\ ring["rx"].done < ring["rx"].handed
  BY <1>2 DEF Active
<1>4. program = "memcpy"
  BY <1>1 DEF PipeTypes
<1>5. at \in Round
  BY <1>1, <1>3, <1>4 DEF LinkAt
<1>6. len >= 1
  BY <1>4, <1>5 DEF PipeTypes, Round
<1>7. ~ Quiet("rx") /\ ~ Noticed("rx") /\ ~ Acked
  BY <1>2, ActiveWaits DEF Chan
<1>8. Waiting("rx") /\ ~ (at = "done" /\ pc["rx"] = "idle")
  BY <1>5, <1>7 DEF PipeAt, RxCall, Round
<1>9. ring["rx"].done = ring["rx"].taken
  BY <1>3, <1>8, Counts DEF Waiting, Busy, Halted, Chan
<1>10. ~ Got
  BY <1>8, <1>9, Counts DEF Got, Turn, Chan
<1>11. link = Copied /\ fed = ring["tx"].handed
  BY <1>1, <1>3, <1>4, <1>5, <1>10 DEF LinkAt
<1>12. Head(link) = [word |-> <<copies, 1>>, last |-> (1 = len)]
  BY <1>6, <1>11, CopiedWords
<1>13. Head(link).word = <<copies, 1>> /\ Head(link).last = (1 = len)
  BY <1>12
<1>14. HwComplete("rx", 1 = len) /\ (1 = len) = (len = 1)
  BY <1>1, <1>13
<1>15. HwComplete("rx", len = 1)
  BY <1>14
<1>16. len = 1 => link' = <<>>
  BY <1>1, <1>6, <1>11, CopiedWords
<1> QED
  BY <1>1, <1>4, <1>5, <1>6, <1>10, <1>11, <1>13, <1>15, <1>16

(* ---- Places -------------------------------------------------------------- *)

LEMMA EngineActsAt ==
  ASSUME TypeOK, PipeTypes, PipeAt, LinkAt
  PROVE  /\ Send => EngineActs("tx")
         /\ Receive \/ Arrive => EngineActs("rx")
         /\ Fault => \E ch \in Chan, kind \in Faults : HwFault(ch, kind, TRUE) /\ EngineActs(ch)
<1>1. Send => EngineActs("tx")
  BY DEF Send, EngineActs
<1>2. Arrive => EngineActs("rx")
  BY DEF Arrive, EngineActs
<1>3. Receive => EngineActs("rx")
  <2> SUFFICES ASSUME Receive PROVE EngineActs("rx")
    OBVIOUS
  <2>1. len \in Nat /\ len >= 1 /\ HwComplete("rx", len = 1)
    BY ReceiveHead DEF PipeTypes
  <2>2. CASE len = 1
    <3>1. HwComplete("rx", TRUE)
      BY <2>1, <2>2
    <3> QED
      BY <2>2, <3>1 DEF EngineActs
  <2>3. CASE len # 1
    <3>1. HwComplete("rx", FALSE)
      BY <2>1, <2>3
    <3>2. len > 1
      BY <2>1, <2>3
    <3> QED
      BY <3>1, <3>2 DEF EngineActs
  <2> QED
    BY <2>2, <2>3
<1>4. Fault => \E ch \in Chan, kind \in Faults : HwFault(ch, kind, TRUE) /\ EngineActs(ch)
  BY DEF Fault, EngineActs
<1> QED
  BY <1>1, <1>2, <1>3, <1>4

(* At every step the thread stays where the descriptors say it is, unless  *)
(* a wait gives up.                                                        *)
LEMMA AtStep ==
  ASSUME ~ Relatch, TypeOK, RingInv, PipeTypes, PipeAt, NoOutcome, LinkAt, PipeNext, ~ gaveUp'
  PROVE  PipeAt' /\ NoOutcome'
<1>1. CASE CopyAtOnce \/ CopyBegins \/ Line \/ BadLine \/ LongLine \/ Written \/ CopyReturns \/ PrintWords \/ Feed
  <2>1. UNCHANGED <<pc, ret>>
    BY <1>1 DEF CopyAtOnce, CopyBegins, Line, BadLine, LongLine, Written, CopyReturns, PrintWords, Feed, vars
  <2> QED
    BY <1>1, <2>1, ClientAt DEF NoOutcome
<1>2. CASE Read \/ Write \/ WriteComplete \/ ReadComplete
  BY <1>2, CallAt
<1>3. CASE \E ch \in Chan : InCall(ch)
  BY <1>3, TxInCallAt, RxInCallAt DEF Chan
<1>4. CASE \E ch \in Chan : TimeOut(ch)
  BY <1>4, TimeOutAt
<1>5. CASE Send \/ Receive \/ Arrive \/ Fault
  <2>1. UNCHANGED <<at, len, program>>
    BY <1>5 DEF Send, Receive, Arrive, Fault, pipeVars, callVars
  <2>2. PICK ch \in Chan : EngineActs(ch)
    BY <1>5, EngineActsAt DEF Chan
  <2> QED
    BY <2>1, <2>2, EngineAt DEF NoOutcome
<1> QED
  BY <1>1, <1>2, <1>3, <1>4, <1>5 DEF PipeNext

LEMMA FedFrame ==
  ASSUME FedAt, ring'["tx"] = ring["tx"], fault'["tx"] = fault["tx"], fed' = fed
  PROVE  FedAt'
BY DEF FedAt

LEMMA FedStep ==
  ASSUME ~ Relatch, TypeOK, RingInv, PipeTypes, PipeAt, NoOutcome, LinkAt, FedAt, PipeNext, ~ gaveUp'
  PROVE  FedAt'
<1> USE DEF Chan
<1>1. /\ ring["tx"].handed \in Nat /\ ring["tx"].done \in Nat /\ ring["tx"].taken \in Nat
      /\ ring["tx"] \in Ring
  BY Counts DEF TypeOK
<1>2. CASE CopyAtOnce \/ CopyBegins \/ Line \/ BadLine \/ LongLine \/ Written \/ CopyReturns \/ PrintWords
  <2>1. UNCHANGED <<ring, fault, fed>>
    BY <1>2 DEF CopyAtOnce, CopyBegins, Line, BadLine, LongLine, Written, CopyReturns, PrintWords, vars, hwVars,
       linkVars
  <2> QED
    BY <2>1, FedFrame
<1>3. CASE WriteComplete \/ ReadComplete
  <2>1. UNCHANGED <<ring, fault, fed>>
    BY <1>3 DEF WriteComplete, ReadComplete, CompleteCall, hwVars, linkVars
  <2> QED
    BY <2>1, FedFrame
<1>4. CASE Read
  <2>1. Still("tx") /\ fed' = fed
    BY <1>4, Others DEF Read, CallStep, linkVars
  <2> QED
    BY <2>1, FedFrame DEF Still
<1>5. CASE Write
  <2>1. fed' = fed /\ at = "write"
    BY <1>5 DEF Write, linkVars
  <2>2. Quiet("tx")
    BY <2>1 DEF PipeAt
  <2>3. CASE len = 0
    <3>1. UNCHANGED <<ring, fault>>
      BY <1>5, <2>3 DEF Write, NoTransfer, hwVars
    <3> QED
      BY <2>1, <3>1, FedFrame
  <2>4. CASE len # 0
    <3>1. fed = ring["tx"].handed /\ fed = ring["tx"].done /\ fed = ring["tx"].taken
      BY <1>1, <2>2 DEF Quiet, FedAt
    <3>2. Post("tx")
      BY <1>5, <2>4 DEF Write
    <3>3. /\ ring'["tx"].done = ring["tx"].done /\ ring'["tx"].taken = ring["tx"].taken
          /\ ring'["tx"].handed = ring["tx"].handed \/ ring'["tx"].handed = ring["tx"].handed + 1
      BY <3>2, PostEffect
    <3> QED
      BY <2>1, <3>1, <3>3 DEF FedAt
  <2> QED
    BY <2>3, <2>4
<1>6. ASSUME NEW ch \in Chan, InCall(ch) \/ TimeOut(ch)
      PROVE  FedAt'
  <2>1. InCallKeeps
    BY <1>6, TxInCallAt, RxInCallAt, TimeOutAt
  <2>2. fed' = fed
    BY <1>6 DEF InCall, TimeOut, linkVars
  <2>3. CASE ring'["tx"] = ring["tx"]
    <3>1. fault'["tx"] = fault["tx"]
      BY <2>1 DEF InCallKeeps
    <3> QED
      BY <2>2, <2>3, <3>1, FedFrame
  <2>4. CASE ring["tx"].done = ring["tx"].handed /\ fault["tx"] = "none"
    <3>1. fed = ring["tx"].handed
      BY <1>1, <2>4 DEF FedAt
    <3> QED
      BY <2>1, <2>2, <3>1 DEF InCallKeeps, FedAt
  <2> QED
    BY <2>1, <2>3, <2>4 DEF InCallKeeps
<1>7. CASE Feed
  <2>1. Active("tx") /\ fed = ring["tx"].done /\ fed' = fed + 1 /\ UNCHANGED ring
    BY <1>7 DEF Feed, vars
  <2>2. ring["tx"].done < ring["tx"].handed
    BY <2>1 DEF Active
  <2>3. fed' = ring["tx"].handed
    BY <1>1, <2>1, <2>2 DEF FedAt
  <2> QED
    BY <2>1, <2>3 DEF FedAt
<1>8. CASE Send
  <2>1. fed > ring["tx"].done /\ HwComplete("tx", TRUE) /\ fed' = fed
    BY <1>8 DEF Send, linkVars
  <2>2. fault["tx"] = "none" /\ ring'["tx"] = Complete(ring["tx"], TRUE)
    BY <2>1 DEF HwComplete, Active, TypeOK
  <2>3. ring'["tx"].handed = ring["tx"].handed
    BY <1>1, <2>2 DEF Complete, Ring
  <2>4. fed = ring["tx"].handed
    BY <1>1, <2>1, <2>2 DEF FedAt
  <2> QED
    BY <2>1, <2>3, <2>4 DEF FedAt
<1>9. CASE Receive \/ Arrive
  <2>1. fed' = fed /\ EngineActs("rx")
    BY <1>9, EngineActsAt DEF Receive, Arrive
  <2>2. Still("tx")
    BY <2>1, Others DEF EngineActs, EngineStep
  <2> QED
    BY <2>1, <2>2, FedFrame DEF Still
<1>10. CASE Fault
  <2>1. fed' = fed
    BY <1>10 DEF Fault, pipeVars, linkVars
  <2>2. PICK ch \in Chan, kind \in Faults : HwFault(ch, kind, TRUE)
    BY <1>10, EngineActsAt
  <2>3. CASE ch = "rx"
    <3>1. Still("tx")
      BY <2>2, <2>3, Others DEF EngineStep
    <3> QED
      BY <2>1, <3>1, FedFrame DEF Still
  <2>4. CASE ch = "tx"
    <3>1. Active("tx") /\ fault'["tx"] = kind
          /\ ring'["tx"] = (IF kind = "marked" THEN Complete(ring["tx"], TRUE) ELSE ring["tx"])
      BY <2>2, <2>4 DEF HwFault, TypeOK
    <3>2. ring'["tx"].handed = ring["tx"].handed /\ ring'["tx"].taken = ring["tx"].taken
      BY <1>1, <3>1 DEF Complete, Ring
    <3>3. fault["tx"] # "marked"
      BY <3>1 DEF Active
    <3> QED
      BY <2>1, <3>1, <3>2, <3>3 DEF FedAt
  <2> QED
    BY <2>3, <2>4
<1> QED
  BY <1>2, <1>3, <1>4, <1>5, <1>6, <1>7, <1>8, <1>9, <1>10 DEF PipeNext

LEMMA LinkFrame ==
  ASSUME LinkAt, UNCHANGED <<program, copies, link, fed, mem>>, at \in Round => len' = len,
         at' \in Round <=> at \in Round,
         fault'["rx"] = fault["rx"], ring'["tx"].handed = ring["tx"].handed,
         ring'["rx"].done = ring["rx"].done, Turn' = Turn
  PROVE  LinkAt'
<1>1. Got' = Got
  BY DEF Got
<1>2. at \in Round => Copied' = Copied
  BY DEF Copied
<1> QED
  BY <1>1, <1>2 DEF LinkAt

(* memcpy() does not look at the second completion call if the first one   *)
(* reports nothing, which does not happen before a wait gives up.          *)
LEMMA WrittenGoesOn ==
  ASSUME PipeTypes, PipeAt, Written
  PROVE  at = "written" /\ at' = "readComplete"
<1>1. at = "written" /\ pc["tx"] = "idle"
  BY DEF Written
<1>2. len # 0 => ret["tx"].bds = 1
  BY <1>1 DEF PipeAt, TxCall
<1>3. program = "memcpy" => len # 0
  BY <1>1 DEF PipeTypes
<1> QED
  BY <1>1, <1>2, <1>3 DEF Written

LEMMA LinkStep ==
  ASSUME ~ Relatch, TypeOK, RingInv, PipeTypes, PipeAt, NoOutcome, LinkAt, FedAt, PipeNext, ~ gaveUp'
  PROVE  LinkAt'
<1> USE DEF Chan
<1>1. /\ ring["tx"].handed \in Nat /\ ring["tx"].done \in Nat /\ ring["tx"].taken \in Nat
      /\ ring["rx"].handed \in Nat /\ ring["rx"].done \in Nat /\ ring["rx"].taken \in Nat
  BY Counts
<1>2. CASE CopyAtOnce \/ CopyBegins \/ Line
  <2>1. UNCHANGED <<program, link, fed, mem, ring, fault>> /\ at \notin Round /\ at' \notin Round
        /\ at # "done" /\ at' # "done"
    BY <1>2 DEF CopyAtOnce, CopyBegins, Line, BadLine, LongLine, linkVars, vars, hwVars, Round
  <2>2. Got' = Got
    BY <2>1 DEF Got, Turn
  <2> QED
    BY <2>1, <2>2 DEF LinkAt
<1>3. CASE Written
  <2>1. at' \in Round /\ at \in Round /\ at # "done" /\ at' # "done"
    BY <1>3, WrittenGoesOn DEF Round
  <2>2. UNCHANGED <<program, copies, link, fed, mem, ring, fault, len>>
    BY <1>3 DEF Written, linkVars, vars, hwVars
  <2>3. Turn' = Turn
    BY <2>1, <2>2 DEF Turn
  <2> QED
    BY <2>1, <2>2, <2>3, LinkFrame
<1>4. CASE CopyReturns
  <2>1. /\ program = "memcpy" /\ at = "done" /\ pc["rx"] = "idle" /\ at' = "idle"
        /\ UNCHANGED <<program, copies, link, fed, mem, ring, fault, len>>
    BY <1>4 DEF CopyReturns, linkVars, vars, hwVars
  <2>2. Quiet("rx") /\ len = 1
    BY <2>1 DEF PipeAt, RxCall
  <2>3. Got
    BY <1>1, <2>1, <2>2 DEF Got, Turn, Quiet
  <2>4. fed = ring["tx"].handed /\ link = <<>>
    BY <2>1, <2>2, <2>3 DEF LinkAt, Quiet, Round
  <2>5. ~ Got'
    BY <1>1, <2>1, <2>2 DEF Got, Turn, Quiet
  <2> QED
    BY <2>1, <2>4, <2>5 DEF LinkAt, Round
<1>5. CASE WriteComplete \/ ReadComplete
  <2>1. /\ at \in Round /\ at' \in Round /\ at # "done"
        /\ UNCHANGED <<program, copies, link, fed, mem, ring, fault, len>>
        /\ at' = "done" => pc'["rx"] # "idle"
    BY <1>5 DEF WriteComplete, ReadComplete, CompleteCall, linkVars, hwVars, Round, TypeOK
  <2>2. Turn' = Turn
    BY <2>1 DEF Turn
  <2> QED
    BY <2>1, <2>2, LinkFrame
<1>6. CASE Read
  <2>1. /\ at = "read" /\ at' \in {"exception", "line", "write"} /\ Post("rx")
        /\ UNCHANGED <<program, copies, link, fed, mem, len>>
    BY <1>6 DEF Read, Then, linkVars
  <2>2. UNCHANGED fault /\ ring'["rx"].done = ring["rx"].done /\ ring'["rx"].taken = ring["rx"].taken
    BY <2>1, PostEffect
  <2>3. ring'["tx"] = ring["tx"]
    BY <1>6, Others DEF Read, CallStep, Still
  <2>4. Turn' = Turn
    BY <2>1, <2>2 DEF Turn
  <2> QED
    BY <2>1, <2>2, <2>3, <2>4, LinkFrame DEF Round
<1>7. CASE Write /\ program = "memcpy"
  <2>1. /\ at = "write" /\ UNCHANGED <<program, copies, link, fed, mem, len>>
        /\ at' = IF ret'["tx"].kind = "throw" THEN "exception" ELSE "writeComplete"
    BY <1>7 DEF Write, Then, Threw, linkVars
  <2>2. len # 0
    BY <1>7, <2>1 DEF PipeTypes
  <2>3. Post("tx")
    BY <1>7, <2>2 DEF Write
  <2>4. UNCHANGED fault /\ (ret'["tx"].kind = "throw" => ring'["tx"].handed = ring["tx"].handed)
    BY <2>3, PostEffect
  <2>5. ring'["rx"] = ring["rx"]
    BY <2>3, Others DEF CallStep, Still
  <2>6. Turn' = Turn
    BY <2>1, <2>5 DEF Turn
  <2>7. CASE at' = "exception"
    <3>1. ring'["tx"].handed = ring["tx"].handed
      BY <2>1, <2>4, <2>7
    <3> QED
      BY <2>1, <2>4, <2>5, <2>6, <2>7, <3>1, LinkFrame DEF Round
  <2>8. CASE at' = "writeComplete"
    <3>1. Got' = Got
      BY <2>5, <2>6 DEF Got
    <3>2. fault["rx"] = "none" => link = <<>> /\ ~ Got
      BY <1>7, <2>1 DEF LinkAt, Round
    <3> QED
      BY <2>1, <2>4, <2>8, <3>1, <3>2 DEF LinkAt, Round
  <2> QED
    BY <2>1, <2>7, <2>8
<1>8. ASSUME NEW ch \in Chan, InCall(ch) \/ TimeOut(ch), program = "memcpy"
      PROVE  LinkAt'
  <2>1. InCallKeeps
    BY <1>8, TxInCallAt, RxInCallAt, TimeOutAt
  <2>2. UNCHANGED <<copies, link, fed, mem>>
    BY <1>8 DEF InCall, TimeOut, linkVars, callVars
  <2>3. at' = at
    BY <1>8, <2>1 DEF InCallKeeps, PipeTypes
  <2> QED
    BY <2>1, <2>2, <2>3, LinkFrame DEF InCallKeeps
<1>9. CASE program = "pipe"
  <2>1. program' = "pipe"
    BY <1>9 DEF PipeNext, CopyAtOnce, CopyBegins, Read, Line, BadLine, LongLine, Write, WriteComplete, ReadComplete,
                Written, CopyReturns, PrintWords, InCall, TimeOut, Feed, Send, Receive, Arrive,
                Fault, pipeVars, callVars
  <2> QED
    BY <2>1 DEF LinkAt
<1>16. BadLine \/ LongLine => program = "pipe"
  BY DEF BadLine, LongLine, PipeTypes
<1>10. CASE Feed /\ program = "memcpy"
  <2>1. /\ Active("tx") /\ fed = ring["tx"].done /\ fed' = fed + 1 /\ link' = link \o Copied
        /\ UNCHANGED <<program, at, len, copies, mem, ring, fault, pc>>
    BY <1>10 DEF Feed, Copied, callVars, vars, hwVars
  <2>2. fed # ring["tx"].handed
    BY <1>1, <2>1 DEF Active
  <2>3. fed' = ring["tx"].handed
    BY <1>1, <2>1, <2>2 DEF FedAt, Active
  <2>4. Got' = Got
    BY <2>1 DEF Got, Turn
  <2>5. Copied' = Copied
    BY <2>1 DEF Copied
  <2>6. <<>> \o Copied = Copied
    BY CopiedType, ConcatEmptySeq
  <2>7. fault["rx"] = "none" => at \in Round /\ ~ Got /\ link = <<>>
    BY <1>10, <2>2 DEF LinkAt
  <2>8. fault["rx"] = "none" => link' = Copied
    BY <2>1, <2>6, <2>7
  <2> QED
    BY <2>1, <2>3, <2>4, <2>5, <2>7, <2>8 DEF LinkAt
<1>11. CASE Receive
  <2>1. /\ program = "memcpy" /\ len >= 1 /\ at \in Round /\ ~ Got
        /\ fed = ring["tx"].handed
        /\ HwComplete("rx", len = 1) /\ mem' = <<copies, 1>>
        /\ len = 1 => link' = <<>>
    BY <1>11, ReceiveHead
  <2>2. EngineActs("rx")
    BY <1>11, EngineActsAt
  <2>3. UNCHANGED <<at, len, program, copies, fed, pc>>
    BY <1>11 DEF Receive, callVars, HwComplete
  <2>4. ring'["tx"] = ring["tx"]
    BY <2>2, Others DEF EngineActs, EngineStep, Still
  <2>5. ring'["rx"].done = ring["rx"].done + 1 /\ ring'["rx"].taken = ring["rx"].taken
    <3>1. ring["rx"] \in Ring /\ ring'["rx"] = Complete(ring["rx"], len = 1)
      BY <2>1 DEF HwComplete, TypeOK
    <3> QED
      BY <3>1 DEF Complete, Ring
  <2>6. Waiting("rx") /\ Active("rx")
    BY <2>1, <2>2, <2>3, EngineAt DEF HwComplete
  <2>7. Turn = ring["rx"].taken
    BY <1>1, <2>6, ActiveWaits DEF PipeAt, RxCall, Turn
  <2>8. Turn' = Turn
    BY <2>3, <2>5 DEF Turn
  <2>9. Got'
    <3>1. ring["rx"].done = ring["rx"].taken
      BY <1>1, <2>6 DEF Waiting, Busy, Halted, Active
    <3> QED
      BY <1>1, <2>5, <2>7, <2>8, <3>1 DEF Got
  <2> QED
    BY <2>1, <2>3, <2>4, <2>9 DEF LinkAt
<1>12. CASE Send
  <2>1. HwComplete("tx", TRUE) /\ UNCHANGED <<at, len, program, copies, link, fed, mem, pc, fault>>
    BY <1>12 DEF Send, callVars, linkVars, HwComplete, hwVars
  <2>2. Still("rx")
    BY <1>12, <2>1, Others DEF EngineStep
  <2>3. ring'["tx"].handed = ring["tx"].handed
    <3>1. ring["tx"] \in Ring /\ ring'["tx"] = Complete(ring["tx"], TRUE)
      BY <2>1 DEF HwComplete, TypeOK
    <3> QED
      BY <3>1 DEF Complete, Ring
  <2>4. Turn' = Turn
    BY <2>1, <2>2 DEF Turn, Still
  <2> QED
    BY <2>1, <2>2, <2>3, <2>4, LinkFrame DEF Still
<1>13. CASE Fault
  <2>1. UNCHANGED <<at, len, program, copies, link, fed, mem>>
    BY <1>13 DEF Fault, pipeVars, callVars, linkVars
  <2>2. PICK ch \in Chan, kind \in Faults : HwFault(ch, kind, TRUE)
    BY <1>13, EngineActsAt
  <2>3. CASE ch = "rx"
    <3>1. fault'["rx"] = kind /\ kind # "none"
      <4>1. kind # "none"
        BY DmaAssumption
      <4> QED
        BY <2>2, <2>3, <4>1 DEF HwFault, TypeOK
    <3> QED
      BY <3>1 DEF LinkAt
  <2>4. CASE ch = "tx"
    <3>1. Still("rx") /\ pc' = pc
      BY <2>2, <2>4, Others DEF EngineStep, HwFault
    <3>2. ring'["tx"] \in {ring["tx"], Complete(ring["tx"], TRUE)}
      BY <2>2, <2>4 DEF HwFault, TypeOK
    <3>3. ring'["tx"].handed = ring["tx"].handed
      <4>1. ring["tx"] \in Ring
        BY DEF TypeOK
      <4> QED
        BY <3>2, <4>1 DEF Complete, Ring
    <3>4. Turn' = Turn
      BY <2>1, <3>1 DEF Turn, Still
    <3> QED
      BY <2>1, <3>1, <3>3, <3>4, LinkFrame DEF Still
  <2> QED
    BY <2>3, <2>4
<1>14. program = "pipe" \/ program = "memcpy"
  BY DEF PipeTypes
<1>15. Arrive \/ PrintWords => program = "pipe"
  BY DEF Arrive, PrintWords
<1> QED
  BY <1>2, <1>3, <1>4, <1>5, <1>6, <1>7, <1>8, <1>9, <1>10, <1>11, <1>12, <1>13, <1>14, <1>15,
     <1>16
     DEF PipeNext

(* ---- The outcome of memcpy() --------------------------------------------- *)

LEMMA ResultStep ==
  ASSUME ~ Relatch, TypeOK, RingInv, PipeTypes, PipeAt, NoOutcome, LinkAt, ResultAt, PipeNext, ~ gaveUp'
  PROVE  ResultAt'
<1> USE DEF Chan
<1>1. CASE CopyAtOnce \/ CopyBegins
  BY <1>1 DEF CopyAtOnce, CopyBegins, ResultAt
<1>2. CASE CopyReturns
  <2>1. /\ program = "memcpy" /\ at = "done" /\ pc["rx"] = "idle" /\ at' = "idle"
        /\ UNCHANGED <<copies, mem, len>>
    BY <1>2 DEF CopyReturns, linkVars
  <2>2. Quiet("rx") /\ len = 1
    BY <2>1 DEF PipeAt, RxCall
  <2>3. Got
    BY <2>1, <2>2, Counts DEF Got, Turn, Quiet
  <2>4. mem = <<copies, 1>>
    BY <2>1, <2>2, <2>3 DEF LinkAt, Quiet, Round
  <2> QED
    BY <2>1, <2>2, <2>4 DEF ResultAt
<1>3. CASE Written
  <2>1. at = "written" /\ (result' = "false" \/ result' = result)
    BY <1>3 DEF Written
  <2> QED
    BY <2>1 DEF ResultAt
<1>4. CASE Read \/ Line \/ BadLine \/ LongLine \/ Write \/ WriteComplete \/ ReadComplete \/ PrintWords
  <2>1. at # "idle" /\ result' = result
    BY <1>4 DEF Read, Line, BadLine, LongLine, Write, WriteComplete, ReadComplete, PrintWords
  <2> QED
    BY <2>1 DEF ResultAt
<1>5. ASSUME NEW ch \in Chan, InCall(ch) \/ TimeOut(ch)
      PROVE  ResultAt'
  <2>1. InCallKeeps
    BY <1>5, TxInCallAt, RxInCallAt, TimeOutAt
  <2>2. UNCHANGED <<copies, mem, result, len>>
    BY <1>5 DEF InCall, TimeOut, linkVars, callVars
  <2> QED
    BY <2>1, <2>2 DEF ResultAt, InCallKeeps
<1>6. CASE Feed \/ Send \/ Fault
  <2>1. UNCHANGED <<at, copies, mem, result, len>>
    BY <1>6 DEF Feed, Send, Fault, pipeVars, callVars, linkVars
  <2> QED
    BY <2>1 DEF ResultAt
<1>7. CASE Receive \/ Arrive
  <2>1. UNCHANGED <<at, len, program, result>> /\ EngineActs("rx")
    BY <1>7, EngineActsAt DEF Receive, Arrive, callVars
  <2>2. Waiting("rx") /\ Active("rx")
    BY <1>7, <2>1, EngineAt DEF Receive, Arrive, HwComplete
  <2>3. at # "idle"
    BY <2>2, ActiveWaits DEF PipeAt
  <2> QED
    BY <2>1, <2>3 DEF ResultAt
<1> QED
  BY <1>1, <1>2, <1>3, <1>4, <1>5, <1>6, <1>7 DEF PipeNext

-----------------------------------------------------------------------------
(* ---- The chunks of villas-fpga-pipe -------------------------------------- *)

(* No call counts a descriptor as received or sent; the engine does.       *)
LEMMA CallDone ==
  ASSUME TypeOK, NEW ch \in Chan, CallStep(ch), NEW c \in Chan
  PROVE  ring'[c].done = ring[c].done
<1>1. CASE c # ch
  BY <1>1, Others DEF Still
<1>2. CASE c = ch
  <2>1. ring[ch] \in Ring
    BY DEF TypeOK
  <2>2. \A r \in Ring : \A k \in Nat : /\ FromHw(r, k) \in Ring
                                       /\ FromHw(r, k).done = r.done /\ Free(r, k).done = r.done
    BY FromHwType DEF FromHw, Free, Ring
  <2>3. CASE Post(ch)
    BY <1>2, <2>3, PostEffect
  <2>4. CASE CompleteCall(ch) \/ NothingSent(ch) \/ WaitInterrupt(ch) \/ WaitTimeout(ch)
             \/ Lock(ch) \/ RxAck \/ RxNoIoc
    BY <1>2, <2>4 DEF CompleteCall, NothingSent, NoTransfer, WaitInterrupt, WaitTimeout, Lock, RxAck, RxNoIoc
  <2>5. CASE ch = "rx" /\ RxDrop
    <3>1. PICK k \in 0 .. N : ring' = [ring EXCEPT !["rx"] = FromHw(@, k)]
      BY <2>5 DEF RxDrop
    <3>2. ring'["rx"] = FromHw(ring["rx"], k)
      BY <3>1 DEF TypeOK, Chan
    <3>3. k \in Nat
      BY NAssumption
    <3> QED
      BY <1>2, <2>1, <2>2, <2>5, <3>2, <3>3
  <2>9. CASE ch = "rx" /\ RxDropFree
    <3>1. ring'["rx"] = ring["rx"] \/ ring'["rx"] = Free(ring["rx"], batch["rx"])
      BY <2>9 DEF RxDropFree, TypeOK, Chan
    <3>2. batch["rx"] \in Nat
      BY DEF TypeOK, Chan
    <3> QED
      BY <1>2, <2>1, <2>2, <2>9, <3>1, <3>2
  <2>6. CASE ch = "rx" /\ RxFetch
    <3>1. PICK k \in 0 .. Coalesce :
            \/ ring' = [ring EXCEPT !["rx"] = FromHw(ring["rx"], k)]
            \/ Finish("rx", FromHw(ring["rx"], k), k)
      BY <2>6 DEF RxFetch
    <3> DEFINE r == FromHw(ring["rx"], k)
    <3>2. ring'["rx"] = r \/ ring'["rx"] = Free(r, k)
      BY <3>1 DEF Finish, TypeOK, Chan
    <3>3. r \in Ring /\ r.done = ring["rx"].done /\ Free(r, k).done = r.done
      BY <2>1, <2>2, <2>6 DEF Coalesce
    <3> QED
      BY <1>2, <2>6, <3>2, <3>3
  <2>7. CASE ch = "tx" /\ TxFetch
    <3>1. PICK k \in 0 .. Coalesce : ring' = [ring EXCEPT !["tx"] = FromHw(@, k)]
      BY <2>7 DEF TxFetch
    <3>2. ring'["tx"] = FromHw(ring["tx"], k)
      BY <3>1 DEF TypeOK, Chan
    <3> QED
      BY <1>2, <2>1, <2>2, <2>7, <3>2 DEF Coalesce
  <2>8. CASE ch = "tx" /\ TxAck
    <3>1. ring'["tx"] = ring["tx"] \/ ring'["tx"] = Free(ring["tx"], batch["tx"])
      BY <2>8 DEF TxAck, Finish, TypeOK, Chan
    <3>2. batch["tx"] \in Nat
      BY DEF TypeOK, Chan
    <3> QED
      BY <1>2, <2>1, <2>2, <2>8, <3>1, <3>2
  <2> QED
    BY <2>3, <2>4, <2>5, <2>6, <2>7, <2>8, <2>9 DEF CallStep
<1> QED
  BY <1>1, <1>2

LEMMA EngineDone ==
  ASSUME TypeOK, NEW ch \in Chan, EngineStep(ch)
  PROVE  ring'["rx"].done = ring["rx"].done \/ ring'["rx"].done = ring["rx"].done + 1
<1>1. CASE ch = "tx"
  BY <1>1, Others DEF Still, Chan
<1>2. CASE ch = "rx"
  <2>1. PICK q \in {ring["rx"], Complete(ring["rx"], TRUE), Complete(ring["rx"], FALSE)} : ring'["rx"] = q
    BY <1>2 DEF EngineStep, HwComplete, HwFault, TypeOK, Chan
  <2>2. ring["rx"] \in Ring
    BY DEF TypeOK, Chan
  <2> QED
    BY <2>1, <2>2 DEF Complete, Ring
<1> QED
  BY <1>1, <1>2 DEF Chan

LEMMA DoneKept ==
  ASSUME TypeOK, PipeTypes, PipeNext
  PROVE  \/ ring'["rx"].done = ring["rx"].done
         \/ ring'["rx"].done = ring["rx"].done + 1 /\ UNCHANGED <<printed, gaveUp, overran>>
<1>1. CASE Send \/ Receive \/ Arrive \/ Fault
  <2>1. UNCHANGED <<printed, gaveUp, overran>>
    BY <1>1 DEF Send, Receive, Arrive, Fault, pipeVars, callVars
  <2>2. EngineStep("tx") \/ EngineStep("rx")
    <3>1. Send \/ Arrive \/ Fault => EngineStep("tx") \/ EngineStep("rx")
      BY DEF Send, Arrive, Fault, EngineStep, Chan
    <3>2. Receive => EngineStep("rx")
      <4>1. link \in Seq(Links) /\ (Receive => link # <<>> /\ HwComplete("rx", Head(link).last))
        BY DEF PipeTypes, Receive
      <4>2. Receive => Head(link) \in Links
        BY <4>1
      <4> QED
        BY <4>1, <4>2 DEF EngineStep, Links
    <3> QED
      BY <1>1, <3>1, <3>2
  <2> QED
    BY <2>1, <2>2, EngineDone DEF Chan
<1>2. CASE Read \/ Write \/ WriteComplete \/ ReadComplete \/ \E ch \in Chan : InCall(ch) \/ TimeOut(ch)
  <2>1. \E ch \in Chan : CallStep(ch)
    BY <1>2 DEF Read, Write, WriteComplete, ReadComplete, InCall, TimeOut, CallStep, NothingSent, Chan
  <2> QED
    BY <2>1, CallDone DEF Chan
<1>3. CASE CopyAtOnce \/ CopyBegins \/ Line \/ BadLine \/ LongLine \/ Written \/ CopyReturns \/ PrintWords \/ Feed
  BY <1>3 DEF CopyAtOnce, CopyBegins, Line, BadLine, LongLine, Written, CopyReturns, PrintWords, Feed, vars
<1> QED
  BY <1>1, <1>2, <1>3 DEF PipeNext

(* The block holds a chunk that was received, nothing yet, or what an      *)
(* overrun left in it.                                                     *)
MemAt ==
  /\ printed \in Seq(Nat)
  /\ program = "pipe" => mem = <<>> \/ \E k \in 0 .. ring["rx"].done : mem = <<k>>

LEMMA PrintedWords ==
  ASSUME TypeOK, MemAt, PrintWords
  PROVE  /\ printed' \in Seq(Nat) /\ UNCHANGED <<ring, mem, gaveUp, overran>>
         /\ \/ printed' = printed
            \/ \E k \in 0 .. ring["rx"].done : mem = <<k>> /\ printed' = Append(printed, k)
<1>1. /\ program = "pipe" /\ UNCHANGED <<ring, mem, gaveUp, overran>>
      /\ printed' = printed \/ printed' = printed \o mem
  BY DEF PrintWords, vars, linkVars
<1>2. printed \in Seq(Nat)
  BY DEF MemAt
<1>3. ring["rx"].done \in Nat
  BY Counts DEF Chan
<1>4. CASE mem = <<>>
  <2>1. printed \o <<>> = printed
    BY <1>2, ConcatEmptySeq
  <2> QED
    BY <1>1, <1>2, <1>4, <2>1
<1>5. ASSUME NEW k \in 0 .. ring["rx"].done, mem = <<k>>
      PROVE  printed \o mem = Append(printed, k) /\ Append(printed, k) \in Seq(Nat)
  <2>1. k \in Nat
    BY <1>3
  <2> QED
    BY <1>2, <1>5, <2>1
<1> QED
  BY <1>1, <1>2, <1>4, <1>5 DEF MemAt

LEMMA MemStep ==
  ASSUME TypeOK, PipeTypes, MemAt, PipeNext
  PROVE  MemAt'
<1>1. ring["rx"].done \in Nat
  BY Counts DEF Chan
<1>2. ring'["rx"].done = ring["rx"].done \/ ring'["rx"].done = ring["rx"].done + 1
  BY DoneKept
<1>3. PICK d \in Nat, e \in Nat : d = ring["rx"].done /\ e = ring'["rx"].done /\ d <= e
  BY <1>1, <1>2
<1>4. CASE PrintWords
  BY <1>4, PrintedWords DEF MemAt, PrintWords
<1>5. CASE Arrive
  <2>1. ring["rx"] \in Ring /\ ring'["rx"] = Complete(ring["rx"], TRUE)
    BY <1>5 DEF Arrive, HwComplete, TypeOK, Chan
  <2>2. ring'["rx"].done = ring["rx"].done + 1
    BY <2>1 DEF Complete, Ring
  <2>3. mem' = <<e>> /\ e \in 0 .. e /\ printed' = printed
    BY <1>3, <1>5, <2>2 DEF Arrive, callVars
  <2> QED
    BY <1>3, <2>3 DEF MemAt
<1>6. CASE Receive
  <2>1. program # "pipe" /\ UNCHANGED <<program, printed>>
    BY <1>6 DEF Receive, PipeTypes, callVars
  <2> QED
    BY <2>1 DEF MemAt
<1>7. CASE UNCHANGED <<printed, mem, program>>
  <2>1. printed \in Seq(Nat) /\ (program = "pipe" => mem = <<>> \/ \E k \in 0 .. d : mem = <<k>>)
    BY <1>3 DEF MemAt
  <2>2. program = "pipe" => mem = <<>> \/ \E k \in 0 .. e : mem = <<k>>
    BY <1>3, <2>1
  <2> QED
    BY <1>3, <1>7, <2>1, <2>2 DEF MemAt
<1>8. CASE LongLine
  <2>1. printed' = printed /\ program' = program /\ mem' \in {mem, <<0>>} /\ 0 \in 0 .. e
    BY <1>3, <1>8 DEF LongLine
  <2>2. printed \in Seq(Nat) /\ (program = "pipe" => mem = <<>> \/ \E k \in 0 .. d : mem = <<k>>)
    BY <1>3 DEF MemAt
  <2>3. (\E k \in 0 .. d : mem = <<k>>) => \E k \in 0 .. e : mem = <<k>>
    BY <1>3
  <2> QED
    BY <1>3, <2>1, <2>2, <2>3 DEF MemAt
<1> QED
  BY <1>4, <1>5, <1>6, <1>7, <1>8 DEF PipeNext, CopyAtOnce, CopyBegins, Read, Line, BadLine, Write,
     WriteComplete, ReadComplete, Written, CopyReturns, InCall, TimeOut, Feed, Send, Fault,
     pipeVars, callVars, linkVars

LEMMA PrintFrame ==
  ASSUME PrintAt, UNCHANGED <<program, printed, overran, mem>>, fault'["rx"] = fault["rx"],
         ring'["rx"].done = ring["rx"].done, Turn' = Turn
  PROVE  PrintAt'
BY DEF PrintAt

LEMMA PrintStep ==
  ASSUME ~ Relatch, TypeOK, RingInv, PipeTypes, PipeAt, NoOutcome, LinkAt, MemAt, PrintAt, PipeNext,
         ~ gaveUp'
  PROVE  PrintAt'
<1> USE DEF Chan
<1>1. ring["rx"].done \in Nat /\ ring["rx"].taken \in Nat /\ ring["rx"].handed \in Nat
  BY Counts
<1>2. CASE CopyAtOnce \/ CopyBegins \/ CopyReturns \/ Receive
  <2>1. program # "pipe" /\ program' = program
    BY <1>2 DEF CopyAtOnce, CopyBegins, CopyReturns, Receive, PipeTypes, callVars
  <2> QED
    BY <2>1 DEF PrintAt
<1>3. CASE Line \/ BadLine \/ Feed
  <2>1. UNCHANGED <<program, printed, overran, mem, ring, fault, pc>> /\ (at = "done" <=> at' = "done")
    BY <1>3 DEF Line, BadLine, Feed, vars, hwVars, callVars, linkVars
  <2> QED
    BY <2>1, PrintFrame DEF Turn
<1>4. CASE Written
  <2>1. UNCHANGED <<program, printed, overran, mem, ring, fault, pc>> /\ at # "done" /\ at' # "done"
    BY <1>4, WrittenGoesOn DEF Written, vars, hwVars, linkVars
  <2> QED
    BY <2>1, PrintFrame DEF Turn
<1>5. CASE WriteComplete \/ ReadComplete
  <2>1. /\ at # "done" /\ (at' = "done" => pc'["rx"] # "idle")
        /\ UNCHANGED <<program, printed, overran, mem, ring, fault>>
    BY <1>5 DEF WriteComplete, ReadComplete, CompleteCall, linkVars, hwVars, TypeOK
  <2> QED
    BY <2>1, PrintFrame DEF Turn
<1>6. CASE Read
  <2>1. /\ at = "read" /\ at' \in {"exception", "line", "write"} /\ Post("rx")
        /\ UNCHANGED <<program, printed, overran, mem>>
    BY <1>6 DEF Read, Then, linkVars
  <2>2. UNCHANGED fault /\ ring'["rx"].done = ring["rx"].done /\ ring'["rx"].taken = ring["rx"].taken
    BY <2>1, PostEffect
  <2> QED
    BY <2>1, <2>2, PrintFrame DEF Turn
<1>7. CASE Write
  <2>1. /\ at = "write" /\ UNCHANGED <<program, printed, overran, mem>>
        /\ at' \in {"exception", "writeComplete"} /\ CallStep("tx")
    BY <1>7 DEF Write, Then, linkVars, CallStep, NothingSent
  <2>2. Still("rx")
    BY <2>1, Others
  <2> QED
    BY <2>1, <2>2, PrintFrame DEF Turn, Still
<1>8. ASSUME NEW ch \in Chan, InCall(ch) \/ TimeOut(ch)
      PROVE  PrintAt'
  <2>1. InCallKeeps
    BY <1>8, TxInCallAt, RxInCallAt, TimeOutAt
  <2>2. UNCHANGED <<printed, overran, mem>>
    BY <1>8 DEF InCall, TimeOut, linkVars, callVars
  <2> QED
    BY <2>1, <2>2, PrintFrame DEF InCallKeeps
<1>9. CASE PrintWords
  <2>1. /\ program = "pipe" /\ at = "done" /\ pc["rx"] = "idle" /\ at' = "read"
        /\ UNCHANGED <<program, ring, fault>>
    BY <1>9 DEF PrintWords, vars, hwVars
  <2>2. Quiet("rx") /\ ret["rx"].bds = 1
    BY <2>1 DEF PipeAt, RxCall
  <2>3. Len(printed) = ring["rx"].taken - 1 /\ ring["rx"].done = ring["rx"].taken
    BY <2>1, <2>2 DEF PrintAt, Turn, Quiet
  <2>4. PICK k \in 0 .. ring["rx"].done : mem = <<k>>
    BY <1>1, <2>1, <2>2, <2>3 DEF PrintAt, Quiet
  <2>5. k \in Nat
    BY <1>1
  <2>6. printed' = printed \o <<k>> /\ printed \in Seq(Nat)
    BY <1>9, <2>2, <2>4 DEF PrintWords, MemAt
  <2>7. Len(printed') = Len(printed) + 1
    BY <2>5, <2>6
  <2>8. Turn' = ring["rx"].taken
    BY <2>1 DEF Turn
  <2> QED
    BY <1>1, <2>1, <2>3, <2>7, <2>8 DEF PrintAt
<1>10. CASE Arrive
  <2>1. UNCHANGED <<at, len, program, printed, pc, fault>> /\ EngineActs("rx")
        /\ HwComplete("rx", TRUE) /\ mem' = <<ring["rx"].done + 1>>
    BY <1>10, EngineActsAt DEF Arrive, callVars, HwComplete, hwVars
  <2>2. ring'["rx"].done = ring["rx"].done + 1 /\ ring'["rx"].taken = ring["rx"].taken
    <3>1. ring["rx"] \in Ring /\ ring'["rx"] = Complete(ring["rx"], TRUE)
      BY <2>1 DEF HwComplete, TypeOK
    <3> QED
      BY <3>1 DEF Complete, Ring
  <2>3. ring'["rx"].done \in 0 .. ring'["rx"].done /\ mem' = <<ring'["rx"].done>>
    BY <1>1, <2>1, <2>2
  <2> QED
    BY <2>1, <2>2, <2>3 DEF PrintAt, Turn
<1>13. CASE LongLine
  <2>1. /\ UNCHANGED <<program, printed, ring, fault, pc>> /\ at # "done" /\ at' # "done"
        /\ overran' /\ mem' \in {mem, <<0>>}
    BY <1>13 DEF LongLine, vars, hwVars
  <2>2. Turn' = Turn
    BY <2>1 DEF Turn
  <2>3. 0 \in 0 .. ring["rx"].done
    BY <1>1
  <2> QED
    BY <2>1, <2>2, <2>3 DEF PrintAt
<1>11. CASE Send
  <2>1. HwComplete("tx", TRUE) /\ UNCHANGED <<at, program, printed, overran, mem, pc, fault>>
    BY <1>11 DEF Send, callVars, linkVars, HwComplete, hwVars
  <2>2. Still("rx")
    BY <2>1, Others DEF EngineStep
  <2> QED
    BY <2>1, <2>2, PrintFrame DEF Turn, Still
<1>12. CASE Fault
  <2>1. UNCHANGED <<at, program, printed, overran, mem>>
    BY <1>12 DEF Fault, pipeVars, callVars, linkVars
  <2>2. PICK ch \in Chan, kind \in Faults : HwFault(ch, kind, TRUE)
    BY <1>12, EngineActsAt
  <2>3. CASE ch = "rx"
    <3>1. kind # "none"
      BY DmaAssumption
    <3> QED
      BY <2>2, <2>3, <3>1 DEF HwFault, TypeOK, PrintAt
  <2>4. CASE ch = "tx"
    <3>1. Still("rx")
      BY <2>2, <2>4, Others DEF EngineStep
    <3> QED
      BY <2>1, <3>1, PrintFrame DEF Turn, Still
  <2> QED
    BY <2>3, <2>4
<1> QED
  BY <1>2, <1>3, <1>4, <1>5, <1>6, <1>7, <1>8, <1>9, <1>10, <1>11, <1>12, <1>13 DEF PipeNext

-----------------------------------------------------------------------------
(* ---- What the four calls promise ----------------------------------------- *)

InOrder == PipeAt /\ NoOutcome /\ FedAt /\ LinkAt /\ ResultAt /\ PrintAt

PipeInv == MemAt /\ (~ gaveUp => InOrder)

LEMMA PipeInvStart == PipeInit => PipeInv
<1> SUFFICES ASSUME PipeInit PROVE PipeInv
  OBVIOUS
<1> USE DEF Chan
<1>1. /\ \A ch \in Chan : /\ ring[ch] = EmptyRing /\ pc[ch] = "idle" /\ irq[ch] = 0
                          /\ ioc[ch] = FALSE /\ fault[ch] = "none"
      /\ at \in {"idle", "read"}
  BY DEF PipeInit, Init
<1>2. MemAt
  <2>1. printed = <<>> /\ mem = <<>> /\ <<>> \in Seq(Nat)
    BY DEF PipeInit
  <2> QED
    BY <2>1 DEF MemAt
<1>3. Quiet("tx") /\ Quiet("rx")
  BY <1>1 DEF Quiet, EmptyRing
<1>4. PipeAt /\ NoOutcome
  BY <1>1, <1>3 DEF PipeAt, NoOutcome, BetweenCalls
<1>5. FedAt
  BY <1>1 DEF FedAt, PipeInit, EmptyRing
<1>6. LinkAt
  BY <1>1 DEF LinkAt, PipeInit, EmptyRing, Got, Turn, Round
<1>7. ResultAt
  BY DEF ResultAt, PipeInit
<1>8. PrintAt
  BY <1>1 DEF PrintAt, PipeInit, EmptyRing, Turn
<1> QED
  BY <1>2, <1>4, <1>5, <1>6, <1>7, <1>8 DEF PipeInv, InOrder

LEMMA PipeInvStep ==
  ASSUME ~ Relatch, TypeOK, RingInv, PipeTypes, PipeInv, [PipeNext]_allVars
  PROVE  PipeInv'
<1>1. CASE PipeNext
  <2>1. MemAt'
    BY <1>1, MemStep DEF PipeInv
  <2>2. ~ gaveUp' => ~ gaveUp
    <3>1. ASSUME NEW ch \in Chan, TimeOut(ch) PROVE gaveUp => gaveUp'
      BY <3>1, Zenon DEF TimeOut
    <3>2. CASE gaveUp' = gaveUp
      BY <3>2
    <3> QED
      BY <1>1, <3>1, <3>2 DEF PipeNext, CopyAtOnce, CopyBegins, Read, Line, BadLine, LongLine, Write, WriteComplete,
         ReadComplete, Written, CopyReturns, PrintWords, InCall, Feed, Send, Receive, Arrive, Fault,
         pipeVars
  <2>3. ASSUME ~ gaveUp' PROVE InOrder'
    <3>1. InOrder
      BY <2>2, <2>3 DEF PipeInv
    <3> QED
      BY <1>1, <2>3, <3>1, AtStep, FedStep, LinkStep, ResultStep, PrintStep DEF InOrder, PipeInv
  <2> QED
    BY <2>1, <2>3 DEF PipeInv
<1>2. CASE UNCHANGED allVars
  <2> USE DEF allVars, vars, hwVars, pipeVars, callVars, linkVars
  <2>1. Still("tx") /\ Still("rx") /\ UNCHANGED <<len, program>>
    BY <1>2 DEF Still
  <2>2. /\ Quiet("tx") => Quiet("tx")'
        /\ Quiet("rx") => Quiet("rx")'
        /\ Waiting("tx") => Waiting("tx")'
        /\ Waiting("rx") => Waiting("rx")'
        /\ TxCall => TxCall'
        /\ RxCall => RxCall'
    BY <2>1, Frames DEF Chan
  <2>3. PipeAt => PipeAt'
    <3>1. UNCHANGED <<at, len, pc>>
      BY <1>2
    <3> QED
      BY <2>2, <3>1 DEF PipeAt, BetweenCalls
  <2>4. NoOutcome' = NoOutcome /\ FedAt' = FedAt /\ MemAt' = MemAt /\ ResultAt' = ResultAt
    BY <1>2 DEF NoOutcome, FedAt, MemAt, ResultAt
  <2>5. LinkAt' = LinkAt /\ PrintAt' = PrintAt
    BY <1>2 DEF LinkAt, Got, Turn, Copied, PrintAt
  <2> QED
    BY <1>2, <2>3, <2>4, <2>5 DEF PipeInv, InOrder
<1> QED
  BY <1>1, <1>2

PipeFacts == TypeOK /\ RingInv /\ PipeTypes /\ PipeInv

LEMMA PipeInvariance ==
  ASSUME ~ Relatch
  PROVE  PipeSpec => []PipeFacts
<1>1. TypeOK /\ RingInv /\ PipeTypes /\ PipeInv /\ [PipeNext]_allVars => PipeInv'
  BY PipeInvStep
<1>2. TypeOK /\ RingInv /\ PipeTypes /\ PipeInv => PipeFacts
  BY DEF PipeFacts
<1> QED
  BY <1>1, <1>2, PipeInvStart, CopierIsClient, PipeTypesHold, TypeCorrect, RingsSound, PTL DEF
     PipeSpec

(* A transfer that completed always announces itself to the thread while   *)
(* at most one descriptor per direction is in flight, which the order      *)
(* read(), write(), writeComplete(), readComplete() sees to.               *)
THEOREM CompletionsAnnounced ==
  ASSUME ~ Relatch
  PROVE  PipeSpec => []NothingStranded
<1>1. ASSUME PipeFacts, NEW ch \in Chan, ~ gaveUp, len <= 1, fault[ch] # "marked",
             ring[ch].done > ring[ch].taken
      PROVE  irq[ch] > 0 \/ pc[ch] \in {"lock", "fetch"} \/ (ch = "rx" /\ pc[ch] = "ack")
  <2>1. PipeAt /\ len \in Nat
    BY <1>1 DEF PipeFacts, PipeInv, InOrder, PipeTypes
  <2>2. ring[ch].done \in Nat /\ ring[ch].taken \in Nat /\ ring[ch].handed \in Nat
    BY <1>1, Counts DEF PipeFacts
  <2>3. ~ Quiet(ch) /\ (ch = "tx" => ~ TakenBack)
    BY <1>1, <2>2 DEF Quiet, TakenBack
  <2>4. Waiting(ch) => irq[ch] > 0
    <3>1. CASE Busy(ch)
      BY <1>1, <2>2, <3>1 DEF Busy
    <3>2. CASE Halted(ch)
      BY <1>1, <2>1, <2>2, <3>2 DEF Halted
    <3> QED
      BY <3>1, <3>2 DEF Waiting
  <2> QED
    BY <2>1, <2>3, <2>4 DEF PipeAt, TxCall, RxCall, Chan
<1>2. PipeFacts => NothingStranded
  BY <1>1 DEF NothingStranded
<1> QED
  BY <1>2, PipeInvariance, PTL

(* memcpy() returns true only if the words were copied, while no wait for  *)
(* a transfer has given up.                                                *)
THEOREM CopiesAreHonest ==
  ASSUME ~ Relatch
  PROVE  PipeSpec => []CopyHonest
<1>1. PipeFacts => CopyHonest
  BY DEF PipeFacts, PipeInv, InOrder, ResultAt, CopyHonest
<1> QED
  BY <1>1, PipeInvariance, PTL

LEMMA PipeStreamStep ==
  ASSUME PipeFacts, PipeNext
  PROVE  [PipeStream!Next]_(PipeStream!svars)
<1>1. TypeOK /\ PipeTypes /\ MemAt /\ (~ gaveUp => PipeAt /\ PrintAt)
  BY DEF PipeFacts, PipeInv, InOrder
<1>2. CASE PrintWords
  <2>1. printed' \in Seq(Nat) /\ UNCHANGED <<ring, mem, gaveUp, overran>>
    BY <1>1, <1>2, PrintedWords
  <2>2. CASE printed' = printed
    BY <2>1, <2>2 DEF PipeStream!svars
  <2>3. ASSUME NEW k \in 0 .. ring["rx"].done, mem = <<k>>, printed' = Append(printed, k)
        PROVE  PipeStream!Next
    <3>1. ring["rx"].done \in Nat
      BY <1>1, Counts DEF Chan
    <3>2. CASE gaveUp \/ overran
      <4>1. k \in 0 .. ring["rx"].done
        BY <3>1
      <4> QED
        BY <2>1, <2>3, <3>2, <4>1 DEF PipeStream!Next, PipeStream!LeaveAnything
    <3>3. CASE ~ (gaveUp \/ overran)
      <4>1. program = "pipe" /\ at = "done" /\ pc["rx"] = "idle"
        BY <1>2 DEF PrintWords
      <4>2. Quiet("rx")
        BY <1>1, <3>3, <4>1 DEF PipeAt, RxCall
      <4>3. Len(printed) = ring["rx"].done - 1 /\ mem = <<ring["rx"].done>>
        BY <1>1, <3>1, <3>3, <4>1, <4>2 DEF PrintAt, Turn, Quiet
      <4>4. k = ring["rx"].done
        BY <2>3, <4>3
      <4>5. k = Len(printed) + 1 /\ Len(printed) < ring["rx"].done
        BY <3>1, <4>3, <4>4
      <4> QED
        BY <2>1, <2>3, <4>5 DEF PipeStream!Next, PipeStream!Leave
    <3> QED
      BY <1>1, <3>2, <3>3 DEF PipeTypes
  <2> QED
    BY <1>1, <1>2, <2>2, <2>3, PrintedWords
<1>3. ASSUME NEW ch \in Chan, TimeOut(ch)
      PROVE  [PipeStream!Next]_(PipeStream!svars)
  <2>1. UNCHANGED <<printed, overran, ring>>
    BY <1>3 DEF TimeOut, WaitTimeout, callVars
  <2>2. gaveUp' = TRUE \/ gaveUp' = gaveUp
    <3>1. gaveUp' = (gaveUp \/ ring[ch].handed > ring[ch].taken)
      BY <1>3 DEF TimeOut
    <3>2. CASE ring[ch].handed > ring[ch].taken
      BY <3>1, <3>2, Zenon
    <3>3. CASE ~ (ring[ch].handed > ring[ch].taken)
      BY <1>1, <3>1, <3>3, Zenon DEF PipeTypes
    <3> QED
      BY <3>2, <3>3, Zenon
  <2> QED
    BY <2>1, <2>2 DEF PipeStream!Next, PipeStream!GiveUp, PipeStream!svars
<1>5. CASE LongLine
  <2>1. UNCHANGED <<printed, ring>> /\ overran' = TRUE
    BY <1>5 DEF LongLine, vars
  <2> QED
    BY <2>1 DEF PipeStream!Next, PipeStream!GiveUp
<1>4. CASE PipeNext /\ ~ LongLine /\ ~ PrintWords /\ ~ \E ch \in Chan : TimeOut(ch)
  <2>1. UNCHANGED <<printed, gaveUp, overran>>
    BY <1>4 DEF PipeNext, CopyAtOnce, CopyBegins, Read, Line, BadLine, Write, WriteComplete, ReadComplete,
                Written, CopyReturns, InCall, Feed, Send, Receive, Arrive, Fault, pipeVars, callVars
  <2> QED
    BY <1>1, <2>1, DoneKept DEF PipeStream!Next, PipeStream!Enter, PipeStream!svars
<1> QED
  BY <1>2, <1>3, <1>4, <1>5

(* villas-fpga-pipe prints the chunks that the engine received, once each  *)
(* and in order, until a wait gave up on one that was still to come.       *)
THEOREM PipeKeepsStream ==
  ASSUME ~ Relatch
  PROVE  PipeSpec => ImplementsPipeStream
<1>1. PipeInit => PipeStream!Init
  BY DEF PipeInit, Init, PipeStream!Init, EmptyRing, Chan
<1>2. UNCHANGED allVars => UNCHANGED PipeStream!svars
  BY DEF allVars, vars, pipeVars, callVars, PipeStream!svars
<1>3. PipeFacts /\ [PipeNext]_allVars => [PipeStream!Next]_(PipeStream!svars)
  BY <1>2, PipeStreamStep
<1> QED
  BY <1>1, <1>3, PipeInvariance, PTL DEF PipeSpec, ImplementsPipeStream, PipeStream!Spec
=============================================================================
