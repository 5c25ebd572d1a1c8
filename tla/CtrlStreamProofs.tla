--------------------------- MODULE CtrlStreamProofs ---------------------------
(***************************************************************************)
(* Theorems about CtrlStream, for every ring size, every number of chunks  *)
(* and lines, and every choice of words that are too wide.                 *)
(***************************************************************************)
EXTENDS CtrlStream, DmaSgProofs

USE CtrlAssumption

-----------------------------------------------------------------------------
(* ---- The threads are clients of the Dma ---------------------------------- *)

(* A step of the engine, or of a call on one direction                     *)
NothingSent(ch) == \E kind \in {"true", "false"} : NoTransfer(ch, kind)

DmaStep(ch) ==
  \/ NothingSent(ch) \/ Post(ch) \/ CompleteCall(ch)
  \/ WaitInterrupt(ch) \/ WaitTimeout(ch) \/ Lock(ch)
  \/ ch = "rx" /\ (RxDrop \/ RxDropFree \/ RxAck \/ RxNoIoc \/ RxFetch)
  \/ ch = "tx" /\ (TxFetch \/ TxAck)
  \/ HwComplete(ch, TRUE)

LEMMA CtrlSteps ==
  ASSUME CtrlNext
  PROVE  (\E ch \in Chan : DmaStep(ch)) \/ UNCHANGED vars
<1>1. ReadFirst \/ ReadNext => DmaStep("rx")
  BY DEF ReadFirst, ReadNext, Read, DmaStep
<1>2. ReadComplete => DmaStep("rx")
  BY DEF ReadComplete, DmaStep
<1>3. EmptyLine \/ Write \/ WriteComplete => DmaStep("tx")
  BY DEF EmptyLine, Write, WriteComplete, NothingSent, DmaStep
<1>4. \A ch \in Chan : InCall(ch) \/ TimeOut(ch) => DmaStep(ch)
  BY DEF InCall, TimeOut, DmaStep
<1>5. (Receive => DmaStep("rx")) /\ (Send => DmaStep("tx"))
  BY DEF Receive, Send, DmaStep
<1>6. PrintChunk \/ Numbers \/ BadLine => UNCHANGED vars
  BY DEF PrintChunk, Numbers, BadLine
<1>7. LongLine => DmaStep("tx") \/ UNCHANGED vars
  BY DEF LongLine, NothingSent, DmaStep
<1> QED
  BY <1>1, <1>2, <1>3, <1>4, <1>5, <1>6, <1>7 DEF CtrlNext, Chan

LEMMA DmaStepIsNext ==
  ASSUME NEW ch \in Chan, DmaStep(ch)
  PROVE  Next
<1>1. CASE HwComplete(ch, TRUE)
  BY <1>1 DEF Next, Hardware, Chan
<1>2. CASE NothingSent(ch)
  <2>1. \E kind \in {"true", "false", "throw"} : NoTransfer(ch, kind)
    BY <1>2 DEF NothingSent
  <2> QED
    BY <2>1 DEF Next, Thread
<1>3. CASE ~ HwComplete(ch, TRUE) /\ ~ NothingSent(ch)
  BY <1>3 DEF DmaStep, Next, Thread
<1> QED
  BY <1>1, <1>2, <1>3

(* readFromDmaToStdOut() and writeToDmaFromStdIn() use the Dma as any      *)
(* client may: what was proved of it holds while they run.                 *)
THEOREM ThreadsAreClients == CtrlSpec => Spec
<1>1. CtrlInit => Init
  BY DEF CtrlInit
<1>2. [CtrlNext]_<<vars, ctrlVars>> => [Next]_vars
  BY CtrlSteps, DmaStepIsNext
<1> QED
  BY <1>1, <1>2, PTL DEF CtrlSpec, Spec

DmaInv == TypeOK /\ RingInv /\ SignalInv

LEMMA DmaInvariance ==
  ASSUME ~ Relatch
  PROVE  CtrlSpec => []DmaInv
<1>1. TypeOK /\ RingInv /\ SignalInv /\ [Next]_vars => SignalInv'
  BY SignalStep
<1>2. TypeOK /\ RingInv /\ SignalInv => DmaInv
  BY DEF DmaInv
<1> QED
  BY <1>1, <1>2, SignalInit, TypeCorrect, RingsSound, ThreadsAreClients, PTL DEF Spec

-----------------------------------------------------------------------------
(* ---- What the calls do to a direction ------------------------------------ *)

(* A call, or a descriptor that completes, leaves the other direction.     *)
LEMMA OtherChan ==
  ASSUME TypeOK, NEW ch \in Chan, DmaStep(ch), NEW c \in Chan, c # ch
  PROVE  /\ ring'[c] = ring[c] /\ ioc'[c] = ioc[c] /\ irq'[c] = irq[c]
         /\ pc'[c] = pc[c] /\ ret'[c] = ret[c]
<1> USE DEF TypeOK, Return, Leave, hwVars, PostFrame
<1>1. CASE NothingSent(ch) \/ CompleteCall(ch) \/ WaitInterrupt(ch) \/ WaitTimeout(ch)
           \/ Lock(ch)
  BY <1>1 DEF NothingSent, NoTransfer, CompleteCall, WaitInterrupt, WaitTimeout, Lock
<1>2. CASE Post(ch)
  BY <1>2 DEF Post, PostRingFull, PostMisaligned, PostOk, PostRejected
<1>3. CASE HwComplete(ch, TRUE)
  BY <1>3 DEF HwComplete, Raise
<1>4. CASE ch = "rx" /\ (RxAck \/ RxNoIoc)
  BY <1>4 DEF RxAck, RxNoIoc
<1>5. CASE ch = "rx" /\ (RxDrop \/ RxDropFree)
  BY <1>5 DEF RxDrop, RxDropFree
<1>6. CASE ch = "rx" /\ RxFetch
  BY <1>6 DEF RxFetch, Finish
<1>7. CASE ch = "tx" /\ TxFetch
  BY <1>7 DEF TxFetch
<1>8. CASE ch = "tx" /\ TxAck
  BY <1>8 DEF TxAck, Finish
<1> QED
  BY <1>1, <1>2, <1>3, <1>4, <1>5, <1>6, <1>7, <1>8 DEF DmaStep

(* Nobody resets the engine, nothing stops it, no call leaves a descriptor *)
(* in the pre group, and a received descriptor is a whole frame.           *)
NoTrouble ==
  /\ running
  /\ \A ch \in Chan : fault[ch] = "none" /\ ring[ch].alloc = ring[ch].handed
  /\ TxWhole(ring["rx"])

(* write() and read() throw only if the ring is full.                      *)
LEMMA PostEffect ==
  ASSUME TypeOK, NoTrouble, NEW ch \in Chan, Post(ch)
  PROVE  /\ pc[ch] = "idle" /\ UNCHANGED <<ioc, irq, hwVars, pc>>
         /\ \/ /\ ~ CanAlloc(ring[ch], 1) /\ UNCHANGED ring /\ ret'[ch] = Plain("throw")
            \/ /\ CanAlloc(ring[ch], 1)
               /\ ring' = [ring EXCEPT ![ch] = ToHw(Alloc(@, 1), 1)]
               /\ ret'[ch] = Plain("true")
<1> USE DEF Return, PostFrame, MayPost
<1>1. CASE PostRingFull(ch)
  BY <1>1 DEF PostRingFull, TypeOK
<1>2. CASE PostOk(ch)
  BY <1>2 DEF PostOk, TypeOK
<1>3. ~ PostMisaligned(ch)
  BY DEF PostMisaligned
<1>4. ~ PostRejected(ch)
  <2>1. ring[ch] \in Ring /\ ring[ch].alloc = ring[ch].handed
    BY DEF TypeOK, NoTrouble
  <2>2. CanToHw(Alloc(ring[ch], 1), 1, ring[ch].alloc + 1)
    BY <2>1 DEF CanToHw, Alloc, Ring
  <2> QED
    BY <2>2 DEF PostRejected
<1> QED
  BY <1>1, <1>2, <1>3, <1>4 DEF Post

LEMMA ToHwEffect ==
  ASSUME NEW r \in Ring
  PROVE  LET q == ToHw(Alloc(r, 1), 1)
         IN  /\ q.alloc = r.alloc + 1 /\ q.handed = r.handed + 1
             /\ q.done = r.done /\ q.taken = r.taken /\ q.freed = r.freed
BY DEF Ring, ToHw, Alloc

LEMMA CompleteEffect ==
  ASSUME NEW r \in Ring, NEW last \in BOOLEAN
  PROVE  LET q == Complete(r, last)
         IN  /\ q.alloc = r.alloc /\ q.handed = r.handed
             /\ q.done = r.done + 1 /\ q.taken = r.taken /\ q.freed = r.freed
BY DEF Ring, Complete

LEMMA FromHwEffect ==
  ASSUME NEW r \in Ring, NEW k \in Nat
  PROVE  LET q == FromHw(r, k)
         IN  /\ q.alloc = r.alloc /\ q.handed = r.handed
             /\ q.done = r.done /\ q.taken = r.taken + k /\ q.freed = r.freed
BY DEF Ring, FromHw

LEMMA FreeEffect ==
  ASSUME NEW r \in Ring, NEW k \in Nat
  PROVE  LET q == Free(r, k)
         IN  /\ q.alloc = r.alloc /\ q.handed = r.handed
             /\ q.done = r.done /\ q.taken = r.taken /\ q.freed = r.freed + k
BY DEF Ring, Free

LEMMA TroubleFreeRing ==
  ASSUME TypeOK, NoTrouble, NEW ch \in Chan, NEW q, q.alloc = q.handed,
         ch = "rx" => TxWhole(q), ring' = [ring EXCEPT ![ch] = q], UNCHANGED <<running, fault>>
  PROVE  NoTrouble'
<1>1. ring'[ch] = q /\ \A c \in Chan \ {ch} : ring'[c] = ring[c]
  BY DEF TypeOK
<1> QED
  BY <1>1 DEF NoTrouble, Chan

(* What a completion call makes of the ring                                *)
LEMMA TakenBack ==
  ASSUME TypeOK, NoTrouble, NEW ch \in Chan, NEW k \in Nat, NEW j \in Nat, NEW r, r = FromHw(ring[ch], k)
  PROVE  /\ r.alloc = r.handed /\ (ch = "rx" => TxWhole(r))
         /\ Free(r, j).alloc = Free(r, j).handed
         /\ (ch = "rx" /\ CanFree(r, j) => TxWhole(Free(r, j)))
<1>1. ring[ch] \in Ring /\ r \in Ring /\ ring[ch].alloc = ring[ch].handed
  BY FromHwType DEF TypeOK, NoTrouble
<1>2. r.alloc = r.handed /\ Free(r, j).alloc = Free(r, j).handed
  BY <1>1, FromHwEffect, FreeEffect
<1>3. ch = "rx" => TxWhole(r)
  BY <1>1, TxWholeKept DEF NoTrouble
<1> QED
  BY <1>1, <1>2, <1>3, TxWholeKept

LEMMA TroubleFree ==
  ASSUME TypeOK, NoTrouble, NEW ch \in Chan, DmaStep(ch)
  PROVE  NoTrouble'
<1> USE DEF hwVars
<1>1. CASE UNCHANGED <<ring, running, fault>>
  BY <1>1 DEF NoTrouble
<1>2. CASE NothingSent(ch) \/ CompleteCall(ch) \/ WaitInterrupt(ch) \/ WaitTimeout(ch)
           \/ Lock(ch) \/ RxAck \/ RxNoIoc
  BY <1>1, <1>2 DEF NothingSent, NoTransfer, CompleteCall, WaitInterrupt, WaitTimeout, Lock,
     RxAck, RxNoIoc
<1>3. CASE Post(ch)
  <2>1. CASE UNCHANGED ring
    BY <1>1, <1>3, <2>1, PostEffect
  <2>2. CASE ring' = [ring EXCEPT ![ch] = ToHw(Alloc(@, 1), 1)]
    <3> DEFINE q == ToHw(Alloc(ring[ch], 1), 1)
    <3>1. ring[ch] \in Ring
      BY DEF TypeOK
    <3>2. q.alloc = q.handed
      BY <3>1, ToHwEffect DEF NoTrouble
    <3>3. ch = "rx" => TxWhole(q)
      BY <3>1, 0 \in Nat, TxWholeKept DEF NoTrouble
    <3>4. UNCHANGED <<running, fault>>
      BY <1>3, PostEffect
    <3>5. ring' = [ring EXCEPT ![ch] = q]
      BY <2>2
    <3> HIDE DEF q
    <3> QED
      BY <3>2, <3>3, <3>4, <3>5, TroubleFreeRing
  <2> QED
    BY <1>3, <2>1, <2>2, PostEffect
<1>4. CASE HwComplete(ch, TRUE)
  <2> DEFINE q == Complete(ring[ch], TRUE)
  <2>1. ring[ch] \in Ring
    BY DEF TypeOK
  <2>2. q.alloc = q.handed
    BY <2>1, CompleteEffect, ZenonT(60) DEF NoTrouble
  <2>3. ch = "rx" => TxWhole(q)
    BY <2>1, 0 \in Nat, TxWholeKept DEF NoTrouble
  <2>4. ring' = [ring EXCEPT ![ch] = q] /\ UNCHANGED <<running, fault>>
    BY <1>4 DEF HwComplete
  <2> HIDE DEF q
  <2> QED
    BY <2>2, <2>3, <2>4, TroubleFreeRing
<1>8. CASE RxDropFree
  <2>1. /\ ring["rx"] \in Ring /\ batch["rx"] \in Nat /\ TxWhole(ring["rx"])
        /\ ring["rx"].alloc = ring["rx"].handed
    BY DEF TypeOK, NoTrouble, Chan
  <2>2. PICK b \in Nat : b = batch["rx"]
    BY <2>1
  <2>3. UNCHANGED <<running, fault>>
    BY <1>8 DEF RxDropFree
  <2>4. CASE UNCHANGED ring
    BY <1>1, <2>3, <2>4
  <2>5. CASE CanFree(ring["rx"], b) /\ ring' = [ring EXCEPT !["rx"] = Free(ring["rx"], b)]
    <3>1. PICK q : q = Free(ring["rx"], b)
      OBVIOUS
    <3>2. q.alloc = q.handed
      BY <2>1, <3>1, FreeEffect
    <3>3. TxWhole(q)
      BY <2>1, <2>5, <3>1, TxWholeKept
    <3> QED
      BY <2>3, <2>5, <3>1, <3>2, <3>3, TroubleFreeRing DEF Chan
  <2>6. UNCHANGED ring \/ (CanFree(ring["rx"], b) /\ ring' = [ring EXCEPT !["rx"] = Free(ring["rx"], b)])
    BY <1>8, <2>2 DEF RxDropFree, TypeOK, Chan
  <2> QED
    BY <2>4, <2>5, <2>6
<1>5. CASE RxDrop \/ RxFetch
  <2>1. PICK k \in Nat :
          \/ ring' = [ring EXCEPT !["rx"] = FromHw(ring["rx"], k)]
          \/ /\ CanFree(FromHw(ring["rx"], k), k)
             /\ ring' = [ring EXCEPT !["rx"] = Free(FromHw(ring["rx"], k), k)]
    <3>1. CASE RxDrop
      <4>1. PICK k \in 0 .. N : ring' = [ring EXCEPT !["rx"] = FromHw(@, k)]
        BY <3>1 DEF RxDrop
      <4>2. k \in Nat
        OBVIOUS
      <4> QED
        BY <4>1, <4>2
    <3>2. CASE RxFetch
      <4>1. PICK k \in 0 .. Coalesce :
              \/ ring' = [ring EXCEPT !["rx"] = FromHw(ring["rx"], k)]
              \/ Finish("rx", FromHw(ring["rx"], k), k)
        BY <3>2 DEF RxFetch
      <4>2. k \in Nat /\ (k > 0 \/ k = 0)
        BY DEF Coalesce
      <4> QED
        BY <4>1, <4>2 DEF Finish
    <3> QED
      BY <1>5, <3>1, <3>2
  <2> DEFINE r == FromHw(ring["rx"], k)
  <2>2. /\ r.alloc = r.handed /\ TxWhole(r)
        /\ Free(r, k).alloc = Free(r, k).handed
        /\ (CanFree(r, k) => TxWhole(Free(r, k)))
    BY TakenBack DEF Chan
  <2>3. UNCHANGED <<running, fault>>
    BY <1>5 DEF RxDrop, RxFetch
  <2> HIDE DEF r
  <2>4. CASE ring' = [ring EXCEPT !["rx"] = r]
    BY <2>2, <2>3, <2>4, TroubleFreeRing DEF Chan
  <2>5. CASE ring' = [ring EXCEPT !["rx"] = Free(r, k)] /\ CanFree(r, k)
    BY <2>2, <2>3, <2>5, TroubleFreeRing DEF Chan
  <2> QED
    BY <2>1, <2>4, <2>5 DEF r
<1>6. CASE ch = "tx" /\ TxFetch
  <2>1. PICK k \in 0 .. Coalesce : ring' = [ring EXCEPT !["tx"] = FromHw(ring["tx"], k)]
    BY <1>6 DEF TxFetch
  <2>2. FromHw(ring["tx"], k).alloc = FromHw(ring["tx"], k).handed
    BY TakenBack DEF Chan, Coalesce
  <2>3. UNCHANGED <<running, fault>>
    BY <1>6 DEF TxFetch
  <2> QED
    BY <2>1, <2>2, <2>3, TroubleFreeRing DEF Chan
<1>7. CASE ch = "tx" /\ TxAck
  <2>1. /\ ring["tx"] \in Ring /\ batch["tx"] \in Nat
        /\ ring["tx"].alloc = ring["tx"].handed
    BY DEF TypeOK, NoTrouble, Chan
  <2>2. PICK q \in {ring["tx"], Free(ring["tx"], batch["tx"])} : ring' = [ring EXCEPT !["tx"] = q]
    BY <1>7 DEF TxAck, Finish
  <2>3. q.alloc = q.handed
    BY <2>1, <2>2, FreeEffect
  <2>4. UNCHANGED <<running, fault>>
    BY <1>7 DEF TxAck
  <2> QED
    BY <2>2, <2>3, <2>4, TroubleFreeRing DEF Chan
<1> QED
  BY <1>2, <1>3, <1>4, <1>5, <1>6, <1>7, <1>8 DEF DmaStep

(* How far a direction has got                                             *)
SameGroups(q, r) == q.handed = r.handed /\ q.done = r.done /\ q.taken = r.taken

(* readComplete() takes back a descriptor that completed, and reports it.  *)
LEMMA RxFetchEffect ==
  ASSUME TypeOK, RingInv, NoTrouble, RxFetch, ring["rx"].done > ring["rx"].taken
  PROVE  /\ ring'["rx"].handed = ring["rx"].handed /\ ring'["rx"].done = ring["rx"].done
         /\ ring'["rx"].taken = ring["rx"].taken + 1
         /\ ret'["rx"].kind = "comp" /\ ret'["rx"].bds = 1
         /\ pc["rx"] = "fetch" /\ pc'["rx"] = "idle" /\ UNCHANGED <<ioc, irq>>
<1>1. /\ ring["rx"] \in Ring /\ ring["rx"].taken \in Nat /\ ring["rx"].done \in Nat
      /\ ring["rx"].freed \in Nat /\ TxWhole(ring["rx"]) /\ fault["rx"] = "none"
      /\ ring["rx"].taken = ring["rx"].freed
  BY DEF TypeOK, Chan, Ring, NoTrouble, RingInv, NothingHeldBack, InHand, RxFetch
<1>2. PICK k \in 0 .. Coalesce :
        /\ IsFromHw(ring["rx"], Coalesce, k)
        /\ \/ k < Coalesce
           \/ Finish("rx", FromHw(ring["rx"], k), k)
  BY DEF RxFetch
<1>3. k = 1
  <2>1. Whole(ring["rx"], 1)
    BY <1>1 DEF Whole, TxWhole
  <2>2. CASE k = 0
    <3>1. 1 \in k + 1 .. Coalesce /\ 1 <= ring["rx"].done - ring["rx"].taken
      BY <1>1, <2>2 DEF Coalesce
    <3> QED
      BY <1>2, <2>1, <3>1 DEF IsFromHw
  <2> QED
    BY <2>2 DEF Coalesce
<1>4. Finish("rx", FromHw(ring["rx"], 1), 1)
  BY <1>2, <1>3 DEF Coalesce
<1> DEFINE r == FromHw(ring["rx"], 1)
<1>5. /\ r \in Ring /\ r.handed = ring["rx"].handed /\ r.done = ring["rx"].done
      /\ r.taken = ring["rx"].taken + 1 /\ r.freed = ring["rx"].freed
  BY <1>1, FromHwType, FromHwEffect
<1> HIDE DEF r
<1>6. ~ BadStatus("rx", r) /\ CanFree(r, 1)
  BY <1>1, <1>5 DEF BadStatus, CanFree
<1>7. ring' = [ring EXCEPT !["rx"] = Free(r, 1)] /\ ret' = [ret EXCEPT !["rx"] = Completion(1, intrs["rx"])]
  BY <1>4, <1>6 DEF Finish, Return, r
<1>8. ring'["rx"] = Free(r, 1) /\ ret'["rx"] = Completion(1, intrs["rx"])
  BY <1>7 DEF TypeOK, Chan
<1>9. /\ Free(r, 1).handed = r.handed /\ Free(r, 1).done = r.done
      /\ Free(r, 1).taken = r.taken
  BY <1>5, FreeEffect
<1>10. pc["rx"] = "fetch" /\ pc'["rx"] = "idle" /\ UNCHANGED <<ioc, irq>>
  BY DEF RxFetch, Leave, TypeOK, Chan
<1>11. Completion(1, intrs["rx"]).kind = "comp" /\ Completion(1, intrs["rx"]).bds = 1
  BY DEF Completion
<1> QED
  BY <1>5, <1>8, <1>9, <1>10, <1>11

(* writeComplete() takes back a descriptor if one completed; it throws     *)
(* only if none did.                                                       *)
LEMMA TxFetchEffect ==
  ASSUME TypeOK, RingInv, TxSignal, TxFetch
  PROVE  /\ ring'["tx"].handed = ring["tx"].handed /\ ring'["tx"].done = ring["tx"].done
         /\ \/ /\ ring["tx"].done > ring["tx"].taken
               /\ ring'["tx"].taken = ring["tx"].taken + 1
               /\ pc'["tx"] = "ack" /\ UNCHANGED ret
            \/ /\ ring["tx"].done = ring["tx"].taken
               /\ ring'["tx"].taken = ring["tx"].taken
               /\ pc'["tx"] = "idle" \/ (pc'["tx"] = "ack" /\ UNCHANGED ret)
         /\ pc["tx"] = "fetch" /\ UNCHANGED <<ioc, irq>>
<1>1. ring["tx"] \in Ring /\ ring["tx"].taken \in Nat /\ ring["tx"].done \in Nat
  BY DEF TypeOK, Chan, Ring
<1>2. PICK k \in 0 .. Coalesce :
        /\ IsFromHw(ring["tx"], Coalesce, k)
        /\ ring' = [ring EXCEPT !["tx"] = FromHw(ring["tx"], k)]
        /\ \/ k < Coalesce /\ Leave("tx")
           \/ pc' = [pc EXCEPT !["tx"] = "ack"] /\ UNCHANGED ret
  BY DEF TxFetch
<1>3. /\ ring'["tx"].handed = ring["tx"].handed /\ ring'["tx"].done = ring["tx"].done
      /\ ring'["tx"].taken = ring["tx"].taken + k
  <2>1. ring'["tx"] = FromHw(ring["tx"], k)
    BY <1>2 DEF TypeOK, Chan
  <2> QED
    BY <1>1, <2>1, FromHwEffect DEF Coalesce
<1>4. pc["tx"] = "fetch" /\ UNCHANGED <<ioc, irq>>
  BY DEF TxFetch
<1>5. CASE k = 0
  <2>1. ring["tx"].done = ring["tx"].taken
    BY <1>2, <1>5, TxPartialMeansNone DEF RingInv, Coalesce
  <2>2. pc'["tx"] = "idle" \/ (pc'["tx"] = "ack" /\ UNCHANGED ret)
    BY <1>2 DEF Leave, TypeOK, Chan
  <2> QED
    BY <1>1, <1>3, <1>4, <1>5, <2>1, <2>2
<1>6. CASE k = 1
  <2>1. ring["tx"].done > ring["tx"].taken
    BY <1>1, <1>2, <1>6 DEF IsFromHw
  <2>2. pc'["tx"] = "ack" /\ UNCHANGED ret
    BY <1>2, <1>6 DEF Coalesce, TypeOK, Chan
  <2> QED
    BY <1>3, <1>4, <1>6, <2>1, <2>2
<1> QED
  BY <1>5, <1>6 DEF Coalesce

LEMMA TxAckEffect ==
  ASSUME TypeOK, RingInv, NoTrouble, TxAck
  PROVE  /\ SameGroups(ring'["tx"], ring["tx"])
         /\ ret'["tx"].kind = "comp"
         /\ pc["tx"] = "ack" /\ pc'["tx"] = "idle"
         /\ ioc'["tx"] = FALSE /\ irq' = irq
<1>1. /\ ring["tx"] \in Ring /\ batch["tx"] \in Nat /\ fault["tx"] = "none" /\ pc["tx"] = "ack"
  BY DEF TypeOK, Chan, NoTrouble, TxAck
<1>2. CanFree(ring["tx"], batch["tx"]) /\ ~ BadStatus("tx", ring["tx"])
  BY <1>1 DEF RingInv, NothingHeldBack, InHand, CanFree, Chan, BadStatus
<1>3. PICK q \in {ring["tx"], Free(ring["tx"], batch["tx"])} :
        /\ ring' = [ring EXCEPT !["tx"] = q]
        /\ ret' = [ret EXCEPT !["tx"] = Completion(batch["tx"], intrs["tx"])]
  BY <1>2 DEF TxAck, Finish, Return
<1>4. SameGroups(q, ring["tx"])
  BY <1>1, <1>3, FreeEffect DEF SameGroups
<1>5. ring'["tx"] = q /\ ret'["tx"] = Completion(batch["tx"], intrs["tx"])
  BY <1>3 DEF TypeOK, Chan
<1>6. Completion(batch["tx"], intrs["tx"]).kind = "comp"
  BY DEF Completion
<1>7. pc'["tx"] = "idle" /\ ioc'["tx"] = FALSE /\ irq' = irq
  BY DEF TxAck, Leave, TypeOK, Chan
<1> QED
  BY <1>1, <1>4, <1>5, <1>6, <1>7

(* The engine completes a descriptor it was handed.                        *)
LEMMA HwEffect ==
  ASSUME TypeOK, NEW ch \in Chan, HwComplete(ch, TRUE)
  PROVE  /\ ring[ch].done < ring[ch].handed
         /\ ring'[ch].handed = ring[ch].handed /\ ring'[ch].done = ring[ch].done + 1
         /\ ring'[ch].taken = ring[ch].taken
         /\ ioc'[ch] = TRUE
         /\ irq'[ch] = (IF ioc[ch] THEN irq[ch] ELSE IF polling THEN 1 ELSE irq[ch] + 1)
         /\ UNCHANGED <<pc, ret>>
<1>1. ring[ch] \in Ring
  BY DEF TypeOK
<1>2. ring'[ch] = Complete(ring[ch], TRUE)
  BY DEF HwComplete, TypeOK
<1>3. /\ ring[ch].done < ring[ch].handed
      /\ ioc'[ch] = TRUE
      /\ irq'[ch] = (IF ioc[ch] THEN irq[ch] ELSE IF polling THEN 1 ELSE irq[ch] + 1)
      /\ UNCHANGED <<pc, ret>>
  BY DEF HwComplete, Active, Raise, TypeOK
<1>4. /\ ring'[ch].handed = ring[ch].handed /\ ring'[ch].done = ring[ch].done + 1
      /\ ring'[ch].taken = ring[ch].taken
  <2> PICK q : q = ring[ch]
    OBVIOUS
  <2>1. /\ Complete(q, TRUE).handed = q.handed /\ Complete(q, TRUE).done = q.done + 1
        /\ Complete(q, TRUE).taken = q.taken
    BY <1>1, <1>3, CompleteEffect
  <2> QED
    BY <1>2, <2>1
<1> QED
  BY <1>3, <1>4

-----------------------------------------------------------------------------
(* ---- The invariant ------------------------------------------------------- *)

CtrlTypes ==
  /\ alive \in BOOLEAN
  /\ reader \in {"prime", "read", "complete", "print"}
  /\ writer \in {"line", "write", "complete", "threw"}
  /\ cur \in Block
  /\ addr \in Seq(Block) /\ Len(addr) = ring["rx"].handed
  /\ mem \in [Block -> 0 .. ring["rx"].done]
  /\ out \in Seq(Nat) /\ sent \in Seq(Nat)
  /\ currentBufLoc \in Nat
  /\ shown \in 0 .. Len(out)
  /\ lines \in Nat /\ block \in 0 .. lines
  /\ waited \in [Chan -> {"none", "idle", "late"}]
  /\ overran \in BOOLEAN

HeldAreWide ==
  alive => /\ currentBufLoc = Len(out) - shown
           /\ \A k \in shown + 1 .. Len(out) : out[k] \in wide

(* The calls that threw                                                    *)
Deaths ==
  /\ ThrowsAfterTimeouts
  /\ alive => \A ch \in Chan : ret[ch].kind # "throw"

Late(ch) == waited[ch] = "late"

(* Chunk n is the next to be printed, and where the reader is tells which  *)
(* descriptors have been handed over and taken back.                       *)
ReaderAt(n) ==
  /\ pc["rx"] # "idle" => reader = "print"
  /\ ring["rx"].taken = IF reader = "print" /\ pc["rx"] = "idle" THEN n ELSE n - 1
  /\ ring["rx"].handed = IF reader = "prime" THEN n - 1 ELSE IF reader = "read" THEN n ELSE n + 1
  /\ reader # "prime" => addr[n] = cur
  /\ reader = "prime" => cur = 0
  /\ reader \in {"complete", "print"} => addr[n + 1] # cur

(* What has arrived is in the blocks and has not been printed, unless the  *)
(* writer overran its block.                                               *)
Arrived(n) ==
  /\ reader = "print" /\ pc["rx"] = "idle" => ret["rx"].bds = 1
  /\ \/ overran
     \/ /\ n <= ring["rx"].done => mem[cur] = n
        /\ n < ring["rx"].done => mem[NextBlock] = n + 1
        /\ \A k \in 1 .. Len(out) : out[k] = k

(* Each interrupt stands for a descriptor that was not taken back yet.     *)
Woken ==
  /\ pc["rx"] \notin {"drop", "free"}
  /\ pc["rx"] \in {"idle", "wait"} /\ irq["rx"] > 0 => ring["rx"].done > ring["rx"].taken
  /\ pc["rx"] \in {"lock", "ack", "fetch"} => ring["rx"].done > ring["rx"].taken
  /\ pc["rx"] = "fetch" /\ irq["rx"] > 0 => ring["rx"].done > ring["rx"].taken + 1

RxInOrder == ~ Late("rx") => ReaderAt(Len(out) + 1) /\ Arrived(Len(out) + 1) /\ Woken

(* Nothing is in flight; the line in the block is; the call is about to    *)
(* take it back.                                                           *)
Quiet ==
  /\ ring["tx"].handed = ring["tx"].done /\ ring["tx"].done = ring["tx"].taken
  /\ irq["tx"] = 0 /\ ~ ioc["tx"]

Busy ==
  /\ ring["tx"].handed = ring["tx"].taken + 1
  /\ \/ ring["tx"].done = ring["tx"].taken /\ irq["tx"] = 0 /\ ~ ioc["tx"]
     \/ ring["tx"].done = ring["tx"].handed /\ irq["tx"] = 1 /\ ioc["tx"]

Noticed ==
  /\ ring["tx"].handed = ring["tx"].taken + 1 /\ ring["tx"].done = ring["tx"].handed
  /\ irq["tx"] = 0 /\ ioc["tx"]

WriterAt ==
  \/ pc["tx"] = "idle" /\ Quiet
  \/ pc["tx"] = "idle" /\ writer = "complete" /\ Busy
  \/ pc["tx"] = "wait" /\ (Quiet \/ Busy)
  \/ pc["tx"] \in {"lock", "fetch"} /\ Quiet /\ waited["tx"] = "idle"
  \/ pc["tx"] \in {"lock", "fetch"} /\ Noticed
  \/ /\ pc["tx"] = "ack"
     /\ ring["tx"].handed = ring["tx"].done /\ ring["tx"].done = ring["tx"].taken
     /\ irq["tx"] = 0

TxInOrder ==
  ~ Late("tx") =>
    /\ Len(sent) = ring["tx"].done
    /\ \A k \in 1 .. Len(sent) : sent[k] = k
    /\ ring["tx"].done < lines => block = lines
    /\ lines = ring["tx"].handed + (IF writer = "write" THEN 1 ELSE 0)
    /\ pc["tx"] # "idle" => writer = "line"
    /\ WriterAt

CtrlInv == CtrlTypes /\ NoTrouble /\ HeldAreWide /\ Deaths /\ RxInOrder /\ TxInOrder

(* The counters of a direction                                             *)
LEMMA Groups ==
  ASSUME DmaInv, NEW ch \in Chan
  PROVE  /\ ring[ch] \in Ring
         /\ ring[ch].handed \in Nat /\ ring[ch].done \in Nat /\ ring[ch].taken \in Nat
         /\ ring[ch].freed \in Nat /\ ring[ch].alloc \in Nat
         /\ ring[ch].taken <= ring[ch].done /\ ring[ch].done <= ring[ch].handed
         /\ irq[ch] \in Nat /\ ioc[ch] \in BOOLEAN
BY DEF DmaInv, TypeOK, RingInv, RingsOrdered, Ordered, Ring

-----------------------------------------------------------------------------
(* ---- The reader ---------------------------------------------------------- *)

LEMMA RxFrame ==
  ASSUME RxInOrder, SameGroups(ring'["rx"], ring["rx"]), pc'["rx"] = pc["rx"],
         irq'["rx"] = irq["rx"], ret'["rx"] = ret["rx"], UNCHANGED <<reader, cur, addr, mem, out, overran>>,
         waited'["rx"] = waited["rx"]
  PROVE  RxInOrder'
BY DEF RxInOrder, SameGroups, ReaderAt, Arrived, Woken, Late, NextBlock

LEMMA OtherBlock ==
  ASSUME cur \in Block
  PROVE  NextBlock \in Block /\ NextBlock # cur /\ \A b \in Block : b = cur \/ b = NextBlock
BY DEF Block, NextBlock

LEMMA RxReadStep ==
  ASSUME DmaInv, CtrlInv, ReadFirst \/ ReadNext
  PROVE  RxInOrder' /\ (~ Late("rx") => ret'["rx"].kind # "throw")
<1> SUFFICES ASSUME ~ Late("rx")
             PROVE  RxInOrder' /\ ret'["rx"].kind # "throw"
  BY DEF RxInOrder, Late, ReadFirst, ReadNext, Read
<1> DEFINE n == Len(out) + 1
<1>1. ReaderAt(n) /\ Arrived(n) /\ Woken /\ n \in Nat \ {0}
  BY DEF CtrlInv, RxInOrder, CtrlTypes
<1>2. PICK b \in Block :
        /\ Read(b)
        /\ \/ reader = "prime" /\ reader' = "read" /\ b = 0
           \/ reader = "read" /\ reader' = "complete" /\ b = NextBlock
  BY DEF ReadFirst, ReadNext, NextBlock, Block, CtrlInv, CtrlTypes
<1>3. Post("rx") /\ pc["rx"] = "idle" /\ UNCHANGED <<irq, pc>>
  BY <1>2, PostEffect DEF Read, DmaInv, CtrlInv, Chan
<1> HIDE DEF n
<1>4. CanAlloc(ring["rx"], 1)
  <2>1. ring["rx"].alloc = ring["rx"].handed /\ ring["rx"].freed = ring["rx"].taken
    <3>1. fault["rx"] = "none" /\ ring["rx"].alloc = ring["rx"].handed
      BY DEF CtrlInv, NoTrouble, Chan
    <3>2. \/ ring["rx"].taken = ring["rx"].freed + 0
          \/ fault["rx"] = "marked"
      BY <1>3 DEF DmaInv, RingInv, NothingHeldBack, InHand, Chan
    <3> QED
      BY <3>1, <3>2, Groups DEF Chan
  <2>2. ring["rx"].taken = n - 1 /\ (ring["rx"].handed = n - 1 \/ ring["rx"].handed = n)
    BY <1>1, <1>2, <1>3 DEF ReaderAt
  <2>3. N >= 2 /\ N \in Nat
    BY NAssumption DEF Coalesce
  <2> QED
    BY <1>1, <2>1, <2>2, <2>3 DEF CanAlloc, FreeCnt
<1>5. ring' = [ring EXCEPT !["rx"] = ToHw(Alloc(@, 1), 1)] /\ ret'["rx"] = Plain("true")
  BY <1>3, <1>4, PostEffect DEF DmaInv, CtrlInv, Chan
<1>6. ret'["rx"].kind # "throw"
  BY <1>5 DEF Plain
<1>7. /\ ring'["rx"].handed = ring["rx"].handed + 1
      /\ ring'["rx"].done = ring["rx"].done /\ ring'["rx"].taken = ring["rx"].taken
  BY <1>5, Groups, ToHwEffect DEF DmaInv, TypeOK, Chan
<1>8. addr' = Append(addr, b) /\ UNCHANGED <<cur, mem, out, overran, waited>>
  BY <1>2, <1>6 DEF Read, Threw, writerVars
<1>9. /\ addr'[ring["rx"].handed + 1] = b
      /\ \A k \in 1 .. ring["rx"].handed : addr'[k] = addr[k]
  <2>1. addr \in Seq(Block) /\ Len(addr) = ring["rx"].handed
    BY DEF CtrlInv, CtrlTypes
  <2> QED
    BY <1>8, <2>1, SMTT(60)
<1>10. b = 0 \/ b # cur
  BY <1>2, OtherBlock DEF CtrlInv, CtrlTypes
<1>11. ReaderAt(n)'
  <2>1. CASE reader = "prime" /\ reader' = "read" /\ b = 0
    <3>1. n' = n
      BY <1>8 DEF n
    <3>2. ring["rx"].handed = n - 1 /\ cur = 0 /\ (n - 1) + 1 = n
      BY <1>1, <2>1 DEF ReaderAt
    <3>3. addr'[n] = cur /\ ring'["rx"].handed = n
      BY <1>7, <1>9, <2>1, <3>2
    <3> QED
      BY <1>1, <1>3, <1>7, <1>8, <2>1, <3>1, <3>3 DEF ReaderAt
  <2>2. CASE reader = "read" /\ reader' = "complete" /\ b = NextBlock
    <3>1. b # cur
      BY <2>2, OtherBlock DEF CtrlInv, CtrlTypes
    <3>2. n' = n
      BY <1>8 DEF n
    <3>3. ring["rx"].handed = n /\ addr[n] = cur
      BY <1>1, <2>2 DEF ReaderAt
    <3>4. addr'[n + 1] = b /\ addr'[n] = cur /\ ring'["rx"].handed = n + 1
      BY <1>1, <1>7, <1>9, <3>3
    <3> QED
      BY <1>1, <1>3, <1>7, <1>8, <2>2, <3>1, <3>2, <3>4 DEF ReaderAt
  <2> QED
    BY <1>2, <2>1, <2>2
<1>12. Arrived(n)'
  BY <1>1, <1>2, <1>3, <1>7, <1>8 DEF Arrived, NextBlock, n
<1>13. Woken'
  BY <1>1, <1>3, <1>7 DEF Woken
<1> QED
  BY <1>6, <1>11, <1>12, <1>13 DEF RxInOrder, n

LEMMA RxCompleteStep ==
  ASSUME DmaInv, CtrlInv, ReadComplete
  PROVE  RxInOrder' /\ ret'["rx"].kind # "throw"
<1>1. /\ pc["rx"] = "idle" /\ pc'["rx"] = "wait" /\ ret'["rx"] = Plain("none")
      /\ reader = "complete" /\ reader' = "print"
      /\ UNCHANGED <<ring, irq, cur, addr, mem, out, overran, waited>>
  BY DEF ReadComplete, writerVars, CompleteCall, Return, DmaInv, TypeOK, Chan
<1> QED
  BY <1>1 DEF CtrlInv, RxInOrder, ReaderAt, Arrived, Woken, Late, NextBlock, Plain

LEMMA RxPrintStep ==
  ASSUME DmaInv, CtrlInv, PrintChunk
  PROVE  RxInOrder'
<1> SUFFICES ASSUME ~ Late("rx")
             PROVE  RxInOrder'
  BY DEF RxInOrder, Late, PrintChunk
<1>1. PICK n \in Nat \ {0} : n = Len(out) + 1
  BY DEF CtrlInv, CtrlTypes
<1>2. ReaderAt(n) /\ Arrived(n) /\ Woken
  BY <1>1 DEF CtrlInv, RxInOrder
<1>3. /\ reader = "print" /\ reader' = "read" /\ pc["rx"] = "idle" /\ cur' = NextBlock
      /\ UNCHANGED <<vars, addr, mem, overran, waited>>
  BY DEF PrintChunk, writerVars
<1>4. ring["rx"].taken = n /\ ring["rx"].handed = n + 1 /\ addr[n + 1] # cur
      /\ n <= ring["rx"].done /\ ret["rx"].bds = 1
  BY <1>2, <1>3, Groups DEF ReaderAt, Arrived, Chan
<1>5. PICK x \in Nat : x = mem[cur] /\ out' = out \o <<x>>
  <2>1. mem[cur] \in Nat
    BY DEF CtrlInv, CtrlTypes
  <2>2. Words = <<mem[cur]>>
    BY <1>4 DEF Words
  <2> QED
    BY <2>1, <2>2 DEF PrintChunk, Output
<1>6. /\ Len(out') = n
      /\ overran \/ \A k \in 1 .. n : out'[k] = k
  <2>1. out \in Seq(Nat)
    BY DEF CtrlInv, CtrlTypes
  <2>2. Len(out') = n /\ out'[n] = x /\ \A k \in 1 .. Len(out) : out'[k] = out[k]
    BY <1>1, <1>5, <2>1
  <2>3. overran \/ (x = n /\ \A k \in 1 .. Len(out) : out[k] = k)
    BY <1>2, <1>4, <1>5 DEF Arrived
  <2>4. ASSUME ~ overran, NEW k \in 1 .. n
        PROVE  out'[k] = k
    <3>1. k \in 1 .. Len(out) \/ k = n
      BY <1>1, <2>1
    <3> QED
      BY <2>2, <2>3, <2>4, <3>1
  <2> QED
    BY <2>2, <2>4
<1>7. addr[n + 1] = NextBlock
  <2>1. addr[n + 1] \in Block
    <3>1. addr \in Seq(Block) /\ Len(addr) = n + 1
      BY <1>4 DEF CtrlInv, CtrlTypes
    <3> QED
      BY <1>1, <3>1
  <2> QED
    BY <1>4, <2>1, OtherBlock DEF CtrlInv, CtrlTypes
<1>8. ReaderAt(n + 1)'
  BY <1>1, <1>3, <1>4, <1>7 DEF ReaderAt, vars
<1>9. Arrived(n + 1)'
  <2>1. ~ overran /\ n + 1 <= ring["rx"].done => mem[NextBlock] = n + 1
    BY <1>1, <1>2, Groups, SMTT(60) DEF Arrived, Chan
  <2>2. ring["rx"].done <= n + 1 /\ ring["rx"].done \in Nat
    BY <1>4, Groups DEF Chan
  <2> QED
    BY <1>1, <1>3, <1>6, <2>1, <2>2 DEF Arrived, vars
<1>10. Woken'
  BY <1>2, <1>3 DEF Woken, vars
<1> QED
  BY <1>1, <1>6, <1>8, <1>9, <1>10 DEF RxInOrder

(* Chunk n or the one after it arrives.                                    *)
LEMMA RxReceiveStep ==
  ASSUME DmaInv, CtrlInv, Receive
  PROVE  RxInOrder'
<1> SUFFICES ASSUME ~ Late("rx")
             PROVE  RxInOrder'
  BY DEF RxInOrder, Late, Receive
<1>1. PICK n \in Nat \ {0} : n = Len(out) + 1
  BY DEF CtrlInv, CtrlTypes
<1>2. ReaderAt(n) /\ Arrived(n) /\ Woken
  BY <1>1 DEF CtrlInv, RxInOrder
<1> DEFINE d == ring["rx"].done
           p == d + 1
<1>3. /\ d < ring["rx"].handed
      /\ ring'["rx"].handed = ring["rx"].handed /\ ring'["rx"].done = p
      /\ ring'["rx"].taken = ring["rx"].taken
      /\ irq'["rx"] = (IF ioc["rx"] THEN irq["rx"] ELSE IF polling THEN 1 ELSE irq["rx"] + 1)
      /\ UNCHANGED <<pc, ret>>
  BY HwEffect DEF Receive, DmaInv, Chan
<1>4. /\ mem' = [mem EXCEPT ![addr[p]] = p]
      /\ UNCHANGED <<reader, cur, addr, out, overran, waited>>
  BY DEF Receive, writerVars
<1>5. PICK h \in Nat, t \in Nat, e \in Nat :
        h = ring["rx"].handed /\ t = ring["rx"].taken /\ e = d /\ t <= e
  BY Groups DEF Chan
<1>6. reader # "prime" /\ ring["rx"].handed <= n + 1 /\ n - 1 <= ring["rx"].taken
  <2>1. reader \in {"prime", "read", "complete", "print"}
    BY DEF CtrlInv, CtrlTypes
  <2>2. /\ t = n \/ (t = n - 1)
        /\ reader = "prime" => t = n - 1 /\ h = n - 1
        /\ reader # "prime" => h = n \/ h = n + 1
    BY <1>2, <1>5, <2>1 DEF ReaderAt
  <2>3. n \in Nat /\ h \in Nat /\ t \in Nat /\ e \in Nat /\ e < h /\ t <= e
    BY <1>1, <1>3, <1>5
  <2>4. reader # "prime"
    BY <2>2, <2>3
  <2>5. h <= n + 1 /\ n - 1 <= t
    BY <2>2, <2>3, <2>4
  <2> QED
    BY <1>5, <2>4, <2>5
<1>7. (p = n \/ p = n + 1) /\ (p = n + 1 => h = n + 1)
  <2>1. e < h /\ h <= n + 1 /\ n - 1 <= t /\ p = e + 1
    BY <1>3, <1>5, <1>6
  <2> HIDE DEF p
  <2> QED
    BY <1>5, <2>1
<1>8. addr[n] = cur /\ (p = n + 1 => addr[p] = NextBlock)
  <2>1. addr[n] = cur
    BY <1>2, <1>6 DEF ReaderAt
  <2>2. ASSUME p = n + 1 PROVE addr[p] # cur /\ addr[p] \in Block
    <3>1. ring["rx"].handed = n + 1
      BY <1>5, <1>7, <2>2
    <3>2. reader \in {"complete", "print"}
      BY <1>1, <1>2, <1>6, <3>1 DEF ReaderAt, CtrlInv, CtrlTypes
    <3>3. addr \in Seq(Block) /\ Len(addr) = n + 1
      BY <3>1 DEF CtrlInv, CtrlTypes
    <3>4. addr[n + 1] \in Block
      BY <1>1, <3>3
    <3> QED
      BY <1>2, <2>2, <3>2, <3>4 DEF ReaderAt
  <2> QED
    BY <2>1, <2>2, OtherBlock DEF CtrlInv, CtrlTypes
<1> HIDE DEF d, p
<1>9. /\ p = n => mem'[cur] = n
      /\ p = n + 1 => mem'[NextBlock] = n + 1 /\ (overran \/ mem'[cur] = n)
  <2>1. DOMAIN mem = Block /\ cur \in Block /\ NextBlock \in Block /\ NextBlock # cur
    BY OtherBlock DEF CtrlInv, CtrlTypes
  <2>2. p = n + 1 => overran \/ mem[cur] = n
    BY <1>1, <1>2, <1>5 DEF Arrived, p, d
  <2> QED
    BY <1>4, <1>8, <2>1, <2>2
<1>10. ReaderAt(n)'
  BY <1>2, <1>3, <1>4 DEF ReaderAt
<1>11. Arrived(n)'
  BY <1>1, <1>2, <1>3, <1>4, <1>7, <1>9 DEF Arrived, NextBlock
<1>12. Woken'
  <2>1. ring'["rx"].done = ring["rx"].done + 1
    BY <1>3 DEF p, d
  <2>2. /\ irq'["rx"] > 0 /\ irq["rx"] = 0 => ~ ioc["rx"]
        /\ irq["rx"] \in Nat /\ ring["rx"].done >= ring["rx"].taken
        /\ ring["rx"].done \in Nat /\ ring["rx"].taken \in Nat
    BY <1>3, Groups DEF Chan
  <2> QED
    BY <1>2, <1>3, <2>1, <2>2 DEF Woken
<1> QED
  BY <1>1, <1>4, <1>10, <1>11, <1>12 DEF RxInOrder

(* A wait of the reader gives up only with a descriptor in flight.         *)
LEMMA RxTimeOutStep ==
  ASSUME DmaInv, CtrlInv, TimeOut("rx")
  PROVE  RxInOrder'
<1>1. CASE Late("rx")
  BY <1>1 DEF Late, TimeOut, RxInOrder, CtrlInv, CtrlTypes, Chan
<1>2. CASE ~ Late("rx")
  <2>1. PICK n \in Nat \ {0} : n = Len(out) + 1
    BY DEF CtrlInv, CtrlTypes
  <2>2. ReaderAt(n) /\ pc["rx"] = "wait" /\ reader \in {"prime", "read", "complete", "print"}
    BY <1>2, <2>1 DEF CtrlInv, CtrlTypes, RxInOrder, TimeOut, WaitTimeout
  <2>3. ring["rx"].handed > ring["rx"].taken
    BY <2>1, <2>2 DEF ReaderAt
  <2>4. Late("rx")'
    BY <2>3 DEF TimeOut, Late, CtrlInv, CtrlTypes, Chan
  <2> QED
    BY <2>4 DEF RxInOrder
<1> QED
  BY <1>1, <1>2

LEMMA RxInCallStep ==
  ASSUME ~ Relatch, DmaInv, CtrlInv, InCall("rx")
  PROVE  RxInOrder' /\ (~ Late("rx") => ret'["rx"].kind = ret["rx"].kind \/ ret'["rx"].kind = "comp")
<1> SUFFICES ASSUME ~ Late("rx")
             PROVE  RxInOrder' /\ (ret'["rx"].kind = ret["rx"].kind \/ ret'["rx"].kind = "comp")
  BY DEF RxInOrder, Late, InCall
<1>1. PICK n \in Nat \ {0} : n = Len(out) + 1
  BY DEF CtrlInv, CtrlTypes
<1>2. ReaderAt(n) /\ Arrived(n) /\ Woken
  BY <1>1 DEF CtrlInv, RxInOrder
<1>3. UNCHANGED <<reader, cur, addr, mem, out, overran, waited>>
  BY DEF InCall, readerVars, writerVars
<1>4. /\ ring["rx"].taken \in Nat /\ ring["rx"].done \in Nat
      /\ irq["rx"] \in Nat /\ ring["rx"].taken <= ring["rx"].done
  BY Groups DEF Chan
<1>5. reader \in {"prime", "read", "complete", "print"}
  BY DEF CtrlInv, CtrlTypes
<1>6. TypeOK /\ RingInv /\ RxSignal /\ NoTrouble
  BY DEF DmaInv, SignalInv, CtrlInv
(* It suffices to follow the ring, the interrupts and the thread.          *)
<1>7. ASSUME pc["rx"] # "idle", pc'["rx"] # "idle", Woken',
             SameGroups(ring'["rx"], ring["rx"]), UNCHANGED ret
      PROVE  RxInOrder' /\ ret'["rx"].kind = ret["rx"].kind
  <2>1. ReaderAt(n)'
    BY <1>2, <1>3, <1>7 DEF ReaderAt, SameGroups
  <2>2. Arrived(n)'
    BY <1>2, <1>3, <1>7 DEF Arrived, NextBlock, SameGroups
  <2> QED
    BY <1>1, <1>3, <1>7, <2>1, <2>2 DEF RxInOrder
<1>8. CASE WaitInterrupt("rx")
  <2>1. /\ pc["rx"] = "wait" /\ pc'["rx"] = "lock" /\ irq["rx"] > 0
        /\ UNCHANGED <<ring, ret>>
    BY <1>6, <1>8 DEF WaitInterrupt, TypeOK, Chan
  <2> QED
    BY <1>2, <1>7, <2>1 DEF Woken, SameGroups
<1>9. CASE Lock("rx")
  <2>1. /\ pc["rx"] = "lock" /\ pc'["rx"] = "ack" /\ UNCHANGED <<ring, irq, ret>>
    BY <1>6, <1>9 DEF Lock, TypeOK, Chan
  <2> QED
    BY <1>2, <1>7, <2>1 DEF Woken, SameGroups
<1>10. CASE RxAck
  <2>1. /\ pc["rx"] = "ack" /\ pc'["rx"] = "fetch" /\ UNCHANGED <<ring, irq, ret>>
    BY <1>6, <1>10 DEF RxAck, TypeOK, Chan
  <2>2. irq["rx"] = 0
    BY <1>4, <1>6, <2>1 DEF RxSignal, NoTrouble
  <2> QED
    BY <1>2, <1>7, <2>1, <2>2 DEF Woken, SameGroups
<1>11. CASE RxFetch
  <2>1. ring["rx"].done > ring["rx"].taken
    BY <1>2, <1>11 DEF RxFetch, Woken
  <2>2. /\ ring'["rx"].handed = ring["rx"].handed /\ ring'["rx"].done = ring["rx"].done
        /\ ring'["rx"].taken = ring["rx"].taken + 1
        /\ ret'["rx"].kind = "comp" /\ ret'["rx"].bds = 1
        /\ pc["rx"] = "fetch" /\ pc'["rx"] = "idle" /\ UNCHANGED <<ioc, irq>>
    BY <1>6, <1>11, <2>1, RxFetchEffect
  <2>3. ReaderAt(n)'
    BY <1>1, <1>2, <1>3, <2>2 DEF ReaderAt
  <2>4. Arrived(n)'
    BY <1>2, <1>3, <2>2 DEF Arrived, NextBlock
  <2>5. Woken'
    BY <1>2, <1>4, <2>2 DEF Woken
  <2> QED
    BY <1>1, <1>3, <2>2, <2>3, <2>4, <2>5 DEF RxInOrder
<1>12. CASE RxDrop \/ RxDropFree \/ RxNoIoc
  BY <1>2, <1>6, <1>12 DEF RxDrop, RxDropFree, RxNoIoc, Woken, RxSignal, NoTrouble
<1> QED
  BY <1>8, <1>9, <1>10, <1>11, <1>12 DEF InCall

-----------------------------------------------------------------------------
(* ---- The writer ---------------------------------------------------------- *)

LEMMA TxFrame ==
  ASSUME TxInOrder, SameGroups(ring'["tx"], ring["tx"]), pc'["tx"] = pc["tx"],
         irq'["tx"] = irq["tx"], ioc'["tx"] = ioc["tx"], UNCHANGED <<writer, lines, block, sent>>,
         waited'["tx"] = waited["tx"]
  PROVE  TxInOrder'
BY DEF TxInOrder, SameGroups, WriterAt, Quiet, Busy, Noticed, Late

LEMMA TxClientStep ==
  ASSUME DmaInv, CtrlInv, EmptyLine \/ Numbers \/ BadLine \/ LongLine \/ WriteComplete
  PROVE  TxInOrder' /\ (ret'["tx"].kind = ret["tx"].kind \/ ret'["tx"].kind # "throw")
<1> USE DEF TxInOrder, WriterAt, Quiet, Busy, Noticed, Late
<1>1. TxInOrder
  BY DEF CtrlInv
<1>2. CASE EmptyLine
  <2>1. /\ writer = "line" /\ writer' = "complete" /\ pc["tx"] = "idle"
        /\ UNCHANGED <<ring, ioc, irq, pc, lines, block, sent, waited>>
        /\ ret'["tx"] = Plain("true")
    BY <1>2 DEF EmptyLine, NoTransfer, Return, DmaInv, TypeOK, Chan
  <2> QED
    BY <1>1, <2>1 DEF Plain
<1>3. CASE Numbers
  <2>1. /\ writer = "line" /\ writer' = "write" /\ pc["tx"] = "idle"
        /\ lines' = lines + 1 /\ block' = lines'
        /\ UNCHANGED <<ring, ioc, irq, pc, sent, waited, ret>>
    BY <1>3 DEF Numbers, vars
  <2> QED
    BY <1>1, <2>1
<1>5. CASE BadLine
  <2>1. /\ writer = "line" /\ writer' = "threw" /\ pc["tx"] = "idle"
        /\ UNCHANGED <<ring, ioc, irq, pc, lines, sent, waited, ret>>
    BY <1>5 DEF BadLine, vars
  <2> QED
    BY <1>1, <2>1
<1>6. CASE LongLine
  <2>1. /\ writer = "line" /\ pc["tx"] = "idle"
        /\ UNCHANGED <<ring, ioc, irq, pc, sent, waited>>
        /\ ret'["tx"].kind = ret["tx"].kind \/ ret'["tx"].kind # "throw"
        /\ \/ writer' = "write" /\ lines' = lines + 1 /\ block' = lines'
           \/ writer' \in {"complete", "line"} /\ lines' = lines
    <3>1. \/ /\ writer' = "write" /\ lines' = lines + 1 /\ block' = lines'
             /\ UNCHANGED vars
          \/ writer' = "complete" /\ lines' = lines /\ NoTransfer("tx", "false")
          \/ writer' = writer /\ lines' = lines /\ UNCHANGED vars
      BY <1>6 DEF LongLine
    <3>2. writer = "line" /\ pc["tx"] = "idle" /\ UNCHANGED <<sent, waited>>
      BY <1>6 DEF LongLine, NoTransfer
    <3>3. ASSUME NoTransfer("tx", "false")
          PROVE  UNCHANGED <<ring, ioc, irq, pc>> /\ ret'["tx"].kind # "throw"
      BY <3>3 DEF NoTransfer, Return, Plain, DmaInv, TypeOK, Chan
    <3> QED
      BY <3>1, <3>2, <3>3 DEF vars
  <2> QED
    BY <1>1, <2>1
<1>4. CASE WriteComplete
  <2>1. /\ writer = "complete" /\ writer' = "line" /\ pc["tx"] = "idle" /\ pc'["tx"] = "wait"
        /\ UNCHANGED <<ring, ioc, irq, lines, block, sent, waited>>
        /\ ret'["tx"] = Plain("none")
    BY <1>4 DEF WriteComplete, CompleteCall, Return, DmaInv, TypeOK, Chan
  <2> QED
    BY <1>1, <2>1 DEF Plain
<1> QED
  BY <1>2, <1>3, <1>4, <1>5, <1>6

LEMMA TxWriteStep ==
  ASSUME DmaInv, CtrlInv, Write
  PROVE  TxInOrder' /\ (~ Late("tx") => ret'["tx"].kind # "throw")
<1> SUFFICES ASSUME ~ Late("tx")
             PROVE  TxInOrder' /\ ret'["tx"].kind # "throw"
  BY DEF TxInOrder, Late, Write
<1>1. /\ Post("tx") /\ pc["tx"] = "idle" /\ writer = "write" /\ writer' = "complete"
      /\ UNCHANGED <<ioc, irq, pc, lines, block, sent, waited>>
  BY PostEffect DEF Write, DmaInv, CtrlInv, Chan
<1>2. Quiet /\ block = lines /\ lines = ring["tx"].handed + 1
      /\ Len(sent) = ring["tx"].done /\ \A k \in 1 .. Len(sent) : sent[k] = k
  <2>1. Quiet /\ lines = ring["tx"].handed + 1 /\ ring["tx"].handed \in Nat
    BY <1>1, Groups DEF CtrlInv, TxInOrder, WriterAt, Chan
  <2>2. ring["tx"].done < lines
    BY <2>1 DEF Quiet
  <2> QED
    BY <2>1, <2>2 DEF CtrlInv, TxInOrder
<1>3. CanAlloc(ring["tx"], 1)
  <2>1. fault["tx"] = "none" /\ ring["tx"].alloc = ring["tx"].handed
    BY DEF CtrlInv, NoTrouble, Chan
  <2>2. \/ ring["tx"].taken = ring["tx"].freed + 0
        \/ fault["tx"] = "marked"
    BY <1>1 DEF DmaInv, RingInv, NothingHeldBack, InHand, Chan
  <2>3. ring["tx"].alloc = ring["tx"].freed /\ ring["tx"].alloc \in Nat
    BY <1>2, <2>1, <2>2, Groups DEF Quiet, Chan
  <2> QED
    BY <2>3, NAssumption DEF CanAlloc, FreeCnt
<1>4. ring' = [ring EXCEPT !["tx"] = ToHw(Alloc(@, 1), 1)] /\ ret'["tx"] = Plain("true")
  BY <1>1, <1>3, PostEffect DEF DmaInv, CtrlInv, Chan
<1>5. /\ ring'["tx"].handed = ring["tx"].handed + 1
      /\ ring'["tx"].done = ring["tx"].done /\ ring'["tx"].taken = ring["tx"].taken
  BY <1>4, Groups, ToHwEffect DEF DmaInv, TypeOK, Chan
<1>6. Busy'
  BY <1>1, <1>2, <1>5 DEF Quiet, Busy
<1> QED
  BY <1>1, <1>2, <1>4, <1>5, <1>6 DEF TxInOrder, WriterAt, Plain

LEMMA TxSendStep ==
  ASSUME DmaInv, CtrlInv, Send
  PROVE  TxInOrder'
<1> SUFFICES ASSUME ~ Late("tx")
             PROVE  TxInOrder'
  BY DEF TxInOrder, Late, Send
<1>1. /\ ring["tx"].done < ring["tx"].handed
      /\ ring'["tx"].handed = ring["tx"].handed /\ ring'["tx"].done = ring["tx"].done + 1
      /\ ring'["tx"].taken = ring["tx"].taken
      /\ ioc'["tx"] = TRUE
      /\ irq'["tx"] = (IF ioc["tx"] THEN irq["tx"] ELSE IF polling THEN 1 ELSE irq["tx"] + 1)
      /\ UNCHANGED <<pc, ret>>
  BY HwEffect DEF Send, DmaInv, Chan
<1>2. sent' = Append(sent, block) /\ UNCHANGED <<writer, lines, block, waited>>
  BY DEF Send
<1>3. PICK h \in Nat, t \in Nat, d \in Nat :
        h = ring["tx"].handed /\ t = ring["tx"].taken /\ d = ring["tx"].done
  BY Groups DEF Chan
<1>4. /\ h = t + 1 /\ d = t /\ irq["tx"] = 0 /\ ~ ioc["tx"]
      /\ (pc["tx"] = "idle" /\ writer = "complete") \/ pc["tx"] = "wait"
  BY <1>1, <1>3 DEF CtrlInv, TxInOrder, WriterAt, Quiet, Busy, Noticed
<1>5. /\ block = lines /\ lines = h /\ Len(sent) = d /\ \A k \in 1 .. Len(sent) : sent[k] = k
      /\ pc["tx"] # "idle" => writer = "line"
  <2>1. /\ lines = h /\ Len(sent) = d /\ \A k \in 1 .. Len(sent) : sent[k] = k
        /\ pc["tx"] # "idle" => writer = "line"
    BY <1>3, <1>4 DEF CtrlInv, TxInOrder
  <2>2. ring["tx"].done < lines
    BY <1>3, <1>4, <2>1
  <2> QED
    BY <2>1, <2>2 DEF CtrlInv, TxInOrder
<1>6. Len(sent') = d + 1 /\ \A k \in 1 .. d + 1 : sent'[k] = k
  <2>1. sent \in Seq(Nat) /\ sent' = Append(sent, d + 1)
    BY <1>2, <1>4, <1>5 DEF CtrlInv, CtrlTypes
  <2>2. Len(sent') = d + 1 /\ sent'[d + 1] = d + 1 /\ \A k \in 1 .. d : sent'[k] = sent[k]
    BY <1>5, <2>1
  <2>3. ASSUME NEW k \in 1 .. d + 1 PROVE sent'[k] = k
    <3>1. k \in 1 .. d \/ k = d + 1
      OBVIOUS
    <3> QED
      BY <1>5, <2>2, <3>1
  <2> QED
    BY <2>2, <2>3
<1>7. Busy'
  BY <1>1, <1>3, <1>4 DEF Busy
<1>8. WriterAt'
  BY <1>1, <1>2, <1>4, <1>7 DEF WriterAt
<1>9. writer # "write"
  BY <1>4, <1>5
<1> QED
  BY <1>1, <1>2, <1>3, <1>5, <1>6, <1>8, <1>9 DEF TxInOrder

LEMMA TxTimeOutStep ==
  ASSUME DmaInv, CtrlInv, TimeOut("tx")
  PROVE  TxInOrder'
<1>1. CASE Late("tx")
  BY <1>1 DEF Late, TimeOut, TxInOrder, CtrlInv, CtrlTypes, Chan
<1>2. CASE ~ Late("tx")
  <2>1. /\ pc["tx"] = "wait" /\ irq["tx"] = 0 /\ pc'["tx"] = "lock"
        /\ UNCHANGED <<ring, ioc, irq, writer, lines, block, sent>>
    BY DEF TimeOut, WaitTimeout, writerVars, DmaInv, TypeOK, Chan
  <2>2. waited'["tx"] = IF ring["tx"].handed > ring["tx"].taken THEN "late" ELSE "idle"
    BY <1>2 DEF TimeOut, Late, CtrlInv, CtrlTypes, Chan
  <2>3. Quiet \/ Busy
    BY <1>2, <2>1 DEF CtrlInv, TxInOrder, WriterAt
  <2>4. CASE Busy
    BY <2>2, <2>4, Groups, SMTT(60) DEF Busy, TxInOrder, Late, Chan
  <2>5. CASE Quiet
    <3>1. Quiet'
      BY <2>1, <2>5 DEF Quiet
    <3>2. waited'["tx"] = "idle"
      BY <2>2, <2>5, Groups DEF Quiet, Chan
    <3> QED
      BY <1>2, <2>1, <3>1, <3>2 DEF CtrlInv, TxInOrder, WriterAt
  <2> QED
    BY <2>3, <2>4, <2>5
<1> QED
  BY <1>1, <1>2

LEMMA TxInCallStep ==
  ASSUME ~ Relatch, DmaInv, CtrlInv, InCall("tx")
  PROVE  /\ TxInOrder'
         /\ waited["tx"] = "none" => ret'["tx"].kind = ret["tx"].kind \/ ret'["tx"].kind = "comp"
<1> SUFFICES ASSUME ~ Late("tx")
             PROVE  /\ TxInOrder'
                    /\ \/ waited["tx"] = "idle" \/ ret'["tx"].kind = ret["tx"].kind
                       \/ ret'["tx"].kind = "comp"
  BY DEF TxInOrder, Late, InCall
<1>1. /\ UNCHANGED <<writer, lines, block, sent, waited>>
      /\ pc["tx"] # "idle" => writer = "line"
      /\ WriterAt
  BY DEF InCall, writerVars, CtrlInv, TxInOrder
<1>2. TypeOK /\ RingInv /\ TxSignal /\ NoTrouble
  BY DEF DmaInv, SignalInv, CtrlInv
<1>3. ASSUME pc["tx"] # "idle", WriterAt', ring'["tx"].handed = ring["tx"].handed,
             ring'["tx"].done = ring["tx"].done
      PROVE  TxInOrder'
  BY <1>1, <1>3 DEF CtrlInv, TxInOrder, Late
<1>4. CASE WaitInterrupt("tx")
  <2>1. /\ pc["tx"] = "wait" /\ pc'["tx"] = "lock" /\ irq["tx"] > 0 /\ irq'["tx"] = 0
        /\ UNCHANGED <<ring, ioc, ret>>
    BY <1>2, <1>4 DEF WaitInterrupt, TypeOK, Chan
  <2>2. Noticed'
    BY <1>1, <2>1 DEF WriterAt, Quiet, Busy, Noticed
  <2> QED
    BY <1>3, <2>1, <2>2 DEF WriterAt
<1>5. CASE Lock("tx")
  <2>1. /\ pc["tx"] = "lock" /\ pc'["tx"] = "fetch" /\ UNCHANGED <<ring, ioc, irq, ret>>
    BY <1>2, <1>5 DEF Lock, TypeOK, Chan
  <2>2. WriterAt'
    BY <1>1, <2>1 DEF WriterAt, Quiet, Noticed
  <2> QED
    BY <1>3, <2>1, <2>2
<1>6. CASE TxFetch
  <2>1. /\ ring'["tx"].handed = ring["tx"].handed /\ ring'["tx"].done = ring["tx"].done
        /\ \/ /\ ring["tx"].done > ring["tx"].taken
              /\ ring'["tx"].taken = ring["tx"].taken + 1
              /\ pc'["tx"] = "ack" /\ UNCHANGED ret
           \/ /\ ring["tx"].done = ring["tx"].taken
              /\ ring'["tx"].taken = ring["tx"].taken
              /\ pc'["tx"] = "idle" \/ (pc'["tx"] = "ack" /\ UNCHANGED ret)
        /\ pc["tx"] = "fetch" /\ UNCHANGED <<ioc, irq>>
    BY <1>2, <1>6, TxFetchEffect
  <2>2. ring["tx"].taken \in Nat /\ ring["tx"].done \in Nat
    BY Groups DEF Chan
  <2>3. CASE Quiet /\ waited["tx"] = "idle"
    <3>1. WriterAt'
      BY <1>1, <2>1, <2>2, <2>3 DEF WriterAt, Quiet
    <3> QED
      BY <1>3, <2>1, <2>3, <3>1
  <2>4. CASE Noticed
    <3>1. WriterAt' /\ UNCHANGED ret
      BY <1>1, <2>1, <2>2, <2>4 DEF WriterAt, Noticed
    <3> QED
      BY <1>3, <2>1, <3>1
  <2> QED
    BY <1>1, <2>1, <2>3, <2>4 DEF WriterAt
<1>7. CASE TxAck
  <2>1. /\ SameGroups(ring'["tx"], ring["tx"]) /\ ret'["tx"].kind = "comp"
        /\ pc["tx"] = "ack" /\ pc'["tx"] = "idle" /\ ioc'["tx"] = FALSE /\ irq' = irq
    BY <1>2, <1>7, TxAckEffect
  <2>2. Quiet'
    BY <1>1, <2>1 DEF WriterAt, SameGroups, Quiet
  <2> QED
    BY <1>3, <2>1, <2>2 DEF WriterAt, SameGroups
<1> QED
  BY <1>4, <1>5, <1>6, <1>7 DEF InCall

-----------------------------------------------------------------------------
(* ---- Every step ---------------------------------------------------------- *)

(* Only write(), read() and the engine change what a direction was handed, *)
(* or what of it is done.                                                  *)
LEMMA GroupsKept ==
  ASSUME TypeOK, NEW ch \in Chan, DmaStep(ch), ~ Post(ch), ~ HwComplete(ch, TRUE), NEW c \in Chan
  PROVE  ring'[c].handed = ring[c].handed /\ ring'[c].done = ring[c].done
<1>1. ring[c] \in Ring /\ ring["rx"] \in Ring /\ ring["tx"] \in Ring
      /\ batch["tx"] \in Nat /\ batch["rx"] \in Nat
  BY DEF TypeOK, Chan
<1>2. ASSUME NEW d \in Chan, NEW q, ring' = [ring EXCEPT ![d] = q],
             q.handed = ring[d].handed, q.done = ring[d].done
      PROVE  ring'[c].handed = ring[c].handed /\ ring'[c].done = ring[c].done
  BY <1>2 DEF TypeOK
<1>3. ASSUME NEW r \in Ring, NEW k \in Nat
      PROVE  /\ FromHw(r, k).handed = r.handed /\ FromHw(r, k).done = r.done
             /\ Free(FromHw(r, k), k).handed = r.handed /\ Free(FromHw(r, k), k).done = r.done
  BY FromHwType, FromHwEffect, FreeEffect
<1>4. CASE UNCHANGED ring
  BY <1>4
<1>5. CASE RxDrop
  <2>1. PICK k \in 0 .. N : ring' = [ring EXCEPT !["rx"] = FromHw(ring["rx"], k)]
    BY <1>5 DEF RxDrop
  <2>2. k \in Nat
    OBVIOUS
  <2> QED
    BY <1>1, <1>2, <1>3, <2>1, <2>2 DEF Chan
<1>9. CASE RxDropFree
  <2>1. PICK q \in {ring["rx"], Free(ring["rx"], batch["rx"])} : ring' = [ring EXCEPT !["rx"] = q]
    BY <1>9 DEF RxDropFree
  <2>2. q.handed = ring["rx"].handed /\ q.done = ring["rx"].done
    BY <1>1, <2>1, FreeEffect
  <2> QED
    BY <1>2, <2>1, <2>2 DEF Chan
<1>6. CASE RxFetch
  <2>1. PICK k \in 0 .. Coalesce :
          \/ ring' = [ring EXCEPT !["rx"] = FromHw(ring["rx"], k)]
          \/ Finish("rx", FromHw(ring["rx"], k), k)
    BY <1>6 DEF RxFetch
  <2>2. k \in Nat
    BY DEF Coalesce
  <2>3. PICK q \in {FromHw(ring["rx"], k), Free(FromHw(ring["rx"], k), k)} :
          ring' = [ring EXCEPT !["rx"] = q]
    BY <2>1 DEF Finish
  <2> QED
    BY <1>1, <1>2, <1>3, <2>2, <2>3 DEF Chan
<1>7. CASE TxFetch
  <2>1. PICK k \in 0 .. Coalesce : ring' = [ring EXCEPT !["tx"] = FromHw(ring["tx"], k)]
    BY <1>7 DEF TxFetch
  <2>2. k \in Nat
    BY DEF Coalesce
  <2> QED
    BY <1>1, <1>2, <1>3, <2>1, <2>2 DEF Chan
<1>8. CASE TxAck
  <2>1. PICK q \in {ring["tx"], Free(ring["tx"], batch["tx"])} : ring' = [ring EXCEPT !["tx"] = q]
    BY <1>8 DEF TxAck, Finish
  <2>2. q.handed = ring["tx"].handed /\ q.done = ring["tx"].done
    BY <1>1, <2>1, FreeEffect
  <2> QED
    BY <1>2, <2>1, <2>2 DEF Chan
<1> QED
  BY <1>4, <1>5, <1>6, <1>7, <1>8, <1>9
  DEF DmaStep, NothingSent, NoTransfer, CompleteCall, WaitInterrupt, WaitTimeout, Lock, RxAck, RxNoIoc

(* The types of what only the threads use                                  *)
LEMMA TypesFrame ==
  ASSUME CtrlTypes, UNCHANGED <<cur, addr, out, currentBufLoc, shown, sent>>,
         mem' \in [Block -> 0 .. ring["rx"].done], overran' \in BOOLEAN,
         ring'["rx"].handed = ring["rx"].handed, ring'["rx"].done = ring["rx"].done,
         alive' \in BOOLEAN, reader' \in {"prime", "read", "complete", "print"},
         writer' \in {"line", "write", "complete", "threw"}, lines' \in Nat, block' \in 0 .. lines',
         waited' \in [Chan -> {"none", "idle", "late"}]
  PROVE  CtrlTypes'
BY DEF CtrlTypes

LEMMA ClientTypes ==
  ASSUME DmaInv, CtrlTypes,
         \/ ReadComplete \/ EmptyLine \/ Numbers \/ Write \/ WriteComplete
         \/ \E ch \in Chan : InCall(ch) \/ TimeOut(ch)
  PROVE  CtrlTypes'
<1>1. /\ UNCHANGED <<cur, addr, mem, out, currentBufLoc, shown, sent, overran>>
      /\ mem' \in [Block -> 0 .. ring["rx"].done] /\ overran' \in BOOLEAN
  BY DEF ReadComplete, EmptyLine, Numbers, Write, WriteComplete, InCall, TimeOut, readerVars,
         writerVars, formatterVars, CtrlTypes
<1>2. ring'["rx"].handed = ring["rx"].handed /\ ring'["rx"].done = ring["rx"].done
  <2>1. CASE ReadComplete \/ EmptyLine \/ Numbers \/ WriteComplete
    BY <2>1 DEF ReadComplete, EmptyLine, Numbers, WriteComplete, CompleteCall, NoTransfer, vars
  <2>2. CASE Write
    BY <2>2, OtherChan DEF Write, DmaStep, DmaInv, Chan
  <2>3. ASSUME NEW ch \in Chan, InCall(ch) \/ TimeOut(ch)
        PROVE  DmaStep(ch) /\ ~ Post(ch) /\ ~ HwComplete(ch, TRUE)
    <3>1. DmaStep(ch)
      BY <2>3 DEF InCall, TimeOut, DmaStep
    <3>2. pc[ch] # "idle" /\ pc' # pc
      BY <2>3 DEF InCall, TimeOut, WaitInterrupt, WaitTimeout, Lock, RxDrop, RxDropFree, RxAck,
                  RxNoIoc, RxFetch, TxFetch, TxAck, Leave, DmaInv, TypeOK, Chan
    <3> QED
      BY <3>1, <3>2, HwEffect DEF Post, PostRingFull, PostMisaligned, PostOk, PostRejected,
         MayPost, DmaInv
  <2> QED
    BY <2>1, <2>2, <2>3, GroupsKept DEF DmaInv, Chan
<1>3. alive' \in BOOLEAN
  BY DEF CtrlTypes, ReadComplete, EmptyLine, Numbers, Write, WriteComplete, InCall, TimeOut,
         Survives, Threw
<1>4. /\ reader' \in {"prime", "read", "complete", "print"}
      /\ writer' \in {"line", "write", "complete", "threw"}
  BY DEF CtrlTypes, ReadComplete, EmptyLine, Numbers, Write, WriteComplete, InCall, TimeOut,
         readerVars, writerVars
<1>5. lines' \in Nat /\ block' \in 0 .. lines'
  <2>1. CASE Numbers
    BY <2>1 DEF CtrlTypes, Numbers
  <2>2. CASE UNCHANGED <<lines, block>>
    BY <2>2 DEF CtrlTypes
  <2> QED
    BY <2>1, <2>2 DEF ReadComplete, EmptyLine, Write, WriteComplete, InCall, TimeOut, writerVars
<1>6. waited' \in [Chan -> {"none", "idle", "late"}]
  BY DEF CtrlTypes, ReadComplete, EmptyLine, Numbers, Write, WriteComplete, InCall, TimeOut
<1> QED
  BY <1>1, <1>2, <1>3, <1>4, <1>5, <1>6, TypesFrame

(* A line that does not fit its block, or that is no list of numbers       *)
LEMMA LineTypes ==
  ASSUME DmaInv, CtrlTypes, BadLine \/ LongLine
  PROVE  CtrlTypes'
<1>1. UNCHANGED <<ring, reader, cur, addr, out, currentBufLoc, shown, sent, waited>>
  BY DEF BadLine, LongLine, NoTransfer, vars, readerVars, formatterVars
<1>2. /\ alive' \in BOOLEAN /\ overran' \in BOOLEAN
      /\ writer' \in {"line", "write", "complete", "threw"}
  BY DEF BadLine, LongLine, CtrlTypes
<1>3. lines' \in Nat /\ block' \in 0 .. lines'
  BY DEF BadLine, LongLine, CtrlTypes
<1>4. mem' \in [Block -> 0 .. ring["rx"].done]
  <2>1. mem \in [Block -> 0 .. ring["rx"].done] /\ 0 \in 0 .. ring["rx"].done
    BY Groups DEF CtrlTypes, Chan
  <2>2. CASE BadLine
    BY <2>1, <2>2 DEF BadLine, readerVars
  <2>3. CASE LongLine
    <3>1. PICK spoiled \in Behind : mem' = [b \in Block |-> IF b \in spoiled THEN 0 ELSE mem[b]]
      BY <2>3 DEF LongLine
    <3> QED
      BY <2>1, <3>1
  <2> QED
    BY <2>2, <2>3
<1> QED
  BY <1>1, <1>2, <1>3, <1>4, TypesFrame DEF CtrlTypes

LEMMA ReadTypes ==
  ASSUME DmaInv, CtrlInv, ReadFirst \/ ReadNext
  PROVE  CtrlTypes'
<1>1. PICK b \in Block : Read(b) /\ reader' \in {"read", "complete"} /\ writer' = writer
  BY OtherBlock DEF ReadFirst, ReadNext, Block, CtrlInv, CtrlTypes, Read, writerVars
<1>2. /\ Post("rx")
      /\ UNCHANGED <<cur, mem, out, currentBufLoc, shown, writer, lines, block, sent, overran, waited>>
  BY <1>1 DEF Read, formatterVars, writerVars
<1>3. alive' \in BOOLEAN
  BY <1>1 DEF Read, Survives, Threw
<1>4. ring'["rx"].done = ring["rx"].done /\ addr' \in Seq(Block) /\ Len(addr') = ring'["rx"].handed
  <2>1. CASE UNCHANGED ring /\ ret'["rx"] = Plain("throw")
    <3>1. addr' = addr
      BY <1>1, <2>1 DEF Read, Threw, Plain
    <3> QED
      BY <2>1, <3>1 DEF CtrlInv, CtrlTypes
  <2>2. CASE ring' = [ring EXCEPT !["rx"] = ToHw(Alloc(@, 1), 1)] /\ ret'["rx"] = Plain("true")
    <3>1. addr' = Append(addr, b)
      BY <1>1, <2>2 DEF Read, Threw, Plain
    <3>2. addr \in Seq(Block) /\ Len(addr) = ring["rx"].handed
      BY DEF CtrlInv, CtrlTypes
    <3>3. addr' \in Seq(Block) /\ Len(addr') = ring["rx"].handed + 1
      BY <3>1, <3>2
    <3>4. ring'["rx"].handed = ring["rx"].handed + 1 /\ ring'["rx"].done = ring["rx"].done
      BY <2>2, Groups, ToHwEffect DEF DmaInv, TypeOK, Chan
    <3> QED
      BY <3>3, <3>4
  <2> QED
    BY <1>2, <2>1, <2>2, PostEffect DEF DmaInv, CtrlInv, Chan
<1> QED
  BY <1>1, <1>2, <1>3, <1>4 DEF CtrlInv, CtrlTypes

LEMMA PrintTypes ==
  ASSUME CtrlInv, PrintChunk
  PROVE  CtrlTypes'
<1>1. /\ cur' = NextBlock /\ reader' = "read"
      /\ UNCHANGED <<ring, addr, mem, writer, lines, block, sent, overran, waited>>
  BY DEF PrintChunk, vars, writerVars
<1>2. Words \in Seq(Nat)
  <2>1. mem[cur] \in Nat
    BY DEF CtrlInv, CtrlTypes
  <2> QED
    BY <2>1 DEF Words
<1>3. PICK w \in Seq(Nat) : w = Words
  BY <1>2
<1>4. out' = out \o w /\ out \in Seq(Nat) /\ Len(out) \in Nat /\ Len(w) \in Nat
  BY <1>3 DEF PrintChunk, Output, CtrlInv, CtrlTypes
<1>5. out' \in Seq(Nat) /\ Len(out') = Len(out) + Len(w)
  BY <1>4
<1>6. alive' \in BOOLEAN /\ (currentBufLoc' = 0 \/ currentBufLoc' = currentBufLoc + Len(w))
      /\ (shown' = shown \/ shown' = Len(out'))
  BY <1>3 DEF PrintChunk, Output, CtrlInv, CtrlTypes
<1>7. currentBufLoc' \in Nat /\ shown' \in 0 .. Len(out')
  BY <1>4, <1>5, <1>6 DEF CtrlInv, CtrlTypes
<1>8. cur' \in Block
  BY <1>1, OtherBlock DEF CtrlInv, CtrlTypes
<1> QED
  BY <1>1, <1>5, <1>6, <1>7, <1>8 DEF CtrlInv, CtrlTypes

LEMMA NewestChunk ==
  ASSUME NEW S, NEW d \in Nat, NEW f \in [S -> 0 .. d], NEW b
  PROVE  [f EXCEPT ![b] = d + 1] \in [S -> 0 .. d + 1]
<1>1. \A s \in S : f[s] \in 0 .. d + 1
  OBVIOUS
<1>2. d + 1 \in 0 .. d + 1
  OBVIOUS
<1> QED
  BY <1>1, <1>2

LEMMA HwTypes ==
  ASSUME DmaInv, CtrlInv, Receive \/ Send
  PROVE  CtrlTypes'
<1>1. CASE Receive
  <2>1. /\ ring'["rx"].handed = ring["rx"].handed /\ ring'["rx"].done = ring["rx"].done + 1
        /\ ring["rx"].done \in Nat
    BY <1>1, HwEffect, Groups DEF Receive, DmaInv, Chan
  <2>2. mem' = [mem EXCEPT ![addr[ring["rx"].done + 1]] = ring["rx"].done + 1]
    BY <1>1 DEF Receive
  <2>3. mem' \in [Block -> 0 .. ring'["rx"].done]
    <3>1. PICK d \in Nat : d = ring["rx"].done
      BY <2>1
    <3>2. mem \in [Block -> 0 .. d]
      BY <3>1 DEF CtrlInv, CtrlTypes
    <3>3. PICK b : mem' = [mem EXCEPT ![b] = d + 1]
      BY <2>2, <3>1
    <3>4. mem' \in [Block -> 0 .. d + 1]
      BY <3>1, <3>2, <3>3, NewestChunk
    <3> QED
      BY <2>1, <3>1, <3>4
  <2>4. UNCHANGED <<alive, reader, cur, addr, out, currentBufLoc, shown, writer, lines, block,
                    sent, overran, waited>>
    BY <1>1 DEF Receive, formatterVars, writerVars
  <2> QED
    BY <2>1, <2>3, <2>4 DEF CtrlInv, CtrlTypes
<1>2. CASE Send
  <2>1. ring'["rx"] = ring["rx"]
    BY <1>2, OtherChan DEF Send, DmaStep, DmaInv, Chan
  <2>2. sent' \in Seq(Nat)
    <3>1. block \in Nat /\ sent \in Seq(Nat)
      BY DEF CtrlInv, CtrlTypes
    <3> QED
      BY <1>2, <3>1 DEF Send
  <2>3. UNCHANGED <<alive, reader, cur, addr, mem, out, currentBufLoc, shown, writer, lines,
                    block, overran, waited>>
    BY <1>2 DEF Send, readerVars, formatterVars
  <2> QED
    BY <2>1, <2>2, <2>3 DEF CtrlInv, CtrlTypes
<1> QED
  BY <1>1, <1>2

(* A call throws only after a timeout on its own side.                     *)
LEMMA DeathsStep ==
  ASSUME ~ Relatch, DmaInv, CtrlInv, CtrlNext
  PROVE  Deaths'
<1>1. CtrlTypes /\ Deaths /\ TypeOK
  BY DEF CtrlInv, DmaInv
(* The thread of a direction that no wait of which has timed out goes on.  *)
<1>2. ASSUME NEW ch \in Chan, DmaStep(ch), Survives(ch), UNCHANGED waited,
             waited[ch] = "none" => ret'[ch].kind = ret[ch].kind \/ ret'[ch].kind # "throw"
      PROVE  Deaths'
  <2>1. alive /\ (alive' <=> ret'[ch].kind # "throw")
    BY <1>2 DEF Survives, Threw
  <2>2. \A c \in Chan : ret[c].kind # "throw"
    BY <1>1, <2>1 DEF Deaths
  <2>3. \A c \in Chan : c # ch => ret'[c] = ret[c]
    BY <1>1, <1>2, OtherChan
  <2>4. alive' => \A c \in Chan : ret'[c].kind # "throw"
    BY <2>1, <2>2, <2>3
  <2>5. ThrowsAfterTimeouts'
    BY <1>2, <2>2, <2>3 DEF ThrowsAfterTimeouts
  <2> QED
    BY <2>4, <2>5 DEF Deaths
(* Nothing that a thread does before or after the calls throws what they   *)
(* throw.                                                                  *)
<1>3. ASSUME alive' => alive, \A c \in Chan : ret'[c] = ret[c] \/ ret'[c].kind # "throw",
             \A c \in Chan : waited[c] # "none" => waited'[c] # "none"
      PROVE  Deaths'
  BY <1>1, <1>3 DEF Deaths, ThrowsAfterTimeouts
<1>4. CASE ReadFirst \/ ReadNext
  <2>1. DmaStep("rx") /\ Survives("rx") /\ UNCHANGED waited
    BY <1>4 DEF ReadFirst, ReadNext, Read, DmaStep
  <2>2. waited["rx"] = "none" => ret'["rx"].kind # "throw"
    BY <1>4, RxReadStep DEF Late
  <2> QED
    BY <1>2, <2>1, <2>2 DEF Chan
<1>5. CASE Write
  <2>1. DmaStep("tx") /\ Survives("tx") /\ UNCHANGED waited
    BY <1>5 DEF Write, DmaStep
  <2>2. waited["tx"] = "none" => ret'["tx"].kind # "throw"
    BY <1>5, TxWriteStep DEF Late
  <2> QED
    BY <1>2, <2>1, <2>2 DEF Chan
<1>6. CASE InCall("rx")
  <2>1. DmaStep("rx") /\ Survives("rx") /\ UNCHANGED waited
    BY <1>6 DEF InCall, DmaStep
  <2>2. waited["rx"] = "none" => ret'["rx"].kind = ret["rx"].kind \/ ret'["rx"].kind # "throw"
    BY <1>6, RxInCallStep DEF Late
  <2> QED
    BY <1>2, <2>1, <2>2 DEF Chan
<1>7. CASE InCall("tx")
  <2>1. DmaStep("tx") /\ Survives("tx") /\ UNCHANGED waited
    BY <1>7 DEF InCall, DmaStep
  <2>2. waited["tx"] = "none" => ret'["tx"].kind = ret["tx"].kind \/ ret'["tx"].kind # "throw"
    BY <1>7, TxInCallStep
  <2> QED
    BY <1>2, <2>1, <2>2 DEF Chan
<1>8. CASE \/ ReadComplete \/ EmptyLine \/ Numbers \/ BadLine \/ LongLine \/ WriteComplete
           \/ PrintChunk
  <2>1. (alive' => alive) /\ UNCHANGED waited
    BY <1>8 DEF ReadComplete, EmptyLine, Numbers, BadLine, LongLine, WriteComplete, PrintChunk
  <2>2. \A c \in Chan : ret'[c] = ret[c] \/ ret'[c].kind # "throw"
    BY <1>1, <1>8 DEF ReadComplete, EmptyLine, Numbers, BadLine, LongLine, WriteComplete,
       PrintChunk, CompleteCall, NoTransfer, Return, Plain, vars, TypeOK
  <2> QED
    BY <1>3, <2>1, <2>2
<1>9. ASSUME NEW ch \in Chan, TimeOut(ch)
      PROVE  Deaths'
  <2>1. UNCHANGED <<ret, alive>>
    BY <1>9 DEF TimeOut, WaitTimeout
  <2>2. \A c \in Chan : waited[c] # "none" => waited'[c] # "none"
    BY <1>1, <1>9 DEF TimeOut, CtrlTypes
  <2> QED
    BY <1>3, <2>1, <2>2
<1>10. CASE Receive \/ Send
  <2>1. UNCHANGED <<alive, waited, ret>>
    BY <1>10 DEF Receive, Send, HwComplete
  <2> QED
    BY <1>3, <2>1
<1> QED
  BY <1>4, <1>5, <1>6, <1>7, <1>8, <1>9, <1>10 DEF CtrlNext, Chan

(* What the formatter holds back                                           *)
LEMMA HeldStep ==
  ASSUME CtrlInv, CtrlNext
  PROVE  HeldAreWide'
<1>1. HeldAreWide /\ CtrlTypes
  BY DEF CtrlInv
<1>2. CASE UNCHANGED <<wide, currentBufLoc, shown, out>> /\ (alive' => alive)
  BY <1>1, <1>2 DEF HeldAreWide
<1>3. CASE PrintChunk
  <2>1. wide' = wide /\ alive /\ Output(Words)
    BY <1>3 DEF PrintChunk
  <2>2. PICK w \in Seq(Nat) : w = Words /\ (w = <<>> \/ \E x \in Nat : w = <<x>>)
    <3>1. mem[cur] \in Nat
      BY <1>1 DEF CtrlTypes
    <3>2. CASE Words = <<>>
      <4>1. <<>> \in Seq(Nat)
        OBVIOUS
      <4> QED
        BY <3>2, <4>1
    <3>3. CASE Words = <<mem[cur]>>
      <4>1. <<mem[cur]>> \in Seq(Nat)
        BY <3>1
      <4> QED
        BY <3>1, <3>3, <4>1
    <3> QED
      BY <3>2, <3>3 DEF Words
  <2>3. out \in Seq(Nat) /\ out' = out \o w /\ currentBufLoc = Len(out) - shown /\ shown \in 0 .. Len(out)
    BY <1>1, <2>1, <2>2 DEF Output, HeldAreWide, CtrlTypes
  <2>4. CASE currentBufLoc' = 0 /\ shown' = Len(out')
    <3>1. Len(out') \in Nat
      BY <2>2, <2>3
    <3> QED
      BY <2>4, <3>1 DEF HeldAreWide
  <2>5. CASE TooWide(w) /\ currentBufLoc' = currentBufLoc + Len(w) /\ shown' = shown
    <3>1. PICK x \in wide : w = <<x>>
      BY <2>2, <2>5 DEF TooWide
    <3>2. Len(out') = Len(out) + 1 /\ out'[Len(out) + 1] = x /\ \A k \in 1 .. Len(out) : out'[k] = out[k]
      BY <2>2, <2>3, <3>1
    <3>3. currentBufLoc' = Len(out') - shown'
      BY <2>3, <2>5, <3>1, <3>2
    <3>4. ASSUME NEW k \in shown' + 1 .. Len(out') PROVE out'[k] \in wide'
      <4>1. k \in shown + 1 .. Len(out) \/ k = Len(out) + 1
        BY <2>3, <2>5, <3>2, <3>4, SMTT(60)
      <4>2. CASE k \in shown + 1 .. Len(out)
        <5>1. k \in 1 .. Len(out) /\ out[k] \in wide
          BY <1>1, <2>1, <2>3, <4>2 DEF HeldAreWide
        <5> QED
          BY <2>1, <3>2, <5>1
      <4> QED
        BY <2>1, <3>1, <3>2, <4>1, <4>2
    <3> QED
      BY <3>3, <3>4 DEF HeldAreWide
  <2>6. CASE ~ alive'
    BY <2>6 DEF HeldAreWide
  <2> QED
    BY <2>1, <2>2, <2>4, <2>5, <2>6 DEF Output
<1>4. CASE CtrlNext /\ ~ PrintChunk
  <2>1. CASE ReadFirst \/ ReadNext \/ Write \/ \E ch \in Chan : InCall(ch)
    BY <1>2, <2>1 DEF ReadFirst, ReadNext, Read, Write, InCall, Survives, readerVars,
       formatterVars
  <2>2. CASE ReadComplete \/ EmptyLine \/ Numbers \/ BadLine \/ LongLine \/ WriteComplete
    BY <1>2, <2>2 DEF ReadComplete, EmptyLine, Numbers, BadLine, LongLine, WriteComplete,
       readerVars, formatterVars
  <2>3. CASE Receive \/ Send \/ \E ch \in Chan : TimeOut(ch)
    BY <1>2, <2>3 DEF Receive, Send, TimeOut, readerVars, formatterVars
  <2> QED
    BY <1>4, <2>1, <2>2, <2>3 DEF CtrlNext
<1> QED
  BY <1>3, <1>4

-----------------------------------------------------------------------------
(* ---- The invariant holds ------------------------------------------------- *)

(* What the other direction does leaves the reader.                        *)
LEMMA RxOther ==
  ASSUME TypeOK, RxInOrder, DmaStep("tx") \/ UNCHANGED vars,
         UNCHANGED <<reader, cur, addr, mem, out, overran>>, waited'["rx"] = waited["rx"]
  PROVE  RxInOrder'
<1>1. ring'["rx"] = ring["rx"] /\ pc'["rx"] = pc["rx"] /\ irq'["rx"] = irq["rx"] /\ ret'["rx"] = ret["rx"]
  BY OtherChan DEF Chan, vars
<1> QED
  BY <1>1, RxFrame DEF SameGroups

(* A line that is too long, or no list of numbers, leaves the calls of the *)
(* reader.                                                                 *)
LEMMA RxLineStep ==
  ASSUME DmaInv, CtrlInv, BadLine \/ LongLine
  PROVE  RxInOrder'
<1>1. TypeOK /\ RxInOrder
  BY DEF DmaInv, CtrlInv
<1>2. CASE BadLine
  <2>1. UNCHANGED <<vars, reader, cur, addr, mem, out, overran, waited>>
    BY <1>2 DEF BadLine, readerVars
  <2> QED
    BY <1>1, <2>1, RxOther
<1>3. CASE LongLine
  <2>1. UNCHANGED <<reader, cur, addr, out, waited>> /\ overran'
    BY <1>3 DEF LongLine
  <2>2. ring'["rx"] = ring["rx"] /\ pc'["rx"] = pc["rx"] /\ irq'["rx"] = irq["rx"]
        /\ ret'["rx"] = ret["rx"]
    <3>1. UNCHANGED vars \/ NoTransfer("tx", "false")
      BY <1>3 DEF LongLine
    <3>2. CASE NoTransfer("tx", "false")
      BY <1>1, <3>2 DEF NoTransfer, Return, TypeOK, Chan
    <3> QED
      BY <3>1, <3>2 DEF vars
  <2> QED
    BY <1>1, <2>1, <2>2 DEF RxInOrder, ReaderAt, Arrived, Woken, Late
<1> QED
  BY <1>2, <1>3

LEMMA TxOther ==
  ASSUME TypeOK, TxInOrder, DmaStep("rx") \/ UNCHANGED vars,
         UNCHANGED <<writer, lines, block, sent>>, waited'["tx"] = waited["tx"]
  PROVE  TxInOrder'
<1>1. /\ ring'["tx"] = ring["tx"] /\ pc'["tx"] = pc["tx"] /\ irq'["tx"] = irq["tx"]
      /\ ioc'["tx"] = ioc["tx"]
  BY OtherChan DEF Chan, vars
<1> QED
  BY <1>1, TxFrame DEF SameGroups

LEMMA RxStep ==
  ASSUME ~ Relatch, DmaInv, CtrlInv, CtrlNext
  PROVE  RxInOrder'
<1>1. TypeOK /\ RxInOrder /\ waited \in [Chan -> {"none", "idle", "late"}]
  BY DEF DmaInv, CtrlInv, CtrlTypes
<1>2. CASE Write \/ EmptyLine \/ WriteComplete \/ Send \/ InCall("tx") \/ Numbers
  <2>1. UNCHANGED <<reader, cur, addr, mem, out, overran, waited>>
    BY <1>2 DEF Write, EmptyLine, WriteComplete, Send, InCall, Numbers, readerVars, writerVars
  <2>2. DmaStep("tx") \/ UNCHANGED vars
    BY <1>2 DEF Write, EmptyLine, NothingSent, WriteComplete, Send, InCall, Numbers, DmaStep
  <2> QED
    BY <1>1, <2>1, <2>2, RxOther
<1>3. CASE TimeOut("tx")
  <2>1. UNCHANGED <<reader, cur, addr, mem, out, overran>> /\ waited'["rx"] = waited["rx"] /\ DmaStep("tx")
    BY <1>1, <1>3 DEF TimeOut, readerVars, writerVars, DmaStep, Chan
  <2> QED
    BY <1>1, <2>1, RxOther
<1> QED
  BY <1>2, <1>3, RxReadStep, RxCompleteStep, RxPrintStep, RxReceiveStep, RxTimeOutStep,
     RxInCallStep, RxLineStep
     DEF CtrlNext, Chan

LEMMA TxStep ==
  ASSUME ~ Relatch, DmaInv, CtrlInv, CtrlNext
  PROVE  TxInOrder'
<1>1. TypeOK /\ TxInOrder /\ waited \in [Chan -> {"none", "idle", "late"}]
  BY DEF DmaInv, CtrlInv, CtrlTypes
<1>2. CASE ReadFirst \/ ReadNext \/ ReadComplete \/ PrintChunk \/ Receive \/ InCall("rx")
  <2>1. UNCHANGED <<writer, lines, block, sent, waited>>
    BY <1>2 DEF ReadFirst, ReadNext, Read, ReadComplete, PrintChunk, Receive, InCall, writerVars
  <2>2. DmaStep("rx") \/ UNCHANGED vars
    BY <1>2 DEF ReadFirst, ReadNext, Read, ReadComplete, PrintChunk, Receive, InCall, DmaStep
  <2> QED
    BY <1>1, <2>1, <2>2, TxOther
<1>3. CASE TimeOut("rx")
  <2>1. UNCHANGED <<writer, lines, block, sent>> /\ waited'["tx"] = waited["tx"] /\ DmaStep("rx")
    BY <1>1, <1>3 DEF TimeOut, writerVars, DmaStep, Chan
  <2> QED
    BY <1>1, <2>1, TxOther
<1> QED
  BY <1>2, <1>3, TxClientStep, TxWriteStep, TxSendStep, TxTimeOutStep, TxInCallStep DEF
     CtrlNext, Chan

LEMMA CtrlStep ==
  ASSUME ~ Relatch, DmaInv, CtrlInv, CtrlNext
  PROVE  CtrlInv'
<1>1. NoTrouble'
  <2>1. CASE \E ch \in Chan : DmaStep(ch)
    BY <2>1, TroubleFree DEF DmaInv, CtrlInv
  <2>2. CASE UNCHANGED vars
    BY <2>2 DEF CtrlInv, NoTrouble, TxWhole, vars, hwVars
  <2> QED
    BY <2>1, <2>2, CtrlSteps
<1>2. CtrlTypes'
  BY ClientTypes, LineTypes, ReadTypes, PrintTypes, HwTypes DEF CtrlNext, CtrlInv
<1> QED
  BY <1>1, <1>2, DeathsStep, HeldStep, RxStep, TxStep DEF CtrlInv

LEMMA CtrlStutter ==
  ASSUME CtrlInv, UNCHANGED <<vars, ctrlVars>>
  PROVE  CtrlInv'
<1> USE DEF vars, hwVars, ctrlVars, readerVars, writerVars, formatterVars
<1>1. CtrlTypes' /\ NoTrouble'
  BY DEF CtrlInv, CtrlTypes, NoTrouble, TxWhole
<1>2. HeldAreWide' /\ Deaths'
  BY DEF CtrlInv, HeldAreWide, Deaths, ThrowsAfterTimeouts
<1>3. RxInOrder'
  BY RxFrame DEF CtrlInv, SameGroups
<1>4. TxInOrder'
  BY TxFrame DEF CtrlInv, SameGroups
<1> QED
  BY <1>1, <1>2, <1>3, <1>4 DEF CtrlInv

LEMMA CtrlStart == CtrlInit => CtrlInv
<1> SUFFICES ASSUME CtrlInit PROVE CtrlInv
  OBVIOUS
<1>1. /\ \A ch \in Chan : /\ ring[ch] = EmptyRing /\ pc[ch] = "idle" /\ irq[ch] = 0
                          /\ ioc[ch] = FALSE /\ fault[ch] = "none" /\ ret[ch].kind # "throw"
      /\ running
  BY DEF CtrlInit, Init, Plain
<1>2. CtrlTypes
  <2>1. /\ addr \in Seq(Block) /\ Len(addr) = 0 /\ out \in Seq(Nat) /\ Len(out) = 0
        /\ sent \in Seq(Nat) /\ waited \in [Chan -> {"none", "idle", "late"}]
    BY DEF CtrlInit
  <2>2. ring["rx"].handed = 0 /\ ring["rx"].done = 0
    BY <1>1 DEF EmptyRing, Chan
  <2>3. alive \in BOOLEAN /\ overran \in BOOLEAN
    BY DEF CtrlInit
  <2> QED
    BY <2>1, <2>2, <2>3 DEF CtrlInit, CtrlTypes, Block
<1>3. NoTrouble
  BY <1>1 DEF NoTrouble, EmptyRing, TxWhole, Chan
<1>4. HeldAreWide
  BY DEF CtrlInit, HeldAreWide
<1>5. Deaths
  BY <1>1 DEF CtrlInit, Deaths, ThrowsAfterTimeouts
<1>6. RxInOrder
  BY <1>1 DEF CtrlInit, RxInOrder, ReaderAt, Arrived, Woken, Late, EmptyRing, Chan
<1>7. TxInOrder
  BY <1>1 DEF CtrlInit, TxInOrder, WriterAt, Quiet, Late, EmptyRing, Chan
<1> QED
  BY <1>2, <1>3, <1>4, <1>5, <1>6, <1>7 DEF CtrlInv

(* Both threads keep their place in the rings, whatever the timing.        *)
LEMMA CtrlInvariance ==
  ASSUME ~ Relatch
  PROVE  CtrlSpec => [](DmaInv /\ CtrlInv)
<1>1. DmaInv /\ CtrlInv /\ [CtrlNext]_<<vars, ctrlVars>> => CtrlInv'
  BY CtrlStep, CtrlStutter
<1> QED
  BY <1>1, CtrlStart, DmaInvariance, PTL DEF CtrlSpec

-----------------------------------------------------------------------------
(* ---- What the program promises ------------------------------------------- *)

(* The words that the formatter of the reader still holds are words that   *)
(* were too wide for their slot (utils.hpp:96-140).                        *)
THEOREM FormatterHoldsWideWords ==
  ASSUME ~ Relatch
  PROVE  CtrlSpec => []OnlyWideHeld
<1>1. CtrlInv => OnlyWideHeld
  BY DEF CtrlInv, HeldAreWide, OnlyWideHeld
<1> QED
  BY <1>1, CtrlInvariance, PTL

(* A call of read(), write(), readComplete() or writeComplete() throws     *)
(* only after a wait on its own side has timed out, so never when polling: *)
(* the ring never fills up, and no BD is found stopped or incomplete       *)
(* (dma.cpp:254, 399, 431, 509).                                           *)
THEOREM ExceptionsNeedTimeouts ==
  ASSUME ~ Relatch
  PROVE  CtrlSpec => []ThrowsAfterTimeouts
<1>1. CtrlInv => ThrowsAfterTimeouts
  BY DEF CtrlInv, Deaths
<1> QED
  BY <1>1, CtrlInvariance, PTL

(* Nothing arrives in the block that is printed, and nothing is sent from  *)
(* the block that the next line is stored to.                              *)
THEOREM BlocksAreNotShared ==
  ASSUME ~ Relatch
  PROVE  CtrlSpec => []BuffersQuiet
<1>1. ASSUME DmaInv, CtrlInv, reader = "print", pc["rx"] = "idle", waited["rx"] # "late",
             NEW p \in ring["rx"].done + 1 .. ring["rx"].handed
      PROVE  addr[p] # cur
  <2> DEFINE n == Len(out) + 1
  <2>1. ReaderAt(n) /\ n \in Nat
    BY <1>1 DEF CtrlInv, RxInOrder, Late, CtrlTypes
  <2>2. ring["rx"].taken = n /\ ring["rx"].handed = n + 1 /\ addr[n + 1] # cur
    BY <1>1, <2>1 DEF ReaderAt
  <2>3. p = n + 1
    BY <1>1, <2>1, <2>2, Groups, SMTT(60) DEF Chan
  <2> QED
    BY <2>2, <2>3
<1>2. ASSUME DmaInv, CtrlInv, writer = "line", pc["tx"] = "idle", waited["tx"] # "late"
      PROVE  ring["tx"].done = ring["tx"].handed
  BY <1>2 DEF CtrlInv, TxInOrder, WriterAt, Quiet, Late
<1>3. DmaInv /\ CtrlInv => BuffersQuiet
  BY <1>1, <1>2 DEF BuffersQuiet
<1> QED
  BY <1>3, CtrlInvariance, PTL

(* ---- The streams are kept ------------------------------------------------ *)

(* Only the engine makes a chunk enter, or sends a line.                   *)
LEMMA DoneKept ==
  ASSUME DmaInv, CtrlInv, CtrlNext, ~ Receive, ~ Send
  PROVE  ring'["rx"].done = ring["rx"].done
<1>1. CASE \/ PrintChunk \/ Numbers \/ ReadComplete \/ EmptyLine \/ WriteComplete
           \/ BadLine \/ LongLine
  BY <1>1 DEF PrintChunk, Numbers, BadLine, LongLine, ReadComplete, EmptyLine, WriteComplete, CompleteCall,
     NoTransfer, vars
<1>2. CASE Write
  BY <1>2, OtherChan DEF Write, DmaStep, DmaInv, Chan
<1>3. CASE ReadFirst \/ ReadNext
  <2>1. Post("rx")
    BY <1>3 DEF ReadFirst, ReadNext, Read
  <2>2. CASE UNCHANGED ring
    BY <2>2
  <2>3. CASE ring' = [ring EXCEPT !["rx"] = ToHw(Alloc(@, 1), 1)]
    BY <2>3, Groups, ToHwEffect DEF DmaInv, TypeOK, Chan
  <2> QED
    BY <2>1, <2>2, <2>3, PostEffect DEF DmaInv, CtrlInv, Chan
<1>4. ASSUME NEW ch \in Chan, InCall(ch) \/ TimeOut(ch)
      PROVE  ring'["rx"].done = ring["rx"].done
  <2>1. DmaStep(ch)
    BY <1>4 DEF InCall, TimeOut, DmaStep
  <2>2. pc[ch] # "idle" /\ pc' # pc
    BY <1>4 DEF InCall, TimeOut, WaitInterrupt, WaitTimeout, Lock, RxDrop, RxDropFree, RxAck, RxNoIoc,
                RxFetch, TxFetch, TxAck, Leave, DmaInv, TypeOK, Chan
  <2>3. ~ Post(ch) /\ ~ HwComplete(ch, TRUE)
    BY <2>2, HwEffect DEF Post, PostRingFull, PostMisaligned, PostOk, PostRejected, MayPost,
       DmaInv
  <2> QED
    BY <2>1, <2>3, GroupsKept DEF DmaInv, Chan
<1> QED
  BY <1>1, <1>2, <1>3, <1>4 DEF CtrlNext

LEMMA NextInStream ==
  ASSUME NEW s \in Seq(Nat), NEW x \in Nat, NEW t, t = Append(s, x), \A k \in 1 .. Len(t) : t[k] = k
  PROVE  x = Len(s) + 1
<1>1. Len(t) = Len(s) + 1 /\ t[Len(s) + 1] = x /\ Len(s) \in Nat
  OBVIOUS
<1> QED
  BY <1>1

LEMMA RxStreamStep ==
  ASSUME ~ Relatch, DmaInv, CtrlInv, CtrlNext
  PROVE  [RxStream!Next]_(RxStream!svars)
<1>1. CtrlTypes /\ RxInOrder
  BY DEF CtrlInv
<1>2. CASE Receive
  <2>1. ring'["rx"].done = ring["rx"].done + 1 /\ UNCHANGED <<out, waited, overran>>
    BY <1>2, HwEffect DEF Receive, DmaInv, Chan, formatterVars, writerVars
  <2> QED
    BY <2>1 DEF RxStream!Next, RxStream!Enter
<1>3. CASE Send
  <2>1. ring'["rx"] = ring["rx"] /\ UNCHANGED <<out, waited, overran>>
    BY <1>3, OtherChan DEF Send, DmaStep, DmaInv, Chan, readerVars
  <2> QED
    BY <2>1 DEF RxStream!svars
<1>4. CASE PrintChunk
  <2>1. ring' = ring /\ waited' = waited /\ overran' = overran /\ out' = out \o Words
    BY <1>4 DEF PrintChunk, Output, vars, writerVars
  <2>2. out \in Seq(Nat) /\ mem[cur] \in 0 .. ring["rx"].done /\ ring["rx"].done \in Nat
    BY <1>1, Groups DEF CtrlTypes, Chan
  <2>3. CASE Words = <<>>
    <3>1. out' = out
      BY <2>1, <2>2, <2>3
    <3> QED
      BY <2>1, <3>1 DEF RxStream!svars
  <2>4. CASE Words = <<mem[cur]>>
    <3>1. out' = Append(out, mem[cur])
      <4>1. PICK x \in Nat : x = mem[cur]
        BY <2>2
      <4> QED
        BY <2>1, <2>2, <2>4, <4>1
    <3>2. CASE waited["rx"] = "late" \/ overran
      BY <2>1, <2>2, <3>1, <3>2 DEF RxStream!Next, RxStream!LeaveAnything
    <3>3. CASE ~ (waited["rx"] = "late" \/ overran)
      <4>1. \A k \in 1 .. Len(out') : out'[k] = k
        BY <1>4, <2>1, <3>3, RxPrintStep DEF RxInOrder, Late, Arrived
      <4>2. mem[cur] = Len(out) + 1 /\ Len(out) \in Nat
        BY <2>2, <3>1, <4>1, NextInStream
      <4>3. Len(out) < ring["rx"].done
        BY <2>2, <4>2
      <4> QED
        BY <2>1, <3>1, <4>2, <4>3 DEF RxStream!Next, RxStream!Leave
    <3> QED
      BY <3>2, <3>3
  <2> QED
    BY <2>3, <2>4 DEF Words
<1>5. CASE CtrlNext /\ ~ Receive /\ ~ Send /\ ~ PrintChunk
  <2>1. ring'["rx"].done = ring["rx"].done
    BY <1>5, DoneKept
  <2>2. out' = out
    BY <1>5 DEF CtrlNext, ReadFirst, ReadNext, Read, ReadComplete, EmptyLine, Numbers,
                BadLine, LongLine, Write, WriteComplete, InCall, TimeOut, readerVars
  <2>3. \/ waited'["rx"] = "late" \/ overran'
        \/ UNCHANGED overran /\ (waited'["rx"] = "late" <=> waited["rx"] = "late")
    <3>1. ASSUME NEW c \in Chan, TimeOut(c)
          PROVE  \/ waited'["rx"] = "late"
                 \/ UNCHANGED overran /\ (waited'["rx"] = "late" <=> waited["rx"] = "late")
      <4>1. PICK w \in {"idle", "late"} :
              waited' = [waited EXCEPT ![c] = w] /\ (waited[c] = "late" => w = "late")
        BY <3>1 DEF TimeOut
      <4>2. UNCHANGED overran
        BY <3>1 DEF TimeOut, writerVars
      <4> QED
        BY <1>1, <4>1, <4>2 DEF CtrlTypes, Chan
    <3>2. CASE UNCHANGED <<waited, overran>> \/ overran'
      BY <3>2
    <3> QED
      BY <1>5, <3>1, <3>2 DEF CtrlNext, ReadFirst, ReadNext, Read, ReadComplete, EmptyLine, Write,
                  WriteComplete, InCall, Numbers, BadLine, LongLine, writerVars
  <2> QED
    BY <2>1, <2>2, <2>3 DEF RxStream!Next, RxStream!GiveUp, RxStream!svars
<1> QED
  BY <1>2, <1>3, <1>4, <1>5

(* What readFromDmaToStdOut() formats is what arrived, once each and in    *)
(* order, until a wait gave up on a chunk that was still to come.          *)
THEOREM ReaderKeepsStream ==
  ASSUME ~ Relatch
  PROVE  CtrlSpec => ImplementsRxStream
<1>1. CtrlInit => RxStream!Init
  BY DEF CtrlInit, Init, RxStream!Init, EmptyRing, Chan
<1>2. UNCHANGED <<vars, ctrlVars>> => UNCHANGED RxStream!svars
  BY DEF vars, ctrlVars, readerVars, writerVars, RxStream!svars
<1>3. DmaInv /\ CtrlInv /\ [CtrlNext]_<<vars, ctrlVars>> => [RxStream!Next]_(RxStream!svars)
  BY <1>2, RxStreamStep
<1> QED
  BY <1>1, <1>3, CtrlInvariance, PTL DEF CtrlSpec, ImplementsRxStream, RxStream!Spec

LEMMA TxStreamStep ==
  ASSUME ~ Relatch, DmaInv, CtrlInv, CtrlNext
  PROVE  [TxStream!Next]_(TxStream!svars)
<1>1. CtrlTypes
  BY DEF CtrlInv
<1>2. CASE Numbers
  BY <1>2 DEF Numbers, TxStream!Next, TxStream!Enter
<1>5. CASE LongLine
  BY <1>5 DEF LongLine, TxStream!Next, TxStream!Enter, TxStream!svars
<1>3. CASE Send
  <2>1. UNCHANGED <<lines, waited>> /\ sent' = Append(sent, block)
    BY <1>3 DEF Send
  <2>2. sent \in Seq(Nat) /\ block \in 0 .. lines /\ lines \in Nat
    BY <1>1 DEF CtrlTypes
  <2>3. CASE waited["tx"] = "late"
    BY <2>1, <2>2, <2>3 DEF TxStream!Next, TxStream!LeaveAnything
  <2>4. CASE waited["tx"] # "late"
    <3>1. \A k \in 1 .. Len(sent') : sent'[k] = k
      BY <1>3, <2>1, <2>4, TxSendStep DEF TxInOrder, Late
    <3>2. block = Len(sent) + 1 /\ Len(sent) \in Nat
      BY <2>1, <2>2, <3>1, NextInStream
    <3>3. Len(sent) < lines
      BY <2>2, <3>2
    <3> QED
      BY <2>1, <3>2, <3>3 DEF TxStream!Next, TxStream!Leave
  <2> QED
    BY <2>3, <2>4
<1>4. CASE CtrlNext /\ ~ Numbers /\ ~ LongLine /\ ~ Send
  <2>1. UNCHANGED <<lines, sent>>
    BY <1>4 DEF CtrlNext, ReadFirst, ReadNext, Read, ReadComplete, PrintChunk, EmptyLine, BadLine,
                Write, WriteComplete, InCall, TimeOut, Receive, writerVars
  <2>2. waited'["tx"] = "late" \/ (waited'["tx"] = "late" <=> waited["tx"] = "late")
    <3>1. ASSUME NEW c \in Chan, TimeOut(c)
          PROVE  waited'["tx"] = "late" \/ (waited'["tx"] = "late" <=> waited["tx"] = "late")
      <4>1. PICK w \in {"idle", "late"} :
              waited' = [waited EXCEPT ![c] = w] /\ (waited[c] = "late" => w = "late")
        BY <3>1 DEF TimeOut
      <4> QED
        BY <1>1, <4>1 DEF CtrlTypes, Chan
    <3>2. CASE UNCHANGED waited
      BY <3>2
    <3> QED
      BY <1>4, <3>1, <3>2 DEF CtrlNext, ReadFirst, ReadNext, Read, ReadComplete, EmptyLine, Write,
                  WriteComplete, InCall, PrintChunk, Receive, BadLine
  <2> QED
    BY <2>1, <2>2 DEF TxStream!Next, TxStream!GiveUp, TxStream!svars
<1> QED
  BY <1>2, <1>3, <1>4, <1>5

(* What the engine sends is what writeToDmaFromStdIn() read, once each and *)
(* in order, until a wait gave up on a line that was still to be sent.     *)
THEOREM WriterKeepsStream ==
  ASSUME ~ Relatch
  PROVE  CtrlSpec => ImplementsTxStream
<1>1. CtrlInit => TxStream!Init
  BY DEF CtrlInit, TxStream!Init, Chan
<1>2. UNCHANGED <<vars, ctrlVars>> => UNCHANGED TxStream!svars
  BY DEF ctrlVars, writerVars, TxStream!svars
<1>3. DmaInv /\ CtrlInv /\ [CtrlNext]_<<vars, ctrlVars>> => [TxStream!Next]_(TxStream!svars)
  BY <1>2, TxStreamStep
<1> QED
  BY <1>1, <1>3, CtrlInvariance, PTL DEF CtrlSpec, ImplementsTxStream, TxStream!Spec
=============================================================================
