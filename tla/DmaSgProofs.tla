----------------------------- MODULE DmaSgProofs -----------------------------
(***************************************************************************)
(* Theorems about DmaSg, for every ring size, every bound and every        *)
(* discipline of the clients.                                              *)
(***************************************************************************)
EXTENDS DmaSg, TLAPS

USE NAssumption, DmaAssumption

(* What wraps around below 0 or comes from waitForInterrupt() is a size_t. *)
LEMMA SizeT ==
  ASSUME NEW n \in Int PROVE n % (SizeMax + 1) \in 0 .. SizeMax
  OBVIOUS

(* What fits into a size_t is not changed by the conversion to it.         *)
LEMMA SizeTSmall ==
  ASSUME NEW n \in 0 .. SizeMax PROVE n % (SizeMax + 1) = n
  OBVIOUS

(* The countdown of partial batches stays a size_t.                        *)
LEMMA CountDownType ==
  ASSUME NEW n \in 0 .. SizeMax PROVE CountDown(n) \in 0 .. SizeMax
<1>1. n - 1 \in Int
  OBVIOUS
<1> QED
  BY <1>1, SizeT DEF CountDown

(* What a completion call reports has the type of its outcome.             *)
LEMMA CompletionType ==
  ASSUME NEW k \in Nat, NEW i \in Int PROVE Completion(k, i) \in Result
  BY SizeT DEF Completion, Result

(* So has every other outcome.                                             *)
LEMMA PlainType ==
  ASSUME NEW kind \in {"none", "true", "false", "throw"} PROVE Plain(kind) \in Result
  BY DEF Plain, Result

(* XAxiDma_BdRingAlloc leaves a ring.                                      *)
LEMMA AllocType == ASSUME NEW r \in Ring PROVE Alloc(r, 1) \in Ring
  BY DEF Alloc, Ring

(* XAxiDma_BdRingToHw leaves a ring.                                       *)
LEMMA ToHwType == ASSUME NEW r \in Ring PROVE ToHw(r, 1) \in Ring
  BY DEF ToHw, Ring

(* XAxiDma_BdRingFromHw leaves a ring.                                     *)
LEMMA FromHwType == ASSUME NEW r \in Ring, NEW k \in Nat PROVE FromHw(r, k) \in Ring
  BY DEF FromHw, Ring

(* XAxiDma_BdRingFree leaves a ring.                                       *)
LEMMA FreeType == ASSUME NEW r \in Ring, NEW k \in Nat PROVE Free(r, k) \in Ring
<1> DEFINE e == {p \in r.eof : p > r.freed + k}
<1>1. e \in SUBSET Nat
  BY DEF Ring
<1>2. r.freed + k \in Nat
  BY DEF Ring
<1> HIDE DEF e
<1>3. [r EXCEPT !.freed = @ + k, !.eof = e] \in Ring
  BY <1>1, <1>2 DEF Ring
<1> QED
  BY <1>3 DEF Free, e

(* The hardware leaves a ring when it completes a descriptor.              *)
LEMMA CompleteType ==
  ASSUME NEW r \in Ring, NEW last \in BOOLEAN PROVE Complete(r, last) \in Ring
<1> DEFINE e == IF last THEN r.eof \cup {r.done + 1} ELSE r.eof
<1>1. e \in SUBSET Nat
  BY DEF Ring
<1>2. r.done + 1 \in Nat
  BY DEF Ring
<1> HIDE DEF e
<1>3. [r EXCEPT !.done = @ + 1, !.eof = e] \in Ring
  BY <1>1, <1>2 DEF Ring
<1> QED
  BY <1>3 DEF Complete, e

(* The ring and the outcome that BdRingFree leaves have their types.       *)
LEMMA FinishType ==
  ASSUME TypeOK, NEW ch \in Chan, NEW r \in Ring, NEW k \in Nat, Finish(ch, r, k)
  PROVE  ring' \in [Chan -> Ring] /\ ret' \in [Chan -> Result]
<1>1. intrs[ch] \in Int
  BY DEF TypeOK
<1>2. Completion(k, intrs[ch]) \in Result /\ Plain("throw") \in Result
  BY <1>1, CompletionType, PlainType
<1>3. Free(r, k) \in Ring
  BY FreeType
<1> QED
  BY <1>2, <1>3 DEF Finish, Return, TypeOK

(* Every variable keeps its type: the counters of the rings stay naturals, *)
(* the countdown and the reported counts stay within size_t (Dma and its   *)
(* completion calls, dma.cpp:291-535).                                     *)
THEOREM TypeCorrect == Spec => []TypeOK
<1>1. Init => TypeOK
  BY PlainType DEF Init, TypeOK, EmptyRing, Ring, Chan
<1>2. TypeOK /\ [Next]_vars => TypeOK'
  <2> SUFFICES ASSUME TypeOK, [Next]_vars PROVE TypeOK'
    OBVIOUS
  <2> USE DEF Return, Leave, hwVars, PostFrame
  <2>1. ASSUME NEW ch \in Chan, NEW kind \in {"true", "false", "throw"}, NoTransfer(ch, kind)
        PROVE  TypeOK'
    BY <2>1, PlainType DEF NoTransfer, TypeOK
  <2>2. ASSUME NEW ch \in Chan, Post(ch)
        PROVE  TypeOK'
    <3>1. CASE PostRingFull(ch)
      BY <3>1, PlainType DEF PostRingFull, TypeOK
    <3>2. CASE PostMisaligned(ch)
      BY <3>2, PlainType, AllocType DEF PostMisaligned, TypeOK
    <3>3. CASE PostOk(ch)
      BY <3>3, PlainType, AllocType, ToHwType DEF PostOk, TypeOK
    <3>4. CASE PostRejected(ch)
      BY <3>4, PlainType, AllocType DEF PostRejected, TypeOK
    <3> QED
      BY <2>2, <3>1, <3>2, <3>3, <3>4 DEF Post
  <2>3. ASSUME NEW ch \in Chan, CompleteCall(ch)
        PROVE  TypeOK'
    BY <2>3, PlainType DEF CompleteCall, TypeOK
  <2>4. ASSUME NEW ch \in Chan, WaitInterrupt(ch)
        PROVE  TypeOK'
    BY <2>4 DEF WaitInterrupt, TypeOK
  <2>5. ASSUME NEW ch \in Chan, WaitTimeout(ch)
        PROVE  TypeOK'
    BY <2>5 DEF WaitTimeout, TypeOK
  <2>6. ASSUME NEW ch \in Chan, Lock(ch)
        PROVE  TypeOK'
    BY <2>6 DEF Lock, TypeOK
  <2>7. CASE RxDrop
    <3>1. PICK k \in 0 .. N :
            /\ ring' = [ring EXCEPT !["rx"] = FromHw(@, k)]
            /\ batch' = [batch EXCEPT !["rx"] = k]
      BY <2>7 DEF RxDrop
    <3>2. k \in Nat
      OBVIOUS
    <3>3. ring' \in [Chan -> Ring]
      BY <3>1, <3>2, FromHwType DEF TypeOK
    <3> QED
      BY <2>7, <3>1, <3>2, <3>3 DEF RxDrop, TypeOK
  <2>18. CASE RxDropFree
    <3> DEFINE r == Free(ring["rx"], batch["rx"])
    <3>1. r \in Ring
      BY FreeType DEF TypeOK, Chan
    <3>2. ring' = [ring EXCEPT !["rx"] = IF CanFree(@, batch["rx"]) THEN r ELSE @]
      BY <2>18 DEF RxDropFree
    <3> HIDE DEF r
    <3>3. ring' \in [Chan -> Ring]
      BY <3>1, <3>2 DEF TypeOK, Chan
    <3>4. Completion(0, 0) \in Result
      BY CompletionType
    <3> QED
      BY <2>18, <3>3, <3>4 DEF RxDropFree, TypeOK
  <2>8. CASE RxAck
    BY <2>8 DEF RxAck, TypeOK
  <2>9. CASE RxNoIoc
    <3>1. Completion(0, intrs["rx"]) \in Result
      BY CompletionType DEF TypeOK, Chan
    <3> QED
      BY <2>9, <3>1 DEF RxNoIoc, TypeOK
  <2>10. CASE RxFetch
    <3>1. PICK k \in 0 .. Coalesce :
            /\ \/ /\ ring' = [ring EXCEPT !["rx"] = FromHw(ring["rx"], k)]
                  /\ Return("rx", Plain("throw"))
               \/ Finish("rx", FromHw(ring["rx"], k), k)
            /\ errcnt' = [errcnt EXCEPT !["rx"] = IF k < Coalesce THEN CountDown(@) ELSE ErrInit]
      BY <2>10 DEF RxFetch
    <3>2. FromHw(ring["rx"], k) \in Ring /\ k \in Nat
      BY FromHwType, SMTT(60) DEF TypeOK, Chan, Coalesce
    <3>3. ring' \in [Chan -> Ring] /\ ret' \in [Chan -> Result]
      BY <3>1, <3>2, FinishType, PlainType DEF TypeOK, Chan
    <3>4. errcnt' \in [Chan -> 0 .. SizeMax]
      BY <3>1, CountDownType DEF TypeOK, Chan
    <3> QED
      BY <2>10, <3>3, <3>4 DEF RxFetch, TypeOK
  <2>11. CASE TxFetch
    <3>1. PICK k \in 0 .. Coalesce :
            /\ ring' = [ring EXCEPT !["tx"] = FromHw(@, k)]
            /\ errcnt' = [errcnt EXCEPT !["tx"] = IF k < Coalesce THEN CountDown(@) ELSE @]
            /\ \/ /\ Return("tx", Plain("throw"))
                  /\ hwLock' = NoOwner
                  /\ Leave("tx")
               \/ /\ pc' = [pc EXCEPT !["tx"] = "ack"]
                  /\ batch' = [batch EXCEPT !["tx"] = k]
                  /\ UNCHANGED <<hwLock, intrs, ret>>
      BY <2>11 DEF TxFetch
    <3>2. k \in Nat
      BY DEF Coalesce
    <3>3. ring' \in [Chan -> Ring]
      BY <3>1, <3>2, FromHwType DEF TypeOK
    <3>4. errcnt' \in [Chan -> 0 .. SizeMax]
      BY <3>1, CountDownType DEF TypeOK, Chan
    <3> QED
      BY <2>11, <3>1, <3>2, <3>3, <3>4, PlainType DEF TxFetch, TypeOK
  <2>12. CASE TxAck
    <3>1. ring' \in [Chan -> Ring] /\ ret' \in [Chan -> Result]
      BY <2>12, FinishType DEF TxAck, TypeOK, Chan
    <3> QED
      BY <2>12, <3>1 DEF TxAck, TypeOK
  <2>13. ASSUME NEW ch \in Chan, NEW last \in BOOLEAN, HwComplete(ch, last)
         PROVE  TypeOK'
    <3>1. ring' \in [Chan -> Ring]
      BY <2>13, CompleteType DEF HwComplete, TypeOK
    <3>2. CASE Raise(ch)
      BY <2>13, <3>1, <3>2 DEF HwComplete, Raise, TypeOK
    <3>3. CASE UNCHANGED <<ioc, irq>>
      BY <2>13, <3>1, <3>3 DEF HwComplete, TypeOK
    <3> QED
      BY <2>13, <3>2, <3>3 DEF HwComplete
  <2>14. ASSUME NEW ch \in Chan, NEW kind \in Faults, NEW last \in BOOLEAN,
                HwFault(ch, kind, last)
         PROVE  TypeOK'
    <3>1. ring' \in [Chan -> Ring]
      BY <2>14, CompleteType DEF HwFault, TypeOK
    <3> QED
      BY <2>14, <3>1 DEF HwFault, TypeOK
  <2>15. CASE ResetDone
    BY <2>15 DEF ResetDone, TypeOK
  <2>16. CASE ResetTimedOut
    BY <2>16 DEF ResetTimedOut, TypeOK
  <2>17. CASE UNCHANGED vars
    BY <2>17 DEF vars, TypeOK
  <2> QED
    BY <2>1, <2>2, <2>3, <2>4, <2>5, <2>6, <2>7, <2>8, <2>9, <2>10, <2>11, <2>12,
       <2>13, <2>14, <2>15, <2>16, <2>17, <2>18
    DEF Next, Thread, Hardware, Chan
<1> QED
  BY <1>1, <1>2, PTL DEF Spec

-----------------------------------------------------------------------------
(* What the calls of the driver do to an ordered ring.                     *)
LEMMA PostOrdered ==
  ASSUME NEW r \in Ring, Ordered(r), CanAlloc(r, 1)
  PROVE  \A q \in {Alloc(r, 1), ToHw(Alloc(r, 1), 1)} :
           Ordered(q) /\ q.taken = r.taken /\ q.freed = r.freed /\ q.done = r.done
<1>1. ASSUME NEW q, q = Alloc(r, 1)
      PROVE  Ordered(q) /\ q.taken = r.taken /\ q.freed = r.freed /\ q.done = r.done
  BY <1>1 DEF Ring, Ordered, CanAlloc, FreeCnt, Alloc
<1>2. ASSUME NEW q, q = ToHw(Alloc(r, 1), 1)
      PROVE  Ordered(q) /\ q.taken = r.taken /\ q.freed = r.freed /\ q.done = r.done
  BY <1>2 DEF Ring, Ordered, CanAlloc, FreeCnt, Alloc, ToHw
<1> QED
  BY <1>1, <1>2

(* The hardware completes only what it was handed, so the order stays.     *)
LEMMA CompleteOrdered ==
  ASSUME NEW r \in Ring, NEW last \in BOOLEAN, Ordered(r), r.done < r.handed
  PROVE  Ordered(Complete(r, last))
  BY DEF Ring, Ordered, Complete

(* Taking back complete descriptors keeps the order.                       *)
LEMMA FromHwOrdered ==
  ASSUME NEW r \in Ring, NEW k \in Nat, Ordered(r), k <= r.done - r.taken
  PROVE  /\ Ordered(FromHw(r, k))
         /\ FromHw(r, k).taken = r.taken + k
         /\ FromHw(r, k).freed = r.freed
  BY DEF Ring, Ordered, FromHw

(* Freeing the whole post group keeps the order and empties the group.     *)
LEMMA FreeOrdered ==
  ASSUME NEW r \in Ring, NEW k \in Nat, Ordered(r), CanFree(r, k)
  PROVE  Ordered(Free(r, k)) /\ Free(r, k).taken = Free(r, k).freed
<1>1. /\ Free(r, k).alloc = r.alloc /\ Free(r, k).handed = r.handed
      /\ Free(r, k).done = r.done /\ Free(r, k).taken = r.taken
      /\ Free(r, k).freed = r.freed + k
  BY DEF Ring, Free
<1> QED
  BY <1>1 DEF Ring, Ordered, CanFree

RingInv == RingsOrdered /\ NothingHeldBack

(* No step takes a descriptor out of ring order or leaves one behind in    *)
(* the post group, except the one a bus error stopped the engine at, so no *)
(* call of BdRingFree fails (dma.cpp:450, 529).  The two parts are         *)
(* inductive only together: Free finds its BDs at the head of the post     *)
(* group because nothing was left there before.                            *)
THEOREM RingsSound == Spec => []RingInv
<1>1. Init => RingInv
  BY DEF Init, RingInv, RingsOrdered, NothingHeldBack, InHand, Ordered, EmptyRing, Chan
<1>2. TypeOK /\ RingInv /\ [Next]_vars => RingInv'
  <2> SUFFICES ASSUME TypeOK, RingInv, [Next]_vars PROVE RingInv'
    OBVIOUS
  <2> USE DEF Return, Leave, hwVars, PostFrame
  <2> DEFINE Held(ch) == IF pc[ch] = (IF ch = "tx" THEN "ack" ELSE "free") THEN batch[ch] ELSE 0
             Stuck(ch, q) == fault[ch] = "marked" /\ q.taken = q.done
             Good(ch) == /\ Ordered(ring[ch])
                         /\ ring[ch].taken = ring[ch].freed + Held(ch) \/ Stuck(ch, ring[ch])
  <2>0. (\A ch \in Chan : Good(ch)) /\ ((\A ch \in Chan : Good(ch))' => RingInv')
    BY DEF RingInv, RingsOrdered, NothingHeldBack, InHand
  <2>1. ASSUME NEW c \in Chan, UNCHANGED <<ring, fault, batch>>, NEW to,
               pc' = [pc EXCEPT ![c] = to], pc[c] \notin {"ack", "free"},
               to \notin {"ack", "free"} \/ (to = "ack" /\ c = "rx")
        PROVE  RingInv'
    BY <2>0, <2>1 DEF TypeOK, Chan
  <2>2. CASE UNCHANGED <<ring, fault, batch, pc>>
    BY <2>0, <2>2
  <2>3. ASSUME NEW c \in Chan, NEW kind, NoTransfer(c, kind) PROVE RingInv'
    BY <2>2, <2>3 DEF NoTransfer
  <2>4. ASSUME NEW c \in Chan, Post(c) PROVE RingInv'
    <3>1. CASE PostRingFull(c)
      BY <2>2, <3>1 DEF PostRingFull
    <3>2. ASSUME CanAlloc(ring[c], 1), NEW q \in {Alloc(ring[c], 1), ToHw(Alloc(ring[c], 1), 1)},
                 ring' = [ring EXCEPT ![c] = q], UNCHANGED <<fault, pc, batch>>
          PROVE  RingInv'
      <4>1. /\ Ordered(q) /\ q.taken = ring[c].taken /\ q.freed = ring[c].freed
            /\ q.done = ring[c].done
        BY <2>0, <3>2, PostOrdered DEF TypeOK
      <4>2. Good(c)'
        BY <2>0, <3>2, <4>1 DEF TypeOK
      <4>3. \A ch \in Chan \ {c} : Good(ch)'
        BY <2>0, <3>2 DEF TypeOK
      <4> QED
        BY <2>0, <4>2, <4>3
    <3>3. CASE PostMisaligned(c) \/ PostRejected(c)
      BY <3>2, <3>3 DEF PostMisaligned, PostRejected, TypeOK
    <3>4. CASE PostOk(c)
      BY <3>2, <3>4 DEF PostOk, TypeOK
    <3> QED
      BY <2>4, <3>1, <3>3, <3>4 DEF Post
  <2>5. ASSUME NEW c \in Chan, CompleteCall(c) \/ WaitInterrupt(c) \/ WaitTimeout(c) \/ Lock(c)
        PROVE  RingInv'
    BY <2>1, <2>5 DEF CompleteCall, WaitInterrupt, WaitTimeout, Lock, Chan
  <2>6. CASE RxAck \/ RxNoIoc
    BY <2>0, <2>6 DEF RxAck, RxNoIoc, TypeOK, Chan
  (* The BDs that FromHw returned to the receiving call are freed by it,   *)
  (* unless they hold the error that stopped the engine.                   *)
  <2>7. ASSUME NEW q \in Ring, Ordered(q), q.taken = q.freed \/ Stuck("rx", q),
               ring' = [ring EXCEPT !["rx"] = q], fault' = fault,
               pc' = [pc EXCEPT !["rx"] = "idle"], batch' = [batch EXCEPT !["rx"] = 0]
        PROVE  RingInv'
    <3>1. Good("rx")'
      BY <2>7 DEF TypeOK, Chan, Ring
    <3>2. Good("tx")'
      BY <2>0, <2>7 DEF TypeOK, Chan
    <3> QED
      BY <2>0, <3>1, <3>2 DEF Chan
  <2>8. ASSUME NEW k \in Nat, k <= ring["rx"].done - ring["rx"].taken, NEW r,
               pc["rx"] # "free", r = FromHw(ring["rx"], k)
        PROVE  /\ r \in Ring /\ Ordered(r)
               /\ r.taken = r.freed + k \/ Stuck("rx", r)
               /\ k = 0 => r.taken = r.freed \/ Stuck("rx", r)
               /\ ~ CanFree(r, k) => k = 0
               /\ CanFree(r, k) =>
                    /\ Free(r, k) \in Ring /\ Ordered(Free(r, k))
                    /\ Free(r, k).taken = Free(r, k).freed
    <3>1. ring["rx"] \in Ring /\ Ordered(ring["rx"])
          /\ (ring["rx"].taken = ring["rx"].freed \/ Stuck("rx", ring["rx"]))
      BY <2>0, <2>8 DEF TypeOK, Chan, Ring
    <3>2. /\ r \in Ring /\ Ordered(r) /\ r.taken = ring["rx"].taken + k
          /\ r.freed = ring["rx"].freed /\ r.done = ring["rx"].done
      BY <2>8, <3>1, FromHwType, FromHwOrdered DEF FromHw, Ring
    <3>3. Stuck("rx", ring["rx"]) => k = 0
      BY <2>8, <3>1 DEF Ring
    <3>4. ~ CanFree(r, k) => k = 0
      BY <3>1, <3>2, <3>3 DEF CanFree
    <3>5. r.taken = r.freed + k \/ Stuck("rx", r)
      BY <3>1, <3>2, <3>3 DEF Ring
    <3>6. k = 0 => r.taken = r.freed \/ Stuck("rx", r)
      BY <3>2, <3>5 DEF Ring
    <3> QED
      BY <3>2, <3>4, <3>5, <3>6, FreeType, FreeOrdered
  <2>9. CASE RxDrop
    <3>1. PICK k \in 0 .. N :
            /\ IsFromHw(ring["rx"], N, k)
            /\ ring' = [ring EXCEPT !["rx"] = FromHw(@, k)]
            /\ batch' = [batch EXCEPT !["rx"] = k]
      BY <2>9 DEF RxDrop
    <3>2. k \in Nat /\ k <= ring["rx"].done - ring["rx"].taken
      BY <3>1 DEF IsFromHw
    <3>3. PICK r : r = FromHw(ring["rx"], k)
      OBVIOUS
    <3>4. Ordered(r) /\ (r.taken = r.freed + k \/ Stuck("rx", r))
      BY <2>8, <2>9, <3>2, <3>3 DEF RxDrop
    <3>5. /\ ring'["rx"] = r /\ ring'["tx"] = ring["tx"] /\ fault' = fault
          /\ Held("rx")' = k /\ Held("tx")' = Held("tx")
      BY <2>9, <3>1, <3>3 DEF TypeOK, Chan, RxDrop
    <3>6. Good("rx")' /\ Good("tx")'
      BY <2>0, <3>4, <3>5 DEF Chan
    <3> QED
      BY <2>0, <3>6 DEF Chan
  <2>17. CASE RxDropFree
    <3>1. PICK b : b = batch["rx"]
      OBVIOUS
    <3>2. /\ ring["rx"] \in Ring /\ Ordered(ring["rx"]) /\ b \in Nat
          /\ CanFree(ring["rx"], b) \/ Stuck("rx", ring["rx"])
      BY <2>0, <2>17, <3>1 DEF RxDropFree, CanFree, TypeOK, Chan
    <3>3. ring' = [ring EXCEPT !["rx"] = IF CanFree(ring["rx"], b) THEN Free(ring["rx"], b) ELSE ring["rx"]]
      BY <2>17, <3>1 DEF RxDropFree
    <3>4. CASE CanFree(ring["rx"], b)
      <4>1. /\ Free(ring["rx"], b) \in Ring /\ Ordered(Free(ring["rx"], b))
            /\ Free(ring["rx"], b).taken = Free(ring["rx"], b).freed
        BY <3>2, <3>4, FreeType, FreeOrdered
      <4> QED
        BY <2>7, <2>17, <3>3, <3>4, <4>1 DEF RxDropFree
    <3>5. CASE ~ CanFree(ring["rx"], b)
      <4>1. ring["rx"] \in Ring /\ Ordered(ring["rx"]) /\ Stuck("rx", ring["rx"])
        BY <3>2, <3>5
      <4> QED
        BY <2>7, <2>17, <3>3, <3>5, <4>1 DEF RxDropFree
    <3> QED
      BY <3>4, <3>5
  <2>10. CASE RxFetch
    <3>1. PICK k \in 0 .. Coalesce :
            /\ IsFromHw(ring["rx"], Coalesce, k)
            /\ \/ /\ k < Coalesce
                  /\ ring' = [ring EXCEPT !["rx"] = FromHw(ring["rx"], k)]
               \/ Finish("rx", FromHw(ring["rx"], k), k)
      BY <2>10 DEF RxFetch
    <3>2. k \in Nat /\ k <= ring["rx"].done - ring["rx"].taken /\ (k < Coalesce => k = 0)
      BY <3>1 DEF IsFromHw, Coalesce
    <3> DEFINE r == FromHw(ring["rx"], k)
    <3>3. \/ ring' = [ring EXCEPT !["rx"] = r] /\ (k = 0 \/ Stuck("rx", r) \/ ~ CanFree(r, k))
          \/ ring' = [ring EXCEPT !["rx"] = Free(r, k)] /\ CanFree(r, k)
      BY <3>1, <3>2 DEF Finish, BadStatus
    <3> HIDE DEF r
    <3>4. CASE ring' = [ring EXCEPT !["rx"] = r] /\ (k = 0 \/ Stuck("rx", r) \/ ~ CanFree(r, k))
      <4>1. r \in Ring /\ Ordered(r) /\ (r.taken = r.freed \/ Stuck("rx", r))
        BY <2>8, <2>10, <3>2, <3>4 DEF r, RxFetch
      <4> QED
        BY <2>7, <2>10, <3>4, <4>1 DEF RxFetch
    <3>5. CASE ring' = [ring EXCEPT !["rx"] = Free(r, k)] /\ CanFree(r, k)
      <4>1. Free(r, k) \in Ring /\ Ordered(Free(r, k)) /\ Free(r, k).taken = Free(r, k).freed
        BY <2>8, <2>10, <3>2, <3>5 DEF r, RxFetch
      <4> QED
        BY <2>7, <2>10, <3>5, <4>1 DEF RxFetch
    <3> QED
      BY <3>3, <3>4, <3>5
  <2>11. CASE TxFetch
    <3>1. PICK k \in 0 .. Coalesce :
            /\ IsFromHw(ring["tx"], Coalesce, k)
            /\ ring' = [ring EXCEPT !["tx"] = FromHw(@, k)]
            /\ \/ /\ k < Coalesce
                  /\ Leave("tx")
               \/ /\ pc' = [pc EXCEPT !["tx"] = "ack"]
                  /\ batch' = [batch EXCEPT !["tx"] = k]
      BY <2>11 DEF TxFetch
    <3>2. k \in Nat /\ k <= ring["tx"].done - ring["tx"].taken /\ (k < Coalesce => k = 0)
      BY <3>1 DEF IsFromHw, Coalesce
    <3> DEFINE q == FromHw(ring["tx"], k)
    <3>3. /\ Ordered(q) /\ q.done = ring["tx"].done
          /\ q.taken = ring["tx"].taken + k /\ q.freed = ring["tx"].freed
      BY <2>0, <3>2, FromHwOrdered DEF TypeOK, Chan, FromHw, Ring
    <3>4. /\ ring["tx"].taken = ring["tx"].freed \/ Stuck("tx", ring["tx"])
          /\ ring["tx"].taken \in Nat /\ ring["tx"].done \in Nat /\ ring["tx"].freed \in Nat
      BY <2>0, <2>11 DEF TxFetch, Chan, TypeOK, Ring
    <3>5. q.taken = q.freed + k \/ Stuck("tx", q)
      BY <3>2, <3>3, <3>4
    <3> HIDE DEF q
    <3>6. /\ ring'["tx"] = q /\ ring'["rx"] = ring["rx"] /\ fault' = fault
          /\ ((Held("tx"))' = k \/ (k = 0 /\ (Held("tx"))' = 0)) /\ Held("rx")' = Held("rx")
      BY <3>1, <3>2, <2>11 DEF TypeOK, Chan, TxFetch, q
    <3>7. Good("tx")'
      BY <3>3, <3>5, <3>6
    <3>8. Good("rx")'
      BY <2>0, <3>6 DEF Chan
    <3> QED
      BY <2>0, <3>7, <3>8 DEF Chan
  <2>12. CASE TxAck
    <3> DEFINE q == ring'["tx"]
    <3>1. /\ ring["tx"] \in Ring /\ batch["tx"] \in Nat /\ Ordered(ring["tx"])
          /\ CanFree(ring["tx"], batch["tx"]) \/ Stuck("tx", ring["tx"])
      BY <2>0, <2>12 DEF TxAck, CanFree, Chan, TypeOK
    <3>2. /\ fault' = fault /\ ring'["rx"] = ring["rx"] /\ Held("tx")' = 0
          /\ Held("rx")' = Held("rx") /\ Finish("tx", ring["tx"], batch["tx"])
      BY <2>12 DEF TxAck, Finish, TypeOK, Chan
    <3>3. \/ q = ring["tx"] /\ (batch["tx"] = 0 \/ Stuck("tx", ring["tx"]))
          \/ q = Free(ring["tx"], batch["tx"]) /\ CanFree(ring["tx"], batch["tx"])
      BY <3>1, <3>2 DEF Finish, BadStatus, TypeOK, Chan
    <3>4. /\ Ordered(q)
          /\ q.taken = q.freed \/ Stuck("tx", q)
          /\ q.freed \in Nat
      <4>1. CASE q = ring["tx"] /\ (batch["tx"] = 0 \/ Stuck("tx", ring["tx"]))
        BY <3>1, <4>1 DEF CanFree, Ring
      <4>2. CASE q = Free(ring["tx"], batch["tx"]) /\ CanFree(ring["tx"], batch["tx"])
        <5>1. q \in Ring /\ Ordered(q) /\ q.taken = q.freed
          BY <3>1, <4>2, FreeOrdered, FreeType
        <5> QED
          BY <5>1 DEF Ring
      <4> QED
        BY <3>3, <4>1, <4>2
    <3>5. Good("tx")'
      BY <3>2, <3>4
    <3>6. Good("rx")'
      BY <2>0, <3>2 DEF Chan
    <3> QED
      BY <2>0, <3>5, <3>6 DEF Chan
  <2>13. ASSUME NEW c \in Chan, NEW last \in BOOLEAN, NEW q \in {ring[c], Complete(ring[c], last)},
                Active(c), ring' = [ring EXCEPT ![c] = q], UNCHANGED <<pc, batch>>,
                \A ch \in Chan \ {c} : fault'[ch] = fault[ch]
         PROVE  RingInv'
    <3>1. Ordered(ring[c]) /\ ring[c].taken = ring[c].freed + Held(c)
      BY <2>0, <2>13 DEF Active
    <3>2. Ordered(Complete(ring[c], last))
      BY <2>13, <3>1, CompleteOrdered DEF Active, TypeOK
    <3>3. /\ Complete(ring[c], last).taken = ring[c].taken
          /\ Complete(ring[c], last).freed = ring[c].freed
      BY DEF Complete, TypeOK, Ring
    <3>4. Ordered(q) /\ q.taken = q.freed + Held(c)
      BY <2>13, <3>1, <3>2, <3>3
    <3>5. Good(c)'
      BY <2>13, <3>4 DEF TypeOK
    <3>6. \A ch \in Chan \ {c} : Good(ch)'
      BY <2>0, <2>13 DEF TypeOK
    <3> QED
      BY <2>0, <3>5, <3>6
  <2>14. ASSUME NEW c \in Chan, NEW last \in BOOLEAN, HwComplete(c, last) PROVE RingInv'
    BY <2>13, <2>14 DEF HwComplete
  <2>15. ASSUME NEW c \in Chan, NEW kind, NEW last \in BOOLEAN, HwFault(c, kind, last)
         PROVE  RingInv'
    BY <2>13, <2>15 DEF HwFault, TypeOK
  <2>16. CASE ResetDone \/ ResetTimedOut \/ UNCHANGED vars
    BY <2>2, <2>16 DEF ResetDone, ResetTimedOut, vars
  <2> QED
    BY <2>3, <2>4, <2>5, <2>6, <2>9, <2>10, <2>11, <2>12, <2>14, <2>15, <2>16, <2>17
    DEF Next, Thread, Hardware, Chan
<1> QED
  BY <1>1, <1>2, TypeCorrect, PTL DEF Spec

-----------------------------------------------------------------------------
(* The handshake between the engine, the interrupt controller and the      *)
(* completion calls, with an interrupt controller that latches edges.      *)

(* Receiving acknowledges first: the IOC bit is up exactly while its event *)
(* waits in the interrupt controller or in the thread that took it.        *)
RxSignal ==
  /\ irq["rx"] <= 1
  /\ pc["rx"] \in {"lock", "ack", "fetch"} => intrs["rx"] = 1
  /\ running =>
       /\ ioc["rx"] <=> irq["rx"] = 1 \/ pc["rx"] \in {"lock", "ack"}
       /\ irq["rx"] = 1 => pc["rx"] \notin {"lock", "ack"}

(* Transmitting acknowledges last, or not at all if it throws; it throws   *)
(* only when it found no complete BD, and then the IOC bit is down.        *)
TxSignal ==
  /\ pc["tx"] # "drop"
  /\ \A p \in Nat : ring["tx"].taken < p /\ p <= ring["tx"].done => p \in ring["tx"].eof
  /\ running /\ ioc["tx"] =>
       /\ irq["tx"] > 0 \/ pc["tx"] \in {"lock", "fetch", "ack"}
       /\ pc["tx"] # "ack" => ring["tx"].done > ring["tx"].taken

SignalInv == LockReleased /\ RxSignal /\ TxSignal /\ AtMostOneInterrupt

(* The two properties of a woken thread follow from the invariant.         *)
LEMMA SignalImplies == TypeOK /\ SignalInv => IocExpected /\ NoWedge
  BY DEF TypeOK, SignalInv, LockReleased, RxSignal, TxSignal, IocExpected, NoWedge,
         Critical, Chan

(* Nothing is signalled at the start.                                      *)
LEMMA SignalInit == Init => SignalInv
  BY DEF Init, SignalInv, LockReleased, RxSignal, TxSignal, AtMostOneInterrupt,
         Critical, Chan, EmptyRing, Plain

(* A transmit BD in the ring is a frame of its own, so a complete one is   *)
(* always returned.                                                        *)
LEMMA TxPartialMeansNone ==
  ASSUME TypeOK, TxSignal, RingsOrdered, NEW k \in 0 .. Coalesce,
         IsFromHw(ring["tx"], Coalesce, k), k < Coalesce
  PROVE  ring["tx"].done = ring["tx"].taken
<1>1. /\ ring["tx"].taken \in Nat /\ ring["tx"].done \in Nat
      /\ ring["tx"].taken <= ring["tx"].done
  BY DEF TypeOK, Chan, Ring, RingsOrdered, Ordered
<1>2. k = 0
  BY DEF Coalesce
<1>3. 1 <= ring["tx"].done - ring["tx"].taken => ~ Whole(ring["tx"], 1)
  BY <1>2 DEF IsFromHw, Coalesce
<1>4. 1 <= ring["tx"].done - ring["tx"].taken => ring["tx"].taken + 1 \in ring["tx"].eof
  BY <1>1 DEF TxSignal
<1> QED
  BY <1>1, <1>3, <1>4 DEF Whole

(* How the ring operations change what TxSignal says about the tx ring.    *)
TxWhole(r) == \A p \in Nat : r.taken < p /\ p <= r.done => p \in r.eof

(* Every call, and the hardware, keeps each complete transmit BD whole.    *)
LEMMA TxWholeKept ==
  ASSUME NEW r \in Ring, TxWhole(r), NEW k \in Nat
  PROVE  /\ TxWhole(Alloc(r, 1)) /\ TxWhole(ToHw(Alloc(r, 1), 1))
         /\ TxWhole(FromHw(r, k)) /\ TxWhole(Complete(r, TRUE))
         /\ CanFree(r, k) => TxWhole(Free(r, k))
<1>1. TxWhole(Alloc(r, 1))
  BY DEF TxWhole, Alloc, Ring
<1>2. TxWhole(ToHw(Alloc(r, 1), 1))
  BY DEF TxWhole, Alloc, ToHw, Ring
<1>3. TxWhole(FromHw(r, k))
  BY DEF TxWhole, FromHw, Ring
<1>4. TxWhole(Complete(r, TRUE))
  <2>1. /\ Complete(r, TRUE).taken = r.taken /\ Complete(r, TRUE).done = r.done + 1
        /\ Complete(r, TRUE).eof = r.eof \cup {r.done + 1}
        /\ r.done \in Nat /\ r.taken \in Nat
    BY DEF Complete, Ring
  <2>2. ASSUME NEW p \in Nat, r.taken < p, p <= r.done + 1 PROVE p \in r.eof \cup {r.done + 1}
    <3>1. p <= r.done \/ p = r.done + 1
      BY <2>1, <2>2
    <3> QED
      BY <2>2, <3>1 DEF TxWhole
  <2> QED
    BY <2>1, <2>2 DEF TxWhole
<1>5. ASSUME CanFree(r, k) PROVE TxWhole(Free(r, k))
  <2>1. /\ Free(r, k).taken = r.taken /\ Free(r, k).done = r.done
        /\ Free(r, k).eof = {p \in r.eof : p > r.freed + k}
    BY DEF Free, Ring
  <2> QED
    BY <1>5, <2>1 DEF TxWhole, CanFree, Ring
<1> QED
  BY <1>1, <1>2, <1>3, <1>4, <1>5

(* Each step keeps the invariant about the signals and the mutex.          *)
LEMMA SignalStep ==
  ASSUME ~ Relatch, TypeOK, RingInv, SignalInv, [Next]_vars
  PROVE  SignalInv'
<1> USE DEF Return, Leave, hwVars, PostFrame
<1>0. /\ ring["tx"] \in Ring /\ TxWhole(ring["tx"]) /\ RingsOrdered
      /\ ring["tx"].done \in Nat /\ ring["tx"].taken \in Nat
      /\ ring["tx"].taken <= ring["tx"].done
  BY DEF SignalInv, TxSignal, TxWhole, TypeOK, Chan, Ring, RingInv, RingsOrdered, Ordered
(* Only the tx ring, and of it three fields, occur in the invariant.       *)
<1>1. ASSUME NEW q \in Ring, TxWhole(q), ring' = [ring EXCEPT !["tx"] = q],
             q.taken = ring["tx"].taken, q.done = ring["tx"].done,
             UNCHANGED <<ioc, irq, running, hwLock, pc, intrs>>,
             ret'["rx"].interrupts <= 1
      PROVE  SignalInv'
  BY <1>0, <1>1 DEF SignalInv, LockReleased, RxSignal, TxSignal, TxWhole,
     AtMostOneInterrupt, TypeOK, Chan, Critical
<1>2. ASSUME ring'["tx"] = ring["tx"],
             UNCHANGED <<ioc, irq, running, hwLock, pc, intrs>>,
             ret'["rx"].interrupts <= 1
      PROVE  SignalInv'
  BY <1>2 DEF SignalInv, LockReleased, RxSignal, TxSignal,
     AtMostOneInterrupt, TypeOK, Chan, Critical
<1>3. ASSUME NEW c \in Chan, NEW r, ret' = [ret EXCEPT ![c] = r], r.interrupts <= 1
      PROVE  ret'["rx"].interrupts <= 1
  BY <1>3 DEF SignalInv, AtMostOneInterrupt, TypeOK, Chan
<1>4. \A kind : Plain(kind).interrupts <= 1
  BY DEF Plain
<1>5. ASSUME NEW c \in Chan, NEW kind, NoTransfer(c, kind) PROVE SignalInv'
  BY <1>2, <1>3, <1>4, <1>5 DEF NoTransfer
<1>6. ASSUME NEW c \in Chan, Post(c) PROVE SignalInv'
  <2>1. ret'["rx"].interrupts <= 1
    BY <1>3, <1>4, <1>6 DEF Post, PostRingFull, PostMisaligned, PostOk, PostRejected
  <2>2. CASE PostRingFull(c) \/ c = "rx"
    BY <1>2, <1>6, <2>1, <2>2
    DEF Post, PostRingFull, PostMisaligned, PostOk, PostRejected, TypeOK, Chan
  <2>3. ASSUME c = "tx", NEW q \in {Alloc(ring[c], 1), ToHw(Alloc(ring[c], 1), 1)},
               ring' = [ring EXCEPT ![c] = q],
               UNCHANGED <<ioc, irq, running, hwLock, pc, intrs>>
        PROVE  SignalInv'
    <3>1. /\ q \in Ring /\ TxWhole(q)
          /\ q.taken = ring["tx"].taken /\ q.done = ring["tx"].done
      <4>1. CASE q = Alloc(ring["tx"], 1)
        BY <1>0, <4>1, AllocType, TxWholeKept DEF Alloc, Ring
      <4>2. CASE q = ToHw(Alloc(ring["tx"], 1), 1)
        BY <1>0, <4>2, AllocType, ToHwType, TxWholeKept, ZenonT(60) DEF Alloc, ToHw, Ring
      <4> QED
        BY <2>3, <4>1, <4>2
    <3> QED
      BY <1>1, <2>1, <2>3, <3>1
  <2>4. CASE c = "tx" /\ (PostMisaligned(c) \/ PostRejected(c))
    BY <2>3, <2>4 DEF PostMisaligned, PostRejected, TypeOK
  <2>5. CASE c = "tx" /\ PostOk(c)
    BY <2>3, <2>5 DEF PostOk, TypeOK
  <2> QED
    BY <1>6, <2>2, <2>4, <2>5 DEF Post, Chan
<1>7. ASSUME NEW c \in Chan, CompleteCall(c) PROVE SignalInv'
  BY <1>3, <1>4, <1>7 DEF CompleteCall, SignalInv, LockReleased, RxSignal, TxSignal,
     AtMostOneInterrupt, TypeOK, Chan, Critical
<1>8. ASSUME NEW c \in Chan, WaitInterrupt(c) PROVE SignalInv'
  <2>1. irq' = [irq EXCEPT ![c] = 0]
    BY <1>8 DEF WaitInterrupt
  <2>2. c = "rx" => intrs' = [intrs EXCEPT ![c] = 1]
    <3>1. c = "rx" => irq[c] = 1
      BY <1>8 DEF WaitInterrupt, SignalInv, RxSignal, TypeOK, Chan
    <3> QED
      BY <1>8, <3>1 DEF WaitInterrupt
  <2>3. /\ pc[c] = "wait" /\ pc' = [pc EXCEPT ![c] = "lock"] /\ irq[c] > 0
        /\ intrs' = [intrs EXCEPT ![c] = intrs'[c]]
        /\ UNCHANGED <<ring, ioc, running, hwLock, ret>>
    BY <1>8 DEF WaitInterrupt, TypeOK
  <2>4. CASE c = "rx"
    BY <2>1, <2>2, <2>3, <2>4 DEF SignalInv, LockReleased, RxSignal, TxSignal,
       AtMostOneInterrupt, TypeOK, Chan, Critical
  <2>5. CASE c = "tx"
    BY <2>1, <2>3, <2>5 DEF SignalInv, LockReleased, RxSignal, TxSignal,
       AtMostOneInterrupt, TypeOK, Chan, Critical
  <2> QED
    BY <2>4, <2>5 DEF Chan
<1>9. ASSUME NEW c \in Chan, WaitTimeout(c) PROVE SignalInv'
  <2>1. /\ pc[c] = "wait" /\ pc' = [pc EXCEPT ![c] = IF c = "rx" THEN "drop" ELSE "lock"]
        /\ intrs' = [intrs EXCEPT ![c] = -1] /\ irq[c] = 0
        /\ UNCHANGED <<ring, ioc, irq, running, hwLock, ret>>
    BY <1>9 DEF WaitTimeout
  <2> QED
    BY <2>1 DEF SignalInv, LockReleased, RxSignal, TxSignal,
       AtMostOneInterrupt, TypeOK, Chan, Critical
<1>10. ASSUME NEW c \in Chan, Lock(c) PROVE SignalInv'
  <2>1. /\ pc[c] = "lock" /\ pc' = [pc EXCEPT ![c] = IF c = "rx" THEN "ack" ELSE "fetch"]
        /\ hwLock = NoOwner /\ hwLock' = c
        /\ UNCHANGED <<ring, ioc, irq, running, intrs, ret>>
    BY <1>10 DEF Lock
  <2>2. \A ch \in Chan : ch # NoOwner /\ pc[ch] \notin Critical
    BY <2>1 DEF SignalInv, LockReleased, Chan, NoOwner
  <2>3. pc'[c] \in Critical /\ \A ch \in Chan \ {c} : pc'[ch] = pc[ch]
    BY <2>1 DEF TypeOK, Critical
  <2>4. LockReleased'
    BY <2>1, <2>2, <2>3 DEF LockReleased
  <2>5. CASE c = "rx"
    BY <2>1, <2>4, <2>5 DEF SignalInv, RxSignal, TxSignal, AtMostOneInterrupt, TypeOK, Chan
  <2>6. CASE c = "tx"
    BY <2>1, <2>4, <2>6 DEF SignalInv, RxSignal, TxSignal, AtMostOneInterrupt, TypeOK, Chan
  <2> QED
    BY <2>5, <2>6 DEF Chan
<1>22. CASE RxDrop
  <2>1. ring'["tx"] = ring["tx"]
    BY <1>22 DEF RxDrop, TypeOK, Chan
  <2> QED
    BY <1>22, <2>1 DEF RxDrop, SignalInv, LockReleased, RxSignal, TxSignal,
       AtMostOneInterrupt, TypeOK, Chan, Critical
<1>11. CASE RxDropFree
  <2>1. ring'["tx"] = ring["tx"]
    BY <1>11 DEF RxDropFree, TypeOK, Chan
  <2>2. Completion(0, 0).interrupts <= 1
    BY SizeTSmall DEF Completion
  <2>3. ret'["rx"].interrupts <= 1
    BY <1>3, <1>11, <2>2 DEF RxDropFree, Chan
  <2> QED
    BY <1>11, <2>1, <2>3 DEF RxDropFree, SignalInv, LockReleased, RxSignal, TxSignal,
       AtMostOneInterrupt, TypeOK, Chan, Critical
<1>12. CASE RxAck
  BY <1>12 DEF RxAck, SignalInv, LockReleased, RxSignal, TxSignal,
     AtMostOneInterrupt, TypeOK, Chan, Critical
(* What the completed receive reports.                                     *)
<1>13. ASSUME NEW k \in Nat, pc["rx"] \in {"ack", "fetch"}
       PROVE  Completion(k, intrs["rx"]).interrupts <= 1
  <2>1. intrs["rx"] = 1 /\ 1 \in 0 .. SizeMax
    BY <1>13 DEF SignalInv, RxSignal
  <2> QED
    BY <2>1, SizeTSmall DEF Completion
<1>14. CASE RxNoIoc
  <2>1. ret'["rx"].interrupts <= 1
    BY <1>3, <1>13, <1>14 DEF RxNoIoc, Chan
  <2>2. ~ running
    BY <1>14 DEF RxNoIoc, SignalInv, RxSignal
  <2> QED
    BY <1>14, <2>1, <2>2 DEF RxNoIoc, SignalInv, LockReleased, RxSignal, TxSignal,
       AtMostOneInterrupt, TypeOK, Chan, Critical
<1>15. CASE RxFetch
  <2>1. PICK k \in 0 .. Coalesce :
            \/ /\ ring' = [ring EXCEPT !["rx"] = FromHw(ring["rx"], k)]
               /\ Return("rx", Plain("throw"))
            \/ Finish("rx", FromHw(ring["rx"], k), k)
    BY <1>15 DEF RxFetch
  <2>2. ring'["tx"] = ring["tx"]
    BY <2>1 DEF Finish, TypeOK, Chan
  <2>3. k \in Nat /\ pc["rx"] = "fetch"
    BY <1>15 DEF Coalesce, RxFetch
  <2>4. ret'["rx"].interrupts <= 1
    BY <1>3, <1>4, <1>13, <2>1, <2>3 DEF Finish, Chan
  <2> QED
    BY <1>15, <2>2, <2>4 DEF RxFetch, SignalInv, LockReleased, RxSignal, TxSignal,
       AtMostOneInterrupt, TypeOK, Chan, Critical
<1>16. CASE TxFetch
  <2>1. PICK k \in 0 .. Coalesce :
          /\ IsFromHw(ring["tx"], Coalesce, k)
          /\ ring' = [ring EXCEPT !["tx"] = FromHw(@, k)]
          /\ \/ /\ k < Coalesce
                /\ Return("tx", Plain("throw"))
                /\ hwLock' = NoOwner
                /\ Leave("tx")
             \/ /\ pc' = [pc EXCEPT !["tx"] = "ack"]
                /\ UNCHANGED <<hwLock, intrs, ret>>
    BY <1>16 DEF TxFetch
  <2>2. k \in Nat
    BY DEF Coalesce
  <2>3. TxWhole(ring'["tx"])
    BY <1>0, <2>1, <2>2, TxWholeKept DEF TypeOK, Chan
  <2>4. pc["tx"] = "fetch" /\ UNCHANGED <<ioc, irq, running>>
    BY <1>16 DEF TxFetch
  <2>5. CASE k < Coalesce /\ Return("tx", Plain("throw")) /\ hwLock' = NoOwner /\ Leave("tx")
    <3>1. ring["tx"].done = ring["tx"].taken
      BY <1>0, <2>1, <2>5, TxPartialMeansNone DEF SignalInv
    <3>2. ~ (running /\ ioc["tx"])
      BY <1>0, <2>4, <3>1 DEF SignalInv, TxSignal
    <3> QED
      BY <2>3, <2>4, <2>5, <3>2 DEF SignalInv, LockReleased, RxSignal, TxSignal, TxWhole,
         AtMostOneInterrupt, TypeOK, Chan, Critical
  <2>6. CASE pc' = [pc EXCEPT !["tx"] = "ack"] /\ UNCHANGED <<hwLock, intrs, ret>>
    BY <2>3, <2>4, <2>6 DEF SignalInv, LockReleased, RxSignal, TxSignal, TxWhole,
       AtMostOneInterrupt, TypeOK, Chan, Critical
  <2> QED
    BY <2>1, <2>5, <2>6
<1>17. CASE TxAck
  <2>1. /\ pc["tx"] = "ack" /\ pc' = [pc EXCEPT !["tx"] = "idle"]
        /\ ioc' = [ioc EXCEPT !["tx"] = FALSE]
        /\ hwLock' = NoOwner /\ intrs' = [intrs EXCEPT !["tx"] = 0]
        /\ UNCHANGED <<irq, running>>
        /\ Finish("tx", ring["tx"], batch["tx"])
    BY <1>17 DEF TxAck
  <2>2. ret'["rx"] = ret["rx"]
    BY <2>1 DEF Finish, TypeOK, Chan
  <2>3. TxWhole(ring'["tx"])
    <3>1. batch["tx"] \in Nat
      BY DEF TypeOK, Chan
    <3>2. \/ ring'["tx"] = ring["tx"]
          \/ CanFree(ring["tx"], batch["tx"]) /\ ring'["tx"] = Free(ring["tx"], batch["tx"])
      BY <2>1, <3>1 DEF Finish, TypeOK, Chan
    <3> QED
      BY <1>0, <3>1, <3>2, TxWholeKept
  <2> QED
    BY <2>1, <2>2, <2>3 DEF SignalInv, LockReleased, RxSignal, TxSignal, TxWhole,
       AtMostOneInterrupt, TypeOK, Chan, Critical
<1>18. ASSUME NEW c \in Chan, NEW last \in BOOLEAN, c = "tx" => last, HwComplete(c, last)
       PROVE  SignalInv'
  <2>1. /\ running /\ ring' = [ring EXCEPT ![c] = Complete(@, last)]
        /\ UNCHANGED <<running, polling, hwLock, pc, intrs, ret>>
        /\ IF last THEN Raise(c) ELSE UNCHANGED <<ioc, irq>>
    BY <1>18 DEF HwComplete, Active
  <2>2. CASE c = "rx"
    <3>1. ring'["tx"] = ring["tx"]
      BY <2>1, <2>2 DEF TypeOK, Chan
    <3>2. CASE last
      BY <2>1, <2>2, <3>1, <3>2 DEF Raise, SignalInv, LockReleased, RxSignal, TxSignal,
         AtMostOneInterrupt, TypeOK, Chan, Critical
    <3>3. CASE ~ last
      BY <2>1, <2>2, <3>1, <3>3 DEF SignalInv, LockReleased, RxSignal, TxSignal,
         AtMostOneInterrupt, TypeOK, Chan, Critical
    <3> QED
      BY <3>2, <3>3
  <2>3. CASE c = "tx"
    <3>1. /\ TxWhole(ring'["tx"]) /\ ring'["tx"].taken = ring["tx"].taken
          /\ ring'["tx"].done > ring["tx"].taken
      <4>1. ring'["tx"] = Complete(ring["tx"], TRUE)
        BY <1>18, <2>1, <2>3 DEF TypeOK, Chan
      <4>2. TxWhole(Complete(ring["tx"], TRUE))
        BY <1>0, 0 \in Nat, TxWholeKept
      <4>3. /\ Complete(ring["tx"], TRUE).taken = ring["tx"].taken
            /\ Complete(ring["tx"], TRUE).done > ring["tx"].taken
        BY <1>0 DEF Complete, Ring
      <4>4. TxWhole(ring'["tx"])
        BY <4>1, <4>2
      <4>5. ring'["tx"].done > ring["tx"].taken
        BY <4>1, <4>3
      <4> QED
        BY <4>1, <4>3, <4>4, <4>5
    <3>2. Raise(c)
      BY <1>18, <2>1, <2>3
    <3> QED
      BY <2>1, <2>3, <3>1, <3>2 DEF Raise, SignalInv, LockReleased, RxSignal, TxSignal, TxWhole,
         AtMostOneInterrupt, TypeOK, Chan, Critical
  <2> QED
    BY <2>2, <2>3 DEF Chan
(* A bus error raises no interrupt.                                        *)
<1>19. ASSUME NEW c \in Chan, NEW kind, NEW last \in BOOLEAN, c = "tx" => last,
              HwFault(c, kind, last)
       PROVE  SignalInv'
  <2>1. /\ ring' = [ring EXCEPT ![c] = IF kind = "marked" THEN Complete(@, last) ELSE @]
        /\ UNCHANGED <<ioc, irq, running, hwLock, pc, intrs, ret>>
    BY <1>19 DEF HwFault
  <2>2. ret'["rx"].interrupts <= 1
    BY <2>1 DEF SignalInv, AtMostOneInterrupt
  <2>3. CASE ring'["tx"] = ring["tx"]
    BY <1>2, <2>1, <2>2, <2>3
  <2>4. CASE c = "tx" /\ kind = "marked"
    <3>1. ring'["tx"] = Complete(ring["tx"], TRUE)
      BY <1>19, <2>1, <2>4 DEF TypeOK, Chan
    <3>2. TxWhole(ring'["tx"])
      BY <1>0, <3>1, 0 \in Nat, TxWholeKept
    <3>3. ring'["tx"].taken = ring["tx"].taken /\ ring'["tx"].done = ring["tx"].done + 1
      BY <1>0, <3>1 DEF Complete, Ring
    <3> QED
      BY <1>0, <2>1, <2>2, <3>2, <3>3 DEF SignalInv, LockReleased, RxSignal, TxSignal,
         TxWhole, AtMostOneInterrupt, TypeOK, Chan, Critical
  <2> QED
    BY <2>1, <2>3, <2>4 DEF TypeOK, Chan
<1>20. CASE ResetDone \/ ResetTimedOut
  BY <1>20 DEF ResetDone, ResetTimedOut, SignalInv, LockReleased, RxSignal, TxSignal,
     AtMostOneInterrupt, TypeOK, Chan, Critical, Ctl, NoOwner
<1>21. CASE UNCHANGED vars
  BY <1>21 DEF vars, SignalInv, LockReleased, RxSignal, TxSignal, AtMostOneInterrupt,
     Critical, Chan
<1> QED
  BY <1>5, <1>6, <1>7, <1>8, <1>9, <1>10, <1>11, <1>12, <1>14, <1>15, <1>16, <1>17,
     <1>18, <1>19, <1>20, <1>21, <1>22
  DEF Next, Thread, Hardware, Chan

(* With an interrupt controller that latches edges, the mutex is released  *)
(* by every completion call and held by a thread only inside its critical  *)
(* section (dma.cpp:411-455, 480-534); readComplete() always finds the IOC *)
(* bit it was woken for, so its early return with the mutex held           *)
(* (dma.cpp:482-486) is never taken before a reset(); an interrupt is      *)
(* never lost; and no completed receive reports more than one.             *)
THEOREM SignalsSound ==
  ASSUME ~ Relatch
  PROVE  Spec => [](LockReleased /\ IocExpected /\ NoWedge /\ AtMostOneInterrupt)
<1>1. TypeOK /\ RingInv /\ SignalInv /\ [Next]_vars => SignalInv'
  BY SignalStep
<1>2. TypeOK /\ SignalInv => LockReleased /\ IocExpected /\ NoWedge /\ AtMostOneInterrupt
  BY SignalImplies DEF SignalInv
<1> QED
  BY <1>1, <1>2, SignalInit, TypeCorrect, RingsSound, PTL DEF Spec

(* The descriptors of each ring are allocated, handed over, completed,     *)
(* taken back and freed in one order, whatever the threads, resets and     *)
(* timeouts do (dma.cpp:471, 538).                                         *)
THEOREM RingsStayOrdered == Spec => []RingsOrdered
<1>1. RingInv => RingsOrdered
  BY DEF RingInv
<1> QED
  BY <1>1, RingsSound, PTL

(* While an interrupt line is up, its event is with the controller or with *)
(* the thread that will acknowledge it (dma.cpp:481, 512): a descriptor    *)
(* that completes in between is noticed late at worst, never not at all.   *)
THEOREM InterruptsSurvive ==
  ASSUME ~ Relatch
  PROVE  Spec => []NoWedge
<1>1. TypeOK /\ RingInv /\ SignalInv /\ [Next]_vars => SignalInv'
  BY SignalStep
<1>2. TypeOK /\ SignalInv => NoWedge
  BY SignalImplies
<1> QED
  BY <1>1, <1>2, SignalInit, TypeCorrect, RingsSound, PTL DEF Spec

(* readComplete() finds the bit it was woken for (dma.cpp:483), so its     *)
(* return with hwLock held is never taken before a reset().                *)
THEOREM WokenForAReason ==
  ASSUME ~ Relatch
  PROVE  Spec => []IocExpected
<1>1. TypeOK /\ RingInv /\ SignalInv /\ [Next]_vars => SignalInv'
  BY SignalStep
<1>2. TypeOK /\ SignalInv => IocExpected
  BY SignalImplies
<1> QED
  BY <1>1, <1>2, SignalInit, TypeCorrect, RingsSound, PTL DEF Spec

(* No return and no throw of the completion calls leaves hwLock held       *)
(* before the first reset(), although readComplete() has a return that     *)
(* does (dma.cpp:482-486).                                                 *)
THEOREM MutexComesBack ==
  ASSUME ~ Relatch
  PROVE  Spec => []LockReleased
<1>1. TypeOK /\ RingInv /\ SignalInv /\ [Next]_vars => SignalInv'
  BY SignalStep
<1>2. SignalInv => LockReleased
  BY DEF SignalInv
<1> QED
  BY <1>1, <1>2, SignalInit, TypeCorrect, RingsSound, PTL DEF Spec
=============================================================================
