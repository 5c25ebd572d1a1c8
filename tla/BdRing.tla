------------------------------- MODULE BdRing -------------------------------
(***************************************************************************)
(* The buffer descriptor (BD) ring of the Xilinx AXI DMA driver (libxil),  *)
(* as lib/ips/dma.cpp uses it.  libxil is not part of the repository, so   *)
(* the module is external: it is what the calls XAxiDma_BdRingAlloc,       *)
(* _ToHw, _FromHw and _Free do to a ring.                                  *)
(*                                                                         *)
(* The driver keeps four contiguous groups of BDs in a cyclic list: free,  *)
(* pre (allocated), hw (handed to the hardware) and post (taken back).  A  *)
(* BD only ever moves on to the next group, in ring order, so a ring is    *)
(* described by how many BDs have passed each border since it was created; *)
(* the p-th BD to be allocated is called BD p, and sits in slot            *)
(* (p - 1) % N of the list.                                                *)
(***************************************************************************)
EXTENDS Integers

CONSTANT N    (* the number of BDs of a ring, requestedRingBdSize in dma.hpp *)

ASSUME NAssumption == N \in Nat \ {0}

Ring ==
  [ alloc  : Nat,          \* BDs that left the free group
    handed : Nat,          \* BDs that left the pre group, for the hardware
    done   : Nat,          \* BDs whose COMPLETE status bit the hardware set
    taken  : Nat,          \* BDs that left the hw group
    freed  : Nat,          \* BDs that left the post group
    eof    : SUBSET Nat ]  \* BDs, not freed yet, that hold the end of a frame

(* XAxiDma_BdRingCreate and XAxiDma_BdRingClone: every BD is free.         *)
EmptyRing ==
  [alloc |-> 0, handed |-> 0, done |-> 0, taken |-> 0, freed |-> 0, eof |-> {}]

FreeCnt(r) == N - (r.alloc - r.freed)

(* XAxiDma_BdRingAlloc fails when fewer than n BDs are free; it returns    *)
(* the first of them, BD r.alloc + 1.                                      *)
CanAlloc(r, n) == FreeCnt(r) >= n

Alloc(r, n) == [r EXCEPT !.alloc = @ + n]

(* XAxiDma_BdRingToHw fails unless the BDs it is given, n of them from BD  *)
(* bd on, are the head of the pre group.                                   *)
CanToHw(r, n, bd) == r.alloc - r.handed >= n /\ bd = r.handed + 1

ToHw(r, n) == [r EXCEPT !.handed = @ + n]

(* The hardware fills (S2MM) or sends (MM2S) the next BD it was handed and *)
(* sets its status; last says whether the BD ends a frame.                 *)
Complete(r, last) ==
  [r EXCEPT !.done = @ + 1,
            !.eof  = IF last THEN @ \cup {r.done + 1} ELSE @]

(* XAxiDma_BdRingFromHw looks at up to limit BDs of the hw group, stops at *)
(* the first that is not complete, and leaves out a trailing part of a     *)
(* frame: k is what it returns.                                            *)
Whole(r, k) == k = 0 \/ r.taken + k \in r.eof

IsFromHw(r, limit, k) ==
  /\ k <= r.done - r.taken
  /\ Whole(r, k)
  /\ \A j \in (k + 1) .. limit : j <= r.done - r.taken => ~ Whole(r, j)

FromHw(r, k) == [r EXCEPT !.taken = @ + k]

(* XAxiDma_BdRingFree fails unless the k BDs it is given are the head of   *)
(* the post group; none of the callers hands it BDs in any other order     *)
(* than the one FromHw returned them in.                                   *)
CanFree(r, k) == r.taken = r.freed + k

Free(r, k) ==
  [r EXCEPT !.freed = @ + k, !.eof = {p \in @ : p > r.freed + k}]

-----------------------------------------------------------------------------
(* The groups never overlap and never outgrow the ring.                    *)
Ordered(r) ==
  /\ r.freed <= r.taken
  /\ r.taken <= r.done
  /\ r.done <= r.handed
  /\ r.handed <= r.alloc
  /\ r.alloc <= r.freed + N
=============================================================================
