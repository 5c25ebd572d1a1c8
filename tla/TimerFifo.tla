------------------------------ MODULE TimerFifo ------------------------------
(***************************************************************************)
(* The users of the interrupt controller next to the DMA engine: Timer,    *)
(* lib/ips/timer.cpp, each used by a thread of its own, and Fifo,          *)
(* lib/ips/fifo.cpp, written by one thread and read by another, with its   *)
(* output looped back to its input.                                        *)
(*                                                                         *)
(* A frame is a number, and its words are <<frame, index>>.                *)
(***************************************************************************)
EXTENDS Intc, Sequences

CONSTANTS
  Timers,
  Vacancy,      (* words that the transmit side of the FIFO has room for     *)
  FrameLengths, (* the words of a frame                                      *)
  BufferLengths,(* the words of a buffer that is read into                   *)
  MaxStarts,    (* a bound for model checking: calls of start(), per timer   *)
  MaxFrames     (* a bound for model checking: frames written                *)

ASSUME TimerFifoAssumption ==
  /\ Irqs = Timers \cup {"fifo"} /\ "fifo" \notin Timers
  /\ Vacancy \in Nat
  /\ FrameLengths \subseteq Nat \ {0}
  /\ BufferLengths \subseteq Nat \ {0}
  /\ MaxStarts \in Nat /\ MaxFrames \in Nat

VARIABLES
  present,   \* the IPs of this kind on the card
  pc,        \* per IP, where its call is
  starts,    \* per timer, the calls of start()
  counting,  \* the timers that count down
  expired,   \* the timers that expired since their last start()
  answer,    \* per timer, what the last wait() returned
  leftover,  \* timers whose last start() found an interrupt of an earlier one
  frames,    \* frames written to the FIFO
  sending,   \* the words on their way through the loopback
  lens,      \* the lengths of the frames received, in order
  words,     \* the words received
  rc,        \* the receive-complete bit of the FIFO
  wanted,    \* the size of the buffer that is read into
  got,       \* the words that the last read() returned
  cut,       \* a frame was longer than the buffer it was read into
  crowded    \* a frame came while the bit of another one was set

timerVars == <<starts, counting, expired, answer, leftover>>
fifoVars == <<frames, sending, lens, words, rc, wanted, got, cut, crowded>>
tfVars == <<intcVars, present, pc, timerVars, fifoVars>>

(* Timer::init() disables its interrupt, Fifo::init() enables it, one      *)
(* after the other.                                                        *)
TimerFifoInit(ips) ==
  /\ IntcInit
  /\ present = ips
  /\ pc = [i \in Irqs |-> IF i = "fifo" THEN "init" ELSE "idle"]
  /\ starts = [t \in Timers |-> 0]
  /\ counting = {} /\ expired = {} /\ leftover = {}
  /\ answer = [t \in Timers |-> "none"]
  /\ frames = 0
  /\ sending = <<>> /\ lens = <<>> /\ words = <<>>
  /\ rc = FALSE
  /\ wanted = 0
  /\ got = <<>>
  /\ cut = FALSE /\ crowded = FALSE

Goes(i, from, to) == pc[i] = from /\ pc' = [pc EXCEPT ![i] = to]

-----------------------------------------------------------------------------
(* ---- Timer -------------------------------------------------------------- *)

StartCall(t) ==
  /\ starts[t] < MaxStarts
  /\ Goes(t, "idle", "enable")
  /\ EnableReads(t)
  /\ UNCHANGED <<present, timerVars, fifoVars>>

StartEnabled(t) ==
  /\ Goes(t, "enable", "load")
  /\ EnableWrites(t)
  /\ UNCHANGED <<present, timerVars, fifoVars>>

(* XTmrCtr_Start() loads the counter again if it runs.                     *)
StartCounting(t) ==
  /\ Goes(t, "load", "idle")
  /\ starts' = [starts EXCEPT ![t] = @ + 1]
  /\ counting' = counting \cup {t}
  /\ expired' = expired \ {t}
  /\ leftover' = IF efds[t] > 0 \/ t \in isr THEN leftover \cup {t} ELSE leftover \ {t}
  /\ answer' = [answer EXCEPT ![t] = "none"]
  /\ UNCHANGED <<intcVars, present, fifoVars>>

(* Variant: whatever ends the wait is the timer.                           *)
WaitReturnsOnTimeout(t) ==
  /\ starts[t] > 0
  /\ Goes(t, "idle", "disable")
  /\ \E count \in {-1} \cup 1 .. MaxStarts :
       /\ WaitForInterrupt(t, count)
       /\ answer' = [answer EXCEPT ![t] = IF count # 0 THEN "true" ELSE "false"]
  /\ UNCHANGED <<present, starts, counting, expired, leftover, fifoVars>>

WaitReturns(t) ==
  /\ starts[t] > 0
  /\ Goes(t, "idle", "disable")
  /\ \E count \in {-1} \cup 1 .. MaxStarts :
       /\ WaitForInterrupt(t, count)
       /\ answer' = [answer EXCEPT ![t] = IF count = 1 THEN "true" ELSE "false"]
  /\ UNCHANGED <<present, starts, counting, expired, leftover, fifoVars>>

WaitDisables(t) ==
  /\ Goes(t, "disable", "disabling")
  /\ DisableReads(t)
  /\ UNCHANGED <<present, timerVars, fifoVars>>

WaitDisabled(t) ==
  /\ Goes(t, "disabling", "idle")
  /\ DisableWrites(t)
  /\ UNCHANGED <<present, timerVars, fifoVars>>

Expire(t) ==
  /\ t \in counting
  /\ counting' = counting \ {t}
  /\ expired' = expired \cup {t}
  /\ Event(t)
  /\ UNCHANGED <<present, pc, starts, answer, leftover, fifoVars>>

(* ---- Fifo --------------------------------------------------------------- *)

FifoInit ==
  /\ Goes("fifo", "init", "enable")
  /\ EnableReads("fifo")
  /\ UNCHANGED <<present, timerVars, fifoVars>>

FifoEnabled ==
  /\ Goes("fifo", "enable", "idle")
  /\ EnableWrites("fifo")
  /\ UNCHANGED <<present, timerVars, fifoVars>>

(* write(): -1 if there is no room, which changes nothing                  *)
FifoWrite ==
  /\ pc["fifo"] \notin {"init", "enable"}
  /\ frames < MaxFrames
  /\ \E len \in FrameLengths :
       /\ Len(sending) + len <= Vacancy
       /\ sending' = sending \o [k \in 1 .. len |-> <<frames + 1, k>>]
  /\ frames' = frames + 1
  /\ UNCHANGED <<intcVars, present, pc, timerVars, lens, words, rc, wanted, got, cut, crowded>>

(* The next frame is received as a whole.  The interrupt follows the bit.  *)
Arrive ==
  /\ sending # <<>>
  /\ \E len \in DOMAIN sending :
       /\ \A k \in DOMAIN sending : sending[k][1] = sending[1][1] <=> k <= len
       /\ words' = words \o SubSeq(sending, 1, len)
       /\ lens' = Append(lens, len)
       /\ sending' = SubSeq(sending, len + 1, Len(sending))
  /\ rc' = TRUE
  /\ crowded' = (crowded \/ rc)
  /\ IF rc THEN UNCHANGED intcVars ELSE Event("fifo")
  /\ UNCHANGED <<present, pc, timerVars, frames, wanted, got, cut>>

ReadCall ==
  /\ Goes("fifo", "idle", "rxdone")
  /\ wanted' \in BufferLengths
  /\ got' = <<>>
  /\ UNCHANGED <<intcVars, present, timerVars, frames, sending, lens, words, rc, cut, crowded>>

(* The bit is looked at before each wait and after it, however it ends.    *)
ReadWaits ==
  /\ pc["fifo"] = "rxdone"
  /\ ~ rc
  /\ \E count \in {-1} \cup 1 .. MaxFrames : WaitForInterrupt("fifo", count)
  /\ UNCHANGED <<present, pc, timerVars, fifoVars>>

ReadClears ==
  /\ rc
  /\ Goes("fifo", "rxdone", "take")
  /\ rc' = FALSE
  /\ UNCHANGED <<intcVars, present, timerVars, frames, sending, lens, words, wanted, got,
                 cut, crowded>>

Least(a, b) == IF a < b THEN a ELSE b

(* Variant: the bit is cleared after the frame was taken.                  *)
ReadTakesClearing ==
  /\ Goes("fifo", "take", "idle")
  /\ lens # <<>>
  /\ LET nextlen == Least(Head(lens), wanted)
     IN /\ got' = SubSeq(words, 1, nextlen)
        /\ words' = SubSeq(words, nextlen + 1, Len(words))
        /\ cut' = (cut \/ nextlen < Head(lens))
  /\ lens' = Tail(lens)
  /\ rc' = FALSE
  /\ UNCHANGED <<intcVars, present, timerVars, frames, sending, wanted, crowded>>

(* The length of the next frame leaves the FIFO, and as many words as the  *)
(* buffer has room for; the others stay.                                   *)
ReadTakes ==
  /\ Goes("fifo", "take", "idle")
  /\ lens # <<>>
  /\ LET nextlen == Least(Head(lens), wanted)
     IN /\ got' = SubSeq(words, 1, nextlen)
        /\ words' = SubSeq(words, nextlen + 1, Len(words))
        /\ cut' = (cut \/ nextlen < Head(lens))
  /\ lens' = Tail(lens)
  /\ UNCHANGED <<intcVars, present, timerVars, frames, sending, rc, wanted, crowded>>

FifoStop ==
  /\ Goes("fifo", "idle", "stop")
  /\ DisableReads("fifo")
  /\ UNCHANGED <<present, timerVars, fifoVars>>

FifoStopped ==
  /\ Goes("fifo", "stop", "stopped")
  /\ DisableWrites("fifo")
  /\ UNCHANGED <<present, timerVars, fifoVars>>

TimerNext(t) ==
  \/ StartCall(t) \/ StartEnabled(t) \/ StartCounting(t)
  \/ WaitReturns(t) \/ WaitDisables(t) \/ WaitDisabled(t)
  \/ Expire(t)

FifoNext ==
  \/ FifoInit \/ FifoEnabled \/ FifoStop \/ FifoStopped
  \/ FifoWrite \/ Arrive
  \/ ReadCall \/ ReadWaits \/ ReadClears \/ ReadTakes

TimerFifoNext ==
  \/ \E t \in Timers \cap present : TimerNext(t)
  \/ "fifo" \in present /\ FifoNext

TimerFifoSpec == (\E ips \in SUBSET Irqs : TimerFifoInit(ips)) /\ [][TimerFifoNext]_tfVars

-----------------------------------------------------------------------------
(* The interrupt of a timer that expired since its start() is not lost: it *)
(* waits in the eventfd until wait() takes it.  To lose it takes two calls *)
(* that change the mask register at the same time.                         *)
InterruptWaits ==
  \A t \in Timers :
    ~ overlap /\ t \in expired /\ answer[t] = "none" /\ pc[t] = "idle" => efds[t] > 0

(* wait() returns true only if its timer has expired since start(), unless *)
(* start() found the interrupt of an earlier one: nobody waited for that,  *)
(* or gave up after the second that waitForInterrupt() allows.             *)
TimerHonest ==
  \A t \in Timers : answer[t] = "true" => t \in expired \cup leftover

(* Parts of what read() promises.  A frame is there when it looks for the  *)
(* length of one; it returns a frame from its first word on, unless a      *)
(* frame before was cut; and a frame waits without the bit that announces  *)
(* it only if one came while the bit was set.                              *)
FrameThere == pc["fifo"] = "take" => lens # <<>>
FrameAligned ==
  got # <<>> /\ pc["fifo"] = "idle" /\ ~ cut =>
    \A k \in DOMAIN got : got[k] = <<got[1][1], k>>
FrameAnnounced == lens # <<>> /\ ~ rc /\ pc["fifo"] # "take" => crowded

(* The three of them: Fifo::read() between the arrivals of frames          *)
FifoHonest == FrameThere /\ FrameAligned /\ FrameAnnounced
=============================================================================
