------------------------------- MODULE Devices -------------------------------
(***************************************************************************)
(* The smaller parts of a card: timers and FIFO on the interrupt           *)
(* controller, a DMA engine without scatter-gather, the HLS kernels, the   *)
(* flash memory, the register interface, and the set-up of the streams.    *)
(* They share no state, and a hardware definition has one of these groups. *)
(***************************************************************************)
EXTENDS TimerFifo, DmaSimple, Hls, Flash, Registers, Routing

CONSTANT Designs   \* sets of IPs: timers and "fifo", or one of Alone

Alone == {"dma", "kernels", "flash", "registers", "streams"}

ASSUME DesignsAssumption ==
  \A d \in Designs : d \subseteq Timers \cup {"fifo"} \/ d \in {{ip} : ip \in Alone}

deviceVars == <<tfVars, simpleVars, hlsVars, flashVars, registersVars, routingVars>>

DevicesInit ==
  /\ \E d \in Designs : TimerFifoInit(d)
  /\ SimpleInit
  /\ HlsInit
  /\ FlashInit(IF "flash" \in present THEN Locking ELSE {FALSE})
  /\ RegistersInit(IF "registers" \in present THEN Interfaces ELSE {Sound})
  /\ RoutingInit(IF "streams" \in present THEN CtrlArguments \cup PipeArguments
                 ELSE {<<"ctrl", <<>>, <<>>, TRUE>>})
  /\ "dma" \notin present => <<user, simplePolling>> = CHOOSE c \in SimpleUsers \X SimplePolling : TRUE
  /\ "kernels" \notin present => waitFor = (CHOOSE w \in WaitFor : TRUE) /\ ~ auto_restart["gpu2rtds"]

DevicesNext ==
  \/ /\ TimerFifoNext
     /\ UNCHANGED <<simpleVars, hlsVars, flashVars, registersVars, routingVars>>
  \/ /\ "dma" \in present /\ SimpleNext
     /\ UNCHANGED <<tfVars, hlsVars, flashVars, registersVars, routingVars>>
  \/ /\ "kernels" \in present /\ HlsNext
     /\ UNCHANGED <<tfVars, simpleVars, flashVars, registersVars, routingVars>>
  \/ /\ "flash" \in present /\ FlashNext
     /\ UNCHANGED <<tfVars, simpleVars, hlsVars, registersVars, routingVars>>
  \/ /\ "registers" \in present /\ RegistersNext
     /\ UNCHANGED <<tfVars, simpleVars, hlsVars, flashVars, routingVars>>
  \/ /\ "streams" \in present /\ RoutingNext
     /\ UNCHANGED <<tfVars, simpleVars, hlsVars, flashVars, registersVars>>

DevicesSpec == DevicesInit /\ [][DevicesNext]_deviceVars
=============================================================================
