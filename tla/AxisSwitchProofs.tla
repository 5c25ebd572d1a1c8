-------------------------- MODULE AxisSwitchProofs ---------------------------
(***************************************************************************)
(* Theorems about AxisSwitch, for any number of channels, of accepted port *)
(* numbers and of wired endpoints.                                         *)
(***************************************************************************)
EXTENDS AxisSwitch, TLAPS

USE SwitchAssumption

(* The pieces that the setup of a link is made of.                         *)
LEMMA WiredEndpoint == Wired \subseteq Endpoint /\ Disabled \notin Wired
  OBVIOUS

(* The links of a request are links.                                       *)
LEMMA LinksType ==
  ASSUME NEW src, NEW dst, NEW bidirectional \in BOOLEAN
  PROVE  Links(src, dst, bidirectional) \in Seq(Link)
<1> DEFINE there == [slave |-> src, master |-> dst]
           back  == [slave |-> dst, master |-> src]
<1>1. ASSUME {src, dst} \subseteq Wired PROVE there \in Link /\ back \in Link
  BY <1>1 DEF Link
<1> HIDE DEF there, back
<1>2. ASSUME {src, dst} \subseteq Wired
      PROVE  <<there, back>> \in Seq(Link) /\ <<there>> \in Seq(Link)
  BY <1>1, <1>2
<1>3. <<>> \in Seq(Link)
  OBVIOUS
<1> QED
  BY <1>2, <1>3 DEF Links, there, back

(* The link that is being set up, and those after it.                      *)
LEMMA TodoType ==
  ASSUME TypeOK, todo # <<>>
  PROVE  Slave \in Wired /\ Master \in Wired /\ Tail(todo) \in Seq(Link)
<1>1. Head(todo) \in Link /\ Tail(todo) \in Seq(Link)
  BY DEF TypeOK
<1> QED
  BY <1>1 DEF Slave, Master, Link

(* Everything keeps its type: a link is set up only while one is left to   *)
(* do, and a master is disabled only after it was chosen                   *)
(* (AxiStreamSwitch::connectInternal(), ConnectString::configCrossBar()).  *)
THEOREM SwitchTypeCorrect == Spec => []TypeOK
<1>1. Init => TypeOK
  BY DEF Init, TypeOK, AllDisabled, Setting
<1>2. TypeOK /\ [Next]_vars => TypeOK'
  <2> SUFFICES ASSUME TypeOK, [Next]_vars PROVE TypeOK'
    OBVIOUS
  <2>0. AllDisabled \in Setting
    BY DEF AllDisabled, Setting
  <2>1. CASE Start \/ Started \/ Die
    <3>1. CASE Start
      BY <2>0, <3>1 DEF Start, TypeOK
    <3>2. CASE Started
      BY <2>0, <3>2 DEF Started, TypeOK
    <3>3. CASE Die
      <4>1. todo' \in Seq(Link)
        BY <3>3 DEF Die
      <4> QED
        BY <2>0, <3>3, <4>1 DEF Die, TypeOK
    <3> QED
      BY <2>1, <3>1, <3>2, <3>3
  <2>2. ASSUME NEW src \in Endpoint, NEW dst \in Endpoint, NEW bidirectional \in BOOLEAN,
               Configure(src, dst, bidirectional)
        PROVE  TypeOK'
    <3>1. Links(src, dst, bidirectional) \in Seq(Link)
      BY LinksType
    <3>2. request' \in Request
      BY <2>2 DEF Configure, Request
    <3> QED
      BY <2>2, <3>1, <3>2 DEF Configure, TypeOK
  <2>3. CASE ConfigureUnknown \/ Reconfigure
    BY <2>3 DEF ConfigureUnknown, Reconfigure, TypeOK
  <2>4. CASE AlreadyConnected
    <3>1. Tail(todo) \in Seq(Link)
      BY <2>4, TodoType DEF AlreadyConnected, TypeOK
    <3> QED
      BY <2>4, <3>1 DEF AlreadyConnected, Connected, TypeOK
  <2>5. ASSUME NEW m \in Wired, StageDisable(m)
        PROVE  TypeOK'
    <3>1. [staged EXCEPT ![m] = Disabled] \in Setting
      BY DEF TypeOK, Setting
    <3> QED
      BY <2>5, <3>1, WiredEndpoint DEF StageDisable, TypeOK
  <2>6. CASE CommitDisable
    <3>1. [portMapping EXCEPT ![victim] = Disabled] \in Setting
      BY DEF TypeOK, Setting
    <3> QED
      BY <2>6, <3>1 DEF CommitDisable, TypeOK
  <2>7. CASE StageEnable
    <3>1. Slave \in Wired
      BY <2>7, TodoType DEF StageEnable, TypeOK
    <3>2. [staged EXCEPT ![Master] = Slave] \in Setting
      BY <3>1 DEF TypeOK, Setting
    <3> QED
      BY <2>7, <3>2 DEF StageEnable, TypeOK
  <2>8. CASE CommitEnable
    <3>1. Slave \in Wired /\ Tail(todo) \in Seq(Link)
      BY <2>8, TodoType DEF CommitEnable, TypeOK
    <3>2. [portMapping EXCEPT ![Master] = Slave] \in Setting
      BY <3>1 DEF TypeOK, Setting
    <3> QED
      BY <2>8, <3>1, <3>2 DEF CommitEnable, Connected, TypeOK
  <2>9. CASE UNCHANGED vars
    BY <2>9 DEF vars, TypeOK
  <2> QED
    BY <2>1, <2>2, <2>3, <2>4, <2>5, <2>6, <2>7, <2>8, <2>9 DEF Next
<1> QED
  BY <1>1, <1>2, PTL DEF Spec

-----------------------------------------------------------------------------
(* What the registers and the driver's copy hold at each point of the       *)
(* reconfiguration.  After a crash nothing is known of the staged values,  *)
(* which is why init() writes all of them before it commits.               *)
SyncInv ==
  /\ pc = "init" => staged = AllDisabled
  /\ pc \in {"idle", "undefined", "connect", "scan"} => portMapping = mux /\ staged = mux
  /\ pc = "disable" =>
       /\ portMapping = mux
       /\ staged = [mux EXCEPT ![victim] = Disabled]
       /\ mux[victim] = Slave
  /\ pc = "enable" =>
       /\ portMapping = mux
       /\ staged = [mux EXCEPT ![Master] = Slave]
       /\ \A m \in Wired : mux[m] # Slave

(* One step keeps the registers and the copy in step.                      *)
LEMMA SyncStep ==
  ASSUME TypeOK, SyncInv, [Next]_vars
  PROVE  SyncInv'
<1>1. CASE Start \/ Started \/ Die
  BY <1>1 DEF Start, Started, Die, SyncInv
<1>2. ASSUME NEW src, NEW dst, NEW bidirectional, Configure(src, dst, bidirectional)
      PROVE  SyncInv'
  BY <1>2 DEF Configure, SyncInv
<1>3. CASE ConfigureUnknown \/ Reconfigure
  BY <1>3 DEF ConfigureUnknown, Reconfigure, SyncInv
<1>4. CASE AlreadyConnected
  BY <1>4 DEF AlreadyConnected, Connected, SyncInv
<1>5. ASSUME NEW m \in Wired, StageDisable(m)
      PROVE  SyncInv'
  BY <1>5 DEF StageDisable, SyncInv, Slave
<1>6. CASE CommitDisable
  BY <1>6 DEF CommitDisable, SyncInv
<1>7. CASE StageEnable
  BY <1>7 DEF StageEnable, SyncInv, Slave, Master
<1>8. CASE CommitEnable
  BY <1>8 DEF CommitEnable, Connected, SyncInv
<1>9. CASE UNCHANGED vars
  BY <1>9 DEF vars, SyncInv, Slave, Master
<1> QED
  BY <1>1, <1>2, <1>3, <1>4, <1>5, <1>6, <1>7, <1>8, <1>9 DEF Next

(* SyncInv holds throughout.                                               *)
LEMMA SyncInvariant == Spec => []SyncInv
<1>1. Init => SyncInv
  BY DEF Init, SyncInv
<1> QED
  BY <1>1, SyncStep, SwitchTypeCorrect, PTL DEF Spec

(* Whenever the driver consults its copy of the mapping, the copy is what  *)
(* the switch does, also in a process started after one that died between  *)
(* the write of a register and its commit (switch.cpp:101-126).            *)
THEOREM DriverInSync == Spec => []ShadowExact
<1>1. SyncInv => ShadowExact
  BY DEF SyncInv, ShadowExact
<1> QED
  BY <1>1, SyncInvariant, PTL

(* What the steps that commit do to the mux registers.                     *)
LEMMA MuxStep ==
  ASSUME TypeOK, SyncInv, [Next]_vars
  PROVE  \/ UNCHANGED mux
         \/ pc = "init" /\ mux' = AllDisabled
         \/ /\ pc = "disable" /\ todo # <<>>
            /\ victim \in Wired /\ mux[victim] = Slave
            /\ mux' = [mux EXCEPT ![victim] = Disabled]
         \/ /\ pc = "enable" /\ Slave \in Wired /\ Master \in Wired
            /\ \A m \in Wired : mux[m] # Slave
            /\ mux' = [mux EXCEPT ![Master] = Slave]
<1>1. CASE Started
  BY <1>1 DEF Started, SyncInv
<1>2. CASE CommitDisable
  BY <1>2 DEF CommitDisable, SyncInv, TypeOK
<1>3. CASE CommitEnable
  <2>1. Slave \in Wired /\ Master \in Wired
    BY <1>3, TodoType DEF CommitEnable, TypeOK
  <2> QED
    BY <1>3, <2>1 DEF CommitEnable, SyncInv
<1>4. CASE ~ (Started \/ CommitDisable \/ CommitEnable)
  BY <1>4 DEF Next, vars, Start, Die, Configure, ConfigureUnknown, AlreadyConnected,
     Reconfigure, StageDisable, StageEnable
<1> QED
  BY <1>1, <1>2, <1>3, <1>4

(* A link that is up goes down only in the initialization of a new process *)
(* or by a request that needs its source or its sink (switch.cpp:107-124). *)
THEOREM OnlyNeededLinksFall == Spec => OthersUndisturbed
<1> DEFINE Step ==
      \A m \in Wired :
        mux[m] # Disabled /\ mux'[m] # mux[m] =>
          \/ pc = "init"
          \/ pc \in {"disable", "enable"} /\ (m = Master \/ mux[m] = Slave)
<1>1. TypeOK /\ SyncInv /\ [Next]_vars => [Step]_vars
  <2> SUFFICES ASSUME TypeOK, SyncInv, [Next]_vars PROVE Step
    OBVIOUS
  <2>1. mux \in Setting
    BY DEF TypeOK
  <2> QED
    BY <2>1, MuxStep DEF Setting
<1> QED
  BY <1>1, SyncInvariant, SwitchTypeCorrect, PTL DEF Spec, OthersUndisturbed

(* The driver implements the crossbar: whatever is staged, committed and   *)
(* recorded in whatever order, the switch itself only ever releases master *)
(* ports, or assigns one to a slave that feeds no other.                   *)
THEOREM SwitchImplements == Spec => ImplementsCrossbar
<1>1. Init => Abstract!Init
  BY DEF Init, Abstract!Init, AllDisabled
<1>2. TypeOK /\ SyncInv /\ [Next]_vars => [Abstract!Next]_mux
  <2> SUFFICES ASSUME TypeOK, SyncInv, [Next]_vars, ~ UNCHANGED mux
               PROVE  Abstract!Next
    OBVIOUS
  <2>0. mux \in Setting
    BY DEF TypeOK
  <2>1. CASE pc = "init" /\ mux' = AllDisabled
    <3>1. Abstract!Release(Wired)
      BY <2>1 DEF Abstract!Release, AllDisabled
    <3> QED
      BY <3>1 DEF Abstract!Next
  <2>2. CASE victim \in Wired /\ mux' = [mux EXCEPT ![victim] = Disabled]
    <3>1. Abstract!Release({victim})
      BY <2>0, <2>2 DEF Abstract!Release, Setting
    <3> QED
      BY <2>2, <3>1 DEF Abstract!Next
  <2>3. CASE /\ Slave \in Wired /\ Master \in Wired
             /\ \A m \in Wired : mux[m] # Slave
             /\ mux' = [mux EXCEPT ![Master] = Slave]
    <3>1. Abstract!Assign(Master, Slave)
      BY <2>3 DEF Abstract!Assign
    <3> QED
      BY <2>3, <3>1 DEF Abstract!Next
  <2> QED
    BY <2>1, <2>2, <2>3, MuxStep
<1> QED
  BY <1>1, <1>2, SyncInvariant, SwitchTypeCorrect, PTL
  DEF Spec, ImplementsCrossbar, Abstract!Spec

(* The crossbar never duplicates a stream, and so neither does the switch, *)
(* not even between the two commits of a reconfiguration.                  *)
THEOREM NoStreamDuplicated == Spec => []Abstract!Unicast
<1>1. Init => Abstract!Unicast
  BY DEF Init, AllDisabled, Abstract!Unicast, Abstract!Injective
<1>2. TypeOK /\ SyncInv /\ [Next]_vars /\ Abstract!Unicast => Abstract!Unicast'
  <2> SUFFICES ASSUME TypeOK, SyncInv, [Next]_vars, Abstract!Unicast
               PROVE  Abstract!Unicast'
    OBVIOUS
  <2>1. mux \in Setting
    BY DEF TypeOK
  <2> QED
    BY <2>1, MuxStep DEF Abstract!Unicast, Abstract!Injective, AllDisabled, Setting
<1> QED
  BY <1>1, <1>2, SyncInvariant, SwitchTypeCorrect, PTL DEF Spec

-----------------------------------------------------------------------------
(* The calls that configCrossBar() makes for a request, one or two.        *)
LEMMA LinksShape ==
  ASSUME NEW src, NEW dst, NEW b \in BOOLEAN
  PROVE  /\ ~ {src, dst} \subseteq Wired => Links(src, dst, b) = <<>>
         /\ {src, dst} \subseteq Wired /\ b =>
              Links(src, dst, b) = <<[slave |-> src, master |-> dst],
                                     [slave |-> dst, master |-> src]>>
         /\ {src, dst} \subseteq Wired /\ ~ b =>
              Links(src, dst, b) = <<[slave |-> src, master |-> dst]>>
  BY DEF Links

(* The lists of one and of two calls.                                      *)
LEMMA OneOrTwo ==
  ASSUME NEW a, NEW b
  PROVE  /\ Head(<<a>>) = a /\ Tail(<<a>>) = <<>> /\ <<a>> # <<>>
         /\ Head(<<a, b>>) = a /\ Tail(<<a, b>>) = <<b>>
  OBVIOUS

(* How far the running request has come: its first link is being set up,   *)
(* or the first is up and the second, which differs from it in both ends   *)
(* unless it is up already, is being set up.                               *)
ProgressInv ==
  /\ pc \in {"down", "init"} => request = NoRequest
  /\ pc \in {"connect", "scan", "disable", "enable"} =>
       /\ request \in Request /\ {request.src, request.dst} \subseteq Wired
       /\ \/ todo = Links(request.src, request.dst, request.bidirectional)
          \/ /\ request.bidirectional
             /\ todo = <<[slave |-> request.dst, master |-> request.src]>>
             /\ mux[request.dst] = request.src
             /\ pc # "connect" => request.src # request.dst

(* One step of a request.                                                  *)
LEMMA ProgressStep ==
  ASSUME TypeOK, SyncInv, ProgressInv, RequestServed, [Next]_vars
  PROVE  ProgressInv' /\ RequestServed'
<1> DEFINE src == request.src
           dst == request.dst
           First == todo = Links(src, dst, request.bidirectional)
           Second == /\ request.bidirectional
                     /\ todo = <<[slave |-> dst, master |-> src]>>
                     /\ mux[dst] = src
                     /\ pc # "connect" => src # dst
           Busy == pc \in {"connect", "scan", "disable", "enable"}
<1>0. ASSUME Busy
      PROVE  /\ request \in Request /\ src \in Wired /\ dst \in Wired
             /\ request.bidirectional \in BOOLEAN
             /\ First \/ Second
             /\ First => /\ Slave = src /\ Master = dst
                         /\ Tail(todo) = IF request.bidirectional
                                         THEN <<[slave |-> dst, master |-> src]>> ELSE <<>>
             /\ Second => Slave = dst /\ Master = src /\ Tail(todo) = <<>>
  <2>1. /\ request \in Request /\ src \in Wired /\ dst \in Wired /\ (First \/ Second)
    BY <1>0 DEF ProgressInv
  <2>2. request.bidirectional \in BOOLEAN
    BY <2>1 DEF Request
  <2>3. First => /\ Slave = src /\ Master = dst
                 /\ Tail(todo) = IF request.bidirectional
                                 THEN <<[slave |-> dst, master |-> src]>> ELSE <<>>
    <3> SUFFICES ASSUME First
                 PROVE  /\ Slave = src /\ Master = dst
                        /\ Tail(todo) = IF request.bidirectional
                                        THEN <<[slave |-> dst, master |-> src]>> ELSE <<>>
      OBVIOUS
    <3>1. CASE request.bidirectional
      <4>1. todo = <<[slave |-> src, master |-> dst], [slave |-> dst, master |-> src]>>
        BY <2>1, <2>2, <3>1, LinksShape, ZenonT(60)
      <4>2. /\ Head(todo) = [slave |-> src, master |-> dst]
            /\ Tail(todo) = <<[slave |-> dst, master |-> src]>>
        BY ONLY <4>1, OneOrTwo
      <4>3. Slave = src /\ Master = dst
        BY ONLY <4>2 DEF Slave, Master
      <4>4. Tail(todo) = IF request.bidirectional
                         THEN <<[slave |-> dst, master |-> src]>> ELSE <<>>
        BY ONLY <3>1, <4>2
      <4> QED
        BY <4>3, <4>4
    <3>2. CASE ~ request.bidirectional
      <4>1. todo = <<[slave |-> src, master |-> dst]>>
        BY <2>1, <2>2, <3>2, LinksShape
      <4>2. Head(todo) = [slave |-> src, master |-> dst] /\ Tail(todo) = <<>>
        BY ONLY <4>1, OneOrTwo
      <4> QED
        BY <3>2, <4>2 DEF Slave, Master
    <3> QED
      BY <3>1, <3>2
  <2>4. Second => Slave = dst /\ Master = src /\ Tail(todo) = <<>>
    BY DEF Slave, Master
  <2> QED
    BY <2>1, <2>2, <2>3, <2>4
<1>1. CASE Start \/ Started \/ Die
  BY <1>1 DEF Start, Started, Die, ProgressInv, RequestServed, NoRequest
<1>2. ASSUME NEW s \in Endpoint, NEW d \in Endpoint, NEW b \in BOOLEAN, Configure(s, d, b)
      PROVE  ProgressInv' /\ RequestServed'
  <2>1. /\ request' = [src |-> s, dst |-> d, bidirectional |-> b]
        /\ todo' = Links(s, d, b)
        /\ pc' = IF todo' = <<>> THEN "idle" ELSE "connect"
    BY <1>2 DEF Configure
  <2>2. request' \in Request
    BY <2>1 DEF Request
  <2>3. CASE {s, d} \subseteq Wired
    <3>1. Links(s, d, b) # <<>>
      BY <2>3, LinksShape
    <3> QED
      BY <2>1, <2>2, <2>3, <3>1 DEF ProgressInv, RequestServed
  <2>4. CASE ~ {s, d} \subseteq Wired
    BY <2>1, <2>2, <2>4, LinksShape DEF ProgressInv, RequestServed
  <2> QED
    BY <2>3, <2>4
<1>3. CASE ConfigureUnknown
  BY <1>3 DEF ConfigureUnknown, ProgressInv, RequestServed
(* What the end of a link leaves, given that the link is up.               *)
<1>4. ASSUME Busy, Connected, UNCHANGED request, mux'[Master] = Slave,
             Second => mux'[dst] = src
      PROVE  ProgressInv' /\ RequestServed'
  <2>0. /\ request' = request /\ todo' = Tail(todo)
        /\ pc' = IF Tail(todo) = <<>> THEN "idle" ELSE "connect"
        /\ request \in Request /\ src \in Wired /\ dst \in Wired
    BY <1>0, <1>4 DEF Connected
  <2>1. CASE First /\ request.bidirectional
    <3>1. todo' = <<[slave |-> dst, master |-> src]>> /\ mux'[dst] = src
      BY <1>0, <1>4, <2>0, <2>1
    <3>2. pc' = "connect"
      <4>1. todo' # <<>>
        BY ONLY <3>1, OneOrTwo
      <4> QED
        BY <2>0, <4>1
    <3>3. Busy' /\ pc' \notin {"down", "init", "idle"}
      BY <3>2
    <3>4. ProgressInv'
      BY <2>0, <2>1, <3>1, <3>2 DEF ProgressInv
    <3> QED
      BY <3>3, <3>4 DEF RequestServed
  <2>2. CASE First /\ ~ request.bidirectional
    <3>1. pc' = "idle" /\ mux'[dst] = src
      BY <1>0, <1>4, <2>0, <2>2
    <3> QED
      BY <2>0, <2>2, <3>1 DEF ProgressInv, RequestServed
  <2>3. CASE Second
    <3>1. pc' = "idle" /\ mux'[src] = dst /\ mux'[dst] = src
      BY <1>0, <1>4, <2>0, <2>3
    <3> QED
      BY <2>0, <2>3, <3>1 DEF ProgressInv, RequestServed
  <2> QED
    BY <1>0, <1>4, <2>1, <2>2, <2>3
<1>5. CASE AlreadyConnected
  <2>1. mux'[Master] = Slave
    BY <1>5 DEF AlreadyConnected, SyncInv
  <2> QED
    BY <1>4, <1>5, <2>1 DEF AlreadyConnected
<1>6. CASE Reconfigure
  <2>1. Busy /\ pc' = "scan" /\ mux[Master] # Slave /\ UNCHANGED <<mux, todo, request>>
    BY <1>6 DEF Reconfigure, SyncInv
  <2>2. Second => src # dst
    BY <1>0, <2>1
  <2> QED
    BY <1>0, <2>1, <2>2 DEF ProgressInv, RequestServed
<1>7. ASSUME NEW m \in Wired, StageDisable(m)
      PROVE  ProgressInv' /\ RequestServed'
  BY <1>7 DEF StageDisable, ProgressInv, RequestServed
<1>8. CASE CommitDisable
  <2>1. Busy /\ pc = "disable" /\ pc' = "scan" /\ UNCHANGED <<todo, request>>
        /\ mux[victim] = Slave /\ mux' = [mux EXCEPT ![victim] = Disabled]
    BY <1>8 DEF CommitDisable, SyncInv
  <2>2. mux \in Setting
    BY DEF TypeOK
  <2>3. Second => mux'[dst] = src
    BY <1>0, <2>1, <2>2 DEF Setting
  <2> QED
    BY <1>0, <2>1, <2>3 DEF ProgressInv, RequestServed
<1>9. CASE StageEnable
  BY <1>9 DEF StageEnable, ProgressInv, RequestServed
<1>10. CASE CommitEnable
  <2>1. Busy /\ pc = "enable" /\ mux' = [mux EXCEPT ![Master] = Slave]
    BY <1>10 DEF CommitEnable, SyncInv
  <2>2. mux \in Setting
    BY DEF TypeOK
  <2>3. mux'[Master] = Slave
    BY <1>0, <2>1, <2>2 DEF Setting
  <2>4. Second => mux'[dst] = src
    BY <1>0, <2>1, <2>2 DEF Setting
  <2> QED
    BY <1>4, <1>10, <2>1, <2>3, <2>4 DEF CommitEnable
<1>11. CASE UNCHANGED vars
  BY <1>11 DEF vars, ProgressInv, RequestServed
<1> QED
  BY <1>1, <1>2, <1>3, <1>5, <1>6, <1>7, <1>8, <1>9, <1>10, <1>11 DEF Next

(* When configCrossBar() returns, every direction that was asked for is    *)
(* routed (utils.cpp:196-204): a bidirectional request does not take down  *)
(* its own first direction, whatever links existed before.                 *)
THEOREM RequestsAreServed == Spec => []RequestServed
<1>1. Init => ProgressInv /\ RequestServed
  BY DEF Init, ProgressInv, RequestServed
<1> QED
  BY <1>1, ProgressStep, SyncInvariant, SwitchTypeCorrect, PTL DEF Spec
=============================================================================
