---------------------------- MODULE RoutingProofs ----------------------------
(***************************************************************************)
(* Proofs about the way from a configuration file to routed streams, for   *)
(* any cards that are wired point to point around switches, and any        *)
(* connect strings.                                                        *)
(***************************************************************************)
EXTENDS Routing, SequenceTheorems, WellFoundedInduction, TLAPS

-----------------------------------------------------------------------------
(* ---- Lookups -------------------------------------------------------------- *)

LEMMA Smallest ==
  ASSUME NEW T, T \subseteq Nat, T # {}
  PROVE  \E x \in T : \A y \in T : x <= y
<1>1. PICK x \in T : \A y \in T : ~ (<<y, x>> \in OpToRel(<, Nat))
  BY NatLessThanWellFounded, WFMin
<1>2. ASSUME NEW y \in T PROVE x <= y
  <2>1. x \in Nat /\ y \in Nat
    OBVIOUS
  <2>2. y < x => <<y, x>> \in OpToRel(<, Nat)
    BY <2>1, Zenon DEF OpToRel
  <2>3. ~ (y < x)
    BY <1>1, <2>2
  <2> QED
    BY <2>1, <2>3
<1> QED
  BY <1>2

(* The first position of a set of them, or 0                               *)
LEMMA FirstOf ==
  ASSUME NEW n \in Nat, NEW I, I \subseteq 1 .. n, NEW i, i = IF I # {} THEN Min(I) ELSE 0
  PROVE  /\ i # 0 => i \in I
         /\ i = 0 => I = {}
<1>1. I \subseteq Nat /\ 0 \notin I
  OBVIOUS
<1>2. I # {} => Min(I) \in I
  <2> SUFFICES ASSUME I # {} PROVE Min(I) \in I
    OBVIOUS
  <2>1. \E x \in I : \A y \in I : x <= y
    BY <1>1, Smallest
  <2> QED
    BY <2>1 DEF Min
<1> QED
  BY <1>1, <1>2

LEMMA LookupByName ==
  ASSUME NEW S, NEW ips \in Seq(S), NEW name, NEW i, i = lookupByName(ips, name)
  PROVE  /\ i # 0 => ips[i] \in ToSet(ips) /\ ips[i].name = name
         /\ i = 0 => \A ip \in ToSet(ips) : ip.name # name
<1> DEFINE I == {k \in 1 .. Len(ips) : ips[k].name = name}
<1>1. Len(ips) \in Nat /\ DOMAIN ips = 1 .. Len(ips)
  BY LenProperties
<1>2. i = IF I # {} THEN Min(I) ELSE 0
  BY DEF lookupByName, SelectInSeq
<1>3. (i # 0 => i \in I) /\ (i = 0 => I = {})
  <2>1. I \subseteq 1 .. Len(ips)
    OBVIOUS
  <2> HIDE DEF I
  <2> QED
    BY <1>1, <1>2, <2>1, FirstOf
<1>4. ToSet(ips) = {ips[k] : k \in DOMAIN ips}
  BY DEF ToSet
<1> QED
  BY <1>1, <1>3, <1>4

LEMMA LookupByVlnv ==
  ASSUME NEW S, NEW ips \in Seq(S), NEW vlnv, NEW i, i = lookupByVlnv(ips, vlnv), i # 0
  PROVE  ips[i] \in ToSet(ips)
<1> DEFINE I == {k \in 1 .. Len(ips) : VlnvEq(ips[k].vlnv, vlnv)}
<1>1. Len(ips) \in Nat /\ DOMAIN ips = 1 .. Len(ips)
  BY LenProperties
<1>2. i = IF I # {} THEN Min(I) ELSE 0
  BY DEF lookupByVlnv, SelectInSeq
<1>3. i \in I
  <2>1. I \subseteq 1 .. Len(ips)
    OBVIOUS
  <2> HIDE DEF I
  <2> QED
    BY <1>1, <1>2, <2>1, FirstOf
<1>4. ToSet(ips) = {ips[k] : k \in DOMAIN ips}
  BY DEF ToSet
<1> QED
  BY <1>1, <1>3, <1>4

NoName == ""

LEMMA LookupById ==
  ASSUME NEW S, NEW ips \in Seq(S), NEW id, NEW i, i = lookupById(ips, id), i # 0
  PROVE  /\ ips[i] \in ToSet(ips)
         /\ ips[i].name = NoName \/ id.name = NoName \/ ips[i].name = id.name
<1> DEFINE I == {k \in 1 .. Len(ips) : IpIdentifierEq(ips[k], id)}
<1>1. Len(ips) \in Nat /\ DOMAIN ips = 1 .. Len(ips)
  BY LenProperties
<1>2. i = IF I # {} THEN Min(I) ELSE 0
  BY DEF lookupById, SelectInSeq
<1>3. i \in I
  <2>1. I \subseteq 1 .. Len(ips)
    OBVIOUS
  <2> HIDE DEF I
  <2> QED
    BY <1>1, <1>2, <2>1, FirstOf
<1>4. ToSet(ips) = {ips[k] : k \in DOMAIN ips}
  BY DEF ToSet
<1> QED
  BY <1>1, <1>3, <1>4, Zenon DEF IpIdentifierEq, NoName

-----------------------------------------------------------------------------
(* ---- The graph of the created cards --------------------------------------- *)

Edges(ip) == Parse(ip) \cup Internal(ip)

Created ==
  /\ configuration \in Configurations
  /\ cards \in Seq(ToSet(configuration))
  /\ streamGraph = UNION {Edges(ip) : ip \in IpsOf(cards)}

(* What is known of the cards when a stream is routed                      *)
Ready == Created /\ NamesAgree /\ card \in ToSet(cards)

LEMMA IpsOfCards ==
  ASSUME Created
  PROVE  /\ \A c \in ToSet(cards) : c \in ToSet(configuration) /\ ToSet(c.ips) \subseteq IpsOf(cards)
         /\ IpsOf(cards) = UNION {ToSet(c.ips) : c \in ToSet(cards)}
         /\ IpsOf(cards) \subseteq IpsOf(configuration)
<1>1. ToSet(cards) = {cards[i] : i \in DOMAIN cards}
  BY DEF ToSet
<1>2. ToSet(configuration) = {configuration[i] : i \in DOMAIN configuration}
  BY DEF ToSet
<1>3. \A i \in DOMAIN cards : cards[i] \in ToSet(configuration)
  <2> DEFINE S == ToSet(configuration)
  <2>1. cards \in Seq(S)
    BY DEF Created
  <2> HIDE DEF S
  <2>2. \A i \in DOMAIN cards : cards[i] \in S
    BY <2>1
  <2> QED
    BY <2>2 DEF S
<1>4. \A S : IpsOf(S) = UNION {ToSet(S[i].ips) : i \in DOMAIN S}
  BY DEF IpsOf
<1> QED
  BY <1>1, <1>2, <1>3, <1>4

LEMMA NamesIdentify ==
  ASSUME Ready, NEW ip \in IpsOf(cards), NEW other \in IpsOf(cards), ip.name = other.name
  PROVE  ip = other
<1>1. PICK c \in ToSet(cards) : ip \in ToSet(c.ips)
  BY IpsOfCards DEF Ready
<1>2. PICK d \in ToSet(cards) : other \in ToSet(d.ips)
  BY IpsOfCards DEF Ready
<1> QED
  BY <1>1, <1>2 DEF Ready, NamesAgree

LEMMA Wires ==
  ASSUME Ready, NEW ip \in IpsOf(cards)
  PROVE  /\ ip.name # NoName /\ ip.ports \subseteq StreamPort
         /\ ip.name \in ToSet(Channels) => ClassOf(ip) = "aurora"
         /\ ClassOf(ip) = "dma" => \A p \in ip.ports : p.name = DmaPort(p.isMaster)
         /\ \A p \in Masters(ip), q \in Masters(ip) : p.name = q.name => p = q
         /\ \A p \in Masters(ip) : /\ p \in StreamPort /\ p.isMaster = TRUE
                                   /\ p.target = <<p.target[1], p.target[2]>>
         /\ \A p \in Masters(ip), other \in IpsOf(cards) :
              ClassOf(ip) = "switch" /\ other.name = p.target[1] => ClassOf(other) # "switch"
<1>1. ip \in IpsOf(configuration) /\ configuration \in Configurations
  BY IpsOfCards DEF Ready, Created
<1>2. PICK c \in ToSet(configuration) : ip \in ToSet(c.ips)
  BY IpsOfCards DEF Ready
<1>3. /\ ip.name # NoName /\ ip.ports \subseteq StreamPort
      /\ ip.name \in ToSet(Channels) => ClassOf(ip) = "aurora"
      /\ ClassOf(ip) = "dma" => \A p \in ip.ports : p.name = DmaPort(p.isMaster)
  BY <1>1, WiringAssumption, Zenon DEF NoName
<1>4. \A p \in Masters(ip), q \in Masters(ip) : p.name = q.name => p = q
  BY <1>1, <1>2, WiringAssumption, Zenon DEF PointToPoint
<1>5. ASSUME NEW p \in Masters(ip)
      PROVE  /\ p \in StreamPort /\ p.isMaster = TRUE
             /\ p.target = <<p.target[1], p.target[2]>>
  <2>1. p \in StreamPort /\ p.isMaster
    BY <1>3 DEF Masters
  <2> QED
    BY <2>1 DEF StreamPort
<1>6. ASSUME NEW p \in Masters(ip), NEW other \in IpsOf(cards),
             ClassOf(ip) = "switch", other.name = p.target[1]
      PROVE  ClassOf(other) # "switch"
  <2>1. other \in IpsOf(configuration)
    BY IpsOfCards DEF Ready
  <2>2. OneSwitch(IpsOf(configuration))
    BY <1>1, WiringAssumption, Zenon
  <2> QED
    BY <1>1, <1>6, <2>1, <2>2 DEF OneSwitch
<1> QED
  BY <1>3, <1>4, <1>5, <1>6

(* On the card that was asked for                                          *)
LEMMA CardWires ==
  ASSUME Ready, NEW ip \in ToSet(card.ips), NEW other \in ToSet(card.ips), NEW p \in Masters(ip)
  PROVE  /\ ip \in IpsOf(cards) /\ other \in IpsOf(cards)
         /\ \A q \in Masters(other) : p.target = q.target => ip = other /\ p = q
         /\ other.name = p.target[1] => HasPort(other, p.target[2], FALSE)
<1>1. card \in ToSet(configuration) /\ ToSet(card.ips) \subseteq IpsOf(cards)
  BY IpsOfCards DEF Ready
<1>2. PointToPoint(ToSet(card.ips))
  BY <1>1, WiringAssumption, Zenon DEF Ready, Created
<1> QED
  BY <1>1, <1>2 DEF PointToPoint

(* The vertices of master and of slave ports                               *)
Out(name, master) == <<name, master, TRUE>>
In(name, slave) == <<name, slave, FALSE>>

LEMMA Vertices ==
  ASSUME NEW n, NEW q, NEW n1, NEW q1
  PROVE  /\ Out(n, q) = Out(n1, q1) <=> n = n1 /\ q = q1
         /\ In(n, q) = In(n1, q1) <=> n = n1 /\ q = q1
         /\ Out(n, q) # In(n1, q1)
         /\ Out(n, q)[1] = n /\ Out(n, q)[2] = q /\ In(n, q)[1] = n /\ In(n, q)[2] = q
  BY DEF Out, In

(* A master port leads to its target only,                                 *)
LEMMA FromMaster ==
  ASSUME Ready, NEW ip \in IpsOf(cards), NEW p \in Masters(ip)
  PROVE  Successors(Out(ip.name, p.name)) = {In(p.target[1], p.target[2])}
<1> DEFINE v == <<ip.name, p.name, TRUE>>
           w == <<p.target[1], p.target[2], FALSE>>
<1>1. p.isMaster = TRUE
  BY Wires
<1>2. <<v, w>> \in streamGraph
  <2>1. <<v, w>> \in Parse(ip)
    BY <1>1 DEF Parse, Vertex
  <2> QED
    BY <2>1 DEF Ready, Created, Edges
<1>3. ASSUME NEW e \in streamGraph, e[1] = v
      PROVE  e[2] = w
  <2>1. PICK other \in IpsOf(cards) : e \in Parse(other) \cup Internal(other)
    BY DEF Ready, Created, Edges
  <2>2. CASE e \in Parse(other)
    <3>1. PICK q \in Masters(other) :
            e = <<<<other.name, q.name, q.isMaster>>, <<q.target[1], q.target[2], FALSE>>>>
      BY <2>2 DEF Parse, Vertex
    <3>2. other.name = ip.name /\ q.name = p.name
      BY <1>3, <3>1
    <3>3. other = ip
      BY <3>2, NamesIdentify
    <3>4. q = p
      BY <3>2, <3>3, Wires
    <3> QED
      BY <3>1, <3>4
  <2>3. CASE e \in Internal(other)
    <3>1. PICK s \in Slaves(other), m \in Masters(other) :
            e = <<<<other.name, s.name, s.isMaster>>, Vertex(other, m)>>
      BY <2>3 DEF Internal, Vertex
    <3>2. s.isMaster = TRUE
      BY <1>3, <3>1
    <3> QED
      BY <3>1, <3>2 DEF Slaves, Masters
  <2> QED
    BY <2>1, <2>2, <2>3
<1> QED
  BY <1>2, <1>3 DEF Successors, Out, In

(* and a slave port to the master ports of its switch.                     *)
LEMMA FromSlave ==
  ASSUME Ready, NEW n, NEW s, NEW w \in Successors(In(n, s))
  PROVE  \E sw \in IpsOf(cards) : \E m \in Masters(sw) :
           sw.name = n /\ ClassOf(sw) = "switch" /\ w = Out(sw.name, m.name)
<1>1. PICK e \in streamGraph : e[1] = <<n, s, FALSE>> /\ e[2] = w
  BY DEF Successors, In
<1>2. PICK sw \in IpsOf(cards) : e \in Parse(sw) \cup Internal(sw)
  BY DEF Ready, Created, Edges
<1>3. CASE e \in Parse(sw)
  <2>1. PICK q \in Masters(sw) :
          e = <<<<sw.name, q.name, q.isMaster>>, <<q.target[1], q.target[2], FALSE>>>>
    BY <1>3 DEF Parse, Vertex
  <2>2. q.isMaster = TRUE
    BY Wires
  <2> QED
    BY <1>1, <2>1, <2>2
<1>4. CASE e \in Internal(sw)
  <2>1. ClassOf(sw) = "switch"
    BY <1>4 DEF Internal
  <2>2. PICK t \in Slaves(sw), m \in Masters(sw) :
          e = <<<<sw.name, t.name, t.isMaster>>, <<sw.name, m.name, m.isMaster>>>>
    BY <1>4, <2>1 DEF Internal, Vertex
  <2>3. m.isMaster = TRUE
    BY Wires
  <2> QED
    BY <1>1, <2>1, <2>2, <2>3 DEF Out
<1> QED
  BY <1>2, <1>3, <1>4

LEMMA ThroughSwitch ==
  ASSUME Ready, NEW sw \in IpsOf(cards), ClassOf(sw) = "switch", NEW s, HasPort(sw, s, FALSE),
         NEW m \in Masters(sw)
  PROVE  Out(sw.name, m.name) \in Successors(In(sw.name, s))
<1>1. PICK t \in sw.ports : t.name = s /\ t.isMaster = FALSE
  BY DEF HasPort
<1>2. t \in Slaves(sw) /\ m.isMaster = TRUE
  BY <1>1, Wires DEF Slaves, Masters
<1>3. Vertex(sw, t) = In(sw.name, s) /\ Vertex(sw, m) = Out(sw.name, m.name)
  BY <1>1, <1>2, Zenon DEF Vertex, In, Out
<1>4. <<Vertex(sw, t), Vertex(sw, m)>> \in Internal(sw)
  BY <1>2 DEF Internal
<1>5. PICK e \in streamGraph : e = <<Vertex(sw, t), Vertex(sw, m)>>
  BY <1>4 DEF Ready, Created, Edges
<1>6. e[1] = Vertex(sw, t) /\ e[2] = Vertex(sw, m)
  BY <1>5
<1> QED
  BY <1>3, <1>6 DEF Successors

(* A port that a switch leads to leads no further.                         *)
LEMMA BeyondSwitch ==
  ASSUME Ready, NEW sw \in IpsOf(cards), ClassOf(sw) = "switch", NEW m \in Masters(sw)
  PROVE  Successors(In(m.target[1], m.target[2])) = {}
<1> SUFFICES ASSUME NEW w \in Successors(In(m.target[1], m.target[2])) PROVE FALSE
  OBVIOUS
<1>1. PICK s \in IpsOf(cards) : s.name = m.target[1] /\ ClassOf(s) = "switch"
  <2>1. PICK n, q : n = m.target[1] /\ q = m.target[2]
    OBVIOUS
  <2>2. w \in Successors(In(n, q))
    BY <2>1, Zenon
  <2>3. \E s \in IpsOf(cards) : \E m1 \in Masters(s) :
          s.name = n /\ ClassOf(s) = "switch" /\ w = Out(s.name, m1.name)
    BY <2>2, FromSlave
  <2> QED
    BY <2>1, <2>3
<1>2. \A p \in Masters(sw), other \in IpsOf(cards) :
        ClassOf(sw) = "switch" /\ other.name = p.target[1] => ClassOf(other) # "switch"
  BY Wires
<1> QED
  BY <1>1, <1>2

-----------------------------------------------------------------------------
(* ---- Node::connect() ------------------------------------------------------- *)

Replaced(lk, l) == {k \in lk : k[1] = l[1] => k[2] # l[2] /\ k[3] # l[3]} \cup {l}

(* Master p leads to a switch of the card, whose master m leads to a port  *)
OnWay(p, sw, m, name, slave) ==
  /\ sw \in ToSet(card.ips) /\ ClassOf(sw) = "switch" /\ sw.name = p.target[1]
  /\ m \in Masters(sw) /\ m.target = <<name, slave>>

NoWay(p, name, slave) == \A sw, m : ~ OnWay(p, sw, m, name, slave)

LinkMade(lk2, lk, p, name, slave) ==
  \/ lk2 = lk /\ NoWay(p, name, slave)
  \/ \E sw, m : /\ OnWay(p, sw, m, name, slave)
                /\ lk2 = Replaced(lk, <<sw.name, p.target[2], m.name>>)

LEMMA CardLookup ==
  ASSUME Ready, NEW name, NEW i, i = lookupByName(card.ips, name)
  PROVE  /\ i # 0 => card.ips[i] \in ToSet(card.ips) /\ card.ips[i].name = name
         /\ i = 0 => \A ip \in ToSet(card.ips) : ip.name # name
         /\ ToSet(card.ips) \subseteq IpsOf(cards)
<1>1. card \in ToSet(configuration) /\ ToSet(card.ips) \subseteq IpsOf(cards)
  BY IpsOfCards DEF Ready
<1>2. card.ips \in Seq(ToSet(card.ips))
  BY <1>1, WiringAssumption, Zenon DEF Ready, Created
<1> QED
  BY <1>1, <1>2, LookupByName

(* A way is a path of the graph, through one link of one switch, and the   *)
(* only one.                                                               *)
LEMMA WayIsPath ==
  ASSUME Ready, NEW src \in ToSet(card.ips), NEW p \in Masters(src),
         NEW sw, NEW m, NEW name, NEW slave, OnWay(p, sw, m, name, slave)
  PROVE  /\ Out(sw.name, m.name) \in Successors(In(p.target[1], p.target[2]))
         /\ In(name, slave) \in Successors(Out(sw.name, m.name))
<1>1. /\ sw \in ToSet(card.ips) /\ ClassOf(sw) = "switch" /\ sw.name = p.target[1]
      /\ m \in Masters(sw) /\ m.target = <<name, slave>>
  BY DEF OnWay
<1>2. sw \in IpsOf(cards) /\ HasPort(sw, p.target[2], FALSE)
  BY <1>1, CardWires
<1>3. Out(sw.name, m.name) \in Successors(In(p.target[1], p.target[2]))
  BY <1>1, <1>2, ThroughSwitch
<1>4. In(name, slave) \in Successors(Out(sw.name, m.name))
  <2>1. m.target[1] = name /\ m.target[2] = slave
    BY <1>1
  <2>2. Successors(Out(sw.name, m.name)) = {In(m.target[1], m.target[2])}
    BY <1>1, <1>2, FromMaster
  <2> QED
    BY <2>1, <2>2, Zenon
<1> QED
  BY <1>3, <1>4

LEMMA OneWay ==
  ASSUME Ready, NEW p, NEW name, NEW slave,
         NEW sw, NEW m, OnWay(p, sw, m, name, slave),
         NEW sw1, NEW m1, OnWay(p, sw1, m1, name, slave)
  PROVE  sw1 = sw /\ m1 = m
<1>1. /\ sw \in ToSet(card.ips) /\ m \in Masters(sw)
      /\ sw1 \in ToSet(card.ips) /\ m1 \in Masters(sw1)
      /\ m.target = m1.target
  BY Zenon DEF OnWay
<1> QED
  BY <1>1, CardWires

(* What a switch of the card does with a call for one of its slave ports   *)
LEMMA AtTheSwitch ==
  ASSUME Ready, NEW src \in ToSet(card.ips), NEW p \in Masters(src),
         NEW sw \in ToSet(card.ips), sw.name = p.target[1], NEW name, NEW slave, NEW lk,
         NEW from, from = In(p.target[1], p.target[2]), NEW to, to = In(name, slave),
         NEW lk2 \in AtSwitch(lk, sw, from, to)
  PROVE  LinkMade(lk2, lk, p, name, slave)
<1> DEFINE Onward(lk1, hop) ==
             LET i == lookupByName(card.ips, hop[1])
             IN IF i = 0 THEN {lk1} ELSE AtSink(lk1, card.ips[i], hop, to)
           Internally(hop) ==
             IF ~ CanConnectInternal(sw, from[2], hop[2]) THEN {lk}
             ELSE LET lk1 == connectInternal(lk, sw, from[2], hop[2])
                  IN IF hop = to THEN {lk1}
                     ELSE UNION {Onward(lk1, second) : second \in Hops(hop, to)}
<1>1. lk2 \in (IF Hops(from, to) = {} THEN {lk}
               ELSE UNION {IF hop[1] = sw.name THEN Internally(hop) ELSE Onward(lk, hop)
                           : hop \in Hops(from, to)})
  BY DEF AtSwitch, ConnectAt
<1>2. \A lk1, hop : Onward(lk1, hop) = {lk1}
  BY DEF AtSink
<1>3. sw \in IpsOf(cards) /\ HasPort(sw, p.target[2], FALSE)
  BY CardWires
<1> HIDE DEF Onward
<1>4. CASE Hops(from, to) = {}
  <2>1. NoWay(p, name, slave)
    <3> SUFFICES ASSUME NEW s, NEW m, OnWay(p, s, m, name, slave) PROVE FALSE
      BY DEF NoWay
    <3>1. Out(s.name, m.name) \in Successors(from) /\ to \in Successors(Out(s.name, m.name))
      <4>1. Out(s.name, m.name) \in Successors(In(p.target[1], p.target[2]))
        BY WayIsPath, Zenon
      <4>2. In(name, slave) \in Successors(Out(s.name, m.name))
        BY WayIsPath, Zenon
      <4> QED
        BY <4>1, <4>2
    <3> QED
      BY <1>4, <3>1 DEF Hops, Reaches
  <2> QED
    BY <1>1, <1>4, <2>1 DEF LinkMade
<1>5. CASE Hops(from, to) # {}
  <2>1. PICK hop \in Hops(from, to) :
          lk2 \in (IF hop[1] = sw.name THEN Internally(hop) ELSE Onward(lk, hop))
    BY <1>1, <1>5
  <2> HIDE DEF Internally
  <2>2. hop \in Successors(from) /\ Reaches(hop, to)
    BY <2>1 DEF Hops
  <2>3. PICK m \in Masters(sw) : ClassOf(sw) = "switch" /\ hop = Out(sw.name, m.name)
    <3>1. PICK s \in IpsOf(cards) : \E m \in Masters(s) :
            s.name = p.target[1] /\ ClassOf(s) = "switch" /\ hop = Out(s.name, m.name)
      BY <2>2, FromSlave
    <3>2. s = sw
      BY <1>3, <3>1, NamesIdentify
    <3> QED
      BY <3>1, <3>2
  <2>4. PICK t : t = In(m.target[1], m.target[2]) /\ Successors(hop) = {t} /\ Successors(t) = {}
    BY <1>3, <2>3, FromMaster, BeyondSwitch
  <2>5. t = to
    <3>1. hop # to
      BY <2>3, Vertices
    <3> QED
      BY <2>2, <2>4, <3>1 DEF Reaches
  <2>6. OnWay(p, sw, m, name, slave)
    <3>1. m.target = <<name, slave>>
      <4>1. m.target = <<m.target[1], m.target[2]>>
        BY <1>3, Wires
      <4>2. m.target[1] = name /\ m.target[2] = slave
        <5>1. In(m.target[1], m.target[2]) = In(name, slave)
          BY <2>4, <2>5, Zenon
        <5>2. <<m.target[1], m.target[2], FALSE>> = <<name, slave, FALSE>>
          BY <5>1, Zenon DEF In
        <5> QED
          BY <5>2
      <4> QED
        BY <4>1, <4>2, Zenon
    <3> QED
      BY <2>3, <3>1 DEF OnWay
  <2>7. lk2 = connectInternal(lk, sw, p.target[2], m.name)
    <3>1. hop[1] = sw.name /\ hop[2] = m.name /\ hop # to /\ from[2] = p.target[2]
      BY <2>3, Vertices
    <3>2. CanConnectInternal(sw, p.target[2], m.name)
      <4>1. m \in sw.ports /\ m.isMaster = TRUE
        BY <1>3, Wires DEF Masters
      <4> QED
        BY <1>3, <2>3, <4>1 DEF CanConnectInternal, HasPort
    <3>3. lk2 \in Internally(hop)
      BY <2>1, <3>1
    <3>4. lk2 \in UNION {Onward(connectInternal(lk, sw, p.target[2], m.name), second) : second \in Hops(hop, to)}
      BY <3>1, <3>2, <3>3, Zenon DEF Internally
    <3> QED
      BY <1>2, <3>4
  <2> QED
    BY <2>6, <2>7 DEF connectInternal, Replaced, LinkMade
<1> QED
  BY <1>4, <1>5

(* A call of the source makes the link of the way to the sink, in place of *)
(* those that share a port with it, or, if there is no way, none.          *)
LEMMA AtTheSource ==
  ASSUME Ready, NEW src \in ToSet(card.ips), ClassOf(src) # "switch", NEW p \in Masters(src),
         NEW name, NEW slave, NEW lk,
         NEW from, from = Out(src.name, p.name), NEW to, to = In(name, slave),
         NEW lk2 \in Connect(lk, src, from, to)
  PROVE  LinkMade(lk2, lk, p, name, slave)
<1> DEFINE Onward(lk1, hop) ==
             LET i == lookupByName(card.ips, hop[1])
             IN IF i = 0 THEN {lk1} ELSE AtSwitch(lk1, card.ips[i], hop, to)
           Internally(hop) ==
             IF ~ CanConnectInternal(src, from[2], hop[2]) THEN {lk}
             ELSE LET lk1 == connectInternal(lk, src, from[2], hop[2])
                  IN IF hop = to THEN {lk1}
                     ELSE UNION {Onward(lk1, second) : second \in Hops(hop, to)}
<1>1. lk2 \in (IF Hops(from, to) = {} THEN {lk}
               ELSE UNION {IF hop[1] = src.name THEN Internally(hop) ELSE Onward(lk, hop)
                           : hop \in Hops(from, to)})
  BY DEF Connect, ConnectAt
<1>2. src \in IpsOf(cards) /\ p.target = <<p.target[1], p.target[2]>>
  <2>1. src \in IpsOf(cards)
    BY CardWires
  <2> QED
    BY <2>1, Wires
<1>3. PICK h : h = In(p.target[1], p.target[2]) /\ Successors(from) = {h}
  BY <1>2, FromMaster
<1>4. h[1] = p.target[1]
  <2>1. In(p.target[1], p.target[2])[1] = p.target[1]
    BY DEF In
  <2> QED
    BY <1>3, <2>1
<1>5. ASSUME NEW s, NEW m, OnWay(p, s, m, name, slave)
      PROVE  /\ Hops(from, to) = {h}
             /\ s \in ToSet(card.ips) /\ s.name = h[1] /\ ClassOf(s) = "switch"
  <2>1. Out(s.name, m.name) \in Successors(In(p.target[1], p.target[2]))
    BY <1>5, WayIsPath, Zenon
  <2>2. In(name, slave) \in Successors(Out(s.name, m.name))
    BY <1>5, WayIsPath, Zenon
  <2>3. Out(s.name, m.name) \in Successors(h) /\ to \in Successors(Out(s.name, m.name))
    BY <1>3, <2>1, <2>2, Zenon
  <2>4. Reaches(h, to)
    BY <2>3 DEF Reaches
  <2>5. s \in ToSet(card.ips) /\ s.name = p.target[1] /\ ClassOf(s) = "switch"
    BY <1>5 DEF OnWay
  <2> QED
    BY <1>3, <1>4, <2>4, <2>5 DEF Hops
<1> HIDE DEF Onward, Internally
<1>6. CASE Hops(from, to) = {}
  BY <1>1, <1>5, <1>6 DEF NoWay, LinkMade
<1>7. CASE Hops(from, to) # {}
  <2>1. Hops(from, to) = {h}
    BY <1>3, <1>7 DEF Hops
  <2>2. lk2 \in (IF h[1] = src.name THEN Internally(h) ELSE Onward(lk, h))
    BY <1>1, <2>1
  <2>3. CASE h[1] = src.name
    <3>1. lk2 = lk
      BY <2>2, <2>3 DEF Internally, CanConnectInternal
    <3>2. NoWay(p, name, slave)
      <4> SUFFICES ASSUME NEW s, NEW m, OnWay(p, s, m, name, slave) PROVE FALSE
        BY DEF NoWay
      <4>1. s \in ToSet(card.ips) /\ s.name = src.name /\ ClassOf(s) = "switch"
        BY <1>5, <2>3
      <4>2. s \in IpsOf(cards)
        BY <4>1, CardWires
      <4> QED
        BY <1>2, <4>1, <4>2, NamesIdentify
    <3> QED
      BY <3>1, <3>2 DEF LinkMade
  <2>4. CASE h[1] # src.name
    <3>1. PICK i : i = lookupByName(card.ips, h[1])
      OBVIOUS
    <3>2. lk2 \in (IF i = 0 THEN {lk} ELSE AtSwitch(lk, card.ips[i], h, to))
      BY <2>2, <2>4, <3>1 DEF Onward
    <3>3. CASE i = 0
      <4>1. \A ip \in ToSet(card.ips) : ip.name # h[1]
        BY <3>1, <3>3, CardLookup
      <4> QED
        BY <1>5, <3>2, <3>3, <4>1 DEF NoWay, LinkMade
    <3>4. CASE i # 0
      <4>1. PICK sw \in ToSet(card.ips) : sw = card.ips[i] /\ sw.name = p.target[1]
        BY <1>4, <3>1, <3>4, CardLookup
      <4>2. lk2 \in AtSwitch(lk, sw, h, to)
        BY <3>2, <3>4, <4>1
      <4>3. LinkMade(lk2, lk, p, name, slave)
        <5>1. h = In(p.target[1], p.target[2]) /\ sw.name = p.target[1]
          BY <1>3, <4>1, Zenon
        <5> HIDE <1>3, <4>1
        <5> QED
          BY <4>2, <5>1, AtTheSwitch, Zenon
      <4> QED
        BY <4>3
    <3> QED
      BY <3>3, <3>4
  <2> QED
    BY <2>3, <2>4
<1> QED
  BY <1>6, <1>7

-----------------------------------------------------------------------------
(* ---- The links of a direction, and of two ---------------------------------- *)

(* What PortsExist() and the casts of configCrossBar() know of a source    *)
IsSource(src) ==
  /\ src \in ToSet(card.ips) /\ ClassOf(src) # "switch"
  /\ HasPort(src, DefaultPort(src, TRUE), TRUE)

(* Master p of the source is its default port, and on the way to that of   *)
(* the sink                                                                *)
Joins(src, dest, p, sw, m) ==
  /\ p \in Masters(src) /\ p.name = DefaultPort(src, TRUE)
  /\ OnWay(p, sw, m, dest.name, DefaultPort(dest, FALSE))

LinkOf(p, sw, m) == <<sw.name, p.target[2], m.name>>

Joined(src, dest, l) == \E p, sw, m : Joins(src, dest, p, sw, m) /\ l = LinkOf(p, sw, m)

LEMMA BetweenIs ==
  ASSUME NEW src, NEW dest, NEW l
  PROVE  l \in Between(src, dest) <=> Joined(src, dest, l)
<1> DEFINE Into(sw) == {p \in Masters(src) : p.name = DefaultPort(src, TRUE) /\ p.target[1] = sw.name}
           OutOf(sw) == {p \in Masters(sw) : p.target = <<dest.name, DefaultPort(dest, FALSE)>>}
           Switches == {ip \in ToSet(card.ips) : ClassOf(ip) = "switch"}
           Links(sw) == {<<sw.name, in.target[2], out.name>> : in \in Into(sw), out \in OutOf(sw)}
<1>1. Between(src, dest) = UNION {Links(sw) : sw \in Switches}
  BY DEF Between
<1>2. \A sw : l \in Links(sw) <=>
                \E p \in Into(sw) : \E m \in OutOf(sw) : l = LinkOf(p, sw, m)
  BY DEF LinkOf
<1> HIDE DEF Links
<1>3. l \in Between(src, dest) <=>
        \E sw \in Switches : \E p \in Into(sw) : \E m \in OutOf(sw) : l = LinkOf(p, sw, m)
  BY <1>1, <1>2
<1>4. \A p, sw, m : Joins(src, dest, p, sw, m) <=> sw \in Switches /\ p \in Into(sw) /\ m \in OutOf(sw)
  <2> TAKE p, sw, m
  <2>1. p.target[1] = sw.name <=> sw.name = p.target[1]
    OBVIOUS
  <2> QED
    BY <2>1 DEF Joins, OnWay
<1> HIDE DEF Into, OutOf, Switches
<1> QED
  BY <1>3, <1>4, Zenon DEF Joined

LEMMA JoinsOnce ==
  ASSUME Ready, NEW src, IsSource(src), NEW dest,
         NEW p, NEW sw, NEW m, Joins(src, dest, p, sw, m),
         NEW p1, NEW sw1, NEW m1, Joins(src, dest, p1, sw1, m1)
  PROVE  p1 = p /\ sw1 = sw /\ m1 = m
<1>1. /\ p \in Masters(src) /\ p1 \in Masters(src) /\ p.name = p1.name
      /\ OnWay(p, sw, m, dest.name, DefaultPort(dest, FALSE))
      /\ OnWay(p1, sw1, m1, dest.name, DefaultPort(dest, FALSE))
  BY Zenon DEF Joins
<1>2. src \in ToSet(card.ips) /\ src \in IpsOf(cards)
  BY <1>1, CardWires DEF IsSource
<1>3. p1 = p
  BY <1>1, <1>2, Wires
<1>4. PICK name, slave : name = dest.name /\ slave = DefaultPort(dest, FALSE)
  OBVIOUS
<1>5. OnWay(p, sw, m, name, slave) /\ OnWay(p, sw1, m1, name, slave)
  BY <1>1, <1>3, <1>4, Zenon
<1>6. sw1 = sw /\ m1 = m
  BY <1>5, OneWay, Zenon
<1> QED
  BY <1>3, <1>6

(* What a call of connect() for one direction leaves                       *)
LEMMA PairMade ==
  ASSUME Ready, NEW src, IsSource(src), NEW dest, NEW lk, NEW pair, pair = <<src, dest>>,
         NEW lk2 \in ConnectPair(lk, pair)
  PROVE  \/ lk2 = lk /\ Between(src, dest) = {}
         \/ \E l : Between(src, dest) = {l} /\ lk2 = Replaced(lk, l)
<1>1. PICK p \in Masters(src) : p.name = DefaultPort(src, TRUE)
  BY DEF IsSource, HasPort, Masters
<1>2. pair[1] = src /\ pair[2] = dest
  OBVIOUS
<1>3. PICK name, slave : name = dest.name /\ slave = DefaultPort(dest, FALSE)
  OBVIOUS
<1>4. lk2 \in Connect(lk, src, Out(src.name, p.name), In(name, slave))
  BY <1>1, <1>2, <1>3, Zenon DEF ConnectPair, Out, In
<1>5. LinkMade(lk2, lk, p, name, slave)
  BY <1>1, <1>4, AtTheSource DEF IsSource
<1>6. CASE lk2 = lk /\ NoWay(p, name, slave)
  <2>1. ASSUME NEW l, Joined(src, dest, l) PROVE FALSE
    <3>1. PICK p1, sw1, m1 : Joins(src, dest, p1, sw1, m1)
      BY <2>1 DEF Joined
    <3>2. p1 \in Masters(src) /\ p1.name = p.name /\ OnWay(p1, sw1, m1, name, slave)
      BY <1>1, <1>3, <3>1, Zenon DEF Joins
    <3>3. p1 = p
      <4>1. src \in IpsOf(cards)
        BY <3>2, CardWires DEF IsSource
      <4> QED
        BY <3>2, <4>1, Wires
    <3> QED
      BY <1>6, <3>2, <3>3, Zenon DEF NoWay
  <2> QED
    BY <1>6, <2>1, BetweenIs
<1>7. ASSUME NEW sw, NEW m, OnWay(p, sw, m, name, slave), lk2 = Replaced(lk, <<sw.name, p.target[2], m.name>>)
      PROVE  \E l : Between(src, dest) = {l} /\ lk2 = Replaced(lk, l)
  <2>1. Joins(src, dest, p, sw, m)
    BY <1>1, <1>3, <1>7, Zenon DEF Joins
  <2>2. PICK l : l = LinkOf(p, sw, m)
    OBVIOUS
  <2>3. lk2 = Replaced(lk, l)
    BY <1>7, <2>2, Zenon DEF LinkOf
  <2>4. Joined(src, dest, l)
    BY <2>1, <2>2 DEF Joined
  <2>5. ASSUME NEW k, Joined(src, dest, k) PROVE k = l
    <3>1. PICK p1, sw1, m1 : Joins(src, dest, p1, sw1, m1) /\ k = LinkOf(p1, sw1, m1)
      BY <2>5 DEF Joined
    <3>2. p1 = p /\ sw1 = sw /\ m1 = m
      BY <2>1, <3>1, JoinsOnce
    <3> QED
      BY <2>2, <3>1, <3>2
  <2>6. Between(src, dest) = {l}
    BY <2>4, <2>5, BetweenIs
  <2> QED
    BY <2>3, <2>6
<1> QED
  BY <1>5, <1>6, <1>7 DEF LinkMade

(* The links of two directions share a port only where they are the same   *)
(* link: two sources that differ lead to different slave ports of the      *)
(* switch, and two sinks are led to by different master ports.             *)
LEMMA Apart ==
  ASSUME Ready, NEW a, IsSource(a), NEW b \in ToSet(card.ips),
         NEW c, IsSource(c), NEW d \in ToSet(card.ips), a = c <=> b = d,
         NEW l, Between(a, b) = {l}, NEW k, Between(c, d) = {k}, l # k, l[1] = k[1]
  PROVE  l[2] # k[2] /\ l[3] # k[3]
<1>1. PICK p, sw, m : Joins(a, b, p, sw, m) /\ l = LinkOf(p, sw, m)
  BY BetweenIs DEF Joined
<1>2. PICK p1, sw1, m1 : Joins(c, d, p1, sw1, m1) /\ k = LinkOf(p1, sw1, m1)
  BY BetweenIs DEF Joined
<1>3. a # c /\ b # d
  BY <1>1, <1>2, JoinsOnce
<1>4. a \in ToSet(card.ips) /\ c \in ToSet(card.ips)
  BY DEF IsSource
<1>5. /\ p \in Masters(a) /\ sw \in ToSet(card.ips) /\ sw.name = p.target[1] /\ m \in Masters(sw)
      /\ m.target = <<b.name, DefaultPort(b, FALSE)>>
  BY <1>1, Zenon DEF Joins, OnWay
<1>6. /\ p1 \in Masters(c) /\ sw1 \in ToSet(card.ips) /\ sw1.name = p1.target[1] /\ m1 \in Masters(sw1)
      /\ m1.target = <<d.name, DefaultPort(d, FALSE)>>
  BY <1>2, Zenon DEF Joins, OnWay
<1>7. /\ l[1] = sw.name /\ l[2] = p.target[2] /\ l[3] = m.name
      /\ k[1] = sw1.name /\ k[2] = p1.target[2] /\ k[3] = m1.name
  BY <1>1, <1>2 DEF LinkOf
<1>8. /\ a \in IpsOf(cards) /\ c \in IpsOf(cards) /\ sw \in IpsOf(cards) /\ sw1 \in IpsOf(cards)
      /\ b \in IpsOf(cards) /\ d \in IpsOf(cards)
  <2>1. card \in ToSet(cards)
    BY DEF Ready
  <2>2. ToSet(card.ips) \subseteq IpsOf(cards)
    BY <2>1, IpsOfCards DEF Ready
  <2> QED
    BY <1>4, <1>5, <1>6, <2>2
<1>9. sw1 = sw
  BY <1>7, <1>8, NamesIdentify
<1>10. l[2] # k[2]
  <2> SUFFICES ASSUME p.target[2] = p1.target[2] PROVE FALSE
    BY <1>7
  <2>1. p.target = p1.target
    <3>1. p.target = <<p.target[1], p.target[2]>>
      BY <1>5, <1>8, Wires
    <3>2. p1.target = <<p1.target[1], p1.target[2]>>
      BY <1>6, <1>8, Wires
    <3>3. p.target[1] = p1.target[1]
      BY <1>5, <1>6, <1>9
    <3> QED
      BY <3>1, <3>2, <3>3, Zenon
  <2>2. p.target = p1.target => a = c
    BY <1>4, <1>5, <1>6, CardWires
  <2> QED
    BY <1>3, <2>1, <2>2
<1>11. l[3] # k[3]
  <2> SUFFICES ASSUME m.name = m1.name PROVE FALSE
    BY <1>7
  <2>1. m = m1
    <3>1. m1 \in Masters(sw)
      BY <1>6, <1>9
    <3> QED
      BY <1>5, <1>8, <3>1, Wires
  <2>2. b.name = d.name
    BY <1>5, <1>6, <2>1
  <2> QED
    BY <1>3, <1>8, <2>2, NamesIdentify
<1> QED
  BY <1>10, <1>11

(* All that was asked for is connected, and nothing else                   *)
Serves(lk2, lk, asked) == asked \subseteq lk2 /\ lk2 \subseteq lk \cup asked

LEMMA OneDirection ==
  ASSUME Ready, NEW a, IsSource(a), NEW b, NEW lk, NEW lk2 \in Route(lk, <<<<a, b>>>>)
  PROVE  Serves(lk2, lk, Between(a, b))
<1>1. lk2 \in ConnectPair(lk, <<a, b>>)
  <2>1. PICK dirs : dirs = <<<<a, b>>>>
    OBVIOUS
  <2>2. Len(dirs) = 1 /\ dirs[1] = <<a, b>>
    BY <2>1
  <2>3. lk2 \in Route(lk, dirs)
    BY <2>1
  <2> QED
    BY <2>2, <2>3 DEF Route
<1>2. \/ lk2 = lk /\ Between(a, b) = {}
      \/ \E l : Between(a, b) = {l} /\ lk2 = Replaced(lk, l)
  BY <1>1, PairMade
<1> QED
  BY <1>2 DEF Replaced, Serves

LEMMA TwoDirections ==
  ASSUME Ready, NEW a, IsSource(a), NEW b \in ToSet(card.ips),
         NEW c, IsSource(c), NEW d \in ToSet(card.ips), a = c <=> b = d,
         NEW lk, NEW lk2 \in Route(lk, <<<<a, b>>, <<c, d>>>>)
  PROVE  Serves(lk2, lk, Between(a, b) \cup Between(c, d))
<1>1. PICK lk1 \in ConnectPair(lk, <<a, b>>) : lk2 \in ConnectPair(lk1, <<c, d>>)
  <2>1. PICK dirs : dirs = <<<<a, b>>, <<c, d>>>>
    OBVIOUS
  <2>2. Len(dirs) = 2 /\ dirs[1] = <<a, b>> /\ dirs[2] = <<c, d>>
    BY <2>1
  <2>3. lk2 \in Route(lk, dirs)
    BY <2>1
  <2>4. lk2 \in UNION {ConnectPair(lk1, dirs[2]) : lk1 \in ConnectPair(lk, dirs[1])}
    BY <2>2, <2>3 DEF Route
  <2> QED
    BY <2>2, <2>4
<1>2. \/ lk1 = lk /\ Between(a, b) = {}
      \/ \E l : Between(a, b) = {l} /\ lk1 = Replaced(lk, l)
  BY <1>1, PairMade
<1>3. \/ lk2 = lk1 /\ Between(c, d) = {}
      \/ \E k : Between(c, d) = {k} /\ lk2 = Replaced(lk1, k)
  BY <1>1, PairMade
<1>4. CASE lk2 = lk1 /\ Between(c, d) = {}
  BY <1>2, <1>4 DEF Replaced, Serves
<1>5. ASSUME NEW k, Between(c, d) = {k}, lk2 = Replaced(lk1, k)
      PROVE  Serves(lk2, lk, Between(a, b) \cup Between(c, d))
  <2>1. CASE lk1 = lk /\ Between(a, b) = {}
    BY <1>5, <2>1 DEF Replaced, Serves
  <2>2. ASSUME NEW l, Between(a, b) = {l}, lk1 = Replaced(lk, l)
        PROVE  Serves(lk2, lk, Between(a, b) \cup Between(c, d))
    <3>1. l # k /\ l[1] = k[1] => l[2] # k[2] /\ l[3] # k[3]
      BY <1>5, <2>2, Apart
    <3>2. l \in lk1 /\ lk1 \subseteq lk \cup {l}
      BY <2>2 DEF Replaced
    <3>3. l \in lk2 /\ k \in lk2 /\ lk2 \subseteq lk1 \cup {k}
      BY <1>5, <3>1, <3>2 DEF Replaced
    <3> QED
      BY <1>5, <2>2, <3>2, <3>3 DEF Serves
  <2> QED
    BY <1>2, <2>1, <2>2
<1> QED
  BY <1>3, <1>4, <1>5

-----------------------------------------------------------------------------
(* ---- The IPs that are asked for -------------------------------------------- *)

LEMMA CastIs ==
  ASSUME NEW i, NEW class, Cast(i, class) # NoIP
  PROVE  i # 0 /\ Cast(i, class) = card.ips[i] /\ ClassOf(card.ips[i]) \in class
  BY DEF Cast

LEMMA ByVlnv ==
  ASSUME Ready, NEW vlnv, NEW class, NEW ip, ip = Cast(lookupByVlnv(card.ips, vlnv), class), ip # NoIP
  PROVE  ip \in ToSet(card.ips) /\ ClassOf(ip) \in class
<1>1. PICK i : i = lookupByVlnv(card.ips, vlnv)
  OBVIOUS
<1>2. card.ips \in Seq(ToSet(card.ips))
  <2>1. card \in ToSet(configuration)
    BY IpsOfCards DEF Ready
  <2> QED
    BY <2>1, WiringAssumption, Zenon DEF Ready, Created
<1>3. i # 0 /\ ip = card.ips[i] /\ ClassOf(ip) \in class
  BY <1>1, CastIs
<1>4. card.ips[i] \in ToSet(card.ips)
  BY <1>1, <1>2, <1>3, LookupByVlnv
<1> QED
  BY <1>3, <1>4

LEMMA TheDma ==
  ASSUME Ready, dma # NoIP
  PROVE  dma \in ToSet(card.ips) /\ ClassOf(dma) = "dma"
<1>1. dma \in ToSet(card.ips) /\ ClassOf(dma) \in {"dma"}
  BY ByVlnv, Zenon DEF dma
<1> QED
  BY <1>1

LEMMA TheDac ==
  ASSUME Ready, dinoDac # NoIP
  PROVE  dinoDac \in ToSet(card.ips) /\ ClassOf(dinoDac) = "dinoDac"
<1>1. dinoDac \in ToSet(card.ips) /\ ClassOf(dinoDac) \in {"dinoDac"}
  BY ByVlnv, Zenon DEF dinoDac
<1> QED
  BY <1>1

LEMMA TheAdc ==
  ASSUME Ready, dinoAdc # NoIP
  PROVE  dinoAdc \in ToSet(card.ips) /\ ClassOf(dinoAdc) = "dinoAdc"
<1>1. dinoAdc \in ToSet(card.ips) /\ ClassOf(dinoAdc) \in {"dinoAdc"}
  BY ByVlnv, Zenon DEF dinoAdc
<1> QED
  BY <1>1

(* The channels are Aurora IPs by the cast of villas-fpga-pipe, or, in     *)
(* villas-fpga-ctrl, by their names.                                       *)
LEMMA TheChannel ==
  ASSUME Ready, NEW num \in 0 .. 3, auroraChannels[num] # NoIP
  PROVE  auroraChannels[num] \in ToSet(card.ips) /\ ClassOf(auroraChannels[num]) = "aurora"
<1>1. card.ips \in Seq(ToSet(card.ips)) /\ ToSet(card.ips) \subseteq IpsOf(cards)
  <2>1. card \in ToSet(configuration) /\ ToSet(card.ips) \subseteq IpsOf(cards)
    BY IpsOfCards DEF Ready
  <2> QED
    BY <2>1, WiringAssumption, Zenon DEF Ready, Created
<1> DEFINE id(names) == [vlnv |-> XilinxTag("ip", "aurora_8b10b"), name |-> names[num + 1]]
<1>2. CASE program = "pipe"
  <2>1. PICK i : i = lookupById(card.ips, id(PipeChannels))
    OBVIOUS
  <2>2. auroraChannels[num] = Cast(i, {"aurora"})
    BY <1>2, <2>1 DEF auroraChannels, pipeChannels, ChannelIPs
  <2>3. i # 0 /\ auroraChannels[num] = card.ips[i] /\ ClassOf(auroraChannels[num]) = "aurora"
    BY <2>2, CastIs
  <2>4. card.ips[i] \in ToSet(card.ips)
    BY <1>1, <2>1, <2>3, LookupById
  <2> QED
    BY <2>3, <2>4
<1>3. CASE program # "pipe"
  <2>1. PICK i : i = lookupById(card.ips, id(Channels))
    OBVIOUS
  <2>2. auroraChannels[num] = Cast(i, Classes)
    BY <1>3, <2>1 DEF auroraChannels, getAuroraChannels, ChannelIPs
  <2>3. i # 0 /\ auroraChannels[num] = card.ips[i]
    BY <2>2, CastIs
  <2>4. PICK n : n = id(Channels).name /\ n \in ToSet(Channels) /\ n # NoName
    <3>1. Channels[num + 1] \in ToSet(Channels)
      <4>1. Channels \in Seq(STRING) /\ Len(Channels) = 4
        BY RoutingAssumption, Zenon
      <4>2. num + 1 \in DOMAIN Channels
        BY <4>1
      <4> QED
        BY <4>2 DEF ToSet
    <3>2. "" \notin ToSet(Channels)
      BY RoutingAssumption, Zenon
    <3>3. NoName \notin ToSet(Channels)
      BY <3>2, Zenon DEF NoName
    <3> QED
      BY <3>1, <3>3
  <2>5. /\ card.ips[i] \in ToSet(card.ips)
        /\ card.ips[i].name = NoName \/ card.ips[i].name = n
    BY <1>1, <2>1, <2>3, <2>4, LookupById
  <2>6. card.ips[i] \in IpsOf(cards)
    BY <1>1, <2>5
  <2>7. card.ips[i].name # NoName
    BY <2>6, Wires
  <2>8. card.ips[i].name \in ToSet(Channels)
    BY <2>4, <2>5, <2>7
  <2>9. ClassOf(card.ips[i]) = "aurora"
    BY <2>6, <2>8, Wires
  <2> QED
    BY <2>3, <2>5, <2>9
<1> QED
  BY <1>2, <1>3

IsEnd(type, num) == type \in {"DINO", "DMA", "AURORA"} /\ (type = "AURORA" => num \in 0 .. 3)

LEMMA SourceOfEnd ==
  ASSUME Ready, HasAll, NEW type, NEW num, IsEnd(type, num)
  PROVE  /\ Source(type, num) \in ToSet(card.ips) /\ Sink(type, num) \in ToSet(card.ips)
         /\ type = "DINO" => ClassOf(Source(type, num)) = "dinoAdc" /\ ClassOf(Sink(type, num)) = "dinoDac"
         /\ type = "DMA" => ClassOf(Source(type, num)) = "dma" /\ ClassOf(Sink(type, num)) = "dma"
         /\ type = "AURORA" => ClassOf(Source(type, num)) = "aurora" /\ ClassOf(Sink(type, num)) = "aurora"
         /\ ClassOf(Source(type, num)) # "switch"
<1>1. CASE type = "DINO"
  BY <1>1, TheDac, TheAdc DEF HasAll, Source, Sink
<1>2. CASE type = "DMA"
  BY <1>2, TheDma DEF HasAll, Source, Sink
<1>3. CASE type = "AURORA"
  <2>1. num \in 0 .. 3 /\ auroraChannels[num] # NoIP
    BY <1>3 DEF IsEnd, HasAll, HasChannels
  <2>2. Source(type, num) = auroraChannels[num] /\ Sink(type, num) = auroraChannels[num]
    BY <1>3 DEF Source, Sink
  <2>3. auroraChannels[num] \in ToSet(card.ips) /\ ClassOf(auroraChannels[num]) = "aurora"
    BY <2>1, TheChannel
  <2> QED
    BY <1>3, <2>2, <2>3
<1> QED
  BY <1>1, <1>2, <1>3 DEF IsEnd

(* Two ends send by one IP exactly if they receive by one.                 *)
LEMMA EndsDiffer ==
  ASSUME Ready, HasAll, NEW t, NEW n, IsEnd(t, n), NEW t1, NEW n1, IsEnd(t1, n1)
  PROVE  Source(t, n) = Source(t1, n1) <=> Sink(t, n) = Sink(t1, n1)
<1>1. CASE t # t1
  <2>1. PICK c, d : /\ c = ClassOf(Source(t, n)) /\ d = ClassOf(Sink(t, n))
                    /\ t = "DINO" => c = "dinoAdc" /\ d = "dinoDac"
                    /\ t = "DMA" => c = "dma" /\ d = "dma"
                    /\ t = "AURORA" => c = "aurora" /\ d = "aurora"
    BY SourceOfEnd
  <2>2. PICK c1, d1 : /\ c1 = ClassOf(Source(t1, n1)) /\ d1 = ClassOf(Sink(t1, n1))
                      /\ t1 = "DINO" => c1 = "dinoAdc" /\ d1 = "dinoDac"
                      /\ t1 = "DMA" => c1 = "dma" /\ d1 = "dma"
                      /\ t1 = "AURORA" => c1 = "aurora" /\ d1 = "aurora"
    BY SourceOfEnd
  <2>3. c # c1 /\ d # d1
    BY <1>1, <2>1, <2>2 DEF IsEnd
  <2> QED
    BY <2>1, <2>2, <2>3
<1>2. CASE t = t1
  BY <1>2 DEF Source, Sink
<1> QED
  BY <1>1, <1>2

(* What parseString() makes of two ports, and what they mean               *)
LEMMA Parsed ==
  ASSUME NEW str, str.form = "ports", NEW cs, cs = parseString(str)
  PROVE  \E s, d : /\ cs.srcType = TypeOf(s) /\ cs.srcAsInt = s.num
                   /\ cs.dstType = TypeOf(d) /\ cs.dstAsInt = d.num
                   /\ cs.bidirectional => Meaning(str) = {<<s, d>>, <<d, s>>}
                   /\ ~ cs.bidirectional => Meaning(str) = {<<s, d>>}
                   /\ cs.bidirectional \in BOOLEAN
<1>1. CASE str.arrow = "<-"
  <2>1. PICK s, d : s = str.right /\ d = str.left
    OBVIOUS
  <2>2. /\ cs.srcType = TypeOf(s) /\ cs.srcAsInt = s.num
        /\ cs.dstType = TypeOf(d) /\ cs.dstAsInt = d.num
        /\ cs.bidirectional = FALSE
    BY <1>1, <2>1 DEF parseString
  <2>3. Meaning(str) = {<<s, d>>}
    BY <1>1, <2>1 DEF Meaning
  <2> QED
    BY <2>2, <2>3
<1>2. CASE str.arrow # "<-"
  <2>1. PICK s, d : s = str.left /\ d = str.right
    OBVIOUS
  <2>2. /\ cs.srcType = TypeOf(s) /\ cs.srcAsInt = s.num
        /\ cs.dstType = TypeOf(d) /\ cs.dstAsInt = d.num
        /\ cs.bidirectional = (str.arrow = "<->")
    BY <1>2, <2>1 DEF parseString
  <2>3. str.arrow = "<->" => Meaning(str) = {<<s, d>>, <<d, s>>}
    BY <1>2, <2>1 DEF Meaning
  <2>4. str.arrow # "<->" => Meaning(str) = {<<s, d>>}
    BY <1>2, <2>1 DEF Meaning
  <2>5. cs.bidirectional \in BOOLEAN
    BY <2>2, Zenon
  <2> QED
    BY <2>2, <2>3, <2>4, <2>5
<1> QED
  BY <1>1, <1>2

LEMMA Types ==
  ASSUME NEW port
  PROVE  /\ TypeOf(port) \in {"DINO", "DMA", "AURORA"}
         /\ TypeOf(port) = "AURORA" => port.num # -1
  BY DEF TypeOf

LEMMA TwoElements ==
  ASSUME NEW x, NEW y
  PROVE  <<x>> \o <<y>> = <<x, y>>
<1> DEFINE S == {x, y}
<1>1. PICK s, t, u : s = <<x>> /\ t = <<y>> /\ u = <<x, y>>
  OBVIOUS
<1>2. s \in Seq(S) /\ t \in Seq(S) /\ u \in Seq(S) /\ Len(s) = 1 /\ Len(t) = 1 /\ Len(u) = 2
  BY <1>1
<1>3. s[1] = x /\ t[1] = y /\ u[1] = x /\ u[2] = y
  BY <1>1
<1> HIDE DEF S
<1>4. /\ s \o t \in Seq(S) /\ Len(s \o t) = Len(s) + Len(t)
      /\ \A i \in 1 .. Len(s) + Len(t) : (s \o t)[i] = IF i <= Len(s) THEN s[i] ELSE t[i - Len(s)]
  BY <1>2, ConcatProperties
<1>5. Len(s \o t) = 2 /\ (s \o t)[1] = x /\ (s \o t)[2] = y
  BY <1>2, <1>3, <1>4
<1>6. s \o t = u
  <2>1. \A i \in 1 .. 2 : (s \o t)[i] = u[i]
    BY <1>3, <1>5
  <2> QED
    BY <1>2, <1>4, <1>5, <2>1, SeqEqual
<1> QED
  BY <1>1, <1>6

(* configCrossBar()                                                        *)
LEMMA CrossBarServes ==
  ASSUME Ready, HasAll, NEW str, str.form = "ports", NEW cs, cs = parseString(str),
         ExistingChannels(cs), NEW dirs, dirs = Directions(cs), PortsExist(dirs),
         NEW lk, NEW lk2 \in Route(lk, dirs)
  PROVE  Serves(lk2, lk, WiredFor(str))
<1>1. PICK s, d : /\ cs.srcType = TypeOf(s) /\ cs.srcAsInt = s.num
                  /\ cs.dstType = TypeOf(d) /\ cs.dstAsInt = d.num
                  /\ cs.bidirectional => Meaning(str) = {<<s, d>>, <<d, s>>}
                  /\ ~ cs.bidirectional => Meaning(str) = {<<s, d>>}
                  /\ cs.bidirectional \in BOOLEAN
  BY Parsed
<1>2. IsEnd(cs.srcType, cs.srcAsInt) /\ IsEnd(cs.dstType, cs.dstAsInt)
  BY <1>1, Types DEF IsEnd, ExistingChannels
<1>3. PICK a, b, c, e :
        /\ a = Source(cs.srcType, cs.srcAsInt) /\ b = Sink(cs.dstType, cs.dstAsInt)
        /\ c = Source(cs.dstType, cs.dstAsInt) /\ e = Sink(cs.srcType, cs.srcAsInt)
  OBVIOUS
<1>4. /\ a \in ToSet(card.ips) /\ b \in ToSet(card.ips) /\ c \in ToSet(card.ips) /\ e \in ToSet(card.ips)
      /\ ClassOf(a) # "switch" /\ ClassOf(c) # "switch"
  BY <1>2, <1>3, SourceOfEnd
<1>5. a = c <=> b = e
  BY <1>2, <1>3, EndsDiffer
<1>6. Wired(<<s, d>>) = Between(a, b) /\ Wired(<<d, s>>) = Between(c, e)
  BY <1>1, <1>3 DEF Wired
<1>7. CASE cs.bidirectional
  <2>1. dirs = <<<<a, b>>, <<c, e>>>>
    <3>1. PICK x, y : x = <<a, b>> /\ y = <<c, e>>
      OBVIOUS
    <3>2. dirs = <<x>> \o <<y>>
      BY <1>3, <1>7, <3>1 DEF Directions
    <3>3. <<x>> \o <<y>> = <<x, y>>
      BY TwoElements
    <3> QED
      BY <3>1, <3>2, <3>3
  <2>2. IsSource(a) /\ IsSource(c)
    <3>1. /\ dirs[1][1] = a /\ dirs[2][1] = c /\ 1 \in DOMAIN dirs /\ 2 \in DOMAIN dirs
      BY <2>1
    <3> QED
      BY <1>4, <3>1 DEF PortsExist, IsSource
  <2>3. WiredFor(str) = Between(a, b) \cup Between(c, e)
    BY <1>1, <1>6, <1>7 DEF WiredFor
  <2>4. lk2 \in Route(lk, <<<<a, b>>, <<c, e>>>>)
    BY <2>1
  <2> QED
    BY <1>4, <1>5, <2>2, <2>3, <2>4, TwoDirections
<1>8. CASE ~ cs.bidirectional
  <2>1. dirs = <<<<a, b>>>>
    BY <1>3, <1>8 DEF Directions
  <2>2. IsSource(a)
    <3>1. dirs[1][1] = a /\ 1 \in DOMAIN dirs
      BY <2>1
    <3> QED
      BY <1>4, <3>1 DEF PortsExist, IsSource
  <2>3. WiredFor(str) = Between(a, b)
    BY <1>1, <1>6, <1>8 DEF WiredFor
  <2>4. lk2 \in Route(lk, <<<<a, b>>>>)
    BY <2>1
  <2> QED
    BY <2>2, <2>3, <2>4, OneDirection
<1> QED
  BY <1>7, <1>8

(* connectLoopback(): the ports of a DMA are those of the streams.         *)
LEMMA LoopbackServes ==
  ASSUME Ready, dma # NoIP, NEW ports \in LoopbackPorts(dma), NEW str, str.form # "ports",
         NEW lk, NEW lk2 \in Connect(lk, dma, Vertex(dma, ports[1]), Vertex(dma, ports[2]))
  PROVE  Serves(lk2, lk, WiredFor(str))
<1>1. PICK ip : ip = dma /\ ip \in ToSet(card.ips) /\ ClassOf(ip) = "dma"
  BY TheDma
<1>2. ip \in IpsOf(cards)
  <2>1. ToSet(card.ips) \subseteq IpsOf(cards)
    BY IpsOfCards DEF Ready
  <2> QED
    BY <1>1, <2>1
<1>3. PICK p, q : p = ports[1] /\ q = ports[2] /\ p \in Masters(ip) /\ q \in Slaves(ip)
  BY <1>1 DEF LoopbackPorts
<1>4. p.isMaster = TRUE /\ q.isMaster = FALSE /\ p \in ip.ports /\ q \in ip.ports
  <2>1. ip.ports \subseteq StreamPort
    BY <1>2, Wires
  <2>2. q.isMaster \in BOOLEAN
    BY <1>3, <2>1 DEF Slaves, StreamPort
  <2>3. p.isMaster = TRUE /\ p \in ip.ports /\ q \in ip.ports
    BY <1>2, <1>3, Wires DEF Masters, Slaves
  <2> QED
    BY <1>3, <2>2, <2>3 DEF Masters, Slaves
<1>5. p.name = DefaultPort(ip, TRUE) /\ q.name = DefaultPort(ip, FALSE)
  <2>1. \A x \in ip.ports : x.name = DmaPort(x.isMaster)
    BY <1>1, <1>2, Wires
  <2>2. DefaultPort(ip, TRUE) = DmaPort(TRUE) /\ DefaultPort(ip, FALSE) = DmaPort(FALSE)
    BY <1>1 DEF DefaultPort
  <2> QED
    BY <1>4, <2>1, <2>2
<1>6. IsSource(ip)
  BY <1>1, <1>4, <1>5 DEF IsSource, HasPort
<1>7. PICK pair : pair = <<ip, ip>>
  OBVIOUS
<1>8. lk2 \in ConnectPair(lk, pair)
  <2>1. pair[1] = ip /\ pair[2] = ip
    BY <1>7
  <2>2. /\ Vertex(ip, p) = <<ip.name, DefaultPort(ip, TRUE), TRUE>>
        /\ Vertex(ip, q) = <<ip.name, DefaultPort(ip, FALSE), FALSE>>
    BY <1>4, <1>5, Zenon DEF Vertex
  <2> QED
    BY <1>1, <1>3, <2>1, <2>2, Zenon DEF ConnectPair
<1>9. \/ lk2 = lk /\ Between(ip, ip) = {}
      \/ \E l : Between(ip, ip) = {l} /\ lk2 = Replaced(lk, l)
  BY <1>6, <1>7, <1>8, PairMade
<1>10. WiredFor(str) = Between(ip, ip)
  <2>1. PICK d : d = [word |-> "dma", num |-> -1]
    OBVIOUS
  <2>2. Meaning(str) = {<<d, d>>}
    BY <2>1 DEF Meaning
  <2>3. TypeOf(d) = "DMA"
    BY <2>1 DEF TypeOf
  <2>4. Wired(<<d, d>>) = Between(ip, ip)
    BY <1>1, <2>3 DEF Wired, Source, Sink
  <2> QED
    BY <2>2, <2>4 DEF WiredFor
<1> QED
  BY <1>9, <1>10 DEF Serves, Replaced

LEMMA PipeServes ==
  ASSUME Ready, HasChannels, dma # NoIP, PortsExist(PipeDirections),
         NEW lk, NEW lk2 \in Route(lk, PipeDirections)
  PROVE  Serves(lk2, lk, WiredFor(PipeString))
<1>1. PICK a, d : a = auroraChannels[3] /\ d = dma
  OBVIOUS
<1>2. a \in ToSet(card.ips) /\ ClassOf(a) = "aurora" /\ d \in ToSet(card.ips) /\ ClassOf(d) = "dma"
  BY <1>1, TheDma, TheChannel DEF HasChannels
<1>3. PICK dirs : dirs = <<<<a, d>>, <<d, a>>>> /\ dirs = PipeDirections
  BY <1>1 DEF PipeDirections
<1>4. IsSource(a) /\ IsSource(d)
  <2>1. dirs[1][1] = a /\ dirs[2][1] = d /\ 1 \in DOMAIN dirs /\ 2 \in DOMAIN dirs
    BY <1>3
  <2>2. PortsExist(dirs)
    BY <1>3
  <2> QED
    BY <1>2, <2>1, <2>2 DEF PortsExist, IsSource
<1>5. lk2 \in Route(lk, <<<<a, d>>, <<d, a>>>>)
  BY <1>3
<1>6. Serves(lk2, lk, Between(a, d) \cup Between(d, a))
  BY <1>2, <1>4, <1>5, TwoDirections
<1>7. WiredFor(PipeString) = Between(a, d) \cup Between(d, a)
  <2>1. PICK str, word, l, r :
          /\ str = [form |-> "ports", left |-> l, arrow |-> "<->", right |-> r] /\ str = PipeString
          /\ l = [word |-> word, num |-> 3] /\ r = [word |-> "dma", num |-> -1]
    BY Zenon DEF PipeString
  <2>2. Meaning(PipeString) = {<<l, r>>, <<r, l>>}
    BY <2>1 DEF Meaning
  <2>3. l.num = 3 /\ r.num = -1 /\ r.word = "dma"
    BY <2>1
  <2>4. TypeOf(l) = "AURORA" /\ TypeOf(r) = "DMA"
    <3> HIDE <2>1, <2>2
    <3> QED
      BY <2>3 DEF TypeOf
  <2>5. Wired(<<l, r>>) = Between(a, d) /\ Wired(<<r, l>>) = Between(d, a)
    <3> HIDE <2>1, <2>2
    <3> QED
      BY <1>1, <2>3, <2>4 DEF Wired, Source, Sink
  <2> HIDE <2>1
  <2> QED
    BY <2>2, <2>5 DEF WiredFor
<1> QED
  BY <1>6, <1>7

-----------------------------------------------------------------------------
(* ---- The streams that are asked for ---------------------------------------- *)

AsksDma(str, side) == str.form = "ports" /\ \E pair \in Meaning(str) : TypeOf(pair[side]) = "DMA"

(* What main() notes of a string, by what the string means                 *)
LEMMA NotesMeaning ==
  ASSUME NEW str, NEW cs, cs = parseString(str)
  PROVE  /\ AsksDma(str, 1) <=> isSrcStdin(cs) \/ (isDstStdout(cs) /\ cs.bidirectional)
         /\ AsksDma(str, 2) <=> isDstStdout(cs) \/ (isSrcStdin(cs) /\ cs.bidirectional)
         /\ isDmaLoopback(cs) <=> str.form # "ports"
<1>1. CASE str.form = "ports"
  <2>1. PICK s, d : /\ cs.srcType = TypeOf(s) /\ cs.dstType = TypeOf(d)
                    /\ cs.bidirectional => Meaning(str) = {<<s, d>>, <<d, s>>}
                    /\ ~ cs.bidirectional => Meaning(str) = {<<s, d>>}
                    /\ cs.bidirectional \in BOOLEAN
    BY <1>1, Parsed
  <2>2. ~ isDmaLoopback(cs)
    BY <2>1, Types DEF isDmaLoopback
  <2>3. CASE cs.bidirectional
    <3>1. Meaning(str) = {<<s, d>>, <<d, s>>}
      BY <2>1, <2>3
    <3>2. /\ AsksDma(str, 1) <=> TypeOf(s) = "DMA" \/ TypeOf(d) = "DMA"
          /\ AsksDma(str, 2) <=> TypeOf(s) = "DMA" \/ TypeOf(d) = "DMA"
      BY <1>1, <3>1 DEF AsksDma
    <3>3. (isSrcStdin(cs) <=> TypeOf(s) = "DMA") /\ (isDstStdout(cs) <=> TypeOf(d) = "DMA")
      BY <2>1, Zenon DEF isSrcStdin, isDstStdout
    <3> QED
      BY <1>1, <2>2, <2>3, <3>2, <3>3, Zenon
  <2>4. CASE ~ cs.bidirectional
    <3>1. Meaning(str) = {<<s, d>>}
      BY <2>1, <2>4
    <3>2. /\ AsksDma(str, 1) <=> TypeOf(s) = "DMA"
          /\ AsksDma(str, 2) <=> TypeOf(d) = "DMA"
      BY <1>1, <3>1 DEF AsksDma
    <3>3. (isSrcStdin(cs) <=> TypeOf(s) = "DMA") /\ (isDstStdout(cs) <=> TypeOf(d) = "DMA")
      BY <2>1, Zenon DEF isSrcStdin, isDstStdout
    <3> QED
      BY <1>1, <2>2, <2>4, <3>2, <3>3, Zenon
  <2> QED
    BY <2>3, <2>4
<1>2. CASE str.form # "ports"
  <2>1. cs.srcType = "LOOPBACK" /\ cs.dstType = "LOOPBACK"
    BY <1>2 DEF parseString
  <2> QED
    BY <1>2, <2>1 DEF AsksDma, isSrcStdin, isDstStdout, isDmaLoopback
<1> QED
  BY <1>1, <1>2

Looked == {connectStr[i] : i \in 1 .. at - 1}

RoutedSoFar ==
  /\ at > 1 => WiredFor(connectStr[at - 1]) \subseteq links
  /\ links \subseteq UNION {WiredFor(str) : str \in Looked}
  /\ readFromStdin = \E str \in Looked : AsksDma(str, 1)
  /\ writeToStdout = \E str \in Looked : AsksDma(str, 2)

Served == stage \in {"route", "serve", "end"}

(* The wiring is that of the card and of the program.                      *)
LEMMA SameWiring ==
  ASSUME UNCHANGED <<card, program>>, NEW str
  PROVE  WiredFor(str)' = WiredFor(str)
<1>1. card' = card /\ program' = program
  OBVIOUS
<1>2. dma' = dma /\ dinoAdc' = dinoAdc /\ dinoDac' = dinoDac /\ auroraChannels' = auroraChannels
  BY <1>1, Zenon DEF dma, dinoAdc, dinoDac, auroraChannels, pipeChannels, getAuroraChannels, ChannelIPs, Cast
<1>3. ASSUME NEW src, NEW dest PROVE Between(src, dest)' = Between(src, dest)
  <2> DEFINE Links(sw) ==
               {<<sw.name, in.target[2], out.name>> :
                  in \in {p \in Masters(src) : p.name = DefaultPort(src, TRUE) /\ p.target[1] = sw.name},
                  out \in {p \in Masters(sw) : p.target = <<dest.name, DefaultPort(dest, FALSE)>>}}
  <2>1. Between(src, dest) = UNION {Links(sw) : sw \in {ip \in ToSet(card.ips) : ClassOf(ip) = "switch"}}
    BY DEF Between
  <2>2. Between(src, dest)' = UNION {Links(sw) : sw \in {ip \in ToSet(card'.ips) : ClassOf(ip) = "switch"}}
    BY DEF Between
  <2> HIDE DEF Links
  <2> QED
    BY <1>1, <2>1, <2>2, Zenon
<1> QED
  BY <1>1, <1>2, <1>3 DEF WiredFor, Wired, Source, Sink

(* One more string, and what it means is connected.                       *)
LEMMA StringDone ==
  ASSUME RoutedSoFar, at \in Nat \ {0}, NEW str, str = connectStr[at], at' = at + 1,
         UNCHANGED <<connectStr, card, program>>, Serves(links', links, WiredFor(str)),
         readFromStdin' <=> (readFromStdin \/ AsksDma(str, 1)), readFromStdin' \in BOOLEAN,
         writeToStdout' <=> (writeToStdout \/ AsksDma(str, 2)), writeToStdout' \in BOOLEAN
  PROVE  RoutedSoFar'
<1>1. connectStr' = connectStr
  OBVIOUS
<1>2. Looked' = Looked \cup {str} /\ connectStr'[at' - 1] = str
  <2>1. 1 .. at' - 1 = (1 .. at - 1) \cup {at}
    OBVIOUS
  <2> QED
    BY <1>1, <2>1 DEF Looked
<1>3. (at > 1 => WiredFor(connectStr[at - 1]) \subseteq links)'
  <2>1. WiredFor(str) \subseteq links'
    BY DEF Serves
  <2>2. WiredFor(str)' = WiredFor(str)
    BY SameWiring
  <2>3. WiredFor(connectStr[at - 1])' = WiredFor(str)'
    BY <1>2
  <2> QED
    BY <2>1, <2>2, <2>3
<1>4. (links \subseteq UNION {WiredFor(s) : s \in Looked})'
  <2>1. links' \subseteq (UNION {WiredFor(s) : s \in Looked}) \cup WiredFor(str)
    BY DEF Serves, RoutedSoFar
  <2>2. \A s : WiredFor(s)' = WiredFor(s)
    BY SameWiring
  <2> QED
    BY <1>2, <2>1, <2>2
<1>5. (readFromStdin = \E s \in Looked : AsksDma(s, 1))'
  <2>1. readFromStdin <=> \E s \in Looked : AsksDma(s, 1)
    BY Zenon DEF RoutedSoFar
  <2>2. (\E s \in Looked' : AsksDma(s, 1)) <=> (\E s \in Looked : AsksDma(s, 1)) \/ AsksDma(str, 1)
    BY <1>2
  <2> QED
    BY <2>1, <2>2, Zenon
<1>6. (writeToStdout = \E s \in Looked : AsksDma(s, 2))'
  <2>1. writeToStdout <=> \E s \in Looked : AsksDma(s, 2)
    BY Zenon DEF RoutedSoFar
  <2>2. (\E s \in Looked' : AsksDma(s, 2)) <=> (\E s \in Looked : AsksDma(s, 2)) \/ AsksDma(str, 2)
    BY <1>2
  <2> QED
    BY <2>1, <2>2, Zenon
<1> QED
  BY <1>3, <1>4, <1>5, <1>6 DEF RoutedSoFar

LEMMA AsWired ==
  /\ RoutesAsWired <=> (NamesAgree /\ Served => RoutedSoFar)
  /\ RoutesAsWired' <=> (NamesAgree' /\ Served' => RoutedSoFar')
  BY DEF RoutesAsWired, RoutedSoFar, Served, Looked, AsksDma


LEMMA Unmoved ==
  ASSUME RoutedSoFar,
         UNCHANGED <<connectStr, at, links, readFromStdin, writeToStdout, card, program>>
  PROVE  RoutedSoFar'
<1>1. /\ connectStr' = connectStr /\ at' = at /\ links' = links
      /\ readFromStdin' = readFromStdin /\ writeToStdout' = writeToStdout
      /\ card' = card /\ program' = program
  OBVIOUS
<1>2. Looked' = Looked
  BY <1>1, Zenon DEF Looked
<1>3. \A str : WiredFor(str)' = WiredFor(str)
  BY SameWiring
<1>4. WiredFor(connectStr[at - 1])' = WiredFor(connectStr[at - 1])
  <2>1. PICK str : str = connectStr[at - 1]
    OBVIOUS
  <2>2. WiredFor(str)' = WiredFor(str)
    BY <1>3
  <2>3. (connectStr[at - 1])' = str
    BY <1>1, <2>1
  <2> QED
    BY <2>1, <2>2, <2>3
<1>5. (UNION {WiredFor(s) : s \in Looked})' = UNION {WiredFor(s) : s \in Looked}
  BY <1>2, <1>3
<1> QED
  BY <1>1, <1>2, <1>4, <1>5, Zenon DEF RoutedSoFar

LEMMA SameChannels ==
  ASSUME UNCHANGED <<card, program>>
  PROVE  HasChannels' <=> HasChannels
<1>1. card' = card /\ program' = program
  OBVIOUS
<1>2. auroraChannels' = auroraChannels
  BY <1>1, Zenon DEF auroraChannels, pipeChannels, getAuroraChannels, ChannelIPs, Cast
<1> QED
  BY <1>2, Zenon DEF HasChannels

(* ---- The invariant ---------------------------------------------------------- *)

(* The graph is that of the cards that were created; nothing is connected  *)
(* before the card is chosen, of which the four channels exist once it is. *)
RouteInv ==
  /\ program \in {"ctrl", "pipe"} /\ (program = "pipe" => connectStr = <<PipeString>>)
  /\ at \in Nat \ {0}
  /\ Created
  /\ stage \in {"create", "dump"} => links = {} /\ readFromStdin = FALSE /\ writeToStdout = FALSE
  /\ stage = "dump" => at = 1
  /\ stage = "dump" \/ Served => card \in ToSet(cards)
  /\ stage = "route" => HasChannels
  /\ RoutesAsWired

LEMMA RouteInit ==
  ASSUME RoutingInit(CtrlArguments \cup PipeArguments)
  PROVE  RouteInv
<1>1. PICK a \in CtrlArguments \cup PipeArguments :
        program = a[1] /\ configuration = a[2] /\ connectStr = a[3] /\ noDma = a[4]
  BY DEF RoutingInit
<1>2. /\ stage = "create" /\ streamGraph = {} /\ cards = <<>> /\ at = 1 /\ links = {}
      /\ readFromStdin = FALSE /\ writeToStdout = FALSE
  BY DEF RoutingInit
<1>3. program \in {"ctrl", "pipe"} /\ configuration \in Configurations
  BY <1>1 DEF CtrlArguments, PipeArguments
<1>4. program = "pipe" => connectStr = <<PipeString>>
  <2>1. a \in CtrlArguments => a[1] = "ctrl"
    BY DEF CtrlArguments
  <2>2. a \in PipeArguments => a[3] = <<PipeString>>
    <3>1. PICK S : S = {<<PipeString>>}
      OBVIOUS
    <3>2. a \in PipeArguments => a[3] \in S
      BY <3>1 DEF PipeArguments
    <3> QED
      BY <3>1, <3>2
  <2> QED
    BY <1>1, <2>1, <2>2
<1>5. Created
  <2>1. cards \in Seq(ToSet(configuration))
    BY <1>2, EmptySeq
  <2>2. IpsOf(cards) = {}
    BY <1>2 DEF IpsOf
  <2> QED
    BY <1>2, <1>3, <2>1, <2>2 DEF Created
<1>6. RoutesAsWired
  BY <1>2, AsWired DEF Served
<1> QED
  BY <1>2, <1>3, <1>4, <1>5, <1>6 DEF RouteInv, Served

(* What stays as it is by an action that ends in an error                  *)
LEMMA EndsInError ==
  ASSUME RouteInv, stage' \in {"error", "crashed"}, UNCHANGED <<argVars, graphVars, at>>
  PROVE  RouteInv'
<1>1. /\ program' = program /\ configuration' = configuration /\ connectStr' = connectStr
      /\ streamGraph' = streamGraph /\ cards' = cards /\ at' = at
  BY DEF argVars, graphVars
<1>2. Created'
  <2>1. /\ configuration \in Configurations /\ cards \in Seq(ToSet(configuration))
        /\ streamGraph = UNION {Edges(ip) : ip \in IpsOf(cards)}
    BY DEF RouteInv, Created
  <2> QED
    BY <1>1, <2>1, Zenon DEF Created
<1>3. RoutesAsWired'
  BY AsWired DEF Served
<1> QED
  BY <1>1, <1>2, <1>3 DEF RouteInv, Served

(* A string has been connected.                                            *)
LEMMA StringRouted ==
  ASSUME RouteInv, stage = "route", NEW str, str = connectStr[at], at' = at + 1,
         UNCHANGED <<argVars, stage, graphVars>>,
         Ready => Serves(links', links, WiredFor(str)),
         readFromStdin \in BOOLEAN => (readFromStdin' <=> (readFromStdin \/ AsksDma(str, 1))),
         readFromStdin' \in BOOLEAN,
         writeToStdout \in BOOLEAN => (writeToStdout' <=> (writeToStdout \/ AsksDma(str, 2))),
         writeToStdout' \in BOOLEAN
  PROVE  RouteInv'
<1>1. /\ program' = program /\ configuration' = configuration /\ connectStr' = connectStr
      /\ streamGraph' = streamGraph /\ cards' = cards /\ card' = card /\ stage' = stage
  BY DEF argVars, graphVars
<1>2. Created'
  <2>1. /\ configuration \in Configurations /\ cards \in Seq(ToSet(configuration))
        /\ streamGraph = UNION {Edges(ip) : ip \in IpsOf(cards)}
    BY DEF RouteInv, Created
  <2> QED
    BY <1>1, <2>1, Zenon DEF Created
<1>3. HasChannels'
  BY <1>1, SameChannels DEF RouteInv
<1>4. ASSUME NamesAgree' PROVE RoutedSoFar'
  <2>1. NamesAgree
    BY <1>1, <1>4, Zenon DEF NamesAgree
  <2>2. RoutedSoFar /\ Ready
    BY <2>1, AsWired DEF RouteInv, Served, Ready
  <2>3. readFromStdin \in BOOLEAN /\ writeToStdout \in BOOLEAN
    BY <2>2, Zenon DEF RoutedSoFar
  <2>4. UNCHANGED <<connectStr, card, program>>
    BY <1>1
  <2>5. at \in Nat \ {0}
    BY DEF RouteInv
  <2> QED
    BY <2>2, <2>3, <2>4, <2>5, StringDone
<1>5. RoutesAsWired'
  BY <1>4, AsWired
<1>6. at' \in Nat \ {0} /\ card \in ToSet(cards) /\ program \in {"ctrl", "pipe"}
      /\ (program = "pipe" => connectStr = <<PipeString>>)
  BY DEF RouteInv, Served
<1> QED
  BY <1>1, <1>2, <1>3, <1>5, <1>6 DEF RouteInv, Served

(* A card more has its IPs in the graph.                                   *)
LEMMA CardCreated ==
  ASSUME RouteInv, CreateCard
  PROVE  RouteInv'
<1>1. /\ stage = "create" /\ at \in 1 .. Len(configuration) /\ configuration \in Configurations
  <2>1. configuration \in Seq(ToSet(configuration)) /\ configuration \in Configurations
    BY WiringAssumption, Zenon DEF RouteInv, Created
  <2> QED
    BY <2>1, LenProperties DEF CreateCard, Creating, RouteInv
<1>2. configuration \in Seq(ToSet(configuration))
  BY <1>1, WiringAssumption, Zenon
<1>3. PICK c : c = configuration[at] /\ c \in ToSet(configuration)
  BY <1>1, <1>2, LenProperties DEF ToSet
<1>4. /\ streamGraph' = streamGraph \cup UNION {Edges(c.ips[i]) : i \in DOMAIN c.ips}
      /\ cards' = Append(cards, c) /\ at' = at + 1
      /\ UNCHANGED <<argVars, stage, card, links, readFromStdin, writeToStdout>>
  BY <1>3, Zenon DEF CreateCard, Edges
<1>5. /\ program' = program /\ configuration' = configuration /\ connectStr' = connectStr
      /\ stage' = stage
      /\ links' = links /\ readFromStdin' = readFromStdin /\ writeToStdout' = writeToStdout
  BY <1>4 DEF argVars
<1>6. /\ cards \in Seq(ToSet(configuration))
      /\ streamGraph = UNION {Edges(ip) : ip \in IpsOf(cards)}
  BY DEF RouteInv, Created
<1>7. /\ cards' \in Seq(ToSet(configuration))
      /\ DOMAIN cards' = DOMAIN cards \cup {Len(cards) + 1}
      /\ \A i \in DOMAIN cards : cards'[i] = cards[i]
      /\ cards'[Len(cards) + 1] = c
  <2> DEFINE S == ToSet(configuration)
  <2>1. cards \in Seq(S) /\ c \in S /\ cards' = Append(cards, c)
    BY <1>3, <1>4, <1>6
  <2> HIDE DEF S
  <2>2. /\ cards' \in Seq(S) /\ Len(cards') = Len(cards) + 1
        /\ \A i \in 1 .. Len(cards) : cards'[i] = cards[i]
        /\ cards'[Len(cards) + 1] = c
    BY <2>1, AppendProperties
  <2>3. Len(cards) \in Nat /\ DOMAIN cards = 1 .. Len(cards) /\ DOMAIN cards' = 1 .. Len(cards')
    BY <2>1, <2>2, LenProperties
  <2>4. DOMAIN cards' = DOMAIN cards \cup {Len(cards) + 1}
    BY <2>2, <2>3
  <2> QED
    BY <2>2, <2>3, <2>4 DEF S
<1>8. IpsOf(cards)' = IpsOf(cards) \cup ToSet(c.ips)
  <2>1. IpsOf(cards)' = UNION {ToSet(cards'[i].ips) : i \in DOMAIN cards'}
    BY DEF IpsOf
  <2>2. IpsOf(cards) = UNION {ToSet(cards[i].ips) : i \in DOMAIN cards}
    BY DEF IpsOf
  <2> QED
    BY <1>7, <2>1, <2>2
<1>9. streamGraph' = UNION {Edges(ip) : ip \in IpsOf(cards)'}
  <2>1. ToSet(c.ips) = {c.ips[i] : i \in DOMAIN c.ips}
    BY DEF ToSet
  <2> QED
    BY <1>4, <1>6, <1>8, <2>1
<1>10. Created'
  BY <1>1, <1>5, <1>7, <1>9 DEF Created
<1>11. RoutesAsWired'
  BY <1>1, <1>5, AsWired DEF Served
<1> QED
  BY <1>1, <1>4, <1>5, <1>10, <1>11 DEF RouteInv, Served

LEMMA CardChosen ==
  ASSUME RouteInv, ChooseCard
  PROVE  RouteInv'
<1>1. /\ stage = "create" /\ at' = 1 /\ stage' \in {"error", "dump"}
      /\ UNCHANGED <<argVars, streamGraph, cards, links, readFromStdin, writeToStdout>>
  BY DEF ChooseCard
<1>2. /\ program' = program /\ configuration' = configuration /\ connectStr' = connectStr
      /\ streamGraph' = streamGraph /\ cards' = cards
      /\ links' = links /\ readFromStdin' = readFromStdin /\ writeToStdout' = writeToStdout
  BY <1>1 DEF argVars
<1>3. Created'
  <2>1. /\ configuration \in Configurations /\ cards \in Seq(ToSet(configuration))
        /\ streamGraph = UNION {Edges(ip) : ip \in IpsOf(cards)}
    BY DEF RouteInv, Created
  <2> QED
    BY <1>2, <2>1, Zenon DEF Created
<1>4. stage' = "dump" => card' \in ToSet(cards)
  <2> DEFINE I == {k \in 1 .. Len(cards) : cards[k].name = FpgaName}
  <2>1. PICK i : i = (IF I # {} THEN Min(I) ELSE 0)
    OBVIOUS
  <2>2. IF i = 0 THEN stage' = "error" ELSE stage' = "dump" /\ card' = cards[i]
    BY <2>1 DEF ChooseCard, SelectInSeq
  <2>3. cards \in Seq(ToSet(configuration))
    BY DEF RouteInv, Created
  <2>4. Len(cards) \in Nat /\ DOMAIN cards = 1 .. Len(cards)
    BY <2>3, LenProperties
  <2>5. I \subseteq 1 .. Len(cards)
    OBVIOUS
  <2> HIDE DEF I
  <2>6. i # 0 => i \in DOMAIN cards
    BY <2>1, <2>4, <2>5, FirstOf
  <2> QED
    BY <2>2, <2>6 DEF ToSet
<1>5. RoutesAsWired'
  BY <1>1, AsWired DEF Served
<1> QED
  BY <1>1, <1>2, <1>3, <1>4, <1>5 DEF RouteInv, Served

(* The steps that create, connect and note nothing                         *)
LEMMA StageOnly ==
  ASSUME RouteInv, NoSuchDevice \/ DumpChannels \/ Serve \/ UNCHANGED routingVars
  PROVE  RouteInv'
<1>1. /\ UNCHANGED <<argVars, graphVars, links, readFromStdin, writeToStdout>>
      /\ at' \in {at, at + 1}
  BY DEF NoSuchDevice, DumpChannels, Serve, routingVars
<1>2. /\ program' = program /\ configuration' = configuration /\ connectStr' = connectStr
      /\ streamGraph' = streamGraph /\ cards' = cards /\ card' = card
      /\ links' = links /\ readFromStdin' = readFromStdin /\ writeToStdout' = writeToStdout
  BY <1>1 DEF argVars, graphVars
<1>3. \/ stage = "create" /\ stage' = "create"
      \/ stage = "dump" /\ at = 1 /\ at' = at /\ stage' \in {"route", "error"} /\ (stage' = "route" => HasChannels)
      \/ stage = "route" /\ at' = at /\ stage' \in {"serve", "end"}
      \/ stage' = stage /\ at' = at
  BY DEF NoSuchDevice, Creating, DumpChannels, Serve, routingVars, RouteInv
<1>4. Created'
  <2>1. /\ configuration \in Configurations /\ cards \in Seq(ToSet(configuration))
        /\ streamGraph = UNION {Edges(ip) : ip \in IpsOf(cards)}
    BY DEF RouteInv, Created
  <2> QED
    BY <1>2, <2>1, Zenon DEF Created
<1>5. HasChannels' <=> HasChannels
  BY <1>2, SameChannels
<1>6. RoutesAsWired'
  <2> SUFFICES ASSUME NamesAgree', Served' PROVE RoutedSoFar'
    BY AsWired
  <2>1. NamesAgree
    BY <1>2, Zenon DEF NamesAgree
  <2>2. CASE Served
    <3>1. RoutedSoFar
      BY <2>1, <2>2, AsWired DEF RouteInv
    <3>2. at' = at
      BY <1>3, <2>2 DEF Served
    <3> QED
      BY <1>2, <3>1, <3>2, Unmoved
  <2>3. CASE ~ Served
    <3>1. /\ at' = 1 /\ links' = {} /\ readFromStdin' = FALSE /\ writeToStdout' = FALSE
      BY <1>2, <1>3, <2>3 DEF Served, RouteInv
    <3>2. Looked' = {}
      BY <3>1 DEF Looked
    <3>3. /\ (at > 1 => WiredFor(connectStr[at - 1]) \subseteq links)'
          /\ (links \subseteq UNION {WiredFor(str) : str \in Looked})'
      BY <3>1
    <3>4. \A side : ~ \E str \in Looked' : AsksDma(str, side)
      BY <3>2
    <3> QED
      BY <3>1, <3>3, <3>4, Zenon DEF RoutedSoFar
  <2> QED
    BY <2>2, <2>3
<1>7. at' \in Nat \ {0}
  BY <1>1 DEF RouteInv
<1> QED
  BY <1>2, <1>3, <1>4, <1>5, <1>6, <1>7 DEF RouteInv, Served

(* What main() notes                                                       *)
LEMMA Noted ==
  ASSUME NEW str, Note(parseString(str))
  PROVE  /\ readFromStdin \in BOOLEAN => (readFromStdin' <=> (readFromStdin \/ AsksDma(str, 1)))
         /\ readFromStdin' \in BOOLEAN
         /\ writeToStdout \in BOOLEAN => (writeToStdout' <=> (writeToStdout \/ AsksDma(str, 2)))
         /\ writeToStdout' \in BOOLEAN
<1>1. PICK cs : cs = parseString(str)
  OBVIOUS
<1>2. /\ AsksDma(str, 1) <=> isSrcStdin(cs) \/ (isDstStdout(cs) /\ cs.bidirectional)
      /\ AsksDma(str, 2) <=> isDstStdout(cs) \/ (isSrcStdin(cs) /\ cs.bidirectional)
  BY <1>1, NotesMeaning
<1>3. /\ readFromStdin' = (readFromStdin \/ isSrcStdin(cs) \/ (isDstStdout(cs) /\ cs.bidirectional))
      /\ writeToStdout' = (writeToStdout \/ isDstStdout(cs) \/ (isSrcStdin(cs) /\ cs.bidirectional))
  BY <1>1, Zenon DEF Note
<1> QED
  BY <1>2, <1>3, Zenon

LEMMA Connected ==
  ASSUME RouteInv, ConnectLoopback \/ ConfigCrossBar \/ ConnectPipe
  PROVE  RouteInv'
<1>1. PICK str : str = connectStr[at]
  OBVIOUS
<1>2. stage = "route" /\ at' = at + 1 /\ UNCHANGED <<argVars, stage, graphVars>>
  BY DEF ConnectLoopback, ConfigCrossBar, ConnectPipe, Connecting
<1>3. CASE ConnectLoopback
  <2>1. str.form # "ports" /\ dma # NoIP
    BY <1>1, <1>3, NotesMeaning DEF ConnectLoopback
  <2>2. PICK ports \in LoopbackPorts(dma) :
          links' \in Connect(links, dma, Vertex(dma, ports[1]), Vertex(dma, ports[2]))
    BY <1>3 DEF ConnectLoopback
  <2>3. Ready => Serves(links', links, WiredFor(str))
    BY <2>1, <2>2, LoopbackServes
  <2>4. Note(parseString(str))
    BY <1>1, <1>3, Zenon DEF ConnectLoopback
  <2> QED
    BY <1>1, <1>2, <2>3, <2>4, Noted, StringRouted
<1>4. CASE ConfigCrossBar
  <2>1. PICK cs : cs = parseString(str)
    OBVIOUS
  <2>2. /\ ~ isDmaLoopback(cs) /\ HasAll /\ ExistingChannels(cs) /\ PortsExist(Directions(cs))
        /\ links' \in Route(links, Directions(cs)) /\ Note(parseString(str))
    BY <1>1, <1>4, <2>1, Zenon DEF ConfigCrossBar
  <2>3. str.form = "ports"
    BY <2>1, <2>2, NotesMeaning
  <2>4. Ready => Serves(links', links, WiredFor(str))
    BY <2>1, <2>2, <2>3, CrossBarServes
  <2> QED
    BY <1>1, <1>2, <2>2, <2>4, Noted, StringRouted
<1>5. CASE ConnectPipe
  <2>1. /\ program = "pipe" /\ at = 1 /\ dma # NoIP /\ PortsExist(PipeDirections)
        /\ links' \in Route(links, PipeDirections)
        /\ readFromStdin' = TRUE /\ writeToStdout' = TRUE
    BY <1>5 DEF ConnectPipe
  <2>2. str = PipeString
    <3>1. PICK x : x = PipeString
      OBVIOUS
    <3>2. connectStr = <<x>>
      BY <2>1, <3>1 DEF RouteInv
    <3> QED
      BY <1>1, <2>1, <3>1, <3>2
  <2>3. Ready => Serves(links', links, WiredFor(str))
    BY <1>2, <2>1, <2>2, PipeServes DEF RouteInv
  <2>4. AsksDma(str, 1) /\ AsksDma(str, 2)
    <3>1. PICK word, l, r :
            /\ str = [form |-> "ports", left |-> l, arrow |-> "<->", right |-> r]
            /\ l = [word |-> word, num |-> 3] /\ r = [word |-> "dma", num |-> -1]
      BY <2>2, Zenon DEF PipeString
    <3>2. Meaning(str) = {<<l, r>>, <<r, l>>} /\ str.form = "ports"
      BY <3>1 DEF Meaning
    <3>3. TypeOf(r) = "DMA"
      <4>1. r.num = -1 /\ r.word = "dma"
        BY <3>1
      <4> HIDE <2>2
      <4> QED
        BY <4>1 DEF TypeOf
    <3> QED
      BY <3>2, <3>3 DEF AsksDma
  <2> QED
    BY <1>1, <1>2, <2>1, <2>3, <2>4, StringRouted
<1> QED
  BY <1>3, <1>4, <1>5

LEMMA RouteStep ==
  ASSUME RouteInv, [RoutingNext]_routingVars
  PROVE  RouteInv'
<1>1. CASE CreateCard
  BY <1>1, CardCreated
<1>2. CASE ChooseCard
  BY <1>2, CardChosen
<1>3. CASE NoSuchDevice \/ DumpChannels \/ Serve \/ UNCHANGED routingVars
  BY <1>3, StageOnly
<1>4. CASE ConnectLoopback \/ ConfigCrossBar \/ ConnectPipe
  BY <1>4, Connected
<1>5. CASE CreateThrows \/ LoopbackCrash \/ NoSuchChannel \/ ConfigThrows \/ PipeFails \/ UnknownFormat
  <2>1. stage' \in {"error", "crashed"} /\ UNCHANGED <<argVars, graphVars, at>>
    BY <1>5 DEF CreateThrows, LoopbackCrash, NoSuchChannel, ConfigThrows, PipeFails, UnknownFormat
  <2> QED
    BY <2>1, EndsInError
<1> QED
  BY <1>1, <1>2, <1>3, <1>4, <1>5 DEF RoutingNext

(* Each connect string routes exactly the streams that it asks for, by the *)
(* wiring of the card, of any cards that are wired point to point: what    *)
(* parseString(), configCrossBar(), connectLoopback() and Node::connect()  *)
(* of lib/utils.cpp and lib/node.cpp come to together.                     *)
THEOREM StreamsAreRouted == RoutingSpec => []RoutesAsWired
<1>1. RoutingInit(CtrlArguments \cup PipeArguments) => RouteInv
  BY RouteInit
<1>2. RouteInv /\ [RoutingNext]_routingVars => RouteInv'
  BY RouteStep
<1>3. RouteInv => RoutesAsWired
  BY DEF RouteInv
<1> QED
  BY <1>1, <1>2, <1>3, PTL DEF RoutingSpec
=============================================================================
