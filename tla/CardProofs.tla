----------------------------- MODULE CardProofs ------------------------------
(***************************************************************************)
(* Proofs about CoreFactory::make() and the life of a card.                *)
(***************************************************************************)
EXTENDS Card, SequenceTheorems, WellFoundedInduction, TLAPS

-----------------------------------------------------------------------------
(* ---- Lists ---------------------------------------------------------------- *)

(* Both lists together have the IPs of a definition, each of them once.    *)
Split(o, a, c) ==
  /\ \A i, j \in 1 .. Len(o) : o[i] = o[j] => i = j
  /\ \A i, j \in 1 .. Len(a) : a[i] = a[j] => i = j
  /\ \A i \in 1 .. Len(o), j \in 1 .. Len(a) : o[i] # a[j]
  /\ \A i \in 1 .. Len(o) : o[i] \in ToSet(c)
  /\ \A i \in 1 .. Len(a) : a[i] \in ToSet(c)
  /\ \A x \in ToSet(c) : \/ \E i \in 1 .. Len(o) : o[i] = x
                         \/ \E i \in 1 .. Len(a) : a[i] = x
  /\ Len(o) + Len(a) = Len(c)

LEMMA Removed ==
  ASSUME NEW S, NEW a \in Seq(S), NEW n \in 1 .. Len(a)
  PROVE  /\ RemoveAt(a, n) \in Seq(S)
         /\ Len(RemoveAt(a, n)) = Len(a) - 1
         /\ \A k \in 1 .. Len(a) - 1 :
              RemoveAt(a, n)[k] = IF k < n THEN a[k] ELSE a[k + 1]
<1> DEFINE front == SubSeq(a, 1, n - 1)
           back == SubSeq(a, n + 1, Len(a))
<1>1. Len(a) \in Nat /\ n \in Nat
  BY LenProperties
<1>2. front \in Seq(S) /\ Len(front) = n - 1 /\ \A k \in 1 .. n - 1 : front[k] = a[k]
  <2>1. \A k \in 1 .. n - 1 : a[k] \in S
    BY <1>1, ElementOfSeq
  <2> QED
    BY <1>1, <2>1, SubSeqProperties
<1>3. /\ back \in Seq(S) /\ Len(back) = Len(a) - n
      /\ \A k \in 1 .. Len(a) - n : back[k] = a[n + k]
  <2>1. \A k \in n + 1 .. Len(a) : a[k] \in S
    BY <1>1, ElementOfSeq
  <2> QED
    BY <1>1, <2>1, SubSeqProperties
<1>4. RemoveAt(a, n) = front \o back
  BY DEF RemoveAt
<1> HIDE DEF front, back
<1>5. /\ RemoveAt(a, n) \in Seq(S)
      /\ Len(RemoveAt(a, n)) = Len(a) - 1
  BY <1>1, <1>2, <1>3, <1>4, ConcatProperties
<1>6. ASSUME NEW k \in 1 .. Len(a) - 1
      PROVE  RemoveAt(a, n)[k] = IF k < n THEN a[k] ELSE a[k + 1]
  <2>1. k \in 1 .. Len(front) + Len(back)
    BY <1>1, <1>2, <1>3
  <2>2. (front \o back)[k] = IF k <= Len(front) THEN front[k] ELSE back[k - Len(front)]
    BY <1>2, <1>3, <2>1, ConcatProperties
  <2>3. CASE k < n
    BY <1>1, <1>2, <1>4, <2>2, <2>3
  <2>4. CASE ~ (k < n)
    <3>1. k - (n - 1) \in 1 .. Len(a) - n /\ n + (k - (n - 1)) = k + 1
      BY <1>1, <2>4
    <3> QED
      BY <1>1, <1>2, <1>3, <1>4, <2>2, <2>4, <3>1
  <2> QED
    BY <2>3, <2>4
<1> QED
  BY <1>5, <1>6

LEMMA InFrontOf ==
  ASSUME NEW S, NEW o \in Seq(S), NEW x \in S
  PROVE  /\ <<x>> \o o \in Seq(S)
         /\ Len(<<x>> \o o) = Len(o) + 1
         /\ (<<x>> \o o)[1] = x
         /\ \A k \in 2 .. Len(o) + 1 : (<<x>> \o o)[k] = o[k - 1]
<1>1. <<x>> \in Seq(S) /\ Len(<<x>>) = 1 /\ <<x>>[1] = x /\ Len(o) \in Nat
  BY LenProperties
<1> QED
  BY <1>1, ConcatProperties

LEMMA Chained ==
  ASSUME NEW S, NEW o \in Seq(S), NEW a \in Seq(S)
  PROVE  /\ o \o a \in Seq(S)
         /\ Len(o) \in Nat /\ Len(a) \in Nat
         /\ Len(o \o a) = Len(o) + Len(a)
         /\ \A k \in 1 .. Len(o) : (o \o a)[k] = o[k]
         /\ \A k \in Len(o) + 1 .. Len(o) + Len(a) : (o \o a)[k] = a[k - Len(o)]
  BY LenProperties, ConcatProperties

LEMMA Appended ==
  ASSUME NEW S, NEW o \in Seq(S), NEW x \in S
  PROVE  /\ Append(o, x) \in Seq(S)
         /\ Len(o) \in Nat
         /\ Len(Append(o, x)) = Len(o) + 1
         /\ \A k \in 1 .. Len(o) : Append(o, x)[k] = o[k]
         /\ Append(o, x)[Len(o) + 1] = x
  BY LenProperties, AppendProperties

LEMMA PickSplits ==
  ASSUME NEW S, NEW o \in Seq(S), NEW a \in Seq(S), NEW c \in Seq(S), Split(o, a, c),
         NEW n \in 1 .. Len(a)
  PROVE  Split(<<a[n]>> \o o, RemoveAt(a, n), c)
<1> PICK x : x = a[n]
  OBVIOUS
<1> DEFINE o2 == <<x>> \o o
           a2 == RemoveAt(a, n)
<1>1. x \in S /\ Len(o) \in Nat /\ Len(a) \in Nat /\ Len(c) \in Nat
  BY LenProperties, ElementOfSeq
<1>2. /\ o2 \in Seq(S) /\ Len(o2) = Len(o) + 1 /\ o2[1] = x
      /\ \A k \in 2 .. Len(o) + 1 : o2[k] = o[k - 1]
  BY <1>1, InFrontOf
<1>3. /\ a2 \in Seq(S) /\ Len(a2) = Len(a) - 1
      /\ \A k \in 1 .. Len(a) - 1 : a2[k] = IF k < n THEN a[k] ELSE a[k + 1]
  BY Removed
<1>4. \A k \in 1 .. Len(a) - 1 :
        \E m \in 1 .. Len(a) : m # n /\ a2[k] = a[m] /\ m = IF k < n THEN k ELSE k + 1
  BY <1>1, <1>3
<1> HIDE DEF o2, a2
<1>5. ASSUME NEW i \in 1 .. Len(o2)
      PROVE  \/ i = 1 /\ o2[i] = x
             \/ i - 1 \in 1 .. Len(o) /\ o2[i] = o[i - 1]
  <2>1. CASE i = 1
    <3>1. o2[i] = o2[1]
      BY <2>1
    <3> QED
      BY <1>2, <2>1, <3>1
  <2>2. CASE i # 1
    <3>1. i \in 2 .. Len(o) + 1 /\ i - 1 \in 1 .. Len(o)
      BY <1>1, <1>2, <2>2
    <3> QED
      BY <1>2, <3>1
  <2> QED
    BY <2>1, <2>2
<1>6. \A i, j \in 1 .. Len(o2) : o2[i] = o2[j] => i = j
  <2> SUFFICES ASSUME NEW i \in 1 .. Len(o2), NEW j \in 1 .. Len(o2), o2[i] = o2[j] PROVE i = j
    OBVIOUS
  <2>1. ASSUME NEW k \in 1 .. Len(o) PROVE o[k] # x
    BY DEF Split
  <2>2. CASE i = 1 \/ j = 1
    <3>1. /\ i = 1 \/ (i - 1 \in 1 .. Len(o) /\ o2[i] # x)
          /\ j = 1 \/ (j - 1 \in 1 .. Len(o) /\ o2[j] # x)
      <4>1. \A k \in 1 .. Len(o2) : k = 1 \/ (k - 1 \in 1 .. Len(o) /\ o2[k] # x)
        BY <1>5, <2>1
      <4> QED
        BY <4>1, Zenon
    <3>2. (i = 1 => o2[i] = x) /\ (j = 1 => o2[j] = x)
      BY <1>2
    <3> QED
      BY <2>2, <3>1, <3>2, Zenon
  <2>3. CASE i # 1 /\ j # 1
    <3>1. i - 1 \in 1 .. Len(o) /\ j - 1 \in 1 .. Len(o) /\ o[i - 1] = o[j - 1]
      BY <1>5, <2>3
    <3>2. i - 1 = j - 1
      BY <3>1 DEF Split
    <3>3. Len(o2) \in Nat
      BY <1>2, LenProperties
    <3> QED
      BY <3>2, <3>3
  <2> QED
    BY <2>2, <2>3
<1>7. \A i, j \in 1 .. Len(a2) : a2[i] = a2[j] => i = j
  <2> SUFFICES ASSUME NEW i \in 1 .. Len(a2), NEW j \in 1 .. Len(a2), a2[i] = a2[j] PROVE i = j
    OBVIOUS
  <2>1. PICK k \in 1 .. Len(a) : a2[i] = a[k] /\ k = IF i < n THEN i ELSE i + 1
    BY <1>3, <1>4
  <2>2. PICK l \in 1 .. Len(a) : a2[j] = a[l] /\ l = IF j < n THEN j ELSE j + 1
    BY <1>3, <1>4
  <2>3. k = l
    <3>1. a[k] = a[l]
      BY <2>1, <2>2
    <3>2. \A m1, m2 \in 1 .. Len(a) : a[m1] = a[m2] => m1 = m2
      BY DEF Split
    <3> QED
      BY <3>1, <3>2
  <2> QED
    BY <1>1, <1>3, <2>1, <2>2, <2>3, SMTT(60)
<1>8. \A i \in 1 .. Len(o2), j \in 1 .. Len(a2) : o2[i] # a2[j]
  <2> SUFFICES ASSUME NEW i \in 1 .. Len(o2), NEW j \in 1 .. Len(a2) PROVE o2[i] # a2[j]
    OBVIOUS
  <2>1. PICK k \in 1 .. Len(a) : k # n /\ a2[j] = a[k]
    BY <1>3, <1>4
  <2>2. a[k] # x /\ \A l \in 1 .. Len(o) : o[l] # a[k]
    BY <2>1 DEF Split
  <2>3. o2[i] = x \/ \E l \in 1 .. Len(o) : o2[i] = o[l]
    BY <1>5
  <2> QED
    BY <2>1, <2>2, <2>3
<1>9. /\ \A i \in 1 .. Len(o2) : o2[i] \in ToSet(c)
      /\ \A i \in 1 .. Len(a2) : a2[i] \in ToSet(c)
  BY <1>3, <1>4, <1>5, ZenonT(60) DEF Split
<1>10. ASSUME NEW y \in ToSet(c)
       PROVE  \/ \E i \in 1 .. Len(o2) : o2[i] = y
              \/ \E i \in 1 .. Len(a2) : a2[i] = y
  <2>1. CASE \E i \in 1 .. Len(o) : o[i] = y
    <3>1. PICK i \in 1 .. Len(o) : o[i] = y
      BY <2>1
    <3>2. i + 1 \in 2 .. Len(o) + 1 /\ (i + 1) - 1 = i /\ i + 1 \in 1 .. Len(o2)
      BY <1>1, <1>2
    <3> QED
      BY <1>2, <3>1, <3>2
  <2>2. CASE \E i \in 1 .. Len(a) : a[i] = y
    <3>1. PICK i \in 1 .. Len(a) : a[i] = y
      BY <2>2
    <3>2. CASE i = n
      BY <1>1, <1>2, <3>1, <3>2
    <3>3. CASE i < n
      <4>1. i \in 1 .. Len(a) - 1
        BY <1>1, <3>3
      <4> QED
        BY <1>3, <3>1, <3>3, <4>1
    <3>4. CASE i > n
      <4>1. i - 1 \in 1 .. Len(a) - 1 /\ ~ (i - 1 < n) /\ (i - 1) + 1 = i
        BY <1>1, <3>4
      <4> QED
        BY <1>3, <3>1, <4>1
    <3> QED
      BY <1>1, <3>2, <3>3, <3>4
  <2> QED
    BY <2>1, <2>2 DEF Split
<1>11. Len(o2) + Len(a2) = Len(c)
  <2>1. Len(o) + Len(a) = Len(c)
    BY DEF Split
  <2>2. \A l, m, n2, k \in Nat : l + m = n2 /\ m > 0 => (l + 1) + (m - 1) = n2
    OBVIOUS
  <2>3. Len(a) > 0
    BY <1>1
  <2> QED
    BY <1>1, <1>2, <1>3, <2>1, <2>2, <2>3, ZenonT(60)
<1>12. Split(o2, a2, c)
  BY <1>6, <1>7, <1>8, <1>9, <1>10, <1>11 DEF Split
<1> QED
  BY <1>12 DEF o2, a2

LEMMA SpliceSplits ==
  ASSUME NEW S, NEW o \in Seq(S), NEW a \in Seq(S), NEW c \in Seq(S), Split(o, a, c)
  PROVE  Split(o \o a, <<>>, c)
<1> DEFINE b == o \o a
<1>1. /\ Len(o) \in Nat /\ Len(a) \in Nat /\ Len(c) \in Nat
      /\ b \in Seq(S) /\ Len(b) = Len(o) + Len(a)
      /\ \A k \in 1 .. Len(o) : b[k] = o[k]
      /\ \A k \in Len(o) + 1 .. Len(o) + Len(a) : b[k] = a[k - Len(o)]
  BY Chained, LenProperties
<1>2. Len(<<>>) = 0
  OBVIOUS
<1> HIDE DEF b
<1>3. \A k \in 1 .. Len(b) : \/ k \in 1 .. Len(o) /\ b[k] = o[k]
                             \/ k - Len(o) \in 1 .. Len(a) /\ b[k] = a[k - Len(o)]
  BY <1>1
<1>4. \A i, j \in 1 .. Len(b) : b[i] = b[j] => i = j
  <2> SUFFICES ASSUME NEW i \in 1 .. Len(b), NEW j \in 1 .. Len(b), b[i] = b[j] PROVE i = j
    OBVIOUS
  <2>1. \/ i \in 1 .. Len(o) /\ j \in 1 .. Len(o) /\ o[i] = o[j]
        \/ /\ i - Len(o) \in 1 .. Len(a) /\ j - Len(o) \in 1 .. Len(a)
           /\ a[i - Len(o)] = a[j - Len(o)]
    <3>1. \A k \in 1 .. Len(o), l \in 1 .. Len(a) : o[k] # a[l]
      BY DEF Split
    <3> QED
      BY <1>3, <3>1
  <2>2. CASE i \in 1 .. Len(o) /\ j \in 1 .. Len(o) /\ o[i] = o[j]
    BY <2>2 DEF Split
  <2>3. CASE /\ i - Len(o) \in 1 .. Len(a) /\ j - Len(o) \in 1 .. Len(a)
             /\ a[i - Len(o)] = a[j - Len(o)]
    <3>1. i - Len(o) = j - Len(o)
      BY <2>3 DEF Split
    <3> QED
      BY <1>1, <3>1
  <2> QED
    BY <2>1, <2>2, <2>3
<1>5. \A i \in 1 .. Len(b) : b[i] \in ToSet(c)
  BY <1>3 DEF Split
<1>6. ASSUME NEW y \in ToSet(c)
      PROVE  \E i \in 1 .. Len(b) : b[i] = y
  <2>1. CASE \E i \in 1 .. Len(o) : o[i] = y
    BY <1>1, <2>1
  <2>2. CASE \E i \in 1 .. Len(a) : a[i] = y
    <3>1. PICK i \in 1 .. Len(a) : a[i] = y
      BY <2>2
    <3>2. i + Len(o) \in Len(o) + 1 .. Len(o) + Len(a) /\ (i + Len(o)) - Len(o) = i
          /\ i + Len(o) \in 1 .. Len(b)
      BY <1>1
    <3> QED
      BY <1>1, <3>1, <3>2
  <2> QED
    BY <2>1, <2>2 DEF Split
<1>7. Len(b) + 0 = Len(c)
  BY <1>1 DEF Split
<1>8. Split(b, <<>>, c)
  BY <1>2, <1>4, <1>5, <1>6, <1>7 DEF Split
<1> QED
  BY <1>8 DEF b

LEMMA SplitTogether ==
  ASSUME NEW S, NEW o \in Seq(S), NEW a \in Seq(S), NEW c \in Seq(S), Split(o, a, c)
  PROVE  IsInjective(o \o a) /\ ToSet(o \o a) = ToSet(c)
<1> DEFINE b == o \o a
<1>1. Split(b, <<>>, c)
  BY SpliceSplits
<1>2. DOMAIN b = 1 .. Len(b)
  BY Chained, LenProperties
<1> HIDE DEF b
<1>3. Len(<<>>) = 0
  OBVIOUS
<1>4. IsInjective(b)
  BY <1>1, <1>2 DEF Split, IsInjective
<1>5. ToSet(b) = ToSet(c)
  <2>1. \A x \in ToSet(c) : \E i \in DOMAIN b : b[i] = x
    <3>1. \A i \in 1 .. Len(<<>>) : FALSE
      BY <1>3
    <3> QED
      BY <1>1, <1>2, <3>1 DEF Split
  <2>2. \A i \in DOMAIN b : b[i] \in ToSet(c)
    BY <1>1, <1>2 DEF Split
  <2>3. \A x : x \in ToSet(b) <=> \E i \in DOMAIN b : b[i] = x
    BY DEF ToSet
  <2> QED
    BY <2>1, <2>2, <2>3
<1> QED
  BY <1>4, <1>5 DEF b

-----------------------------------------------------------------------------
(* ---- The invariant of CoreFactory::make() ---------------------------------- *)

(* x has an entry of InitFirst to itself, and ip none before it.           *)
Ahead(x, ip, r) ==
  /\ Rank[x] = {r}
  /\ \A y \in ToSet(config) : r \in Rank[y] => y = x
  /\ \A q \in Rank[ip] : q > r

(* Once x is ordered, ip is behind it: the walk for the entry of x does    *)
(* not miss it, as it erases nothing before it comes to x.                 *)
Follows(x, ip, r) ==
  /\ \A i, j \in 1 .. Len(orderedIps) : orderedIps[i] = ip /\ orderedIps[j] = x => j < i
  /\ pc = "order" =>
       /\ \A j \in 1 .. Len(orderedIps) : orderedIps[j] = x => vi <= r
       /\ \A k \in 1 .. Len(allIps) : allIps[k] = x => r <= vi /\ (r = vi => k >= it)

NeededFirst ==
  \A x, ip \in ToSet(config) : \A r \in DOMAIN InitFirst : Ahead(x, ip, r) => Follows(x, ip, r)

(* c has the first k of o that are supported, in the order of o.           *)
Kept(c, o, k) ==
  /\ \A x \in IPs : (\E m \in 1 .. Len(c) : c[m] = x)
                      <=> (\E i \in 1 .. k : o[i] = x) /\ x \in Supported
  /\ \A i, j \in 1 .. Len(c), m, n \in 1 .. k : i < j /\ c[i] = o[m] /\ c[j] = o[n] => m < n

(* A controller that an IP did not find was not configured before it.      *)
IrqFound(m) ==
  LET x == configuredIps[m]
  IN irqs[x] = NoIp /\ IrqOf[x] # NoIp => \A l \in 1 .. m - 1 : configuredIps[l] # IrqOf[x]

Lists ==
  /\ config \in Configs
  /\ Split(orderedIps, allIps, config)
  /\ pc = "order" => configuredIps = <<>> /\ ips = <<>>
  /\ pc # "order" => allIps = <<>>

Configurations ==
  /\ pc = "configure" => /\ it <= Len(orderedIps) + 1 /\ Len(configuredIps) < it
                         /\ Kept(configuredIps, orderedIps, it - 1)
                         /\ ips = <<>>
  /\ pc \in {"init", "done"} => /\ Len(configuredIps) <= Len(orderedIps)
                                /\ Kept(configuredIps, orderedIps, Len(orderedIps))
  /\ pc \in {"configure", "init"} => \A m \in 1 .. Len(configuredIps) : IrqFound(m)

Initializations ==
  /\ pc = "init" => /\ it <= Len(configuredIps) + 1 /\ Len(ips) = it - 1
                    /\ \A k \in 1 .. it - 1 : ips[k] = configuredIps[k]
  /\ pc = "done" => ips = configuredIps

CoreInv == TypeOK /\ Lists /\ NeededFirst /\ Configurations /\ Initializations

LEMMA Typed ==
  ASSUME TypeOK, config \in Configs
  PROVE  /\ allIps \in Seq(IPs) /\ orderedIps \in Seq(IPs) /\ configuredIps \in Seq(IPs)
         /\ ips \in Seq(IPs) /\ config \in Seq(IPs)
         /\ Len(allIps) \in Nat /\ Len(orderedIps) \in Nat /\ Len(configuredIps) \in Nat
         /\ Len(ips) \in Nat /\ Len(config) \in Nat
         /\ it \in Nat /\ it >= 1 /\ vi \in Nat /\ vi >= 1
         /\ ToSet(config) \subseteq IPs
<1>1. config \in Seq(IPs)
  BY FactoryAssumption DEF FactoryAssumption
<1>2. /\ allIps \in Seq(IPs) /\ orderedIps \in Seq(IPs) /\ configuredIps \in Seq(IPs)
      /\ ips \in Seq(IPs)
  BY DEF TypeOK
<1>3. /\ Len(allIps) \in Nat /\ Len(orderedIps) \in Nat /\ Len(configuredIps) \in Nat
      /\ Len(ips) \in Nat /\ Len(config) \in Nat
  BY <1>1, <1>2, LenProperties
<1>4. /\ it \in Nat /\ it >= 1
  BY <1>3 DEF TypeOK
<1>5. vi \in Nat /\ vi >= 1
  <2>1. Len(InitFirst) \in Nat
    BY FactoryAssumption, LenProperties DEF FactoryAssumption
  <2> QED
    BY <2>1 DEF TypeOK
<1>6. ToSet(config) \subseteq IPs
  BY <1>1, LenProperties, ElementOfSeq DEF ToSet
<1> QED
  BY <1>1, <1>2, <1>3, <1>4, <1>5, <1>6

LEMMA Entries ==
  /\ Len(InitFirst) \in Nat /\ Len(InitFirst) >= 1
  /\ DOMAIN InitFirst = 1 .. Len(InitFirst)
<1>1. InitFirst \in Seq(ToSet(InitFirst)) /\ InitFirst # <<>>
  BY FactoryAssumption DEF FactoryAssumption
<1>2. Len(InitFirst) \in Nat /\ DOMAIN InitFirst = 1 .. Len(InitFirst)
  BY <1>1, LenProperties
<1>3. Len(InitFirst) # 0
  BY <1>1, EmptySeq
<1> QED
  BY <1>2, <1>3

LEMMA MatchedEntry ==
  ASSUME vi \in 1 .. Len(InitFirst), NEW ip \in IPs
  PROVE  Matches(ip) <=> vi \in Rank[ip]
  BY Entries DEF Matches, Rank

LEMMA CoreBegins ==
  ASSUME Init
  PROVE  CoreInv
<1>1. config \in Seq(IPs) /\ config \in Configs /\ IsInjective(config)
  BY FactoryAssumption DEF FactoryAssumption, Init
<1>2. Len(config) \in Nat /\ DOMAIN config = 1 .. Len(config)
  BY <1>1, LenProperties
<1>3. /\ pc = "order" /\ vi = Len(InitFirst) /\ it = 1 /\ allIps = config
      /\ orderedIps = <<>> /\ configuredIps = <<>> /\ ips = <<>>
      /\ irqs = [ip \in IPs |-> NoIp]
  BY DEF Init
<1>4. <<>> \in Seq(IPs) /\ Len(<<>>) = 0
  BY EmptySeq
<1>5. TypeOK
  <2>1. it \in 1 .. Len(config) + 1 /\ vi \in 1 .. Len(InitFirst) /\ it <= Len(allIps) + 1
    BY <1>2, <1>3, Entries
  <2> QED
    BY <1>1, <1>3, <1>4, <2>1 DEF TypeOK
<1>6. Lists
  <2>1. \A i, j \in 1 .. Len(config) : config[i] = config[j] => i = j
    BY <1>1, <1>2 DEF IsInjective
  <2>2. \A x : x \in ToSet(config) <=> \E i \in 1 .. Len(config) : config[i] = x
    BY <1>2 DEF ToSet
  <2>3. \A i \in 1 .. Len(<<>>) : FALSE
    BY <1>4
  <2>4. Len(<<>>) + Len(config) = Len(config)
    BY <1>2, <1>4
  <2>5. Split(<<>>, config, config)
    BY <2>1, <2>2, <2>3, <2>4 DEF Split
  <2> QED
    BY <1>1, <1>3, <2>5 DEF Lists
<1>7. NeededFirst
  <2> SUFFICES ASSUME NEW x \in ToSet(config), NEW ip \in ToSet(config), NEW r \in DOMAIN InitFirst
               PROVE  Follows(x, ip, r)
    BY DEF NeededFirst
  <2>1. \A i \in 1 .. Len(orderedIps) : FALSE
    BY <1>3, <1>4
  <2>2. \A k \in 1 .. Len(allIps) : r <= vi /\ k >= it
    BY <1>2, <1>3, Entries
  <2> QED
    BY <2>1, <2>2 DEF Follows
<1> QED
  BY <1>3, <1>5, <1>6, <1>7 DEF CoreInv, Configurations, Initializations

(* Rank and Ahead do not change with the lists.                            *)
LEMMA SameNeeds ==
  ASSUME config' = config, NEW x, NEW ip, NEW r
  PROVE  Ahead(x, ip, r)' <=> Ahead(x, ip, r)
  BY DEF Ahead, Rank

LEMMA PickKeeps ==
  ASSUME CoreInv, Pick
  PROVE  CoreInv'
<1> PICK x : x = allIps[it]
  OBVIOUS
<1>1. TypeOK /\ Lists /\ NeededFirst /\ config \in Configs
  BY DEF CoreInv, Lists
<1>2. /\ pc = "order" /\ it <= Len(allIps) /\ Matches(x)
      /\ orderedIps' = <<x>> \o orderedIps /\ allIps' = RemoveAt(allIps, it)
      /\ it' = AfterErase(Len(allIps) - 1)
      /\ UNCHANGED <<config, pc, vi, configuredIps, irqs, ips>>
  BY DEF Pick
<1>3. /\ allIps \in Seq(IPs) /\ orderedIps \in Seq(IPs) /\ config \in Seq(IPs)
      /\ Len(allIps) \in Nat /\ Len(orderedIps) \in Nat /\ Len(config) \in Nat
      /\ it \in 1 .. Len(allIps) /\ vi \in Nat
  BY <1>1, <1>2, Typed
<1>4. x \in IPs
  BY <1>3, ElementOfSeq
<1>5. /\ orderedIps' \in Seq(IPs) /\ Len(orderedIps') = Len(orderedIps) + 1
      /\ orderedIps'[1] = x
      /\ \A k \in 2 .. Len(orderedIps) + 1 : orderedIps'[k] = orderedIps[k - 1]
  BY <1>2, <1>3, <1>4, InFrontOf
<1>6. /\ allIps' \in Seq(IPs) /\ Len(allIps') = Len(allIps) - 1
      /\ \A k \in 1 .. Len(allIps) - 1 : allIps'[k] = IF k < it THEN allIps[k] ELSE allIps[k + 1]
  BY <1>2, <1>3, Removed
<1>7. Split(orderedIps', allIps', config)
  BY <1>1, <1>2, <1>3, PickSplits DEF Lists
<1>8. it' \in 1 .. Len(allIps') + 1 /\ it' \in 1 .. Len(config) + 1
  <2>1. Len(orderedIps) + Len(allIps) = Len(config)
    BY <1>1 DEF Lists, Split
  <2>2. it' = IF it <= Len(allIps) - 1 THEN it + 1 ELSE 1
    BY <1>2 DEF AfterErase
  <2> QED
    BY <1>3, <1>6, <2>1, <2>2
<1>9. TypeOK'
  BY <1>1, <1>2, <1>5, <1>6, <1>8 DEF TypeOK
<1>10. Lists'
  BY <1>1, <1>2, <1>7 DEF Lists
<1>11. vi \in Rank[x]
  BY <1>1, <1>2, <1>4, MatchedEntry DEF TypeOK
<1>12. NeededFirst'
  <2> SUFFICES ASSUME NEW y \in ToSet(config), NEW ip \in ToSet(config),
                      NEW r \in DOMAIN InitFirst, Ahead(y, ip, r)
               PROVE  Follows(y, ip, r)'
    BY <1>2, SameNeeds DEF NeededFirst
  <2>1. Follows(y, ip, r)
    BY <1>1 DEF NeededFirst
  <2>2. r \in Nat
    BY Entries
  <2>3. \A j \in 1 .. Len(orderedIps') :
          \/ j = 1 /\ orderedIps'[j] = x
          \/ j - 1 \in 1 .. Len(orderedIps) /\ orderedIps'[j] = orderedIps[j - 1]
    <3> SUFFICES ASSUME NEW j \in 1 .. Len(orderedIps')
                 PROVE  \/ j = 1 /\ orderedIps'[j] = x
                        \/ j - 1 \in 1 .. Len(orderedIps) /\ orderedIps'[j] = orderedIps[j - 1]
      OBVIOUS
    <3>1. CASE j = 1
      BY <1>5, <3>1
    <3>2. CASE j # 1
      <4>1. j \in 2 .. Len(orderedIps) + 1 /\ j - 1 \in 1 .. Len(orderedIps)
        BY <1>3, <1>5, <3>2
      <4> QED
        BY <1>5, <4>1
    <3> QED
      BY <3>1, <3>2
  <2>4. x # y => vi # r
    BY <1>1, <1>3, <1>11 DEF Ahead, Lists, Split
  <2>5. x = y => vi = r
    BY <1>11 DEF Ahead
  <2>6. x = ip => vi > r
    BY <1>11 DEF Ahead
  <2>7. \A j \in 1 .. Len(orderedIps) : orderedIps[j] # x
    BY <1>1, <1>3 DEF Lists, Split
  <2>8. \A k \in 1 .. Len(allIps') : allIps'[k] # x
    BY <1>7, <1>5, SMTT(60) DEF Split
  <2>9. \A k \in 1 .. Len(allIps') : allIps'[k] = y => r <= vi /\ r # vi
    <3> SUFFICES ASSUME NEW k \in 1 .. Len(allIps'), allIps'[k] = y PROVE r <= vi /\ r # vi
      OBVIOUS
    <3>1. r # vi
      BY <2>4, <2>8
    <3>2. \E m \in 1 .. Len(allIps) : allIps[m] = y
      <4>1. k \in 1 .. Len(allIps) - 1 /\ k \in 1 .. Len(allIps) /\ k + 1 \in 1 .. Len(allIps)
        BY <1>3, <1>6
      <4> QED
        BY <1>6, <4>1
    <3>3. r <= vi
      BY <1>2, <2>1, <3>2 DEF Follows
    <3> QED
      BY <3>1, <3>3
  <2>10. \A j \in 1 .. Len(orderedIps') : orderedIps'[j] = y => vi <= r
    <3> SUFFICES ASSUME NEW j \in 1 .. Len(orderedIps'), orderedIps'[j] = y PROVE vi <= r
      OBVIOUS
    <3>1. CASE orderedIps'[j] = x
      BY <1>3, <2>2, <2>5, <3>1
    <3>2. CASE orderedIps'[j] # x
      <4>1. \E i \in 1 .. Len(orderedIps) : orderedIps[i] = y
        BY <2>3, <3>2
      <4> QED
        BY <1>2, <2>1, <4>1 DEF Follows
    <3> QED
      BY <3>1, <3>2
  <2>11. ASSUME NEW i \in 1 .. Len(orderedIps'), NEW j \in 1 .. Len(orderedIps'),
                orderedIps'[i] = ip, orderedIps'[j] = y
         PROVE  j < i
    <3>1. vi <= r
      BY <2>10, <2>11
    <3>2. x # ip
      BY <1>3, <2>2, <2>6, <3>1
    <3>3. i - 1 \in 1 .. Len(orderedIps) /\ orderedIps[i - 1] = ip
      BY <2>3, <2>11, <3>2
    <3>4. CASE j = 1
      BY <1>3, <3>3, <3>4
    <3>5. CASE j # 1
      <4>1. j - 1 \in 1 .. Len(orderedIps) /\ orderedIps[j - 1] = y
        BY <2>3, <2>11, <3>5
      <4>2. j - 1 < i - 1
        BY <2>1, <3>3, <4>1 DEF Follows
      <4> QED
        BY <1>3, <3>3, <4>1, <4>2
    <3> QED
      BY <3>4, <3>5
  <2> QED
    BY <1>2, <2>9, <2>10, <2>11 DEF Follows
<1>13. Configurations' /\ Initializations'
  BY <1>2 DEF Configurations, Initializations
<1> QED
  BY <1>9, <1>10, <1>12, <1>13 DEF CoreInv

LEMMA SkipKeeps ==
  ASSUME CoreInv, Skip
  PROVE  CoreInv'
<1>1. TypeOK /\ Lists /\ NeededFirst /\ config \in Configs
  BY DEF CoreInv, Lists
<1>2. /\ pc = "order" /\ it <= Len(allIps) /\ ~ Matches(allIps[it])
      /\ it' = it + 1
      /\ UNCHANGED <<config, pc, vi, allIps, orderedIps, configuredIps, irqs, ips>>
  BY DEF Skip
<1>3. /\ allIps \in Seq(IPs) /\ Len(allIps) \in Nat /\ Len(orderedIps) \in Nat
      /\ Len(config) \in Nat /\ it \in 1 .. Len(allIps)
  BY <1>1, <1>2, Typed
<1>4. TypeOK'
  <2>1. Len(orderedIps) + Len(allIps) = Len(config)
    BY <1>1 DEF Lists, Split
  <2>2. it + 1 \in 1 .. Len(config) + 1 /\ it + 1 <= Len(allIps) + 1
    BY <1>3, <2>1
  <2> QED
    BY <1>1, <1>2, <2>2 DEF TypeOK
<1>5. allIps[it] \in IPs
  BY <1>3, ElementOfSeq
<1>6. vi \notin Rank[allIps[it]]
  BY <1>1, <1>2, <1>5, MatchedEntry DEF TypeOK
<1>7. NeededFirst'
  <2> SUFFICES ASSUME NEW y \in ToSet(config), NEW ip \in ToSet(config),
                      NEW r \in DOMAIN InitFirst, Ahead(y, ip, r)
               PROVE  Follows(y, ip, r)'
    BY <1>2, SameNeeds DEF NeededFirst
  <2>1. Follows(y, ip, r)
    BY <1>1 DEF NeededFirst
  <2>2. ASSUME NEW k \in 1 .. Len(allIps), allIps[k] = y, r = vi PROVE k >= it + 1
    <3>1. k >= it
      BY <1>2, <2>1, <2>2 DEF Follows
    <3>2. k # it
      BY <1>6, <2>2 DEF Ahead
    <3> QED
      BY <1>3, <3>1, <3>2
  <2> QED
    BY <1>2, <2>1, <2>2 DEF Follows
<1> QED
  BY <1>1, <1>2, <1>4, <1>7 DEF CoreInv, Lists, Configurations, Initializations

LEMMA NextVlnvKeeps ==
  ASSUME CoreInv, NextVlnv
  PROVE  CoreInv'
<1>1. TypeOK /\ Lists /\ NeededFirst /\ config \in Configs
  BY DEF CoreInv, Lists
<1>2. /\ pc = "order" /\ it = Len(allIps) + 1 /\ vi > 1
      /\ vi' = vi - 1 /\ it' = 1
      /\ UNCHANGED <<config, pc, allIps, orderedIps, configuredIps, irqs, ips>>
  BY DEF NextVlnv
<1>3. Len(allIps) \in Nat /\ Len(config) \in Nat /\ vi \in Nat /\ Len(InitFirst) \in Nat
  BY <1>1, Typed, Entries
<1>4. TypeOK'
  <2>1. 1 \in 1 .. Len(config) + 1 /\ 1 <= Len(allIps) + 1 /\ vi - 1 \in 1 .. Len(InitFirst)
    BY <1>1, <1>2, <1>3 DEF TypeOK
  <2> QED
    BY <1>1, <1>2, <2>1 DEF TypeOK
<1>5. NeededFirst'
  <2> SUFFICES ASSUME NEW y \in ToSet(config), NEW ip \in ToSet(config),
                      NEW r \in DOMAIN InitFirst, Ahead(y, ip, r)
               PROVE  Follows(y, ip, r)'
    BY <1>2, SameNeeds DEF NeededFirst
  <2>1. Follows(y, ip, r)
    BY <1>1 DEF NeededFirst
  <2>2. r \in Nat
    BY Entries
  <2>3. ASSUME NEW k \in 1 .. Len(allIps), allIps[k] = y PROVE r <= vi - 1 /\ k >= 1
    <3>1. r <= vi /\ (r = vi => k >= it)
      BY <1>2, <2>1, <2>3 DEF Follows
    <3> QED
      BY <1>2, <1>3, <2>2, <3>1
  <2>4. ASSUME NEW j \in 1 .. Len(orderedIps), orderedIps[j] = y PROVE vi - 1 <= r
    <3>1. vi <= r
      BY <1>2, <2>1, <2>4 DEF Follows
    <3> QED
      BY <1>3, <2>2, <3>1
  <2> QED
    BY <1>2, <2>1, <2>3, <2>4 DEF Follows
<1> QED
  BY <1>1, <1>2, <1>4, <1>5 DEF CoreInv, Lists, Configurations, Initializations

LEMMA SpliceKeeps ==
  ASSUME CoreInv, Splice
  PROVE  CoreInv'
<1>1. TypeOK /\ Lists /\ NeededFirst /\ config \in Configs
  BY DEF CoreInv, Lists
<1>2. /\ pc = "order" /\ it = Len(allIps) + 1 /\ vi = 1
      /\ orderedIps' = orderedIps \o allIps /\ allIps' = <<>>
      /\ pc' = "configure" /\ it' = 1
      /\ UNCHANGED <<config, vi, configuredIps, irqs, ips>>
  BY DEF Splice
<1>3. /\ allIps \in Seq(IPs) /\ orderedIps \in Seq(IPs) /\ config \in Seq(IPs)
      /\ Len(allIps) \in Nat /\ Len(orderedIps) \in Nat /\ Len(config) \in Nat
  BY <1>1, Typed
<1>4. /\ orderedIps' \in Seq(IPs) /\ Len(orderedIps') = Len(orderedIps) + Len(allIps)
      /\ \A k \in 1 .. Len(orderedIps) : orderedIps'[k] = orderedIps[k]
      /\ \A k \in Len(orderedIps) + 1 .. Len(orderedIps) + Len(allIps) :
           orderedIps'[k] = allIps[k - Len(orderedIps)]
  BY <1>2, <1>3, Chained
<1>5. Len(<<>>) = 0 /\ <<>> \in Seq(IPs)
  BY EmptySeq
<1>6. TypeOK'
  <2>1. 1 \in 1 .. Len(config) + 1
    BY <1>3
  <2> QED
    BY <1>1, <1>2, <1>4, <1>5, <2>1 DEF TypeOK
<1>7. Split(orderedIps', <<>>, config)
  BY <1>1, <1>2, <1>3, SpliceSplits DEF Lists
<1>8. Lists'
  BY <1>1, <1>2, <1>7 DEF Lists
<1>9. NeededFirst'
  <2> SUFFICES ASSUME NEW y \in ToSet(config), NEW ip \in ToSet(config),
                      NEW r \in DOMAIN InitFirst, Ahead(y, ip, r)
               PROVE  Follows(y, ip, r)'
    BY <1>2, SameNeeds DEF NeededFirst
  <2>1. Follows(y, ip, r)
    BY <1>1 DEF NeededFirst
  <2>2. r \in Nat /\ r >= 1
    BY Entries
  <2>3. ASSUME NEW k \in 1 .. Len(allIps) PROVE allIps[k] # y
    <3>1. SUFFICES ASSUME allIps[k] = y PROVE FALSE
      OBVIOUS
    <3>2. r <= vi /\ (r = vi => k >= it)
      BY <1>2, <2>1, <3>1 DEF Follows
    <3> QED
      BY <1>2, <1>3, <2>2, <3>2
  <2>4. ASSUME NEW i \in 1 .. Len(orderedIps'), NEW j \in 1 .. Len(orderedIps'),
               orderedIps'[i] = ip, orderedIps'[j] = y
        PROVE  j < i
    <3>1. j \in 1 .. Len(orderedIps) /\ orderedIps[j] = y
      <4>1. CASE j \in 1 .. Len(orderedIps)
        BY <1>4, <2>4, <4>1
      <4>2. CASE j \notin 1 .. Len(orderedIps)
        <5>1. /\ j \in Len(orderedIps) + 1 .. Len(orderedIps) + Len(allIps)
              /\ j - Len(orderedIps) \in 1 .. Len(allIps)
          BY <1>3, <1>4, <4>2
        <5> QED
          BY <1>4, <2>3, <2>4, <5>1
      <4> QED
        BY <4>1, <4>2
    <3>2. CASE i \in 1 .. Len(orderedIps)
      BY <1>4, <2>1, <2>4, <3>1, <3>2 DEF Follows
    <3>3. CASE i \notin 1 .. Len(orderedIps)
      BY <1>3, <1>4, <3>1, <3>3
    <3> QED
      BY <3>2, <3>3
  <2> QED
    BY <1>2, <2>4 DEF Follows
<1>10. Configurations'
  <2>1. configuredIps = <<>> /\ ips = <<>>
    BY <1>1, <1>2 DEF Lists
  <2>2. \A m \in 1 .. Len(<<>>) : FALSE
    BY <1>5
  <2>3. \A m \in 1 .. 1 - 1 : FALSE
    OBVIOUS
  <2>4. Kept(<<>>, orderedIps', 1 - 1)
    BY <2>2, <2>3 DEF Kept
  <2>5. 1 <= Len(orderedIps') + 1 /\ Len(<<>>) < 1
    BY <1>3, <1>4, <1>5
  <2> QED
    BY <1>2, <2>1, <2>2, <2>4, <2>5 DEF Configurations
<1>11. Initializations'
  BY <1>2 DEF Initializations
<1> QED
  BY <1>6, <1>8, <1>9, <1>10, <1>11 DEF CoreInv

(* ---- Configuration and initialization --------------------------------------- *)

LEMMA KeptWithout ==
  ASSUME NEW c \in Seq(IPs), NEW o \in Seq(IPs), NEW k \in 1 .. Len(o),
         Kept(c, o, k - 1), o[k] \notin Supported
  PROVE  Kept(c, o, k)
<1>1. k \in Nat /\ \A m : m \in 1 .. k <=> m \in 1 .. k - 1 \/ m = k
  BY LenProperties
<1>2. \A x \in IPs : (\E m \in 1 .. Len(c) : c[m] = x)
                       <=> (\E i \in 1 .. k : o[i] = x) /\ x \in Supported
  BY <1>1 DEF Kept
<1>3. ASSUME NEW i \in 1 .. Len(c), NEW m \in 1 .. k, c[i] = o[m]
      PROVE  m \in 1 .. k - 1
  <2>1. c[i] \in IPs
    BY ElementOfSeq
  <2>2. c[i] \in Supported
    BY <1>2, <2>1
  <2> QED
    BY <1>1, <1>3, <2>2
<1>4. \A i, j \in 1 .. Len(c), m, n \in 1 .. k :
        i < j /\ c[i] = o[m] /\ c[j] = o[n] => m < n
  BY <1>3 DEF Kept
<1> QED
  BY <1>2, <1>4 DEF Kept

LEMMA KeptWith ==
  ASSUME NEW c \in Seq(IPs), NEW o \in Seq(IPs), NEW k \in 1 .. Len(o),
         \A i, j \in 1 .. Len(o) : o[i] = o[j] => i = j,
         Kept(c, o, k - 1), o[k] \in Supported
  PROVE  Kept(Append(c, o[k]), o, k)
<1> PICK y : y = o[k]
  OBVIOUS
<1> PICK d : d = Append(c, y)
  OBVIOUS
<1>1. /\ k \in Nat /\ Len(o) \in Nat
      /\ \A m : m \in 1 .. k <=> m \in 1 .. k - 1 \/ m = k
      /\ \A m \in 1 .. k : m \in 1 .. Len(o)
  BY LenProperties
<1>2. y \in IPs
  BY ElementOfSeq
<1>3. /\ Len(c) \in Nat /\ Len(d) = Len(c) + 1
      /\ \A i \in 1 .. Len(c) : d[i] = c[i]
      /\ d[Len(c) + 1] = y
  BY <1>2, Appended
<1>4. /\ \A i : i \in 1 .. Len(d) <=> i \in 1 .. Len(c) \/ i = Len(c) + 1
      /\ \A i, j \in 1 .. Len(d) : i < j => i \in 1 .. Len(c)
      /\ Len(c) + 1 \in 1 .. Len(d)
  BY <1>3
<1>5. ASSUME NEW x \in IPs
      PROVE  (\E m \in 1 .. Len(d) : d[m] = x)
               <=> (\E i \in 1 .. k : o[i] = x) /\ x \in Supported
  <2>1. (\E m \in 1 .. Len(d) : d[m] = x) <=> x = y \/ \E m \in 1 .. Len(c) : c[m] = x
    BY <1>3, <1>4
  <2>2. (\E i \in 1 .. k : o[i] = x) <=> x = y \/ \E i \in 1 .. k - 1 : o[i] = x
    BY <1>1
  <2>3. (\E m \in 1 .. Len(c) : c[m] = x)
          <=> (\E i \in 1 .. k - 1 : o[i] = x) /\ x \in Supported
    BY DEF Kept
  <2> QED
    BY <2>1, <2>2, <2>3
<1>6. ASSUME NEW i \in 1 .. Len(c), NEW m \in 1 .. k, c[i] = o[m]
      PROVE  m \in 1 .. k - 1
  <2>1. c[i] \in IPs
    BY ElementOfSeq
  <2>2. PICK n \in 1 .. k - 1 : o[n] = c[i]
    BY <2>1 DEF Kept
  <2>3. n \in 1 .. k
    BY <1>1
  <2>4. m = n
    BY <1>1, <1>6, <2>2, <2>3
  <2> QED
    BY <2>4
<1>7. ASSUME NEW i \in 1 .. Len(d), NEW j \in 1 .. Len(d), NEW m \in 1 .. k, NEW n \in 1 .. k,
             i < j, d[i] = o[m], d[j] = o[n]
      PROVE  m < n
  <2>1. i \in 1 .. Len(c) /\ c[i] = o[m] /\ m \in 1 .. k - 1
    BY <1>3, <1>4, <1>6, <1>7
  <2>2. CASE j \in 1 .. Len(c)
    <3>1. n \in 1 .. k - 1 /\ c[j] = o[n]
      BY <1>3, <1>6, <1>7, <2>2
    <3> QED
      BY <1>7, <2>1, <2>2, <3>1 DEF Kept
  <2>3. CASE j = Len(c) + 1
    <3>1. o[n] = o[k] /\ n \in 1 .. Len(o)
      BY <1>1, <1>3, <1>7, <2>3
    <3>2. n = k
      BY <3>1
    <3> QED
      BY <1>1, <2>1, <3>2
  <2> QED
    BY <1>4, <2>2, <2>3
<1>8. Kept(d, o, k)
  BY <1>5, <1>7 DEF Kept
<1> QED
  BY <1>8

(* What every step after Splice leaves alone                               *)
LEMMA OrderStands ==
  ASSUME CoreInv, pc # "order", pc' # "order",
         UNCHANGED <<config, vi, allIps, orderedIps>>
  PROVE  Lists' /\ NeededFirst'
<1>1. Lists'
  BY DEF CoreInv, Lists
<1>2. NeededFirst'
  <2> SUFFICES ASSUME NEW y \in ToSet(config), NEW ip \in ToSet(config),
                      NEW r \in DOMAIN InitFirst, Ahead(y, ip, r)
               PROVE  Follows(y, ip, r)'
    BY SameNeeds DEF NeededFirst
  <2>1. Follows(y, ip, r)
    BY DEF CoreInv, NeededFirst
  <2> QED
    BY <2>1 DEF Follows
<1> QED
  BY <1>1, <1>2

LEMMA Reached ==
  ASSUME CoreInv
  PROVE  /\ allIps \in Seq(IPs) /\ orderedIps \in Seq(IPs) /\ configuredIps \in Seq(IPs)
         /\ ips \in Seq(IPs)
         /\ Len(orderedIps) \in Nat /\ Len(configuredIps) \in Nat /\ Len(ips) \in Nat
         /\ Len(config) \in Nat
         /\ it \in Nat /\ it >= 1 /\ Len(orderedIps) <= Len(config)
         /\ \A i, j \in 1 .. Len(orderedIps) : orderedIps[i] = orderedIps[j] => i = j
<1>1. TypeOK /\ config \in Configs /\ Split(orderedIps, allIps, config)
  BY DEF CoreInv, Lists
<1>2. /\ allIps \in Seq(IPs) /\ orderedIps \in Seq(IPs) /\ configuredIps \in Seq(IPs)
      /\ ips \in Seq(IPs)
      /\ Len(orderedIps) \in Nat /\ Len(configuredIps) \in Nat /\ Len(ips) \in Nat
      /\ Len(config) \in Nat /\ Len(allIps) \in Nat
      /\ it \in Nat /\ it >= 1
  BY <1>1, Typed
<1>3. /\ Len(orderedIps) + Len(allIps) = Len(config)
      /\ \A i, j \in 1 .. Len(orderedIps) : orderedIps[i] = orderedIps[j] => i = j
  BY <1>1 DEF Split
<1>4. Len(orderedIps) <= Len(config)
  BY <1>2, <1>3
<1> QED
  BY <1>2, <1>3, <1>4

LEMMA UnsupportedKeeps ==
  ASSUME CoreInv, Unsupported
  PROVE  CoreInv'
<1>1. TypeOK /\ Configurations /\ Initializations
  BY DEF CoreInv
<1>2. /\ pc = "configure" /\ it <= Len(orderedIps) /\ orderedIps[it] \notin Supported
      /\ it' = it + 1
      /\ UNCHANGED <<config, pc, vi, allIps, orderedIps, configuredIps, irqs, ips>>
  BY DEF Unsupported, Configuring
<1>3. Lists' /\ NeededFirst'
  BY <1>2, OrderStands
<1>4. /\ orderedIps \in Seq(IPs) /\ configuredIps \in Seq(IPs)
      /\ Len(orderedIps) \in Nat /\ Len(configuredIps) \in Nat /\ Len(config) \in Nat
      /\ it \in 1 .. Len(orderedIps) /\ Len(orderedIps) <= Len(config)
  BY <1>2, Reached
<1>5. it + 1 \in 1 .. Len(config) + 1 /\ it + 1 <= Len(orderedIps) + 1 /\ (it + 1) - 1 = it
  BY <1>4
<1>6. TypeOK'
  BY <1>1, <1>2, <1>5 DEF TypeOK
<1>7. Kept(configuredIps, orderedIps, it)
  BY <1>1, <1>2, <1>4, KeptWithout DEF Configurations
<1>8. Len(configuredIps) < it + 1
  BY <1>1, <1>2, <1>4 DEF Configurations
<1>9. \A m \in 1 .. Len(configuredIps) : IrqFound(m)
  BY <1>1, <1>2 DEF Configurations
<1>10. \A m \in 1 .. Len(configuredIps') : IrqFound(m)'
  BY <1>2, <1>9 DEF IrqFound
<1>11. Configurations'
  <2>1. ips = <<>>
    BY <1>1, <1>2 DEF Configurations
  <2> QED
    BY <1>2, <1>5, <1>7, <1>8, <1>10, <2>1 DEF Configurations
<1>12. Initializations'
  BY <1>2 DEF Initializations
<1> QED
  BY <1>3, <1>6, <1>11, <1>12 DEF CoreInv

LEMMA ConfigureKeeps ==
  ASSUME CoreInv, Configure
  PROVE  CoreInv'
<1> PICK ip : ip = orderedIps[it]
  OBVIOUS
<1>1. TypeOK /\ Configurations /\ Initializations
  BY DEF CoreInv
<1>2. /\ pc = "configure" /\ it <= Len(orderedIps) /\ ip \in Supported
      /\ irqs' = [irqs EXCEPT ![ip] = IF IrqOf[ip] \in ToSet(configuredIps) THEN IrqOf[ip]
                                      ELSE NoIp]
      /\ configuredIps' = Append(configuredIps, ip)
      /\ it' = it + 1
      /\ UNCHANGED <<config, pc, vi, allIps, orderedIps, ips>>
  BY DEF Configure, Configuring
<1>3. Lists' /\ NeededFirst'
  BY <1>2, OrderStands
<1>4. /\ orderedIps \in Seq(IPs) /\ configuredIps \in Seq(IPs)
      /\ Len(orderedIps) \in Nat /\ Len(configuredIps) \in Nat /\ Len(config) \in Nat
      /\ it \in 1 .. Len(orderedIps) /\ Len(orderedIps) <= Len(config) /\ it \in Nat
      /\ \A i, j \in 1 .. Len(orderedIps) : orderedIps[i] = orderedIps[j] => i = j
  BY <1>2, Reached
<1>5. it + 1 \in 1 .. Len(config) + 1 /\ it + 1 <= Len(orderedIps) + 1 /\ (it + 1) - 1 = it
  BY <1>4
<1>6. ip \in IPs
  BY <1>4, ElementOfSeq
<1>7. /\ configuredIps' \in Seq(IPs) /\ Len(configuredIps') = Len(configuredIps) + 1
      /\ \A i \in 1 .. Len(configuredIps) : configuredIps'[i] = configuredIps[i]
      /\ configuredIps'[Len(configuredIps) + 1] = ip
  BY <1>2, <1>4, <1>6, Appended
<1>8. irqs' \in [IPs -> IPs \cup {NoIp}]
  <2>1. IrqOf[ip] \in IPs \cup {NoIp} /\ irqs \in [IPs -> IPs \cup {NoIp}]
    BY <1>1, <1>6, FactoryAssumption DEF FactoryAssumption, TypeOK
  <2> QED
    BY <1>2, <2>1
<1>9. TypeOK'
  BY <1>1, <1>2, <1>5, <1>7, <1>8 DEF TypeOK
<1>10. Kept(configuredIps, orderedIps, it - 1) /\ Len(configuredIps) < it
  BY <1>1, <1>2 DEF Configurations
<1>11. Kept(configuredIps', orderedIps, it)
  BY <1>2, <1>4, <1>10, KeptWith
<1>12. \A i \in 1 .. Len(configuredIps) : configuredIps[i] # ip
  <2> SUFFICES ASSUME NEW i \in 1 .. Len(configuredIps), configuredIps[i] = ip PROVE FALSE
    OBVIOUS
  <2>1. PICK n \in 1 .. it - 1 : orderedIps[n] = ip
    BY <1>6, <1>10 DEF Kept
  <2>2. n \in 1 .. Len(orderedIps) /\ n # it
    BY <1>4
  <2> QED
    BY <1>4, <2>1, <2>2
<1>13. ASSUME NEW m \in 1 .. Len(configuredIps') PROVE IrqFound(m)'
  <2>1. m \in 1 .. Len(configuredIps) \/ m = Len(configuredIps) + 1
    BY <1>4, <1>7
  <2>2. CASE m \in 1 .. Len(configuredIps)
    <3>1. IrqFound(m)
      BY <1>1, <1>2, <2>2 DEF Configurations
    <3>2. configuredIps[m] \in IPs /\ configuredIps[m] # ip
      BY <1>4, <1>12, <2>2, ElementOfSeq
    <3>3. configuredIps'[m] = configuredIps[m] /\ irqs'[configuredIps[m]] = irqs[configuredIps[m]]
      BY <1>1, <1>2, <1>7, <2>2, <3>2 DEF TypeOK
    <3>4. \A l \in 1 .. m - 1 : configuredIps'[l] = configuredIps[l]
      <4>1. \A l \in 1 .. m - 1 : l \in 1 .. Len(configuredIps)
        BY <1>4, <2>2
      <4> QED
        BY <1>7, <4>1
    <3> QED
      BY <3>1, <3>3, <3>4 DEF IrqFound
  <2>3. CASE m = Len(configuredIps) + 1
    <3>1. configuredIps'[m] = ip
      BY <1>7, <2>3
    <3>2. irqs'[ip] = IF IrqOf[ip] \in ToSet(configuredIps) THEN IrqOf[ip] ELSE NoIp
      BY <1>1, <1>2, <1>6 DEF TypeOK
    <3>3. \A l \in 1 .. m - 1 : /\ l \in 1 .. Len(configuredIps)
                              /\ configuredIps'[l] = configuredIps[l]
      <4>1. \A l \in 1 .. m - 1 : l \in 1 .. Len(configuredIps)
        BY <1>4, <2>3
      <4> QED
        BY <1>7, <4>1
    <3>4. ASSUME irqs'[ip] = NoIp, IrqOf[ip] # NoIp, NEW l \in 1 .. m - 1
          PROVE  configuredIps'[l] # IrqOf[ip]
      <4>1. IrqOf[ip] \notin ToSet(configuredIps)
        BY <3>2, <3>4
      <4>2. DOMAIN configuredIps = 1 .. Len(configuredIps)
        BY <1>4, LenProperties
      <4>3. configuredIps[l] \in ToSet(configuredIps)
        BY <3>3, <4>2 DEF ToSet
      <4> QED
        BY <3>3, <4>1, <4>3
    <3> QED
      BY <3>1, <3>4 DEF IrqFound
  <2> QED
    BY <2>1, <2>2, <2>3
<1>14. Configurations'
  <2>1. ips = <<>>
    BY <1>1, <1>2 DEF Configurations
  <2>2. Len(configuredIps') < it + 1
    BY <1>4, <1>7, <1>10
  <2> QED
    BY <1>2, <1>5, <1>11, <1>13, <2>1, <2>2 DEF Configurations
<1>15. Initializations'
  BY <1>2 DEF Initializations
<1> QED
  BY <1>3, <1>9, <1>14, <1>15 DEF CoreInv

LEMMA ConfiguredKeeps ==
  ASSUME CoreInv, Configured
  PROVE  CoreInv'
<1>1. TypeOK /\ Configurations
  BY DEF CoreInv
<1>2. /\ pc = "configure" /\ it = Len(orderedIps) + 1 /\ pc' = "init" /\ it' = 1
      /\ UNCHANGED <<config, vi, allIps, orderedIps, configuredIps, irqs, ips>>
  BY DEF Configured
<1>3. Lists' /\ NeededFirst'
  BY <1>2, OrderStands
<1>4. /\ Len(orderedIps) \in Nat /\ Len(configuredIps) \in Nat /\ Len(config) \in Nat
  BY Reached
<1>5. TypeOK'
  <2>1. 1 \in 1 .. Len(config) + 1
    BY <1>4
  <2> QED
    BY <1>1, <1>2, <2>1 DEF TypeOK
<1>6. /\ Kept(configuredIps, orderedIps, it - 1) /\ Len(configuredIps) < it
      /\ ips = <<>>
  BY <1>1, <1>2 DEF Configurations
<1>7. it - 1 = Len(orderedIps) /\ Len(configuredIps) <= Len(orderedIps)
  BY <1>2, <1>4, <1>6
<1>8. \A m \in 1 .. Len(configuredIps') : IrqFound(m)'
  BY <1>1, <1>2 DEF Configurations, IrqFound
<1>9. Configurations'
  BY <1>2, <1>6, <1>7, <1>8 DEF Configurations
<1>10. Initializations'
  <2>1. 1 <= Len(configuredIps) + 1 /\ Len(<<>>) = 1 - 1 /\ \A k \in 1 .. 1 - 1 : FALSE
    BY <1>4
  <2> QED
    BY <1>2, <1>6, <2>1 DEF Initializations
<1> QED
  BY <1>3, <1>5, <1>9, <1>10 DEF CoreInv

LEMMA GivesUpKeeps ==
  ASSUME CoreInv, ConfigError \/ Crash \/ InitError
  PROVE  CoreInv'
<1>1. TypeOK
  BY DEF CoreInv
<1>2. /\ pc # "order" /\ pc' \in {"failed", "crashed"}
      /\ UNCHANGED <<config, vi, it, allIps, orderedIps, configuredIps, irqs, ips>>
  BY DEF ConfigError, Crash, InitError, Configuring, Initializing
<1>3. Lists' /\ NeededFirst'
  BY <1>2, OrderStands
<1>4. TypeOK'
  BY <1>1, <1>2 DEF TypeOK
<1>5. Configurations' /\ Initializations'
  BY <1>2 DEF Configurations, Initializations
<1> QED
  BY <1>3, <1>4, <1>5 DEF CoreInv

LEMMA InitializeKeeps ==
  ASSUME CoreInv, Initialize
  PROVE  CoreInv'
<1> PICK ip : ip = configuredIps[it]
  OBVIOUS
<1>1. TypeOK /\ Configurations /\ Initializations
  BY DEF CoreInv
<1>2. /\ pc = "init" /\ it <= Len(configuredIps)
      /\ ips' = Append(ips, ip)
      /\ it' = it + 1
      /\ UNCHANGED <<config, pc, vi, allIps, orderedIps, configuredIps, irqs>>
  BY DEF Initialize, Initializing
<1>3. Lists' /\ NeededFirst'
  BY <1>2, OrderStands
<1>4. /\ configuredIps \in Seq(IPs) /\ ips \in Seq(IPs)
      /\ Len(orderedIps) \in Nat /\ Len(configuredIps) \in Nat /\ Len(config) \in Nat
      /\ it \in 1 .. Len(configuredIps) /\ it \in Nat
      /\ Len(orderedIps) <= Len(config)
  BY <1>2, Reached
<1>5. ip \in IPs
  BY <1>4, ElementOfSeq
<1>6. /\ Len(configuredIps) <= Len(orderedIps)
      /\ Kept(configuredIps, orderedIps, Len(orderedIps))
      /\ \A m \in 1 .. Len(configuredIps) : IrqFound(m)
  BY <1>1, <1>2 DEF Configurations
<1>7. it + 1 \in 1 .. Len(config) + 1 /\ it + 1 <= Len(configuredIps) + 1 /\ (it + 1) - 1 = it
  BY <1>4, <1>6
<1>8. Len(ips) = it - 1 /\ \A k \in 1 .. it - 1 : ips[k] = configuredIps[k]
  BY <1>1, <1>2 DEF Initializations
<1>9. /\ ips' \in Seq(IPs) /\ Len(ips') = it
      /\ \A k \in 1 .. it - 1 : ips'[k] = ips[k]
      /\ ips'[it] = ip
  <2>1. /\ ips' \in Seq(IPs) /\ Len(ips') = Len(ips) + 1
        /\ \A k \in 1 .. Len(ips) : ips'[k] = ips[k]
        /\ ips'[Len(ips) + 1] = ip
    BY <1>2, <1>4, <1>5, Appended
  <2>2. Len(ips) + 1 = it
    BY <1>4, <1>8
  <2> QED
    BY <1>8, <2>1, <2>2
<1>10. TypeOK'
  BY <1>1, <1>2, <1>7, <1>9 DEF TypeOK
<1>11. Configurations'
  BY <1>2, <1>6 DEF Configurations, IrqFound
<1>12. \A k \in 1 .. it : ips'[k] = configuredIps[k]
  <2>1. \A k \in 1 .. it : k \in 1 .. it - 1 \/ k = it
    BY <1>4
  <2> QED
    BY <1>8, <1>9, <2>1
<1>13. Initializations'
  BY <1>2, <1>7, <1>9, <1>12 DEF Initializations
<1> QED
  BY <1>3, <1>10, <1>11, <1>13 DEF CoreInv

LEMMA InitializedKeeps ==
  ASSUME CoreInv, Initialized
  PROVE  CoreInv'
<1>1. TypeOK /\ Configurations /\ Initializations
  BY DEF CoreInv
<1>2. /\ pc = "init" /\ it = Len(configuredIps) + 1 /\ pc' = "done"
      /\ UNCHANGED <<config, vi, it, allIps, orderedIps, configuredIps, irqs, ips>>
  BY DEF Initialized
<1>3. Lists' /\ NeededFirst'
  BY <1>2, OrderStands
<1>4. TypeOK'
  BY <1>1, <1>2 DEF TypeOK
<1>5. Configurations'
  BY <1>1, <1>2 DEF Configurations
<1>6. ips = configuredIps
  <2>1. ips \in Seq(IPs) /\ configuredIps \in Seq(IPs) /\ Len(configuredIps) \in Nat
    BY Reached
  <2>2. Len(ips) = it - 1 /\ \A k \in 1 .. it - 1 : ips[k] = configuredIps[k]
    BY <1>1, <1>2 DEF Initializations
  <2>3. it - 1 = Len(configuredIps)
    BY <1>2, <2>1
  <2> QED
    BY <2>1, <2>2, <2>3, SeqEqual
<1>7. Initializations'
  BY <1>2, <1>6 DEF Initializations
<1> QED
  BY <1>3, <1>4, <1>5, <1>7 DEF CoreInv

LEMMA CoreSteps ==
  ASSUME CoreInv, [Next]_vars
  PROVE  CoreInv'
<1>1. CASE UNCHANGED vars
  <2>1. /\ UNCHANGED <<config, pc, vi, it, allIps, orderedIps, configuredIps, irqs, ips>>
        /\ TypeOK /\ Lists /\ NeededFirst /\ Configurations /\ Initializations
    BY <1>1 DEF vars, CoreInv
  <2>2. TypeOK' /\ Lists'
    BY <2>1 DEF TypeOK, Lists
  <2>3. NeededFirst'
    <3> SUFFICES ASSUME NEW y \in ToSet(config), NEW ip \in ToSet(config),
                        NEW r \in DOMAIN InitFirst, Ahead(y, ip, r)
                 PROVE  Follows(y, ip, r)'
      BY <2>1, SameNeeds DEF NeededFirst
    <3>1. Follows(y, ip, r)
      BY <2>1 DEF NeededFirst
    <3> QED
      BY <2>1, <3>1 DEF Follows
  <2>4. Configurations' /\ Initializations'
    BY <2>1 DEF Configurations, Initializations, IrqFound
  <2> QED
    BY <2>2, <2>3, <2>4 DEF CoreInv
<1>2. CASE Next
  BY <1>2, PickKeeps, SkipKeeps, NextVlnvKeeps, SpliceKeeps, UnsupportedKeeps, ConfigureKeeps,
     ConfiguredKeeps, GivesUpKeeps, InitializeKeeps, InitializedKeeps DEF Next
<1> QED
  BY <1>1, <1>2

-----------------------------------------------------------------------------
(* ---- The lookup by VLNV ------------------------------------------------------ *)

LEMMA Smallest ==
  ASSUME NEW T, T \subseteq Nat, T # {}
  PROVE  \E x \in T : \A y \in T : x <= y
<1>1. PICK x \in T : \A y \in T : ~ (<<y, x>> \in OpToRel(<, Nat))
  BY NatLessThanWellFounded, WFMin
<1>2. ASSUME NEW y \in T PROVE x <= y
  <2>1. x \in Nat /\ y \in Nat
    OBVIOUS
  <2>2. y < x => <<y, x>> \in OpToRel(<, Nat)
    BY <2>1, Zenon DEF OpToRel
  <2>3. ~ (y < x)
    BY <1>1, <2>2
  <2> QED
    BY <2>1, <2>3
<1> QED
  BY <1>2

LEMMA LookupFinds ==
  ASSUME NEW vlnv, ips \in Seq(IPs)
  PROVE  Offered(vlnv) <=> \E i \in 1 .. Len(ips) : VlnvEq(VlnvOf[ips[i]], vlnv)
<1> DEFINE list == Ids(ips)
           I == {i \in 1 .. Len(list) : VlnvEq(list[i].vlnv, vlnv)}
<1>1. Len(ips) \in Nat /\ DOMAIN ips = 1 .. Len(ips)
  BY LenProperties
<1>2. list = [i \in 1 .. Len(ips) |-> [vlnv |-> VlnvOf[ips[i]], name |-> ips[i]]]
  BY <1>1 DEF Ids
<1>3. Len(list) = Len(ips)
  <2>1. list \in Seq([vlnv : {VlnvOf[ips[i]] : i \in 1 .. Len(ips)},
                     name : {ips[i] : i \in 1 .. Len(ips)}])
    BY <1>1, <1>2, SMTT(60)
  <2>2. DOMAIN list = 1 .. Len(ips)
    BY <1>2
  <2> HIDE DEF list
  <2> QED
    BY <1>1, <2>1, <2>2, LenProperties
<1>4. lookupByVlnv(list, vlnv) = IF I # {} THEN Min(I) ELSE 0
  BY DEF lookupByVlnv, SelectInSeq
<1>5. \A i \in 1 .. Len(ips) : list[i].vlnv = VlnvOf[ips[i]]
  BY <1>2
<1> HIDE DEF list
<1>6. I \subseteq Nat /\ 0 \notin I
  BY <1>1, <1>3
<1>7. I # {} <=> \E i \in 1 .. Len(ips) : VlnvEq(VlnvOf[ips[i]], vlnv)
  BY <1>3, <1>5
<1> HIDE DEF I
<1>8. I # {} => Min(I) \in I
  <2> SUFFICES ASSUME I # {} PROVE Min(I) \in I
    OBVIOUS
  <2>1. \E x \in I : \A y \in I : x <= y
    BY <1>6, Smallest
  <2> QED
    BY <2>1 DEF Min
<1>9. Offered(vlnv) <=> lookupByVlnv(list, vlnv) # 0
  BY DEF Offered, list
<1> QED
  BY <1>4, <1>6, <1>7, <1>8, <1>9

-----------------------------------------------------------------------------
(* ---- What the invariant of CoreFactory::make() implies ------------------------ *)

LEMMA CoreInvOrders ==
  ASSUME CoreInv
  PROVE  SinglesInOrder
<1> SUFFICES ASSUME \A i, j \in DOMAIN config :
                      \A q \in Rank[config[i]], r \in Rank[config[j]] : q = r <=> i = j,
                    pc # "order",
                    NEW i \in DOMAIN orderedIps, NEW j \in DOMAIN orderedIps,
                    NEW r \in Rank[orderedIps[j]], i < j,
                    \A q \in Rank[orderedIps[i]] : ~ (q <= r)
             PROVE  FALSE
  BY DEF SinglesInOrder, InitializedInOrder
<1> PICK x : x = orderedIps[j]
  OBVIOUS
<1> PICK ip : ip = orderedIps[i]
  OBVIOUS
<1>1. /\ orderedIps \in Seq(IPs) /\ Len(orderedIps) \in Nat
      /\ DOMAIN orderedIps = 1 .. Len(orderedIps)
  BY Reached, LenProperties
<1>2. x \in IPs /\ ip \in IPs
  BY <1>1, ElementOfSeq
<1>3. x \in ToSet(config) /\ ip \in ToSet(config)
  BY <1>1 DEF CoreInv, Lists, Split
<1>4. \A y \in IPs : \A q \in Rank[y] : q \in Nat /\ q \in DOMAIN InitFirst
  BY Entries DEF Rank
<1>5. \A y \in ToSet(config) : \E m \in DOMAIN config : config[m] = y
  BY DEF ToSet
<1>6. PICK m \in DOMAIN config : config[m] = x
  BY <1>3, <1>5
<1>7. Rank[x] = {r}
  BY <1>6
<1>8. \A y \in ToSet(config) : r \in Rank[y] => y = x
  BY <1>5, <1>6
<1>9. \A q \in Rank[ip] : q > r
  BY <1>2, <1>4
<1>10. Ahead(x, ip, r)
  BY <1>7, <1>8, <1>9 DEF Ahead
<1>11. Follows(x, ip, r)
  BY <1>2, <1>3, <1>4, <1>10 DEF CoreInv, NeededFirst
<1>12. j < i
  BY <1>1, <1>11 DEF Follows
<1> QED
  BY <1>1, <1>12

(* What comes before an IP is in the card when it is initialized.          *)
LEMMA BeforeIt ==
  ASSUME CoreInv, Initializing, NEW x, ComesBefore(x, configuredIps[it])
  PROVE  /\ x \in IPs
         /\ \E l \in 1 .. it - 1 : configuredIps[l] = x
<1> PICK ip : ip = configuredIps[it]
  OBVIOUS
<1>1. /\ pc = "init" /\ it <= Len(configuredIps)
      /\ TypeOK /\ Lists /\ NeededFirst /\ Configurations
  BY DEF Initializing, CoreInv
<1>2. /\ orderedIps \in Seq(IPs) /\ configuredIps \in Seq(IPs) /\ Len(orderedIps) \in Nat
      /\ Len(configuredIps) \in Nat /\ it \in 1 .. Len(configuredIps) /\ it \in Nat
  BY <1>1, Reached
<1>3. Kept(configuredIps, orderedIps, Len(orderedIps))
  BY <1>1 DEF Configurations
<1>4. ip \in IPs
  BY <1>2, ElementOfSeq
<1>5. PICK n \in 1 .. Len(orderedIps) : orderedIps[n] = ip
  BY <1>2, <1>3, <1>4 DEF Kept
<1>6. ip \in ToSet(config)
  BY <1>1, <1>5 DEF Lists, Split
<1>7. /\ x \in ToSet(config) /\ x \in Supported /\ x \in IPs
      /\ \E r \in Rank[x] : Ahead(x, ip, r)
  BY DEF ComesBefore, Ahead, Supported
<1>8. PICK r \in Rank[x] : Ahead(x, ip, r)
  BY <1>7
<1>9. r \in DOMAIN InitFirst
  BY <1>7, <1>8 DEF Rank
<1>10. Follows(x, ip, r)
  BY <1>1, <1>6, <1>7, <1>8, <1>9 DEF NeededFirst
<1>11. PICK m \in 1 .. Len(orderedIps) : orderedIps[m] = x
  <2>1. \A i \in 1 .. Len(<<>>) : FALSE
    BY EmptySeq
  <2>2. Split(orderedIps, <<>>, config)
    BY <1>1 DEF Lists
  <2> QED
    BY <1>7, <2>1, <2>2 DEF Split
<1>12. m < n
  BY <1>5, <1>10, <1>11 DEF Follows
<1>13. PICK l \in 1 .. Len(configuredIps) : configuredIps[l] = x
  BY <1>3, <1>7, <1>11 DEF Kept
<1>14. CASE l < it
  <2>1. l \in 1 .. it - 1
    BY <1>2, <1>14
  <2> QED
    BY <1>7, <1>13, <2>1
<1>15. CASE it < l
  <2>1. n < m
    BY <1>2, <1>3, <1>5, <1>11, <1>13, <1>15 DEF Kept
  <2> QED
    BY <1>12, <2>1
<1>16. CASE l = it
  <2>1. orderedIps[m] = ip
    BY <1>11, <1>13, <1>16
  <2>2. m < m
    BY <1>10, <1>11, <2>1 DEF Follows
  <2> QED
    BY <2>2
<1> QED
  BY <1>2, <1>14, <1>15, <1>16

LEMMA CoreInvMeets ==
  ASSUME CoreInv
  PROVE  DependenciesMet
<1> PICK ip : ip = configuredIps[it]
  OBVIOUS
<1>1. /\ TypeOK /\ Lists /\ Configurations /\ Initializations /\ config \in Configs
  BY DEF CoreInv, Lists
<1>2. /\ allIps \in Seq(IPs) /\ orderedIps \in Seq(IPs) /\ config \in Seq(IPs)
      /\ configuredIps \in Seq(IPs) /\ ips \in Seq(IPs)
      /\ Len(orderedIps) \in Nat /\ Len(ips) \in Nat /\ it \in Nat /\ it >= 1
      /\ Len(configuredIps) \in Nat
  BY <1>1, Typed
<1>3. IsInjective(orderedIps \o allIps) /\ ToSet(orderedIps \o allIps) = ToSet(config)
  BY <1>1, <1>2, SplitTogether DEF Lists
<1>4. ASSUME pc = "done"
      PROVE  ToSet(ips) = ToSet(orderedIps) \cap Supported /\ SameOrder(ips, orderedIps)
  <2>1. Kept(ips, orderedIps, Len(orderedIps))
    BY <1>1, <1>4 DEF Configurations, Initializations
  <2>2. DOMAIN ips = 1 .. Len(ips) /\ DOMAIN orderedIps = 1 .. Len(orderedIps)
    BY <1>2, LenProperties
  <2>3. /\ \A x : x \in ToSet(ips) <=> \E i \in 1 .. Len(ips) : ips[i] = x
        /\ \A x : x \in ToSet(orderedIps) <=> \E i \in 1 .. Len(orderedIps) : orderedIps[i] = x
    BY <2>2 DEF ToSet
  <2>4. /\ \A i \in 1 .. Len(ips) : ips[i] \in IPs
        /\ \A i \in 1 .. Len(orderedIps) : orderedIps[i] \in IPs
    BY <1>2, ElementOfSeq
  <2>5. \A x : x \in ToSet(ips) <=> x \in ToSet(orderedIps) /\ x \in Supported
    <3> SUFFICES ASSUME NEW x
                 PROVE  x \in ToSet(ips) <=> x \in ToSet(orderedIps) /\ x \in Supported
      OBVIOUS
    <3>1. CASE x \in IPs
      BY <2>1, <2>3, <3>1 DEF Kept
    <3>2. CASE x \notin IPs
      BY <2>3, <2>4, <3>2
    <3> QED
      BY <3>1, <3>2
  <2>6. SameOrder(ips, orderedIps)
    BY <2>1, <2>2 DEF Kept, SameOrder
  <2> QED
    BY <2>5, <2>6
<1>5. ASSUME Initializing
      PROVE  NullController(ip) => ~ ComesBefore(IrqOf[ip], ip)
  <2> SUFFICES ASSUME NullController(ip), ComesBefore(IrqOf[ip], ip) PROVE FALSE
    OBVIOUS
  <2>1. PICK l \in 1 .. it - 1 : configuredIps[l] = IrqOf[ip]
    BY <1>5, BeforeIt
  <2>2. it \in 1 .. Len(configuredIps) /\ pc = "init"
    BY <1>2, <1>5 DEF Initializing
  <2>3. IrqFound(it)
    BY <1>1, <2>2 DEF Configurations
  <2> QED
    BY <2>1, <2>3 DEF IrqFound, NullController
<1>6. ASSUME Initializing, NEW vlnv, NEW x \in IPs, VlnvEq(VlnvOf[x], vlnv), ComesBefore(x, ip)
      PROVE  Offered(vlnv)
  <2>1. PICK l \in 1 .. it - 1 : configuredIps[l] = x
    BY <1>6, BeforeIt
  <2>2. pc = "init"
    BY <1>6 DEF Initializing
  <2>3. Len(ips) = it - 1 /\ ips[l] = configuredIps[l]
    BY <1>1, <2>2 DEF Initializations
  <2>4. \E i \in 1 .. Len(ips) : VlnvEq(VlnvOf[ips[i]], vlnv)
    BY <1>6, <2>1, <2>3
  <2> QED
    BY <1>2, <2>4, LookupFinds
<1>7. ASSUME Initializing, NEW x \in IPs, ComesBefore(x, ip)
      PROVE  /\ NoI2c(ip) => ~ VlnvEq(VlnvOf[x], I2cVlnv)
             /\ NoTranslation(ip) => ~ VlnvEq(VlnvOf[x], BridgeVlnv)
  BY <1>6, <1>7 DEF NoI2c, NoTranslation
<1> QED
  BY <1>3, <1>4, <1>5, <1>7 DEF DependenciesMet

-----------------------------------------------------------------------------
(* ---- The life of a card --------------------------------------------------------- *)

(* An engine that init() has set up and that nothing has destructed since  *)
Healthy(engines, mapped, d) ==
  d \in Dmas =>
    /\ engines[d] = [engine |-> TRUE, hwLock |-> FALSE, rx |-> d \in SgDmas, tx |-> d \in SgDmas]
    /\ d \in SgDmas => Ring(d, "rx") \in mapped /\ Ring(d, "tx") \in mapped

Phases ==
  /\ life \in {"find", "cores", "paths"} => made = "none"
  /\ life = "find" => pc = "order"
  /\ life = "unwind" => made = "error"
  /\ life = "paths" \/ made = "card" => pc = "done"
  /\ life \in {"ctrl", "pipe", "api", "leaked"} => made = "card"

(* The engines that a card has, and those that ~Card() has yet to destruct *)
Engines ==
  /\ life \in {"cores", "paths"} \/ (made = "card" /\ life \notin {"clear", "gone"}) =>
       \A k \in 1 .. Len(ips) : Healthy(dma, memoryBlocksMapped, ips[k])
  /\ made = "card" /\ life = "clear" =>
       /\ \A k \in 1 .. Len(doomed) : Healthy(dma, memoryBlocksMapped, doomed[k])
       /\ \A k, l \in 1 .. Len(doomed) : doomed[k] = doomed[l] => k = l

(* A block is handed to an engine of the card, which ~Card() destructs.    *)
Posters ==
  \A d \in Dmas : posted[d] # {} =>
    /\ made = "card"
    /\ life \notin {"clear", "gone"} => \E k \in 1 .. Len(ips) : ips[k] = d
    /\ life = "clear" /\ dma[d].engine => \E k \in 1 .. Len(doomed) : doomed[k] = d
    /\ life = "gone" => ~ dma[d].engine

(* As long as there is no second thread, every block that is pinned is in  *)
(* the card's list or on its way there.                                    *)
Remembered ==
  /\ reader => life = "ctrl"
  /\ ~ reader => mapping["reader"] = {}
  /\ Using /\ ~ reader => pinned \cap UserBlocks \subseteq memoryBlocksMapped \cup mapping["main"]
  /\ life \in {"find", "cores", "paths"} => pinned \cap UserBlocks = {}

BlocksKept ==
  \A d \in Dmas :
    /\ life \in {"ctrl", "pipe"} => posted[d] \subseteq held
    /\ dma[d].engine => posted[d] \subseteq pinned
    /\ dma[d].engine /\ ~ reader => posted[d] \subseteq memoryBlocksMapped

CardInv ==
  /\ CoreInv /\ CardTypeOK /\ Phases /\ Engines
  /\ Posters /\ Remembered /\ BlocksKept /\ CleanTeardown

LEMMA CoreTypes ==
  ASSUME CoreInv
  PROVE  TypeOK
  BY DEF CoreInv

LEMMA CardBegins ==
  ASSUME CardInit
  PROVE  CardInv
<1>1. /\ Init /\ life = "find" /\ made = "none" /\ process = "runs" /\ doomed = <<>>
      /\ dma = [d \in Dmas |-> NewDma] /\ memoryBlocksMapped = {} /\ pinned = {} /\ held = {}
      /\ paths = 0 /\ reader = FALSE /\ mapping = [t \in Threads |-> {}]
      /\ posted = [d \in Dmas |-> {}]
  BY DEF CardInit
<1>2. CoreInv
  BY <1>1, CoreBegins
<1>3. TypeOK
  BY <1>2, CoreTypes
<1>4. CardTypeOK
  <2>1. NewDma \in DmaState
    BY DEF NewDma, DmaState
  <2>2. dma \in [Dmas -> DmaState]
    BY <1>1, <2>1
  <2>3. <<>> \in Seq(IPs) /\ 0 \in 0 .. MaxPaths
    BY EmptySeq, CardAssumption DEF CardAssumption
  <2> QED
    BY <1>1, <1>3, <2>2, <2>3 DEF CardTypeOK
<1>5. Phases
  BY <1>1 DEF Phases, Init
<1>6. Engines /\ CleanTeardown
  BY <1>1 DEF Engines, CleanTeardown
<1>7. Posters /\ Remembered /\ BlocksKept
  BY <1>1 DEF Posters, Remembered, BlocksKept, Using, Threads
<1> QED
  BY <1>2, <1>4, <1>5, <1>6, <1>7 DEF CardInv

(* What a step of the program may do to the card: it ends the process, or  *)
(* lets go of the card, and takes nothing off the lists of what is mapped. *)
LEMMA UserEffect ==
  ASSUME UserStep
  PROVE  /\ UNCHANGED <<vars, made, doomed, dma, paths>>
         /\ process = "runs" /\ life \in {"ctrl", "pipe", "api"}
         /\ \/ life' = life
            \/ life' \in {"stop", "leaked"} /\ process' = "runs"
         /\ process' \in {"runs", "exited", "segv", "terminated"}
         /\ memoryBlocksMapped \subseteq memoryBlocksMapped' /\ pinned \subseteq pinned'
<1> USE DEF Using, Active, Runs, useVars, makeVars, ownVars
<1>1. CASE StartReader \/ (\E b \in UserBlocks : Allocate(b) \/ (\E d \in Dmas : Post(d, b)))
  BY <1>1 DEF StartReader, Allocate, Post
<1>2. CASE \E t \in Threads, b \in UserBlocks : Pin(t, b)
  BY <1>2 DEF Pin
<1>3. CASE \E t \in Threads : Insert(t)
  BY <1>3 DEF Insert
<1>4. \A kind : Throws(kind) =>
        \/ life' = life /\ process' = "terminated"
        \/ life' = "stop" /\ process' = process
  BY DEF Throws, Terminates, Unwinds
<1>5. CASE \E t \in Threads : CreateMappingThrows(t) \/ Fails(t)
  BY <1>4, <1>5 DEF CreateMappingThrows, Fails
<1>6. CASE Leave
  BY <1>6 DEF Leave, Unwinds
<1>7. CASE ApiCall \/ ApiInitFails \/ ApiDestroy \/ ControlC
  BY <1>7 DEF ApiCall, ApiInitFails, ApiDestroy, ControlC
<1> QED
  BY <1>1, <1>2, <1>3, <1>5, <1>6, <1>7 DEF UserStep

(* The factory and the destructors leave the program's own state alone.    *)
LEMMA MachineryEffect ==
  ASSUME Machinery
  PROVE  process = "runs" /\ UNCHANGED programVars
<1> USE DEF Runs, ownVars, cardVars, programVars
<1>1. CASE NotFound \/ Found \/ NoIPs \/ CoresDone \/ PathConnected \/ PathFails \/ Made
  BY <1>1 DEF NotFound, Found, NoIPs, CoresDone, PathConnected, PathFails, Made
<1>2. CASE CoreStep \/ CoreCrash \/ CoreConfigError
  BY <1>2 DEF CoreStep, CoreCrash, CoreConfigError
<1>3. CASE OtherInit \/ OtherInitError \/ DmaInit \/ DmaInitError
  BY <1>3 DEF OtherInit, OtherInitError, DmaInit, DmaInitError
<1>4. CASE Destruct \/ Unwound \/ Stop \/ UnmapRest
  BY <1>4 DEF Destruct, Unwound, Stop, UnmapRest
<1> QED
  BY <1>1, <1>2, <1>3, <1>4 DEF Machinery

LEMMA CardStepIsCoreStep ==
  ASSUME [CardNext]_<<vars, cardVars>>
  PROVE  [Next]_vars
<1>1. CASE UNCHANGED <<vars, cardVars>>
  BY <1>1
<1>2. CASE NotFound \/ Found \/ NoIPs \/ CoresDone \/ PathConnected \/ PathFails \/ Made
  BY <1>2 DEF NotFound, Found, NoIPs, CoresDone, PathConnected, PathFails, Made
<1>3. CASE Destruct \/ Unwound \/ Stop \/ UnmapRest
  BY <1>3 DEF Destruct, Unwound, Stop, UnmapRest
<1>4. CASE CoreStep \/ CoreCrash \/ CoreConfigError
  BY <1>4 DEF CoreStep, CoreCrash, CoreConfigError, Next
<1>5. CASE OtherInit \/ OtherInitError \/ DmaInit \/ DmaInitError
  BY <1>5 DEF OtherInit, OtherInitError, DmaInit, DmaInitError, Next
<1>6. CASE UserStep
  BY <1>6, UserEffect
<1> QED
  BY <1>1, <1>2, <1>3, <1>4, <1>5, <1>6 DEF CardNext, Machinery

(* ---- Phases *)
LEMMA CorePhase ==
  ASSUME [Next]_vars
  PROVE  pc = "done" => pc' = "done"
  BY DEF Next, vars, Pick, Skip, NextVlnv, Splice, Unsupported, Configure, ConfigError,
     Configured, Crash, Initialize, InitError, Initialized, Configuring, Initializing

LEMMA PhasesKeep ==
  ASSUME CardTypeOK, Phases, [CardNext]_<<vars, cardVars>>
  PROVE  Phases'
<1> USE DEF Phases
<1>1. pc = "done" => pc' = "done"
  BY CardStepIsCoreStep, CorePhase
<1>2. CASE UNCHANGED <<vars, cardVars>>
  BY <1>2 DEF cardVars, ownVars, makeVars, vars
<1>3. CASE NotFound \/ Found \/ NoIPs \/ PathConnected \/ PathFails
  BY <1>1, <1>3 DEF NotFound, Found, NoIPs, PathConnected, PathFails, Runs, ownVars, makeVars, vars
<1>4. CASE CoresDone
  BY <1>1, <1>4 DEF CoresDone, Runs
<1>5. CASE Made
  <2>1. life' \in {"ctrl", "pipe", "api"}
    BY <1>5, CardAssumption DEF Made, CardAssumption
  <2> QED
    BY <1>1, <1>5, <2>1 DEF Made, Runs
<1>6. CASE Destruct \/ Unwound \/ Stop \/ UnmapRest
  BY <1>1, <1>6 DEF Destruct, Unwound, Stop, UnmapRest, Runs, ownVars, makeVars
<1>7. CASE CoreStep \/ OtherInit \/ DmaInit \/ CoreCrash
  <2>1. life = "cores" /\ life' = life /\ made' = made
    BY <1>7 DEF CoreStep, OtherInit, DmaInit, CoreCrash, Runs, cardVars, ownVars, makeVars
  <2> QED
    BY <2>1
<1>8. CASE CoreConfigError \/ OtherInitError \/ DmaInitError
  <2>1. life' = "unwind" /\ made' = "error"
    BY <1>8 DEF CoreConfigError, OtherInitError, DmaInitError, Unwind
  <2> QED
    BY <2>1
<1>9. CASE UserStep
  BY <1>1, <1>9, UserEffect
<1> QED
  BY <1>2, <1>3, <1>4, <1>5, <1>6, <1>7, <1>8, <1>9 DEF CardNext, Machinery

(* ---- Types *)
LEMMA TheRest ==
  ASSUME CoreInv, Initializing
  PROVE  Pending \in Seq(IPs) /\ Current \in IPs
<1>1. configuredIps \in Seq(IPs) /\ it \in 1 .. Len(configuredIps) /\ Len(configuredIps) \in Nat
  BY Reached DEF Initializing
<1>2. \A k \in it .. Len(configuredIps) : configuredIps[k] \in IPs
  BY <1>1, ElementOfSeq
<1>3. Pending \in Seq(IPs)
  BY <1>1, <1>2, SubSeqProperties DEF Pending
<1> QED
  BY <1>1, <1>3, ElementOfSeq DEF Current

LEMMA RingsOf ==
  ASSUME NEW d \in SgDmas
  PROVE  Ring(d, "rx") \in Rings /\ Ring(d, "tx") \in Rings
  BY DEF Rings

LEMMA FailureTyped ==
  ASSUME NEW state \in DmaState, NEW pins, NEW maps, pins \subseteq Rings, maps \subseteq Rings,
         NEW f, f = Failure(state, pins, maps)
  PROVE  f.state \in DmaState /\ f.pinned \subseteq Rings /\ f.mapped \subseteq Rings
  BY DEF Failure

LEMMA FailuresTyped ==
  ASSUME NEW d \in Dmas, NEW f \in DmaFailures(d)
  PROVE  f.state \in DmaState /\ f.pinned \subseteq Rings /\ f.mapped \subseteq Rings
<1>1. NewDma \in DmaState /\ \A rx, tx \in BOOLEAN : Locked(rx, tx) \in DmaState
  BY DEF NewDma, Locked, DmaState
<1>n. PICK none, l0, l1, l2 : /\ none = NewDma
                              /\ l0 = Locked(FALSE, FALSE)
                              /\ l1 = Locked(TRUE, FALSE)
                              /\ l2 = Locked(TRUE, TRUE)
  OBVIOUS
<1>2. none \in DmaState /\ l0 \in DmaState /\ l1 \in DmaState /\ l2 \in DmaState
  BY <1>1, <1>n
<1>r. PICK rx, tx : rx = Ring(d, "rx") /\ tx = Ring(d, "tx")
  OBVIOUS
<1>4. {} \subseteq Rings /\ (d \in SgDmas => {rx} \subseteq Rings /\ {rx, tx} \subseteq Rings)
  BY <1>r, RingsOf
<1>3. \/ f = Failure(none, {}, {})
      \/ f = Failure(l0, {}, {})
      \/ d \in SgDmas /\ f = Failure(l1, {}, {})
      \/ d \in SgDmas /\ f = Failure(l1, {rx}, {})
      \/ d \in SgDmas /\ f = Failure(l1, {rx}, {rx})
      \/ d \in SgDmas /\ f = Failure(l2, {rx}, {rx})
      \/ d \in SgDmas /\ f = Failure(l2, {rx, tx}, {rx})
      \/ d \in SgDmas /\ f = Failure(l2, {rx, tx}, {rx, tx})
  <2>1. DmaFailures(d) =
          {Failure(none, {}, {}), Failure(l0, {}, {})}
          \cup IF d \notin SgDmas THEN {} ELSE
          {Failure(l1, {}, {}), Failure(l1, {rx}, {}), Failure(l1, {rx}, {rx}),
           Failure(l2, {rx}, {rx}), Failure(l2, {rx, tx}, {rx}), Failure(l2, {rx, tx}, {rx, tx})}
    BY <1>n, <1>r, Zenon DEF DmaFailures
  <2>2. PICK few : few = {Failure(none, {}, {}), Failure(l0, {}, {})}
    OBVIOUS
  <2>3. PICK more : more = {Failure(l1, {}, {}), Failure(l1, {rx}, {}), Failure(l1, {rx}, {rx}),
                            Failure(l2, {rx}, {rx}), Failure(l2, {rx, tx}, {rx}),
                            Failure(l2, {rx, tx}, {rx, tx})}
    OBVIOUS
  <2>4. DmaFailures(d) = few \cup IF d \notin SgDmas THEN {} ELSE more
    BY <2>1, <2>2, <2>3, Zenon
  <2>5. f \in few \/ (d \in SgDmas /\ f \in more)
    BY <2>4
  <2>6. f \in few => f = Failure(none, {}, {}) \/ f = Failure(l0, {}, {})
    BY <2>2, Zenon
  <2>7. f \in more => \/ f = Failure(l1, {}, {}) \/ f = Failure(l1, {rx}, {})
                      \/ f = Failure(l1, {rx}, {rx}) \/ f = Failure(l2, {rx}, {rx})
                      \/ f = Failure(l2, {rx, tx}, {rx}) \/ f = Failure(l2, {rx, tx}, {rx, tx})
    BY <2>3, Zenon
  <2> QED
    BY <2>5, <2>6, <2>7, Zenon
<1> QED
  BY <1>2, <1>3, <1>4, FailureTyped, Zenon

(* What the program changes                                                *)
ProgramTypes ==
  /\ held \subseteq UserBlocks
  /\ reader \in BOOLEAN
  /\ mapping \in [Threads -> SUBSET UserBlocks]
  /\ posted \in [Dmas -> SUBSET UserBlocks]

LEMMA ProgramTypesKeep ==
  ASSUME CardTypeOK, [CardNext]_<<vars, cardVars>>
  PROVE  ProgramTypes'
<1>1. ProgramTypes
  BY DEF CardTypeOK, ProgramTypes
<1>2. CASE Machinery \/ UNCHANGED <<vars, cardVars>>
  BY <1>1, <1>2, MachineryEffect DEF cardVars, ownVars, programVars, ProgramTypes
<1>3. CASE UserStep
  <2> USE DEF ProgramTypes
  <2>1. CASE StartReader \/ Leave \/ \E b \in UserBlocks : Allocate(b)
    BY <1>1, <2>1 DEF StartReader, Leave, Allocate, Unwinds
  <2>2. ASSUME NEW d \in Dmas, NEW b \in UserBlocks, Post(d, b)
        PROVE  ProgramTypes'
    <3>1. posted' = [posted EXCEPT ![d] = posted[d] \cup {b}] /\ UNCHANGED <<held, reader, mapping>>
      BY <2>2 DEF Post
    <3> QED
      BY <1>1, <3>1
  <2>3. ASSUME NEW t \in Threads, NEW b \in UserBlocks, Pin(t, b)
        PROVE  ProgramTypes'
    BY <1>1, <2>3 DEF Pin
  <2>4. \A kind : Throws(kind) => held' \in {held, {}}
    BY DEF Throws, Terminates, Unwinds
  <2>5. ASSUME NEW t \in Threads, CreateMappingThrows(t) \/ Insert(t) \/ Fails(t)
        PROVE  ProgramTypes'
    <3>1. held' \in {held, {}} /\ UNCHANGED <<reader, posted>>
      BY <2>4, <2>5 DEF CreateMappingThrows, Insert, Fails
    <3>2. mapping' = [mapping EXCEPT ![t] = {}] \/ mapping' = mapping
      BY <2>5 DEF CreateMappingThrows, Insert, Fails
    <3> QED
      BY <1>1, <3>1, <3>2
  <2>6. CASE ApiCall \/ ApiInitFails \/ ApiDestroy \/ ControlC
    BY <1>1, <2>6 DEF ApiCall, ApiInitFails, ApiDestroy, ControlC, ownVars, programVars
  <2> QED
    BY <1>3, <2>1, <2>2, <2>3, <2>5, <2>6 DEF UserStep
<1> QED
  BY <1>2, <1>3 DEF CardNext

(* A program maps blocks of its own.                                       *)
LEMMA UserMaps ==
  ASSUME CardTypeOK, UserStep
  PROVE  /\ memoryBlocksMapped' \subseteq memoryBlocksMapped \cup UserBlocks
         /\ pinned' \subseteq pinned \cup UserBlocks
<1> USE DEF useVars, makeVars, ownVars
<1>1. CASE StartReader \/ Leave \/ (\E b \in UserBlocks : Allocate(b) \/ (\E d \in Dmas : Post(d, b)))
  BY <1>1 DEF StartReader, Leave, Allocate, Post
<1>2. CASE \E t \in Threads, b \in UserBlocks : Pin(t, b)
  BY <1>2 DEF Pin
<1>3. ASSUME NEW t \in Threads, CreateMappingThrows(t) \/ Insert(t) \/ Fails(t)
      PROVE  /\ memoryBlocksMapped' \subseteq memoryBlocksMapped \cup UserBlocks
             /\ pinned' \subseteq pinned \cup UserBlocks
  <2>1. mapping[t] \subseteq UserBlocks
    BY DEF CardTypeOK
  <2> QED
    BY <1>3, <2>1 DEF CreateMappingThrows, Insert, Fails
<1>4. CASE ApiCall \/ ApiInitFails \/ ApiDestroy \/ ControlC
  BY <1>4 DEF ApiCall, ApiInitFails, ApiDestroy, ControlC
<1> QED
  BY <1>1, <1>2, <1>3, <1>4 DEF UserStep

LEMMA TypesKeep ==
  ASSUME CoreInv, CoreInv', CardTypeOK, [CardNext]_<<vars, cardVars>>
  PROVE  CardTypeOK'
<1>1. /\ life \in {"find", "cores", "paths", "ctrl", "pipe", "api", "leaked",
                  "unwind", "stop", "clear", "gone"}
      /\ made \in {"none", "card", "null", "error"}
      /\ process \in {"runs", "exited", "segv", "hung", "terminated"}
      /\ doomed \in Seq(IPs)
      /\ dma \in [Dmas -> DmaState]
      /\ memoryBlocksMapped \subseteq Rings \cup UserBlocks
      /\ pinned \subseteq Rings \cup UserBlocks
      /\ paths \in 0 .. MaxPaths /\ MaxPaths \in Nat
  BY CardAssumption DEF CardTypeOK, CardAssumption
<1>2. TypeOK'
  BY CoreTypes DEF CoreInv
<1>p. ProgramTypes'
  BY ProgramTypesKeep
<1> USE <1>p DEF ProgramTypes
<1>3. /\ orderedIps \in Seq(IPs) /\ configuredIps \in Seq(IPs) /\ ips \in Seq(IPs)
      /\ Len(orderedIps) \in Nat /\ it \in Nat /\ it >= 1
  BY Reached
<1>4. NewDma \in DmaState
  BY DEF NewDma, DmaState
<1>5. CASE UNCHANGED <<vars, cardVars>>
  BY <1>1, <1>2, <1>5 DEF cardVars, ownVars, makeVars, CardTypeOK
<1>6. CASE NotFound \/ Found \/ NoIPs \/ PathFails
  BY <1>1, <1>2, <1>6 DEF NotFound, Found, NoIPs, PathFails, ownVars, makeVars, CardTypeOK
<1>7. CASE CoresDone \/ PathConnected
  <2>1. paths' \in 0 .. MaxPaths
    BY <1>1, <1>7 DEF CoresDone, PathConnected
  <2> QED
    BY <1>1, <1>2, <1>7, <2>1 DEF CoresDone, PathConnected, CardTypeOK
<1>8. CASE Made
  <2>1. life' \in {"ctrl", "pipe", "api"}
    BY <1>8, CardAssumption DEF Made, CardAssumption
  <2> QED
    BY <1>1, <1>2, <1>8, <2>1 DEF Made, CardTypeOK
<1>9. CASE Destruct
  <2>1. doomed' \in Seq(IPs)
    <3>1. doomed' = Tail(doomed) /\ doomed # <<>>
      BY <1>9 DEF Destruct
    <3> QED
      BY <1>1, <3>1, HeadTailProperties
  <2>2. UNCHANGED <<life, made, paths>>
    BY <1>9 DEF Destruct
  <2>3. DestructPlain \/ DestructDma
    BY <1>9 DEF Destruct
  <2>4. CASE DestructPlain
    BY <1>1, <1>2, <2>1, <2>2, <2>4 DEF DestructPlain, CardTypeOK
  <2>5. CASE DestructDma
    <3>1. process' \in {"hung", "runs", "terminated"}
      BY <2>5 DEF DestructDma
    <3>2. dma' \in [Dmas -> DmaState]
      BY <1>1, <1>4, <2>5 DEF DestructDma
    <3>3. memoryBlocksMapped' \subseteq memoryBlocksMapped /\ pinned' \subseteq pinned
      BY <2>5 DEF DestructDma, Unmap
    <3> QED
      BY <1>1, <1>2, <2>1, <2>2, <3>1, <3>2, <3>3 DEF CardTypeOK
  <2> QED
    BY <2>3, <2>4, <2>5
<1>10. CASE Unwound \/ Stop \/ UnmapRest
  BY <1>1, <1>2, <1>3, <1>10 DEF Unwound, Stop, UnmapRest, Unmap, ownVars, makeVars, CardTypeOK
<1>11. CASE CoreStep \/ CoreCrash \/ OtherInit
  BY <1>1, <1>2, <1>11 DEF CoreStep, CoreCrash, OtherInit, cardVars, ownVars, makeVars, CardTypeOK
<1>12. CASE CoreConfigError
  <2>1. orderedIps[it] \in IPs
    <3>1. it \in 1 .. Len(orderedIps)
      BY <1>3, <1>12 DEF CoreConfigError, ConfigError, Configuring
    <3> QED
      BY <1>3, <3>1, ElementOfSeq
  <2>2. <<orderedIps[it]>> \o configuredIps \in Seq(IPs)
    BY <1>3, <2>1, InFrontOf
  <2> QED
    BY <1>1, <1>2, <1>12, <2>2 DEF CoreConfigError, Unwind, CardTypeOK
<1>13. CASE OtherInitError
  <2>1. Pending \in Seq(IPs)
    BY <1>13, TheRest DEF OtherInitError
  <2> QED
    BY <1>1, <1>2, <1>13, <2>1 DEF OtherInitError, Unwind, CardTypeOK
<1>14. CASE DmaInit
  <2>1. PICK d : d = Current
    OBVIOUS
  <2>2. /\ d \in Dmas
        /\ dma' = [dma EXCEPT ![d] = [engine |-> TRUE, hwLock |-> FALSE, rx |-> d \in SgDmas,
                                      tx |-> d \in SgDmas]]
        /\ LET rings == IF d \in SgDmas THEN {Ring(d, "rx"), Ring(d, "tx")} ELSE {}
           IN /\ memoryBlocksMapped' = memoryBlocksMapped \cup rings
              /\ pinned' = pinned \cup rings
        /\ UNCHANGED <<life, made, process, doomed, paths>>
    BY <1>14, <2>1 DEF DmaInit
  <2>3. [engine |-> TRUE, hwLock |-> FALSE, rx |-> d \in SgDmas, tx |-> d \in SgDmas] \in DmaState
    BY DEF DmaState
  <2>4. dma' \in [Dmas -> DmaState]
    BY <1>1, <2>2, <2>3
  <2>5. memoryBlocksMapped' \subseteq Rings \cup UserBlocks /\ pinned' \subseteq Rings \cup UserBlocks
    <3>1. CASE d \in SgDmas
      BY <1>1, <2>2, <3>1, RingsOf
    <3>2. CASE d \notin SgDmas
      BY <1>1, <2>2, <3>2
    <3> QED
      BY <3>1, <3>2
  <2> QED
    BY <1>1, <1>2, <2>2, <2>4, <2>5 DEF CardTypeOK
<1>15. CASE DmaInitError
  <2>1. /\ Initializing /\ Current \in Dmas /\ Unwind(Pending)
        /\ UNCHANGED <<process, paths>>
    BY <1>15 DEF DmaInitError
  <2>2. Pending \in Seq(IPs)
    BY <2>1, TheRest
  <2>3. PICK f \in IF NoTranslation(Current) THEN {Failure(NewDma, {}, {})}
                   ELSE DmaFailures(Current) :
               /\ dma' = [dma EXCEPT ![Current] = f.state]
               /\ pinned' = pinned \cup f.pinned
               /\ memoryBlocksMapped' = memoryBlocksMapped \cup f.mapped
    BY <1>15 DEF DmaInitError
  <2>4. f.state \in DmaState /\ f.pinned \subseteq Rings /\ f.mapped \subseteq Rings
    <3>1. CASE NoTranslation(Current)
      BY <1>4, <2>3, <3>1, FailureTyped
    <3>2. CASE ~ NoTranslation(Current)
      BY <2>1, <2>3, <3>2, FailuresTyped
    <3> QED
      BY <3>1, <3>2
  <2>5. dma' \in [Dmas -> DmaState]
    BY <1>1, <2>3, <2>4
  <2>6. memoryBlocksMapped' \subseteq Rings \cup UserBlocks /\ pinned' \subseteq Rings \cup UserBlocks
    BY <1>1, <2>3, <2>4
  <2> QED
    BY <1>1, <1>2, <2>1, <2>2, <2>5, <2>6 DEF Unwind, CardTypeOK
<1>16. CASE UserStep
  <2>1. /\ life' \in {life, "stop", "leaked"} /\ UNCHANGED <<made, doomed, dma, paths>>
        /\ process' \in {"runs", "exited", "segv", "terminated"}
    BY <1>16, UserEffect
  <2>2. memoryBlocksMapped' \subseteq Rings \cup UserBlocks /\ pinned' \subseteq Rings \cup UserBlocks
    BY <1>1, <1>16, UserMaps
  <2> QED
    BY <1>1, <1>2, <2>1, <2>2 DEF CardTypeOK
<1> QED
  BY <1>5, <1>6, <1>7, <1>8, <1>9, <1>10, <1>11, <1>12, <1>13, <1>14, <1>15, <1>16
  DEF CardNext, Machinery

(* ---- The engines *)
LEMMA StaysHealthy ==
  ASSUME NEW mapped, NEW more, mapped \subseteq more, NEW engines, NEW d, Healthy(engines, mapped, d)
  PROVE  Healthy(engines, more, d)
  BY DEF Healthy

LEMMA CardHasEachOnce ==
  ASSUME CoreInv, pc = "done"
  PROVE  \A k, l \in 1 .. Len(ips) : ips[k] = ips[l] => k = l
<1>1. /\ Kept(ips, orderedIps, Len(orderedIps)) /\ ips \in Seq(IPs)
  BY Reached DEF CoreInv, Configurations, Initializations
<1> SUFFICES ASSUME NEW k \in 1 .. Len(ips), NEW l \in 1 .. Len(ips), ips[k] = ips[l]
             PROVE  k = l
  OBVIOUS
<1>2. ips[k] \in IPs /\ Len(ips) \in Nat /\ Len(orderedIps) \in Nat
  BY <1>1, Reached, ElementOfSeq
<1>3. PICK m \in 1 .. Len(orderedIps) : orderedIps[m] = ips[k]
  BY <1>1, <1>2 DEF Kept
<1>4. ~ (k < l) /\ ~ (l < k)
  <2>1. ~ (m < m)
    BY <1>2
  <2> QED
    BY <1>1, <1>3, <2>1 DEF Kept
<1> QED
  BY <1>2, <1>4

(* ~Dma() of a healthy engine unmaps its own rings, and those only.        *)
LEMMA DestructsHealthy ==
  ASSUME CardTypeOK, doomed # <<>>, Destruct,
         \A k \in 1 .. Len(doomed) : Healthy(dma, memoryBlocksMapped, doomed[k]),
         \A k, l \in 1 .. Len(doomed) : doomed[k] = doomed[l] => k = l
  PROVE  /\ process' = "runs"
         /\ \A k \in 1 .. Len(doomed') : Healthy(dma', memoryBlocksMapped', doomed'[k])
         /\ \A k, l \in 1 .. Len(doomed') : doomed'[k] = doomed'[l] => k = l
<1> PICK d : d = Head(doomed)
  OBVIOUS
<1>1. doomed \in Seq(IPs) /\ dma \in [Dmas -> DmaState] /\ doomed' = Tail(doomed)
  BY DEF CardTypeOK, Destruct
<1>2. /\ Len(doomed) \in Nat /\ 1 \in 1 .. Len(doomed) /\ d = doomed[1]
      /\ Len(doomed') = Len(doomed) - 1
      /\ \A k \in 1 .. Len(doomed) - 1 : doomed'[k] = doomed[k + 1]
  <2>1. d = doomed[1]
    BY <1>1, HeadTailProperties
  <2>2. /\ Len(doomed') = Len(doomed) - 1
        /\ \A k \in 1 .. Len(doomed') : doomed'[k] = doomed[k + 1]
    BY <1>1, HeadTailProperties
  <2>3. Len(doomed) \in Nat /\ Len(doomed) # 0
    BY <1>1, LenProperties, EmptySeq
  <2> QED
    BY <2>1, <2>2, <2>3
<1>3. \A k \in 1 .. Len(doomed') : /\ k \in Nat /\ k + 1 \in 1 .. Len(doomed)
                                  /\ doomed'[k] = doomed[k + 1] /\ doomed'[k] # d
  <2> SUFFICES ASSUME NEW k \in 1 .. Len(doomed')
               PROVE  /\ k \in Nat /\ k + 1 \in 1 .. Len(doomed)
                      /\ doomed'[k] = doomed[k + 1] /\ doomed'[k] # d
    OBVIOUS
  <2>1. k \in Nat /\ k + 1 \in 1 .. Len(doomed) /\ doomed'[k] = doomed[k + 1] /\ k + 1 # 1
    BY <1>2
  <2> QED
    BY <1>2, <2>1
<1>4. Healthy(dma, memoryBlocksMapped, d)
  BY <1>2
<1>5. \A k, l \in 1 .. Len(doomed') : doomed'[k] = doomed'[l] => k = l
  <2> SUFFICES ASSUME NEW k \in 1 .. Len(doomed'), NEW l \in 1 .. Len(doomed'),
                      doomed'[k] = doomed'[l]
               PROVE  k = l
    OBVIOUS
  <2>1. k + 1 = l + 1
    BY <1>3
  <2> QED
    BY <1>3, <2>1
<1>6. DestructPlain \/ DestructDma
  BY DEF Destruct
<1>7. CASE d \notin Dmas
  <2>1. DestructPlain
    BY <1>6, <1>7 DEF DestructDma
  <2>2. process' = "runs" /\ UNCHANGED <<dma, memoryBlocksMapped>>
    BY <1>7, <2>1 DEF DestructPlain
  <2>3. \A k \in 1 .. Len(doomed') : Healthy(dma', memoryBlocksMapped', doomed'[k])
    BY <1>3, <2>2, StaysHealthy
  <2> QED
    BY <1>5, <2>2, <2>3
<1>8. CASE d \in Dmas
  <2>1. /\ dma[d].engine /\ dma[d].hwLock = FALSE
        /\ dma[d].rx <=> d \in SgDmas
        /\ dma[d].tx <=> d \in SgDmas
    <3> PICK sg : sg = (d \in SgDmas)
      OBVIOUS
    <3>1. dma[d] = [engine |-> TRUE, hwLock |-> FALSE, rx |-> sg, tx |-> sg]
      BY <1>4, <1>8, Zenon DEF Healthy
    <3>2. /\ dma[d].engine = TRUE /\ dma[d].hwLock = FALSE
          /\ dma[d].rx = sg /\ dma[d].tx = sg
      BY <3>1
    <3> QED
      BY <3>2, Zenon
  <2>2. DestructDma
    BY <1>6, <1>8, <2>1 DEF DestructPlain
  <2>3. Owned(d) = IF d \in SgDmas THEN {Ring(d, "rx"), Ring(d, "tx")} ELSE {}
    <3>1. CASE d \in SgDmas
      <4>1. Owned(d) = {Ring(d, side) : side \in {"rx"} \cup {"tx"}}
        BY <2>1, <3>1 DEF Owned
      <4>2. {Ring(d, side) : side \in {"rx"} \cup {"tx"}} = {Ring(d, "rx"), Ring(d, "tx")}
        OBVIOUS
      <4> QED
        BY <3>1, <4>1, <4>2
    <3>2. CASE d \notin SgDmas
      <4>1. Owned(d) = {Ring(d, side) : side \in {}}
        BY <2>1, <3>2 DEF Owned
      <4>2. {Ring(d, side) : side \in {}} = {}
        OBVIOUS
      <4> QED
        BY <3>2, <4>1, <4>2
    <3> QED
      BY <3>1, <3>2
  <2>4. Owned(d) \subseteq memoryBlocksMapped
    BY <1>4, <1>8, <2>3 DEF Healthy
  <2>5. /\ memoryBlocksMapped' = memoryBlocksMapped \ Owned(d)
        /\ process' = "runs"
        /\ dma' = [dma EXCEPT ![d] = NewDma]
    BY <2>1, <2>2, <2>4 DEF DestructDma, Unmap
  <2>6. ASSUME NEW k \in 1 .. Len(doomed') PROVE Healthy(dma', memoryBlocksMapped', doomed'[k])
    <3> PICK e : e = doomed'[k]
      OBVIOUS
    <3>1. e # d /\ Healthy(dma, memoryBlocksMapped, e)
      BY <1>3
    <3>2. CASE e \notin Dmas
      BY <3>2 DEF Healthy
    <3>3. CASE e \in Dmas
      <4>1. dma'[e] = dma[e]
        BY <1>1, <2>5, <3>1, <3>3
      <4>2. Ring(e, "rx") \notin Owned(d) /\ Ring(e, "tx") \notin Owned(d)
        BY <2>3, <3>1 DEF Ring
      <4> QED
        BY <2>5, <3>1, <3>3, <4>1, <4>2 DEF Healthy
    <3> QED
      BY <3>2, <3>3
  <2> QED
    BY <1>5, <2>5, <2>6
<1> QED
  BY <1>7, <1>8

LEMMA EnginesKeep ==
  ASSUME CardInv, [CardNext]_<<vars, cardVars>>
  PROVE  Engines'
<1>1. CoreInv /\ CardTypeOK /\ Phases /\ Engines
  BY DEF CardInv
<1>2. ips \in Seq(IPs) /\ Len(ips) \in Nat /\ dma \in [Dmas -> DmaState]
  BY <1>1, Reached DEF CardTypeOK
<1>3. ASSUME ips' = ips, dma' = dma, memoryBlocksMapped \subseteq memoryBlocksMapped',
             life \in {"cores", "paths"} \/ (made = "card" /\ life \notin {"clear", "gone"})
      PROVE  \A k \in 1 .. Len(ips') : Healthy(dma', memoryBlocksMapped', ips'[k])
  BY <1>1, <1>3, StaysHealthy DEF Engines
<1>4. CASE UNCHANGED <<vars, cardVars>>
  BY <1>1, <1>4 DEF vars, cardVars, ownVars, makeVars, Engines, Healthy
<1>5. CASE NotFound \/ NoIPs \/ PathFails
  BY <1>5 DEF NotFound, NoIPs, PathFails, Engines
<1>6. CASE Found
  <2>1. ips' = <<>> /\ life' = "cores"
    BY <1>1, <1>6 DEF Found, Runs, Phases, CoreInv, Lists, vars
  <2>2. \A k \in 1 .. Len(<<>>) : FALSE
    BY EmptySeq
  <2> QED
    BY <2>1, <2>2 DEF Engines
<1>7. CASE CoresDone \/ PathConnected \/ Made
  <2>1. /\ life \in {"cores", "paths"} /\ ips' = ips /\ dma' = dma
        /\ memoryBlocksMapped' = memoryBlocksMapped
    BY <1>7 DEF CoresDone, PathConnected, Made, Runs, vars
  <2>2. life' # "clear"
    BY <1>7, CardAssumption DEF CoresDone, PathConnected, Made, Runs, CardAssumption
  <2> QED
    BY <1>3, <2>1, <2>2 DEF Engines
<1>8. CASE CoreStep \/ CoreCrash
  <2>1. life = "cores" /\ life' = life /\ dma' = dma /\ memoryBlocksMapped' = memoryBlocksMapped
    BY <1>8 DEF CoreStep, CoreCrash, Runs, cardVars, ownVars, makeVars
  <2>2. ips' = ips
    BY <1>8 DEF CoreStep, CoreCrash, Pick, Skip, NextVlnv, Splice, Unsupported, Configure,
       Configured, Initialized, Crash
  <2> QED
    BY <1>3, <2>1, <2>2 DEF Engines
<1>9. CASE CoreConfigError \/ OtherInitError \/ DmaInitError
  BY <1>9 DEF CoreConfigError, OtherInitError, DmaInitError, Unwind, Engines
<1>10. CASE OtherInit \/ DmaInit
  <2> PICK d : d = Current
    OBVIOUS
  <2>1. life = "cores" /\ life' = "cores" /\ Initializing /\ ips' = Append(ips, d)
    BY <1>10 DEF OtherInit, DmaInit, Initialize, Current, Runs, cardVars, ownVars, makeVars
  <2>2. d \in IPs
    BY <1>1, <2>1, TheRest
  <2>3. /\ Len(ips') = Len(ips) + 1
        /\ \A k \in 1 .. Len(ips) : ips'[k] = ips[k]
        /\ ips'[Len(ips) + 1] = d
    BY <1>2, <2>1, <2>2, Appended
  <2>4. \A k \in 1 .. Len(ips) : Healthy(dma, memoryBlocksMapped, ips[k])
    BY <1>1, <2>1 DEF Engines
  <2>5. /\ Healthy(dma', memoryBlocksMapped', d)
        /\ \A e : e # d /\ Healthy(dma, memoryBlocksMapped, e)
                    => Healthy(dma', memoryBlocksMapped', e)
    <3>1. CASE OtherInit
      <4>1. dma' = dma /\ memoryBlocksMapped' = memoryBlocksMapped /\ d \notin Dmas
        BY <3>1 DEF OtherInit, cardVars, ownVars, makeVars
      <4> QED
        BY <4>1, StaysHealthy DEF Healthy
    <3>2. CASE DmaInit
      <4>1. /\ d \in Dmas
            /\ dma' = [dma EXCEPT ![d] = [engine |-> TRUE, hwLock |-> FALSE, rx |-> d \in SgDmas,
                                          tx |-> d \in SgDmas]]
            /\ memoryBlocksMapped' =
                 memoryBlocksMapped \cup IF d \in SgDmas THEN {Ring(d, "rx"), Ring(d, "tx")} ELSE {}
        BY <3>2 DEF DmaInit
      <4>2. /\ memoryBlocksMapped \subseteq memoryBlocksMapped'
            /\ d \in SgDmas => /\ Ring(d, "rx") \in memoryBlocksMapped'
                               /\ Ring(d, "tx") \in memoryBlocksMapped'
        BY <4>1
      <4>3. Healthy(dma', memoryBlocksMapped', d)
        <5>1. dma'[d] = [engine |-> TRUE, hwLock |-> FALSE, rx |-> d \in SgDmas, tx |-> d \in SgDmas]
          BY <1>2, <4>1
        <5> QED
          BY <4>2, <5>1 DEF Healthy
      <4>4. ASSUME NEW e, e # d, Healthy(dma, memoryBlocksMapped, e)
            PROVE  Healthy(dma', memoryBlocksMapped', e)
        <5>1. e \in Dmas => dma'[e] = dma[e]
          BY <1>2, <4>1, <4>4
        <5> QED
          BY <4>2, <4>4, <5>1 DEF Healthy
      <4> QED
        BY <4>3, <4>4
    <3> QED
      BY <1>10, <3>1, <3>2
  <2>6. ASSUME NEW k \in 1 .. Len(ips') PROVE Healthy(dma', memoryBlocksMapped', ips'[k])
    <3>1. k \in 1 .. Len(ips) \/ k = Len(ips) + 1
      BY <1>2, <2>3
    <3>2. CASE ips'[k] = d
      BY <2>5, <3>2
    <3>3. CASE ips'[k] # d
      <4>1. Healthy(dma, memoryBlocksMapped, ips'[k]) /\ ips'[k] # d
        BY <2>3, <2>4, <3>1, <3>3
      <4> PICK e : e = ips'[k]
        OBVIOUS
      <4>2. Healthy(dma', memoryBlocksMapped', e)
        BY <2>5, <4>1
      <4> QED
        BY <4>2
    <3> QED
      BY <3>2, <3>3
  <2> QED
    BY <2>1, <2>6 DEF Engines
<1>11. CASE Destruct
  <2>1. /\ life \in {"unwind", "clear"} /\ life' = life /\ made' = made /\ doomed # <<>>
    BY <1>11 DEF Destruct, Runs
  <2>2. CASE made = "card"
    <3>1. life = "clear"
      BY <1>1, <2>1, <2>2 DEF Phases
    <3>2. /\ \A k \in 1 .. Len(doomed) : Healthy(dma, memoryBlocksMapped, doomed[k])
          /\ \A k, l \in 1 .. Len(doomed) : doomed[k] = doomed[l] => k = l
      BY <1>1, <2>2, <3>1 DEF Engines
    <3>3. /\ \A k \in 1 .. Len(doomed') : Healthy(dma', memoryBlocksMapped', doomed'[k])
          /\ \A k, l \in 1 .. Len(doomed') : doomed'[k] = doomed'[l] => k = l
      BY <1>1, <1>11, <2>1, <3>2, DestructsHealthy
    <3> QED
      BY <2>1, <3>1, <3>3 DEF Engines
  <2>3. CASE made # "card"
    BY <2>1, <2>3 DEF Engines
  <2> QED
    BY <2>2, <2>3
<1>12. CASE Unwound
  BY <1>1, <1>12 DEF Unwound, Runs, Phases, ownVars, makeVars, Engines
<1>13. CASE Stop
  <2>1. /\ life = "stop" /\ life' = "clear" /\ made' = made /\ doomed' = ips
        /\ dma' = dma /\ memoryBlocksMapped' = memoryBlocksMapped
    BY <1>13 DEF Stop, Runs
  <2>2. CASE made = "card"
    <3>1. \A k \in 1 .. Len(ips) : Healthy(dma, memoryBlocksMapped, ips[k])
      BY <1>1, <2>1, <2>2 DEF Engines
    <3>2. \A k, l \in 1 .. Len(ips) : ips[k] = ips[l] => k = l
      BY <1>1, <2>2, CardHasEachOnce DEF Phases
    <3>3. \A k \in 1 .. Len(doomed') : Healthy(dma', memoryBlocksMapped', doomed'[k])
      BY <2>1, <3>1, StaysHealthy
    <3> QED
      BY <2>1, <3>2, <3>3 DEF Engines
  <2>3. CASE made # "card"
    BY <2>1, <2>3 DEF Engines
  <2> QED
    BY <2>2, <2>3
<1>14. CASE UnmapRest
  BY <1>14 DEF UnmapRest, Engines
<1>15. CASE UserStep
  <2>1. /\ life \in {"ctrl", "pipe", "api"} /\ life' \in {life, "stop", "leaked"}
        /\ made' = made /\ dma' = dma /\ ips' = ips /\ memoryBlocksMapped \subseteq memoryBlocksMapped'
    BY <1>15, UserEffect DEF vars
  <2> QED
    BY <1>3, <2>1 DEF Engines
<1> QED
  BY <1>4, <1>5, <1>6, <1>7, <1>8, <1>9, <1>10, <1>11, <1>12, <1>13, <1>14, <1>15
  DEF CardNext, Machinery

LEMMA TeardownKeeps ==
  ASSUME CardInv, [CardNext]_<<vars, cardVars>>
  PROVE  CleanTeardown'
<1>1. CardTypeOK /\ Phases /\ Engines /\ CleanTeardown
  BY DEF CardInv
<1>2. CASE UNCHANGED <<vars, cardVars>>
  BY <1>1, <1>2 DEF cardVars, ownVars, makeVars, CleanTeardown
<1>3. CASE NotFound \/ Found \/ NoIPs \/ CoresDone \/ PathConnected \/ PathFails \/ Made
  <2>1. process' = "runs"
    BY <1>3 DEF NotFound, Found, NoIPs, CoresDone, PathConnected, PathFails, Made, Runs, ownVars, makeVars
  <2> QED
    BY <2>1 DEF CleanTeardown
<1>4. CASE CoreStep \/ OtherInit \/ DmaInit
  <2>1. process' = "runs"
    BY <1>4 DEF CoreStep, OtherInit, DmaInit, Runs, cardVars, ownVars, makeVars
  <2> QED
    BY <2>1 DEF CleanTeardown
<1>5. CASE CoreConfigError \/ OtherInitError \/ DmaInitError
  <2>1. process' = "runs"
    BY <1>5 DEF CoreConfigError, OtherInitError, DmaInitError, Runs
  <2> QED
    BY <2>1 DEF CleanTeardown
<1>6. CASE CoreCrash
  BY <1>1, <1>6 DEF CoreCrash, Runs, Phases, CleanTeardown
<1>7. CASE Destruct
  <2>1. CASE made = "card"
    <3>1. life = "clear" /\ doomed # <<>>
      BY <1>1, <1>7, <2>1 DEF Destruct, Runs, Phases
    <3>2. /\ \A k \in 1 .. Len(doomed) : Healthy(dma, memoryBlocksMapped, doomed[k])
          /\ \A k, l \in 1 .. Len(doomed) : doomed[k] = doomed[l] => k = l
      BY <1>1, <2>1, <3>1 DEF Engines
    <3>3. process' = "runs"
      BY <1>1, <1>7, <3>1, <3>2, DestructsHealthy
    <3> QED
      BY <3>3 DEF CleanTeardown
  <2>2. CASE made # "card"
    BY <1>7, <2>2 DEF Destruct, CleanTeardown
  <2> QED
    BY <2>1, <2>2
<1>8. CASE Unwound \/ Stop \/ UnmapRest
  <2>1. process' = "runs"
    BY <1>8 DEF Unwound, Stop, UnmapRest, Runs, ownVars, makeVars
  <2> QED
    BY <2>1 DEF CleanTeardown
<1>9. CASE UserStep
  <2>1. life' \in {"stop", "clear", "gone"} => process' = "runs"
    BY <1>9, UserEffect
  <2> QED
    BY <2>1 DEF CleanTeardown
<1> QED
  BY <1>2, <1>3, <1>4, <1>5, <1>6, <1>7, <1>8, <1>9 DEF CardNext, Machinery

(* ---- The blocks of the program *)

(* Only an engine of the card is handed a block.                           *)
LEMMA PostedHere ==
  ASSUME CardTypeOK, ips \in Seq(IPs), UserStep, NEW d \in Dmas
  PROVE  posted'[d] = posted[d] \/ \E k \in 1 .. Len(ips) : ips[k] = d
<1> USE DEF useVars, makeVars, ownVars, programVars
<1>1. CASE StartReader \/ Leave \/ \E b \in UserBlocks : Allocate(b)
  BY <1>1 DEF StartReader, Leave, Allocate
<1>2. ASSUME NEW e \in Dmas, NEW b \in UserBlocks, Post(e, b)
      PROVE  posted'[d] = posted[d] \/ \E k \in 1 .. Len(ips) : ips[k] = d
  <2>1. posted' = [posted EXCEPT ![e] = posted[e] \cup {b}] /\ e \in ToSet(ips)
    BY <1>2 DEF Post
  <2>2. \E k \in 1 .. Len(ips) : ips[k] = e
    BY <2>1, LenProperties DEF ToSet
  <2>3. e # d => posted'[d] = posted[d]
    BY <2>1 DEF CardTypeOK
  <2> QED
    BY <2>2, <2>3
<1>3. ASSUME NEW t \in Threads,
             CreateMappingThrows(t) \/ Insert(t) \/ Fails(t) \/ \E b \in UserBlocks : Pin(t, b)
      PROVE  posted' = posted
  BY <1>3 DEF CreateMappingThrows, Insert, Fails, Pin
<1>4. CASE ApiCall \/ ApiInitFails \/ ApiDestroy \/ ControlC
  BY <1>4 DEF ApiCall, ApiInitFails, ApiDestroy, ControlC
<1> QED
  BY <1>1, <1>2, <1>3, <1>4 DEF UserStep

LEMMA OwnedAreRings ==
  ASSUME NEW d \in Dmas
  PROVE  Owned(d) \cap UserBlocks = {}
<1>1. \A b \in Owned(d) : b \in Dmas \X {"rx", "tx"}
  BY DEF Owned, Ring
<1> QED
  BY <1>1, CardAssumption DEF CardAssumption

(* What the machinery does to an engine that was handed blocks, and to     *)
(* those blocks                                                            *)
LEMMA PostersKeep ==
  ASSUME CardInv, [CardNext]_<<vars, cardVars>>
  PROVE  Posters'
<1>1. CoreInv /\ CardTypeOK /\ Phases /\ Engines /\ Posters
  BY DEF CardInv
<1>2. ips \in Seq(IPs) /\ doomed \in Seq(IPs) /\ dma \in [Dmas -> DmaState]
  BY <1>1, Reached DEF CardTypeOK
<1>3. CASE UNCHANGED <<vars, cardVars>>
  BY <1>1, <1>3 DEF vars, cardVars, ownVars, makeVars, programVars, Posters
<1>4. CASE UserStep
  <2>1. /\ life \in {"ctrl", "pipe", "api"} /\ life' \in {life, "stop", "leaked"}
        /\ made' = made /\ ips' = ips /\ made = "card"
    BY <1>1, <1>4, UserEffect DEF vars, Phases
  <2>2. ASSUME NEW d \in Dmas
        PROVE  posted'[d] = posted[d] \/ \E k \in 1 .. Len(ips) : ips[k] = d
    BY <1>1, <1>2, <1>4, PostedHere
  <2> QED
    BY <1>1, <2>1, <2>2 DEF Posters
<1> SUFFICES ASSUME Machinery, NEW d \in Dmas, posted[d] # {}
             PROVE  /\ made' = "card"
                    /\ life' \notin {"clear", "gone"} => \E k \in 1 .. Len(ips') : ips'[k] = d
                    /\ life' = "clear" /\ dma'[d].engine =>
                         \E k \in 1 .. Len(doomed') : doomed'[k] = d
                    /\ life' = "gone" => ~ dma'[d].engine
  BY <1>3, <1>4, MachineryEffect DEF CardNext, programVars, Posters
<1>5. /\ made = "card" /\ life \notin {"find", "cores", "paths", "unwind"}
      /\ life \notin {"clear", "gone"} => \E k \in 1 .. Len(ips) : ips[k] = d
      /\ life = "clear" /\ dma[d].engine => \E k \in 1 .. Len(doomed) : doomed[k] = d
  BY <1>1 DEF Posters, Phases
<1>6. Destruct \/ Stop \/ UnmapRest
  BY <1>5 DEF Machinery, NotFound, Found, CoreStep, CoreCrash, CoreConfigError, OtherInit,
     OtherInitError, DmaInit, DmaInitError, NoIPs, CoresDone, PathConnected, PathFails, Made,
     Unwound, Runs
<1>7. CASE Stop
  BY <1>5, <1>7 DEF Stop, Runs
<1>8. CASE UnmapRest
  <2>1. \A k \in 1 .. Len(<<>>) : FALSE
    BY EmptySeq
  <2> QED
    BY <1>5, <1>8, <2>1 DEF UnmapRest, Runs
<1>9. CASE Destruct
  <2>1. /\ life = "clear" /\ life' = life /\ made' = made /\ doomed # <<>> /\ doomed' = Tail(doomed)
    BY <1>5, <1>9 DEF Destruct, Runs
  <2>2. /\ \A k \in 1 .. Len(doomed) : Healthy(dma, memoryBlocksMapped, doomed[k])
        /\ \A k, l \in 1 .. Len(doomed) : doomed[k] = doomed[l] => k = l
    BY <1>1, <1>5, <2>1 DEF Engines
  <2>3. process' = "runs"
    BY <1>1, <1>9, <2>1, <2>2, DestructsHealthy
  <2>4. ASSUME dma'[d].engine
        PROVE  \E k \in 1 .. Len(doomed') : doomed'[k] = d
    <3>1. d # Head(doomed)
      <4>1. ASSUME d = Head(doomed) PROVE ~ dma'[d].engine
        <5>1. CASE DestructPlain
          BY <4>1, <5>1 DEF DestructPlain
        <5>2. CASE DestructDma
          BY <1>2, <2>3, <4>1, <5>2 DEF DestructDma, NewDma
        <5> QED
          BY <1>9, <5>1, <5>2 DEF Destruct
      <4> QED
        BY <2>4, <4>1
    <3>2. dma[d].engine
      BY <1>2, <1>9, <2>4, <3>1 DEF Destruct, DestructPlain, DestructDma
    <3>3. PICK k \in 1 .. Len(doomed) : doomed[k] = d
      BY <1>5, <2>1, <3>2
    <3>4. /\ Head(doomed) = doomed[1] /\ Len(doomed) \in Nat /\ Len(doomed') = Len(doomed) - 1
          /\ \A l \in 1 .. Len(doomed') : doomed'[l] = doomed[l + 1]
      BY <1>2, <2>1, HeadTailProperties
    <3>5. k # 1
      BY <3>1, <3>3, <3>4
    <3>6. k - 1 \in 1 .. Len(doomed') /\ (k - 1) + 1 = k
      BY <3>4, <3>5
    <3> QED
      BY <3>3, <3>4, <3>6
  <2> QED
    BY <1>5, <2>1, <2>4
<1> QED
  BY <1>6, <1>7, <1>8, <1>9

(* Blocks that are neither rings nor otherwise an engine's own stay mapped *)
(* while the machinery runs, up to the end of ~Card().                     *)
LEMMA MachineryMaps ==
  ASSUME CardTypeOK, CoreInv, Machinery
  PROVE  \/ UnmapRest
         \/ /\ pinned' \cap UserBlocks = pinned \cap UserBlocks
            /\ memoryBlocksMapped' \cap UserBlocks = memoryBlocksMapped \cap UserBlocks
<1> USE DEF ownVars, makeVars, cardVars, Runs
<1>0. UserBlocks \cap Rings = {}
  BY CardAssumption DEF CardAssumption, Rings, Ring
<1>1. CASE NotFound \/ Found \/ NoIPs \/ CoresDone \/ PathConnected \/ PathFails \/ Made
  BY <1>1 DEF NotFound, Found, NoIPs, CoresDone, PathConnected, PathFails, Made
<1>2. CASE CoreStep \/ CoreCrash \/ CoreConfigError \/ OtherInit \/ OtherInitError
  BY <1>2 DEF CoreStep, CoreCrash, CoreConfigError, OtherInit, OtherInitError
<1>3. CASE Unwound \/ Stop
  BY <1>3 DEF Unwound, Stop
<1>4. CASE DmaInit
  <2>1. PICK rings : /\ rings = IF Current \in SgDmas THEN {Ring(Current, "rx"), Ring(Current, "tx")}
                                ELSE {}
                     /\ memoryBlocksMapped' = memoryBlocksMapped \cup rings
                     /\ pinned' = pinned \cup rings
    BY <1>4 DEF DmaInit
  <2>2. rings \subseteq Rings
    BY <2>1, RingsOf
  <2> QED
    BY <1>0, <2>1, <2>2
<1>5. CASE DmaInitError
  <2>1. PICK f \in IF NoTranslation(Current) THEN {Failure(NewDma, {}, {})}
                   ELSE DmaFailures(Current) :
               /\ pinned' = pinned \cup f.pinned
               /\ memoryBlocksMapped' = memoryBlocksMapped \cup f.mapped
    BY <1>5 DEF DmaInitError
  <2>2. f.pinned \subseteq Rings /\ f.mapped \subseteq Rings
    <3>1. CASE NoTranslation(Current)
      BY <2>1, <3>1 DEF Failure
    <3>2. CASE ~ NoTranslation(Current)
      BY <1>5, <2>1, <3>2, FailuresTyped DEF DmaInitError
    <3> QED
      BY <3>1, <3>2
  <2> QED
    BY <1>0, <2>1, <2>2
<1>6. CASE Destruct
  <2>1. CASE DestructPlain
    BY <2>1 DEF DestructPlain
  <2>2. CASE DestructDma
    <3>1. PICK d \in Dmas : \/ UNCHANGED <<memoryBlocksMapped, pinned>>
                            \/ Owned(d) \subseteq memoryBlocksMapped /\ Unmap(Owned(d))
      BY <2>2 DEF DestructDma
    <3>2. CASE UNCHANGED <<memoryBlocksMapped, pinned>>
      BY <3>2
    <3>3. CASE Owned(d) \subseteq memoryBlocksMapped /\ Unmap(Owned(d))
      <4>1. Owned(d) \cap UserBlocks = {}
        BY OwnedAreRings
      <4>2. PICK gone : /\ gone \subseteq Owned(d)
                        /\ memoryBlocksMapped' = memoryBlocksMapped \ Owned(d)
                        /\ pinned' = pinned \ gone
        BY <3>3 DEF Unmap
      <4> QED
        BY <4>1, <4>2
    <3> QED
      BY <3>1, <3>2, <3>3
  <2> QED
    BY <1>6, <2>1, <2>2 DEF Destruct
<1> QED
  BY <1>1, <1>2, <1>3, <1>4, <1>5, <1>6 DEF Machinery

LEMMA RememberedKeeps ==
  ASSUME CardInv, [CardNext]_<<vars, cardVars>>
  PROVE  Remembered'
<1>1. CoreInv /\ CardTypeOK /\ Phases /\ Remembered /\ mapping \in [Threads -> SUBSET UserBlocks]
  BY DEF CardInv, CardTypeOK
<1>2. CASE UNCHANGED <<vars, cardVars>>
  BY <1>1, <1>2 DEF cardVars, ownVars, makeVars, programVars, Remembered, Using
<1>3. CASE Machinery
  <2>1. process = "runs" /\ reader' = reader /\ mapping' = mapping
    BY <1>3, MachineryEffect DEF programVars
  <2>2. life \notin {"ctrl", "pipe"}
    BY <1>3 DEF Machinery, NotFound, Found, CoreStep, CoreCrash, CoreConfigError, OtherInit,
       OtherInitError, DmaInit, DmaInitError, NoIPs, CoresDone, PathConnected, PathFails, Made,
       Destruct, Unwound, Stop, UnmapRest, Runs
  <2>3. life' \in {"find", "cores", "paths", "ctrl", "pipe"} => life \in {"find", "cores", "paths"}
    BY <1>3, <2>2 DEF Machinery, NotFound, Found, CoreStep, CoreCrash, CoreConfigError, OtherInit,
       OtherInitError, DmaInit, DmaInitError, NoIPs, CoresDone, PathConnected, PathFails, Made,
       Destruct, Unwound, Stop, UnmapRest, Runs, Unwind, cardVars, ownVars
  <2>4. life' # "gone" => pinned' \cap UserBlocks = pinned \cap UserBlocks
    BY <1>1, <1>3, MachineryMaps DEF UnmapRest
  <2> QED
    BY <1>1, <2>1, <2>2, <2>3, <2>4 DEF Remembered, Using
<1>4. CASE UserStep
  <2> USE DEF useVars, makeVars, ownVars, programVars
  <2> DEFINE Done == /\ reader' => life' = "ctrl"
                     /\ ~ reader' => mapping'["reader"] = {}
                     /\ Using' /\ ~ reader' =>
                          pinned' \cap UserBlocks \subseteq memoryBlocksMapped' \cup mapping'["main"]
  <2>0. "main" \in Threads /\ "reader" \in Threads /\ \A t \in Threads : t \in {"main", "reader"}
    BY DEF Threads
  <2>1. /\ reader => life = "ctrl"
        /\ ~ reader => mapping["reader"] = {}
        /\ Using /\ ~ reader =>
             pinned \cap UserBlocks \subseteq memoryBlocksMapped \cup mapping["main"]
    BY <1>1 DEF Remembered
  <2>2. ASSUME StartReader PROVE Done
    BY <2>1, <2>2 DEF StartReader
  <2>3. ASSUME \E b \in UserBlocks : Allocate(b) \/ \E d \in Dmas : Post(d, b)
        PROVE  Done
    <3>1. UNCHANGED <<life, process, pinned, memoryBlocksMapped, reader, mapping>>
      BY <2>3 DEF Allocate, Post
    <3> QED
      BY <2>1, <3>1 DEF Using
  <2>4. ASSUME NEW t \in Threads, NEW b \in UserBlocks, Pin(t, b)
        PROVE  Done
    <3>1. /\ UNCHANGED <<life, process, memoryBlocksMapped, reader>>
          /\ pinned' = pinned \cup {b} /\ mapping[t] = {}
          /\ mapping' = [mapping EXCEPT ![t] = {b}]
          /\ Using /\ (t = "reader" => reader)
      BY <2>4 DEF Pin, Active
    <3>2. /\ mapping'[t] = {b}
          /\ \A u \in Threads : u # t => mapping'[u] = mapping[u]
      BY <1>1, <3>1
    <3>3. ~ reader => t = "main" /\ mapping'["reader"] = mapping["reader"]
      BY <2>0, <3>1, <3>2
    <3> QED
      BY <2>1, <3>1, <3>2, <3>3 DEF Using
  <2>5. ASSUME NEW t \in Threads, Insert(t)
        PROVE  Done
    <3>1. /\ UNCHANGED <<life, pinned, reader>>
          /\ mapping' = [mapping EXCEPT ![t] = {}]
          /\ Using /\ (t = "reader" => reader)
          /\ Racing(t) \/ memoryBlocksMapped' = memoryBlocksMapped \cup mapping[t]
      BY <2>5 DEF Insert, Active
    <3>2. /\ mapping'[t] = {}
          /\ \A u \in Threads : u # t => mapping'[u] = mapping[u]
      BY <1>1, <3>1
    <3>3. ~ reader => t = "main" /\ mapping'["reader"] = {} /\ ~ Racing(t)
      BY <2>0, <2>1, <3>1, <3>2 DEF Racing
    <3> QED
      BY <2>1, <3>1, <3>2, <3>3
  <2>6. \A kind : Throws(kind) =>
          \/ life' = life /\ process' = "terminated"
          \/ life' = "stop" /\ ~ reader
    BY DEF Throws, Terminates, Unwinds
  <2>7. ASSUME NEW t \in Threads, CreateMappingThrows(t) \/ Fails(t)
        PROVE  Done
    <3>1. /\ reader' = reader
          /\ mapping' = mapping \/ mapping' = [mapping EXCEPT ![t] = {}]
          /\ \E kind \in Kinds : Throws(kind)
      BY <2>7 DEF CreateMappingThrows, Fails
    <3>2. ~ Using' /\ (reader => life' = life)
      BY <2>6, <3>1 DEF Using
    <3>3. mapping["reader"] = {} => mapping'["reader"] = {}
      BY <1>1, <2>0, <3>1
    <3> QED
      BY <2>1, <3>1, <3>2, <3>3
  <2>8. ASSUME Leave PROVE Done
    <3>1. ~ reader /\ reader' = reader /\ mapping' = mapping /\ life' = "stop"
      BY <2>8 DEF Leave, Unwinds
    <3> QED
      BY <2>1, <3>1 DEF Using
  <2>9. ASSUME ApiCall \/ ApiInitFails \/ ApiDestroy \/ ControlC
        PROVE  Done
    <3>1. /\ reader' = reader /\ mapping' = mapping
          /\ life' = life \/ life = "api"
      BY <2>9 DEF ApiCall, ApiInitFails, ApiDestroy, ControlC, Runs
    <3>2. ~ Using'
      BY <2>9 DEF ApiCall, ApiInitFails, ApiDestroy, ControlC, Runs, Using
    <3> QED
      BY <2>1, <3>1, <3>2
  <2>10. Done
    BY <1>4, <2>2, <2>3, <2>4, <2>5, <2>7, <2>8, <2>9 DEF UserStep
  <2>11. life' \notin {"find", "cores", "paths"}
    BY <1>4, UserEffect
  <2> QED
    BY <2>10, <2>11 DEF Remembered
<1> QED
  BY <1>2, <1>3, <1>4 DEF CardNext

LEMMA BlocksStayKept ==
  ASSUME CardInv, [CardNext]_<<vars, cardVars>>
  PROVE  BlocksKept'
<1>1. /\ CoreInv /\ CardTypeOK /\ Phases /\ Posters /\ Remembered /\ BlocksKept
      /\ posted \in [Dmas -> SUBSET UserBlocks]
  BY DEF CardInv, CardTypeOK
<1>2. CASE UNCHANGED <<vars, cardVars>>
  BY <1>1, <1>2 DEF cardVars, ownVars, makeVars, programVars, BlocksKept
<1>3. CASE Machinery
  <2>1. held' = held /\ reader' = reader /\ posted' = posted
    BY <1>3, MachineryEffect DEF programVars
  <2> SUFFICES ASSUME NEW d \in Dmas, posted[d] # {}
               PROVE  /\ life' \in {"ctrl", "pipe"} => posted[d] \subseteq held
                      /\ dma'[d].engine => posted[d] \subseteq pinned'
                      /\ dma'[d].engine /\ ~ reader => posted[d] \subseteq memoryBlocksMapped'
    BY <2>1 DEF BlocksKept
  <2>2. made = "card" /\ life \notin {"find", "cores", "paths", "unwind", "ctrl", "pipe"}
    <3>1. made = "card"
      BY <1>1 DEF Posters
    <3>2. life \notin {"find", "cores", "paths", "unwind"}
      BY <1>1, <3>1 DEF Phases
    <3>3. life \notin {"ctrl", "pipe"}
      BY <1>3 DEF Machinery, NotFound, Found, CoreStep, CoreCrash, CoreConfigError, OtherInit,
         OtherInitError, DmaInit, DmaInitError, NoIPs, CoresDone, PathConnected, PathFails, Made,
         Destruct, Unwound, Stop, UnmapRest, Runs
    <3> QED
      BY <3>1, <3>2, <3>3
  <2>3. Destruct \/ Stop \/ UnmapRest
    BY <1>3, <2>2 DEF Machinery, NotFound, Found, CoreStep, CoreCrash, CoreConfigError, OtherInit,
       OtherInitError, DmaInit, DmaInitError, NoIPs, CoresDone, PathConnected, PathFails, Made,
       Unwound, Runs
  <2>4. life' \notin {"ctrl", "pipe"}
    BY <2>2, <2>3 DEF Destruct, Stop, UnmapRest
  <2>5. CASE UnmapRest
    <3>1. Len(doomed) = 0 /\ life = "clear" /\ dma' = dma
      BY <2>5, EmptySeq DEF UnmapRest, Runs
    <3>2. ~ dma[d].engine
      BY <1>1, <3>1 DEF Posters
    <3> QED
      BY <2>4, <3>1, <3>2
  <2>6. CASE Destruct \/ Stop
    <3>1. /\ pinned' \cap UserBlocks = pinned \cap UserBlocks
          /\ memoryBlocksMapped' \cap UserBlocks = memoryBlocksMapped \cap UserBlocks
      <4>1. ~ UnmapRest
        BY <2>6 DEF Destruct, Stop, UnmapRest
      <4> QED
        BY <1>1, <1>3, <4>1, MachineryMaps
    <3>2. posted[d] \subseteq UserBlocks
      BY <1>1
    <3>3. dma'[d].engine => dma[d].engine
      <4>1. dma' = dma \/ \E e \in Dmas : dma' = [dma EXCEPT ![e] = NewDma]
        BY <2>6 DEF Destruct, DestructPlain, DestructDma, Stop
      <4>2. ~ NewDma.engine
        BY DEF NewDma
      <4>3. dma \in [Dmas -> DmaState]
        BY <1>1 DEF CardTypeOK
      <4> QED
        BY <4>1, <4>2, <4>3
    <3> QED
      BY <1>1, <2>4, <3>1, <3>2, <3>3 DEF BlocksKept
  <2> QED
    BY <2>3, <2>5, <2>6
<1>4. CASE UserStep
  <2> USE DEF useVars, makeVars, ownVars, programVars
  <2>1. /\ dma' = dma /\ pinned \subseteq pinned' /\ memoryBlocksMapped \subseteq memoryBlocksMapped'
        /\ life' = life \/ life' \in {"stop", "leaked"}
    BY <1>4, UserEffect
  <2>2. reader => reader'
    <3>1. \A t \in Threads : CreateMappingThrows(t) \/ Insert(t) \/ Fails(t)
                               \/ (\E b \in UserBlocks : Pin(t, b)) => reader' = reader
      BY DEF CreateMappingThrows, Insert, Fails, Pin
    <3> QED
      BY <1>4, <3>1 DEF UserStep, StartReader, Allocate, Post, Leave, ApiCall, ApiInitFails,
         ApiDestroy, ControlC
  <2>3. life' \in {"ctrl", "pipe"} => held \subseteq held'
    <3>1. \A kind : Throws(kind) => life' = "stop" \/ held' = held
      BY DEF Throws, Terminates, Unwinds
    <3>2. \A t \in Threads : CreateMappingThrows(t) \/ Insert(t) \/ Fails(t)
                               \/ (\E b \in UserBlocks : Pin(t, b)) => life' = "stop" \/ held' = held
      BY <3>1 DEF CreateMappingThrows, Insert, Fails, Pin
    <3> QED
      BY <1>4, <3>2 DEF UserStep, StartReader, Allocate, Post, Leave, Unwinds, ApiCall, ApiInitFails,
         ApiDestroy, ControlC
  <2>4. ASSUME NEW d \in Dmas
        PROVE  \/ posted'[d] = posted[d]
               \/ \E b \in UserBlocks :
                    /\ posted'[d] = posted[d] \cup {b}
                    /\ Using /\ b \in held \cap pinned /\ b \notin mapping["main"]
                    /\ held' = held
    <3>1. CASE StartReader \/ Leave \/ \E b \in UserBlocks : Allocate(b)
      BY <3>1 DEF StartReader, Leave, Allocate
    <3>2. ASSUME NEW e \in Dmas, NEW b \in UserBlocks, Post(e, b)
          PROVE  \/ posted'[d] = posted[d]
                 \/ /\ posted'[d] = posted[d] \cup {b}
                    /\ Using /\ b \in held \cap pinned /\ b \notin mapping["main"]
                    /\ held' = held
      <4>1. /\ posted' = [posted EXCEPT ![e] = posted[e] \cup {b}]
            /\ Using /\ b \in held \cap pinned /\ b \notin mapping["main"]
            /\ held' = held
        BY <3>2 DEF Post, Threads
      <4> QED
        BY <1>1, <4>1
    <3>3. ASSUME NEW t \in Threads,
                 CreateMappingThrows(t) \/ Insert(t) \/ Fails(t) \/ \E b \in UserBlocks : Pin(t, b)
          PROVE  posted' = posted
      BY <3>3 DEF CreateMappingThrows, Insert, Fails, Pin
    <3>4. CASE ApiCall \/ ApiInitFails \/ ApiDestroy \/ ControlC
      BY <3>4 DEF ApiCall, ApiInitFails, ApiDestroy, ControlC
    <3> QED
      BY <1>4, <3>1, <3>2, <3>3, <3>4 DEF UserStep
  <2> SUFFICES ASSUME NEW d \in Dmas
               PROVE  /\ life' \in {"ctrl", "pipe"} => posted'[d] \subseteq held'
                      /\ dma'[d].engine => posted'[d] \subseteq pinned'
                      /\ dma'[d].engine /\ ~ reader' => posted'[d] \subseteq memoryBlocksMapped'
    BY DEF BlocksKept
  <2>5. CASE posted'[d] = posted[d]
    BY <1>1, <2>1, <2>2, <2>3, <2>5 DEF BlocksKept
  <2>6. CASE posted'[d] # posted[d]
    <3>1. PICK b \in UserBlocks : /\ posted'[d] = posted[d] \cup {b}
                                  /\ Using /\ b \in held \cap pinned /\ b \notin mapping["main"]
                                  /\ held' = held
      BY <2>4, <2>6
    <3>2. ~ reader => b \in memoryBlocksMapped
      BY <1>1, <3>1 DEF Remembered
    <3>3. life \in {"ctrl", "pipe"}
      BY <3>1 DEF Using
    <3> QED
      BY <1>1, <2>1, <2>2, <3>1, <3>2, <3>3 DEF BlocksKept
  <2> QED
    BY <2>5, <2>6
<1> QED
  BY <1>2, <1>3, <1>4 DEF CardNext

-----------------------------------------------------------------------------
(* ---- Theorems ------------------------------------------------------------------ *)

(* CoreFactory::make(), by itself, keeps its invariant: the lists share    *)
(* the definition's IPs, and those with an entry of InitFirst to           *)
(* themselves are in front of the ones whose entries are behind it.        *)
THEOREM CoreInvariance == Init /\ [][Next]_vars => []CoreInv
<1>1. Init => CoreInv
  BY CoreBegins
<1>2. CoreInv /\ [Next]_vars => CoreInv'
  BY CoreSteps
<1> QED
  BY <1>1, <1>2, PTL

(* The same with all that happens to a card between PCIeCardFactory::make()*)
(* and the end of ~Card(): while the card is up, each of its DMA engines   *)
(* is as Dma::init() left it, and ~Card() destructs each of them once.     *)
THEOREM CardInvariance == CardSpec => []CardInv
<1>1. CardInit => CardInv
  BY CardBegins
<1>2. CardInv /\ [CardNext]_<<vars, cardVars>> => CardInv'
  <2> SUFFICES ASSUME CardInv, [CardNext]_<<vars, cardVars>>
               PROVE  CardInv'
    OBVIOUS
  <2>1. CoreInv /\ CardTypeOK /\ Phases
    BY DEF CardInv
  <2>2. CoreInv'
    BY <2>1, CardStepIsCoreStep, CoreSteps
  <2>3. CardTypeOK'
    BY <2>1, <2>2, TypesKeep
  <2>4. Phases'
    BY <2>1, PhasesKeep
  <2>5. Engines' /\ CleanTeardown'
    BY EnginesKeep, TeardownKeeps
  <2>6. Posters' /\ Remembered' /\ BlocksKept'
    BY PostersKeep, RememberedKeeps, BlocksStayKept
  <2> QED
    BY <2>2, <2>3, <2>4, <2>5, <2>6 DEF CardInv
<1> QED
  BY <1>1, <1>2, PTL DEF CardSpec

(* The variables of the factory and of the card have their types, also the *)
(* iterator of the walk that erases behind its own back.                   *)
THEOREM CardTypes == CardSpec => []CardTypeOK
<1>1. CardInv => CardTypeOK
  BY DEF CardInv
<1> QED
  BY <1>1, CardInvariance, PTL

(* "Will be initialized in the same order as they appear in this list"     *)
(* holds for every list and every definition where each IP has one entry   *)
(* and each entry one IP, although the walk skips IPs.                     *)
THEOREM SinglesAreInOrder == CardSpec => []SinglesInOrder
<1>1. CardInv => SinglesInOrder
  BY CoreInvOrders DEF CardInv
<1> QED
  BY <1>1, CardInvariance, PTL

(* The order loses no IP, the card gets all that are supported in that     *)
(* order, and an IP that is initialized has found its interrupt controller,*)
(* an I2C master and the bridge if the list puts them in front of it.      *)
THEOREM DependenciesAreMet == CardSpec => []DependenciesMet
<1>1. CardInv => DependenciesMet
  BY CoreInvMeets DEF CardInv
<1> QED
  BY <1>1, CardInvariance, PTL

(* A block of the program that an engine was handed stays mapped and alive *)
(* until ~Dma() has reset the engine: through both threads of ctrl, the    *)
(* race for memoryBlocksMapped, the unwinding of main() and ~Card().       *)
THEOREM EnginesStopFirst == CardSpec => []NoStrayDma
<1>1. CardInv => NoStrayDma
  <2> SUFFICES ASSUME CardInv, NEW d \in Dmas, dma[d].engine
               PROVE  posted[d] \subseteq pinned \cap (held \cup memoryBlocksMapped)
    BY DEF NoStrayDma
  <2>1. BlocksKept /\ Remembered
    BY DEF CardInv
  <2> QED
    BY <2>1 DEF BlocksKept, Remembered
<1> QED
  BY <1>1, CardInvariance, PTL

(* However a program leaves the scope of a card that make() returned,      *)
(* ~Card() neither hangs in the lock of an engine nor throws.              *)
THEOREM TeardownIsClean == CardSpec => []CleanTeardown
<1>1. CardInv => CleanTeardown
  BY DEF CardInv
<1> QED
  BY <1>1, CardInvariance, PTL
=============================================================================
