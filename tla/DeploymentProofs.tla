-------------------------- MODULE DeploymentProofs --------------------------
(***************************************************************************)
(* Proofs about a broadcast in tree mode, for every list of hosts that the *)
(* assumption allows, every port base, every number of children and every  *)
(* order of the map: ids tell processes apart, the processes agree on the  *)
(* proposers, the tree is complete and busy nodes forward to busy nodes    *)
(* only, and every node is called once.                                    *)
(***************************************************************************)
EXTENDS BroadcastTree, FiniteSetTheorems, SequenceTheorems, WellFoundedInduction, TLAPS

\* GetId keeps two digits of a port.
LEMMA LastTwoDigits ==
  ASSUME NEW n \in Nat
  PROVE  n % 100 \in 0 .. 99
OBVIOUS

\* Fewer than a hundred consecutive ports differ in their last two digits.
LEMMA PortsDiffer ==
  ASSUME NEW base \in Nat, NEW a \in 1 .. 100, NEW b \in 1 .. 100,
         (base + a) % 100 = (base + b) % 100
  PROVE  a = b
OBVIOUS

\* InitConfig gives different processes different ids.
LEMMA IdsDiffer ==
  ASSUME NEW p \in Processes, NEW q \in Processes, Id(p) = Id(q)
  PROVE  p = q
<1>1. /\ p[1] \in Hosts /\ p[2] \in 1 .. 100
      /\ q[1] \in Hosts /\ q[2] \in 1 .. 100
  BY DEF Processes
<1>2. ASSUME NEW h \in Hosts
      PROVE  PeerIps[h][3] \in 0 .. 255 /\ PeerIps[h][4] \in 0 .. 255
  <2>1. PeerIps \in Seq([1 .. 4 -> 0 .. 255])
    BY DeploymentAssumption
  <2>2. PeerIps[h] \in [1 .. 4 -> 0 .. 255]
    BY <2>1 DEF Hosts
  <2> QED
    BY <2>2
<1>3. PortBase \in Nat
  BY DeploymentAssumption
<1>4. /\ PeerIps[p[1]][3] = PeerIps[q[1]][3]
      /\ PeerIps[p[1]][4] = PeerIps[q[1]][4]
      /\ (PortBase + p[2]) % 100 = (PortBase + q[2]) % 100
  <2> DEFINE a == PeerIps[p[1]][3]
             b == PeerIps[p[1]][4]
             x == (PortBase + p[2]) % 100
             c == PeerIps[q[1]][3]
             d == PeerIps[q[1]][4]
             y == (PortBase + q[2]) % 100
  <2>1. (a * 1000 + b) * 100 + x = (c * 1000 + d) * 100 + y
    BY DEF Id, GetId
  <2>2. a \in 0 .. 255 /\ b \in 0 .. 255 /\ c \in 0 .. 255 /\ d \in 0 .. 255
    <3>1. a \in 0 .. 255 /\ b \in 0 .. 255
      BY <1>1, <1>2
    <3>2. c \in 0 .. 255 /\ d \in 0 .. 255
      BY <1>1, <1>2
    <3> QED
      BY <3>1, <3>2
  <2>3. x \in 0 .. 99 /\ y \in 0 .. 99
    <3>1. PortBase + p[2] \in Nat /\ PortBase + q[2] \in Nat
      BY <1>1, <1>3
    <3> QED
      BY <3>1, LastTwoDigits
  <2> HIDE DEF a, b, x, c, d, y
  <2>4. a = c /\ b = d /\ x = y
    BY <2>1, <2>2, <2>3
  <2> QED
    BY <2>4 DEF a, b, x, c, d, y
<1>5. p[1] = q[1]
  BY <1>1, <1>4, DeploymentAssumption
<1>6. p[2] = q[2]
  BY <1>1, <1>3, <1>4, PortsDiffer
<1> QED
  BY <1>5, <1>6 DEF Processes

-----------------------------------------------------------------------------
(* InitConfig.                                                             *)

LEMMA ProcessType ==
  ASSUME NEW p \in Processes
  PROVE  /\ p[1] \in Hosts /\ p[2] \in 1 .. ProcessNumArray[p[1]]
         /\ p = <<p[1], p[2]>>
<1>1. p \in Hosts \X (1 .. 100) /\ p[2] <= ProcessNumArray[p[1]]
  BY DEF Processes
<1>2. ProcessNumArray[p[1]] \in 0 .. 100
  BY <1>1, DeploymentAssumption
<1> QED
  BY <1>1, <1>2

LEMMA ZeroInInterval ==
  ASSUME NEW n \in 0 .. 100
  PROVE  0 \in 0 .. n /\ n \in Nat
OBVIOUS

LEMMA NextInInterval ==
  ASSUME NEW n \in 0 .. 100, NEW k \in Nat, k < n
  PROVE  k + 1 \in 0 .. n
OBVIOUS

LEMMA HostsType ==
  /\ Len(PeerIps) \in Nat
  /\ \A h : h \in Hosts <=> h \in Int /\ 1 <= h /\ h <= Len(PeerIps)
BY DeploymentAssumption DEF Hosts

LEMMA FiniteProcesses == IsFiniteSet(Processes)
<1>1. IsFiniteSet(Hosts) /\ IsFiniteSet(1 .. 100)
  <2>1. Len(PeerIps) \in Int /\ 1 \in Int /\ 100 \in Int
    BY HostsType
  <2>2. IsFiniteSet(1 .. 100)
    BY <2>1, FS_Interval
  <2>3. IsFiniteSet(1 .. Len(PeerIps))
    BY <2>1, FS_Interval
  <2> QED
    BY <2>2, <2>3 DEF Hosts
<1>2. IsFiniteSet(Hosts \X (1 .. 100))
  BY <1>1, FS_Product
<1>3. Processes \subseteq Hosts \X (1 .. 100)
  BY DEF Processes
<1> QED
  BY <1>2, <1>3, FS_Subset

LEMMA FiniteBefore ==
  ASSUME NEW p
  PROVE  IsFiniteSet(Before(p)) /\ Cardinality(Before(p)) \in Nat
<1>1. Before(p) \subseteq Processes
  BY DEF Before
<1> QED
  BY <1>1, FiniteProcesses, FS_Subset, FS_CardinalityType

\* The next process on a host has one more before it.
LEMMA BeforeNext ==
  ASSUME NEW h \in Hosts, NEW n \in Nat, n < ProcessNumArray[h]
  PROVE  /\ <<h, n + 1>> \in Processes
         /\ Before(<<h, n + 2>>) = Before(<<h, n + 1>>) \cup {<<h, n + 1>>}
         /\ Cardinality(Before(<<h, n + 2>>)) = Cardinality(Before(<<h, n + 1>>)) + 1
<1> DEFINE p == <<h, n + 1>>
<1>1. p \in Processes
  <2>1. ProcessNumArray[h] \in 0 .. 100
    BY DeploymentAssumption
  <2> QED
    BY <2>1 DEF Processes
<1>2. Before(<<h, n + 2>>) = Before(p) \cup {p}
  <2>1. ASSUME NEW q \in Processes
        PROVE  q[1] < h \/ (q[1] = h /\ q[2] < n + 2)
                 <=> q[1] < h \/ (q[1] = h /\ q[2] < n + 1) \/ q = p
    BY ProcessType, DeploymentAssumption, HostsType
  <2> QED
    BY <1>1, <2>1 DEF Before
<1>3. p \notin Before(p)
  BY HostsType DEF Before
<1> QED
  BY <1>1, <1>2, <1>3, FiniteBefore, FS_AddElement

\* After the last process of a host comes the first of the next.
LEMMA BeforeNextHost ==
  ASSUME NEW h \in Hosts
  PROVE  Before(<<h, ProcessNumArray[h] + 1>>) = Before(<<h + 1, 1>>)
<1>1. ASSUME NEW q \in Processes
      PROVE  q[1] < h \/ (q[1] = h /\ q[2] < ProcessNumArray[h] + 1)
               <=> q[1] < h + 1 \/ (q[1] = h + 1 /\ q[2] < 1)
  <2>1. ProcessNumArray[h] \in 0 .. 100
    BY DeploymentAssumption
  <2>2. q[1] \in Hosts /\ q[2] \in 1 .. ProcessNumArray[q[1]] /\ ProcessNumArray[q[1]] \in 0 .. 100
    BY ProcessType, DeploymentAssumption
  <2>3. h \in Int /\ q[1] \in Int /\ q[2] \in Int /\ q[2] >= 1
    BY <2>2, HostsType
  <2>4. q[1] = h => q[2] <= ProcessNumArray[h]
    BY <2>2
  <2> QED
    BY <2>1, <2>3, <2>4
<1> QED
  BY <1>1 DEF Before

LEMMA PeersInitInv ==
  ASSUME ConfigInit
  PROVE  PeersInv
<1>1. Before(<<1, 1>>) = {}
  BY ProcessType, HostsType DEF Before
<1>2. Cardinality(Before(<<1, 1>>)) = 0
  BY <1>1, FS_EmptySet
<1>3. /\ host \in 1 .. Len(PeerIps) + 1
      /\ IF Configured THEN j = 0 ELSE j \in 0 .. ProcessNumArray[host]
  <2>1. host = 1 /\ j = 0
    BY DEF ConfigInit
  <2>2. ~Configured => host \in Hosts
    BY <2>1, HostsType DEF Configured
  <2>3. ~Configured => ProcessNumArray[host] \in 0 .. 100
    BY <2>2, DeploymentAssumption
  <2>4. host \in 1 .. Len(PeerIps) + 1
    BY <2>1, HostsType
  <2>5. ~Configured => j \in 0 .. ProcessNumArray[host]
    BY <2>1, <2>3, ZeroInInterval
  <2> QED
    BY <2>1, <2>4, <2>5
<1> QED
  BY <1>1, <1>2, <1>3 DEF ConfigInit, PeersInv

LEMMA PeersStep ==
  ASSUME PeersInv, InitConfig
  PROVE  PeersInv'
<1> USE HostsType
<1>0. /\ host \in Hosts /\ ~Configured /\ j \in Nat
      /\ ProcessNumArray[host] \in 0 .. 100
  BY DeploymentAssumption DEF InitConfig, AddPeer, NextHost, Configured, PeersInv
<1>1. CASE AddPeer
  <2> DEFINE p == <<host, j + 1>>
  <2>1. /\ p \in Processes
        /\ Before(<<host, j + 2>>) = Before(p) \cup {p}
        /\ Cardinality(Before(<<host, j + 2>>)) = Cardinality(Before(p)) + 1
    BY <1>0, <1>1, BeforeNext DEF AddPeer
  <2>2. host' = host /\ j' = j + 1 /\ PeerIds' = Append(PeerIds, Id(p))
    BY <1>1 DEF AddPeer
  <2>3. Id(p) \in ProcessIds
    BY <2>1 DEF ProcessIds
  <2>4. /\ PeerIds' \in Seq(ProcessIds) /\ Len(PeerIds') = Len(PeerIds) + 1
        /\ \A m \in 1 .. Len(PeerIds) : PeerIds'[m] = PeerIds[m]
        /\ PeerIds'[Len(PeerIds) + 1] = Id(p)
    <3>1. PeerIds \in Seq(ProcessIds)
      BY DEF PeersInv
    <3> HIDE DEF p
    <3> QED
      BY <2>2, <2>3, <3>1
  <2>5. /\ Before(<<host, j + 1>>)' = Before(p) \cup {p}
        /\ Cardinality(Before(<<host, j + 1>>))' = Cardinality(Before(p)) + 1
    <3>1. <<host, j + 1>>' = <<host, j + 2>>
      BY <1>0, <2>2
    <3> QED
      BY <2>1, <3>1 DEF Before
  <2>6. Len(PeerIds) = Cardinality(Before(p)) /\ Len(PeerIds) \in Nat
    BY DEF PeersInv
  <2>7. ASSUME NEW q \in Before(p) \cup {p}
        PROVE  /\ Cardinality(Before(q)) < Len(PeerIds')
               /\ PeerIds'[Cardinality(Before(q)) + 1] = Id(q)
    <3>1. CASE q = p
      BY <2>4, <2>6, <3>1
    <3>2. CASE q \in Before(p)
      <4>1. Cardinality(Before(q)) < Len(PeerIds) /\ PeerIds[Cardinality(Before(q)) + 1] = Id(q)
        BY <3>2 DEF PeersInv
      <4>2. Cardinality(Before(q)) \in Nat
        BY FiniteBefore
      <4> QED
        BY <2>4, <2>6, <4>1, <4>2
    <3> QED
      BY <3>1, <3>2
  <2>8. ASSUME NEW m \in 1 .. Len(PeerIds')
        PROVE  \E q \in Processes : PeerIds'[m] = Id(q) /\ Cardinality(Before(q)) = m - 1
    <3>1. CASE m = Len(PeerIds) + 1
      BY <2>1, <2>4, <2>6, <3>1
    <3>2. CASE m \in 1 .. Len(PeerIds)
      BY <2>4, <3>2 DEF PeersInv
    <3> QED
      BY <2>4, <2>6, <3>1, <3>2
  <2>9. /\ host' \in 1 .. Len(PeerIps) + 1
        /\ IF Configured' THEN j' = 0 ELSE j' \in 0 .. ProcessNumArray[host']
    <3>1. j < ProcessNumArray[host] /\ host \in 1 .. Len(PeerIps) + 1
      BY <1>1 DEF AddPeer, PeersInv
    <3>2. Configured' = Configured
      BY <2>2 DEF Configured
    <3>3. j + 1 \in 0 .. ProcessNumArray[host]
      BY <1>0, <3>1, NextInInterval
    <3> QED
      BY <1>0, <2>2, <3>1, <3>2, <3>3
  <2>10. \A q : Before(q)' = Before(q)
    BY DEF Before
  <2> QED
    BY <2>4, <2>5, <2>6, <2>7, <2>8, <2>9, <2>10 DEF PeersInv
<1>2. CASE NextHost
  <2>1. Before(<<host, j + 1>>)' = Before(<<host, j + 1>>)
    <3>1. <<host, j + 1>>' = <<host + 1, 1>> /\ <<host, j + 1>> = <<host, ProcessNumArray[host] + 1>>
      BY <1>2 DEF NextHost
    <3> QED
      BY <1>0, <3>1, BeforeNextHost DEF Before
  <2>2. PeerIds' = PeerIds /\ \A q : Before(q)' = Before(q)
    BY <1>2 DEF NextHost, Before
  <2>3. /\ host' \in 1 .. Len(PeerIps) + 1
        /\ IF Configured' THEN j' = 0 ELSE j' \in 0 .. ProcessNumArray[host']
    <3>1. host' = host + 1 /\ j' = 0
      BY <1>2 DEF NextHost
    <3>2. host' \in 1 .. Len(PeerIps) + 1
      BY <1>0, <3>1
    <3>3. ~Configured' => host' \in Hosts
      BY <3>2 DEF Configured
    <3>4. ~Configured' => ProcessNumArray[host'] \in 0 .. 100
      BY <3>3, DeploymentAssumption
    <3>5. ~Configured' => j' \in 0 .. ProcessNumArray[host']
      BY <3>1, <3>4, ZeroInInterval
    <3> QED
      BY <3>1, <3>2, <3>5
  <2> QED
    BY <2>1, <2>2, <2>3 DEF PeersInv
<1> QED
  BY <1>1, <1>2 DEF InitConfig

\* When the loops have ended, everybody is in PeerIds.
LEMMA AllConfigured ==
  ASSUME PeersInv, Configured
  PROVE  /\ Before(<<host, j + 1>>) = Processes
         /\ Len(PeerIds) = Cardinality(Processes)
         /\ Id2Node = ProcessIds
<1>1. host = Len(PeerIps) + 1 /\ j = 0
  BY DEF PeersInv, Configured
<1>2. Before(<<host, j + 1>>) = Processes
  BY <1>1, HostsType, ProcessType DEF Before
<1>3. Len(PeerIds) = Cardinality(Processes)
  BY <1>2 DEF PeersInv
<1>4. Id2Node \subseteq ProcessIds
  BY DEF PeersInv, Id2Node, ToSet
<1>5. ASSUME NEW p \in Processes
      PROVE  Id(p) \in Id2Node
  <2>1. Cardinality(Before(p)) < Len(PeerIds) /\ PeerIds[Cardinality(Before(p)) + 1] = Id(p)
    BY <1>2 DEF PeersInv
  <2>2. Cardinality(Before(p)) + 1 \in 1 .. Len(PeerIds) /\ PeerIds \in Seq(ProcessIds)
    BY <2>1, FiniteBefore DEF PeersInv
  <2> QED
    BY <2>1, <2>2 DEF Id2Node, ToSet
<1> QED
  BY <1>2, <1>3, <1>4, <1>5 DEF ProcessIds

LEMMA ProposersCorrect ==
  ASSUME PeersInv, root \in Processes
  PROVE  ProposersAgree
<1> SUFFICES ASSUME Configured
             PROVE  IsProposer(root) <=> Cardinality(Before(root)) < ProposerNum
  BY DEF ProposersAgree
<1>1. ProposerNum \in Nat /\ ProposerNum <= Len(PeerIds) /\ PeerIds \in Seq(ProcessIds)
  <2>1. Len(PeerIds) = Cardinality(Processes) /\ Cardinality(Processes) \in Nat
    BY AllConfigured, FiniteProcesses, FS_CardinalityType
  <2>2. ProposerNum \in 0 .. Cardinality(Processes)
    BY DeploymentAssumption
  <2>3. ProposerNum \in Nat /\ ProposerNum <= Len(PeerIds)
    BY <2>1, <2>2
  <2>4. PeerIds \in Seq(ProcessIds)
    BY DEF PeersInv
  <2> QED
    BY <2>3, <2>4
<1>2. ToSet(ProposerIds) = {PeerIds[m] : m \in 1 .. ProposerNum}
  <2>1. /\ ProposerIds \in Seq(ProcessIds)
        /\ Len(ProposerIds) = ProposerNum
        /\ \A m \in 1 .. ProposerNum : ProposerIds[m] = PeerIds[m]
    <3>1. \A m \in 1 .. ProposerNum : PeerIds[m] \in ProcessIds
      BY <1>1
    <3> QED
      BY <1>1, <3>1, SubSeqProperties DEF ProposerIds
  <2> QED
    BY <1>1, <2>1 DEF ToSet
<1>3. /\ Cardinality(Before(root)) \in Nat
      /\ PeerIds[Cardinality(Before(root)) + 1] = Id(root)
  BY AllConfigured, FiniteBefore DEF PeersInv
<1>4. ASSUME IsProposer(root)
      PROVE  Cardinality(Before(root)) < ProposerNum
  <2>1. PICK m \in 1 .. ProposerNum : PeerIds[m] = Id(root)
    BY <1>2, <1>4 DEF IsProposer
  <2>2. PICK p \in Processes : PeerIds[m] = Id(p) /\ Cardinality(Before(p)) = m - 1
    BY <1>1, <2>1 DEF PeersInv
  <2>3. p = root
    BY <2>1, <2>2, IdsDiffer
  <2> QED
    BY <1>1, <2>1, <2>2, <2>3
<1>5. ASSUME Cardinality(Before(root)) < ProposerNum
      PROVE  IsProposer(root)
  BY <1>1, <1>2, <1>3, <1>5 DEF IsProposer
<1> QED
  BY <1>4, <1>5

-----------------------------------------------------------------------------
(* Multiples of ChildNum.                                                  *)

LEMMA ChildNumType == ChildNum \in Nat /\ ChildNum >= 1
BY TreeAssumption

LEMMA Multiple ==
  ASSUME NEW a \in Nat
  PROVE  a * ChildNum \in Nat /\ (a + 1) * ChildNum = a * ChildNum + ChildNum
BY ChildNumType

LEMMA MultiplesGrow ==
  ASSUME NEW a \in Nat, NEW b \in Nat, a <= b
  PROVE  a * ChildNum <= b * ChildNum
BY ChildNumType

LEMMA MultipleAtLeast ==
  ASSUME NEW a \in Nat
  PROVE  a <= a * ChildNum
BY ChildNumType

\* Node k + 1 has the number (k - 1) \div ChildNum + 1 above it, which is the one
\* node that has it among its children.
LEMMA ParentOf ==
  ASSUME NEW k \in Nat \ {0}, NEW p, p = (k - 1) \div ChildNum + 1
  PROVE  p \in 1 .. k /\ (p - 1) * ChildNum < k /\ k <= p * ChildNum
<1> DEFINE d == (k - 1) \div ChildNum
<1>1. d \in Nat /\ d * ChildNum <= k - 1 /\ k - 1 < d * ChildNum + ChildNum
  BY ChildNumType
<1>2. p = d + 1
  OBVIOUS
<1> HIDE DEF d
<1>3. (d + 1) * ChildNum = d * ChildNum + ChildNum /\ d <= d * ChildNum
  BY <1>1, Multiple, MultipleAtLeast
<1>4. d * ChildNum \in Nat
  BY <1>1, Multiple
<1>5. p - 1 = d
  BY <1>1, <1>2
<1>6. p \in 1 .. k
  BY <1>1, <1>2, <1>3, <1>4
<1>7. (p - 1) * ChildNum < k
  BY <1>1, <1>4, <1>5
<1>8. k <= p * ChildNum
  <2>1. p * ChildNum = d * ChildNum + ChildNum
    BY <1>2, <1>3
  <2> QED
    BY <1>1, <1>4, <2>1, ChildNumType
<1> QED
  BY <1>6, <1>7, <1>8

LEMMA OneParent ==
  ASSUME NEW k \in Nat, NEW a \in Nat \ {0}, NEW b \in Nat \ {0},
         (a - 1) * ChildNum < k, k <= a * ChildNum,
         (b - 1) * ChildNum < k, k <= b * ChildNum
  PROVE  a = b
<1>1. a * ChildNum \in Nat /\ b * ChildNum \in Nat
      /\ (a - 1) * ChildNum \in Nat /\ (b - 1) * ChildNum \in Nat
  BY Multiple
<1>2. a <= b - 1 => a * ChildNum <= (b - 1) * ChildNum
  BY MultiplesGrow
<1>3. b <= a - 1 => b * ChildNum <= (a - 1) * ChildNum
  BY MultiplesGrow
<1> QED
  BY <1>1, <1>2, <1>3

-----------------------------------------------------------------------------
(* Segments of sequences.                                                  *)

LEMMA SegmentSame ==
  ASSUME NEW S, NEW s \in Seq(S), NEW e \in S,
         NEW a \in Nat \ {0}, NEW b \in 0 .. Len(s)
  PROVE  SubSeq(Append(s, e), a, b) = SubSeq(s, a, b)
<1> DEFINE t == Append(s, e)
<1>1. t \in Seq(S) /\ \A i \in 1 .. Len(s) : t[i] = s[i] /\ s[i] \in S
  OBVIOUS
<1> HIDE DEF t
<1>2. \A i \in a .. b : t[i] \in S /\ s[i] \in S
  BY <1>1
<1>3. /\ SubSeq(t, a, b) \in Seq(S) /\ SubSeq(s, a, b) \in Seq(S)
      /\ Len(SubSeq(t, a, b)) = IF a <= b THEN b - a + 1 ELSE 0
      /\ Len(SubSeq(s, a, b)) = IF a <= b THEN b - a + 1 ELSE 0
      /\ \A i \in 1 .. b - a + 1 : SubSeq(t, a, b)[i] = t[a + i - 1]
      /\ \A i \in 1 .. b - a + 1 : SubSeq(s, a, b)[i] = s[a + i - 1]
  BY <1>2, SubSeqProperties
<1>4. \A i \in 1 .. Len(SubSeq(t, a, b)) : SubSeq(t, a, b)[i] = SubSeq(s, a, b)[i]
  BY <1>1, <1>3
<1> QED
  BY <1>3, <1>4, SeqEqual DEF t

LEMMA SegmentAppend ==
  ASSUME NEW S, NEW s \in Seq(S), NEW e \in S, NEW a \in 1 .. Len(s) + 1
  PROVE  SubSeq(Append(s, e), a, Len(s) + 1) = Append(SubSeq(s, a, Len(s)), e)
<1> DEFINE t == Append(s, e)
           u == SubSeq(s, a, Len(s))
           v == SubSeq(t, a, Len(s) + 1)
<1>1. /\ t \in Seq(S) /\ Len(t) = Len(s) + 1 /\ t[Len(s) + 1] = e
      /\ \A i \in 1 .. Len(s) : t[i] = s[i] /\ s[i] \in S
  OBVIOUS
<1> HIDE DEF t
<1>2. (\A i \in a .. Len(s) + 1 : t[i] \in S) /\ \A i \in a .. Len(s) : s[i] \in S
  BY <1>1
<1>3. Len(s) \in Nat /\ Len(s) + 1 \in Int
  OBVIOUS
<1>4. /\ u \in Seq(S)
      /\ Len(u) = Len(s) - a + 1
      /\ \A i \in 1 .. Len(s) - a + 1 : u[i] = s[a + i - 1]
  <2>1. /\ u \in Seq(S)
        /\ Len(u) = IF a <= Len(s) THEN Len(s) - a + 1 ELSE 0
        /\ \A i \in 1 .. Len(s) - a + 1 : u[i] = s[a + i - 1]
    BY <1>2, <1>3, SubSeqProperties
  <2> QED
    BY <1>3, <2>1
<1>5. /\ v \in Seq(S)
      /\ Len(v) = Len(s) + 2 - a
      /\ \A i \in 1 .. Len(s) + 2 - a : v[i] = t[a + i - 1]
  <2>1. /\ v \in Seq(S)
        /\ Len(v) = IF a <= Len(s) + 1 THEN Len(s) + 1 - a + 1 ELSE 0
        /\ \A i \in 1 .. Len(s) + 1 - a + 1 : v[i] = t[a + i - 1]
    BY <1>2, <1>3, SubSeqProperties
  <2> QED
    BY <1>3, <2>1
<1> HIDE DEF u, v
<1>6. /\ Append(u, e) \in Seq(S)
      /\ Len(Append(u, e)) = Len(s) + 2 - a
      /\ \A i \in 1 .. Len(s) - a + 1 : Append(u, e)[i] = u[i]
      /\ Append(u, e)[Len(s) + 2 - a] = e
  BY <1>3, <1>4
<1>7. ASSUME NEW i \in 1 .. Len(v)
      PROVE  v[i] = Append(u, e)[i]
  <2>1. i \in 1 .. Len(s) + 2 - a /\ v[i] = t[a + i - 1]
    BY <1>5
  <2>2. CASE i \in 1 .. Len(s) - a + 1
    <3>1. a + i - 1 \in 1 .. Len(s)
      BY <1>3, <2>2
    <3> QED
      BY <1>1, <1>4, <1>6, <2>1, <2>2, <3>1
  <2>3. CASE i = Len(s) + 2 - a
    <3>1. a + i - 1 = Len(s) + 1
      BY <1>3, <2>3
    <3> QED
      BY <1>1, <1>6, <2>1, <2>3, <3>1
  <2>4. i \in 1 .. Len(s) - a + 1 \/ i = Len(s) + 2 - a
    BY <1>3, <2>1
  <2> QED
    BY <2>2, <2>3, <2>4
<1>8. v = Append(u, e)
  BY <1>5, <1>6, <1>7, SeqEqual
<1> QED
  BY <1>8 DEF t, u, v

LEMMA SegmentsJoin ==
  ASSUME NEW S, NEW s \in Seq(S), NEW a \in Nat \ {0}, NEW b \in Nat, NEW c \in 0 .. Len(s),
         a <= b + 1, b <= c
  PROVE  SubSeq(s, a, b) \o SubSeq(s, b + 1, c) = SubSeq(s, a, c)
<1> DEFINE u == SubSeq(s, a, b)
           v == SubSeq(s, b + 1, c)
           w == SubSeq(s, a, c)
<1>1. \A i \in 1 .. Len(s) : s[i] \in S
  OBVIOUS
<1>2. Len(s) \in Nat /\ c <= Len(s) /\ c \in Nat
  OBVIOUS
<1>3. /\ \A i \in a .. b : s[i] \in S
      /\ \A i \in b + 1 .. c : s[i] \in S
      /\ \A i \in a .. c : s[i] \in S
  BY <1>1, <1>2
<1>4. /\ u \in Seq(S) /\ Len(u) = b - a + 1
      /\ \A i \in 1 .. b - a + 1 : u[i] = s[a + i - 1]
  BY <1>3, SubSeqProperties
<1>5. /\ v \in Seq(S) /\ Len(v) = c - b
      /\ \A i \in 1 .. c - b : v[i] = s[b + i]
  <2>1. /\ v \in Seq(S) /\ Len(v) = IF b + 1 <= c THEN c - (b + 1) + 1 ELSE 0
        /\ \A i \in 1 .. c - (b + 1) + 1 : v[i] = s[b + 1 + i - 1]
    BY <1>3, SubSeqProperties
  <2> HIDE DEF v
  <2> QED
    BY <1>2, <2>1
<1>6. /\ w \in Seq(S) /\ Len(w) = c - a + 1
      /\ \A i \in 1 .. c - a + 1 : w[i] = s[a + i - 1]
  <2>1. /\ w \in Seq(S) /\ Len(w) = IF a <= c THEN c - a + 1 ELSE 0
        /\ \A i \in 1 .. c - a + 1 : w[i] = s[a + i - 1]
    BY <1>3, SubSeqProperties
  <2> HIDE DEF w
  <2> QED
    BY <1>2, <2>1
<1> HIDE DEF u, v, w
<1>7. /\ u \o v \in Seq(S) /\ Len(u \o v) = c - a + 1
      /\ \A i \in 1 .. c - a + 1 :
           (u \o v)[i] = IF i <= b - a + 1 THEN u[i] ELSE v[i - (b - a + 1)]
  <2>1. /\ u \o v \in Seq(S) /\ Len(u \o v) = Len(u) + Len(v)
        /\ \A i \in 1 .. Len(u) + Len(v) :
             (u \o v)[i] = IF i <= Len(u) THEN u[i] ELSE v[i - Len(u)]
    BY <1>4, <1>5, ConcatProperties
  <2>2. Len(u) + Len(v) = c - a + 1
    BY <1>2, <1>4, <1>5
  <2> QED
    BY <1>4, <2>1, <2>2
<1>8. ASSUME NEW i \in 1 .. c - a + 1
      PROVE  (u \o v)[i] = w[i]
  <2>1. CASE i <= b - a + 1
    <3>1. i \in 1 .. b - a + 1
      BY <2>1
    <3> QED
      BY <1>4, <1>6, <1>7, <2>1, <3>1
  <2>2. CASE i > b - a + 1
    <3>1. i - (b - a + 1) \in 1 .. c - b /\ b + (i - (b - a + 1)) = a + i - 1
      BY <1>2, <2>2
    <3>2. (u \o v)[i] = v[i - (b - a + 1)]
      BY <1>7, <2>2
    <3>3. v[i - (b - a + 1)] = s[b + (i - (b - a + 1))]
      BY <1>5, <3>1
    <3> QED
      BY <1>6, <3>1, <3>2, <3>3
  <2>3. i <= b - a + 1 \/ i > b - a + 1
    OBVIOUS
  <2> QED
    BY <2>1, <2>2, <2>3
<1>9. u \o v = w
  BY <1>6, <1>7, <1>8, SeqEqual
<1> QED
  BY <1>9 DEF u, v, w

-----------------------------------------------------------------------------
(* The numbers of nodes and of their children.                             *)

LEMMA UptoType ==
  ASSUME Len(order) \in Nat, NEW i \in Nat
  PROVE  /\ Upto(i) \in 0 .. Len(order)
         /\ Upto(0) = 0
         /\ Upto(i) <= Upto(i + 1)
         /\ i <= Len(order) => i <= Upto(i)
         /\ i * ChildNum <= Len(order) => Upto(i) = i * ChildNum
         /\ Len(order) <= i * ChildNum => Upto(i) = Len(order)
<1>1. /\ i * ChildNum \in Nat /\ (i + 1) * ChildNum \in Nat
      /\ i * ChildNum <= (i + 1) * ChildNum
      /\ i <= i * ChildNum
  <2>1. i + 1 \in Nat /\ i <= i + 1
    OBVIOUS
  <2>2. i * ChildNum <= (i + 1) * ChildNum
    BY <2>1, MultiplesGrow
  <2>3. i * ChildNum \in Nat /\ (i + 1) * ChildNum \in Nat
    BY <2>1, Multiple
  <2> QED
    BY <2>2, <2>3, MultipleAtLeast
<1>2. 0 * ChildNum = 0
  BY ChildNumType
<1>3. Upto(i) = IF i * ChildNum < Len(order) THEN i * ChildNum ELSE Len(order)
  BY DEF Upto
<1>4. Upto(i + 1) = IF (i + 1) * ChildNum < Len(order) THEN (i + 1) * ChildNum ELSE Len(order)
  BY DEF Upto
<1>5. Upto(0) = 0
  BY <1>2 DEF Upto
<1> QED
  BY <1>1, <1>3, <1>4, <1>5

LEMMA IdsType ==
  ASSUME PeersInv
  PROVE  Ids \subseteq ProcessIds
BY DEF PeersInv, Ids, Id2Node, ToSet

LEMMA NumberIs ==
  ASSUME TreeTypeOK, PeersInv
  PROVE  /\ Len(order) \in Nat
         /\ Number \in Seq(ProcessIds)
         /\ Len(Number) = Len(order) + 1
         /\ Number[1] = Id(root)
         /\ \A k \in 1 .. Len(order) : Number[k + 1] = order[k] /\ order[k] \in Ids
         /\ \A a \in 1 .. Len(order) : \A b \in 1 .. Len(order) : order[a] = order[b] => a = b
         /\ \A a \in 1 .. Len(Number) : \A b \in 1 .. Len(Number) : Number[a] = Number[b] => a = b
         /\ ToSet(Number) = {Id(root)} \cup ToSet(order)
<1>1. order \in Seq(Ids) /\ order \in Seq(ProcessIds) /\ Len(order) \in Nat
  BY IdsType DEF TreeTypeOK
<1>2. Id(root) \in ProcessIds
  BY DEF TreeTypeOK, ProcessIds
<1>3. /\ Number \in Seq(ProcessIds)
      /\ Len(Number) = Len(order) + 1
      /\ Number[1] = Id(root)
      /\ \A k \in 1 .. Len(order) : Number[k + 1] = order[k]
  <2> DEFINE r == <<Id(root)>>
  <2>1. r \in Seq(ProcessIds) /\ Len(r) = 1 /\ r[1] = Id(root)
    BY <1>2
  <2> HIDE DEF r
  <2>2. /\ r \o order \in Seq(ProcessIds)
        /\ Len(r \o order) = Len(r) + Len(order)
        /\ \A i \in 1 .. Len(r) + Len(order) : (r \o order)[i] =
                     IF i <= Len(r) THEN r[i] ELSE order[i - Len(r)]
    BY <1>1, <2>1, ConcatProperties
  <2>3. Number = r \o order
    BY DEF Number, r
  <2>4. Number[1] = Id(root)
    BY <1>1, <2>1, <2>2, <2>3
  <2>5. ASSUME NEW k \in 1 .. Len(order)
        PROVE  Number[k + 1] = order[k]
    <3>1. k + 1 \in 1 .. Len(r) + Len(order) /\ ~(k + 1 <= Len(r)) /\ k + 1 - Len(r) = k
      BY <1>1, <2>1
    <3> QED
      BY <2>2, <2>3, <3>1
  <2> QED
    BY <1>1, <2>1, <2>2, <2>3, <2>4, <2>5
<1>4. \A k \in 1 .. Len(order) : order[k] \in Ids /\ order[k] # Id(root)
  <2>1. \A k \in 1 .. Len(order) : order[k] \in Ids
    BY <1>1
  <2> QED
    BY <2>1 DEF Ids
<1>5. \A a \in 1 .. Len(order) : \A b \in 1 .. Len(order) : order[a] = order[b] => a = b
  <2>1. DOMAIN order = 1 .. Len(order)
    BY <1>1
  <2> QED
    BY <2>1 DEF TreeTypeOK, IsInjective
<1>6. \A x \in 1 .. Len(Number) : x = 1 \/ (x - 1 \in 1 .. Len(order) /\ Number[x] = order[x - 1])
  <2>1. ASSUME NEW x \in 1 .. Len(Number), x # 1
        PROVE  x - 1 \in 1 .. Len(order) /\ Number[x] = order[x - 1]
    <3>1. x - 1 \in 1 .. Len(order) /\ (x - 1) + 1 = x
      BY <1>1, <1>3, <2>1
    <3> QED
      BY <1>3, <3>1
  <2> QED
    BY <2>1
<1>7. ASSUME NEW a \in 1 .. Len(Number), NEW b \in 1 .. Len(Number), Number[a] = Number[b]
      PROVE  a = b
  <2>1. CASE a = 1 /\ b = 1
    BY <2>1
  <2>2. CASE a = 1 /\ b # 1
    BY <1>3, <1>4, <1>6, <1>7, <2>2
  <2>3. CASE a # 1 /\ b = 1
    BY <1>3, <1>4, <1>6, <1>7, <2>3
  <2>4. CASE a # 1 /\ b # 1
    <3>1. a - 1 = b - 1
      BY <1>5, <1>6, <1>7, <2>4
    <3> QED
      BY <3>1
  <2> QED
    BY <2>1, <2>2, <2>3, <2>4
<1>8. ToSet(Number) = {Id(root)} \cup ToSet(order)
  <2>1. ToSet(Number) = {Number[x] : x \in 1 .. Len(Number)} /\ ToSet(order) = {order[k] : k \in 1 .. Len(order)}
    <3>1. DOMAIN Number = 1 .. Len(Number) /\ DOMAIN order = 1 .. Len(order)
      BY <1>1, <1>3, LenProperties
    <3> QED
      BY <3>1 DEF ToSet
  <2>2. ToSet(Number) \subseteq {Id(root)} \cup ToSet(order)
    BY <1>3, <1>6, <2>1
  <2>3. \A k \in 1 .. Len(order) : k + 1 \in 1 .. Len(Number)
    BY <1>1, <1>3
  <2>4. 1 \in 1 .. Len(Number)
    BY <1>1, <1>3
  <2>5. {Id(root)} \cup ToSet(order) \subseteq ToSet(Number)
    BY <1>3, <2>1, <2>3, <2>4
  <2> QED
    BY <2>2, <2>5
<1> QED
  BY <1>1, <1>3, <1>4, <1>5, <1>7, <1>8

LEMMA ChildrenFrom ==
  ASSUME NEW i, NEW p, p = i - 1
  PROVE  Children(i) = SubSeq(order, Upto(p) + 1, Upto(i))
BY DEF Children

LEMMA ChildrenAre ==
  ASSUME order \in Seq(Ids), NEW i \in Nat \ {0}
  PROVE  /\ Children(i) \in Seq(Ids)
         /\ Len(Children(i)) = Upto(i) - Upto(i - 1)
         /\ \A x \in 1 .. Upto(i) - Upto(i - 1) :
              /\ Upto(i - 1) + x \in 1 .. Len(order)
              /\ Children(i)[x] = order[Upto(i - 1) + x]
<1> DEFINE a == Upto(i - 1)
           b == Upto(i)
<1>1. /\ Len(order) \in Nat
      /\ a \in 0 .. Len(order) /\ b \in 0 .. Len(order) /\ a <= b
  <2>1. i - 1 \in Nat /\ i - 1 + 1 = i /\ i \in Nat /\ Len(order) \in Nat
    OBVIOUS
  <2>2. a \in 0 .. Len(order) /\ a <= Upto(i - 1 + 1)
    BY <2>1, UptoType
  <2>3. b \in 0 .. Len(order)
    BY <2>1, UptoType
  <2> QED
    BY <2>1, <2>2, <2>3
<1> HIDE DEF a, b
<1>2. \A k \in a + 1 .. b : order[k] \in Ids
  BY <1>1
<1>3. /\ SubSeq(order, a + 1, b) \in Seq(Ids)
      /\ Len(SubSeq(order, a + 1, b)) = IF a + 1 <= b THEN b - (a + 1) + 1 ELSE 0
      /\ \A x \in 1 .. b - (a + 1) + 1 : SubSeq(order, a + 1, b)[x] = order[a + 1 + x - 1]
  BY <1>1, <1>2, SubSeqProperties
<1>4. /\ Len(SubSeq(order, a + 1, b)) = b - a
      /\ \A x \in 1 .. b - a : a + x \in 1 .. Len(order)
                              /\ SubSeq(order, a + 1, b)[x] = order[a + x]
  BY <1>1, <1>3
<1> QED
  BY <1>3, <1>4 DEF Children, a, b

-----------------------------------------------------------------------------
(* makeTree.                                                               *)

\* The loop gives the next child to the first node that is not full.
LEMMA AddNodePlaces ==
  ASSUME TreeTypeOK, PeersInv, CompleteTree, NEW id \in Ids
  PROVE  \E d \in 1 .. Len(Number) :
           /\ (d - 1) * ChildNum <= Len(order) /\ Len(order) < d * ChildNum
           /\ AddNode(tree, id, ChildNum)
                = [children |-> [tree.children EXCEPT ![Number[d]] = Append(@, id)],
                   current  |-> Number[d],
                   noChild  |-> Append(SubSeq(Number, d + 1, Len(Number)), id)]
<1> DEFINE Takes(d) ==
             /\ (d - 1) * ChildNum <= Len(order) /\ Len(order) < d * ChildNum
             /\ AddNode(tree, id, ChildNum)
                  = [children |-> [tree.children EXCEPT ![Number[d]] = Append(@, id)],
                     current  |-> Number[d],
                     noChild  |-> Append(SubSeq(Number, d + 1, Len(Number)), id)]
<1> SUFFICES \E d \in 1 .. Len(Number) : Takes(d)
  OBVIOUS
<1> HIDE DEF Takes
<1>1. PICK c \in 1 .. Len(Number) :
        /\ (c - 1) * ChildNum <= Len(order) /\ Len(order) <= c * ChildNum
        /\ tree.current = Number[c]
        /\ tree.noChild = SubSeq(Number, c + 1, Len(Number))
  BY DEF CompleteTree
<1>2. /\ Len(order) \in Nat /\ Len(Number) = Len(order) + 1
      /\ Number \in Seq(ProcessIds) /\ order \in Seq(Ids)
  BY NumberIs DEF TreeTypeOK
<1>3. c \in Nat \ {0} /\ c - 1 \in Nat /\ c \in Nat
  BY <1>2
<1>4. /\ c * ChildNum \in Nat /\ (c - 1) * ChildNum \in Nat
      /\ c * ChildNum = (c - 1) * ChildNum + ChildNum
      /\ (c + 1) * ChildNum = c * ChildNum + ChildNum
      /\ c <= c * ChildNum
  <2>1. (c - 1) * ChildNum \in Nat /\ (c - 1 + 1) * ChildNum = (c - 1) * ChildNum + ChildNum
    BY <1>3, Multiple
  <2>2. c - 1 + 1 = c
    BY <1>3
  <2>3. c * ChildNum \in Nat /\ (c + 1) * ChildNum = c * ChildNum + ChildNum
    BY <1>3, Multiple
  <2>4. c <= c * ChildNum
    BY <1>3, MultipleAtLeast
  <2> QED
    BY <2>1, <2>2, <2>3, <2>4
<1>5. Len(tree.children[tree.current]) = Len(order) - (c - 1) * ChildNum
  <2>1. tree.children[Number[c]] = Children(c)
    BY DEF CompleteTree
  <2>2. Len(Children(c)) = Upto(c) - Upto(c - 1)
    BY <1>2, <1>3, ChildrenAre
  <2>3. Upto(c) = Len(order)
    BY <1>1, <1>2, <1>3, UptoType
  <2>4. Upto(c - 1) = (c - 1) * ChildNum
    BY <1>1, <1>2, <1>3, UptoType
  <2> QED
    BY <1>1, <2>1, <2>2, <2>3, <2>4
<1>7. CASE Len(order) < c * ChildNum
  <2>1. Len(tree.children[tree.current]) < ChildNum
    BY <1>2, <1>4, <1>5, <1>7, ChildNumType
  <2>2. AddNode(tree, id, ChildNum) = Place(tree, tree.current, tree.noChild, id)
    BY <1>2, <1>5, <2>1, ChildNumType DEF AddNode
  <2> QED
    BY <1>1, <1>7, <2>2 DEF Place, Takes
<1>8. CASE Len(order) = c * ChildNum
  <2>1. /\ ~(Len(tree.children[tree.current]) < ChildNum)
        /\ Len(tree.children[tree.current]) >= ChildNum
    BY <1>2, <1>4, <1>5, <1>8, ChildNumType
  <2>2. c + 1 \in 1 .. Len(Number)
    BY <1>2, <1>3, <1>4, <1>8
  <2>3. /\ Head(tree.noChild) = Number[c + 1]
        /\ Tail(tree.noChild) = SubSeq(Number, c + 2, Len(Number))
    <3>1. Len(Number) \in c + 1 .. Len(Number) /\ c + 1 + 1 = c + 2
      BY <1>2, <2>2
    <3> QED
      BY <1>1, <1>2, <2>2, <3>1, HeadTailOfSubSeq
  <2>4. tree.noChild # << >>
    <3>1. \A x \in c + 1 .. Len(Number) : Number[x] \in ProcessIds
      BY <1>2, <1>3
    <3>2. /\ tree.noChild \in Seq(ProcessIds)
          /\ Len(tree.noChild) = IF c + 1 <= Len(Number) THEN Len(Number) - (c + 1) + 1 ELSE 0
      <4>1. c + 1 \in Int /\ Len(Number) \in Int
        BY <1>2, <1>3
      <4> QED
        BY <1>1, <3>1, <4>1, SubSeqProperties
    <3>3. Len(tree.noChild) >= 1
      BY <1>2, <1>3, <2>2, <3>2
    <3> QED
      BY <3>3
  <2>6. AddNode(tree, id, ChildNum) = Place(tree, Number[c + 1], SubSeq(Number, c + 2, Len(Number)), id)
    BY <2>1, <2>3, <2>4 DEF AddNode
  <2>8. /\ (c + 1 - 1) * ChildNum <= Len(order)
        /\ Len(order) < (c + 1) * ChildNum
    <3>1. c + 1 - 1 = c
      BY <1>3
    <3> QED
      BY <1>4, <1>8, <3>1, ChildNumType
  <2>9. c + 1 + 1 = c + 2
    BY <1>3
  <2> QED
    <3>1. Takes(c + 1)
      BY <2>6, <2>8, <2>9 DEF Place, Takes
    <3> QED
      BY <2>2, <3>1
<1> QED
  BY <1>1, <1>2, <1>4, <1>7, <1>8

LEMMA UptoNext ==
  ASSUME Len(order) \in Nat, Len(order)' = Len(order) + 1,
         NEW d \in Nat \ {0}, (d - 1) * ChildNum <= Len(order), Len(order) < d * ChildNum,
         NEW i \in Nat
  PROVE  /\ i < d => Upto(i)' = Upto(i)
         /\ i >= d => Upto(i)' = Len(order) + 1 /\ Upto(i) = Len(order)
<1>1. i * ChildNum \in Nat /\ d * ChildNum \in Nat /\ (d - 1) * ChildNum \in Nat
  <2>1. d - 1 \in Nat /\ d \in Nat
    OBVIOUS
  <2>2. (d - 1) * ChildNum \in Nat
    BY <2>1, Multiple
  <2> QED
    BY <2>1, <2>2, Multiple
<1>2. Upto(i) = IF i * ChildNum < Len(order) THEN i * ChildNum ELSE Len(order)
  BY DEF Upto
<1>3. Upto(i)' = IF i * ChildNum < Len(order) + 1 THEN i * ChildNum ELSE Len(order) + 1
  BY DEF Upto
<1>4. i < d => i * ChildNum <= (d - 1) * ChildNum
  <2>1. i < d => i <= d - 1 /\ d - 1 \in Nat
    OBVIOUS
  <2> QED
    BY <2>1, MultiplesGrow
<1>5. i >= d => d * ChildNum <= i * ChildNum
  BY MultiplesGrow
<1> QED
  BY <1>1, <1>2, <1>3, <1>4, <1>5

LEMMA NumberNext ==
  ASSUME TreeTypeOK, PeersInv, NEW id \in Ids, order' = Append(order, id), root' = root
  PROVE  Number' = Append(Number, id)
<1> DEFINE r == <<Id(root)>>
           e == <<id>>
<1>1. id \in ProcessIds /\ Id(root) \in ProcessIds /\ order \in Seq(ProcessIds)
  BY IdsType DEF TreeTypeOK, ProcessIds
<1>2. r \in Seq(ProcessIds) /\ e \in Seq(ProcessIds)
  BY <1>1
<1>3. Number' = r \o Append(order, id)
  BY DEF Number, Id
<1>4. Append(order, id) = order \o e
  BY <1>1
<1>5. Append(Number, id) = (r \o order) \o e
  <2>1. r \o order \in Seq(ProcessIds)
    BY <1>1, <1>2
  <2>2. Append(r \o order, id) = (r \o order) \o e
    BY <1>1, <2>1
  <2> QED
    BY <2>2 DEF Number
<1>6. r \o (order \o e) = (r \o order) \o e
  BY <1>1, <1>2, ConcatAssociative
<1> QED
  BY <1>3, <1>4, <1>5, <1>6

\* A process is added to the tree only while the loop runs.
LEMMA StillBuilding ==
  ASSUME TreeInv, NEW id \in Ids \ ToSet(order)
  PROVE  ~Built /\ walking = {} /\ queue = << >>
BY DEF TreeInv, WalkInv, Built

LEMMA AddClientShape ==
  ASSUME TreeInv, NEW id \in Ids \ ToSet(order),
         order' = Append(order, id), tree' = AddNode(tree, id, ChildNum),
         UNCHANGED <<root, configVars>>
  PROVE  /\ CompleteTree'
         /\ tree' \in [children : [ProcessIds -> Seq(ProcessIds)], current : ProcessIds,
                       noChild : Seq(ProcessIds)]
<1> DEFINE k == Len(order)
<1>1. TreeTypeOK /\ PeersInv /\ CompleteTree
  BY DEF TreeInv
<1>2. PICK d \in 1 .. Len(Number) :
        /\ (d - 1) * ChildNum <= k /\ k < d * ChildNum
        /\ tree' = [children |-> [tree.children EXCEPT ![Number[d]] = Append(@, id)],
                    current  |-> Number[d],
                    noChild  |-> Append(SubSeq(Number, d + 1, Len(Number)), id)]
  BY <1>1, AddNodePlaces
<1>3. /\ order \in Seq(Ids) /\ k \in Nat
      /\ Number \in Seq(ProcessIds) /\ Len(Number) = k + 1
      /\ \A a \in 1 .. Len(Number) : \A b \in 1 .. Len(Number) : Number[a] = Number[b] => a = b
      /\ id \in ProcessIds
  BY <1>1, NumberIs, IdsType DEF TreeTypeOK
<1>4. id \notin ToSet(Number)
  BY <1>1, NumberIs DEF Ids
<1>5. Number' = Append(Number, id)
  BY <1>1, NumberNext DEF configVars
<1>6. /\ Number' \in Seq(ProcessIds) /\ Len(Number)' = k + 2 /\ Number'[k + 2] = id
      /\ \A x \in 1 .. k + 1 : Number'[x] = Number[x] /\ Number[x] \in ProcessIds
  BY <1>3, <1>5
<1>7. Len(order)' = k + 1
  BY <1>3
<1>8. d \in Nat \ {0} /\ d <= k + 1
  BY <1>3
<1>9. ASSUME NEW i \in Nat
      PROVE  /\ i < d => Upto(i)' = Upto(i)
             /\ i >= d => Upto(i)' = k + 1 /\ Upto(i) = k
  BY <1>2, <1>3, <1>7, <1>8, UptoNext
<1>10. ASSUME NEW i \in Nat \ {0}, i # d
       PROVE  Children(i)' = Children(i)
  <2>1. Children(i)' = SubSeq(Append(order, id), Upto(i - 1)' + 1, Upto(i)')
    BY DEF Children
  <2>2. i - 1 \in Nat /\ i \in Nat
    OBVIOUS
  <2>3. Upto(i - 1) \in Nat /\ Upto(i) \in 0 .. k
    <3>1. Upto(i - 1) \in 0 .. k
      BY <1>3, <2>2, UptoType
    <3>2. Upto(i) \in 0 .. k
      BY <1>3, <2>2, UptoType
    <3> QED
      BY <3>1, <3>2
  <2>4. CASE i < d
    <3>1. Upto(i - 1)' = Upto(i - 1) /\ Upto(i)' = Upto(i)
      BY <1>8, <1>9, <2>2, <2>4
    <3>2. Upto(i - 1) + 1 \in Nat \ {0}
      BY <2>3
    <3>3. SubSeq(Append(order, id), Upto(i - 1) + 1, Upto(i))
            = SubSeq(order, Upto(i - 1) + 1, Upto(i))
      <4> DEFINE a == Upto(i - 1) + 1
                 b == Upto(i)
      <4>1. a \in Nat \ {0} /\ b \in 0 .. Len(order)
        BY <2>3, <3>2
      <4> HIDE DEF a, b
      <4>2. SubSeq(Append(order, id), a, b) = SubSeq(order, a, b)
        BY <1>3, <4>1, SegmentSame
      <4> QED
        BY <4>2 DEF a, b
    <3> QED
      BY <2>1, <3>1, <3>3 DEF Children
  <2>5. CASE i > d
    <3>1. i >= d /\ i - 1 >= d
      BY <1>8, <2>5
    <3>2. /\ Upto(i - 1)' = k + 1 /\ Upto(i - 1) = k
          /\ Upto(i)' = k + 1 /\ Upto(i) = k
      BY <1>9, <2>2, <3>1
    <3>3. SubSeq(Append(order, id), k + 1 + 1, k + 1) = << >> /\ SubSeq(order, k + 1, k) = << >>
      <4>1. k + 1 + 1 \in Int /\ k + 1 \in Int /\ k \in Int /\ k + 1 < k + 1 + 1 /\ k < k + 1
        BY <1>3
      <4> QED
        BY <4>1, SubSeqEmpty
    <3> QED
      BY <2>1, <3>2, <3>3 DEF Children
  <2> QED
    BY <1>8, <1>10, <2>2, <2>4, <2>5
<1>11. Children(d)' = Append(Children(d), id)
  <2>1. d - 1 \in Nat /\ d - 1 < d /\ d >= d /\ d \in Nat
    BY <1>8
  <2>2. Upto(d - 1)' = Upto(d - 1) /\ Upto(d)' = k + 1 /\ Upto(d) = k
    BY <1>9, <2>1
  <2>3. Upto(d - 1) \in 0 .. k
    BY <1>3, <2>1, UptoType
  <2>4. Upto(d - 1) + 1 \in 1 .. k + 1
    BY <1>3, <2>3
  <2>5. SubSeq(Append(order, id), Upto(d - 1) + 1, k + 1)
          = Append(SubSeq(order, Upto(d - 1) + 1, k), id)
    BY <1>3, <2>4, SegmentAppend
  <2> QED
    BY <2>2, <2>5 DEF Children
<1>12. /\ tree.children \in [ProcessIds -> Seq(ProcessIds)]
       /\ Number[d] \in ProcessIds
  BY <1>1, <1>6, <1>8 DEF TreeTypeOK
<1>13. \A n \in ProcessIds :
         tree'.children[n] = IF n = Number[d] THEN Append(tree.children[n], id)
                                              ELSE tree.children[n]
  BY <1>2, <1>12
<1>14. ASSUME NEW i \in 1 .. k + 2
       PROVE  tree'.children[Number'[i]] = Children(i)'
  <2>1. CASE i = d
    <3>1. tree.children[Number[d]] = Children(d)
      BY <1>1 DEF CompleteTree
    <3>2. Number'[i] = Number[d]
      BY <1>3, <1>6, <1>8, <2>1
    <3>3. tree'.children[Number[d]] = Append(tree.children[Number[d]], id)
      BY <1>12, <1>13
    <3> QED
      BY <1>11, <2>1, <3>1, <3>2, <3>3
  <2>2. CASE i # d /\ i \in 1 .. k + 1
    <3>1. Number[i] # Number[d]
      BY <1>3, <2>2
    <3>2. tree.children[Number[i]] = Children(i)
      BY <1>1, <1>3, <2>2 DEF CompleteTree
    <3>3. tree'.children[Number[i]] = tree.children[Number[i]]
      BY <1>6, <1>13, <2>2, <3>1
    <3> QED
      BY <1>6, <1>10, <2>2, <3>2, <3>3
  <2>3. CASE i = k + 2
    <3>1. id # Number[d]
      BY <1>3, <1>4 DEF ToSet
    <3>2. tree'.children[id] = << >>
      BY <1>1, <1>3, <1>4, <1>13, <3>1 DEF CompleteTree
    <3>3. Children(i)' = SubSeq(Append(order, id), Upto(i - 1)' + 1, Upto(i)')
      BY DEF Children
    <3>4. Upto(i - 1)' = k + 1 /\ Upto(i)' = k + 1
      BY <1>3, <1>8, <1>9, <2>3
    <3>5. SubSeq(Append(order, id), k + 1 + 1, k + 1) = << >>
      <4>1. k + 1 + 1 \in Int /\ k + 1 \in Int /\ k + 1 < k + 1 + 1
        BY <1>3
      <4> QED
        BY <4>1, SubSeqEmpty
    <3> QED
      BY <1>6, <2>3, <3>2, <3>3, <3>4, <3>5
  <2> QED
    BY <1>3, <2>1, <2>2, <2>3
<1>15. ASSUME NEW n \in ProcessIds \ ToSet(Number)'
       PROVE  tree'.children[n] = << >>
  <2>1. n \notin ToSet(Number) /\ n # Number[d]
    <3>1. DOMAIN Number = 1 .. k + 1 /\ DOMAIN Number' = 1 .. k + 2
      BY <1>3, <1>6, LenProperties
    <3>2. ToSet(Number)' = {Number'[x] : x \in 1 .. k + 2} /\ ToSet(Number) = {Number[x] : x \in 1 .. k + 1}
      BY <3>1 DEF ToSet
    <3>3. \A x \in 1 .. k + 1 : x \in 1 .. k + 2
      BY <1>3
    <3>4. \A x \in 1 .. k + 1 : n # Number[x]
      BY <1>6, <3>2, <3>3
    <3>5. d \in 1 .. k + 1
      BY <1>3, <1>8
    <3> QED
      BY <3>2, <3>4, <3>5
  <2> QED
    BY <1>1, <1>13, <2>1 DEF CompleteTree
<1>16. Append(SubSeq(Number, d + 1, Len(Number)), id) = SubSeq(Number', d + 1, k + 2)
  <2>1. d + 1 \in 1 .. Len(Number) + 1 /\ Len(Number) + 1 = k + 2
    BY <1>3, <1>8
  <2> QED
    BY <1>3, <1>5, <2>1, SegmentAppend
<1>17. CompleteTree'
  <2>1. d \in 1 .. k + 2 /\ (d - 1) * ChildNum <= k + 1 /\ k + 1 <= d * ChildNum
    <3>1. d * ChildNum \in Nat /\ (d - 1) * ChildNum \in Nat
      <4>1. d - 1 \in Nat /\ d \in Nat
        BY <1>8
      <4>2. (d - 1) * ChildNum \in Nat
        BY <4>1, Multiple
      <4> QED
        BY <4>1, <4>2, Multiple
    <3> QED
      BY <1>2, <1>3, <1>8, <3>1
  <2>2. /\ tree'.current = Number'[d]
        /\ tree'.noChild = SubSeq(Number', d + 1, k + 2)
    <3>1. Number'[d] = Number[d]
      BY <1>3, <1>6, <1>8
    <3>2. /\ tree'.current = Number[d]
          /\ tree'.noChild = Append(SubSeq(Number, d + 1, Len(Number)), id)
      <4> DEFINE c == [tree.children EXCEPT ![Number[d]] = Append(@, id)]
                 q == Append(SubSeq(Number, d + 1, Len(Number)), id)
      <4>1. tree' = [children |-> c, current |-> Number[d], noChild |-> q]
        BY <1>2
      <4> HIDE DEF c, q
      <4>2. tree'.current = Number[d] /\ tree'.noChild = q
        BY <4>1
      <4> QED
        BY <4>2 DEF q
    <3> QED
      BY <1>16, <3>1, <3>2
  <2> QED
    BY <1>6, <1>7, <1>14, <1>15, <2>1, <2>2 DEF CompleteTree
<1>18. tree' \in [children : [ProcessIds -> Seq(ProcessIds)], current : ProcessIds,
                  noChild : Seq(ProcessIds)]
  <2>1. [tree.children EXCEPT ![Number[d]] = Append(@, id)] \in [ProcessIds -> Seq(ProcessIds)]
    BY <1>3, <1>12
  <2>2. Append(SubSeq(Number, d + 1, Len(Number)), id) \in Seq(ProcessIds)
    <3>1. \A x \in d + 1 .. Len(Number) : Number[x] \in ProcessIds
      BY <1>3, <1>8
    <3>2. SubSeq(Number, d + 1, Len(Number)) \in Seq(ProcessIds)
      <4>1. d + 1 \in Int /\ Len(Number) \in Int
        BY <1>3, <1>8
      <4> QED
        BY <3>1, <4>1, SubSeqProperties
    <3> QED
      BY <1>3, <3>2
  <2> QED
    BY <1>2, <1>12, <2>1, <2>2
<1> QED
  BY <1>17, <1>18

LEMMA AddClientStep ==
  ASSUME TreeInv, AddClient
  PROVE  TreeInv'
<1> DEFINE k == Len(order)
<1>1. PICK id \in Ids \ ToSet(order) :
        /\ NextId(id) /\ order' = Append(order, id)
        /\ tree' = AddNode(tree, id, ChildNum)
  BY DEF AddClient, NextId
<1>2. /\ Configured /\ UNCHANGED <<root, configVars>>
      /\ UNCHANGED <<calls, answered, walking, queue>>
  BY DEF AddClient, callVars
<1>3. TreeTypeOK /\ PeersInv /\ CompleteTree
  BY DEF TreeInv
<1>4. Ids' = Ids /\ Busy' = Busy /\ Configured'
  BY <1>2 DEF configVars, Ids, Id2Node, Busy, Id, Configured
<1>5. PeersInv'
  BY <1>2, <1>3 DEF configVars, PeersInv, Before, Configured
<1>6. /\ CompleteTree'
      /\ tree' \in [children : [ProcessIds -> Seq(ProcessIds)], current : ProcessIds,
                    noChild : Seq(ProcessIds)]
  BY <1>1, <1>2, AddClientShape
<1>7. /\ k \in Nat /\ order \in Seq(Ids) /\ id \in ProcessIds
      /\ Number \in Seq(ProcessIds) /\ Len(Number) = k + 1
      /\ \A a \in 1 .. k : \A b \in 1 .. k : order[a] = order[b] => a = b
      /\ \A a \in 1 .. k : order[a] # id
      /\ id \notin ToSet(Number)
  <2>1. \A a \in 1 .. k : order[a] # id
    BY <1>1, <1>3 DEF ToSet, TreeTypeOK
  <2>2. id \in ProcessIds /\ id # Id(root)
    BY <1>3, IdsType DEF Ids
  <2> QED
    BY <1>3, <2>1, <2>2, NumberIs DEF TreeTypeOK
<1>8. /\ order' \in Seq(Ids) /\ Len(order)' = k + 1 /\ order'[k + 1] = id
      /\ \A a \in 1 .. k : order'[a] = order[a]
  BY <1>1, <1>7
<1>9. ToSet(order)' = ToSet(order) \cup {id}
  <2>1. ToSet(order)' = {order'[a] : a \in 1 .. k + 1}
    BY <1>8 DEF ToSet
  <2>2. ToSet(order) = {order[a] : a \in 1 .. k}
    BY <1>7 DEF ToSet
  <2>3. \A a \in 1 .. k : a \in 1 .. k + 1
    BY <1>7
  <2>4. \A a \in 1 .. k + 1 : a \in 1 .. k \/ a = k + 1
    BY <1>7
  <2>5. k + 1 \in 1 .. k + 1
    BY <1>7
  <2> QED
    BY <1>8, <2>1, <2>2, <2>3, <2>4, <2>5
<1>10. TreeTypeOK'
  <2>1. IsInjective(order)'
    <3>1. DOMAIN order' = 1 .. k + 1
      BY <1>8, LenProperties
    <3>2. ASSUME NEW a \in 1 .. k + 1, NEW b \in 1 .. k + 1, order'[a] = order'[b]
          PROVE  a = b
      <4>1. (a \in 1 .. k \/ a = k + 1) /\ (b \in 1 .. k \/ b = k + 1)
        BY <1>7
      <4> QED
        BY <1>7, <1>8, <3>2, <4>1
    <3> QED
      BY <3>1, <3>2 DEF IsInjective
  <2> QED
    BY <1>2, <1>3, <1>4, <1>6, <1>8, <2>1 DEF TreeTypeOK
<1>11. IdleFirst'
  <2>1. id \in Busy => Ids \ ToSet(order) \subseteq Busy
    BY <1>1 DEF NextId
  <2>2. IdleFirst
    BY DEF TreeInv
  <2>3. ASSUME NEW a \in 1 .. k + 1, order'[a] \in Busy
        PROVE  /\ \A b \in a + 1 .. k + 1 : order'[b] \in Busy
               /\ Ids \ (ToSet(order) \cup {id}) \subseteq Busy
    <3>1. CASE a \in 1 .. k
      <4>1. /\ \A b \in a + 1 .. k : order[b] \in Busy
            /\ Ids \ ToSet(order) \subseteq Busy
        BY <1>8, <2>2, <2>3, <3>1 DEF IdleFirst
      <4>2. \A b \in a + 1 .. k + 1 : b \in a + 1 .. k \/ b = k + 1
        BY <1>7
      <4>3. \A b \in a + 1 .. k : b \in 1 .. k
        BY <1>7, <3>1
      <4> QED
        BY <1>1, <1>8, <4>1, <4>2, <4>3
    <3>2. CASE a = k + 1
      <4>1. \A b \in a + 1 .. k + 1 : FALSE
        BY <1>7, <3>2
      <4> QED
        BY <1>8, <2>1, <2>3, <3>2, <4>1
    <3>3. a \in 1 .. k \/ a = k + 1
      BY <1>7
    <3> QED
      BY <3>1, <3>2, <3>3
  <2> QED
    BY <1>4, <1>8, <1>9, <2>3 DEF IdleFirst
<1>12. ~Built /\ walking = {} /\ queue = << >>
  BY StillBuilding
<1>13. WalkInv'
  BY <1>2, <1>12 DEF WalkInv
<1>14. Number' = Append(Number, id)
  BY <1>1, <1>2, <1>3, NumberNext
<1>15. /\ Number' \in Seq(ProcessIds) /\ Len(Number)' = k + 2
       /\ \A a \in 1 .. k + 1 : Number'[a] = Number[a] /\ Number[a] \in ProcessIds
  BY <1>7, <1>14
<1>16. CallsInv'
  <2>1. CallsInv /\ answered = [n \in ProcessIds |-> 0]
    BY <1>12 DEF TreeInv, CallsInv
  <2>2. Id(root)' = Id(root)
    BY <1>2 DEF Id
  <2>3. ASSUME NEW n \in ProcessIds \ ToSet(Number)'
        PROVE  calls[n] = 0
    <3>1. \A a \in 1 .. k + 1 : n # Number'[a]
      BY <1>7, <1>15 DEF ToSet
    <3>2. n \notin ToSet(Number)
      BY <1>7, <1>15, <3>1 DEF ToSet
    <3> QED
      BY <2>1, <3>2 DEF CallsInv
  <2>4. ASSUME NEW a \in 1 .. k + 1
        PROVE  calls[order'[a]] = answered[Number'[(a - 1) \div ChildNum + 1]]
    <3> DEFINE p == (a - 1) \div ChildNum + 1
    <3>1. p \in 1 .. a
      <4>1. a \in Nat \ {0}
        BY <1>7
      <4> QED
        BY <4>1, ParentOf
    <3> HIDE DEF p
    <3>2. Number'[p] \in ProcessIds /\ Number'[p] = Number[p]
      BY <1>7, <1>15, <3>1
    <3>3. answered[Number'[p]] = 0 /\ answered[Number[p]] = 0
      BY <2>1, <3>2
    <3>4. CASE a \in 1 .. k
      <4>1. calls[order[a]] = answered[Number[p]]
        BY <2>1, <3>4 DEF CallsInv, p
      <4> QED
        BY <1>8, <3>3, <3>4, <4>1 DEF p
    <3>5. CASE a = k + 1
      <4>1. calls[id] = 0
        BY <1>7, <2>1 DEF CallsInv
      <4> QED
        BY <1>8, <3>3, <3>5, <4>1 DEF p
    <3>6. a \in 1 .. k \/ a = k + 1
      BY <1>7
    <3> QED
      BY <3>4, <3>5, <3>6 DEF p
  <2>5. Len(order)' = k + 1
    BY <1>8
  <2> QED
    BY <1>2, <2>1, <2>2, <2>3, <2>4, <2>5 DEF CallsInv
<1> QED
  BY <1>5, <1>6, <1>10, <1>11, <1>13, <1>16 DEF TreeInv

LEMMA TreeInitInv ==
  ASSUME TreeInit
  PROVE  TreeInv
<1>1. /\ root \in Processes /\ order = << >> /\ tree = NewTree(Id(root), ProcessIds)
      /\ calls = [n \in ProcessIds |-> IF n = Id(root) THEN 1 ELSE 0]
      /\ answered = [n \in ProcessIds |-> 0]
      /\ walking = {} /\ queue = << >>
  BY DEF TreeInit
<1>2. PeersInv
  BY PeersInitInv DEF TreeInit
<1>3. Id(root) \in ProcessIds
  BY <1>1 DEF ProcessIds
<1>4. TreeTypeOK
  <2>1. order \in Seq(Ids) /\ IsInjective(order) /\ queue \in Seq(ProcessIds)
    BY <1>1 DEF IsInjective
  <2>2. tree \in [children : [ProcessIds -> Seq(ProcessIds)], current : ProcessIds,
                  noChild : Seq(ProcessIds)]
    BY <1>1, <1>3 DEF NewTree
  <2>3. calls \in [ProcessIds -> 0 .. 1] /\ answered \in [ProcessIds -> 0 .. 1]
    BY <1>1
  <2> QED
    BY <1>1, <2>1, <2>2, <2>3 DEF TreeTypeOK
<1>5. Len(order) = 0 /\ Len(Number) = 1 /\ Number[1] = Id(root) /\ ToSet(Number) = {Id(root)}
  <2>1. Len(order) = 0 /\ ToSet(order) = {}
    BY <1>1 DEF ToSet
  <2> QED
    BY <1>2, <1>4, <2>1, NumberIs
<1>6. tree.children = [n \in ProcessIds |-> << >>] /\ tree.current = Id(root) /\ tree.noChild = << >>
  BY <1>1 DEF NewTree
<1>7. CompleteTree
  <2>1. Children(1) = << >>
    <3>1. Len(order) \in Nat /\ 0 \in Nat /\ 1 \in Nat /\ 1 - 1 = 0
      BY <1>5
    <3>2. Upto(0) = 0 /\ Upto(1) \in 0 .. 0
      BY <1>5, <3>1, UptoType
    <3>3. Children(1) = SubSeq(order, 0 + 1, 0)
      BY <3>1, <3>2 DEF Children
    <3>4. SubSeq(order, 0 + 1, 0) = << >>
      BY SubSeqEmpty
    <3> QED
      BY <3>3, <3>4
  <2>2. SubSeq(Number, 1 + 1, 1) = << >>
    BY SubSeqEmpty
  <2>3. (1 - 1) * ChildNum <= 0 /\ 0 <= 1 * ChildNum
    BY ChildNumType
  <2>4. \A i \in 1 .. Len(Number) : i = 1
    BY <1>5
  <2>5. \A i \in 1 .. Len(Number) : tree.children[Number[i]] = Children(i)
    BY <1>3, <1>5, <1>6, <2>1, <2>4
  <2>6. 1 \in 1 .. Len(Number)
    BY <1>5
  <2> QED
    BY <1>5, <1>6, <2>2, <2>3, <2>5, <2>6 DEF CompleteTree
<1>8. IdleFirst
  BY <1>5 DEF IdleFirst
<1>9. WalkInv
  BY <1>1 DEF WalkInv
<1>10. CallsInv
  BY <1>1, <1>3, <1>5 DEF CallsInv
<1> QED
  BY <1>2, <1>4, <1>7, <1>8, <1>9, <1>10 DEF TreeInv

LEMMA InitConfigStep ==
  ASSUME TreeInv, InitConfig, UNCHANGED <<root, treeVars, callVars>>
  PROVE  TreeInv'
<1>1. ~Configured
  BY HostsType DEF InitConfig, AddPeer, NextHost, Configured
<1>2. /\ order = << >> /\ order' = order /\ tree' = tree /\ root' = root
      /\ UNCHANGED <<calls, answered, walking, queue>>
  BY <1>1 DEF TreeInv, TreeTypeOK, treeVars, callVars
<1>3. PeersInv'
  BY PeersStep DEF TreeInv
<1>4. Id(root)' = Id(root) /\ Number' = Number
  BY <1>2 DEF Id, Number
<1>5. TreeTypeOK'
  BY <1>2 DEF TreeInv, TreeTypeOK
<1>6. CompleteTree'
  <2>1. \A i : Children(i)' = Children(i)
    BY <1>2 DEF Children, Upto
  <2> QED
    BY <1>2, <1>4, <2>1 DEF TreeInv, CompleteTree
<1>7. IdleFirst'
  <2>1. \A a \in 1 .. Len(order)' : FALSE
    BY <1>2
  <2> QED
    BY <2>1 DEF IdleFirst
<1>8. walking = {} /\ ~Built
  BY <1>1 DEF TreeInv, WalkInv, Built
<1>9. WalkInv'
  BY <1>2, <1>8 DEF TreeInv, WalkInv
<1>10. CallsInv'
  BY <1>2, <1>4, <1>8 DEF TreeInv, CallsInv
<1> QED
  BY <1>3, <1>5, <1>6, <1>7, <1>9, <1>10 DEF TreeInv

-----------------------------------------------------------------------------
(* The broadcast.                                                          *)

\* The tree stays as it is.
LEMMA BuiltFrame ==
  ASSUME TreeInv, UNCHANGED <<root, configVars, treeVars>>
  PROVE  /\ PeersInv' /\ CompleteTree' /\ IdleFirst'
         /\ Built' = Built /\ Number' = Number /\ Id(root)' = Id(root) /\ Len(order)' = Len(order)
         /\ order' = order
         /\ \A i : Upto(i)' = Upto(i)
         /\ calls' \in [ProcessIds -> 0 .. 1] /\ answered' \in [ProcessIds -> 0 .. 1]
              /\ queue' \in Seq(ProcessIds) => TreeTypeOK'
<1>1. /\ root' = root /\ order' = order /\ tree' = tree
      /\ host' = host /\ j' = j /\ PeerIds' = PeerIds
  BY DEF configVars, treeVars
<1>2. /\ Ids' = Ids /\ Busy' = Busy /\ Id(root)' = Id(root) /\ Number' = Number
      /\ Built' = Built /\ Configured' = Configured
  BY <1>1 DEF Ids, Id2Node, Busy, Id, Number, Built, Configured
<1>3. \A i : Upto(i)' = Upto(i) /\ Children(i)' = Children(i)
  BY <1>1 DEF Upto, Children
<1>4. PeersInv'
  BY <1>1, <1>2 DEF TreeInv, PeersInv, Before
<1>5. CompleteTree'
  BY <1>1, <1>2, <1>3 DEF TreeInv, CompleteTree
<1>6. IdleFirst'
  BY <1>1, <1>2 DEF TreeInv, IdleFirst
<1>7. calls' \in [ProcessIds -> 0 .. 1] /\ answered' \in [ProcessIds -> 0 .. 1]
        /\ queue' \in Seq(ProcessIds) => TreeTypeOK'
  BY <1>1, <1>2 DEF TreeInv, TreeTypeOK
<1> QED
  BY <1>1, <1>2, <1>3, <1>4, <1>5, <1>6, <1>7

LEMMA StartWalkStep ==
  ASSUME TreeInv, NEW n \in ProcessIds, StartWalk(n)
  PROVE  TreeInv'
<1>1. /\ Built /\ answered[n] < calls[n]
      /\ walking' = {n} /\ queue' = <<Id(root)>>
      /\ UNCHANGED <<root, configVars, treeVars>>
      /\ UNCHANGED <<calls, answered>>
  BY DEF StartWalk
<1>2. /\ PeersInv' /\ CompleteTree' /\ IdleFirst'
      /\ Built' = Built /\ Number' = Number /\ Id(root)' = Id(root) /\ Len(order)' = Len(order)
      /\ order' = order
      /\ \A i : Upto(i)' = Upto(i)
  BY <1>1, BuiltFrame
<1>3. Id(root) \in ProcessIds
  BY DEF TreeInv, TreeTypeOK, ProcessIds
<1>4. TreeTypeOK'
  <2>1. queue' \in Seq(ProcessIds)
    BY <1>1, <1>3
  <2>2. calls' \in [ProcessIds -> 0 .. 1] /\ answered' \in [ProcessIds -> 0 .. 1]
    BY <1>1 DEF TreeInv, TreeTypeOK
  <2> QED
    BY <1>1, <2>1, <2>2, BuiltFrame
<1>5. WalkInv'
  <2>1. Len(order) \in Nat /\ Number \in Seq(ProcessIds) /\ Number[1] = Id(root) /\ Len(Number) = Len(order) + 1
    BY NumberIs DEF TreeInv
  <2>2. Upto(0) = 0
    BY <2>1, UptoType
  <2>3. SubSeq(Number, 0 + 1, 0 + 1) = <<Id(root)>>
    <3>1. \A i \in 1 .. 1 : Number[i] \in ProcessIds
      BY <1>3, <2>1
    <3>2. /\ SubSeq(Number, 1, 1) \in Seq(ProcessIds)
          /\ Len(SubSeq(Number, 1, 1)) = 1
          /\ SubSeq(Number, 1, 1)[1] = Number[1]
      <4>1. /\ SubSeq(Number, 1, 1) \in Seq(ProcessIds)
            /\ Len(SubSeq(Number, 1, 1)) = IF 1 <= 1 THEN 1 - 1 + 1 ELSE 0
            /\ \A i \in 1 .. 1 - 1 + 1 : SubSeq(Number, 1, 1)[i] = Number[1 + i - 1]
        BY <3>1, SubSeqProperties
      <4>2. 1 \in 1 .. 1 - 1 + 1 /\ 1 + 1 - 1 = 1
        OBVIOUS
      <4> QED
        BY <4>1, <4>2
    <3>3. <<Id(root)>> \in Seq(ProcessIds) /\ Len(<<Id(root)>>) = 1 /\ <<Id(root)>>[1] = Id(root)
      BY <1>3
    <3>4. SubSeq(Number, 1, 1) = <<Id(root)>>
      <4> DEFINE u == SubSeq(Number, 1, 1)
                 w == <<Id(root)>>
      <4>1. /\ u \in Seq(ProcessIds) /\ w \in Seq(ProcessIds)
            /\ Len(u) = 1 /\ Len(w) = 1 /\ u[1] = w[1]
        BY <2>1, <3>2, <3>3
      <4> HIDE DEF u, w
      <4>2. \A i \in 1 .. Len(u) : u[i] = w[i]
        BY <4>1
      <4>3. u = w
        BY <4>1, <4>2, SeqEqual
      <4> QED
        BY <4>3 DEF u, w
    <3> QED
      BY <3>4
  <2>4. \A i \in 1 .. 0 : Number[i] # n
    OBVIOUS
  <2>5. 0 \in 0 .. Len(order)
    BY <2>1
  <2> QED
    BY <1>1, <1>2, <2>2, <2>3, <2>4, <2>5 DEF WalkInv
<1>6. CallsInv'
  BY <1>1, <1>2 DEF TreeInv, CallsInv
<1> QED
  BY <1>2, <1>4, <1>5, <1>6 DEF TreeInv

LEMMA NumberSegment ==
  ASSUME TreeTypeOK, PeersInv, NEW a \in Nat, NEW b \in 0 .. Len(order)
  PROVE  SubSeq(order, a + 1, b) = SubSeq(Number, a + 2, b + 1)
<1> DEFINE u == SubSeq(order, a + 1, b)
           w == SubSeq(Number, a + 2, b + 1)
<1>1. /\ Len(order) \in Nat /\ Number \in Seq(ProcessIds) /\ Len(Number) = Len(order) + 1
      /\ \A i \in 1 .. Len(order) : Number[i + 1] = order[i] /\ order[i] \in ProcessIds
  BY NumberIs, IdsType
<1>2. b \in Nat /\ b <= Len(order)
  BY <1>1
<1>3. \A i \in a + 1 .. b : order[i] \in ProcessIds
  BY <1>1, <1>2
<1>4. \A i \in a + 2 .. b + 1 : Number[i] \in ProcessIds
  BY <1>1, <1>2
<1>5. /\ u \in Seq(ProcessIds) /\ Len(u) = IF a < b THEN b - a ELSE 0
      /\ \A i \in 1 .. b - a : u[i] = order[a + i]
  <2>1. /\ u \in Seq(ProcessIds) /\ Len(u) = IF a + 1 <= b THEN b - (a + 1) + 1 ELSE 0
        /\ \A i \in 1 .. b - (a + 1) + 1 : u[i] = order[a + 1 + i - 1]
    BY <1>2, <1>3, SubSeqProperties
  <2> HIDE DEF u
  <2> QED
    BY <1>2, <2>1
<1>6. /\ w \in Seq(ProcessIds) /\ Len(w) = IF a < b THEN b - a ELSE 0
      /\ \A i \in 1 .. b - a : w[i] = Number[a + i + 1]
  <2>1. /\ w \in Seq(ProcessIds) /\ Len(w) = IF a + 2 <= b + 1 THEN b + 1 - (a + 2) + 1 ELSE 0
        /\ \A i \in 1 .. b + 1 - (a + 2) + 1 : w[i] = Number[a + 2 + i - 1]
    BY <1>2, <1>4, SubSeqProperties
  <2> HIDE DEF w
  <2> QED
    BY <1>2, <2>1
<1> HIDE DEF u, w
<1>7. ASSUME NEW i \in 1 .. Len(u)
      PROVE  u[i] = w[i]
  <2>1. i \in 1 .. b - a /\ a + i \in 1 .. Len(order)
    BY <1>2, <1>5
  <2> QED
    BY <1>1, <1>5, <1>6, <2>1
<1>8. u = w
  BY <1>5, <1>6, <1>7, SeqEqual
<1> QED
  BY <1>8 DEF u, w

\* While a node walks, its queue begins with the next node of the tree.
LEMMA Walking ==
  ASSUME TreeInv, NEW n \in ProcessIds, NEW v \in 0 .. Len(order),
         answered[n] < calls[n], \A i \in 1 .. v : Number[i] # n,
         queue = SubSeq(Number, v + 1, Upto(v) + 1)
  PROVE  /\ queue # << >>
         /\ Head(queue) = Number[v + 1]
         /\ Tail(queue) = SubSeq(Number, v + 2, Upto(v) + 1)
         /\ \E x \in v + 1 .. Len(Number) : Number[x] = n
<1>1. /\ Len(order) \in Nat /\ Number \in Seq(ProcessIds) /\ Len(Number) = Len(order) + 1
  BY NumberIs DEF TreeInv
<1>2. v \in Nat /\ v <= Len(order) /\ Upto(v) \in 0 .. Len(order) /\ v <= Upto(v)
  BY <1>1, UptoType
<1>3. v + 1 \in 1 .. Len(Number) /\ Upto(v) + 1 \in v + 1 .. Len(Number) /\ v + 1 + 1 = v + 2
  BY <1>1, <1>2
<1>4. Head(queue) = Number[v + 1] /\ Tail(queue) = SubSeq(Number, v + 2, Upto(v) + 1)
  BY <1>1, <1>3, HeadTailOfSubSeq
<1>5. queue # << >>
  <2>1. \A i \in v + 1 .. Upto(v) + 1 : Number[i] \in ProcessIds
    BY <1>1, <1>3
  <2> DEFINE a == v + 1
             b == Upto(v) + 1
             q == SubSeq(Number, a, b)
  <2>2. a \in Int /\ b \in Int /\ a <= b
    BY <1>2
  <2>3. \A i \in a .. b : Number[i] \in ProcessIds
    BY <2>1
  <2> HIDE DEF a, b
  <2>4. q \in Seq(ProcessIds) /\ Len(q) = IF a <= b THEN b - a + 1 ELSE 0
    BY <2>2, <2>3, SubSeqProperties
  <2> HIDE DEF q
  <2>5. Len(q) >= 1
    BY <2>2, <2>4
  <2>6. q # << >>
    BY <2>4, <2>5
  <2> QED
    BY <2>6 DEF q, a, b
<1>6. \E x \in v + 1 .. Len(Number) : Number[x] = n
  <2>1. calls[n] # 0
    <3>1. calls[n] \in 0 .. 1 /\ answered[n] \in 0 .. 1
      BY DEF TreeInv, TreeTypeOK
    <3> QED
      BY <3>1
  <2>2. n \in ToSet(Number)
    BY <2>1 DEF TreeInv, CallsInv
  <2>3. PICK x \in 1 .. Len(Number) : Number[x] = n
    BY <1>1, <2>2 DEF ToSet
  <2>4. x \in v + 1 .. Len(Number)
    BY <1>2, <2>3
  <2> QED
    BY <2>3, <2>4
<1> QED
  BY <1>4, <1>5, <1>6

LEMMA VisitStep ==
  ASSUME TreeInv, Visit
  PROVE  TreeInv'
<1>1. /\ queue # << >> /\ ~Found
      /\ queue' = Tail(queue) \o tree.children[Head(queue)]
      /\ UNCHANGED <<root, configVars, treeVars>>
      /\ UNCHANGED <<calls, answered, walking>>
  BY DEF Visit
<1>2. PICK n \in ProcessIds, v \in 0 .. Len(order) :
        /\ Built /\ walking = {n} /\ answered[n] < calls[n]
        /\ \A i \in 1 .. v : Number[i] # n
        /\ queue = SubSeq(Number, v + 1, Upto(v) + 1)
  BY <1>1 DEF TreeInv, WalkInv
<1>3. /\ Head(queue) = Number[v + 1]
      /\ Tail(queue) = SubSeq(Number, v + 2, Upto(v) + 1)
      /\ \E x \in v + 1 .. Len(Number) : Number[x] = n
  BY <1>2, Walking
<1>4. Number[v + 1] # n
  BY <1>1, <1>2, <1>3 DEF Found
<1>5. /\ Len(order) \in Nat /\ Number \in Seq(ProcessIds) /\ Len(Number) = Len(order) + 1
      /\ TreeTypeOK /\ PeersInv /\ order \in Seq(Ids)
  BY NumberIs DEF TreeInv, TreeTypeOK
<1>6. v + 1 \in 0 .. Len(order)
  BY <1>3, <1>4, <1>5
<1>7. \A i \in 1 .. v + 1 : Number[i] # n
  <2>1. \A i \in 1 .. v + 1 : i \in 1 .. v \/ i = v + 1
    BY <1>5
  <2> QED
    BY <1>2, <1>4, <2>1
<1>8. /\ Upto(v) \in 0 .. Len(order) /\ v <= Upto(v) /\ Upto(v) <= Upto(v + 1)
      /\ Upto(v + 1) \in 0 .. Len(order)
  <2>1. v \in Nat /\ v + 1 \in Nat /\ v <= Len(order)
    BY <1>5
  <2>2. Upto(v + 1) \in 0 .. Len(order)
    BY <1>5, <2>1, UptoType
  <2> QED
    BY <1>5, <2>1, <2>2, UptoType
<1>9. tree.children[Head(queue)] = SubSeq(Number, Upto(v) + 2, Upto(v + 1) + 1)
  <2>1. v + 1 \in 1 .. Len(Number)
    BY <1>5, <1>6
  <2>2. tree.children[Number[v + 1]] = Children(v + 1)
    BY <2>1 DEF TreeInv, CompleteTree
  <2>3. Children(v + 1) = SubSeq(order, Upto(v) + 1, Upto(v + 1))
    <3>1. v = v + 1 - 1
      BY <1>5
    <3> QED
      BY <3>1, ChildrenFrom
  <2>4. SubSeq(order, Upto(v) + 1, Upto(v + 1)) = SubSeq(Number, Upto(v) + 2, Upto(v + 1) + 1)
    <3>1. Upto(v) \in Nat
      BY <1>8
    <3> QED
      BY <1>5, <1>8, <3>1, NumberSegment
  <2> QED
    BY <1>3, <2>2, <2>3, <2>4
<1>10. queue' = SubSeq(Number, v + 2, Upto(v + 1) + 1)
  <2> DEFINE b == Upto(v) + 1
             c == Upto(v + 1) + 1
  <2>1. /\ v + 2 \in Nat \ {0} /\ b \in Nat /\ c \in 0 .. Len(Number)
        /\ v + 2 <= b + 1 /\ b <= c
    BY <1>5, <1>8
  <2>2. Upto(v) + 2 = b + 1
    BY <1>8
  <2> HIDE DEF b, c
  <2>3. SubSeq(Number, v + 2, b) \o SubSeq(Number, b + 1, c) = SubSeq(Number, v + 2, c)
    BY <1>5, <2>1, SegmentsJoin
  <2> QED
    BY <1>1, <1>3, <1>9, <2>2, <2>3 DEF b, c
<1>11. /\ PeersInv' /\ CompleteTree' /\ IdleFirst'
       /\ Built' = Built /\ Number' = Number /\ Id(root)' = Id(root) /\ Len(order)' = Len(order)
       /\ order' = order
       /\ \A i : Upto(i)' = Upto(i)
  BY <1>1, BuiltFrame
<1>12. TreeTypeOK'
  <2>1. queue' \in Seq(ProcessIds)
    <3>1. \A i \in v + 2 .. Upto(v + 1) + 1 : Number[i] \in ProcessIds
      BY <1>5, <1>8
    <3>2. v + 2 \in Int /\ Upto(v + 1) + 1 \in Int
      BY <1>8
    <3> QED
      BY <1>10, <3>1, <3>2, SubSeqProperties
  <2>2. calls' \in [ProcessIds -> 0 .. 1] /\ answered' \in [ProcessIds -> 0 .. 1]
    BY <1>1 DEF TreeInv, TreeTypeOK
  <2> QED
    BY <1>1, <2>1, <2>2, BuiltFrame
<1>13. WalkInv'
  <2>1. v + 1 + 1 = v + 2
    BY <1>5
  <2>2. queue' = SubSeq(Number, v + 1 + 1, Upto(v + 1) + 1)
    BY <1>10, <2>1
  <2> QED
    BY <1>1, <1>2, <1>6, <1>7, <1>11, <2>2 DEF WalkInv
<1>14. CallsInv'
  BY <1>1, <1>11 DEF TreeInv, CallsInv
<1> QED
  BY <1>11, <1>12, <1>13, <1>14 DEF TreeInv

Parent(k) == (k - 1) \div ChildNum + 1

\* A node is among the children of its parent once, and of nobody else.
LEMMA BetweenIsParent ==
  ASSUME Len(order) \in Nat, NEW i \in Nat \ {0}, NEW k \in 1 .. Len(order)
  PROVE  Upto(i - 1) < k /\ k <= Upto(i) <=> Parent(k) = i
<1>1. k \in Nat \ {0} /\ k \in Nat /\ k <= Len(order)
  OBVIOUS
<1>2. /\ Parent(k) \in Nat \ {0}
      /\ (Parent(k) - 1) * ChildNum < k /\ k <= Parent(k) * ChildNum
  <2> DEFINE p == Parent(k)
  <2>1. p = (k - 1) \div ChildNum + 1
    BY DEF Parent
  <2> HIDE DEF p
  <2>2. p \in 1 .. k /\ (p - 1) * ChildNum < k /\ k <= p * ChildNum
    BY <1>1, <2>1, ParentOf
  <2>3. p \in Nat \ {0}
    BY <1>1, <2>2
  <2> QED
    BY <2>2, <2>3 DEF p
<1>3. i * ChildNum \in Nat /\ (i - 1) * ChildNum \in Nat
  <2>1. i - 1 \in Nat /\ i \in Nat
    OBVIOUS
  <2>2. (i - 1) * ChildNum \in Nat
    BY <2>1, Multiple
  <2> QED
    BY <2>1, <2>2, Multiple
<1>4. Upto(i) = IF i * ChildNum < Len(order) THEN i * ChildNum ELSE Len(order)
  BY DEF Upto
<1>5. Upto(i - 1) = IF (i - 1) * ChildNum < Len(order) THEN (i - 1) * ChildNum ELSE Len(order)
  BY DEF Upto
<1>6. Upto(i - 1) < k /\ k <= Upto(i) <=> (i - 1) * ChildNum < k /\ k <= i * ChildNum
  BY <1>1, <1>3, <1>4, <1>5
<1>7. (i - 1) * ChildNum < k /\ k <= i * ChildNum => Parent(k) = i
  <2> DEFINE p == Parent(k)
  <2> HIDE DEF p
  <2>1. p \in Nat \ {0} /\ (p - 1) * ChildNum < k /\ k <= p * ChildNum
    BY <1>2 DEF p
  <2>2. (i - 1) * ChildNum < k /\ k <= i * ChildNum => p = i
    BY <1>1, <2>1, OneParent
  <2> QED
    BY <2>2 DEF p
<1> QED
  BY <1>2, <1>6, <1>7

LEMMA HowOften ==
  ASSUME TreeInv, NEW i \in 1 .. Len(Number), NEW m
  PROVE  LET times == Cardinality({x \in DOMAIN Children(i) : Children(i)[x] = m})
         IN  /\ m \notin ToSet(order) => times = 0
             /\ \A k \in 1 .. Len(order) :
                  m = order[k] => times = IF Parent(k) = i THEN 1 ELSE 0
<1> DEFINE at == {x \in DOMAIN Children(i) : Children(i)[x] = m}
           a == Upto(i - 1)
           b == Upto(i)
<1>1. /\ Len(order) \in Nat /\ order \in Seq(Ids) /\ i \in Nat \ {0}
      /\ \A x \in 1 .. Len(order) : \A y \in 1 .. Len(order) : order[x] = order[y] => x = y
  <2>1. TreeTypeOK /\ PeersInv
    BY DEF TreeInv
  <2>2. i \in Nat \ {0}
    OBVIOUS
  <2>3. order \in Seq(Ids)
    BY <2>1 DEF TreeTypeOK
  <2> QED
    BY <2>1, <2>2, <2>3, NumberIs
<1>2. /\ DOMAIN Children(i) = 1 .. b - a
      /\ \A x \in 1 .. b - a : a + x \in 1 .. Len(order) /\ Children(i)[x] = order[a + x]
  <2>1. /\ Children(i) \in Seq(Ids) /\ Len(Children(i)) = b - a
        /\ \A x \in 1 .. b - a : a + x \in 1 .. Len(order) /\ Children(i)[x] = order[a + x]
    BY <1>1, ChildrenAre
  <2>2. DOMAIN Children(i) = 1 .. Len(Children(i))
    BY <2>1, LenProperties
  <2> QED
    BY <2>1, <2>2
<1>3. a \in Nat /\ b \in Nat
  <2>1. i - 1 \in Nat /\ i \in Nat
    BY <1>1
  <2>2. a \in 0 .. Len(order)
    BY <1>1, <2>1, UptoType
  <2>3. b \in 0 .. Len(order)
    BY <1>1, <2>1, UptoType
  <2> QED
    BY <1>1, <2>2, <2>3
<1>4. ASSUME m \notin ToSet(order)
      PROVE  Cardinality(at) = 0
  <2>1. at = {}
    BY <1>1, <1>2, <1>4 DEF ToSet
  <2> QED
    BY <2>1, FS_EmptySet
<1>5. ASSUME NEW k \in 1 .. Len(order), m = order[k]
      PROVE  Cardinality(at) = IF Parent(k) = i THEN 1 ELSE 0
  <2>1. a < k /\ k <= b <=> Parent(k) = i
    BY <1>1, BetweenIsParent
  <2> HIDE DEF a, b
  <2>2. \A x \in 1 .. b - a : Children(i)[x] = m <=> a + x = k
    BY <1>1, <1>2, <1>5
  <2>3. CASE Parent(k) = i
    <3>1. k - a \in 1 .. b - a /\ a + (k - a) = k
      BY <1>1, <1>3, <2>1, <2>3
    <3>2. \A x \in 1 .. b - a : a + x = k <=> x = k - a
      BY <1>1, <1>3
    <3>3. at = {k - a}
      BY <1>2, <2>2, <3>1, <3>2
    <3> QED
      BY <2>3, <3>3, FS_Singleton
  <2>4. CASE Parent(k) # i
    <3>1. \A x \in 1 .. b - a : a + x # k
      BY <1>1, <1>3, <2>1, <2>4
    <3>2. at = {}
      BY <1>2, <2>2, <3>1
    <3> QED
      BY <2>4, <3>2, FS_EmptySet
  <2> QED
    BY <2>3, <2>4
<1> QED
  BY <1>4, <1>5

LEMMA ForwardStep ==
  ASSUME TreeInv, NEW n \in ProcessIds, Forward(n)
  PROVE  TreeInv'
<1> DEFINE k == Len(order)
           Times(m) == Cardinality({x \in DOMAIN tree.children[n] : tree.children[n][x] = m})
<1>1. PICK v \in 0 .. k :
        /\ Built /\ walking = {n} /\ answered[n] < calls[n]
        /\ \A i \in 1 .. v : Number[i] # n
        /\ queue = SubSeq(Number, v + 1, Upto(v) + 1)
  BY DEF Forward, TreeInv, WalkInv
<1>2. queue # << >> /\ \E x \in v + 1 .. Len(Number) : Number[x] = n
  BY <1>1, Walking
<1>3. /\ k \in Nat /\ Number \in Seq(ProcessIds) /\ Len(Number) = k + 1
      /\ Number[1] = Id(root)
      /\ \A a \in 1 .. k : Number[a + 1] = order[a] /\ order[a] \in Ids
      /\ \A a \in 1 .. Len(Number) : \A b \in 1 .. Len(Number) : Number[a] = Number[b] => a = b
      /\ ToSet(Number) = {Id(root)} \cup ToSet(order)
      /\ TreeTypeOK /\ PeersInv /\ CallsInv
  BY NumberIs DEF TreeInv
<1>4. PICK i \in 1 .. Len(Number) : Number[i] = n
  <2>1. \A x \in v + 1 .. Len(Number) : x \in 1 .. Len(Number)
    BY <1>3
  <2> QED
    BY <1>2, <2>1
<1>5. /\ calls' = [m \in ProcessIds |-> calls[m] + Times(m)]
      /\ answered' = [answered EXCEPT ![n] = @ + 1]
      /\ walking' = {} /\ queue' = << >>
      /\ UNCHANGED <<root, configVars, treeVars>>
  BY <1>2 DEF Forward
<1>6. tree.children[n] = Children(i)
  BY <1>4 DEF TreeInv, CompleteTree
<1>7. ASSUME NEW m
      PROVE  /\ m \notin ToSet(order) => Times(m) = 0
             /\ \A a \in 1 .. k : m = order[a] => Times(m) = IF Parent(a) = i THEN 1 ELSE 0
  BY <1>4, <1>6, HowOften
<1> HIDE DEF Times
<1>8. /\ calls \in [ProcessIds -> 0 .. 1] /\ answered \in [ProcessIds -> 0 .. 1]
  BY <1>3 DEF TreeTypeOK
<1>9. answered[n] = 0 /\ calls[n] = 1
  BY <1>1, <1>8
<1>10. /\ answered' \in [ProcessIds -> 0 .. 1]
       /\ \A m \in ProcessIds : answered'[m] = IF m = n THEN 1 ELSE answered[m]
  BY <1>5, <1>8, <1>9
<1>11. ASSUME NEW a \in 1 .. k
       PROVE  /\ Parent(a) \in 1 .. Len(Number)
              /\ Number[Parent(a)] \in ProcessIds
              /\ Number[Parent(a)] = n <=> Parent(a) = i
              /\ calls[order[a]] = answered[Number[Parent(a)]]
              /\ order[a] \in ProcessIds
  <2>1. Parent(a) \in 1 .. a
    <3> DEFINE p == Parent(a)
    <3>1. p = (a - 1) \div ChildNum + 1
      BY DEF Parent
    <3> HIDE DEF p
    <3>2. a \in Nat \ {0}
      BY <1>3
    <3>3. p \in 1 .. a
      BY <3>1, <3>2, ParentOf
    <3> QED
      BY <3>3 DEF p
  <2>2. Parent(a) \in 1 .. Len(Number)
    BY <1>3, <2>1
  <2>3. calls[order[a]] = answered[Number[Parent(a)]]
    BY <1>3 DEF CallsInv, Parent
  <2>4. order[a] \in ProcessIds
    BY <1>3, IdsType
  <2> QED
    BY <1>3, <1>4, <2>2, <2>3, <2>4
<1>12. ASSUME NEW a \in 1 .. k
       PROVE  calls'[order[a]] = answered'[Number[Parent(a)]]
  <2>1. calls'[order[a]] = calls[order[a]] + Times(order[a])
    BY <1>5, <1>11
  <2>2. Times(order[a]) = IF Parent(a) = i THEN 1 ELSE 0
    BY <1>7
  <2>3. answered[Number[Parent(a)]] \in 0 .. 1
    BY <1>8, <1>11
  <2>4. CASE Parent(a) = i
    <3>1. Number[Parent(a)] = n /\ calls[order[a]] = 0
      BY <1>9, <1>11, <2>4
    <3>2. answered'[Number[Parent(a)]] = 1
      BY <1>10, <3>1
    <3> QED
      BY <2>1, <2>2, <2>4, <3>1, <3>2
  <2>5. CASE Parent(a) # i
    <3>1. answered'[Number[Parent(a)]] = answered[Number[Parent(a)]]
      BY <1>10, <1>11, <2>5
    <3> QED
      BY <1>11, <2>1, <2>2, <2>3, <2>5, <3>1
  <2> QED
    BY <2>4, <2>5
<1>13. ASSUME NEW m \in ProcessIds \ ToSet(order)
       PROVE  calls'[m] = calls[m]
  <2>1. Times(m) = 0 /\ calls[m] \in 0 .. 1
    BY <1>7, <1>8
  <2> QED
    BY <1>5, <2>1
<1>14. \A m \in ToSet(order) : \E a \in 1 .. k : m = order[a]
  BY <1>3 DEF ToSet, TreeTypeOK
<1>15. ASSUME NEW m \in ProcessIds
       PROVE  calls'[m] \in 0 .. 1 /\ answered'[m] <= calls'[m]
  <2>1. CASE m \in ToSet(order)
    <3>1. PICK a \in 1 .. k : m = order[a]
      BY <1>14, <2>1
    <3>2. calls'[m] \in 0 .. 1
      BY <1>10, <1>11, <1>12, <3>1
    <3>3. answered'[m] <= calls'[m]
      <4>1. calls'[m] = calls[m] + Times(m) /\ Times(m) \in 0 .. 1
        BY <1>5, <1>7, <3>1
      <4>2. answered[m] <= calls[m] /\ answered[m] \in 0 .. 1 /\ calls[m] \in 0 .. 1
        BY <1>3, <1>8 DEF CallsInv
      <4> QED
        BY <1>9, <1>10, <4>1, <4>2
    <3> QED
      BY <3>2, <3>3
  <2>2. CASE m \notin ToSet(order)
    <3>1. calls'[m] = calls[m]
      BY <1>13, <2>2
    <3>2. answered[m] <= calls[m] /\ calls[m] \in 0 .. 1
      BY <1>3, <1>8 DEF CallsInv
    <3> QED
      BY <1>9, <1>10, <3>1, <3>2
  <2> QED
    BY <2>1, <2>2
<1>16. calls' \in [ProcessIds -> 0 .. 1]
  BY <1>5, <1>15
<1>17. /\ PeersInv' /\ CompleteTree' /\ IdleFirst'
       /\ Built' = Built /\ Number' = Number /\ Id(root)' = Id(root) /\ Len(order)' = Len(order)
       /\ order' = order
       /\ TreeTypeOK'
  <2>1. queue' \in Seq(ProcessIds)
    BY <1>5
  <2> QED
    BY <1>5, <1>10, <1>16, <2>1, BuiltFrame
<1>18. WalkInv'
  BY <1>5 DEF WalkInv
<1>19. CallsInv'
  <2>1. calls'[Id(root)] = 1
    <3>1. Id(root) \in ProcessIds /\ Id(root) \notin ToSet(order)
      <4>1. \A a \in 1 .. k : order[a] # Id(root)
        BY <1>3 DEF Ids
      <4> QED
        BY <1>3, <1>14, <4>1 DEF TreeTypeOK, ProcessIds
    <3> QED
      BY <1>3, <1>13, <3>1 DEF CallsInv
  <2>2. \A m \in ProcessIds \ ToSet(Number) : calls'[m] = 0
    BY <1>3, <1>13 DEF CallsInv
  <2>3. \A a \in 1 .. k : calls'[order[a]] = answered'[Number[(a - 1) \div ChildNum + 1]]
    BY <1>12 DEF Parent
  <2> QED
    BY <1>1, <1>15, <1>17, <2>1, <2>2, <2>3 DEF CallsInv
<1> QED
  BY <1>17, <1>18, <1>19 DEF TreeInv

-----------------------------------------------------------------------------
(* The theorems.                                                           *)

LEMMA TreeStutter ==
  ASSUME TreeInv, UNCHANGED vars
  PROVE  TreeInv'
<1>1. /\ UNCHANGED <<root, configVars, treeVars>>
      /\ UNCHANGED <<calls, answered, walking, queue>>
  BY DEF vars, callVars
<1>2. /\ PeersInv' /\ CompleteTree' /\ IdleFirst'
      /\ Built' = Built /\ Number' = Number /\ Id(root)' = Id(root) /\ Len(order)' = Len(order)
      /\ order' = order
      /\ \A i : Upto(i)' = Upto(i)
  BY <1>1, BuiltFrame
<1>3. TreeTypeOK'
  BY <1>1, BuiltFrame DEF TreeInv, TreeTypeOK
<1>4. WalkInv'
  BY <1>1, <1>2 DEF TreeInv, WalkInv
<1>5. CallsInv'
  BY <1>1, <1>2 DEF TreeInv, CallsInv
<1> QED
  BY <1>2, <1>3, <1>4, <1>5 DEF TreeInv

\* The loops of InitConfig, makeTree and traverseTree and the calls of
\* TreeDuplicateRpc keep the inductive invariant: PeerIds is in the order of the
\* file, the tree is complete in the order of treeIp, a walk goes through it in
\* that order, and a node is called when its parent has forwarded.
THEOREM TreeCorrect == TreeSpec => []TreeInv
<1>1. TreeInit => TreeInv
  BY TreeInitInv
<1>2. TreeInv /\ [TreeNext]_vars => TreeInv'
  <2> SUFFICES ASSUME TreeInv, [TreeNext]_vars
               PROVE  TreeInv'
    OBVIOUS
  <2>1. CASE InitConfig /\ UNCHANGED <<root, treeVars, callVars>>
    BY <2>1, InitConfigStep
  <2>2. CASE AddClient
    BY <2>2, AddClientStep
  <2>3. ASSUME NEW n \in ProcessIds, StartWalk(n)
        PROVE  TreeInv'
    BY <2>3, StartWalkStep
  <2>4. ASSUME NEW n \in ProcessIds, Forward(n)
        PROVE  TreeInv'
    BY <2>4, ForwardStep
  <2>5. CASE Visit
    BY <2>5, VisitStep
  <2>6. CASE UNCHANGED vars
    BY <2>6, TreeStutter
  <2> QED
    BY <2>1, <2>2, <2>3, <2>4, <2>5, <2>6 DEF TreeNext
<1> QED
  BY <1>1, <1>2, PTL DEF TreeSpec

\* GetId in config.go never gives two processes of the file the same id.
THEOREM IdsIdentify == TreeSpec => []OneProcessPerId
<1>1. TreeInv => OneProcessPerId
  BY IdsDiffer DEF TreeInv, TreeTypeOK, OneProcessPerId
<1> QED
  BY <1>1, TreeCorrect, PTL

\* InitConfig makes the first ProposerNum processes of the file proposers, and
\* nobody else, whoever runs it.
THEOREM ProposersKnown == TreeSpec => []ProposersAgree
<1>1. TreeInv => ProposersAgree
  BY ProposersCorrect DEF TreeInv, TreeTypeOK
<1> QED
  BY <1>1, TreeCorrect, PTL

\* The children of a node come later in the order of the walk.
LEMMA ChildrenLater ==
  ASSUME TreeInv, NEW k \in 1 .. Len(order), NEW c \in ToSet(tree.children[order[k]])
  PROVE  \E l \in k + 1 .. Len(order) : c = order[l]
<1>1. /\ Len(order) \in Nat /\ order \in Seq(Ids) /\ Len(Number) = Len(order) + 1
      /\ Number[k + 1] = order[k]
  BY NumberIs DEF TreeInv, TreeTypeOK
<1>2. /\ k \in Nat /\ k + 1 \in Nat \ {0} /\ k + 1 - 1 = k
      /\ k + 1 \in 1 .. Len(Number)
  BY <1>1
<1>3. tree.children[order[k]] = Children(k + 1)
  BY <1>1, <1>2 DEF TreeInv, CompleteTree
<1>4. /\ Children(k + 1) \in Seq(Ids)
      /\ Len(Children(k + 1)) = Upto(k + 1) - Upto(k)
      /\ \A x \in 1 .. Upto(k + 1) - Upto(k) :
           /\ Upto(k) + x \in 1 .. Len(order)
           /\ Children(k + 1)[x] = order[Upto(k) + x]
  <2> DEFINE i == k + 1
  <2>1. i \in Nat \ {0} /\ i - 1 = k
    BY <1>2
  <2> HIDE DEF i
  <2>2. /\ Children(i) \in Seq(Ids)
        /\ Len(Children(i)) = Upto(i) - Upto(k)
        /\ \A x \in 1 .. Upto(i) - Upto(k) :
             /\ Upto(k) + x \in 1 .. Len(order)
             /\ Children(i)[x] = order[Upto(k) + x]
    BY <1>1, <2>1, ChildrenAre
  <2> QED
    BY <2>2 DEF i
<1>5. k <= Upto(k) /\ Upto(k) \in Nat
  BY <1>1, <1>2, UptoType
<1>6. PICK x \in 1 .. Upto(k + 1) - Upto(k) : c = order[Upto(k) + x]
  <2>1. DOMAIN Children(k + 1) = 1 .. Upto(k + 1) - Upto(k)
    BY <1>4, LenProperties
  <2> QED
    BY <1>3, <1>4, <2>1 DEF ToSet
<1>7. Upto(k) + x \in k + 1 .. Len(order)
  BY <1>1, <1>2, <1>4, <1>5
<1> QED
  BY <1>6, <1>7

\* makeTree never puts an idle node below a busy one: a busy node forwards in
\* TreeDuplicateRpc to busy nodes only.
THEOREM WorkOnIdleNodes == TreeSpec => []BusyForwardsToBusy
<1>1. TreeInv => BusyForwardsToBusy
  <2> SUFFICES ASSUME TreeInv, NEW n \in Busy, NEW c \in ToSet(tree.children[n])
               PROVE  c \in Busy
    BY DEF BusyForwardsToBusy
  <2>1. /\ n \in ProcessIds /\ n # Id(root)
        /\ ToSet(Number) = {Id(root)} \cup ToSet(order)
        /\ order \in Seq(Ids)
    BY IdsType, NumberIs DEF Busy, Ids, TreeInv, TreeTypeOK
  <2>2. CASE n \notin ToSet(order)
    <3>1. tree.children[n] = << >>
      BY <2>1, <2>2 DEF TreeInv, CompleteTree
    <3> QED
      BY <3>1 DEF ToSet
  <2>3. CASE n \in ToSet(order)
    <3>1. PICK k \in 1 .. Len(order) : n = order[k]
      BY <2>1, <2>3 DEF ToSet
    <3>2. \E l \in k + 1 .. Len(order) : c = order[l]
      BY <3>1, ChildrenLater
    <3> QED
      BY <3>1, <3>2 DEF TreeInv, IdleFirst
  <2> QED
    BY <2>2, <2>3
<1> QED
  BY <1>1, TreeCorrect, PTL

\* This takes the place of an induction along the tree.
LEMMA LeastNumber ==
  ASSUME NEW D \in SUBSET Nat, D # {}
  PROVE  \E x \in D : \A y \in D : x <= y
<1>1. PICK x \in D : \A y \in D : ~(<<y, x>> \in OpToRel(<, Nat))
  BY WFMin, NatLessThanWellFounded
<1>2. \A y \in D : ~(y < x)
  BY <1>1 DEF OpToRel
<1> QED
  BY <1>2

\* When no call is on its way, everybody has been called: of the nodes that have
\* not, the first in the order of the walk would have a parent that was called
\* and has answered.
LEMMA QuietMeansCalled ==
  ASSUME TreeInv, Quiet, NEW m \in ProcessIds
  PROVE  calls[m] = 1
<1>1. /\ Len(order) \in Nat /\ order \in Seq(Ids) /\ Len(Number) = Len(order) + 1
      /\ Number[1] = Id(root)
      /\ \A k \in 1 .. Len(order) : Number[k + 1] = order[k]
      /\ CallsInv /\ calls = answered /\ calls \in [ProcessIds -> 0 .. 1]
      /\ Number \in Seq(ProcessIds)
  BY NumberIs DEF TreeInv, TreeTypeOK, Quiet
<1>2. \A n \in ProcessIds : n = Id(root) \/ \E k \in 1 .. Len(order) : n = order[k]
  <2>1. Id2Node = ProcessIds /\ ToSet(order) = Ids
    BY AllConfigured DEF TreeInv, Quiet, Built
  <2>2. ToSet(order) = {order[k] : k \in 1 .. Len(order)}
    BY <1>1 DEF ToSet
  <2> QED
    BY <2>1, <2>2 DEF Ids
<1> DEFINE missed == {k \in 1 .. Len(order) : calls[order[k]] = 0}
<1>3. missed = {}
  <2> SUFFICES ASSUME missed # {}
               PROVE  FALSE
    OBVIOUS
  <2>1. PICK k \in missed : \A l \in missed : k <= l
    <3>1. missed \in SUBSET Nat
      BY <1>1
    <3> QED
      BY <3>1, LeastNumber
  <2>2. k \in 1 .. Len(order) /\ k \in Nat \ {0} /\ calls[order[k]] = 0
    BY <1>1, <2>1
  <2>3. PICK p \in 1 .. k : p = (k - 1) \div ChildNum + 1
    BY <2>2, ParentOf
  <2>4. calls[Number[p]] = 0
    BY <1>1, <2>2, <2>3 DEF CallsInv
  <2>5. p # 1
    BY <1>1, <2>4 DEF CallsInv
  <2>6. p - 1 \in 1 .. Len(order) /\ p - 1 < k /\ (p - 1) + 1 = p
    <3>1. p \in Nat /\ 1 < p /\ p <= k
      BY <2>2, <2>3, <2>5
    <3>2. k \in Nat /\ k <= Len(order) /\ Len(order) \in Nat
      BY <1>1, <2>2
    <3> HIDE DEF missed
    <3> QED
      BY <3>1, <3>2
  <2>7. p - 1 \in missed
    <3>1. Number[p] = order[p - 1]
      BY <1>1, <2>6
    <3> QED
      BY <2>4, <2>6, <3>1
  <2> QED
    BY <1>1, <2>1, <2>6, <2>7
<1>4. CASE m = Id(root)
  BY <1>1, <1>4 DEF CallsInv
<1>5. ASSUME NEW k \in 1 .. Len(order), m = order[k]
      PROVE  calls[m] = 1
  BY <1>1, <1>3, <1>5
<1> QED
  BY <1>2, <1>4, <1>5

\* A tree broadcast tells every process once: the children that the nodes find with
\* traverseTree, each for itself, cover the tree and do not overlap.
THEOREM BroadcastReachesAll == TreeSpec => []EveryNodeOnce
<1>1. TreeInv => EveryNodeOnce
  <2> SUFFICES ASSUME TreeInv
               PROVE  EveryNodeOnce
    OBVIOUS
  <2>1. ASSUME NEW m \in ProcessIds
        PROVE  calls[m] <= 1
    <3>1. calls \in [ProcessIds -> 0 .. 1]
      BY DEF TreeInv, TreeTypeOK
    <3>2. calls[m] \in 0 .. 1
      BY <3>1
    <3> QED
      BY <3>2
  <2>2. Quiet => \A m \in ProcessIds : calls[m] = 1
    BY QuietMeansCalled
  <2> QED
    BY <2>1, <2>2 DEF EveryNodeOnce
<1> QED
  BY <1>1, TreeCorrect, PTL
=============================================================================
