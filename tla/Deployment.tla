----------------------------- MODULE Deployment -----------------------------
(***************************************************************************)
(* Who the processes of a configuration file are: the loops of InitConfig  *)
(* (zpbft/config.go) that give them their ids, one process per step, and   *)
(* the proposers among them.  Every process computes this alone, from the  *)
(* file and from its own address.                                          *)
(***************************************************************************)
EXTENDS Integers, SequencesExt

CONSTANTS PeerIps,           \* the hosts, an address is four numbers (cut to IpNum)
          ProcessNumArray,   \* the number of processes on each host
          PortBase,
          ProposerNum

Hosts == 1 .. Len(PeerIps)

\* A process is a host and the number it is started with, the flag -i.
Processes == {p \in Hosts \X (1 .. 100) : p[2] <= ProcessNumArray[p[1]]}

\* What the ids rely on: no two hosts agree in the last two numbers of their
\* addresses, and no host has more processes than port % 100 tells apart.
ASSUME DeploymentAssumption ==
  /\ PeerIps \in Seq([1 .. 4 -> 0 .. 255])
  /\ \A g, h \in Hosts : PeerIps[g][3] = PeerIps[h][3] /\ PeerIps[g][4] = PeerIps[h][4] => g = h
  /\ ProcessNumArray \in [Hosts -> 0 .. 100]
  /\ PortBase \in Nat
  /\ ProposerNum \in 0 .. Cardinality(Processes)

\* Mutant: an octet takes two decimal places.
GetIdOfTwoPlaces(ip, port) == (ip[3] * 100 + ip[4]) * 100 + (port % 100)

GetId(ip, port) == (ip[3] * 1000 + ip[4]) * 100 + (port % 100)

Id(p) == GetId(PeerIps[p[1]], PortBase + p[2])

ProcessIds == {Id(p) : p \in Processes}

-----------------------------------------------------------------------------
VARIABLES host, j,    \* the loops: j processes of host have their ids
          PeerIds

configVars == <<host, j, PeerIds>>

ConfigInit == host = 1 /\ j = 0 /\ PeerIds = << >>

AddPeer ==
  /\ host \in Hosts /\ j < ProcessNumArray[host]
  /\ PeerIds' = Append(PeerIds, Id(<<host, j + 1>>))
  /\ j' = j + 1
  /\ UNCHANGED host

NextHost ==
  /\ host \in Hosts /\ j = ProcessNumArray[host]
  /\ host' = host + 1 /\ j' = 0
  /\ UNCHANGED PeerIds

InitConfig == AddPeer \/ NextHost

\* The loops have ended.
Configured == host = Len(PeerIps) + 1

\* The keys of Id2Node, which is filled along with PeerIds.
Id2Node == ToSet(PeerIds)

ProposerIds == SubSeq(PeerIds, 1, ProposerNum)

\* KConfig.IsProposer of process p.
IsProposer(p) == Id(p) \in ToSet(ProposerIds)
=============================================================================
