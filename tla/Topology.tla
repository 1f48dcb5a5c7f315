------------------------------ MODULE Topology ------------------------------
(***************************************************************************)
(* What the runtime knows of the CPUs of its host (src/coromem/src/        *)
(* hwtopo.cpp): makeHWTopo numbers the CPUs the process may use, one       *)
(* thread for each, and gives every thread its socket and the first thread *)
(* of that socket.                                                         *)
(*                                                                         *)
(* A host is a record: the CPUs /proc/cpuinfo lists (online), with the     *)
(* physical and core ids it gives (proc) and those of sysfs (sys), Missing *)
(* where there is none; the NUMA node of every CPU, <<>> without NUMA      *)
(* support; and the ranges of Cpus_allowed_list, <<>> if it is unreadable. *)
(***************************************************************************)
EXTENDS Integers, Sequences, FiniteSets, SequencesExt

Missing == -1

(* parseCPUList.                                                           *)
ParseCPUList(ranges) == UNION {r[1] .. r[2] : r \in ToSet(ranges)}

(* readCPUTopologyValue.                                                   *)
ReadCPUTopologyValue(value, fallback) == IF value = Missing THEN fallback ELSE value

(* getNumaNode.                                                            *)
GetNumaNode(h, p, physid) == IF h.numa = <<>> THEN physid ELSE h.numa[p]

(* The entry of a CPU.  vals is resized to the number of the CPU, so that  *)
(* a number that is not online leaves an entry that says CPU 0.            *)
CPUInfo(h, n) ==
  LET on == n \in h.online
      p == IF on THEN n ELSE 0
      phys == ReadCPUTopologyValue(h.sys[p].phys,
                IF on THEN ReadCPUTopologyValue(h.proc[n].phys, 0) ELSE 0)
      core == ReadCPUTopologyValue(h.sys[p].core,
                IF on THEN ReadCPUTopologyValue(h.proc[n].core, n) ELSE 0)
  IN [proc |-> p, physid |-> phys, coreid |-> core,
      numaNode |-> GetNumaNode(h, p, phys), smt |-> FALSE]

ParseCPUInfo(h) ==
  LET last == CHOOSE n \in h.online : \A m \in h.online : m <= n IN
  [k \in 1 .. last + 1 |-> CPUInfo(h, k - 1)]

(* operator<: real cores before hyper-threads.                             *)
CPULess(a, b) ==
  IF a.smt # b.smt THEN b.smt
  ELSE IF a.physid # b.physid THEN a.physid < b.physid
  ELSE IF a.coreid # b.coreid THEN a.coreid < b.coreid
  ELSE a.proc < b.proc

(* markSMT: a CPU right behind another of the same core.  The first entry  *)
(* keeps its mark.                                                         *)
MarkSMT(info) ==
  [k \in DOMAIN info |->
     IF k = 1 THEN info[k]
     ELSE [info[k] EXCEPT !.smt = /\ info[k - 1].physid = info[k].physid
                                  /\ info[k - 1].coreid = info[k].coreid]]

(* markValid.                                                              *)
Valid(h, c) == h.allowed = <<>> \/ c.proc \in ParseCPUList(h.allowed)

(* The entries in the order of the threads.                                *)
UsableCPUs(h) ==
  LET marked == MarkSMT(SortSeq(ParseCPUInfo(h), CPULess))
  IN MarkSMT(SortSeq(SelectSeq(marked, LAMBDA c : Valid(h, c)), CPULess))

(* The number of a socket among those in use.                              *)
Renumbered(info, physid) ==
  Cardinality({info[k].physid : k \in {l \in DOMAIN info : info[l].physid < physid}})

\* Faulty variant: the first CPU with the same core id.
LeaderOfCore(info, k) ==
  CHOOSE l \in DOMAIN info : /\ info[l].coreid = info[k].coreid
                             /\ \A m \in 1 .. l - 1 : info[m].coreid # info[k].coreid

(* The first entry of the same socket.                                     *)
LeaderOf(info, k) ==
  CHOOSE l \in DOMAIN info : /\ info[l].physid = info[k].physid
                             /\ \A m \in 1 .. l - 1 : info[m].physid # info[k].physid

(* makeHWTopo: threadTopoInfo, by thread id.                               *)
MakeHWTopo(h) ==
  LET info == UsableCPUs(h) IN
  [t \in 0 .. Len(info) - 1 |->
     [socket |-> Renumbered(info, info[t + 1].physid),
      socketLeader |-> LeaderOf(info, t + 1) - 1,
      osContext |-> info[t + 1].proc]]

-----------------------------------------------------------------------------
(* The CPUs of a host that the process may use, and their packages, as the *)
(* host means them.                                                        *)
MayUse(h) == {p \in h.online : h.allowed = <<>> \/ p \in ParseCPUList(h.allowed)}

Package(h, p) ==
  IF h.sys[p].phys # Missing THEN h.sys[p].phys
  ELSE IF h.proc[p].phys # Missing THEN h.proc[p].phys ELSE 0

Doubled(topo, p) == Cardinality({t \in DOMAIN topo : topo[t].osContext = p}) > 1

(* The threads of topology topo are a right image of host h, also when     *)
(* numbers of CPUs, packages and cores have gaps: every CPU that may be    *)
(* used has a thread, and no other than CPU 0 has two; threads share a     *)
(* socket exactly if their CPUs share a package, sockets are numbered      *)
(* without a gap, and the leader of a socket is its first thread.          *)
TopologyOf(topo, h) ==
  LET tids == DOMAIN topo IN
  /\ {topo[t].osContext : t \in tids} = MayUse(h)
  /\ \A p \in MayUse(h) : Doubled(topo, p) => p = 0
  /\ \A t, u \in tids :
       /\ topo[t].socket = topo[u].socket
            <=> Package(h, topo[t].osContext) = Package(h, topo[u].osContext)
       /\ topo[t].socket = topo[u].socket =>
            topo[t].socketLeader = topo[u].socketLeader /\ topo[t].socketLeader <= u
  /\ \A t \in tids : topo[topo[t].socketLeader].socket = topo[t].socket
  /\ {topo[t].socket : t \in tids}
       = 0 .. Cardinality({Package(h, p) : p \in MayUse(h)}) - 1

=============================================================================
