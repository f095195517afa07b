--------------------------- MODULE NetworkProofs ---------------------------
(* Theorems on FatTreeTopo, for every degree k, and on Network, for all     *)
(* degrees, controllers and numbers of programs: first the numbering of the *)
(* fat tree, then the invariants of the network by topic, each with the     *)
(* lemmas on the operators it needs, last the types.                        *)
EXTENDS Network, FiniteSetTheorems, FunctionTheorems, NaturalsInduction, WellFoundedInduction,
        TLAPS

LEMMA LayerNodes ==
    ASSUME NEW k
    PROVE  /\ layer_nodes(k, LAYER_CORE) = {CoreId(k, a, c) : a \in agg_sws(k), c \in core_sws(k)}
           /\ layer_nodes(k, LAYER_AGG)  = {AggId(p, a) : p \in pods(k), a \in agg_sws(k)}
           /\ layer_nodes(k, LAYER_EDGE) = {EdgeId(p, e) : p \in pods(k), e \in edge_sws(k)}
           /\ layer_nodes(k, LAYER_HOST) =
                 {HostId(p, e, h) : p \in pods(k), e \in edge_sws(k), h \in hosts(k)}
<1>1. /\ LAYER_CORE # LAYER_AGG /\ LAYER_CORE # LAYER_EDGE /\ LAYER_CORE # LAYER_HOST
      /\ LAYER_AGG # LAYER_EDGE /\ LAYER_AGG # LAYER_HOST /\ LAYER_EDGE # LAYER_HOST
  BY DEF LAYER_CORE, LAYER_AGG, LAYER_EDGE, LAYER_HOST
<1>2. layer_nodes(k, LAYER_CORE) = {CoreId(k, a, c) : a \in agg_sws(k), c \in core_sws(k)}
  BY <1>1 DEF layer_nodes
<1>3. layer_nodes(k, LAYER_AGG) = {AggId(p, a) : p \in pods(k), a \in agg_sws(k)}
  BY <1>1 DEF layer_nodes
<1>4. layer_nodes(k, LAYER_EDGE) = {EdgeId(p, e) : p \in pods(k), e \in edge_sws(k)}
  BY <1>1 DEF layer_nodes
<1>5. layer_nodes(k, LAYER_HOST) =
          {HostId(p, e, h) : p \in pods(k), e \in edge_sws(k), h \in hosts(k)}
  BY <1>1 DEF layer_nodes
<1>. QED BY <1>2, <1>3, <1>4, <1>5

(* The identifiers of the layers, by their three numbers. *)
LEMMA CoreNumbers ==
    ASSUME NEW k \in Nat, NEW n \in layer_nodes(k, LAYER_CORE)
    PROVE  /\ n = [pod |-> n.pod, sw |-> n.sw, host |-> n.host]
           /\ n.pod = k /\ n.sw \in Int /\ n.host \in Int
           /\ 1 <= n.sw /\ n.sw <= k - (k \div 2)
           /\ 1 <= n.host /\ n.host <= k \div 2
<1>1. PICK a \in agg_sws(k), c \in core_sws(k) : n = CoreId(k, a, c)
  BY LayerNodes
<1>2. /\ a \in Int /\ k \div 2 <= a /\ a <= k - 1
      /\ c \in Int /\ 1 <= c /\ c <= k \div 2
      /\ k \div 2 \in Int
  BY DEF agg_sws, core_sws
<1>. QED BY <1>1, <1>2 DEF CoreId, FatTreeNodeID

LEMMA AggNumbers ==
    ASSUME NEW k \in Nat, NEW n \in layer_nodes(k, LAYER_AGG)
    PROVE  /\ n = [pod |-> n.pod, sw |-> n.sw, host |-> n.host]
           /\ n.pod \in Int /\ n.sw \in Int /\ n.host = 1
           /\ 0 <= n.pod /\ n.pod <= k - 1
           /\ k \div 2 <= n.sw /\ n.sw <= k - 1
<1>1. PICK p \in pods(k), a \in agg_sws(k) : n = AggId(p, a)
  BY LayerNodes
<1>. QED BY <1>1 DEF pods, agg_sws, AggId, FatTreeNodeID

LEMMA EdgeNumbers ==
    ASSUME NEW k \in Nat, NEW n \in layer_nodes(k, LAYER_EDGE)
    PROVE  /\ n = [pod |-> n.pod, sw |-> n.sw, host |-> n.host]
           /\ n.pod \in Int /\ n.sw \in Int /\ n.host = 1
           /\ 0 <= n.pod /\ n.pod <= k - 1
           /\ 0 <= n.sw /\ n.sw <= (k \div 2) - 1
<1>1. PICK p \in pods(k), e \in edge_sws(k) : n = EdgeId(p, e)
  BY LayerNodes
<1>. QED BY <1>1 DEF pods, edge_sws, EdgeId, FatTreeNodeID

LEMMA HostNumbers ==
    ASSUME NEW k \in Nat, NEW n \in layer_nodes(k, LAYER_HOST)
    PROVE  /\ n = [pod |-> n.pod, sw |-> n.sw, host |-> n.host]
           /\ n.pod \in Int /\ n.sw \in Int /\ n.host \in Int
           /\ 0 <= n.pod /\ n.pod <= k - 1
           /\ 0 <= n.sw /\ n.sw <= (k \div 2) - 1
           /\ 2 <= n.host /\ n.host <= (k \div 2) + 1
<1>1. PICK p \in pods(k), e \in edge_sws(k), h \in hosts(k) : n = HostId(p, e, h)
  BY LayerNodes
<1>. QED BY <1>1 DEF pods, edge_sws, hosts, HostId, FatTreeNodeID

(* Every node is added in one layer only, so that the attributes a later    *)
(* add of its name gives it are those it has (layer, addSwitch, addHost).   *)
THEOREM LayersAreDisjoint ==
    ASSUME NEW k \in Nat, NEW l1 \in Layers, NEW l2 \in Layers,
           NEW n, n \in layer_nodes(k, l1), n \in layer_nodes(k, l2)
    PROVE  l1 = l2
<1>. k \div 2 \in Int /\ 0 <= k \div 2 /\ k \div 2 <= k
  OBVIOUS
<1>1. ASSUME NEW l \in Layers, n \in layer_nodes(k, l)
      PROVE  /\ l = LAYER_CORE => n.pod = k
             /\ l = LAYER_AGG  => n.pod < k /\ n.host = 1 /\ n.sw >= k \div 2
             /\ l = LAYER_EDGE => n.pod < k /\ n.host = 1 /\ n.sw < k \div 2
             /\ l = LAYER_HOST => n.pod < k /\ n.host > 1
  <2>1. CASE l = LAYER_CORE
    BY <1>1, <2>1, CoreNumbers DEF LAYER_CORE, LAYER_AGG, LAYER_EDGE, LAYER_HOST
  <2>2. CASE l = LAYER_AGG
    BY <1>1, <2>2, AggNumbers DEF LAYER_CORE, LAYER_AGG, LAYER_EDGE, LAYER_HOST
  <2>3. CASE l = LAYER_EDGE
    BY <1>1, <2>3, EdgeNumbers DEF LAYER_CORE, LAYER_AGG, LAYER_EDGE, LAYER_HOST
  <2>4. CASE l = LAYER_HOST
    BY <1>1, <2>4, HostNumbers DEF LAYER_CORE, LAYER_AGG, LAYER_EDGE, LAYER_HOST
  <2>. QED BY <1>1, <2>1, <2>2, <2>3, <2>4 DEF Layers
<1>2. n.pod \in Int /\ n.sw \in Int /\ n.host \in Int
  BY CoreNumbers, AggNumbers, EdgeNumbers, HostNumbers DEF Layers
<1>. QED BY <1>1, <1>2 DEF Layers, LAYER_CORE, LAYER_AGG, LAYER_EDGE, LAYER_HOST

LEMMA LayerOfNode ==
    ASSUME NEW k \in Nat, NEW l \in Layers, NEW n \in layer_nodes(k, l)
    PROVE  layer(k, n) = l
BY LayersAreDisjoint DEF layer

(* A dpid can be taken apart into the identifier it was made of, as long as *)
(* the three numbers fit eight bits, which they do up to a degree of 255:   *)
(* no two switches get the same dpid (dpid, FatTreeNodeID's constructor).   *)
THEOREM DpidRoundTrip ==
    ASSUME NEW k \in 0 .. 255, NEW n \in Nodes(k)
    PROVE  idOfDpid(dpid(n)) = n
<1>. k \in Nat /\ k \div 2 \in Int /\ 0 <= k \div 2 /\ k \div 2 <= k /\ (k \div 2) + 1 <= 255
  OBVIOUS
<1>1. PICK l \in Layers : n \in layer_nodes(k, l)
  BY DEF Nodes
<1>2. /\ n = [pod |-> n.pod, sw |-> n.sw, host |-> n.host]
      /\ n.pod \in 0 .. 255 /\ n.sw \in 0 .. 255 /\ n.host \in 0 .. 255
  <2>1. CASE l = LAYER_CORE
    BY <1>1, <2>1, CoreNumbers
  <2>2. CASE l = LAYER_AGG
    BY <1>1, <2>2, AggNumbers
  <2>3. CASE l = LAYER_EDGE
    BY <1>1, <2>3, EdgeNumbers
  <2>4. CASE l = LAYER_HOST
    BY <1>1, <2>4, HostNumbers
  <2>. QED BY <2>1, <2>2, <2>3, <2>4 DEF Layers
<1>. DEFINE p == n.pod
            s == n.sw
            h == n.host
            d == dpid(n)
<1>3. p \in 0 .. 255 /\ s \in 0 .. 255 /\ h \in 0 .. 255
  BY <1>2
<1>4. d = p * 65536 + s * 256 + h
  BY DEF dpid
<1>5. (d \div 65536) % 256 = p /\ (d \div 256) % 256 = s /\ d % 256 = h
  <2>. HIDE DEF p, s, h, d
  <2>. QED BY <1>3, <1>4
<1>6. idOfDpid(d) = [pod |-> p, sw |-> s, host |-> h]
  BY <1>5 DEF idOfDpid, FatTreeNodeID
<1>. QED BY <1>2, <1>6

-----------------------------------------------------------------------------
(* The links, by the layers of their ends and what their numbers share. *)

HostEdge(k, m, n) == /\ m \in layer_nodes(k, LAYER_HOST) /\ n \in layer_nodes(k, LAYER_EDGE)
                     /\ m.pod = n.pod /\ m.sw = n.sw
EdgeAgg(k, m, n)  == /\ m \in layer_nodes(k, LAYER_EDGE) /\ n \in layer_nodes(k, LAYER_AGG)
                     /\ m.pod = n.pod
CoreAgg(k, m, n)  == /\ m \in layer_nodes(k, LAYER_CORE) /\ n \in layer_nodes(k, LAYER_AGG)
                     /\ m.sw = n.sw - (k \div 2) + 1

LEMMA LinkKinds ==
    ASSUME NEW k \in Nat, NEW m, NEW n, <<m, n>> \in Links(k)
    PROVE  HostEdge(k, m, n) \/ EdgeAgg(k, m, n) \/ CoreAgg(k, m, n)
<1>1. CASE <<m, n>> \in HostEdgeLinks(k)
  <2>1. PICK p \in pods(k), e \in edge_sws(k), h \in hosts(k) :
            m = HostId(p, e, h) /\ n = EdgeId(p, e)
    BY <1>1 DEF HostEdgeLinks
  <2>. QED BY <2>1, LayerNodes DEF HostEdge, HostId, EdgeId, FatTreeNodeID
<1>2. CASE <<m, n>> \in EdgeAggLinks(k)
  <2>1. PICK p \in pods(k), e \in edge_sws(k), a \in agg_sws(k) :
            m = EdgeId(p, e) /\ n = AggId(p, a)
    BY <1>2 DEF EdgeAggLinks
  <2>. QED BY <2>1, LayerNodes DEF EdgeAgg, EdgeId, AggId, FatTreeNodeID
<1>3. CASE <<m, n>> \in CoreAggLinks(k)
  <2>1. PICK p \in pods(k), a \in agg_sws(k), c \in core_sws(k) :
            m = CoreId(k, a, c) /\ n = AggId(p, a)
    BY <1>3 DEF CoreAggLinks
  <2>. QED BY <2>1, LayerNodes DEF CoreAgg, CoreId, AggId, FatTreeNodeID
<1>. QED BY <1>1, <1>2, <1>3 DEF Links

(* What port returns for each kind of link, asked for from either end. *)
LEMMA PortValues ==
    ASSUME NEW k \in Nat, NEW m, NEW n
    PROVE  /\ HostEdge(k, m, n) =>
                 /\ port(k, m, n) = <<0, (m.host - 2) * 2 + 1 + 1>>
                 /\ port(k, n, m) = <<(m.host - 2) * 2 + 1 + 1, 0>>
           /\ EdgeAgg(k, m, n) =>
                 /\ port(k, m, n) = <<(n.sw - k \div 2) * 2 + 1, m.sw * 2 + 1 + 1>>
                 /\ port(k, n, m) = <<m.sw * 2 + 1 + 1, (n.sw - k \div 2) * 2 + 1>>
           /\ CoreAgg(k, m, n) =>
                 /\ port(k, m, n) = <<n.pod + 1, (m.host - 1) * 2 + 1>>
                 /\ port(k, n, m) = <<(m.host - 1) * 2 + 1, n.pod + 1>>
<1>. USE DEF port, portAt, basePorts, shift, LAYER_CORE, LAYER_AGG, LAYER_EDGE, LAYER_HOST
<1>1. ASSUME HostEdge(k, m, n)
      PROVE  /\ port(k, m, n) = <<0, (m.host - 2) * 2 + 1 + 1>>
             /\ port(k, n, m) = <<(m.host - 2) * 2 + 1 + 1, 0>>
  <2>1. layer(k, m) = LAYER_HOST /\ layer(k, n) = LAYER_EDGE
    BY <1>1, LayerOfNode DEF HostEdge, Layers
  <2>. QED BY <2>1
<1>2. ASSUME EdgeAgg(k, m, n)
      PROVE  /\ port(k, m, n) = <<(n.sw - k \div 2) * 2 + 1, m.sw * 2 + 1 + 1>>
             /\ port(k, n, m) = <<m.sw * 2 + 1 + 1, (n.sw - k \div 2) * 2 + 1>>
  <2>1. layer(k, m) = LAYER_EDGE /\ layer(k, n) = LAYER_AGG
    BY <1>2, LayerOfNode DEF EdgeAgg, Layers
  <2>. QED BY <2>1
<1>3. ASSUME CoreAgg(k, m, n)
      PROVE  /\ port(k, m, n) = <<n.pod + 1, (m.host - 1) * 2 + 1>>
             /\ port(k, n, m) = <<(m.host - 1) * 2 + 1, n.pod + 1>>
  <2>1. layer(k, m) = LAYER_CORE /\ layer(k, n) = LAYER_AGG
    BY <1>3, LayerOfNode DEF CoreAgg, Layers
  <2>. QED BY <2>1
<1>. QED BY <1>1, <1>2, <1>3

(* A port of switch n leads to neighbour m: its number is between 1 and k,  *)
(* and the two ends of the link are given the same pair.                    *)
LEMMA PortInRange ==
    ASSUME NEW k \in Nat, NEW n \in Switches(k), NEW m \in Neighbours(k, n)
    PROVE  port(k, n, m)[1] \in 1 .. k /\ port(k, m, n) = <<port(k, n, m)[2], port(k, n, m)[1]>>
<1>. /\ k \div 2 \in Int /\ 0 <= k \div 2 /\ 2 * (k \div 2) <= k /\ k <= 2 * (k \div 2) + 1
  OBVIOUS
<1>1. n \notin layer_nodes(k, LAYER_HOST)
  BY DEF Switches
<1>2. <<m, n>> \in Links(k) \/ <<n, m>> \in Links(k)
  BY DEF Neighbours, Linked
<1>3. CASE HostEdge(k, m, n)
  BY <1>3, PortValues, HostNumbers DEF HostEdge
<1>4. CASE EdgeAgg(k, m, n)
  BY <1>4, PortValues, EdgeNumbers, AggNumbers DEF EdgeAgg
<1>5. CASE CoreAgg(k, m, n)
  BY <1>5, PortValues, CoreNumbers, AggNumbers DEF CoreAgg
<1>6. CASE EdgeAgg(k, n, m)
  BY <1>6, PortValues, EdgeNumbers, AggNumbers DEF EdgeAgg
<1>7. CASE CoreAgg(k, n, m)
  BY <1>7, PortValues, CoreNumbers, AggNumbers DEF CoreAgg
<1>8. ~HostEdge(k, n, m)
  BY <1>1 DEF HostEdge
<1>. QED BY <1>2, <1>3, <1>4, <1>5, <1>6, <1>7, <1>8, LinkKinds

(* The kind of the link from a switch of each layer to a neighbour. *)
LEMMA NeighbourKinds ==
    ASSUME NEW k \in Nat, NEW n \in Switches(k), NEW m \in Neighbours(k, n)
    PROVE  /\ n \in layer_nodes(k, LAYER_EDGE) => HostEdge(k, m, n) \/ EdgeAgg(k, n, m)
           /\ n \in layer_nodes(k, LAYER_AGG)  => EdgeAgg(k, m, n) \/ CoreAgg(k, m, n)
           /\ n \in layer_nodes(k, LAYER_CORE) => CoreAgg(k, n, m)
<1>1. \/ HostEdge(k, m, n) \/ EdgeAgg(k, m, n) \/ CoreAgg(k, m, n)
      \/ HostEdge(k, n, m) \/ EdgeAgg(k, n, m) \/ CoreAgg(k, n, m)
  BY LinkKinds DEF Neighbours, Linked
<1>2. \A l1, l2 \in Layers : n \in layer_nodes(k, l1) /\ n \in layer_nodes(k, l2) => l1 = l2
  BY LayersAreDisjoint
<1>. QED BY <1>1, <1>2 DEF HostEdge, EdgeAgg, CoreAgg, Layers,
            LAYER_CORE, LAYER_AGG, LAYER_EDGE, LAYER_HOST

(* port numbers the links of every switch differently, from 1 to k, and     *)
(* alike from both ends, whatever the degree, odd ones included.            *)
THEOREM PortsAreDistinct ==
    ASSUME NEW k \in Nat
    PROVE  PortsIdentifyLinks(k)
<1>. k \div 2 \in Int
  OBVIOUS
<1>1. ASSUME NEW n \in Switches(k), NEW m1 \in Neighbours(k, n), NEW m2 \in Neighbours(k, n),
             port(k, n, m1)[1] = port(k, n, m2)[1]
      PROVE  m1 = m2
  <2>1. CASE n \in layer_nodes(k, LAYER_EDGE)
    <3>1. \A m \in {m1, m2} : HostEdge(k, m, n) \/ EdgeAgg(k, n, m)
      BY <2>1, NeighbourKinds
    <3>2. \A m \in {m1, m2} : HostEdge(k, m, n) =>
              /\ m = [pod |-> n.pod, sw |-> n.sw, host |-> m.host] /\ m.host \in Int
              /\ port(k, n, m)[1] = (m.host - 2) * 2 + 2
      BY PortValues, HostNumbers DEF HostEdge
    <3>3. \A m \in {m1, m2} : EdgeAgg(k, n, m) =>
              /\ m = [pod |-> n.pod, sw |-> m.sw, host |-> 1] /\ m.sw \in Int
              /\ port(k, n, m)[1] = (m.sw - k \div 2) * 2 + 1
      BY PortValues, AggNumbers DEF EdgeAgg
    <3>. QED BY <1>1, <3>1, <3>2, <3>3
  <2>2. CASE n \in layer_nodes(k, LAYER_AGG)
    <3>1. \A m \in {m1, m2} : EdgeAgg(k, m, n) \/ CoreAgg(k, m, n)
      BY <2>2, NeighbourKinds
    <3>2. \A m \in {m1, m2} : EdgeAgg(k, m, n) =>
              /\ m = [pod |-> n.pod, sw |-> m.sw, host |-> 1] /\ m.sw \in Int
              /\ port(k, n, m)[1] = m.sw * 2 + 2
      BY PortValues, EdgeNumbers DEF EdgeAgg
    <3>3. \A m \in {m1, m2} : CoreAgg(k, m, n) =>
              /\ m = [pod |-> k, sw |-> n.sw - (k \div 2) + 1, host |-> m.host] /\ m.host \in Int
              /\ port(k, n, m)[1] = (m.host - 1) * 2 + 1
      BY PortValues, CoreNumbers DEF CoreAgg
    <3>4. CASE EdgeAgg(k, m1, n) /\ EdgeAgg(k, m2, n)
      <4>1. /\ m1.sw \in Int /\ port(k, n, m1)[1] = m1.sw * 2 + 2
            /\ m2.sw \in Int /\ port(k, n, m2)[1] = m2.sw * 2 + 2
        BY <3>2, <3>4
      <4>2. m1.sw * 2 + 2 = m2.sw * 2 + 2
        BY <1>1, <4>1
      <4>3. m1.sw = m2.sw
        <5>1. \A x, y \in Int : x * 2 + 2 = y * 2 + 2 => x = y
          OBVIOUS
        <5>. QED BY <4>1, <4>2, <5>1
      <4>. QED BY <4>3, <3>2, <3>4
    <3>5. CASE CoreAgg(k, m1, n) /\ CoreAgg(k, m2, n)
      <4>1. m1.host = m2.host
        BY <1>1, <3>3, <3>5
      <4>. QED BY <4>1, <3>3, <3>5
    <3>6. ~(EdgeAgg(k, m1, n) /\ CoreAgg(k, m2, n)) /\ ~(EdgeAgg(k, m2, n) /\ CoreAgg(k, m1, n))
      <4>1. ASSUME NEW m \in {m1, m2}, EdgeAgg(k, m, n)
            PROVE  port(k, n, m)[1] % 2 = 0
        <5>1. m.sw \in Int /\ port(k, n, m)[1] = m.sw * 2 + 2
          BY <4>1, <3>2
        <5>. QED BY <5>1
      <4>2. ASSUME NEW m \in {m1, m2}, CoreAgg(k, m, n)
            PROVE  port(k, n, m)[1] % 2 = 1
        <5>1. m.host \in Int /\ port(k, n, m)[1] = (m.host - 1) * 2 + 1
          BY <4>2, <3>3
        <5>. QED BY <5>1
      <4>. QED BY <1>1, <4>1, <4>2
    <3>. QED BY <3>1, <3>4, <3>5, <3>6
  <2>3. CASE n \in layer_nodes(k, LAYER_CORE)
    <3>1. \A m \in {m1, m2} : CoreAgg(k, n, m)
      BY <2>3, NeighbourKinds
    <3>2. \A m \in {m1, m2} :
              /\ m = [pod |-> m.pod, sw |-> n.sw + (k \div 2) - 1, host |-> 1] /\ m.pod \in Int
              /\ port(k, n, m)[1] = m.pod + 1
      BY <3>1, <2>3, PortValues, AggNumbers, CoreNumbers DEF CoreAgg
    <3>. QED BY <1>1, <3>2
  <2>. QED BY <2>1, <2>2, <2>3 DEF Switches, Nodes, Layers
<1>. QED BY <1>1, PortInRange DEF PortsIdentifyLinks

-----------------------------------------------------------------------------
(* The program keeps its arguments from its start to its end. *)
LEMMA RunIsKept ==
    ASSUME Next PROVE run' = run
BY DEF Next, StartProgram, Program, BuildNetwork, StartNetwork, Share, StopNetwork, Crash,
       OrphanShellsExit, Cleanup, AddController, AddRemoteController, AddNode, AddLink, config,
       StartController, StartRemoteController, OVSStart, batchStartup, setupSwitchQueues,
       setupSwitchQueuesOfTest, SetQueues, startBWShare, startBWShareOfTest, StartAgent,
       StopController, StopRemoteController, StopLink, batchShutdown, TerminateHost,
       CleanupProcesses, CleanupBridges, CleanupInterfaces,
       killprocs, pkill, KilledShellDies, pgrep, osVars

(* In every run of BandwidthShare.py, of whatever degree, the numbers that  *)
(* port gives the links of a switch tell them apart.                        *)
THEOREM PortsAlwaysIdentify == Spec => []PortsIdentifyTheLinks
<1>1. Init => run \in Runs
  BY DEF Init
<1>2. run \in Runs /\ [Next]_vars => (run \in Runs)'
  BY RunIsKept DEF vars
<1>3. run \in Runs => PortsIdentifyTheLinks
  <2>1. ASSUME run \in Runs, IsFatTree PROVE run.k \in Nat
    BY <2>1, PodCountsAssumption DEF Runs, FatTreeRun, SingleRun, IsFatTree
  <2>. QED BY <2>1, PortsAreDistinct DEF PortsIdentifyTheLinks
<1>. QED BY <1>1, <1>2, <1>3, PTL DEF Spec

-----------------------------------------------------------------------------
(* The topologies of the programs: what the fat tree of a degree and the   *)
(* single switch of the test have in common.                               *)

DegreesTried == PodCounts \union {0}

HostsOf(k)    == Topologies[k].hosts
SwitchesOf(k) == Topologies[k].switches
LinksOf(k)    == Topologies[k].links

LEMMA Degrees ==
    ASSUME NEW k \in PodCounts
    PROVE  k \in Nat /\ k >= 2 /\ k # 0 /\ k \in DegreesTried
BY PodCountsAssumption DEF DegreesTried

LEMMA TopologyOfDegree ==
    ASSUME NEW k \in DegreesTried
    PROVE  /\ k # 0 => /\ HostsOf(k) = layer_nodes(k, LAYER_HOST)
                       /\ SwitchesOf(k) = Switches(k)
                       /\ LinksOf(k) = Links(k)
           /\ k = 0 => /\ HostsOf(k) = {TestHost(i) : i \in 1 .. MySingleSwitchHosts}
                       /\ SwitchesOf(k) = {S1}
                       /\ LinksOf(k) = {TestHost(i) : i \in 1 .. MySingleSwitchHosts} \X {S1}
<1>1. k # 0 => Topologies[k] = createTopo(k)
  BY DEF Topologies, DegreesTried
<1>2. k = 0 => Topologies[k] = MySingleSwitch
  BY DEF Topologies, DegreesTried
<1>. QED BY <1>1, <1>2 DEF createTopo, MySingleSwitch, HostsOf, SwitchesOf, LinksOf

LEMMA SwitchLayers ==
    ASSUME NEW k \in Nat
    PROVE  Switches(k) = layer_nodes(k, LAYER_CORE) \union layer_nodes(k, LAYER_AGG)
                            \union layer_nodes(k, LAYER_EDGE)
<1>1. ASSUME NEW n \in layer_nodes(k, LAYER_HOST), NEW l \in Layers, n \in layer_nodes(k, l)
      PROVE  l = LAYER_HOST
  BY <1>1, LayersAreDisjoint DEF Layers
<1>2. Nodes(k) = layer_nodes(k, LAYER_CORE) \union layer_nodes(k, LAYER_AGG)
                    \union layer_nodes(k, LAYER_EDGE) \union layer_nodes(k, LAYER_HOST)
  BY DEF Nodes, Layers
<1>3. /\ LAYER_CORE \in Layers /\ LAYER_AGG \in Layers /\ LAYER_EDGE \in Layers
      /\ LAYER_CORE # LAYER_HOST /\ LAYER_AGG # LAYER_HOST /\ LAYER_EDGE # LAYER_HOST
  BY DEF Layers, LAYER_CORE, LAYER_AGG, LAYER_EDGE, LAYER_HOST
<1>. QED BY <1>1, <1>2, <1>3 DEF Switches

(* The nodes of a topology: no host is a switch, and neither is the node of *)
(* the controller.                                                          *)
NodesOK(hs, ss) ==
    /\ hs # {} /\ ss # {} /\ hs \intersect ss = {} /\ C0 \notin hs \union ss
    /\ \A n \in hs \union ss :
          /\ n = [pod |-> n.pod, sw |-> n.sw, host |-> n.host]
          /\ n.pod \in Int /\ n.sw \in Int /\ n.host \in Int
          /\ -65536 <= dpid(n)

LEMMA TopologyNodes ==
    ASSUME NEW k \in DegreesTried
    PROVE  NodesOK(HostsOf(k), SwitchesOf(k))
<1>1. CASE k = 0
  <2>1. HostsOf(k) = {TestHost(i) : i \in 1 .. 5} /\ SwitchesOf(k) = {S1}
    BY <1>1, TopologyOfDegree DEF MySingleSwitchHosts
  <2>2. TestHost(1) \in HostsOf(k)
    BY <2>1
  <2>. QED BY <2>1, <2>2 DEF NodesOK, TestHost, S1, C0, FatTreeNodeID, dpid
<1>2. CASE k # 0
  <2>0. k \in Nat /\ k >= 2 /\ k \div 2 \in Int /\ k \div 2 >= 1 /\ k \div 2 <= k - 1
    BY <1>2, Degrees DEF DegreesTried
  <2>1. HostsOf(k) = layer_nodes(k, LAYER_HOST) /\ SwitchesOf(k) = Switches(k)
    BY <1>2, TopologyOfDegree
  <2>2. HostId(0, 0, 2) \in HostsOf(k)
    BY <2>0, <2>1, LayerNodes DEF pods, edge_sws, hosts
  <2>3. EdgeId(0, 0) \in SwitchesOf(k)
    <3>1. EdgeId(0, 0) \in layer_nodes(k, LAYER_EDGE)
      BY <2>0, LayerNodes DEF pods, edge_sws
    <3>. QED BY <3>1, <2>0, <2>1, SwitchLayers
  <2>4. HostsOf(k) \intersect SwitchesOf(k) = {}
    BY <2>1 DEF Switches
  <2>5. ASSUME NEW n \in HostsOf(k) \union SwitchesOf(k)
        PROVE  /\ n = [pod |-> n.pod, sw |-> n.sw, host |-> n.host]
               /\ n.pod \in Int /\ n.sw \in Int /\ n.host \in Int
               /\ 0 <= n.pod /\ 0 <= n.sw /\ 0 <= n.host
    <3>1. CASE n \in layer_nodes(k, LAYER_CORE)
      BY <3>1, <2>0, CoreNumbers
    <3>2. CASE n \in layer_nodes(k, LAYER_AGG)
      BY <3>2, <2>0, AggNumbers
    <3>3. CASE n \in layer_nodes(k, LAYER_EDGE)
      BY <3>3, <2>0, EdgeNumbers
    <3>4. CASE n \in layer_nodes(k, LAYER_HOST)
      BY <3>4, <2>0, HostNumbers
    <3>. QED BY <2>0, <2>1, <3>1, <3>2, <3>3, <3>4, SwitchLayers
  <2>6. C0 \notin HostsOf(k) \union SwitchesOf(k)
    BY <2>5 DEF C0, FatTreeNodeID
  <2>7. \A n \in HostsOf(k) \union SwitchesOf(k) : -65536 <= dpid(n)
    BY <2>5 DEF dpid
  <2>. QED BY <2>2, <2>3, <2>4, <2>5, <2>6, <2>7 DEF NodesOK
<1>. QED BY <1>1, <1>2

(* A link goes from a node to a switch, and no two links join the same      *)
(* nodes.                                                                   *)
LinksOK(hs, ss, ls) ==
    /\ ls # {}
    /\ \A l \in ls : /\ l = <<l[1], l[2]>> /\ l[1] \in hs \union ss /\ l[2] \in ss
                     /\ l[1] # l[2] /\ <<l[2], l[1]>> \notin ls

LEMMA TopologyLinks ==
    ASSUME NEW k \in DegreesTried
    PROVE  LinksOK(HostsOf(k), SwitchesOf(k), LinksOf(k))
<1>. DEFINE hs == HostsOf(k)
            ss == SwitchesOf(k)
            ls == LinksOf(k)
<1>1. CASE k = 0
  <2>1. hs \intersect ss = {} /\ hs # {}
    BY TopologyNodes DEF NodesOK
  <2>2. ls = hs \X {S1} /\ ss = {S1}
    BY <1>1, TopologyOfDegree
  <2>3. ASSUME NEW l \in ls PROVE l = <<l[1], l[2]>> /\ l[1] \in hs /\ l[2] = S1
    BY <2>2
  <2>4. ls # {}
    <3>1. PICK h \in hs : TRUE
      BY <2>1
    <3>2. <<h, S1>> \in ls
      BY <2>2
    <3>. QED BY <3>2
  <2>. QED BY <2>1, <2>2, <2>3, <2>4 DEF LinksOK
<1>2. CASE k # 0
  <2>0. k \in Nat /\ k >= 2 /\ k \div 2 \in Int /\ k \div 2 >= 1 /\ k \div 2 <= k - 1
    BY <1>2, Degrees DEF DegreesTried
  <2>1. hs = layer_nodes(k, LAYER_HOST) /\ ss = Switches(k) /\ ls = Links(k)
    BY <1>2, TopologyOfDegree
  <2>2. ASSUME NEW l \in ls
        PROVE  l = <<l[1], l[2]>>
    BY <2>1 DEF Links, HostEdgeLinks, EdgeAggLinks, CoreAggLinks
  <2>3. ls # {}
    <3>1. <<HostId(0, 0, 2), EdgeId(0, 0)>> \in HostEdgeLinks(k)
      BY <2>0 DEF HostEdgeLinks, pods, edge_sws, hosts
    <3>. QED BY <2>1, <3>1 DEF Links
  <2>4. ASSUME NEW m, NEW n, <<m, n>> \in ls
        PROVE  m \in hs \union ss /\ n \in ss
    BY <2>0, <2>1, <2>4, LinkKinds, SwitchLayers DEF HostEdge, EdgeAgg, CoreAgg
  <2>5. ASSUME NEW m, NEW n, <<m, n>> \in ls
        PROVE  m # n /\ <<n, m>> \notin ls
    <3>1. HostEdge(k, m, n) \/ EdgeAgg(k, m, n) \/ CoreAgg(k, m, n)
      BY <2>0, <2>1, <2>5, LinkKinds
    <3>2. \A x, y : <<x, y>> \in ls =>
              HostEdge(k, x, y) \/ EdgeAgg(k, x, y) \/ CoreAgg(k, x, y)
      BY <2>0, <2>1, LinkKinds
    <3>3. \A x : \A l1, l2 \in Layers :
              x \in layer_nodes(k, l1) /\ x \in layer_nodes(k, l2) => l1 = l2
      BY <2>0, LayersAreDisjoint
    <3>. QED BY <3>1, <3>2, <3>3 DEF HostEdge, EdgeAgg, CoreAgg, Layers,
                LAYER_CORE, LAYER_AGG, LAYER_EDGE, LAYER_HOST
  <2>6. ASSUME NEW l \in ls
        PROVE  /\ l = <<l[1], l[2]>> /\ l[1] \in hs \union ss /\ l[2] \in ss
               /\ l[1] # l[2] /\ <<l[2], l[1]>> \notin ls
    BY <2>2, <2>4, <2>5
  <2>. QED BY <2>3, <2>6 DEF LinksOK
<1>. QED BY <1>1, <1>2

(* A topology is finite. *)
LEMMA LayersAreFinite ==
    ASSUME NEW k \in Nat
    PROVE  /\ IsFiniteSet(layer_nodes(k, LAYER_CORE)) /\ IsFiniteSet(layer_nodes(k, LAYER_AGG))
           /\ IsFiniteSet(layer_nodes(k, LAYER_EDGE)) /\ IsFiniteSet(layer_nodes(k, LAYER_HOST))
<1>. k \div 2 \in Int
  OBVIOUS
<1>1. /\ IsFiniteSet(pods(k)) /\ IsFiniteSet(core_sws(k)) /\ IsFiniteSet(agg_sws(k))
      /\ IsFiniteSet(edge_sws(k)) /\ IsFiniteSet(hosts(k))
  BY FS_Interval DEF pods, core_sws, agg_sws, edge_sws, hosts
<1>2. IsFiniteSet(layer_nodes(k, LAYER_CORE))
  <2>1. IsFiniteSet(agg_sws(k) \X core_sws(k))
    BY <1>1, FS_Product
  <2>. DEFINE f == [x \in agg_sws(k) \X core_sws(k) |-> CoreId(k, x[1], x[2])]
  <2>2. ASSUME NEW n \in layer_nodes(k, LAYER_CORE)
        PROVE  \E x \in agg_sws(k) \X core_sws(k) : n = f[x]
    <3>1. PICK a \in agg_sws(k), c \in core_sws(k) : n = CoreId(k, a, c)
      BY LayerNodes
    <3>2. <<a, c>> \in agg_sws(k) \X core_sws(k)
      OBVIOUS
    <3>3. f[<<a, c>>] = n
      BY <3>1, <3>2
    <3>. QED BY <3>2, <3>3
  <2>3. f \in Surjection(agg_sws(k) \X core_sws(k), layer_nodes(k, LAYER_CORE))
    <3>1. \A x \in agg_sws(k) \X core_sws(k) : CoreId(k, x[1], x[2]) \in layer_nodes(k, LAYER_CORE)
      BY LayerNodes
    <3>. QED BY <2>2, <3>1 DEF Surjection
  <2>. QED BY <2>1, <2>3, FS_Surjection
<1>3. IsFiniteSet(layer_nodes(k, LAYER_AGG))
  <2>1. IsFiniteSet(pods(k) \X agg_sws(k))
    BY <1>1, FS_Product
  <2>. DEFINE f == [x \in pods(k) \X agg_sws(k) |-> AggId(x[1], x[2])]
  <2>2. ASSUME NEW n \in layer_nodes(k, LAYER_AGG)
        PROVE  \E x \in pods(k) \X agg_sws(k) : n = f[x]
    <3>1. PICK p \in pods(k), a \in agg_sws(k) : n = AggId(p, a)
      BY LayerNodes
    <3>2. <<p, a>> \in pods(k) \X agg_sws(k)
      OBVIOUS
    <3>3. f[<<p, a>>] = n
      BY <3>1, <3>2
    <3>. QED BY <3>2, <3>3
  <2>3. f \in Surjection(pods(k) \X agg_sws(k), layer_nodes(k, LAYER_AGG))
    <3>1. \A x \in pods(k) \X agg_sws(k) : AggId(x[1], x[2]) \in layer_nodes(k, LAYER_AGG)
      BY LayerNodes
    <3>. QED BY <2>2, <3>1 DEF Surjection
  <2>. QED BY <2>1, <2>3, FS_Surjection
<1>4. IsFiniteSet(layer_nodes(k, LAYER_EDGE))
  <2>1. IsFiniteSet(pods(k) \X edge_sws(k))
    BY <1>1, FS_Product
  <2>. DEFINE f == [x \in pods(k) \X edge_sws(k) |-> EdgeId(x[1], x[2])]
  <2>2. ASSUME NEW n \in layer_nodes(k, LAYER_EDGE)
        PROVE  \E x \in pods(k) \X edge_sws(k) : n = f[x]
    <3>1. PICK p \in pods(k), e \in edge_sws(k) : n = EdgeId(p, e)
      BY LayerNodes
    <3>2. <<p, e>> \in pods(k) \X edge_sws(k)
      OBVIOUS
    <3>3. f[<<p, e>>] = n
      BY <3>1, <3>2
    <3>. QED BY <3>2, <3>3
  <2>3. f \in Surjection(pods(k) \X edge_sws(k), layer_nodes(k, LAYER_EDGE))
    <3>1. \A x \in pods(k) \X edge_sws(k) : EdgeId(x[1], x[2]) \in layer_nodes(k, LAYER_EDGE)
      BY LayerNodes
    <3>. QED BY <2>2, <3>1 DEF Surjection
  <2>. QED BY <2>1, <2>3, FS_Surjection
<1>5. IsFiniteSet(layer_nodes(k, LAYER_HOST))
  <2>1. IsFiniteSet(pods(k) \X edge_sws(k)) /\ IsFiniteSet((pods(k) \X edge_sws(k)) \X hosts(k))
    BY <1>1, FS_Product
  <2>. DEFINE D == (pods(k) \X edge_sws(k)) \X hosts(k)
              f == [x \in D |-> HostId(x[1][1], x[1][2], x[2])]
  <2>2. f \in Surjection(D, layer_nodes(k, LAYER_HOST))
    <3>1. \A x \in D : HostId(x[1][1], x[1][2], x[2]) \in layer_nodes(k, LAYER_HOST)
      BY LayerNodes
    <3>2. ASSUME NEW n \in layer_nodes(k, LAYER_HOST)
          PROVE  \E x \in D : n = f[x]
      <4>1. PICK p \in pods(k), e \in edge_sws(k), h \in hosts(k) : n = HostId(p, e, h)
        BY LayerNodes
      <4>2. <<<<p, e>>, h>> \in D
        OBVIOUS
      <4>3. f[<<<<p, e>>, h>>] = n
        BY <4>1, <4>2
      <4>. QED BY <4>2, <4>3
    <3>. QED BY <3>1, <3>2 DEF Surjection
  <2>. QED BY <2>1, <2>2, FS_Surjection
<1>. QED BY <1>2, <1>3, <1>4, <1>5

LEMMA TopologyIsFinite ==
    ASSUME NEW k \in DegreesTried
    PROVE  IsFiniteSet(HostsOf(k)) /\ IsFiniteSet(SwitchesOf(k)) /\ IsFiniteSet(LinksOf(k))
<1>1. IsFiniteSet(HostsOf(k)) /\ IsFiniteSet(SwitchesOf(k))
  <2>1. CASE k = 0
    <3>1. IsFiniteSet(1 .. MySingleSwitchHosts)
      <4>1. MySingleSwitchHosts \in Int
        BY DEF MySingleSwitchHosts
      <4>. QED BY <4>1, FS_Interval
    <3>. DEFINE f == [i \in 1 .. MySingleSwitchHosts |-> TestHost(i)]
    <3>2. f \in Surjection(1 .. MySingleSwitchHosts, HostsOf(k))
      BY <2>1, TopologyOfDegree DEF Surjection
    <3>3. IsFiniteSet(HostsOf(k))
      BY <3>1, <3>2, FS_Surjection
    <3>4. SwitchesOf(k) = {S1}
      BY <2>1, TopologyOfDegree
    <3>. QED BY <3>3, <3>4, FS_Singleton
  <2>2. CASE k # 0
    <3>1. k \in Nat
      BY <2>2, Degrees DEF DegreesTried
    <3>2. IsFiniteSet(layer_nodes(k, LAYER_CORE) \union layer_nodes(k, LAYER_AGG))
      BY <3>1, LayersAreFinite, FS_Union
    <3>3. IsFiniteSet(Switches(k))
      BY <3>1, <3>2, LayersAreFinite, SwitchLayers, FS_Union
    <3>. QED BY <2>2, <3>1, <3>3, TopologyOfDegree, LayersAreFinite
  <2>. QED BY <2>1, <2>2
<1>2. IsFiniteSet((HostsOf(k) \union SwitchesOf(k)) \X SwitchesOf(k))
  BY <1>1, FS_Union, FS_Product
<1>3. LinksOf(k) \subseteq (HostsOf(k) \union SwitchesOf(k)) \X SwitchesOf(k)
  <2>1. ASSUME NEW l \in LinksOf(k)
        PROVE  l \in (HostsOf(k) \union SwitchesOf(k)) \X SwitchesOf(k)
    <3>1. l = <<l[1], l[2]>> /\ l[1] \in HostsOf(k) \union SwitchesOf(k) /\ l[2] \in SwitchesOf(k)
      BY TopologyLinks DEF LinksOK
    <3>. QED BY <3>1
  <2>. QED BY <2>1
<1>. QED BY <1>1, <1>2, <1>3, FS_Subset

(* The places of the links are natural numbers and tell the links apart. *)
LEMMA DigitsAreUnique ==
    ASSUME NEW d \in Nat, NEW a \in Nat, NEW b \in Nat, NEW y \in Nat, NEW z \in Nat,
           y < d, z < d, a * d + y = b * d + z
    PROVE  a = b /\ y = z
<1>1. ASSUME NEW u \in Nat, NEW v \in Nat, u < v PROVE u * d + d <= v * d
  <2>1. PICK w \in Nat : v = u + 1 + w
    <3>1. v = u + 1 + (v - u - 1) /\ v - u - 1 \in Nat
      BY <1>1
    <3>. QED BY <3>1
  <2>2. v * d = u * d + d + w * d /\ w * d \in Nat /\ u * d \in Nat
    BY <2>1
  <2>. QED BY <2>2
<1>2. a * d \in Nat /\ b * d \in Nat
  OBVIOUS
<1>3. ~(a < b)
  BY <1>1, <1>2
<1>4. ~(b < a)
  BY <1>1, <1>2
<1>. QED BY <1>2, <1>3, <1>4

LEMMA RanksAreUnique ==
    ASSUME NEW k \in Nat, NEW p \in Nat, NEW q \in Nat, NEW x \in 0 .. k, NEW v \in 0 .. k,
           NEW y \in 0 .. 3 * k - 1, NEW z \in 0 .. 3 * k - 1
    PROVE  /\ rank(k, p, x, y) \in Nat
           /\ rank(k, p, x, y) = rank(k, q, v, z) => p = q /\ x = v /\ y = z
<1>1. p * (k + 1) + x \in Nat /\ q * (k + 1) + v \in Nat /\ 3 * k \in Nat /\ k + 1 \in Nat
  OBVIOUS
<1>2. (p * (k + 1) + x) * (3 * k) \in Nat
  BY <1>1
<1>3. ASSUME rank(k, p, x, y) = rank(k, q, v, z)
      PROVE  p = q /\ x = v /\ y = z
  <2>. DEFINE a == p * (k + 1) + x
              b == q * (k + 1) + v
              d == 3 * k
  <2>1. a * d + y = b * d + z
    BY <1>3 DEF rank
  <2>2. a \in Nat /\ b \in Nat /\ d \in Nat /\ y \in Nat /\ z \in Nat /\ y < d /\ z < d
    BY <1>1
  <2>3. a = b /\ y = z
    <3>. HIDE DEF a, b, d
    <3>. QED BY <2>1, <2>2, DigitsAreUnique
  <2>4. x \in Nat /\ v \in Nat /\ x < k + 1 /\ v < k + 1
    OBVIOUS
  <2>5. p = q /\ x = v
    BY <1>1, <2>3, <2>4, DigitsAreUnique
  <2>. QED BY <2>3, <2>5
<1>. QED BY <1>2, <1>3 DEF rank

Place(k, l) == Positions[k][l]

LEMMA LinkSets ==
    ASSUME NEW k \in Nat, NEW l
    PROVE  /\ l \in HostEdgeLinks(k) => HostEdge(k, l[1], l[2])
           /\ l \in EdgeAggLinks(k)  => EdgeAgg(k, l[1], l[2])
           /\ l \in CoreAggLinks(k)  => CoreAgg(k, l[1], l[2])
<1>1. ASSUME l \in HostEdgeLinks(k) PROVE HostEdge(k, l[1], l[2])
  <2>1. PICK p \in pods(k), e \in edge_sws(k), h \in hosts(k) : l = <<HostId(p, e, h), EdgeId(p, e)>>
    BY <1>1 DEF HostEdgeLinks
  <2>. QED BY <2>1, LayerNodes DEF HostEdge, HostId, EdgeId, FatTreeNodeID
<1>2. ASSUME l \in EdgeAggLinks(k) PROVE EdgeAgg(k, l[1], l[2])
  <2>1. PICK p \in pods(k), e \in edge_sws(k), a \in agg_sws(k) : l = <<EdgeId(p, e), AggId(p, a)>>
    BY <1>2 DEF EdgeAggLinks
  <2>. QED BY <2>1, LayerNodes DEF EdgeAgg, EdgeId, AggId, FatTreeNodeID
<1>3. ASSUME l \in CoreAggLinks(k) PROVE CoreAgg(k, l[1], l[2])
  <2>1. PICK p \in pods(k), a \in agg_sws(k), c \in core_sws(k) : l = <<CoreId(k, a, c), AggId(p, a)>>
    BY <1>3 DEF CoreAggLinks
  <2>. QED BY <2>1, LayerNodes DEF CoreAgg, CoreId, AggId, FatTreeNodeID
<1>. QED BY <1>1, <1>2, <1>3

(* The three numbers a link of each kind is ranked by. *)
RankedBy(k, l, p, x, y) ==
    \/ /\ x < k \div 2 /\ y < 2 * k
       /\ l[1] = FatTreeNodeID(p, x, y) /\ l[2] = FatTreeNodeID(p, x, 1)
    \/ /\ x < k \div 2 /\ y >= 2 * k
       /\ l[1] = FatTreeNodeID(p, x, 1) /\ l[2] = FatTreeNodeID(p, y - 2 * k, 1)
    \/ /\ x >= k \div 2
       /\ l[1] = FatTreeNodeID(k, x - (k \div 2) + 1, y) /\ l[2] = FatTreeNodeID(p, x, 1)

LEMMA PlaceOfLink ==
    ASSUME NEW k \in PodCounts, NEW l \in LinksOf(k)
    PROVE  \E p \in Nat, x \in 0 .. k, y \in 0 .. 3 * k - 1 :
              Place(k, l) = rank(k, p, x, y) /\ RankedBy(k, l, p, x, y)
<1>. USE DEF FatTreeNodeID
<1>1. /\ k \in Nat /\ k >= 2 /\ k # 0 /\ k \in DegreesTried
      /\ k \div 2 \in Int /\ k \div 2 >= 1 /\ k \div 2 <= k - 1
  BY Degrees
<1>2. LinksOf(k) = Links(k)
  BY <1>1, TopologyOfDegree
<1>3. \A m : \A l1, l2 \in Layers : m \in layer_nodes(k, l1) /\ m \in layer_nodes(k, l2) => l1 = l2
  BY <1>1, LayersAreDisjoint
<1>4. /\ l \in HostEdgeLinks(k) => l \notin EdgeAggLinks(k) /\ l \notin CoreAggLinks(k)
      /\ l \in EdgeAggLinks(k) => l \notin CoreAggLinks(k)
  BY <1>1, <1>3, LinkSets DEF HostEdge, EdgeAgg, CoreAgg, Layers,
     LAYER_CORE, LAYER_AGG, LAYER_EDGE, LAYER_HOST
<1>5. Place(k, l) =
        CASE k = 0                  -> l[1].host
          [] l \in HostEdgeLinks(k) -> rank(k, l[2].pod, l[2].sw, l[1].host)
          [] l \in EdgeAggLinks(k)  -> rank(k, l[1].pod, l[1].sw, 2 * k + l[2].sw)
          [] l \in CoreAggLinks(k)  -> rank(k, l[2].pod, l[2].sw, l[1].host)
  <2>1. k \in DOMAIN Topologies /\ l \in Topologies[k].links
    BY <1>1 DEF DegreesTried, Topologies, LinksOf
  <2>. QED BY <2>1 DEF Place, Positions
<1>6. CASE l \in HostEdgeLinks(k)
  <2>1. Place(k, l) = rank(k, l[2].pod, l[2].sw, l[1].host)
    BY <1>1, <1>4, <1>5, <1>6
  <2>2. HostEdge(k, l[1], l[2])
    BY <1>1, <1>6, LinkSets
  <2>3. /\ l[2].pod \in Nat /\ l[2].sw \in 0 .. k /\ l[1].host \in 0 .. 3 * k - 1
        /\ RankedBy(k, l, l[2].pod, l[2].sw, l[1].host)
    BY <1>1, <2>2, HostNumbers, EdgeNumbers DEF HostEdge, RankedBy
  <2>. QED BY <2>1, <2>3
<1>7. CASE l \in EdgeAggLinks(k)
  <2>1. Place(k, l) = rank(k, l[1].pod, l[1].sw, 2 * k + l[2].sw)
    BY <1>1, <1>4, <1>5, <1>7
  <2>2. EdgeAgg(k, l[1], l[2])
    BY <1>1, <1>7, LinkSets
  <2>3. /\ l[1].pod \in Nat /\ l[1].sw \in 0 .. k /\ 2 * k + l[2].sw \in 0 .. 3 * k - 1
        /\ RankedBy(k, l, l[1].pod, l[1].sw, 2 * k + l[2].sw)
    BY <1>1, <2>2, EdgeNumbers, AggNumbers DEF EdgeAgg, RankedBy
  <2>. QED BY <2>1, <2>3
<1>8. CASE l \in CoreAggLinks(k)
  <2>1. Place(k, l) = rank(k, l[2].pod, l[2].sw, l[1].host)
    BY <1>1, <1>4, <1>5, <1>8
  <2>2. CoreAgg(k, l[1], l[2])
    BY <1>1, <1>8, LinkSets
  <2>3. /\ l[2].pod \in Nat /\ l[2].sw \in 0 .. k /\ l[1].host \in 0 .. 3 * k - 1
        /\ RankedBy(k, l, l[2].pod, l[2].sw, l[1].host)
    BY <1>1, <2>2, CoreNumbers, AggNumbers DEF CoreAgg, RankedBy
  <2>. QED BY <2>1, <2>3
<1>. QED BY <1>2, <1>6, <1>7, <1>8 DEF Links

LEMMA PlacesAreUnique ==
    ASSUME NEW k \in DegreesTried, NEW l \in LinksOf(k), NEW m \in LinksOf(k)
    PROVE  Place(k, l) \in Nat /\ (Place(k, l) = Place(k, m) => l = m)
<1>0. l = <<l[1], l[2]>> /\ m = <<m[1], m[2]>>
  BY TopologyLinks DEF LinksOK
<1>1. CASE k = 0
  <2>1. LinksOf(k) = {TestHost(i) : i \in 1 .. MySingleSwitchHosts} \X {S1}
    BY <1>1, TopologyOfDegree
  <2>2. ASSUME NEW n \in LinksOf(k) PROVE Place(k, n) = n[1].host
    <3>1. k \in DOMAIN Topologies /\ n \in Topologies[k].links
      BY <1>1 DEF DegreesTried, Topologies, LinksOf
    <3>2. pods(0) = {}
      BY DEF pods
    <3>3. HostEdgeLinks(0) = {} /\ EdgeAggLinks(0) = {} /\ CoreAggLinks(0) = {}
      BY <3>2 DEF HostEdgeLinks, EdgeAggLinks, CoreAggLinks
    <3>. QED BY <1>1, <3>1, <3>3 DEF Place, Positions
  <2>3. PICK i \in 1 .. 5, j \in 1 .. 5 : l = <<TestHost(i), S1>> /\ m = <<TestHost(j), S1>>
    BY <2>1 DEF MySingleSwitchHosts
  <2>. QED BY <2>2, <2>3 DEF TestHost, FatTreeNodeID
<1>2. CASE k # 0
  <2>1. k \in PodCounts /\ k \in Nat
    BY <1>2, Degrees DEF DegreesTried
  <2>2. PICK p \in Nat, x \in 0 .. k, y \in 0 .. 3 * k - 1 :
            Place(k, l) = rank(k, p, x, y) /\ RankedBy(k, l, p, x, y)
    BY <2>1, PlaceOfLink
  <2>3. PICK q \in Nat, v \in 0 .. k, z \in 0 .. 3 * k - 1 :
            Place(k, m) = rank(k, q, v, z) /\ RankedBy(k, m, q, v, z)
    BY <2>1, PlaceOfLink
  <2>4. Place(k, l) \in Nat /\ (Place(k, l) = Place(k, m) => p = q /\ x = v /\ y = z)
    BY <2>1, <2>2, <2>3, RanksAreUnique
  <2>5. ASSUME p = q, x = v, y = z PROVE l[1] = m[1] /\ l[2] = m[2]
    BY <2>1, <2>2, <2>3, <2>5 DEF RankedBy
  <2>. QED BY <1>0, <2>4, <2>5
<1>. QED BY <1>1, <1>2

-----------------------------------------------------------------------------
(* The orders in which nodes, links and interfaces are gone through: each   *)
(* choice of a first one is a choice of something that is there.            *)

LEMMA LeastExists ==
    ASSUME NEW S, S # {}, NEW f, \A x \in S : f[x] \in Nat
    PROVE  \E x \in S : \A y \in S : f[x] <= f[y]
<1>. DEFINE V == {f[x] : x \in S}
<1>1. V \in SUBSET Nat /\ V # {}
  OBVIOUS
<1>2. PICK v \in V : \A w \in V : <<w, v>> \notin OpToRel(<, Nat)
  BY <1>1, WFMin, NatLessThanWellFounded
<1>3. \A w \in V : w < v => <<w, v>> \in OpToRel(<, Nat)
  BY <1>1 DEF OpToRel
<1>4. \A w \in V : ~(w < v)
  <2>. HIDE DEF OpToRel, V
  <2>. QED BY <1>2, <1>3
<1>5. PICK x \in S : f[x] = v
  OBVIOUS
<1>6. ASSUME NEW y \in S PROVE f[x] <= f[y]
  <2>1. f[y] \in V
    OBVIOUS
  <2>2. ~(f[y] < f[x])
    <3>. HIDE DEF V
    <3>. QED BY <1>4, <1>5, <2>1
  <2>. QED BY <2>2
<1>. QED BY <1>6

LEMMA FirstIsThere ==
    ASSUME NEW k \in DegreesTried, NEW S, S \subseteq HostsOf(k) \union SwitchesOf(k), S # {}
    PROVE  First(S) \in S /\ \A m \in S : dpid(First(S)) <= dpid(m)
<1>1. \A n \in S : dpid(n) \in Int /\ -65536 <= dpid(n)
  BY TopologyNodes DEF NodesOK, dpid
<1>. DEFINE f == [n \in S |-> dpid(n) + 65536]
<1>2. \A n \in S : f[n] = dpid(n) + 65536 /\ f[n] \in Nat
  BY <1>1
<1>3. PICK x \in S : \A y \in S : f[x] <= f[y]
  <2>. HIDE DEF f
  <2>. QED BY <1>2, LeastExists
<1>4. \A y \in S : dpid(x) <= dpid(y)
  <2>. HIDE DEF f
  <2>. QED BY <1>1, <1>2, <1>3
<1>. QED BY <1>4 DEF First

LEMMA FirstLinkIsThere ==
    ASSUME run \in Runs, NEW S, S \subseteq NetLinks, S # {}
    PROVE  FirstLink(S) \in S
<1>1. run.k \in DegreesTried /\ NetLinks = LinksOf(run.k)
  BY DEF Runs, FatTreeRun, SingleRun, DegreesTried, NetLinks, LinksOf
<1>2. \A l \in S : Positions[run.k][l] \in Nat
  BY <1>1, PlacesAreUnique DEF Place
<1>3. PICK x \in S : \A y \in S : Positions[run.k][x] <= Positions[run.k][y]
  <2>. DEFINE f == Positions[run.k]
  <2>1. \A l \in S : f[l] \in Nat
    BY <1>2
  <2>2. \E x \in S : \A y \in S : f[x] <= f[y]
    <3>. HIDE DEF f
    <3>. QED BY <2>1, LeastExists
  <2>. QED BY <2>2
<1>. QED BY <1>3 DEF FirstLink

(* The host of the adaptor is one of the hosts. *)
LEMMA BGHostIsThere ==
    ASSUME run \in Runs
    PROVE  BGHost \in NetHosts
<1>1. run.k \in DegreesTried /\ NetHosts = HostsOf(run.k)
  BY DEF Runs, FatTreeRun, SingleRun, DegreesTried, NetHosts, HostsOf
<1>2. \E n \in NetHosts : \A m \in NetHosts : dpid(n) >= dpid(m)
  <2>1. CASE run.k = 0
    <3>1. NetHosts = {TestHost(i) : i \in 1 .. 5}
      BY <1>1, <2>1, TopologyOfDegree DEF MySingleSwitchHosts
    <3>2. \A i \in 1 .. 5 : dpid(TestHost(i)) = i - 65536
      BY DEF dpid, TestHost, FatTreeNodeID
    <3>3. TestHost(5) \in NetHosts /\ \A m \in NetHosts : dpid(TestHost(5)) >= dpid(m)
      BY <3>1, <3>2
    <3>. QED BY <3>3
  <2>2. CASE run.k # 0
    <3>. DEFINE k == run.k
                top == HostId(k - 1, (k \div 2) - 1, (k \div 2) + 1)
    <3>0. k \in Nat /\ k >= 2 /\ k \div 2 \in Int /\ k \div 2 >= 1
      BY <1>1, <2>2, Degrees DEF DegreesTried
    <3>1. NetHosts = layer_nodes(k, LAYER_HOST)
      BY <1>1, <2>2, TopologyOfDegree
    <3>2. top \in NetHosts
      <4>1. k - 1 \in pods(k) /\ (k \div 2) - 1 \in edge_sws(k) /\ (k \div 2) + 1 \in hosts(k)
        BY <3>0 DEF pods, edge_sws, hosts
      <4>. QED BY <3>1, <4>1, LayerNodes
    <3>3. \A m \in NetHosts : dpid(top) >= dpid(m)
      BY <3>0, <3>1, HostNumbers DEF dpid, HostId, FatTreeNodeID
    <3>. QED BY <3>2, <3>3
  <2>. QED BY <2>1, <2>2
<1>. QED BY <1>2 DEF BGHost, MaxDpid

-----------------------------------------------------------------------------
(* Where a program is and what it still has to go through there.            *)

Stages == {"off", "controller", "nodes", "links", "hosts", "start", "switches", "batch", "queues",
           "share", "test", "delete", "shutdown", "terminate", "bridges", "interfaces", "stale",
           "killed"}

NoError == died = ""

ControlOK ==
    /\ run \in Runs /\ gen \in Nat /\ pc \in Stages
    /\ Running => NoError /\ gen > 0
    /\ CleaningUp => gen > 0
    /\ pc = "nodes" => todo # {} /\ (todo \subseteq NetHosts \/ todo \subseteq NetSwitches)
    /\ pc \in {"links", "delete"} => todo # {} /\ todo \subseteq NetLinks
    /\ pc \in {"hosts", "share", "terminate"} => todo # {} /\ todo \subseteq NetHosts
    /\ pc = "switches" => todo # {} /\ todo \subseteq NetSwitches
    /\ pc = "queues" => todo # {} /\ todo \subseteq SwitchEnds

(* An error that stops the program is never "". *)
LEMMA DieIsAnError ==
    Die("exists") \/ Die("listening") \/ Die("move") \/ Die("crashed") => ~NoError'
BY Zenon DEF Die, NoError

LEMMA TopologyIsFixed ==
    ASSUME run' = run
    PROVE  /\ NetHosts' = NetHosts /\ NetSwitches' = NetSwitches /\ NetLinks' = NetLinks
           /\ SwitchEnds' = SwitchEnds /\ DefaultController' = DefaultController
           /\ IsFatTree' = IsFatTree /\ BGHost' = BGHost
BY DEF NetHosts, NetSwitches, NetLinks, SwitchEnds, DefaultController, IsFatTree, BGHost

LEMMA NetIsTopology ==
    ASSUME run \in Runs
    PROVE  /\ run.k \in DegreesTried
           /\ NetHosts = HostsOf(run.k) /\ NetSwitches = SwitchesOf(run.k) /\ NetLinks = LinksOf(run.k)
           /\ IsFatTree => run.k \in PodCounts /\ run.k \in Nat /\ run.k >= 2
           /\ ~IsFatTree => run.k = 0
BY Degrees DEF Runs, FatTreeRun, SingleRun, DegreesTried, NetHosts, NetSwitches, NetLinks,
   HostsOf, SwitchesOf, LinksOf, IsFatTree

(* The ends of a link: an interface of the switch it goes to and one of     *)
(* the node it comes from.                                                  *)
LEMMA EndsOfLink ==
    ASSUME run \in Runs, NEW l \in NetLinks
    PROVE  /\ Ends(l) = {<<l[1], addPort(run.k, l[1], l)>>, <<l[2], addPort(run.k, l[2], l)>>}
           /\ l[1] \in NetHosts \union NetSwitches /\ l[2] \in NetSwitches /\ l[1] # l[2]
           /\ <<l[2], addPort(run.k, l[2], l)>> \in Ends(l) \intersect SwitchEnds
<1>1. run.k \in DegreesTried /\ run.k \in DOMAIN Topologies /\ l \in Topologies[run.k].links
  BY NetIsTopology DEF DegreesTried, Topologies, NetLinks
<1>2. Ends(l) = {<<l[1], addPort(run.k, l[1], l)>>, <<l[2], addPort(run.k, l[2], l)>>}
  BY <1>1 DEF Ends, EndTable
<1>3. l[1] \in NetHosts \union NetSwitches /\ l[2] \in NetSwitches /\ l[1] # l[2]
  BY NetIsTopology, TopologyLinks DEF LinksOK
<1>4. EndTable[run.k][l] = Ends(l)
  BY DEF Ends
<1>5. SwitchEnds = {e \in UNION {EndTable[run.k][m] : m \in NetLinks} : e[1] \in NetSwitches}
  BY <1>1 DEF SwitchEnds, SwitchEndTable, NetLinks, NetSwitches
<1>. QED BY <1>2, <1>3, <1>4, <1>5

LEMMA SwitchEndsAre ==
    ASSUME run \in Runs
    PROVE  /\ SwitchEnds = {e \in UNION {Ends(l) : l \in NetLinks} : e[1] \in NetSwitches}
           /\ SwitchEnds # {}
<1>1. run.k \in DOMAIN Topologies
  BY NetIsTopology DEF DegreesTried, Topologies
<1>2. SwitchEnds = {e \in UNION {EndTable[run.k][m] : m \in NetLinks} : e[1] \in NetSwitches}
  BY <1>1 DEF SwitchEnds, SwitchEndTable, NetLinks, NetSwitches
<1>3. NetLinks # {}
  BY NetIsTopology, TopologyLinks DEF LinksOK
<1>. QED BY <1>2, <1>3, EndsOfLink DEF Ends

(* Every choice of a first one that a step makes is one of todo. *)
LEMMA FirstsAreThere ==
    ASSUME ControlOK
    PROVE  /\ pc = "nodes" => First(todo) \in todo
           /\ pc \in {"hosts", "share", "terminate"} => First(todo) \in todo /\ First(todo) \in NetHosts
           /\ pc = "switches" => First(todo) \in todo /\ First(todo) \in NetSwitches
           /\ pc \in {"links", "delete"} => FirstLink(todo) \in todo /\ FirstLink(todo) \in NetLinks
<1>1. /\ run.k \in DegreesTried
      /\ NetHosts = HostsOf(run.k) /\ NetSwitches = SwitchesOf(run.k)
  BY NetIsTopology DEF ControlOK
<1>2. pc \in {"nodes", "hosts", "share", "terminate", "switches"} =>
          todo # {} /\ todo \subseteq HostsOf(run.k) \union SwitchesOf(run.k)
  BY <1>1 DEF ControlOK
<1>3. pc \in {"nodes", "hosts", "share", "terminate", "switches"} => First(todo) \in todo
  BY <1>1, <1>2, FirstIsThere
<1>4. pc \in {"links", "delete"} => FirstLink(todo) \in todo
  BY FirstLinkIsThere DEF ControlOK
<1>. QED BY <1>3, <1>4 DEF ControlOK

LEMMA NetIsThere ==
    ASSUME run \in Runs
    PROVE  NetHosts # {} /\ NetSwitches # {} /\ NetLinks # {} /\ SwitchEnds # {}
BY NetIsTopology, TopologyNodes, TopologyLinks, SwitchEndsAre DEF NodesOK, LinksOK

(* Going on to the next one leaves less to do, or is the step to what       *)
(* follows.                                                                 *)
LEMMA NextOfCases ==
    ASSUME NEW x, todo # {}, NEW p, NEW S, NextOf(x, p, S)
    PROVE  \/ todo = {x} /\ pc' = p /\ todo' = S
           \/ todo' # {} /\ todo' = todo \ {x} /\ pc' = pc
BY DEF NextOf, GoTo

LEMMA ControlStep ==
    ASSUME ControlOK, [Next]_vars
    PROVE  ControlOK'
<1>0. run' = run
  BY RunIsKept DEF vars
<1>1. run \in Runs /\ run' \in Runs
  BY <1>0 DEF ControlOK
<1>2. /\ NetHosts # {} /\ NetSwitches # {} /\ NetLinks # {} /\ SwitchEnds # {}
      /\ NetHosts' = NetHosts /\ NetSwitches' = NetSwitches /\ NetLinks' = NetLinks
      /\ SwitchEnds' = SwitchEnds
  BY <1>0, <1>1, NetIsThere, TopologyIsFixed
<1>e. died' = died => (NoError' <=> NoError)
  BY Zenon DEF NoError
<1>. USE DEF ControlOK, Stages, Running, CleaningUp, GoTo
<1>3. CASE UNCHANGED vars
  BY <1>e, <1>2, <1>3 DEF vars
<1>4. CASE StartProgram
  <2>1. pc = "off" /\ gen' = gen + 1 /\ pc' = "controller" /\ NoError'
    BY <1>4, Zenon DEF StartProgram, NoError
  <2>2. gen \in Nat
    OBVIOUS
  <2>. QED BY <1>e, <1>1, <1>2, <2>1, <2>2
<1>5. CASE AddController
  BY <1>e, <1>1, <1>2, <1>5 DEF AddController, Die
<1>6. CASE AddRemoteController
  BY <1>e, <1>1, <1>2, <1>6 DEF AddRemoteController
<1>7. CASE AddNode
  <2>1. todo # {} /\ pc = "nodes" /\ UNCHANGED <<gen, died>>
        /\ \/ NextOf(First(todo), "nodes", NetSwitches)
           \/ NextOf(First(todo), "links", NetLinks)
    BY <1>7 DEF AddNode
  <2>. QED BY <1>e, <1>1, <1>2, <2>1, NextOfCases
<1>8. CASE AddLink
  <2>1. /\ todo # {} /\ pc = "links" /\ UNCHANGED gen
        /\ \/ Die("exists") \/ Die("move")
           \/ NextOf(FirstLink(todo), "hosts", NetHosts) /\ UNCHANGED died
    BY <1>8 DEF AddLink
  <2>. QED BY <1>e, <1>1, <1>2, <2>1, NextOfCases DEF Die
<1>9. CASE config
  <2>1. /\ todo # {} /\ pc = "hosts" /\ UNCHANGED <<gen, died>>
        /\ NextOf(First(todo), "start", {C0})
    BY <1>9 DEF config
  <2>. QED BY <1>e, <1>1, <1>2, <2>1, NextOfCases
<1>10. CASE StartController \/ StartRemoteController
  BY <1>e, <1>1, <1>2, <1>10 DEF StartController, StartRemoteController
<1>11. CASE OVSStart
  <2>1. /\ todo # {} /\ pc = "switches" /\ UNCHANGED <<gen, died>>
        /\ NextOf(First(todo), "batch", {C0})
    BY <1>11 DEF OVSStart
  <2>. QED BY <1>e, <1>1, <1>2, <2>1, NextOfCases
<1>12. CASE batchStartup
  BY <1>e, <1>1, <1>2, <1>12 DEF batchStartup
<1>13. CASE setupSwitchQueues \/ setupSwitchQueuesOfTest
  <2>1. /\ todo # {} /\ pc = "queues" /\ UNCHANGED <<gen, died>>
        /\ NextOf(FirstEnd(todo), "share", NetHosts)
    BY <1>13 DEF setupSwitchQueues, setupSwitchQueuesOfTest, SetQueues
  <2>. QED BY <1>e, <1>1, <1>2, <2>1, NextOfCases
<1>14. CASE startBWShare \/ startBWShareOfTest
  <2>1. /\ todo # {} /\ pc = "share" /\ UNCHANGED <<gen, died>>
        /\ NextOf(First(todo), "test", {C0})
    BY <1>14 DEF startBWShare, startBWShareOfTest, StartAgent
  <2>. QED BY <1>e, <1>1, <1>2, <2>1, NextOfCases
<1>15. CASE StopController \/ StopRemoteController
  BY <1>e, <1>1, <1>2, <1>15 DEF StopController, StopRemoteController
<1>16. CASE StopLink
  <2>1. /\ todo # {} /\ pc = "delete" /\ UNCHANGED <<gen, died>>
        /\ NextOf(FirstLink(todo), "shutdown", {C0})
    BY <1>16 DEF StopLink
  <2>. QED BY <1>e, <1>1, <1>2, <2>1, NextOfCases
<1>17. CASE batchShutdown
  BY <1>e, <1>1, <1>2, <1>17 DEF batchShutdown
<1>18. CASE TerminateHost
  <2>1. /\ todo # {} /\ pc = "terminate" /\ UNCHANGED <<gen, died>>
        /\ NextOf(First(todo), "off", {})
    BY <1>18 DEF TerminateHost
  <2>. QED BY <1>e, <1>1, <1>2, <2>1, NextOfCases
<1>19. CASE Crash
  BY <1>e, <1>1, <1>2, <1>19 DEF Crash, Die
<1>20. CASE OrphanShellsExit
  BY <1>e, <1>1, <1>2, <1>20 DEF OrphanShellsExit
<1>21. CASE Cleanup
  BY <1>e, <1>1, <1>2, <1>21 DEF Cleanup, CleanupProcesses, CleanupBridges, CleanupInterfaces,
     killprocs, pkill, KilledShellDies, pgrep
<1>. QED BY <1>3, <1>4, <1>5, <1>6, <1>7, <1>8, <1>9, <1>10, <1>11, <1>12, <1>13, <1>14, <1>15,
            <1>16, <1>17, <1>18, <1>19, <1>20, <1>21 DEF Next, Program, BuildNetwork,
            StartNetwork, Share, StopNetwork

LEMMA ControlIsOK == Spec => []ControlOK
<1>1. Init => ControlOK
  <2>1. Init => run \in Runs /\ gen = 0 /\ pc = "off"
    BY Zenon DEF Init
  <2>. QED BY <2>1 DEF ControlOK, Stages, Running, CleaningUp
<1>. QED BY <1>1, ControlStep, PTL DEF Spec

-----------------------------------------------------------------------------
(* What a program that is stopped in order leaves.  The nodes that still    *)
(* have something of this run are those the stop has not come to yet.       *)

Stopped == (pc = "off" \/ CleaningUp) /\ gen > 0 /\ NoError

ShellsOK == \A s \in shells : /\ s = [node |-> s.node, gen |-> s.gen]
                              /\ s.node \in NetHosts \union NetSwitches \union {C0}
                              /\ s.gen \in 1 .. gen

ProcsOK == \A p \in procs : /\ p.node \in NetHosts \union {C0} /\ p.gen \in 1 .. gen
                            /\ p.node = C0 => DefaultController

PairsOK == \A p \in veth : p.gen \in 0 .. gen /\ \E l \in NetLinks : p.ends = Ends(l)

ShellsLeft == \A s \in shells : s.gen = gen =>
                 /\ pc = "terminate" => s.node \in todo \union {C0}
                 /\ Stopped => s.node = C0

ProcsLeft == \A p \in procs : p.gen = gen =>
                /\ pc \in {"delete", "shutdown"} => p.node \in NetHosts
                /\ pc = "terminate" => p.node \in todo
                /\ ~Stopped

PairsLeft == \A p \in veth : p.gen = gen =>
                /\ pc = "delete" => \E l \in todo : p.ends = Ends(l)
                /\ pc \notin {"shutdown", "terminate"} /\ ~Stopped

BridgesLeft == /\ DOMAIN bridges \subseteq NetSwitches
               /\ pc = "terminate" \/ Stopped => DOMAIN bridges = {}

LeftInv == /\ ShellsOK /\ ProcsOK /\ PairsOK
           /\ ShellsLeft /\ ProcsLeft /\ PairsLeft /\ BridgesLeft

LEMMA NetIsFixed ==
    ASSUME run' = run
    PROVE  /\ NetHosts' = NetHosts /\ NetSwitches' = NetSwitches /\ NetLinks' = NetLinks
           /\ DefaultController' = DefaultController
           /\ \A l : Ends(l)' = Ends(l)
BY DEF NetHosts, NetSwitches, NetLinks, DefaultController, Ends

LEMMA GenSteps ==
    ASSUME [Next]_vars
    PROVE  gen' = gen \/ gen' = gen + 1
BY DEF vars, Next, StartProgram, Program, BuildNetwork, StartNetwork, Share, StopNetwork, Crash,
       OrphanShellsExit, Cleanup, AddController, AddRemoteController, AddNode, AddLink, config,
       StartController, StartRemoteController, OVSStart, batchStartup, setupSwitchQueues,
       setupSwitchQueuesOfTest, SetQueues, startBWShare, startBWShareOfTest, StartAgent,
       StopController, StopRemoteController, StopLink, batchShutdown, TerminateHost,
       CleanupProcesses, CleanupBridges, CleanupInterfaces,
       killprocs, pkill, KilledShellDies, pgrep, osVars

(* What goes, goes without harm to what stays. *)
LEMMA LessIsOK ==
    ASSUME ControlOK, run' = run, gen' = gen \/ gen' = gen + 1
    PROVE  /\ ShellsOK /\ shells' \subseteq shells => ShellsOK'
           /\ ProcsOK /\ procs' \subseteq procs => ProcsOK'
           /\ PairsOK /\ veth' \subseteq veth => PairsOK'
<1>1. /\ NetHosts' = NetHosts /\ NetSwitches' = NetSwitches /\ NetLinks' = NetLinks
      /\ DefaultController' = DefaultController
      /\ \A l : Ends(l)' = Ends(l)
  BY NetIsFixed
<1>2. gen \in Nat /\ gen' \in Nat /\ 1 .. gen \subseteq 1 .. gen' /\ 0 .. gen \subseteq 0 .. gen'
  <2>1. gen \in Nat
    BY DEF ControlOK
  <2>. QED BY <2>1
<1>3. ASSUME ShellsOK, shells' \subseteq shells PROVE ShellsOK'
  BY <1>1, <1>2, <1>3 DEF ShellsOK
<1>4. ASSUME ProcsOK, procs' \subseteq procs PROVE ProcsOK'
  BY <1>1, <1>2, <1>4 DEF ProcsOK
<1>5. ASSUME PairsOK, veth' \subseteq veth PROVE PairsOK'
  BY <1>1, <1>2, <1>5 DEF PairsOK
<1>. QED BY <1>3, <1>4, <1>5

LEMMA PresentIsLess ==
    \A v, sh, pr : Present(v, sh, pr) \subseteq v
BY DEF Present

(* While a program builds, works or dies nothing is promised of what it     *)
(* leaves.                                                                  *)
LEMMA NothingPromised ==
    ASSUME ControlOK', run' = run,
           pc' \notin {"delete", "shutdown", "terminate"}, ~Stopped',
           ShellsOK', ProcsOK', PairsOK', DOMAIN bridges' \subseteq NetSwitches
    PROVE  LeftInv'
BY NetIsFixed DEF LeftInv, ShellsLeft, ProcsLeft, PairsLeft, BridgesLeft

LEMMA LeftStep ==
    ASSUME ControlOK, LeftInv, [Next]_vars
    PROVE  LeftInv'
<1>0. run' = run /\ (gen' = gen \/ gen' = gen + 1) /\ ControlOK'
  BY RunIsKept, GenSteps, ControlStep DEF vars
<1>1. /\ NetHosts' = NetHosts /\ NetSwitches' = NetSwitches /\ NetLinks' = NetLinks
      /\ DefaultController' = DefaultController
      /\ \A l : Ends(l)' = Ends(l)
  BY <1>0, NetIsFixed
<1>2. run \in Runs /\ gen \in Nat /\ (Running => gen > 0)
  BY DEF ControlOK
<1>c. C0 \notin NetHosts /\ C0 \notin NetSwitches /\ NetHosts \intersect NetSwitches = {}
  <2>1. NodesOK(NetHosts, NetSwitches)
    BY <1>2, NetIsTopology, TopologyNodes
  <2>. QED BY <2>1 DEF NodesOK
<1>e. died' = died => (NoError' <=> NoError)
  BY Zenon DEF NoError
<1>i. ShellsOK /\ ProcsOK /\ PairsOK /\ ShellsLeft /\ ProcsLeft /\ PairsLeft /\ BridgesLeft
  BY DEF LeftInv
<1>k. /\ shells' \subseteq shells => ShellsOK'
      /\ procs' \subseteq procs => ProcsOK'
      /\ veth' \subseteq veth => PairsOK'
  BY <1>0, <1>i, LessIsOK
<1>b. DOMAIN bridges \subseteq NetSwitches
  BY <1>i DEF BridgesLeft
<1>3. CASE UNCHANGED vars
  BY <1>e, <1>1, <1>3 DEF vars, LeftInv, ShellsOK, ProcsOK, PairsOK, ShellsLeft, ProcsLeft, PairsLeft,
     BridgesLeft, Stopped, Running, CleaningUp
<1>4. CASE StartProgram
  <2>1. pc' = "controller" /\ UNCHANGED <<shells, procs, veth, bridges>>
    BY <1>4 DEF StartProgram, osVars, GoTo
  <2>2. ~Stopped'
    BY <2>1 DEF Stopped, CleaningUp
  <2>. QED BY <1>0, <1>b, <1>k, <2>1, <2>2, NothingPromised
<1>n. ASSUME NEW n \in NetHosts \union NetSwitches \union {C0}, StartShell(n), gen' = gen, gen > 0
      PROVE  ShellsOK'
  <2>1. \A s \in shells' : s \in shells \/ s = [node |-> n, gen |-> gen]
    BY <1>n DEF StartShell
  <2>. QED BY <1>1, <1>2, <1>i, <1>n, <2>1 DEF ShellsOK
<1>5. CASE AddController \/ AddRemoteController
  <2>1. /\ pc = "controller" /\ StartShell(C0) /\ UNCHANGED <<gen, procs, veth, bridges>>
        /\ pc' = "nodes" \/ (pc' = "off" /\ ~NoError')
    BY <1>5, DieIsAnError DEF AddController, AddRemoteController, Die, GoTo
  <2>2. pc' \notin {"delete", "shutdown", "terminate"} /\ ~Stopped' /\ gen > 0
    BY <1>2, <2>1 DEF Stopped, CleaningUp, Running
  <2>. QED BY <1>0, <1>b, <1>k, <1>n, <2>1, <2>2, NothingPromised
<1>7. CASE AddNode
  <2>1. /\ pc = "nodes" /\ StartShell(First(todo)) /\ UNCHANGED <<gen, procs, veth, bridges>>
        /\ \/ NextOf(First(todo), "nodes", NetSwitches)
           \/ NextOf(First(todo), "links", NetLinks)
    BY <1>7 DEF AddNode
  <2>2. First(todo) \in NetHosts \union NetSwitches /\ todo # {}
    BY <2>1, FirstsAreThere DEF ControlOK
  <2>3. pc' \notin {"delete", "shutdown", "terminate"} /\ ~Stopped' /\ gen > 0
    BY <1>2, <2>1, <2>2, NextOfCases DEF Stopped, CleaningUp, Running
  <2>. QED BY <1>0, <1>b, <1>k, <1>n, <2>1, <2>2, <2>3, NothingPromised
<1>8. CASE AddLink
  <2>. DEFINE l == FirstLink(todo)
  <2>1. /\ pc = "links" /\ UNCHANGED <<gen, shells, procs, bridges>>
        /\ Die("exists") \/ Die("move") \/ NextOf(l, "hosts", NetHosts)
        /\ veth' \subseteq veth \/ \E f \in Nat : veth' \subseteq veth \union {moveIntf(l, f)}
    BY <1>8 DEF AddLink, Retries
  <2>2. l \in NetLinks /\ todo # {}
    BY <2>1, FirstsAreThere DEF ControlOK
  <2>3. pc' \notin {"delete", "shutdown", "terminate"} /\ ~Stopped' /\ gen > 0
    BY <1>2, <2>1, <2>2, NextOfCases, DieIsAnError DEF Stopped, CleaningUp, Running, Die, GoTo
  <2>4. PairsOK'
    <3>1. CASE veth' \subseteq veth
      BY <1>k, <3>1
    <3>2. CASE \E f \in Nat : veth' \subseteq veth \union {moveIntf(l, f)}
      <4>1. PICK f \in Nat : veth' \subseteq veth \union {moveIntf(l, f)}
        BY <3>2
      <4>2. moveIntf(l, f).ends = Ends(l) /\ moveIntf(l, f).gen \in {0, gen}
        BY DEF moveIntf, PairOf
      <4>. QED BY <1>1, <1>2, <1>i, <2>1, <2>2, <4>1, <4>2 DEF PairsOK
    <3>. QED BY <2>1, <3>1, <3>2
  <2>. QED BY <1>0, <1>b, <1>k, <2>1, <2>3, <2>4, NothingPromised
<1>9. CASE config
  <2>1. pc = "hosts" /\ todo # {} /\ NextOf(First(todo), "start", {C0})
        /\ UNCHANGED <<gen, shells, procs, veth, bridges>>
    BY <1>9 DEF config, osVars, ControlOK
  <2>2. pc' \in {"hosts", "start"} /\ ~Stopped'
    BY <2>1, NextOfCases DEF Stopped, CleaningUp
  <2>. QED BY <1>0, <1>b, <1>k, <2>1, <2>2, NothingPromised
<1>10. CASE StartController \/ StartRemoteController
  <2>1. /\ pc = "start" /\ pc' = "switches" /\ UNCHANGED <<gen, shells, veth, bridges>>
    BY <1>10 DEF StartController, StartRemoteController, osVars, GoTo
  <2>2. ~Stopped' /\ gen > 0
    BY <1>2, <2>1 DEF Stopped, CleaningUp, Running
  <2>3. ProcsOK'
    <3>1. CASE StartRemoteController
      BY <1>k, <3>1 DEF StartRemoteController, osVars
    <3>2. CASE StartController
      <4>1. \A p \in procs' : p \in procs \/ (p.node = C0 /\ p.gen = gen)
        BY <3>2 DEF StartController
      <4>2. DefaultController
        BY <3>2 DEF StartController
      <4>. QED BY <1>1, <1>2, <1>i, <2>1, <2>2, <4>1, <4>2 DEF ProcsOK
    <3>. QED BY <1>10, <3>1, <3>2
  <2>. QED BY <1>0, <1>b, <1>k, <2>1, <2>2, <2>3, NothingPromised
<1>11. CASE OVSStart
  <2>1. /\ pc = "switches" /\ todo # {} /\ NextOf(First(todo), "batch", {C0})
        /\ bridges' = With(bridges, First(todo), bridgeOpts(First(todo)))
        /\ UNCHANGED <<gen, shells, procs, veth>>
    BY <1>11 DEF OVSStart, ControlOK
  <2>2. pc' \in {"switches", "batch"} /\ ~Stopped'
    BY <2>1, NextOfCases DEF Stopped, CleaningUp
  <2>3. DOMAIN bridges' \subseteq NetSwitches
    BY <1>b, <2>1, FirstsAreThere DEF With, WithAll
  <2>. QED BY <1>0, <1>k, <2>1, <2>2, <2>3, NothingPromised
<1>12. CASE batchStartup
  <2>1. pc' = "queues" /\ UNCHANGED <<shells, procs, veth, bridges>>
    BY <1>12 DEF batchStartup, GoTo
  <2>2. ~Stopped'
    BY <2>1 DEF Stopped, CleaningUp
  <2>. QED BY <1>0, <1>b, <1>k, <2>1, <2>2, NothingPromised
<1>13. CASE setupSwitchQueues \/ setupSwitchQueuesOfTest
  <2>1. pc = "queues" /\ todo # {} /\ NextOf(FirstEnd(todo), "share", NetHosts)
        /\ UNCHANGED <<gen, shells, procs, veth, bridges>>
    BY <1>13 DEF setupSwitchQueues, setupSwitchQueuesOfTest, SetQueues, ControlOK
  <2>2. pc' \in {"queues", "share"} /\ ~Stopped'
    BY <2>1, NextOfCases DEF Stopped, CleaningUp
  <2>. QED BY <1>0, <1>b, <1>k, <2>1, <2>2, NothingPromised
<1>14. CASE startBWShare \/ startBWShareOfTest
  <2>1. /\ pc = "share" /\ todo # {} /\ NextOf(First(todo), "test", {C0})
        /\ UNCHANGED <<gen, shells, veth, bridges>>
        /\ \A p \in procs' : p \in procs \/ (p.node = First(todo) /\ p.gen = gen)
    BY <1>14 DEF startBWShare, startBWShareOfTest, StartAgent, ControlOK
  <2>2. pc' \in {"share", "test"} /\ ~Stopped' /\ gen > 0
    BY <1>2, <2>1, NextOfCases DEF Stopped, CleaningUp, Running
  <2>3. First(todo) \in NetHosts
    BY <2>1, FirstsAreThere
  <2>4. ProcsOK'
    BY <1>1, <1>2, <1>c, <1>i, <2>1, <2>2, <2>3 DEF ProcsOK
  <2>. QED BY <1>0, <1>b, <1>k, <2>1, <2>2, <2>4, NothingPromised
<1>15. CASE StopController \/ StopRemoteController
  <2>1. /\ pc = "test" /\ pc' = "delete" /\ todo' = NetLinks
        /\ shells' \subseteq shells /\ procs' \subseteq procs /\ UNCHANGED <<gen, died, veth, bridges>>
        /\ DefaultController => \A p \in procs' : p.node # C0 \/ p.gen # gen
    BY <1>15 DEF StopController, StopRemoteController, osVars, GoTo
  <2>2. ~Stopped'
    BY <2>1 DEF Stopped, CleaningUp
  <2>3. ShellsLeft'
    BY <2>1, <2>2 DEF ShellsLeft
  <2>4. ProcsLeft'
    BY <1>1, <1>i, <2>1, <2>2 DEF ProcsLeft, ProcsOK
  <2>5. PairsLeft'
    BY <1>1, <1>i, <2>1, <2>2 DEF PairsLeft, PairsOK
  <2>6. BridgesLeft'
    BY <1>1, <1>b, <2>1, <2>2 DEF BridgesLeft
  <2>. QED BY <1>k, <2>1, <2>3, <2>4, <2>5, <2>6 DEF LeftInv
<1>16. CASE StopLink
  <2>. DEFINE l == FirstLink(todo)
  <2>1. /\ pc = "delete" /\ todo # {} /\ veth' = veth \ Taken(l) /\ NextOf(l, "shutdown", {C0})
        /\ UNCHANGED <<gen, died, shells, procs, bridges>>
    BY <1>16 DEF StopLink, ControlOK
  <2>2. l \in todo /\ l \in NetLinks
    BY <2>1, FirstsAreThere
  <2>3. pc' \in {"delete", "shutdown"} /\ ~Stopped'
    BY <2>1, NextOfCases DEF Stopped, CleaningUp
  <2>4. ShellsLeft'
    BY <2>3 DEF ShellsLeft
  <2>5. ProcsLeft'
    BY <1>1, <1>i, <2>1, <2>3 DEF ProcsLeft
  <2>6. PairsLeft'
    <3>1. ASSUME NEW p \in veth', p.gen = gen
          PROVE  \E m \in todo \ {l} : p.ends = Ends(m)
      <4>1. p \in veth /\ p \notin Taken(l)
        BY <2>1
      <4>2. PICK m \in todo : p.ends = Ends(m)
        BY <1>i, <2>1, <3>1, <4>1 DEF PairsLeft
      <4>3. p.ends # Ends(l)
        BY <1>2, <2>2, <4>1, EndsOfLink DEF Taken
      <4>. QED BY <4>2, <4>3
    <3>2. \/ todo = {l} /\ pc' = "shutdown"
          \/ todo' = todo \ {l} /\ pc' = "delete"
      BY <2>1, NextOfCases
    <3>. QED BY <1>1, <2>1, <2>3, <3>1, <3>2 DEF PairsLeft
  <2>7. BridgesLeft'
    BY <1>1, <1>b, <2>1, <2>3 DEF BridgesLeft
  <2>. QED BY <1>k, <2>1, <2>4, <2>5, <2>6, <2>7 DEF LeftInv
<1>17. CASE batchShutdown
  <2>1. /\ pc = "shutdown" /\ pc' = "terminate" /\ todo' = NetHosts
        /\ bridges' = [s \in DOMAIN bridges \ NetSwitches |-> bridges[s]]
        /\ shells' = shells \ {[node |-> s, gen |-> gen] : s \in NetSwitches}
        /\ UNCHANGED <<gen, died, procs, veth>>
    BY <1>17 DEF batchShutdown, GoTo
  <2>2. ~Stopped'
    BY <2>1 DEF Stopped, CleaningUp
  <2>3. ShellsLeft'
    BY <1>i, <2>1, <2>2 DEF ShellsLeft, ShellsOK
  <2>4. ProcsLeft'
    BY <1>i, <2>1, <2>2 DEF ProcsLeft
  <2>5. PairsLeft'
    BY <1>i, <2>1, <2>2 DEF PairsLeft
  <2>6. BridgesLeft'
    BY <1>1, <1>b, <2>1 DEF BridgesLeft
  <2>. QED BY <1>k, <2>1, <2>3, <2>4, <2>5, <2>6 DEF LeftInv
<1>18. CASE TerminateHost
  <2>. DEFINE h == First(todo)
  <2>1. /\ pc = "terminate" /\ todo # {} /\ NextOf(h, "off", {})
        /\ shells' = shells \ {[node |-> h, gen |-> gen]}
        /\ procs' = {p \in procs : p.node # h \/ p.gen # gen}
        /\ veth' \subseteq veth /\ UNCHANGED <<gen, died, bridges>>
    BY <1>18, PresentIsLess DEF TerminateHost, ControlOK
  <2>2. \/ todo = {h} /\ pc' = "off"
        \/ todo' = todo \ {h} /\ pc' = "terminate"
    BY <2>1, NextOfCases
  <2>3. ShellsLeft'
    <3>1. \A s \in shells' : s.gen = gen => s.node \in (todo \ {h}) \union {C0}
      BY <1>i, <2>1 DEF ShellsLeft, ShellsOK
    <3>. QED BY <2>1, <2>2, <3>1 DEF ShellsLeft, Stopped, CleaningUp
  <2>4. ProcsLeft'
    <3>1. \A p \in procs' : p.gen = gen => p.node \in todo \ {h}
      BY <1>i, <2>1 DEF ProcsLeft
    <3>. QED BY <2>1, <2>2, <3>1 DEF ProcsLeft, Stopped, CleaningUp
  <2>5. PairsLeft'
    BY <1>i, <2>1, <2>2 DEF PairsLeft
  <2>6. BridgesLeft'
    BY <1>1, <1>i, <2>1 DEF BridgesLeft
  <2>. QED BY <1>k, <2>1, <2>3, <2>4, <2>5, <2>6 DEF LeftInv
<1>19. CASE Crash
  <2>1. pc' = "off" /\ ~NoError' /\ UNCHANGED <<shells, procs, veth, bridges>>
    BY <1>19, DieIsAnError DEF Crash, Die, GoTo, osVars
  <2>2. ~Stopped'
    BY <2>1 DEF Stopped
  <2>. QED BY <1>0, <1>b, <1>k, <2>1, <2>2, NothingPromised
<1>20. CASE OrphanShellsExit
  <2>1. shells' \subseteq shells /\ veth' \subseteq veth /\ UNCHANGED <<gen, pc, todo, died, procs, bridges>>
    BY <1>20, PresentIsLess DEF OrphanShellsExit
  <2>2. ShellsLeft' /\ ProcsLeft' /\ PairsLeft' /\ BridgesLeft'
    BY <1>e, <1>1, <1>i, <2>1 DEF ShellsLeft, ProcsLeft, PairsLeft, BridgesLeft, Stopped, CleaningUp
  <2>. QED BY <1>k, <2>1, <2>2 DEF LeftInv
<1>21. CASE Cleanup
  <2>1. /\ pc \in {"off", "bridges", "interfaces", "stale", "killed"} /\ gen > 0
        /\ pc' \in {"off", "bridges", "interfaces", "stale", "killed"} /\ UNCHANGED <<gen, died>>
        /\ shells' \subseteq shells /\ procs' \subseteq procs /\ veth' \subseteq veth
        /\ UNCHANGED bridges \/ bridges' = <<>>
    <3>1. CASE CleanupProcesses
      BY <3>1, PresentIsLess DEF CleanupProcesses, GoTo
    <3>2. CASE CleanupBridges
      BY <3>2 DEF CleanupBridges, GoTo, ControlOK, CleaningUp
    <3>3. CASE CleanupInterfaces
      BY <3>3 DEF CleanupInterfaces, GoTo, ControlOK, CleaningUp
    <3>4. CASE killprocs
      BY <3>4, PresentIsLess DEF
         killprocs, pkill, KilledShellDies, pgrep, GoTo, ControlOK, CleaningUp, osVars
    <3>. QED BY <1>21, <3>1, <3>2, <3>3, <3>4 DEF Cleanup
  <2>2. Stopped' => Stopped
    BY <2>1 DEF Stopped, CleaningUp, NoError
  <2>3. pc' \notin {"delete", "shutdown", "terminate"}
    BY <2>1
  <2>4. ShellsLeft' /\ ProcsLeft' /\ PairsLeft'
    BY <1>i, <2>1, <2>2, <2>3 DEF ShellsLeft, ProcsLeft, PairsLeft
  <2>5. BridgesLeft'
    <3>1. DOMAIN bridges' \subseteq DOMAIN bridges
      BY <2>1
    <3>. QED BY <1>1, <1>i, <2>2, <2>3, <3>1 DEF BridgesLeft
  <2>. QED BY <1>k, <2>1, <2>4, <2>5 DEF LeftInv
<1>. QED BY <1>3, <1>4, <1>5, <1>7, <1>8, <1>9, <1>10, <1>11, <1>12, <1>13, <1>14, <1>15,
            <1>16, <1>17, <1>18, <1>19, <1>20, <1>21 DEF Next, Program, BuildNetwork,
            StartNetwork, Share, StopNetwork

(* A program that was stopped in order leaves nothing but the shell of its  *)
(* controller, for networks of any degree and any number of programs before *)
(* it, however those ended (Mininet.stop, batchShutdown, Node.terminate).   *)
THEOREM StopAlwaysLeavesNothing == Spec => []StopLeavesNothing
<1>1. Init => ControlOK /\ LeftInv
  <2>1. Init => run \in Runs /\ gen = 0 /\ pc = "off"
    BY DEF Init
  <2>2. Init => shells = {} /\ procs = {} /\ veth = {} /\ bridges = <<>>
    BY Zenon DEF Init
  <2>3. DOMAIN <<>> = {}
    OBVIOUS
  <2>. QED BY <2>1, <2>2, <2>3 DEF ControlOK, Stages, Running, CleaningUp, LeftInv, ShellsOK, ProcsOK, PairsOK,
              ShellsLeft, ProcsLeft, PairsLeft, BridgesLeft, Stopped
<1>2. ControlOK /\ LeftInv /\ [Next]_vars => ControlOK' /\ LeftInv'
  BY ControlStep, LeftStep
<1>3. ControlOK /\ LeftInv => StopLeavesNothing
  BY DEF StopLeavesNothing, LeftInv, ShellsLeft, ProcsLeft, PairsLeft, BridgesLeft, Stopped, NoError
<1>. QED BY <1>1, <1>2, <1>3, PTL DEF Spec

-----------------------------------------------------------------------------
(* The numbers addPort gives: at one node every link has its own.           *)

LinksAt(k, n)    == {m \in LinksOf(k) : n \in {m[1], m[2]}}
Before(k, n, l)  == {m \in LinksAt(k, n) : Place(k, m) < Place(k, l)}

LEMMA AddPortCounts ==
    ASSUME NEW k \in DegreesTried, NEW n, NEW l \in LinksOf(k)
    PROVE  /\ addPort(k, n, l) = Cardinality(Before(k, n, l))
                                    + (IF n \in SwitchesOf(k) THEN 1 ELSE 0)
           /\ IsFiniteSet(LinksAt(k, n)) /\ IsFiniteSet(Before(k, n, l))
           /\ Cardinality(Before(k, n, l)) \in Nat /\ addPort(k, n, l) \in Nat
<1>1. addPort(k, n, l) = Cardinality(Before(k, n, l)) + (IF n \in SwitchesOf(k) THEN 1 ELSE 0)
  BY DEF addPort, Before, LinksAt, LinksOf, SwitchesOf, Place, PORT_BASE
<1>2. IsFiniteSet(LinksAt(k, n))
  BY TopologyIsFinite, FS_Subset DEF LinksAt
<1>3. IsFiniteSet(Before(k, n, l))
  BY <1>2, FS_Subset DEF Before
<1>4. Cardinality(Before(k, n, l)) \in Nat
  BY <1>3, FS_CardinalityType
<1>. QED BY <1>1, <1>2, <1>3, <1>4

LEMMA AddPortGrows ==
    ASSUME NEW k \in DegreesTried, NEW n, NEW l \in LinksAt(k, n), NEW m \in LinksAt(k, n),
           Place(k, l) < Place(k, m)
    PROVE  addPort(k, n, l) < addPort(k, n, m)
<1>1. l \in LinksOf(k) /\ m \in LinksOf(k)
  BY DEF LinksAt
<1>2. \A x \in LinksAt(k, n) : Place(k, x) \in Nat
  BY PlacesAreUnique DEF LinksAt
<1>3. Before(k, n, l) \subseteq Before(k, n, m) /\ l \in Before(k, n, m) /\ l \notin Before(k, n, l)
  BY <1>2 DEF Before
<1>4. IsFiniteSet(Before(k, n, m)) /\ IsFiniteSet(Before(k, n, l))
  BY <1>1, AddPortCounts
<1>5. /\ Cardinality(Before(k, n, l)) <= Cardinality(Before(k, n, m))
      /\ Cardinality(Before(k, n, l)) # Cardinality(Before(k, n, m))
  BY <1>3, <1>4, FS_Subset
<1>. QED BY <1>1, <1>5, AddPortCounts

LEMMA AddPortIsUnique ==
    ASSUME NEW k \in DegreesTried, NEW n, NEW l \in LinksAt(k, n), NEW m \in LinksAt(k, n),
           addPort(k, n, l) = addPort(k, n, m)
    PROVE  l = m
<1>1. l \in LinksOf(k) /\ m \in LinksOf(k)
  BY DEF LinksAt
<1>2. Place(k, l) \in Nat /\ Place(k, m) \in Nat /\ addPort(k, n, l) \in Nat /\ addPort(k, n, m) \in Nat
  BY <1>1, PlacesAreUnique, AddPortCounts
<1>3. ~(Place(k, l) < Place(k, m)) /\ ~(Place(k, m) < Place(k, l))
  BY <1>2, AddPortGrows
<1>4. Place(k, l) = Place(k, m)
  BY <1>2, <1>3
<1>. QED BY <1>1, <1>4, PlacesAreUnique

(* An interface is an end of one link only. *)
LEMMA EndsAreApart ==
    ASSUME run \in Runs, NEW l \in NetLinks, NEW m \in NetLinks, l # m
    PROVE  Ends(l) \intersect Ends(m) = {}
<1>1. run.k \in DegreesTried /\ NetLinks = LinksOf(run.k)
  BY NetIsTopology
<1>2. ASSUME NEW x \in NetLinks, NEW e \in Ends(x)
      PROVE  e = <<e[1], addPort(run.k, e[1], x)>> /\ x \in LinksAt(run.k, e[1])
  <2>1. e = <<x[1], addPort(run.k, x[1], x)>> \/ e = <<x[2], addPort(run.k, x[2], x)>>
    BY <1>2, EndsOfLink
  <2>2. e[1] \in {x[1], x[2]} /\ e = <<e[1], addPort(run.k, e[1], x)>>
    BY <2>1
  <2>. QED BY <1>1, <2>2 DEF LinksAt
<1>3. ASSUME NEW e \in Ends(l) \intersect Ends(m) PROVE FALSE
  <2>1. /\ e = <<e[1], addPort(run.k, e[1], l)>> /\ l \in LinksAt(run.k, e[1])
        /\ e = <<e[1], addPort(run.k, e[1], m)>> /\ m \in LinksAt(run.k, e[1])
    BY <1>2
  <2>2. addPort(run.k, e[1], l) = addPort(run.k, e[1], m)
    BY <2>1
  <2>. QED BY <1>1, <2>1, <2>2, AddPortIsUnique
<1>. QED BY <1>3

-----------------------------------------------------------------------------
(* What stops the next program, after a clean-up: only a controller the     *)
(* clean-up misses.  A program that died and was not cleaned up after       *)
(* leaves a pair of interfaces, a controller or a shell behind.             *)

Agents == {"WCEnabler", "BGAdaptor"}

PairsWhere ==
    /\ pc \in {"stale", "killed"} => veth = {}
    /\ ~dirty => \A p \in veth :
          /\ pc \in {"links", "hosts", "start", "switches", "batch", "queues", "share", "test", "delete"}
          /\ pc = "links" => \E l \in NetLinks \ todo : p.ends = Ends(l)
          /\ pc = "delete" => \E l \in todo : p.ends = Ends(l)

ControllersWhere ==
    \A p \in procs : p.cmd \notin Agents =>
        /\ p.node = C0 /\ p.cmd = run.controller
        /\ CleaningUp => p.cmd \in Missed
        /\ ~dirty => \/ p.cmd \in Missed
                     \/ pc \in {"switches", "batch", "queues", "share", "test"} /\ p.gen = gen

ShellsWhere ==
    ~dirty => \A s \in shells : s.node = C0 \/ (Running /\ pc # "controller" /\ s.gen = gen)

RoomInv == PairsWhere /\ ControllersWhere /\ ShellsWhere /\ dirty \in BOOLEAN

Middle == {"hosts", "start", "switches", "batch", "queues", "share", "test"}

LEMMA NoPairs ==
    ASSUME veth' \subseteq veth, dirty' \/ veth = {}, pc' \notin {"stale", "killed"} \/ veth' = {}
    PROVE  PairsWhere'
BY DEF PairsWhere

LEMMA SamePairs ==
    ASSUME PairsWhere, pc \in Middle, pc' \in Middle, UNCHANGED <<veth, dirty>>
    PROVE  PairsWhere'
BY DEF PairsWhere, Middle

LEMMA FewerControllers ==
    ASSUME ControllersWhere, run' = run, gen' = gen, UNCHANGED dirty, ~CleaningUp',
           pc \in {"switches", "batch", "queues", "share", "test"} =>
               pc' \in {"switches", "batch", "queues", "share", "test"},
           \A p \in procs' : p.cmd \notin Agents => p \in procs
    PROVE  ControllersWhere'
BY DEF ControllersWhere

LEMMA DirtyControllers ==
    ASSUME ControllersWhere, run' = run, dirty', ~CleaningUp', procs' \subseteq procs
    PROVE  ControllersWhere'
BY DEF ControllersWhere

LEMMA PairsStep ==
    ASSUME ControlOK, LeftInv, RoomInv, [Next]_vars
    PROVE  PairsWhere'
<1>0. run' = run
  BY RunIsKept DEF vars
<1>1. NetLinks' = NetLinks /\ \A l : Ends(l)' = Ends(l)
  BY <1>0, NetIsFixed
<1>i. PairsWhere /\ PairsOK /\ run \in Runs /\ dirty \in BOOLEAN
  BY DEF LeftInv, RoomInv, ControlOK
<1>v. pc \in {"off", "controller", "nodes", "shutdown", "terminate", "bridges", "interfaces", "stale",
              "killed"} =>
          dirty \/ veth = {}
  BY <1>i DEF PairsWhere
<1>3. CASE UNCHANGED vars
  BY <1>1, <1>3, <1>i DEF vars, PairsWhere
<1>4. CASE StartProgram
  BY <1>4, <1>v, NoPairs DEF StartProgram, osVars, GoTo
<1>5. CASE AddController \/ AddRemoteController
  BY <1>5, <1>v, NoPairs DEF AddController, AddRemoteController, Die, GoTo
<1>7. CASE AddNode
  <2>1. /\ pc = "nodes" /\ todo # {} /\ UNCHANGED <<veth, dirty>>
        /\ \/ NextOf(First(todo), "nodes", NetSwitches)
           \/ NextOf(First(todo), "links", NetLinks)
    BY <1>7 DEF AddNode, ControlOK
  <2>2. pc' \in {"nodes", "links"}
    BY <2>1, NextOfCases
  <2>. QED BY <1>v, <2>1, <2>2, NoPairs
<1>8. CASE AddLink
  <2>. DEFINE l == FirstLink(todo)
  <2>1. l \in todo /\ l \in NetLinks /\ todo # {} /\ todo \subseteq NetLinks /\ pc = "links"
    BY <1>8, FirstsAreThere DEF AddLink, ControlOK
  <2>2. CASE dirty' /\ pc' = "off"
    BY <2>2 DEF PairsWhere
  <2>3. CASE ~(dirty' /\ pc' = "off")
    <3>1. /\ NextOf(l, "hosts", NetHosts) /\ dirty' = dirty
          /\ veth' \subseteq veth \union {moveIntf(l, 0)}
      BY <1>8, <2>3 DEF AddLink, Die, GoTo
    <3>2. moveIntf(l, 0).ends = Ends(l)
      BY DEF moveIntf, PairOf
    <3>3. ASSUME ~dirty, NEW p \in veth'
          PROVE  \E m \in NetLinks \ (todo \ {l}) : p.ends = Ends(m)
      BY <1>i, <2>1, <3>1, <3>2, <3>3 DEF PairsWhere
    <3>4. \/ todo = {l} /\ pc' = "hosts"
          \/ todo' = todo \ {l} /\ pc' = "links"
      BY <2>1, <3>1, NextOfCases
    <3>. QED BY <1>1, <3>1, <3>3, <3>4 DEF PairsWhere
  <2>. QED BY <2>2, <2>3
<1>9. CASE config
  <2>1. pc = "hosts" /\ todo # {} /\ NextOf(First(todo), "start", {C0}) /\ UNCHANGED <<veth, dirty>>
    BY <1>9 DEF config, osVars, ControlOK
  <2>2. pc' \in {"hosts", "start"}
    BY <2>1, NextOfCases
  <2>. QED BY <1>i, <2>1, <2>2, SamePairs DEF Middle
<1>10. CASE StartController \/ StartRemoteController
  BY <1>10, <1>i, SamePairs DEF StartController, StartRemoteController, osVars, GoTo, Middle
<1>11. CASE OVSStart
  <2>1. pc = "switches" /\ todo # {} /\ NextOf(First(todo), "batch", {C0}) /\ UNCHANGED <<veth, dirty>>
    BY <1>11 DEF OVSStart, ControlOK
  <2>2. pc' \in {"switches", "batch"}
    BY <2>1, NextOfCases
  <2>. QED BY <1>i, <2>1, <2>2, SamePairs DEF Middle
<1>12. CASE batchStartup
  BY <1>12, <1>i, SamePairs DEF batchStartup, GoTo, Middle
<1>13. CASE setupSwitchQueues \/ setupSwitchQueuesOfTest
  <2>1. /\ pc = "queues" /\ todo # {} /\ NextOf(FirstEnd(todo), "share", NetHosts)
        /\ UNCHANGED <<veth, dirty>>
    BY <1>13 DEF setupSwitchQueues, setupSwitchQueuesOfTest, SetQueues, ControlOK
  <2>2. pc' \in {"queues", "share"}
    BY <2>1, NextOfCases
  <2>. QED BY <1>i, <2>1, <2>2, SamePairs DEF Middle
<1>14. CASE startBWShare \/ startBWShareOfTest
  <2>1. pc = "share" /\ todo # {} /\ NextOf(First(todo), "test", {C0}) /\ UNCHANGED <<veth, dirty>>
    BY <1>14 DEF startBWShare, startBWShareOfTest, StartAgent, ControlOK
  <2>2. pc' \in {"share", "test"}
    BY <2>1, NextOfCases
  <2>. QED BY <1>i, <2>1, <2>2, SamePairs DEF Middle
<1>15. CASE StopController \/ StopRemoteController
  <2>1. pc' = "delete" /\ todo' = NetLinks /\ UNCHANGED <<veth, dirty>>
    BY <1>15 DEF StopController, StopRemoteController, osVars, GoTo
  <2>. QED BY <1>1, <1>i, <2>1 DEF PairsWhere, PairsOK
<1>16. CASE StopLink
  <2>. DEFINE l == FirstLink(todo)
  <2>1. /\ pc = "delete" /\ todo # {} /\ veth' = veth \ Taken(l) /\ NextOf(l, "shutdown", {C0})
        /\ UNCHANGED dirty
    BY <1>16 DEF StopLink, ControlOK
  <2>2. l \in todo /\ l \in NetLinks
    BY <2>1, FirstsAreThere
  <2>3. ASSUME ~dirty, NEW p \in veth'
        PROVE  \E m \in todo \ {l} : p.ends = Ends(m)
    <3>1. p \in veth /\ p \notin Taken(l)
      BY <2>1
    <3>2. PICK m \in todo : p.ends = Ends(m)
      BY <1>i, <2>1, <2>3, <3>1 DEF PairsWhere
    <3>3. p.ends # Ends(l)
      BY <1>i, <2>2, <3>1, EndsOfLink DEF Taken
    <3>. QED BY <3>2, <3>3
  <2>4. \/ todo = {l} /\ pc' = "shutdown"
        \/ todo' = todo \ {l} /\ pc' = "delete"
    BY <2>1, NextOfCases
  <2>. QED BY <1>1, <2>1, <2>3, <2>4 DEF PairsWhere
<1>17. CASE batchShutdown
  BY <1>17, <1>v, NoPairs DEF batchShutdown, GoTo
<1>18. CASE TerminateHost
  <2>1. /\ pc = "terminate" /\ todo # {} /\ NextOf(First(todo), "off", {})
        /\ veth' \subseteq veth /\ UNCHANGED dirty
    BY <1>18, PresentIsLess DEF TerminateHost, ControlOK
  <2>2. pc' \in {"terminate", "off"}
    BY <2>1, NextOfCases
  <2>. QED BY <1>v, <2>1, <2>2, NoPairs
<1>19. CASE Crash
  BY <1>19 DEF Crash, Die, GoTo, PairsWhere
<1>20. CASE OrphanShellsExit
  <2>1. veth' \subseteq veth /\ UNCHANGED <<pc, todo, dirty>>
    BY <1>20, PresentIsLess DEF OrphanShellsExit
  <2>. QED BY <1>1, <1>i, <2>1 DEF PairsWhere
<1>21. CASE CleanupProcesses \/ CleanupBridges
  <2>1. pc \in {"off", "bridges"} /\ pc' \notin {"stale", "killed"} /\ veth' \subseteq veth /\ UNCHANGED dirty
    BY <1>21, PresentIsLess DEF CleanupProcesses, CleanupBridges, GoTo
  <2>. QED BY <1>v, <2>1, NoPairs
<1>22. CASE CleanupInterfaces
  <2>1. veth' = {p \in veth : p.ends \intersect SwitchEnds = {} /\ p.gen # 0}
    BY <1>22 DEF CleanupInterfaces
  <2>2. \A p \in veth : p.ends \intersect SwitchEnds # {}
    BY <1>i, EndsOfLink DEF PairsOK
  <2>3. veth' = {}
    BY <2>1, <2>2
  <2>. QED BY <2>3 DEF PairsWhere
<1>23. CASE killprocs
  <2>1. veth = {} /\ veth' \subseteq veth
    BY <1>23, <1>i, PresentIsLess DEF killprocs, pkill, KilledShellDies, pgrep, PairsWhere, osVars
  <2>. QED BY <2>1 DEF PairsWhere
<1>. QED BY <1>3, <1>4, <1>5, <1>7, <1>8, <1>9, <1>10, <1>11, <1>12, <1>13, <1>14, <1>15,
            <1>16, <1>17, <1>18, <1>19, <1>20, <1>21, <1>22, <1>23 DEF Next, Program, BuildNetwork,
            StartNetwork, Share, StopNetwork, Cleanup

LEMMA ControllersStep ==
    ASSUME ControlOK, LeftInv, RoomInv, [Next]_vars
    PROVE  ControllersWhere'
<1>0. run' = run
  BY RunIsKept DEF vars
<1>i. ControllersWhere /\ ProcsOK /\ run \in Runs /\ gen \in Nat /\ dirty \in BOOLEAN
  BY DEF LeftInv, RoomInv, ControlOK
<1>. DEFINE Up == {"switches", "batch", "queues", "share", "test"}
<1>3. CASE UNCHANGED vars
  BY <1>3, <1>i DEF vars, ControllersWhere, CleaningUp
<1>4. CASE StartProgram
  <2>1. pc = "off" /\ pc' = "controller" /\ UNCHANGED <<procs, dirty>>
    BY <1>4 DEF StartProgram, osVars, GoTo
  <2>. QED BY <1>0, <1>i, <2>1 DEF ControllersWhere, CleaningUp
<1>5. CASE AddController \/ AddRemoteController
  <2>1. /\ pc = "controller" /\ UNCHANGED <<gen, procs>>
        /\ \/ pc' = "nodes" /\ UNCHANGED dirty
           \/ pc' = "off" /\ dirty'
    BY <1>5 DEF AddController, AddRemoteController, Die, GoTo
  <2>2. ~CleaningUp'
    BY <2>1 DEF CleaningUp
  <2>. QED BY <1>0, <1>i, <2>1, <2>2, FewerControllers, DirtyControllers
<1>7. CASE AddNode
  <2>1. /\ pc = "nodes" /\ todo # {} /\ UNCHANGED <<gen, procs, dirty>>
        /\ \/ NextOf(First(todo), "nodes", NetSwitches)
           \/ NextOf(First(todo), "links", NetLinks)
    BY <1>7 DEF AddNode, ControlOK
  <2>2. ~CleaningUp'
    BY <2>1, NextOfCases DEF CleaningUp
  <2>. QED BY <1>0, <1>i, <2>1, <2>2, FewerControllers
<1>8. CASE AddLink
  <2>1. /\ pc = "links" /\ todo # {} /\ UNCHANGED <<gen, procs>>
        /\ \/ pc' = "off" /\ dirty'
           \/ NextOf(FirstLink(todo), "hosts", NetHosts) /\ UNCHANGED dirty
    BY <1>8 DEF AddLink, Die, GoTo, ControlOK
  <2>2. ~CleaningUp'
    BY <2>1, NextOfCases DEF CleaningUp
  <2>. QED BY <1>0, <1>i, <2>1, <2>2, FewerControllers, DirtyControllers
<1>9. CASE config
  <2>1. /\ pc = "hosts" /\ todo # {} /\ NextOf(First(todo), "start", {C0})
        /\ UNCHANGED <<gen, procs, dirty>>
    BY <1>9 DEF config, osVars, ControlOK
  <2>2. ~CleaningUp'
    BY <2>1, NextOfCases DEF CleaningUp
  <2>. QED BY <1>0, <1>i, <2>1, <2>2, FewerControllers
<1>10. CASE StartController
  <2>1. pc' = "switches" /\ UNCHANGED <<gen, dirty>>
    BY <1>10 DEF StartController, GoTo
  <2>2. \A p \in procs' : p \in procs \/ (p.cmd = run.controller /\ p.node = C0 /\ p.gen = gen)
    BY <1>10 DEF StartController
  <2>3. ~CleaningUp'
    BY <2>1 DEF CleaningUp
  <2>4. \A p \in procs : p.cmd \notin Agents => dirty \/ p.cmd \in Missed
    BY <1>10, <1>i DEF StartController, ControllersWhere
  <2>. QED BY <1>0, <1>i, <2>1, <2>2, <2>3, <2>4 DEF ControllersWhere
<1>24. CASE StartRemoteController
  <2>1. pc = "start" /\ pc' = "switches" /\ UNCHANGED <<gen, procs, dirty>>
    BY <1>24 DEF StartRemoteController, osVars, GoTo
  <2>2. ~CleaningUp'
    BY <2>1 DEF CleaningUp
  <2>. QED BY <1>0, <1>i, <2>1, <2>2, FewerControllers
<1>11. CASE OVSStart
  <2>1. /\ pc = "switches" /\ todo # {} /\ NextOf(First(todo), "batch", {C0})
        /\ UNCHANGED <<gen, procs, dirty>>
    BY <1>11 DEF OVSStart, ControlOK
  <2>2. pc' \in {"switches", "batch"}
    BY <2>1, NextOfCases
  <2>3. ~CleaningUp'
    BY <2>2 DEF CleaningUp
  <2>. QED BY <1>0, <1>i, <2>1, <2>2, <2>3, FewerControllers
<1>12. CASE batchStartup
  <2>1. pc' = "queues" /\ UNCHANGED <<gen, procs, dirty>>
    BY <1>12 DEF batchStartup, GoTo
  <2>2. ~CleaningUp'
    BY <2>1 DEF CleaningUp
  <2>. QED BY <1>0, <1>i, <2>1, <2>2, FewerControllers
<1>13. CASE setupSwitchQueues \/ setupSwitchQueuesOfTest
  <2>1. /\ pc = "queues" /\ todo # {} /\ NextOf(FirstEnd(todo), "share", NetHosts)
        /\ UNCHANGED <<gen, procs, dirty>>
    BY <1>13 DEF setupSwitchQueues, setupSwitchQueuesOfTest, SetQueues, ControlOK
  <2>2. pc' \in {"queues", "share"}
    BY <2>1, NextOfCases
  <2>3. ~CleaningUp'
    BY <2>2 DEF CleaningUp
  <2>. QED BY <1>0, <1>i, <2>1, <2>2, <2>3, FewerControllers
<1>14. CASE startBWShare \/ startBWShareOfTest
  <2>1. /\ pc = "share" /\ todo # {} /\ NextOf(First(todo), "test", {C0}) /\ UNCHANGED <<gen, dirty>>
        /\ \A p \in procs' : p \in procs \/ p.cmd \in Agents
    BY <1>14 DEF startBWShare, startBWShareOfTest, StartAgent, ControlOK, Agents
  <2>2. pc' \in {"share", "test"}
    BY <2>1, NextOfCases
  <2>3. ~CleaningUp'
    BY <2>2 DEF CleaningUp
  <2>. QED BY <1>0, <1>i, <2>1, <2>2, <2>3, FewerControllers
<1>15. CASE StopController \/ StopRemoteController
  <2>1. pc' = "delete" /\ procs' \subseteq procs /\ UNCHANGED <<gen, dirty>>
    BY <1>15 DEF StopController, StopRemoteController, osVars, GoTo
  <2>2. ~CleaningUp'
    BY <2>1 DEF CleaningUp
  <2>3. \A p \in procs' : p.cmd \notin Agents => dirty \/ p.cmd \in Missed
    <3>1. CASE StopController
      BY <1>i, <3>1 DEF StopController, ControllersWhere
    <3>2. CASE StopRemoteController
      BY <1>i, <3>2 DEF StopRemoteController, ControllersWhere, ProcsOK, osVars
    <3>. QED BY <1>15, <3>1, <3>2
  <2>. QED BY <1>0, <1>i, <2>1, <2>2, <2>3 DEF ControllersWhere
<1>16. CASE StopLink
  <2>1. /\ pc = "delete" /\ todo # {} /\ NextOf(FirstLink(todo), "shutdown", {C0})
        /\ UNCHANGED <<gen, procs, dirty>>
    BY <1>16 DEF StopLink, ControlOK
  <2>2. ~CleaningUp'
    BY <2>1, NextOfCases DEF CleaningUp
  <2>. QED BY <1>0, <1>i, <2>1, <2>2, FewerControllers
<1>17. CASE batchShutdown
  <2>1. pc = "shutdown" /\ pc' = "terminate" /\ UNCHANGED <<gen, procs, dirty>>
    BY <1>17 DEF batchShutdown, GoTo
  <2>2. ~CleaningUp'
    BY <2>1 DEF CleaningUp
  <2>. QED BY <1>0, <1>i, <2>1, <2>2, FewerControllers
<1>18. CASE TerminateHost
  <2>1. /\ pc = "terminate" /\ todo # {} /\ NextOf(First(todo), "off", {})
        /\ procs' \subseteq procs /\ UNCHANGED <<gen, dirty>>
    BY <1>18 DEF TerminateHost, ControlOK
  <2>2. ~CleaningUp'
    BY <2>1, NextOfCases DEF CleaningUp
  <2>. QED BY <1>0, <1>i, <2>1, <2>2, FewerControllers
<1>19. CASE Crash
  <2>1. pc' = "off" /\ dirty' /\ UNCHANGED procs
    BY <1>19 DEF Crash, Die, GoTo, osVars
  <2>2. ~CleaningUp'
    BY <2>1 DEF CleaningUp
  <2>. QED BY <1>0, <1>i, <2>1, <2>2, DirtyControllers
<1>20. CASE OrphanShellsExit
  <2>1. UNCHANGED <<gen, pc, procs, dirty>>
    BY <1>20 DEF OrphanShellsExit
  <2>. QED BY <1>0, <1>i, <2>1 DEF ControllersWhere, CleaningUp
<1>21. CASE Cleanup
  <2>1. \A p \in procs' : p \in procs /\ (p.cmd \in Agents \/ p.cmd \in Missed)
    <3>1. CASE CleanupProcesses
      <4>1. \A p \in procs : p.cmd \notin Agents => p.cmd \in LocalControllers
        <5>1. \A p \in procs : p.cmd \notin Agents => p.cmd = run.controller /\ DefaultController
          BY <1>i DEF ControllersWhere, ProcsOK
        <5>2. DefaultController => run.controller \in LocalControllers
          BY <1>i DEF Runs, FatTreeRun, SingleRun, DefaultController
        <5>. QED BY <5>1, <5>2
      <4>2. LocalControllers \subseteq zombies \union Missed
        BY LocalControllersAssumption DEF findController, zombies, Missed
      <4>. QED BY <3>1, <4>1, <4>2 DEF CleanupProcesses
    <3>2. CASE CleanupBridges
      BY <1>i, <3>2 DEF CleanupBridges, ControllersWhere, CleaningUp
    <3>3. CASE CleanupInterfaces
      BY <1>i, <3>3 DEF CleanupInterfaces, ControllersWhere, CleaningUp
    <3>4. CASE killprocs
      BY <1>i, <3>4
         DEF killprocs, pkill, KilledShellDies, pgrep, ControllersWhere, CleaningUp, osVars
    <3>. QED BY <1>21, <3>1, <3>2, <3>3, <3>4 DEF Cleanup
  <2>. QED BY <1>0, <1>i, <2>1 DEF ControllersWhere
<1>. QED BY <1>3, <1>4, <1>5, <1>7, <1>8, <1>9, <1>10, <1>11, <1>12, <1>13, <1>14, <1>15,
            <1>16, <1>17, <1>18, <1>19, <1>20, <1>21, <1>24 DEF Next, Program, BuildNetwork,
            StartNetwork, Share, StopNetwork

LEMMA FewerShells ==
    ASSUME ShellsWhere, shells' \subseteq shells, UNCHANGED <<gen, dirty>>,
           Running /\ pc # "controller" => Running' /\ pc' # "controller"
    PROVE  ShellsWhere'
BY DEF ShellsWhere

LEMMA ShellsStep ==
    ASSUME ControlOK, LeftInv, ShellsWhere, dirty \in BOOLEAN, [Next]_vars
    PROVE  ShellsWhere'
<1>0. run' = run /\ LeftInv'
  BY RunIsKept, LeftStep DEF vars
<1>i. ShellsOK /\ run \in Runs /\ gen \in Nat
  BY DEF LeftInv, ControlOK
<1>. USE DEF Running, CleaningUp, GoTo
<1>3. CASE UNCHANGED vars \/ OrphanShellsExit
  BY <1>3, FewerShells DEF vars, OrphanShellsExit
<1>4. CASE StartProgram
  <2>1. pc = "off" /\ UNCHANGED <<shells, dirty>>
    BY <1>4 DEF StartProgram, osVars
  <2>. QED BY <2>1 DEF ShellsWhere
<1>5. CASE AddController \/ AddRemoteController
  <2>1. pc = "controller" /\ \A s \in shells' : s \in shells \/ s.node = C0
    BY <1>5 DEF AddController, AddRemoteController, StartShell
  <2>2. dirty' \/ UNCHANGED dirty
    BY <1>5 DEF AddController, AddRemoteController, Die
  <2>. QED BY <2>1, <2>2 DEF ShellsWhere
<1>7. CASE AddNode
  <2>1. /\ pc = "nodes" /\ todo # {} /\ UNCHANGED <<gen, dirty>>
        /\ \A s \in shells' : s \in shells \/ s.gen = gen
        /\ \/ NextOf(First(todo), "nodes", NetSwitches)
           \/ NextOf(First(todo), "links", NetLinks)
    BY <1>7 DEF AddNode, StartShell, ControlOK
  <2>2. pc' \in {"nodes", "links"}
    BY <2>1, NextOfCases
  <2>. QED BY <2>1, <2>2 DEF ShellsWhere
<1>8. CASE AddLink
  <2>1. /\ pc = "links" /\ todo # {} /\ UNCHANGED <<gen, shells>>
        /\ \/ pc' = "off" /\ dirty'
           \/ NextOf(FirstLink(todo), "hosts", NetHosts) /\ UNCHANGED dirty
    BY <1>8 DEF AddLink, Die, ControlOK
  <2>2. CASE dirty'
    BY <2>2 DEF ShellsWhere
  <2>3. CASE NextOf(FirstLink(todo), "hosts", NetHosts) /\ UNCHANGED dirty
    <3>1. pc' \in {"links", "hosts"}
      BY <2>1, <2>3, NextOfCases
    <3>. QED BY <2>1, <2>3, <3>1, FewerShells
  <2>. QED BY <2>1, <2>2, <2>3
<1>9. CASE config
  <2>1. /\ pc = "hosts" /\ todo # {} /\ NextOf(First(todo), "start", {C0})
        /\ UNCHANGED <<gen, shells, dirty>>
    BY <1>9 DEF config, osVars, ControlOK
  <2>2. pc' \in {"hosts", "start"}
    BY <2>1, NextOfCases
  <2>. QED BY <2>1, <2>2, FewerShells
<1>10. CASE StartController \/ StartRemoteController
  BY <1>10, FewerShells DEF StartController, StartRemoteController, osVars
<1>11. CASE OVSStart
  <2>1. /\ pc = "switches" /\ todo # {} /\ NextOf(First(todo), "batch", {C0})
        /\ UNCHANGED <<gen, shells, dirty>>
    BY <1>11 DEF OVSStart, ControlOK
  <2>2. pc' \in {"switches", "batch"}
    BY <2>1, NextOfCases
  <2>. QED BY <2>1, <2>2, FewerShells
<1>12. CASE batchStartup
  BY <1>12, FewerShells DEF batchStartup
<1>13. CASE setupSwitchQueues \/ setupSwitchQueuesOfTest
  <2>1. /\ pc = "queues" /\ todo # {} /\ NextOf(FirstEnd(todo), "share", NetHosts)
        /\ UNCHANGED <<gen, shells, dirty>>
    BY <1>13 DEF setupSwitchQueues, setupSwitchQueuesOfTest, SetQueues, ControlOK
  <2>2. pc' \in {"queues", "share"}
    BY <2>1, NextOfCases
  <2>. QED BY <2>1, <2>2, FewerShells
<1>14. CASE startBWShare \/ startBWShareOfTest
  <2>1. /\ pc = "share" /\ todo # {} /\ NextOf(First(todo), "test", {C0})
        /\ UNCHANGED <<gen, shells, dirty>>
    BY <1>14 DEF startBWShare, startBWShareOfTest, StartAgent, ControlOK
  <2>2. pc' \in {"share", "test"}
    BY <2>1, NextOfCases
  <2>. QED BY <2>1, <2>2, FewerShells
<1>15. CASE StopController \/ StopRemoteController
  BY <1>15, FewerShells DEF StopController, StopRemoteController, osVars
<1>16. CASE StopLink
  <2>1. /\ pc = "delete" /\ todo # {} /\ NextOf(FirstLink(todo), "shutdown", {C0})
        /\ UNCHANGED <<gen, shells, dirty>>
    BY <1>16 DEF StopLink, ControlOK
  <2>2. pc' \in {"delete", "shutdown"}
    BY <2>1, NextOfCases
  <2>. QED BY <2>1, <2>2, FewerShells
<1>17. CASE batchShutdown
  BY <1>17, FewerShells DEF batchShutdown
<1>18. CASE TerminateHost
  <2>1. /\ pc = "terminate" /\ todo # {} /\ NextOf(First(todo), "off", {})
        /\ shells' \subseteq shells /\ UNCHANGED <<gen, died, dirty>>
    BY <1>18 DEF TerminateHost, ControlOK
  <2>2. CASE pc' = "terminate"
    BY <2>1, <2>2, FewerShells
  <2>3. CASE pc' = "off"
    <3>1. NoError /\ gen > 0 /\ NoError'
      BY <2>1 DEF ControlOK, NoError
    <3>2. Stopped'
      BY <2>1, <2>3, <3>1 DEF Stopped
    <3>3. \A s \in shells' : s.gen = gen => s.node = C0
      BY <1>0, <2>1, <3>2 DEF LeftInv, ShellsLeft
    <3>. QED BY <2>1, <3>3 DEF ShellsWhere
  <2>. QED BY <2>1, <2>2, <2>3, NextOfCases
<1>19. CASE Crash
  BY <1>19 DEF Crash, Die, ShellsWhere
<1>21. CASE CleanupProcesses \/ CleanupBridges \/ CleanupInterfaces
  <2>1. pc \in {"off", "bridges", "interfaces"} /\ UNCHANGED <<gen, shells, dirty>>
    BY <1>21 DEF CleanupProcesses, CleanupBridges, CleanupInterfaces
  <2>. QED BY <2>1, FewerShells
<1>22. CASE pkill \/ KilledShellDies
  <2>1. pc \in {"stale", "killed"} /\ shells' \subseteq shells /\ UNCHANGED <<gen, dirty>>
    BY <1>22 DEF pkill, KilledShellDies, osVars
  <2>. QED BY <2>1, FewerShells
<1>23. CASE pgrep
  BY <1>23 DEF pgrep, osVars, ShellsWhere
<1>. QED BY <1>3, <1>4, <1>5, <1>7, <1>8, <1>9, <1>10, <1>11, <1>12, <1>13, <1>14, <1>15,
            <1>16, <1>17, <1>18, <1>19, <1>21, <1>22, <1>23 DEF Next, Program, BuildNetwork,
            StartNetwork, Share, StopNetwork, Cleanup, killprocs

LEMMA DirtyStep ==
    ASSUME dirty \in BOOLEAN, [Next]_vars
    PROVE  dirty' \in BOOLEAN
BY DEF vars, Next, StartProgram, Program, BuildNetwork, StartNetwork, Share, StopNetwork, Crash,
       OrphanShellsExit, Cleanup, AddController, AddRemoteController, AddNode, AddLink, config,
       StartController, StartRemoteController, OVSStart, batchStartup, setupSwitchQueues,
       setupSwitchQueuesOfTest, SetQueues, startBWShare, startBWShareOfTest, StartAgent,
       StopController, StopRemoteController, StopLink, batchShutdown, TerminateHost, Die,
       CleanupProcesses, CleanupBridges, CleanupInterfaces,
       killprocs, pkill, KilledShellDies, pgrep, osVars

(* Whatever controllers are installed, and wherever and how often programs  *)
(* died before, after a clean-up no interface has a name that the next      *)
(* program needs, no controller but one that the clean-up misses listens on *)
(* its port, and no shell but those of remote controllers is left           *)
(* (clean.py, makeIntfPair, checkListening).                                *)
THEOREM CleanupAlwaysMakesRoom == Spec => []CleanupMakesRoom
<1>. DEFINE Inv == ControlOK /\ LeftInv /\ RoomInv
<1>1. Init => Inv
  <2>1. Init => run \in Runs /\ gen = 0 /\ pc = "off" /\ dirty \in BOOLEAN
    BY Zenon DEF Init
  <2>2. Init => shells = {} /\ procs = {} /\ veth = {} /\ bridges = <<>>
    BY Zenon DEF Init
  <2>3. DOMAIN <<>> = {}
    OBVIOUS
  <2>4. Init => ControlOK
    BY <2>1 DEF ControlOK, Stages, Running, CleaningUp
  <2>5. Init => LeftInv
    BY <2>1, <2>2, <2>3 DEF LeftInv, ShellsOK, ProcsOK, PairsOK, ShellsLeft, ProcsLeft, PairsLeft,
       BridgesLeft, Stopped
  <2>6. Init => RoomInv
    BY <2>1, <2>2 DEF RoomInv, PairsWhere, ControllersWhere, ShellsWhere
  <2>. QED BY <2>4, <2>5, <2>6
<1>2. Inv /\ [Next]_vars => Inv'
  BY ControlStep, LeftStep, PairsStep, ControllersStep, ShellsStep, DirtyStep DEF RoomInv
<1>3. Inv => CleanupMakesRoom
  <2>. SUFFICES ASSUME Inv PROVE CleanupMakesRoom
    OBVIOUS
  <2>1. ASSUME ~dirty, pc = "links", NEW l \in todo
        PROVE  Taken(l) = {}
    <3>1. l \in NetLinks /\ run \in Runs
      BY <2>1 DEF ControlOK
    <3>2. \A p \in veth : \E m \in NetLinks \ {l} : p.ends = Ends(m)
      BY <2>1 DEF RoomInv, PairsWhere
    <3>3. \A m \in NetLinks \ {l} : Ends(m) \intersect Ends(l) = {}
      BY <3>1, EndsAreApart
    <3>. QED BY <3>2, <3>3 DEF Taken
  <2>2. ASSUME ~dirty, pc = "controller", checkListening PROVE run.controller \in Missed
    BY <2>2 DEF RoomInv, ControllersWhere, checkListening, Agents
  <2>3. ASSUME ~dirty, pc = "controller" PROVE \A s \in shells : s.node = C0
    BY <2>3 DEF RoomInv, ShellsWhere
  <2>. QED BY <2>1, <2>2, <2>3 DEF CleanupMakesRoom
<1>. QED
  <2>. HIDE DEF Inv
  <2>. QED BY <1>1, <1>2, <1>3, PTL DEF Spec

-----------------------------------------------------------------------------
(* The commands of setupTCCommand, one after the other: what FoldLeft makes *)
(* of them.                                                                 *)

Executed(g, q, cs, D) ==
    g = [d \in D |-> IF d = {} THEN q ELSE Execute(g[d \ {Max(d)}], cs[Max(d)])]

FewCommands(cs, n) == {d \in SUBSET DOMAIN cs : Cardinality(d) <= n}

LEMMA FoldUnfolds ==
    ASSUME NEW q, NEW cs
    PROVE  FoldLeft(Execute, q, cs) =
              (CHOOSE g : Executed(g, q, cs, SUBSET DOMAIN cs))[DOMAIN cs]
BY Zenon DEF FoldLeft, MapThenFoldSet, Executed

LEMMA LastIsThere ==
    ASSUME NEW n \in Nat, NEW d, d \subseteq 1 .. n, d # {}
    PROVE  /\ Max(d) \in d /\ IsFiniteSet(d) /\ IsFiniteSet(d \ {Max(d)})
           /\ Cardinality(d) \in Nat \ {0} /\ Cardinality(d \ {Max(d)}) = Cardinality(d) - 1
<1>. DEFINE f == [x \in d |-> n - x]
<1>1. \A x \in d : f[x] = n - x /\ n - x \in Nat /\ x \in Int
  OBVIOUS
<1>2. PICK x \in d : \A y \in d : f[x] <= f[y]
  <2>1. \A x \in d : f[x] \in Nat
    BY <1>1
  <2>2. \E x \in d : \A y \in d : f[x] <= f[y]
    <3>. HIDE DEF f
    <3>. QED BY ONLY <2>1, d # {}, LeastExists
  <2>. QED BY <2>2
<1>3. \A y \in d : x >= y
  <2>. HIDE DEF f
  <2>. QED BY <1>1, <1>2
<1>4. Max(d) \in d
  BY <1>3 DEF Max
<1>5. IsFiniteSet(d)
  <2>1. IsFiniteSet(1 .. n)
    BY FS_Interval, 1 \in Int, n \in Int
  <2>. QED BY <2>1, FS_Subset
<1>. QED BY <1>4, <1>5, FS_CardinalityType, FS_EmptySet, FS_RemoveElement

LEMMA FewCommandsExecute ==
    ASSUME NEW q, NEW cs, NEW len \in Nat, DOMAIN cs = 1 .. len, NEW n \in Nat
    PROVE  \E g : Executed(g, q, cs, FewCommands(cs, n))
<1>. DEFINE Bad == {m \in Nat : ~\E g : Executed(g, q, cs, FewCommands(cs, m))}
            id  == [m \in Bad |-> m]
<1>. SUFFICES ASSUME Bad # {} PROVE FALSE
  OBVIOUS
<1>1. PICK m \in Bad : \A j \in Bad : m <= j
  <2>1. \A j \in Bad : id[j] = j /\ id[j] \in Nat
    OBVIOUS
  <2>2. \E m \in Bad : \A j \in Bad : id[m] <= id[j]
    <3>. HIDE DEF Bad, id
    <3>. QED BY <2>1, LeastExists
  <2>. HIDE DEF Bad, id
  <2>. QED BY <2>1, <2>2
<1>2. CASE m = 0
  <2>1. \A d \in FewCommands(cs, 0) : d = {}
    <3>1. ASSUME NEW d \in FewCommands(cs, 0), d # {} PROVE FALSE
      <4>1. d \subseteq 1 .. len /\ Cardinality(d) <= 0
        BY DEF FewCommands
      <4>2. Cardinality(d) \in Nat \ {0}
        BY <3>1, <4>1, LastIsThere
      <4>. QED BY <4>1, <4>2
    <3>. QED BY <3>1
  <2>2. Executed([d \in FewCommands(cs, 0) |-> q], q, cs, FewCommands(cs, 0))
    BY <2>1 DEF Executed
  <2>. QED BY <1>2, <2>2
<1>3. CASE m # 0
  <2>1. m - 1 \in Nat /\ m - 1 \notin Bad
    BY <1>1, <1>3
  <2>2. PICK g : Executed(g, q, cs, FewCommands(cs, m - 1))
    BY <2>1
  <2>. DEFINE D == FewCommands(cs, m)
              e == [d \in D |-> IF d = {} THEN q ELSE Execute(g[d \ {Max(d)}], cs[Max(d)])]
  <2>3. ASSUME NEW d \in D, d # {}
        PROVE  e[d \ {Max(d)}] = g[d \ {Max(d)}]
    <3>. DEFINE t == d \ {Max(d)}
    <3>1. t \in FewCommands(cs, m - 1) /\ t \in D
      <4>1. d \subseteq 1 .. len /\ Cardinality(d) <= m
        BY DEF FewCommands
      <4>2. Cardinality(d) \in Nat /\ Cardinality(t) = Cardinality(d) - 1
        BY <2>3, <4>1, LastIsThere
      <4>3. Cardinality(t) <= m - 1 /\ Cardinality(t) <= m
        <5>. HIDE DEF t
        <5>. QED BY <4>1, <4>2
      <4>4. t \subseteq DOMAIN cs
        BY <4>1
      <4>. HIDE DEF t
      <4>. QED BY <4>3, <4>4 DEF FewCommands
    <3>. HIDE DEF t
    <3>2. g[t] = IF t = {} THEN q ELSE Execute(g[t \ {Max(t)}], cs[Max(t)])
      BY <2>2, <3>1, Zenon DEF Executed
    <3>3. e[t] = IF t = {} THEN q ELSE Execute(g[t \ {Max(t)}], cs[Max(t)])
      <4>. HIDE DEF D
      <4>. QED BY <3>1, Zenon
    <3>4. e[t] = g[t]
      BY <3>2, <3>3, Zenon
    <3>. QED BY <3>4, Zenon DEF t
  <2>4. e = [d \in D |-> IF d = {} THEN q ELSE Execute(e[d \ {Max(d)}], cs[Max(d)])]
    <3>. HIDE DEF D
    <3>. QED BY <2>3, Zenon
  <2>5. Executed(e, q, cs, D)
    BY <2>4, Zenon DEF Executed
  <2>. QED BY <1>1, <2>5
<1>. QED BY <1>2, <1>3

(* The state of the discipline after the first n commands. *)
Trace(g, q, cs, len) ==
    /\ FoldLeft(Execute, q, cs) = g[1 .. len]
    /\ \A n \in 1 .. len : g[1 .. n] = Execute(g[1 .. n - 1], cs[n])

LEMMA CommandsExecute ==
    ASSUME NEW q, NEW cs, NEW len \in Nat, DOMAIN cs = 1 .. len
    PROVE  \E g : Trace(g, q, cs, len)
<1>1. FewCommands(cs, len) = SUBSET (1 .. len)
  <2>1. IsFiniteSet(1 .. len) /\ Cardinality(1 .. len) = len
    BY FS_Interval
  <2>2. \A d \in SUBSET (1 .. len) : Cardinality(d) <= len
    BY <2>1, FS_Subset
  <2>. QED BY <2>2 DEF FewCommands
<1>. DEFINE g == CHOOSE h : Executed(h, q, cs, SUBSET DOMAIN cs)
<1>2. Executed(g, q, cs, SUBSET (1 .. len))
  <2>1. \E h : Executed(h, q, cs, SUBSET DOMAIN cs)
    <3>1. PICK h : Executed(h, q, cs, FewCommands(cs, len))
      BY FewCommandsExecute
    <3>2. FewCommands(cs, len) = SUBSET DOMAIN cs
      BY <1>1
    <3>. QED BY <3>1, <3>2, Zenon
  <2>2. Executed(g, q, cs, SUBSET DOMAIN cs)
    BY <2>1, Zenon
  <2>. QED BY <2>2, Zenon
<1>3. FoldLeft(Execute, q, cs) = g[1 .. len]
  BY FoldUnfolds, Zenon
<1>4. \A d \in SUBSET (1 .. len) :
          g[d] = IF d = {} THEN q ELSE Execute(g[d \ {Max(d)}], cs[Max(d)])
  <2>. HIDE DEF g
  <2>. QED BY <1>2, Zenon DEF Executed
<1>5. ASSUME NEW n \in 1 .. len
      PROVE  g[1 .. n] = Execute(g[1 .. n - 1], cs[n])
  <2>1. 1 .. n \in SUBSET (1 .. len) /\ 1 .. n # {}
    <3>1. n \in 1 .. n
      OBVIOUS
    <3>2. \A x \in 1 .. n : x \in 1 .. len
      OBVIOUS
    <3>. QED BY <3>1, <3>2, Zenon
  <2>2. Max(1 .. n) = n
    <3>1. n \in 1 .. n /\ \A y \in 1 .. n : n >= y
      OBVIOUS
    <3>2. \A x \in 1 .. n : (\A y \in 1 .. n : x >= y) => x = n
      OBVIOUS
    <3>. QED BY <3>1, <3>2 DEF Max
  <2>3. (1 .. n) \ {n} = 1 .. n - 1
    OBVIOUS
  <2>. HIDE DEF g
  <2>. QED BY <1>4, <2>1, <2>2, <2>3, Zenon
<1>. QED BY <1>3, <1>5, Zenon DEF Trace

(* A discipline with the handle and the default class setupTCCommand gives *)
(* it, and the filter of one of its commands.                              *)
Disc(classes, filters) ==
    [handle |-> 1, default |-> 11, classes |-> classes, filters |-> filters]
Filter(proto, tos, flow) == [proto |-> proto, tos |-> tos, flow |-> flow]

TwoQueues == Disc({1, 11, 12},
                  {Filter("tcp", 0, 11), Filter("tcp", 56, 12), Filter("tcp", 57, 12),
                   Filter("tcp", 58, 12), Filter("tcp", 59, 12), Filter("udp", 0, 11)})

LEMMA RootExecutes ==
    ASSUME NEW q
    PROVE  /\ Execute(q, delRoot) = NoQdisc
           /\ Execute(NoQdisc, addRoot(1, 11)) = Disc({}, {})
<1>1. Execute(q, delRoot) = NoQdisc
  BY DEF Execute, delRoot
<1>2. Execute(NoQdisc, addRoot(1, 11)) = Disc({}, {})
  BY DEF Execute, addRoot, Disc
<1>. QED BY <1>1, <1>2

LEMMA ClassExecutes ==
    ASSUME NEW cl, NEW fl, NEW p, NEW c, p \in cl \union {0}
    PROVE  Execute(Disc(cl, fl), addClass(p, c)) = Disc(cl \union {c}, fl)
<1>. DEFINE q == Disc(cl, fl)
            a == addClass(p, c)
<1>1. /\ a.op # "del" /\ a.op # "root" /\ a.op = "class" /\ q.handle = 1
      /\ a.parent \in q.classes \union {0} /\ a.id = c
  BY DEF Disc, addClass
<1>2. Execute(q, a) = [q EXCEPT !.classes = @ \union {a.id}]
  <2>. HIDE DEF q, a
  <2>. QED BY <1>1 DEF Execute
<1>. QED BY <1>1, <1>2 DEF Disc

LEMMA FilterExecutes ==
    ASSUME NEW cl, NEW fl, NEW pr, NEW t, NEW f
    PROVE  Execute(Disc(cl, fl), addFilter(pr, t, f)) = Disc(cl, fl \union {Filter(pr, t, f)})
<1>. DEFINE q == Disc(cl, fl)
            a == addFilter(pr, t, f)
<1>1. /\ a.op # "del" /\ a.op # "root" /\ a.op # "class" /\ a.op = "filter" /\ q.handle = 1
      /\ a.proto = pr /\ a.tos = t /\ a.flow = f
  BY DEF Disc, addFilter
<1>2. Execute(q, a) =
          [q EXCEPT !.filters = @ \union {[proto |-> a.proto, tos |-> a.tos, flow |-> a.flow]}]
  <2>. HIDE DEF q, a
  <2>. QED BY <1>1 DEF Execute
<1>. QED BY <1>1, <1>2 DEF Disc, Filter

(* Whatever discipline an interface has, the commands leave the two queues. *)
LEMMA CommandsSetTheQueues ==
    ASSUME NEW q
    PROVE  FoldLeft(Execute, q, setupTCCommand) = TwoQueues
<1>. DEFINE cs == setupTCCommand
<1>1. DOMAIN cs = 1 .. 11
  BY DEF setupTCCommand
<1>2. /\ cs[1] = delRoot /\ cs[2] = addRoot(1, 11)
      /\ cs[3] = addClass(0, 1) /\ cs[4] = addClass(1, 11) /\ cs[5] = addClass(1, 12)
      /\ cs[6] = addFilter("tcp", 0, 11) /\ cs[7] = addFilter("tcp", 56, 12)
      /\ cs[8] = addFilter("tcp", 57, 12) /\ cs[9] = addFilter("tcp", 58, 12)
      /\ cs[10] = addFilter("tcp", 59, 12) /\ cs[11] = addFilter("udp", 0, 11)
  BY DEF setupTCCommand
<1>3. PICK g : Trace(g, q, cs, 11)
  <2>. HIDE DEF cs
  <2>. QED BY <1>1, CommandsExecute
<1>. HIDE DEF cs
<1>4. \A n \in 1 .. 11 : g[1 .. n] = Execute(g[1 .. n - 1], cs[n])
  BY <1>3, Zenon DEF Trace
<1>5. g[1 .. 1] = NoQdisc
  BY <1>2, <1>4, RootExecutes
<1>6. g[1 .. 2] = Disc({}, {})
  BY <1>2, <1>4, <1>5, RootExecutes
<1>7. g[1 .. 3] = Disc({} \union {1}, {})
  BY <1>2, <1>4, <1>6, ClassExecutes
<1>8. g[1 .. 4] = Disc({1} \union {11}, {})
  BY <1>2, <1>4, <1>7, ClassExecutes
<1>9. g[1 .. 5] = Disc({1, 11} \union {12}, {})
  BY <1>2, <1>4, <1>8, ClassExecutes
<1>. DEFINE cl == {1, 11, 12}
<1>10. g[1 .. 5] = Disc(cl, {})
  BY <1>9
<1>. HIDE DEF cl
<1>. DEFINE f1 == {Filter("tcp", 0, 11)}
            f2 == f1 \union {Filter("tcp", 56, 12)}
            f3 == f2 \union {Filter("tcp", 57, 12)}
            f4 == f3 \union {Filter("tcp", 58, 12)}
            f5 == f4 \union {Filter("tcp", 59, 12)}
            f6 == f5 \union {Filter("udp", 0, 11)}
<1>11. {} \union {Filter("tcp", 0, 11)} = f1
  OBVIOUS
<1>12. g[1 .. 6] = Disc(cl, {} \union {Filter("tcp", 0, 11)})
  BY <1>2, <1>4, <1>10, FilterExecutes
<1>13. g[1 .. 6] = Disc(cl, f1)
  BY <1>11, <1>12
<1>14. g[1 .. 7] = Disc(cl, f2)
  <2>. HIDE DEF f1
  <2>. QED BY <1>2, <1>4, <1>13, FilterExecutes
<1>15. g[1 .. 8] = Disc(cl, f3)
  <2>. HIDE DEF f2
  <2>. QED BY <1>2, <1>4, <1>14, FilterExecutes
<1>16. g[1 .. 9] = Disc(cl, f4)
  <2>. HIDE DEF f3
  <2>. QED BY <1>2, <1>4, <1>15, FilterExecutes
<1>17. g[1 .. 10] = Disc(cl, f5)
  <2>. HIDE DEF f4
  <2>. QED BY <1>2, <1>4, <1>16, FilterExecutes
<1>18. g[1 .. 11] = Disc(cl, f6)
  <2>. HIDE DEF f5
  <2>. QED BY <1>2, <1>4, <1>17, FilterExecutes
<1>19. f6 = {Filter("tcp", 0, 11), Filter("tcp", 56, 12), Filter("tcp", 57, 12),
             Filter("tcp", 58, 12), Filter("tcp", 59, 12), Filter("udp", 0, 11)}
  OBVIOUS
<1>20. g[1 .. 11] = TwoQueues
  <2>. HIDE DEF f6
  <2>. QED BY <1>18, <1>19 DEF TwoQueues, cl
<1>. QED BY <1>3, <1>20, Zenon DEF Trace, cs

(* What the two queues promise. *)
QueuesByTos(q) ==
    \A ecn \in 0 .. 3 :
        /\ {1, 11, 12} \subseteq q.classes
        /\ Classify(q, "tcp", ecn) = {11} /\ Classify(q, "udp", ecn) = {11}
        /\ Classify(q, "tcp", 56 + ecn) = {12}

LEMMA TwoQueuesPartTheTraffic == QueuesByTos(TwoQueues)
<1>. DEFINE hits(pr, t) == {f \in TwoQueues.filters : f.proto = pr /\ f.tos = t}
<1>1. /\ TwoQueues.classes = {1, 11, 12} /\ TwoQueues.default = 11
      /\ TwoQueues.filters = {Filter("tcp", 0, 11), Filter("tcp", 56, 12), Filter("tcp", 57, 12),
                              Filter("tcp", 58, 12), Filter("tcp", 59, 12), Filter("udp", 0, 11)}
  BY DEF TwoQueues, Disc
<1>2. \A f \in TwoQueues.filters :
          \/ f.proto = "tcp" /\ f.tos = 0 /\ f.flow = 11
          \/ f.proto = "tcp" /\ f.tos \in 56 .. 59 /\ f.flow = 12
          \/ f.proto = "udp" /\ f.tos = 0 /\ f.flow = 11
  BY <1>1 DEF Filter
<1>3. ASSUME NEW ecn \in 0 .. 3 PROVE Classify(TwoQueues, "tcp", ecn) = {11}
  <2>1. \A f \in hits("tcp", ecn) : f.flow = 11
    BY <1>2
  <2>. QED BY <1>1, <2>1 DEF Classify
<1>4. ASSUME NEW ecn \in 0 .. 3 PROVE Classify(TwoQueues, "udp", ecn) = {11}
  <2>1. \A f \in hits("udp", ecn) : f.flow = 11
    BY <1>2
  <2>. QED BY <1>1, <2>1 DEF Classify
<1>5. ASSUME NEW ecn \in 0 .. 3 PROVE Classify(TwoQueues, "tcp", 56 + ecn) = {12}
  <2>1. \A f \in hits("tcp", 56 + ecn) : f.flow = 12
    BY <1>2
  <2>2. Filter("tcp", 56 + ecn, 12) \in hits("tcp", 56 + ecn)
    BY <1>1 DEF Filter
  <2>. QED BY <2>1, <2>2 DEF Classify
<1>. QED BY <1>1, <1>3, <1>4, <1>5 DEF QueuesByTos

(* The first interface is one of those that are left. *)
LEMMA FirstEndIsThere ==
    ASSUME run \in Runs, NEW S, S \subseteq SwitchEnds, S # {}
    PROVE  FirstEnd(S) \in S
<1>. DEFINE s == First({e[1] : e \in S})
            T == {e \in S : e[1] = s}
            f == [e \in T |-> e[2]]
<1>1. \A e \in SwitchEnds : e[1] \in NetSwitches /\ e[2] \in Nat
  <2>. SUFFICES ASSUME NEW e \in SwitchEnds PROVE e[1] \in NetSwitches /\ e[2] \in Nat
    OBVIOUS
  <2>1. PICK l \in NetLinks : e \in Ends(l) /\ e[1] \in NetSwitches
    BY SwitchEndsAre
  <2>2. addPort(run.k, l[1], l) \in Nat /\ addPort(run.k, l[2], l) \in Nat
    BY NetIsTopology, AddPortCounts
  <2>3. Ends(l) = {<<l[1], addPort(run.k, l[1], l)>>, <<l[2], addPort(run.k, l[2], l)>>}
    BY EndsOfLink
  <2>4. CASE e = <<l[1], addPort(run.k, l[1], l)>>
    BY <2>1, <2>2, <2>4
  <2>5. CASE e = <<l[2], addPort(run.k, l[2], l)>>
    BY <2>1, <2>2, <2>5
  <2>. QED BY <2>1, <2>3, <2>4, <2>5
<1>2. s \in {e[1] : e \in S}
  <2>1. {e[1] : e \in S} \subseteq HostsOf(run.k) \union SwitchesOf(run.k) /\ {e[1] : e \in S} # {}
    BY <1>1, NetIsTopology
  <2>. QED BY <2>1, NetIsTopology, FirstIsThere
<1>3. \E e \in T : \A d \in T : e[2] <= d[2]
  <2>1. T # {} /\ \A e \in T : f[e] = e[2] /\ f[e] \in Nat
    BY <1>1, <1>2
  <2>2. \E e \in T : \A d \in T : f[e] <= f[d]
    <3>. HIDE DEF f, T
    <3>. QED BY <2>1, LeastExists
  <2>. HIDE DEF f, T
  <2>. QED BY <2>1, <2>2
<1>4. \E e \in S : e[1] = s /\ \A d \in S : d[1] = s => e[2] <= d[2]
  <2>. HIDE DEF s
  <2>. QED BY <1>3
<1>. HIDE DEF s
<1>5. FirstEnd(S) = CHOOSE e \in S : e[1] = s /\ \A d \in S : d[1] = s => e[2] <= d[2]
  BY Zenon DEF FirstEnd, s
<1>. QED BY <1>4, <1>5

-----------------------------------------------------------------------------
(* The queues of the switch interfaces.  Open vSwitch and Mininet put theirs *)
(* back until the program comes to setupSwitchQueues, which replaces them    *)
(* one interface after the other.                                            *)

TcOK ==
    /\ pc = "links" => \A l \in NetLinks \ todo : Ends(l) \intersect SwitchEnds \subseteq DOMAIN tc
    /\ pc \in Middle => SwitchEnds \subseteq DOMAIN tc
    /\ pc = "queues" => \A e \in SwitchEnds \ todo : tc[e] = TwoQueues
    /\ pc \in {"share", "test"} => \A e \in SwitchEnds : tc[e] = TwoQueues

LEMMA NothingQueued ==
    ASSUME pc' \notin Middle \union {"links"}
    PROVE  TcOK'
BY DEF TcOK, Middle

LEMMA MoreQueued ==
    ASSUME TcOK, run' = run, pc \in Middle, pc' \in {"hosts", "start", "switches", "batch"},
           DOMAIN tc \subseteq DOMAIN tc'
    PROVE  TcOK'
BY TopologyIsFixed DEF TcOK, Middle

LEMMA TcStep ==
    ASSUME ControlOK, TcOK, [Next]_vars
    PROVE  TcOK'
<1>0. run' = run
  BY RunIsKept DEF vars
<1>1. SwitchEnds' = SwitchEnds /\ NetLinks' = NetLinks /\ \A l : Ends(l)' = Ends(l)
  BY <1>0, NetIsFixed, TopologyIsFixed
<1>2. run \in Runs
  BY DEF ControlOK
<1>3. CASE UNCHANGED vars
  BY <1>1, <1>3 DEF vars, TcOK
<1>4. CASE StartProgram \/ AddController \/ AddRemoteController \/ Crash
  <2>1. pc' \in {"controller", "off", "nodes"}
    BY <1>4 DEF StartProgram, AddController, AddRemoteController, Crash, Die, GoTo
  <2>. QED BY <2>1, NothingQueued DEF Middle
<1>5. CASE AddNode
  <2>1. /\ todo # {} /\ pc = "nodes"
        /\ \/ NextOf(First(todo), "nodes", NetSwitches)
           \/ NextOf(First(todo), "links", NetLinks)
    BY <1>5 DEF AddNode, ControlOK
  <2>2. pc' = "nodes" \/ (pc' = "links" /\ todo' = NetLinks)
    BY <2>1, NextOfCases
  <2>. QED BY <1>1, <2>2 DEF TcOK, Middle
<1>6. CASE AddLink
  <2>. DEFINE l == FirstLink(todo)
              new == [e \in Ends(l) \intersect SwitchEnds |-> TCReapply(NoQdisc)]
  <2>1. l \in todo /\ l \in NetLinks /\ todo # {} /\ todo \subseteq NetLinks /\ pc = "links"
    BY <1>6, FirstsAreThere DEF AddLink, ControlOK
  <2>2. CASE pc' = "off"
    BY <2>2, NothingQueued DEF Middle
  <2>3. CASE pc' # "off"
    <3>1. NextOf(l, "hosts", NetHosts) /\ tc' = WithAll(tc, new)
      BY <1>6, <2>3 DEF AddLink, Die, GoTo
    <3>2. DOMAIN tc' = DOMAIN tc \union (Ends(l) \intersect SwitchEnds)
      BY <3>1 DEF WithAll
    <3>3. \A m \in NetLinks \ (todo \ {l}) : Ends(m) \intersect SwitchEnds \subseteq DOMAIN tc'
      BY <2>1, <3>2 DEF TcOK
    <3>4. \/ todo = {l} /\ pc' = "hosts"
          \/ todo' = todo \ {l} /\ pc' = "links"
      BY <2>1, <3>1, NextOfCases
    <3>5. CASE todo = {l} /\ pc' = "hosts"
      <4>1. \A m \in NetLinks : Ends(m) \intersect SwitchEnds \subseteq DOMAIN tc'
        BY <3>3, <3>5
      <4>2. SwitchEnds \subseteq DOMAIN tc'
        BY <1>2, <4>1, SwitchEndsAre
      <4>. QED BY <1>1, <3>5, <4>2 DEF TcOK
    <3>6. CASE todo' = todo \ {l} /\ pc' = "links"
      BY <1>1, <3>3, <3>6 DEF TcOK, Middle
    <3>. QED BY <3>4, <3>5, <3>6
  <2>. QED BY <2>2, <2>3
<1>7. CASE config
  <2>1. pc = "hosts" /\ todo # {} /\ NextOf(First(todo), "start", {C0}) /\ UNCHANGED tc
    BY <1>7 DEF config, osVars, ControlOK
  <2>2. pc' \in {"hosts", "start"}
    BY <2>1, NextOfCases
  <2>. QED BY <1>0, <2>1, <2>2, MoreQueued DEF Middle
<1>8. CASE StartController \/ StartRemoteController
  <2>1. pc = "start" /\ pc' = "switches" /\ UNCHANGED tc
    BY <1>8 DEF StartController, StartRemoteController, osVars, GoTo
  <2>. QED BY <1>0, <2>1, MoreQueued DEF Middle
<1>9. CASE OVSStart
  <2>1. /\ pc = "switches" /\ todo # {} /\ NextOf(First(todo), "batch", {C0})
        /\ DOMAIN tc \subseteq DOMAIN tc'
    BY <1>9 DEF OVSStart, ControlOK, WithAll
  <2>2. pc' \in {"switches", "batch"}
    BY <2>1, NextOfCases
  <2>. QED BY <1>0, <2>1, <2>2, MoreQueued DEF Middle
<1>10. CASE batchStartup
  <2>1. pc = "batch" /\ pc' = "queues" /\ todo' = SwitchEnds /\ DOMAIN tc' = DOMAIN tc
    BY <1>10 DEF batchStartup, GoTo
  <2>. QED BY <1>1, <2>1 DEF TcOK, Middle
<1>11. CASE setupSwitchQueues \/ setupSwitchQueuesOfTest
  <2>. DEFINE e == FirstEnd(todo)
              new == FoldLeft(Execute, tc[e], setupTCCommand)
  <2>1. /\ pc = "queues" /\ todo # {} /\ todo \subseteq SwitchEnds /\ NextOf(e, "share", NetHosts)
        /\ tc' = [tc EXCEPT ![e] = new]
    BY <1>11 DEF setupSwitchQueues, setupSwitchQueuesOfTest, SetQueues, setupTCCommandOfTest, ControlOK
  <2>2. e \in todo
    BY <1>2, <2>1, FirstEndIsThere
  <2>3. new = TwoQueues
    BY CommandsSetTheQueues
  <2>. HIDE DEF e, new
  <2>4. SwitchEnds \subseteq DOMAIN tc /\ \A d \in SwitchEnds \ todo : tc[d] = TwoQueues
    BY <2>1 DEF TcOK, Middle
  <2>5. /\ SwitchEnds \subseteq DOMAIN tc'
        /\ \A d \in SwitchEnds \ (todo \ {e}) : tc'[d] = TwoQueues
    BY <2>1, <2>2, <2>3, <2>4
  <2>6. \/ todo = {e} /\ pc' = "share"
        \/ todo' = todo \ {e} /\ pc' = "queues"
    BY <2>1, NextOfCases
  <2>7. CASE todo = {e} /\ pc' = "share"
    BY <1>1, <2>5, <2>7 DEF TcOK
  <2>8. CASE todo' = todo \ {e} /\ pc' = "queues"
    BY <1>1, <2>5, <2>8 DEF TcOK
  <2>. QED BY <2>6, <2>7, <2>8
<1>12. CASE startBWShare \/ startBWShareOfTest
  <2>1. pc = "share" /\ todo # {} /\ NextOf(First(todo), "test", {C0}) /\ UNCHANGED tc
    BY <1>12 DEF startBWShare, startBWShareOfTest, StartAgent, ControlOK
  <2>2. pc' \in {"share", "test"}
    BY <2>1, NextOfCases
  <2>. QED BY <1>1, <2>1, <2>2 DEF TcOK, Middle
<1>13. CASE StopController \/ StopRemoteController \/ batchShutdown \/ Cleanup
  <2>1. pc' \in {"delete", "terminate", "bridges", "interfaces", "stale", "killed", "off"}
    BY <1>13 DEF StopController, StopRemoteController, batchShutdown, Cleanup, CleanupProcesses,
       CleanupBridges, CleanupInterfaces, killprocs, pkill, KilledShellDies, pgrep, GoTo
  <2>. QED BY <2>1, NothingQueued DEF Middle
<1>14. CASE StopLink
  <2>1. pc = "delete" /\ todo # {} /\ NextOf(FirstLink(todo), "shutdown", {C0})
    BY <1>14 DEF StopLink, ControlOK
  <2>2. pc' \in {"delete", "shutdown"}
    BY <2>1, NextOfCases
  <2>. QED BY <2>2, NothingQueued DEF Middle
<1>15. CASE TerminateHost
  <2>1. pc = "terminate" /\ todo # {} /\ NextOf(First(todo), "off", {})
    BY <1>15 DEF TerminateHost, ControlOK
  <2>2. pc' \in {"terminate", "off"}
    BY <2>1, NextOfCases
  <2>. QED BY <2>2, NothingQueued DEF Middle
<1>16. CASE OrphanShellsExit
  <2>1. UNCHANGED <<pc, todo, tc>>
    BY <1>16 DEF OrphanShellsExit
  <2>. QED BY <1>1, <2>1 DEF TcOK
<1>. QED BY <1>3, <1>4, <1>5, <1>6, <1>7, <1>8, <1>9, <1>10, <1>11, <1>12, <1>13, <1>14, <1>15,
            <1>16 DEF Next, Program, BuildNetwork, StartNetwork, Share, StopNetwork

(* From the moment the agents are started, every interface of every switch  *)
(* sends the guaranteed traffic to class 1:11 and the additional subflows   *)
(* to class 1:12, whatever queues it had before (setupTCCommand, TCReapply, *)
(* batchStartup).                                                           *)
THEOREM SwitchesAlwaysQueueByTos == Spec => []SwitchesQueueByTos
<1>. DEFINE Inv == ControlOK /\ TcOK
<1>1. Init => Inv
  <2>1. Init => run \in Runs /\ gen = 0 /\ pc = "off"
    BY Zenon DEF Init
  <2>. QED BY <2>1 DEF ControlOK, Stages, Running, CleaningUp, TcOK, Middle
<1>2. Inv /\ [Next]_vars => Inv'
  BY ControlStep, TcStep
<1>3. Inv => SwitchesQueueByTos
  BY TwoQueuesPartTheTraffic DEF TcOK, QueuesByTos, SwitchesQueueByTos
<1>. QED
  <2>. HIDE DEF Inv
  <2>. QED BY <1>1, <1>2, <1>3, PTL DEF Spec

-----------------------------------------------------------------------------
(* The agents: the shells of the hosts start them one after the other, and  *)
(* every one is told the address of the same host.                          *)

(* As many things as there are names of them, one name for each. *)
Names(f, S, T) ==
    /\ \A x \in S : f[x] \in T
    /\ \A x \in S, y \in S : f[x] = f[y] => x = y
    /\ \A t \in T : \E x \in S : f[x] = t

LEMMA AsMany ==
    ASSUME NEW S, NEW T, IsFiniteSet(S), NEW f, Names(f, S, T)
    PROVE  IsFiniteSet(T) /\ Cardinality(T) = Cardinality(S)
<1>. DEFINE g == [x \in S |-> f[x]]
<1>1. g \in Bijection(S, T)
  <2>1. g \in [S -> T] /\ \A x \in S : g[x] = f[x]
    BY DEF Names
  <2>2. g \in Injection(S, T)
    <3>. HIDE DEF g
    <3>. QED BY <2>1 DEF Injection, IsInjective, Names
  <2>3. g \in Surjection(S, T)
    <3>. HIDE DEF g
    <3>. QED BY <2>1 DEF Surjection, Names
  <2>. HIDE DEF g
  <2>. QED BY <2>2, <2>3 DEF Bijection
<1>. QED BY <1>1, FS_Bijection DEF ExistsBijection

AddressesOK ==
    /\ pc = "hosts" => \A h \in NetHosts \ todo : h \in DOMAIN addr /\ addr[h] = HostParams(h)
    /\ pc \in Middle \ {"hosts"} => \A h \in NetHosts : addr[h] = HostParams(h)

AgentOf(h) ==
    [cmd |-> IF h = BGHost THEN "BGAdaptor" ELSE "WCEnabler", node |-> h, gen |-> gen,
     adaptor |-> HostParams(BGHost).ip,
     expects |-> IF IsFatTree THEN Cardinality(NetHosts) - 1 ELSE 4]

Mine == {p \in procs : p.gen = gen /\ p.node \in NetHosts}

BeforeShare == {"controller", "nodes", "links", "hosts", "start", "switches", "batch", "queues"}

AgentsOK ==
    /\ pc \in BeforeShare => Mine = {}
    /\ pc = "share" => Mine = {AgentOf(h) : h \in NetHosts \ todo}
    /\ pc = "test" => Mine = {AgentOf(h) : h \in NetHosts}

LEMMA AddressesAreFixed ==
    ASSUME run' = run, gen' = gen
    PROVE  \A h : HostParams(h)' = HostParams(h) /\ AgentOf(h)' = AgentOf(h)
<1>1. \A h : HostParams(h)' = HostParams(h)
  BY TopologyIsFixed DEF HostParams
<1>2. HostParams(BGHost)' = HostParams(BGHost)
  BY TopologyIsFixed DEF HostParams
<1>. QED BY <1>1, <1>2, TopologyIsFixed DEF AgentOf

LEMMA SameAddresses ==
    ASSUME AddressesOK, run' = run, addr' = addr, pc \in Middle \ {"hosts"} \/ pc' \notin Middle,
           pc' # "hosts"
    PROVE  AddressesOK'
<1>1. \A h : HostParams(h)' = HostParams(h)
  BY TopologyIsFixed DEF HostParams
<1>. QED BY <1>1, TopologyIsFixed DEF AddressesOK, Middle

LEMMA AddressesStep ==
    ASSUME ControlOK, AddressesOK, [Next]_vars
    PROVE  AddressesOK'
<1>0. run' = run
  BY RunIsKept DEF vars
<1>1. NetHosts' = NetHosts /\ \A h : HostParams(h)' = HostParams(h)
  BY <1>0, TopologyIsFixed DEF HostParams
<1>3. CASE UNCHANGED vars
  BY <1>1, <1>3 DEF vars, AddressesOK
<1>4. CASE pc' \notin Middle
  BY <1>4 DEF AddressesOK, Middle
<1>5. CASE AddNode
  <2>1. /\ todo # {} /\ pc = "nodes"
        /\ \/ NextOf(First(todo), "nodes", NetSwitches)
           \/ NextOf(First(todo), "links", NetLinks)
    BY <1>5 DEF AddNode, ControlOK
  <2>2. pc' \in {"nodes", "links"}
    BY <2>1, NextOfCases
  <2>. QED BY <1>4, <2>2 DEF Middle
<1>6. CASE AddLink
  <2>1. /\ todo # {} /\ pc = "links" /\ (Die("exists") \/ Die("move") \/ NextOf(FirstLink(todo), "hosts", NetHosts))
    BY <1>6 DEF AddLink, ControlOK
  <2>2. pc' \in {"off", "links"} \/ (pc' = "hosts" /\ todo' = NetHosts)
    BY <2>1, NextOfCases DEF Die, GoTo
  <2>. QED BY <1>1, <2>2 DEF AddressesOK, Middle
<1>7. CASE config
  <2>. DEFINE h == First(todo)
  <2>1. /\ pc = "hosts" /\ todo # {} /\ NextOf(h, "start", {C0})
        /\ addr' = With(addr, h, HostParams(h))
    BY <1>7 DEF config, ControlOK
  <2>2. h \in todo
    BY <2>1, FirstsAreThere
  <2>3. /\ h \in DOMAIN addr' /\ addr'[h] = HostParams(h)
        /\ \A x \in DOMAIN addr \ {h} : x \in DOMAIN addr' /\ addr'[x] = addr[x]
    BY <2>1 DEF With, WithAll
  <2>. HIDE DEF h
  <2>4. \A x \in NetHosts \ (todo \ {h}) : x \in DOMAIN addr' /\ addr'[x] = HostParams(x)
    BY <2>1, <2>3 DEF AddressesOK
  <2>5. \/ todo = {h} /\ pc' = "start"
        \/ todo' = todo \ {h} /\ pc' = "hosts"
    BY <2>1, NextOfCases
  <2>. QED BY <1>1, <2>4, <2>5 DEF AddressesOK
<1>8. CASE StartController \/ StartRemoteController
  <2>1. pc = "start" /\ pc' = "switches" /\ UNCHANGED addr
    BY <1>8 DEF StartController, StartRemoteController, osVars, GoTo
  <2>. QED BY <1>0, <2>1, SameAddresses DEF Middle
<1>9. CASE OVSStart
  <2>1. pc = "switches" /\ todo # {} /\ NextOf(First(todo), "batch", {C0}) /\ UNCHANGED addr
    BY <1>9 DEF OVSStart, ControlOK
  <2>2. pc' \in {"switches", "batch"}
    BY <2>1, NextOfCases
  <2>. QED BY <1>0, <2>1, <2>2, SameAddresses DEF Middle
<1>10. CASE batchStartup
  BY <1>0, <1>10, SameAddresses DEF batchStartup, GoTo, Middle
<1>11. CASE setupSwitchQueues \/ setupSwitchQueuesOfTest
  <2>1. /\ pc = "queues" /\ todo # {} /\ NextOf(FirstEnd(todo), "share", NetHosts)
        /\ UNCHANGED addr
    BY <1>11 DEF setupSwitchQueues, setupSwitchQueuesOfTest, SetQueues, ControlOK
  <2>2. pc' \in {"queues", "share"}
    BY <2>1, NextOfCases
  <2>. QED BY <1>0, <2>1, <2>2, SameAddresses DEF Middle
<1>12. CASE startBWShare \/ startBWShareOfTest
  <2>1. pc = "share" /\ todo # {} /\ NextOf(First(todo), "test", {C0}) /\ UNCHANGED addr
    BY <1>12 DEF startBWShare, startBWShareOfTest, StartAgent, ControlOK
  <2>2. pc' \in {"share", "test"}
    BY <2>1, NextOfCases
  <2>. QED BY <1>0, <2>1, <2>2, SameAddresses DEF Middle
<1>13. CASE OrphanShellsExit
  BY <1>1, <1>13 DEF OrphanShellsExit, AddressesOK
<1>14. CASE \/ StartProgram \/ AddController \/ AddRemoteController \/ Crash \/ StopController
            \/ StopRemoteController \/ batchShutdown \/ Cleanup
  <2>1. pc' \in {"controller", "off", "nodes", "delete", "terminate", "bridges", "interfaces", "stale",
                 "killed"}
    BY <1>14 DEF StartProgram, AddController, AddRemoteController, Crash, Die, GoTo, StopController,
       StopRemoteController, batchShutdown, Cleanup, CleanupProcesses, CleanupBridges,
       CleanupInterfaces, killprocs, pkill, KilledShellDies, pgrep
  <2>. QED BY <1>4, <2>1 DEF Middle
<1>15. CASE StopLink \/ TerminateHost
  <2>1. /\ pc \in {"delete", "terminate"} /\ todo # {}
        /\ \/ NextOf(FirstLink(todo), "shutdown", {C0})
           \/ NextOf(First(todo), "off", {})
    BY <1>15 DEF StopLink, TerminateHost, ControlOK
  <2>2. pc' \in {"delete", "shutdown", "terminate", "off"}
    BY <2>1, NextOfCases
  <2>. QED BY <1>4, <2>2 DEF Middle
<1>. QED BY <1>3, <1>5, <1>6, <1>7, <1>8, <1>9, <1>10, <1>11, <1>12, <1>13, <1>14, <1>15
         DEF Next, Program, BuildNetwork, StartNetwork, Share, StopNetwork

LEMMA SameAgents ==
    ASSUME AgentsOK, run' = run, gen' = gen, pc' = pc \/ pc' \notin {"share", "test"},
           pc' \in BeforeShare => pc \in BeforeShare, pc' \in {"share", "test"} => todo' = todo,
           \A p : p.node \in NetHosts /\ p.gen = gen => (p \in procs' <=> p \in procs)
    PROVE  AgentsOK'
<1>1. NetHosts' = NetHosts /\ \A h : AgentOf(h)' = AgentOf(h)
  BY AddressesAreFixed, TopologyIsFixed
<1>2. Mine' = Mine
  BY <1>1 DEF Mine
<1>. QED BY <1>1, <1>2 DEF AgentsOK, BeforeShare

LEMMA NoAgents ==
    ASSUME pc' \notin BeforeShare \union {"share", "test"}
    PROVE  AgentsOK'
BY DEF AgentsOK

LEMMA AgentsStep ==
    ASSUME ControlOK, LeftInv, AddressesOK, AgentsOK, [Next]_vars
    PROVE  AgentsOK'
<1>0. run' = run
  BY RunIsKept DEF vars
<1>1. NetHosts' = NetHosts
  BY <1>0, TopologyIsFixed
<1>2. /\ ProcsOK /\ gen \in Nat /\ run \in Runs
      /\ C0 \notin NetHosts
  BY NetIsTopology, TopologyNodes DEF LeftInv, ControlOK, NodesOK
<1>3. CASE UNCHANGED vars
  BY <1>0, <1>3, SameAgents DEF vars
<1>4. CASE StartProgram
  <2>1. gen' = gen + 1 /\ pc' = "controller" /\ procs' = procs
    BY <1>4 DEF StartProgram, GoTo, osVars
  <2>2. Mine' = {}
    BY <1>2, <2>1 DEF Mine, ProcsOK
  <2>. QED BY <2>1, <2>2 DEF AgentsOK, BeforeShare
<1>5. CASE AddController \/ AddRemoteController
  <2>1. pc = "controller" /\ pc' \in {"nodes", "off"} /\ UNCHANGED <<gen, procs>>
    BY <1>5 DEF AddController, AddRemoteController, Die, GoTo
  <2>. QED BY <1>0, <2>1, SameAgents DEF BeforeShare
<1>6. CASE AddNode
  <2>1. /\ todo # {} /\ pc = "nodes" /\ UNCHANGED <<gen, procs>>
        /\ \/ NextOf(First(todo), "nodes", NetSwitches)
           \/ NextOf(First(todo), "links", NetLinks)
    BY <1>6 DEF AddNode, ControlOK
  <2>2. pc' \in {"nodes", "links"}
    BY <2>1, NextOfCases
  <2>. QED BY <1>0, <2>1, <2>2, SameAgents DEF BeforeShare
<1>7. CASE AddLink
  <2>1. /\ todo # {} /\ pc = "links" /\ UNCHANGED <<gen, procs>>
        /\ Die("exists") \/ Die("move") \/ NextOf(FirstLink(todo), "hosts", NetHosts)
    BY <1>7 DEF AddLink, ControlOK
  <2>2. pc' \in {"off", "links", "hosts"}
    BY <2>1, NextOfCases DEF Die, GoTo
  <2>. QED BY <1>0, <2>1, <2>2, SameAgents DEF BeforeShare
<1>8. CASE config
  <2>1. pc = "hosts" /\ todo # {} /\ NextOf(First(todo), "start", {C0}) /\ UNCHANGED <<gen, procs>>
    BY <1>8 DEF config, ControlOK, osVars
  <2>2. pc' \in {"hosts", "start"}
    BY <2>1, NextOfCases
  <2>. QED BY <1>0, <2>1, <2>2, SameAgents DEF BeforeShare
<1>9. CASE StartController \/ StartRemoteController
  <2>1. /\ pc = "start" /\ pc' = "switches" /\ UNCHANGED gen
        /\ procs \subseteq procs' /\ \A p \in procs' : p \in procs \/ p.node = C0
    BY <1>9 DEF StartController, StartRemoteController, osVars, GoTo
  <2>2. \A p : p.node \in NetHosts => (p \in procs' <=> p \in procs)
    BY <1>2, <2>1
  <2>. QED BY <1>0, <2>1, <2>2, SameAgents DEF BeforeShare
<1>10. CASE OVSStart
  <2>1. /\ pc = "switches" /\ todo # {} /\ NextOf(First(todo), "batch", {C0})
        /\ UNCHANGED <<gen, procs>>
    BY <1>10 DEF OVSStart, ControlOK
  <2>2. pc' \in {"switches", "batch"}
    BY <2>1, NextOfCases
  <2>. QED BY <1>0, <2>1, <2>2, SameAgents DEF BeforeShare
<1>11. CASE batchStartup
  <2>1. pc = "batch" /\ pc' = "queues" /\ UNCHANGED <<gen, procs>>
    BY <1>11 DEF batchStartup, GoTo
  <2>. QED BY <1>0, <2>1, SameAgents DEF BeforeShare
<1>12. CASE setupSwitchQueues \/ setupSwitchQueuesOfTest
  <2>1. /\ pc = "queues" /\ todo # {} /\ NextOf(FirstEnd(todo), "share", NetHosts)
        /\ UNCHANGED <<gen, procs>>
    BY <1>12 DEF setupSwitchQueues, setupSwitchQueuesOfTest, SetQueues, ControlOK
  <2>2. Mine' = {}
    BY <1>1, <2>1 DEF AgentsOK, BeforeShare, Mine
  <2>3. pc' = "queues" \/ (pc' = "share" /\ todo' = NetHosts)
    BY <2>1, NextOfCases
  <2>. QED BY <1>1, <2>2, <2>3 DEF AgentsOK, BeforeShare
<1>13. CASE startBWShare \/ startBWShareOfTest
  <2>. DEFINE h == First(todo)
              new == [cmd |-> IF h = BGHost THEN "BGAdaptor" ELSE "WCEnabler", node |-> h, gen |-> gen,
                      adaptor |-> addr[BGHost].ip,
                      expects |-> IF IsFatTree THEN Cardinality(NetHosts) - 1 ELSE 4]
  <2>1. /\ pc = "share" /\ todo # {} /\ todo \subseteq NetHosts /\ NextOf(h, "test", {C0})
        /\ UNCHANGED gen /\ procs' = procs \union {new}
    BY <1>13 DEF startBWShare, startBWShareOfTest, StartAgent, ControlOK
  <2>2. h \in todo
    BY <2>1, FirstsAreThere
  <2>3. new = AgentOf(h)
    <3>1. BGHost \in NetHosts
      BY <1>2, BGHostIsThere
    <3>2. addr[BGHost] = HostParams(BGHost)
      BY <2>1, <3>1 DEF AddressesOK, Middle
    <3>. QED BY <3>2 DEF AgentOf
  <2>4. new.node = h /\ new.gen = gen
    OBVIOUS
  <2>. HIDE DEF h, new
  <2>5. Mine' = Mine \union {new}
    BY <1>1, <2>1, <2>2, <2>4 DEF Mine
  <2>6. Mine' = {AgentOf(x) : x \in NetHosts \ (todo \ {h})}
    BY <2>1, <2>2, <2>3, <2>5 DEF AgentsOK
  <2>7. \A x : AgentOf(x)' = AgentOf(x)
    BY <1>0, <2>1, AddressesAreFixed
  <2>8. \/ todo = {h} /\ pc' = "test"
        \/ todo' = todo \ {h} /\ pc' = "share"
    BY <2>1, NextOfCases
  <2>9. CASE todo = {h} /\ pc' = "test"
    <3>1. NetHosts \ (todo \ {h}) = NetHosts
      BY <2>9
    <3>. QED BY <1>1, <2>6, <2>7, <2>9, <3>1 DEF AgentsOK, BeforeShare
  <2>10. CASE todo' = todo \ {h} /\ pc' = "share"
    BY <1>1, <2>6, <2>7, <2>10 DEF AgentsOK, BeforeShare
  <2>. QED BY <2>8, <2>9, <2>10
<1>14. CASE OrphanShellsExit
  <2>1. UNCHANGED <<gen, pc, todo, procs>>
    BY <1>14 DEF OrphanShellsExit
  <2>. QED BY <1>0, <2>1, SameAgents
<1>15. CASE StopController \/ StopRemoteController \/ batchShutdown \/ Cleanup \/ Crash
  <2>1. pc' \in {"delete", "terminate", "bridges", "interfaces", "stale", "killed", "off"}
    BY <1>15 DEF StopController, StopRemoteController, batchShutdown, Cleanup, CleanupProcesses,
       CleanupBridges, CleanupInterfaces, killprocs, pkill, KilledShellDies, pgrep, Crash, Die, GoTo
  <2>. QED BY <2>1, NoAgents DEF BeforeShare
<1>16. CASE StopLink \/ TerminateHost
  <2>1. /\ pc \in {"delete", "terminate"} /\ todo # {}
        /\ \/ NextOf(FirstLink(todo), "shutdown", {C0})
           \/ NextOf(First(todo), "off", {})
    BY <1>16 DEF StopLink, TerminateHost, ControlOK
  <2>2. pc' \in {"delete", "shutdown", "terminate", "off"}
    BY <2>1, NextOfCases
  <2>. QED BY <2>2, NoAgents DEF BeforeShare
<1>. QED BY <1>3, <1>4, <1>5, <1>6, <1>7, <1>8, <1>9, <1>10, <1>11, <1>12, <1>13, <1>14, <1>15, <1>16
         DEF Next, Program, BuildNetwork, StartNetwork, Share, StopNetwork

(* The single switch has one host more than its adaptor waits for. *)
LEMMA FiveHosts ==
    ASSUME run \in Runs, ~IsFatTree
    PROVE  Cardinality(NetHosts) = 5
<1>1. NetHosts = {TestHost(i) : i \in 1 .. 5}
  BY NetIsTopology, TopologyOfDegree DEF MySingleSwitchHosts
<1>. DEFINE f == [i \in 1 .. 5 |-> TestHost(i)]
<1>2. Names(f, 1 .. 5, NetHosts)
  BY <1>1 DEF Names, TestHost, FatTreeNodeID
<1>3. IsFiniteSet(1 .. 5) /\ Cardinality(1 .. 5) = 5
  <2>1. 1 \in Int /\ 5 \in Int /\ 5 - 1 + 1 = 5 /\ ~(1 > 5)
    OBVIOUS
  <2>. QED BY <2>1, FS_Interval
<1>. HIDE DEF f
<1>4. Cardinality(NetHosts) = Cardinality(1 .. 5)
  BY <1>2, <1>3, AsMany
<1>. QED BY <1>3, <1>4

(* No two hosts have an address in common. *)
LEMMA AddressesAreUnique ==
    ASSUME run \in Runs, NEW g \in NetHosts, NEW h \in NetHosts, g # h
    PROVE  /\ HostParams(g).ip # HostParams(h).ip
           /\ IsFatTree => HostParams(g).mac # HostParams(h).mac
<1>1. /\ g = [pod |-> g.pod, sw |-> g.sw, host |-> g.host]
      /\ h = [pod |-> h.pod, sw |-> h.sw, host |-> h.host]
  BY NetIsTopology, TopologyNodes DEF NodesOK
<1>2. g.pod # h.pod \/ g.sw # h.sw \/ g.host # h.host
  BY <1>1
<1>3. CASE IsFatTree
  <2>1. HostParams(g) = [ip |-> ip_str(g), mac |-> mac_str(g)]
    BY <1>3 DEF HostParams, def_nopts
  <2>2. HostParams(h) = [ip |-> ip_str(h), mac |-> mac_str(h)]
    BY <1>3 DEF HostParams, def_nopts
  <2>. QED BY <1>2, <2>1, <2>2 DEF ip_str, mac_str
<1>4. CASE ~IsFatTree
  <2>1. NetHosts = {TestHost(i) : i \in 1 .. 5}
    BY <1>4, NetIsTopology, TopologyOfDegree DEF MySingleSwitchHosts
  <2>2. g.host # h.host
    BY <1>2, <2>1 DEF TestHost, FatTreeNodeID
  <2>. QED BY <1>4, <2>2 DEF HostParams
<1>. QED BY <1>3, <1>4

(* When the test starts, one host of this run runs the adaptor and every    *)
(* other one an enabler, all were given the adaptor's address, which no     *)
(* other host has, and the adaptor waits for as many hosts as there are     *)
(* enablers (startBWShare, def_nopts, ip_str).                              *)
THEOREM AgentsAlwaysReachTheAdaptor == Spec => []AgentsReachTheAdaptor
<1>. DEFINE Inv == ControlOK /\ LeftInv /\ AddressesOK /\ AgentsOK
<1>1. Init => Inv
  <2>1. Init => run \in Runs /\ gen = 0 /\ pc = "off"
    BY Zenon DEF Init
  <2>2. Init => shells = {} /\ procs = {} /\ veth = {} /\ bridges = <<>>
    BY Zenon DEF Init
  <2>3. DOMAIN <<>> = {}
    OBVIOUS
  <2>4. Init => ControlOK
    BY <2>1 DEF ControlOK, Stages, Running, CleaningUp
  <2>5. Init => LeftInv
    BY <2>1, <2>2, <2>3 DEF LeftInv, ShellsOK, ProcsOK, PairsOK, ShellsLeft, ProcsLeft, PairsLeft,
       BridgesLeft, Stopped
  <2>6. Init => AddressesOK /\ AgentsOK
    BY <2>1 DEF AddressesOK, AgentsOK, BeforeShare, Middle
  <2>. QED BY <2>4, <2>5, <2>6
<1>2. Inv /\ [Next]_vars => Inv'
  BY ControlStep, LeftStep, AddressesStep, AgentsStep
<1>3. Inv => AgentsReachTheAdaptor
  <2>. SUFFICES ASSUME Inv, pc = "test" PROVE AgentsReachTheAdaptor
    BY DEF AgentsReachTheAdaptor
  <2>0. run \in Runs /\ BGHost \in NetHosts
    BY BGHostIsThere DEF ControlOK
  <2>1. Mine = {AgentOf(h) : h \in NetHosts} /\ \A h \in NetHosts : addr[h] = HostParams(h)
    BY DEF AgentsOK, AddressesOK, Middle
  <2>. DEFINE f == [h \in NetHosts |-> AgentOf(h)]
              b == AgentOf(BGHost)
  <2>2. \A h \in NetHosts : f[h] = AgentOf(h) /\ AgentOf(h).node = h
    BY DEF AgentOf
  <2>3. IsFiniteSet(NetHosts)
    BY <2>0, NetIsTopology, TopologyIsFinite
  <2>4. Cardinality(Mine) = Cardinality(NetHosts)
    <3>1. Names(f, NetHosts, Mine)
      <4>. HIDE DEF f
      <4>. QED BY <2>1, <2>2 DEF Names
    <3>. HIDE DEF f
    <3>. QED BY <2>3, <3>1, AsMany
  <2>5. {p.node : p \in Mine} = NetHosts
    BY <2>1, <2>2
  <2>6. /\ b \in Mine /\ b.cmd = "BGAdaptor" /\ b.node = BGHost
        /\ b.expects = Cardinality(Mine) - 1
    <3>1. b.expects = Cardinality(NetHosts) - 1
      BY <2>0, FiveHosts DEF AgentOf
    <3>. QED BY <2>0, <2>1, <2>4, <3>1 DEF AgentOf
  <2>7. ASSUME NEW p \in Mine
        PROVE  p.adaptor = addr[b.node].ip /\ (p # b => p.cmd = "WCEnabler")
    <3>1. PICK h \in NetHosts : p = AgentOf(h)
      BY <2>1
    <3>2. p # b => h # BGHost
      BY <3>1
    <3>3. addr[b.node].ip = HostParams(BGHost).ip
      BY <2>0, <2>1, <2>6
    <3>. QED BY <3>1, <3>2, <3>3 DEF AgentOf
  <2>8. ASSUME NEW h \in NetHosts \ {b.node}
        PROVE  /\ addr[h].ip # addr[b.node].ip
               /\ IsFatTree => addr[h].mac # addr[b.node].mac
    BY <2>0, <2>1, <2>6, <2>8, AddressesAreUnique
  <2>. HIDE DEF b, f
  <2>. QED BY <2>4, <2>5, <2>6, <2>7, <2>8 DEF AgentsReachTheAdaptor, Mine
<1>. QED
  <2>. HIDE DEF Inv
  <2>. QED BY <1>1, <1>2, <1>3, PTL DEF Spec

-----------------------------------------------------------------------------
(* A fat tree of an even degree: what is above and below each of its nodes, *)
(* and how much of it.                                                      *)

LEMMA KindsAreLinks ==
    ASSUME NEW k \in Nat, NEW m, NEW n, HostEdge(k, m, n) \/ EdgeAgg(k, m, n) \/ CoreAgg(k, m, n)
    PROVE  <<m, n>> \in Links(k)
<1>1. CASE HostEdge(k, m, n)
  <2>1. PICK p \in pods(k), e \in edge_sws(k), h \in hosts(k) : m = HostId(p, e, h)
    BY <1>1, LayerNodes DEF HostEdge
  <2>2. n = EdgeId(p, e)
    BY <1>1, <2>1, EdgeNumbers DEF HostEdge, HostId, EdgeId, FatTreeNodeID
  <2>. QED BY <2>1, <2>2 DEF Links, HostEdgeLinks
<1>2. CASE EdgeAgg(k, m, n)
  <2>1. PICK p \in pods(k), e \in edge_sws(k) : m = EdgeId(p, e)
    BY <1>2, LayerNodes DEF EdgeAgg
  <2>2. PICK q \in pods(k), a \in agg_sws(k) : n = AggId(q, a)
    BY <1>2, LayerNodes DEF EdgeAgg
  <2>3. q = p
    BY <1>2, <2>1, <2>2 DEF EdgeAgg, EdgeId, AggId, FatTreeNodeID
  <2>. QED BY <2>1, <2>2, <2>3 DEF Links, EdgeAggLinks
<1>3. CASE CoreAgg(k, m, n)
  <2>1. PICK a \in agg_sws(k), c \in core_sws(k) : m = CoreId(k, a, c)
    BY <1>3, LayerNodes DEF CoreAgg
  <2>2. PICK p \in pods(k), b \in agg_sws(k) : n = AggId(p, b)
    BY <1>3, LayerNodes DEF CoreAgg
  <2>3. b = a
    BY <1>3, <2>1, <2>2 DEF CoreAgg, CoreId, AggId, FatTreeNodeID, agg_sws
  <2>. QED BY <2>1, <2>2, <2>3 DEF Links, CoreAggLinks
<1>. QED BY <1>1, <1>2, <1>3

LEMMA UpAndDown ==
    ASSUME NEW k \in Nat, NEW n
    PROVE  /\ n \in layer_nodes(k, LAYER_CORE) =>
                 /\ up_nodes(k, n) = {}
                 /\ \A m : m \in down_nodes(k, n) <=> CoreAgg(k, n, m)
           /\ n \in layer_nodes(k, LAYER_AGG) =>
                 /\ \A m : m \in up_nodes(k, n) <=> CoreAgg(k, m, n)
                 /\ \A m : m \in down_nodes(k, n) <=> EdgeAgg(k, m, n)
           /\ n \in layer_nodes(k, LAYER_EDGE) =>
                 /\ \A m : m \in up_nodes(k, n) <=> EdgeAgg(k, n, m)
                 /\ \A m : m \in down_nodes(k, n) <=> HostEdge(k, m, n)
           /\ n \in layer_nodes(k, LAYER_HOST) =>
                 /\ \A m : m \in up_nodes(k, n) <=> HostEdge(k, n, m)
                 /\ down_nodes(k, n) = {}
<1>1. /\ LAYER_AGG - 1 = LAYER_CORE /\ LAYER_EDGE - 1 = LAYER_AGG /\ LAYER_HOST - 1 = LAYER_EDGE
      /\ LAYER_CORE + 1 = LAYER_AGG /\ LAYER_AGG + 1 = LAYER_EDGE /\ LAYER_EDGE + 1 = LAYER_HOST
      /\ LAYER_CORE \in Layers /\ LAYER_AGG \in Layers /\ LAYER_EDGE \in Layers /\ LAYER_HOST \in Layers
  BY DEF Layers, LAYER_CORE, LAYER_AGG, LAYER_EDGE, LAYER_HOST
<1>2. layer_nodes(k, LAYER_CORE - 1) = {} /\ layer_nodes(k, LAYER_HOST + 1) = {}
  BY DEF layer_nodes, LAYER_CORE, LAYER_AGG, LAYER_EDGE, LAYER_HOST
<1>3. ASSUME NEW l1 \in Layers, NEW l2 \in Layers, NEW x \in layer_nodes(k, l1), l1 # l2
      PROVE  x \notin layer_nodes(k, l2)
  BY <1>3, LayersAreDisjoint
<1>4. /\ LAYER_CORE # LAYER_AGG /\ LAYER_CORE # LAYER_EDGE /\ LAYER_CORE # LAYER_HOST
      /\ LAYER_AGG # LAYER_EDGE /\ LAYER_AGG # LAYER_HOST /\ LAYER_EDGE # LAYER_HOST
  BY DEF LAYER_CORE, LAYER_AGG, LAYER_EDGE, LAYER_HOST
<1>5. ASSUME NEW m
      PROVE  Linked(k, m, n) <=> \/ HostEdge(k, m, n) \/ EdgeAgg(k, m, n) \/ CoreAgg(k, m, n)
                                 \/ HostEdge(k, n, m) \/ EdgeAgg(k, n, m) \/ CoreAgg(k, n, m)
  BY LinkKinds, KindsAreLinks DEF Linked
<1>6. ASSUME NEW l \in Layers, n \in layer_nodes(k, l)
      PROVE  /\ \A m : m \in up_nodes(k, n) <=> m \in layer_nodes(k, l - 1) /\ Linked(k, m, n)
             /\ \A m : m \in down_nodes(k, n) <=> m \in layer_nodes(k, l + 1) /\ Linked(k, m, n)
  <2>1. layer(k, n) = l
    BY <1>6, LayerOfNode
  <2>. QED BY <2>1 DEF up_nodes, down_nodes
<1>7. CASE n \in layer_nodes(k, LAYER_CORE)
  <2>1. /\ n \notin layer_nodes(k, LAYER_AGG) /\ n \notin layer_nodes(k, LAYER_EDGE)
        /\ n \notin layer_nodes(k, LAYER_HOST)
    BY <1>1, <1>3, <1>4, <1>7
  <2>2. \A m : m \in down_nodes(k, n) <=> m \in layer_nodes(k, LAYER_AGG) /\ Linked(k, m, n)
    BY <1>1, <1>6, <1>7
  <2>3. up_nodes(k, n) = {}
    BY <1>1, <1>2, <1>6, <1>7
  <2>. QED BY <1>5, <2>1, <2>2, <2>3 DEF HostEdge, EdgeAgg, CoreAgg
<1>8. CASE n \in layer_nodes(k, LAYER_AGG)
  <2>1. /\ n \notin layer_nodes(k, LAYER_CORE) /\ n \notin layer_nodes(k, LAYER_EDGE)
        /\ n \notin layer_nodes(k, LAYER_HOST)
    BY <1>1, <1>3, <1>4, <1>8
  <2>2. /\ \A m : m \in up_nodes(k, n) <=> m \in layer_nodes(k, LAYER_CORE) /\ Linked(k, m, n)
        /\ \A m : m \in down_nodes(k, n) <=> m \in layer_nodes(k, LAYER_EDGE) /\ Linked(k, m, n)
    BY <1>1, <1>6, <1>8
  <2>3. \A m : ~(m \in layer_nodes(k, LAYER_CORE) /\ m \in layer_nodes(k, LAYER_EDGE))
    BY <1>1, <1>3, <1>4
  <2>. QED BY <1>5, <2>1, <2>2, <2>3 DEF HostEdge, EdgeAgg, CoreAgg
<1>9. CASE n \in layer_nodes(k, LAYER_EDGE)
  <2>1. /\ n \notin layer_nodes(k, LAYER_CORE) /\ n \notin layer_nodes(k, LAYER_AGG)
        /\ n \notin layer_nodes(k, LAYER_HOST)
    BY <1>1, <1>3, <1>4, <1>9
  <2>2. /\ \A m : m \in up_nodes(k, n) <=> m \in layer_nodes(k, LAYER_AGG) /\ Linked(k, m, n)
        /\ \A m : m \in down_nodes(k, n) <=> m \in layer_nodes(k, LAYER_HOST) /\ Linked(k, m, n)
    BY <1>1, <1>6, <1>9
  <2>3. \A m : ~(m \in layer_nodes(k, LAYER_AGG) /\ m \in layer_nodes(k, LAYER_HOST))
    BY <1>1, <1>3, <1>4
  <2>. QED BY <1>5, <2>1, <2>2, <2>3 DEF HostEdge, EdgeAgg, CoreAgg
<1>10. CASE n \in layer_nodes(k, LAYER_HOST)
  <2>1. /\ n \notin layer_nodes(k, LAYER_CORE) /\ n \notin layer_nodes(k, LAYER_AGG)
        /\ n \notin layer_nodes(k, LAYER_EDGE)
    BY <1>1, <1>3, <1>4, <1>10
  <2>2. \A m : m \in up_nodes(k, n) <=> m \in layer_nodes(k, LAYER_EDGE) /\ Linked(k, m, n)
    BY <1>1, <1>6, <1>10
  <2>3. down_nodes(k, n) = {}
    BY <1>1, <1>2, <1>6, <1>10
  <2>. QED BY <1>5, <2>1, <2>2, <2>3 DEF HostEdge, EdgeAgg, CoreAgg
<1>. QED BY <1>7, <1>8, <1>9, <1>10

LEMMA Counted ==
    ASSUME NEW a \in Int, NEW b \in Int, a <= b, NEW T, NEW f, Names(f, a .. b, T)
    PROVE  IsFiniteSet(T) /\ Cardinality(T) = b - a + 1
<1>1. IsFiniteSet(a .. b) /\ Cardinality(a .. b) = b - a + 1
  <2>1. ~(a > b)
    OBVIOUS
  <2>. QED BY <2>1, FS_Interval
<1>2. IsFiniteSet(T) /\ Cardinality(T) = Cardinality(a .. b)
  BY <1>1, AsMany
<1>. QED BY <1>1, <1>2

(* How many nodes of each layer a node has above and below it. *)
LEMMA CoresBelow ==
    ASSUME NEW k \in Nat, k >= 2, k % 2 = 0, NEW n \in layer_nodes(k, LAYER_CORE)
    PROVE  IsFiniteSet(down_nodes(k, n)) /\ Cardinality(down_nodes(k, n)) = k
<1>. DEFINE h == k \div 2
            f == [p \in 0 .. k - 1 |-> AggId(p, n.sw + h - 1)]
<1>1. h \in Nat /\ h >= 1 /\ k = 2 * h
  OBVIOUS
<1>2. n.sw \in Int /\ n.sw + h - 1 \in Int /\ h <= n.sw + h - 1 /\ n.sw + h - 1 <= k - 1
  <2>1. n.sw \in Int /\ 1 <= n.sw /\ n.sw <= k - h
    BY CoreNumbers
  <2>. HIDE DEF h
  <2>. QED BY <1>1, <2>1
<1>3. ASSUME NEW p \in 0 .. k - 1 PROVE f[p] \in down_nodes(k, n)
  <2>1. f[p] = AggId(p, n.sw + h - 1) /\ f[p].sw = n.sw + h - 1
    BY DEF AggId, FatTreeNodeID
  <2>2. f[p] \in layer_nodes(k, LAYER_AGG)
    BY <1>2, <2>1, LayerNodes DEF pods, agg_sws
  <2>3. CoreAgg(k, n, f[p])
    BY <1>1, <1>2, <2>1, <2>2 DEF CoreAgg
  <2>. QED BY <2>3, UpAndDown
<1>4. \A p \in 0 .. k - 1, q \in 0 .. k - 1 : f[p] = f[q] => p = q
  BY DEF AggId, FatTreeNodeID
<1>5. ASSUME NEW m \in down_nodes(k, n) PROVE \E p \in 0 .. k - 1 : f[p] = m
  <2>1. CoreAgg(k, n, m)
    BY UpAndDown
  <2>2. m.pod \in 0 .. k - 1 /\ m = AggId(m.pod, n.sw + h - 1)
    BY <1>1, <1>2, <2>1, AggNumbers DEF CoreAgg, AggId, FatTreeNodeID
  <2>. QED BY <2>2
<1>6. 0 \in Int /\ k - 1 \in Int /\ 0 <= k - 1 /\ (k - 1) - 0 + 1 = k
  OBVIOUS
<1>7. Names(f, 0 .. k - 1, down_nodes(k, n))
  <2>. HIDE DEF f, h
  <2>. QED BY <1>3, <1>4, <1>5 DEF Names
<1>. HIDE DEF f, h
<1>. QED BY <1>6, <1>7, Counted

LEMMA AggsBetween ==
    ASSUME NEW k \in Nat, k >= 2, k % 2 = 0, NEW n \in layer_nodes(k, LAYER_AGG)
    PROVE  /\ IsFiniteSet(up_nodes(k, n)) /\ Cardinality(up_nodes(k, n)) = k \div 2
           /\ IsFiniteSet(down_nodes(k, n)) /\ Cardinality(down_nodes(k, n)) = k \div 2
           /\ down_nodes(k, n) = {EdgeId(n.pod, e) : e \in edge_sws(k)}
<1>. DEFINE h == k \div 2
            f == [c \in 1 .. h |-> CoreId(k, n.sw, c)]
            g == [e \in 0 .. h - 1 |-> EdgeId(n.pod, e)]
<1>1. h \in Nat /\ h >= 1 /\ k = 2 * h
  OBVIOUS
<1>2. n.sw \in h .. k - 1 /\ n.pod \in 0 .. k - 1
  BY <1>1, AggNumbers
<1>3. ASSUME NEW c \in 1 .. h PROVE f[c] \in up_nodes(k, n)
  <2>1. f[c] = CoreId(k, n.sw, c) /\ f[c].sw = n.sw - h + 1
    BY DEF CoreId, FatTreeNodeID
  <2>2. f[c] \in layer_nodes(k, LAYER_CORE)
    BY <1>2, <2>1, LayerNodes DEF core_sws, agg_sws
  <2>. QED BY <2>1, <2>2, UpAndDown DEF CoreAgg
<1>4. \A c \in 1 .. h, d \in 1 .. h : f[c] = f[d] => c = d
  BY DEF CoreId, FatTreeNodeID
<1>5. ASSUME NEW m \in up_nodes(k, n) PROVE \E c \in 1 .. h : f[c] = m
  <2>1. CoreAgg(k, m, n)
    BY UpAndDown
  <2>2. m.host \in 1 .. h /\ m = CoreId(k, n.sw, m.host)
    BY <1>1, <1>2, <2>1, CoreNumbers DEF CoreAgg, CoreId, FatTreeNodeID
  <2>. QED BY <2>2
<1>6. IsFiniteSet(up_nodes(k, n)) /\ Cardinality(up_nodes(k, n)) = h
  <2>1. 1 \in Int /\ h \in Int /\ 1 <= h /\ h - 1 + 1 = h
    BY <1>1
  <2>2. Names(f, 1 .. h, up_nodes(k, n))
    <3>. HIDE DEF f, h
    <3>. QED BY <1>3, <1>4, <1>5 DEF Names
  <2>. HIDE DEF f, h
  <2>. QED BY <2>1, <2>2, Counted
<1>7. ASSUME NEW e \in 0 .. h - 1 PROVE g[e] \in down_nodes(k, n)
  <2>1. g[e] = EdgeId(n.pod, e) /\ g[e].pod = n.pod
    BY DEF EdgeId, FatTreeNodeID
  <2>2. g[e] \in layer_nodes(k, LAYER_EDGE)
    BY <1>2, <2>1, LayerNodes DEF pods, edge_sws
  <2>. QED BY <2>1, <2>2, UpAndDown DEF EdgeAgg
<1>8. \A e \in 0 .. h - 1, d \in 0 .. h - 1 : g[e] = g[d] => e = d
  BY DEF EdgeId, FatTreeNodeID
<1>9. ASSUME NEW m \in down_nodes(k, n) PROVE \E e \in 0 .. h - 1 : g[e] = m
  <2>1. EdgeAgg(k, m, n)
    BY UpAndDown
  <2>2. m.sw \in 0 .. h - 1 /\ m = EdgeId(n.pod, m.sw)
    BY <1>1, <1>2, <2>1, EdgeNumbers DEF EdgeAgg, EdgeId, FatTreeNodeID
  <2>. QED BY <2>2
<1>10. IsFiniteSet(down_nodes(k, n)) /\ Cardinality(down_nodes(k, n)) = h
  <2>1. 0 \in Int /\ h - 1 \in Int /\ 0 <= h - 1 /\ (h - 1) - 0 + 1 = h
    BY <1>1
  <2>2. Names(g, 0 .. h - 1, down_nodes(k, n))
    <3>. HIDE DEF g, h
    <3>. QED BY <1>7, <1>8, <1>9 DEF Names
  <2>. HIDE DEF g, h
  <2>. QED BY <2>1, <2>2, Counted
<1>11. down_nodes(k, n) = {EdgeId(n.pod, e) : e \in edge_sws(k)}
  <2>1. edge_sws(k) = 0 .. h - 1 /\ \A e \in 0 .. h - 1 : g[e] = EdgeId(n.pod, e)
    BY DEF edge_sws
  <2>. HIDE DEF g, h
  <2>. QED BY <1>7, <1>9, <2>1
<1>. QED BY <1>6, <1>10, <1>11

LEMMA EdgesBetween ==
    ASSUME NEW k \in Nat, k >= 2, k % 2 = 0, NEW n \in layer_nodes(k, LAYER_EDGE)
    PROVE  /\ IsFiniteSet(up_nodes(k, n)) /\ Cardinality(up_nodes(k, n)) = k \div 2
           /\ IsFiniteSet(down_nodes(k, n)) /\ Cardinality(down_nodes(k, n)) = k \div 2
<1>. DEFINE h == k \div 2
            f == [a \in h .. k - 1 |-> AggId(n.pod, a)]
            g == [x \in 2 .. h + 1 |-> HostId(n.pod, n.sw, x)]
<1>1. h \in Nat /\ h >= 1 /\ k = 2 * h
  OBVIOUS
<1>2. n.sw \in 0 .. h - 1 /\ n.pod \in 0 .. k - 1
  BY <1>1, EdgeNumbers
<1>3. ASSUME NEW a \in h .. k - 1 PROVE f[a] \in up_nodes(k, n)
  <2>1. f[a] = AggId(n.pod, a) /\ f[a].pod = n.pod
    BY DEF AggId, FatTreeNodeID
  <2>2. f[a] \in layer_nodes(k, LAYER_AGG)
    BY <1>2, <2>1, LayerNodes DEF pods, agg_sws
  <2>. QED BY <2>1, <2>2, UpAndDown DEF EdgeAgg
<1>4. \A a \in h .. k - 1, b \in h .. k - 1 : f[a] = f[b] => a = b
  BY DEF AggId, FatTreeNodeID
<1>5. ASSUME NEW m \in up_nodes(k, n) PROVE \E a \in h .. k - 1 : f[a] = m
  <2>1. EdgeAgg(k, n, m)
    BY UpAndDown
  <2>2. m.sw \in h .. k - 1 /\ m = AggId(n.pod, m.sw)
    BY <1>1, <1>2, <2>1, AggNumbers DEF EdgeAgg, AggId, FatTreeNodeID
  <2>. QED BY <2>2
<1>6. IsFiniteSet(up_nodes(k, n)) /\ Cardinality(up_nodes(k, n)) = h
  <2>1. h \in Int /\ k - 1 \in Int /\ h <= k - 1 /\ (k - 1) - h + 1 = h
    BY <1>1
  <2>2. Names(f, h .. k - 1, up_nodes(k, n))
    <3>. HIDE DEF f, h
    <3>. QED BY <1>3, <1>4, <1>5 DEF Names
  <2>. HIDE DEF f, h
  <2>. QED BY <2>1, <2>2, Counted
<1>7. ASSUME NEW x \in 2 .. h + 1 PROVE g[x] \in down_nodes(k, n)
  <2>1. g[x] = HostId(n.pod, n.sw, x) /\ g[x].pod = n.pod /\ g[x].sw = n.sw
    BY DEF HostId, FatTreeNodeID
  <2>2. g[x] \in layer_nodes(k, LAYER_HOST)
    BY <1>2, <2>1, LayerNodes DEF pods, edge_sws, hosts
  <2>. QED BY <2>1, <2>2, UpAndDown DEF HostEdge
<1>8. \A x \in 2 .. h + 1, y \in 2 .. h + 1 : g[x] = g[y] => x = y
  BY DEF HostId, FatTreeNodeID
<1>9. ASSUME NEW m \in down_nodes(k, n) PROVE \E x \in 2 .. h + 1 : g[x] = m
  <2>1. HostEdge(k, m, n)
    BY UpAndDown
  <2>2. m.host \in 2 .. h + 1 /\ m = HostId(n.pod, n.sw, m.host)
    BY <1>1, <1>2, <2>1, HostNumbers DEF HostEdge, HostId, FatTreeNodeID
  <2>. QED BY <2>2
<1>10. IsFiniteSet(down_nodes(k, n)) /\ Cardinality(down_nodes(k, n)) = h
  <2>1. 2 \in Int /\ h + 1 \in Int /\ 2 <= h + 1 /\ (h + 1) - 2 + 1 = h
    BY <1>1
  <2>2. Names(g, 2 .. h + 1, down_nodes(k, n))
    <3>. HIDE DEF g, h
    <3>. QED BY <1>7, <1>8, <1>9 DEF Names
  <2>. HIDE DEF g, h
  <2>. QED BY <2>1, <2>2, Counted
<1>. QED BY <1>6, <1>10

LEMMA HostsAbove ==
    ASSUME NEW k \in Nat, k >= 2, k % 2 = 0, NEW n \in layer_nodes(k, LAYER_HOST)
    PROVE  IsFiniteSet(up_nodes(k, n)) /\ Cardinality(up_nodes(k, n)) = 1
<1>. DEFINE s == EdgeId(n.pod, n.sw)
<1>1. /\ n.pod \in 0 .. k - 1 /\ n.sw \in 0 .. (k \div 2) - 1
  BY HostNumbers
<1>2. s \in layer_nodes(k, LAYER_EDGE) /\ s.pod = n.pod /\ s.sw = n.sw
  BY <1>1, LayerNodes DEF pods, edge_sws, EdgeId, FatTreeNodeID
<1>3. \A m : HostEdge(k, n, m) <=> m = s
  BY <1>2, EdgeNumbers DEF HostEdge, EdgeId, FatTreeNodeID
<1>4. up_nodes(k, n) = {s}
  BY <1>3, UpAndDown
<1>. QED BY <1>4, FS_Singleton

(* There is one edge to each node. *)
LEMMA EdgesOfNodes ==
    ASSUME NEW k, NEW n
    PROVE  /\ IsFiniteSet(up_nodes(k, n)) => Cardinality(up_edges(k, n)) = Cardinality(up_nodes(k, n))
           /\ IsFiniteSet(down_nodes(k, n)) =>
                 Cardinality(down_edges(k, n)) = Cardinality(down_nodes(k, n))
<1>1. ASSUME NEW S, IsFiniteSet(S)
      PROVE  Cardinality({<<n, m>> : m \in S}) = Cardinality(S)
  <2>. DEFINE T == {<<n, m>> : m \in S}
              f == [m \in S |-> <<n, m>>]
  <2>1. Names(f, S, T)
    BY DEF Names
  <2>. HIDE DEF T, f
  <2>2. Cardinality(T) = Cardinality(S)
    BY <1>1, <2>1, AsMany
  <2>. QED BY <2>2 DEF T
<1>. QED BY <1>1 DEF up_edges, down_edges

(* A fat tree of any even degree is one: every node has the links its layer  *)
(* is specified with, the parity of a port tells the direction of its link,  *)
(* and every core switch has a switch of every pod below it (node_specs,     *)
(* isPortUp, FatTreeTopo's constructor).                                     *)
THEOREM EvenDegreesMakeFatTrees ==
    ASSUME NEW k \in Nat, k >= 2, k % 2 = 0
    PROVE  IsFatTreeOf(k)
<1>. DEFINE specs == node_specs(k)
<1>1. /\ specs[LAYER_CORE] = [up_total |-> 0, down_total |-> k]
      /\ specs[LAYER_AGG]  = [up_total |-> k \div 2, down_total |-> k \div 2]
      /\ specs[LAYER_EDGE] = [up_total |-> k \div 2, down_total |-> k \div 2]
      /\ specs[LAYER_HOST] = [up_total |-> 1, down_total |-> 0]
  BY DEF node_specs, Layers, LAYER_CORE, LAYER_AGG, LAYER_EDGE, LAYER_HOST
<1>. HIDE DEF specs
<1>2. IsFiniteSet({}) /\ Cardinality({}) = 0
  BY FS_EmptySet
<1>3. ASSUME NEW l \in Layers, NEW n \in layer_nodes(k, l)
      PROVE  /\ Cardinality(up_edges(k, n)) = specs[l].up_total
             /\ Cardinality(down_edges(k, n)) = specs[l].down_total
  <2>1. /\ IsFiniteSet(up_nodes(k, n)) /\ Cardinality(up_nodes(k, n)) = specs[l].up_total
        /\ IsFiniteSet(down_nodes(k, n)) /\ Cardinality(down_nodes(k, n)) = specs[l].down_total
    <3>1. CASE l = LAYER_CORE
      <4>1. up_nodes(k, n) = {}
        BY <3>1, UpAndDown
      <4>2. IsFiniteSet(down_nodes(k, n)) /\ Cardinality(down_nodes(k, n)) = k
        BY <3>1, CoresBelow
      <4>. QED BY <1>1, <1>2, <3>1, <4>1, <4>2
    <3>2. CASE l = LAYER_AGG
      BY <1>1, <3>2, AggsBetween
    <3>3. CASE l = LAYER_EDGE
      BY <1>1, <3>3, EdgesBetween
    <3>4. CASE l = LAYER_HOST
      BY <1>1, <1>2, <3>4, UpAndDown, HostsAbove
    <3>. QED BY <3>1, <3>2, <3>3, <3>4 DEF Layers
  <2>. QED BY <2>1, EdgesOfNodes
<1>4. ASSUME NEW n \in layer_nodes(k, LAYER_AGG)
      PROVE  /\ \A m \in up_nodes(k, n) : isPortUp(port(k, n, m)[1])
             /\ \A m \in down_nodes(k, n) : ~isPortUp(port(k, n, m)[1])
  <2>1. ASSUME NEW m \in up_nodes(k, n) PROVE isPortUp(port(k, n, m)[1])
    <3>1. CoreAgg(k, m, n)
      BY UpAndDown
    <3>2. m.host \in Int /\ port(k, n, m)[1] = (m.host - 1) * 2 + 1
      BY <3>1, PortValues, CoreNumbers DEF CoreAgg
    <3>. QED BY <3>2 DEF isPortUp, PORT_BASE
  <2>2. ASSUME NEW m \in down_nodes(k, n) PROVE ~isPortUp(port(k, n, m)[1])
    <3>1. EdgeAgg(k, m, n)
      BY UpAndDown
    <3>2. m.sw \in Int /\ port(k, n, m)[1] = m.sw * 2 + 1 + 1
      BY <3>1, PortValues, EdgeNumbers DEF EdgeAgg
    <3>. QED BY <3>2 DEF isPortUp, PORT_BASE
  <2>. QED BY <2>1, <2>2
<1>5. ASSUME NEW n \in layer_nodes(k, LAYER_EDGE)
      PROVE  /\ \A m \in up_nodes(k, n) : isPortUp(port(k, n, m)[1])
             /\ \A m \in down_nodes(k, n) : ~isPortUp(port(k, n, m)[1])
  <2>1. ASSUME NEW m \in up_nodes(k, n) PROVE isPortUp(port(k, n, m)[1])
    <3>1. EdgeAgg(k, n, m)
      BY UpAndDown
    <3>2. m.sw \in Int /\ k \div 2 \in Int /\ port(k, n, m)[1] = (m.sw - k \div 2) * 2 + 1
      BY <3>1, PortValues, AggNumbers DEF EdgeAgg
    <3>. QED BY <3>2 DEF isPortUp, PORT_BASE
  <2>2. ASSUME NEW m \in down_nodes(k, n) PROVE ~isPortUp(port(k, n, m)[1])
    <3>1. HostEdge(k, m, n)
      BY UpAndDown
    <3>2. m.host \in Int /\ port(k, n, m)[1] = (m.host - 2) * 2 + 1 + 1
      BY <3>1, PortValues, HostNumbers DEF HostEdge
    <3>. QED BY <3>2 DEF isPortUp, PORT_BASE
  <2>. QED BY <2>1, <2>2
<1>6. ASSUME NEW c \in layer_nodes(k, LAYER_CORE)
      PROVE  {a.pod : a \in down_nodes(k, c)} = pods(k)
  <2>1. \A a \in down_nodes(k, c) : a.pod \in pods(k)
    BY UpAndDown, AggNumbers DEF CoreAgg, pods
  <2>2. ASSUME NEW p \in pods(k) PROVE \E a \in down_nodes(k, c) : a.pod = p
    <3>. DEFINE h == k \div 2
                a == AggId(p, c.sw + h - 1)
    <3>1. h \in Nat /\ h >= 1 /\ k = 2 * h
      OBVIOUS
    <3>2. c.sw \in Int /\ 1 <= c.sw /\ c.sw <= k - h
      BY CoreNumbers
    <3>3. c.sw + h - 1 \in agg_sws(k) /\ c.sw = (c.sw + h - 1) - h + 1
      <4>1. agg_sws(k) = h .. k - 1
        BY DEF agg_sws
      <4>. HIDE DEF h
      <4>. QED BY <3>1, <3>2, <4>1
    <3>4. a \in layer_nodes(k, LAYER_AGG) /\ a.pod = p /\ a.sw = c.sw + h - 1
      BY <3>3, LayerNodes DEF AggId, FatTreeNodeID
    <3>5. CoreAgg(k, c, a)
      BY <3>3, <3>4 DEF CoreAgg
    <3>. QED BY <3>4, <3>5, UpAndDown
  <2>. QED BY <2>1, <2>2
<1>7. ASSUME NEW a \in layer_nodes(k, LAYER_AGG)
      PROVE  down_nodes(k, a) = {EdgeId(a.pod, e) : e \in edge_sws(k)}
  BY AggsBetween
<1>. QED BY <1>3, <1>4, <1>5, <1>6, <1>7 DEF IsFatTreeOf, specs

-----------------------------------------------------------------------------
(* The network that is up mirrors the topology.  Link by link the pairs and  *)
(* the ports are there while the links are made, switch by switch the        *)
(* bridges while the switches are started, and what follows keeps them.      *)

PairsUp(S) ==
    \A l \in S : PairOf(l) \in veth /\ \A p \in veth : p.ends = Ends(l) => p = PairOf(l)
VethOK ==
    /\ pc = "links" => PairsUp(NetLinks \ todo)
    /\ pc \in Middle => PairsUp(NetLinks)

HasShell(h) == [node |-> h, gen |-> gen] \in shells
HostsUp ==
    /\ pc = "nodes" => \A h \in NetHosts : h \notin todo => HasShell(h)
    /\ pc \in Middle \union {"links"} => \A h \in NetHosts : HasShell(h)

PortsOf(n, S)    == {e[2] : e \in {d \in UNION {Ends(l) : l \in S} : d[1] = n}}
Added            == IF todo \subseteq NetHosts THEN NetHosts \ todo ELSE Node \ todo
Interfaces(n, S) == n \in DOMAIN intfs /\ intfs[n] = controlIntf(n) \union PortsOf(n, S)
IntfsOK ==
    /\ pc = "nodes" => \A n \in Added : Interfaces(n, {})
    /\ pc = "links" => \A n \in Node : Interfaces(n, NetLinks \ todo)
    /\ pc \in Middle => \A n \in Node : Interfaces(n, NetLinks)

BridgeOf(s)  == [dpid |-> defaultDpid(s), ports |-> [p \in PortsOf(s, NetLinks) |-> p]]
HasBridge(s) == s \in DOMAIN bridges /\ bridges[s] = BridgeOf(s)
BridgesOK ==
    /\ pc = "switches" => \A s \in NetSwitches \ todo : HasBridge(s)
    /\ SwitchesUp => \A s \in NetSwitches : HasBridge(s)

NetOK == VethOK /\ HostsUp /\ IntfsOK /\ BridgesOK

LEMMA NetIsKept ==
    ASSUME run' = run
    PROVE  /\ Node' = Node /\ NetLinks' = NetLinks /\ NetHosts' = NetHosts
           /\ NetSwitches' = NetSwitches
           /\ \A l : Ends(l)' = Ends(l)
           /\ \A n : controlIntf(n)' = controlIntf(n)
           /\ \A n, S : PortsOf(n, S)' = PortsOf(n, S)
           /\ \A s : BridgeOf(s)' = BridgeOf(s)
           /\ gen' = gen => \A l : PairOf(l)' = PairOf(l)
<1>1. /\ Node' = Node /\ NetLinks' = NetLinks /\ NetHosts' = NetHosts
      /\ NetSwitches' = NetSwitches /\ IsFatTree' = IsFatTree
  BY TopologyIsFixed DEF Node
<1>2. \A l : Ends(l)' = Ends(l)
  BY NetIsFixed
<1>3. \A n, S : PortsOf(n, S)' = PortsOf(n, S)
  BY DEF PortsOf, Ends
<1>4. \A s : BridgeOf(s)' = BridgeOf(s)
  BY DEF BridgeOf, PortsOf, Ends, NetLinks, defaultDpid, IsFatTree
<1>5. \A n : controlIntf(n)' = controlIntf(n)
  BY <1>1 DEF controlIntf
<1>6. gen' = gen => \A l : PairOf(l)' = PairOf(l)
  BY <1>2 DEF PairOf
<1>. QED BY <1>1, <1>2, <1>3, <1>4, <1>5, <1>6

(* The steps that build the network, and what the others leave of it. *)
Onward ==
    /\ UNCHANGED <<run, gen, intfs, shells, veth, bridges>>
    /\ \/ pc' = pc /\ todo' = todo
       \/ /\ pc \in Middle /\ pc' \in Middle
          /\ pc' = "switches" => todo' = NetSwitches
          /\ SwitchesUp' => SwitchesUp

LEMMA StageSteps ==
    ASSUME ControlOK, [Next]_vars
    PROVE  \/ pc' \notin {"nodes", "links"} \union Middle
           \/ pc' = "nodes" /\ todo' = NetHosts
           \/ AddNode \/ AddLink \/ OVSStart \/ OrphanShellsExit
           \/ Onward
<1>0. run' = run
  BY RunIsKept DEF vars
<1>3. CASE UNCHANGED vars
  BY <1>3 DEF vars, Onward
<1>4. CASE StartProgram \/ Crash
  BY <1>4 DEF StartProgram, Crash, Die, GoTo, Middle
<1>5. CASE AddController \/ AddRemoteController
  BY <1>5 DEF AddController, AddRemoteController, Die, GoTo, Middle
<1>6. CASE config
  <2>1. /\ pc = "hosts" /\ todo # {} /\ NextOf(First(todo), "start", {C0})
        /\ UNCHANGED <<gen, intfs, shells, veth, bridges>>
    BY <1>6 DEF config, osVars, ControlOK
  <2>2. pc' \in {"hosts", "start"}
    BY <2>1, NextOfCases
  <2>. QED BY <1>0, <2>1, <2>2 DEF Onward, Middle, SwitchesUp
<1>7. CASE StartController \/ StartRemoteController
  <2>1. /\ pc = "start" /\ pc' = "switches" /\ todo' = NetSwitches
        /\ UNCHANGED <<gen, intfs, shells, veth, bridges>>
    BY <1>7 DEF StartController, StartRemoteController, osVars, GoTo
  <2>. QED BY <1>0, <2>1 DEF Onward, Middle, SwitchesUp
<1>8. CASE batchStartup
  <2>1. pc = "batch" /\ pc' = "queues" /\ UNCHANGED <<gen, intfs, shells, veth, bridges>>
    BY <1>8 DEF batchStartup, GoTo
  <2>. QED BY <1>0, <2>1 DEF Onward, Middle, SwitchesUp
<1>9. CASE setupSwitchQueues \/ setupSwitchQueuesOfTest
  <2>1. /\ pc = "queues" /\ todo # {} /\ NextOf(FirstEnd(todo), "share", NetHosts)
        /\ UNCHANGED <<gen, intfs, shells, veth, bridges>>
    BY <1>9 DEF setupSwitchQueues, setupSwitchQueuesOfTest, SetQueues, ControlOK
  <2>2. pc' \in {"queues", "share"}
    BY <2>1, NextOfCases
  <2>. QED BY <1>0, <2>1, <2>2 DEF Onward, Middle, SwitchesUp
<1>10. CASE startBWShare \/ startBWShareOfTest
  <2>1. /\ pc = "share" /\ todo # {} /\ NextOf(First(todo), "test", {C0})
        /\ UNCHANGED <<gen, intfs, shells, veth, bridges>>
    BY <1>10 DEF startBWShare, startBWShareOfTest, StartAgent, ControlOK
  <2>2. pc' \in {"share", "test"}
    BY <2>1, NextOfCases
  <2>. QED BY <1>0, <2>1, <2>2 DEF Onward, Middle, SwitchesUp
<1>11. CASE StopController \/ StopRemoteController \/ batchShutdown \/ Cleanup
  <2>1. pc' \in {"delete", "terminate", "bridges", "interfaces", "stale", "killed", "off"}
    BY <1>11 DEF StopController, StopRemoteController, batchShutdown, Cleanup, CleanupProcesses,
       CleanupBridges, CleanupInterfaces, killprocs, pkill, KilledShellDies, pgrep, GoTo
  <2>. QED BY <2>1 DEF Middle
<1>12. CASE StopLink \/ TerminateHost
  <2>1. /\ pc \in {"delete", "terminate"} /\ todo # {}
        /\ \/ NextOf(FirstLink(todo), "shutdown", {C0})
           \/ NextOf(First(todo), "off", {})
    BY <1>12 DEF StopLink, TerminateHost, ControlOK
  <2>2. pc' \in {"delete", "shutdown", "terminate", "off"}
    BY <2>1, NextOfCases
  <2>. QED BY <2>2 DEF Middle
<1>. QED BY <1>3, <1>4, <1>5, <1>6, <1>7, <1>8, <1>9, <1>10, <1>11, <1>12
         DEF Next, Program, BuildNetwork, StartNetwork, Share, StopNetwork

LEMMA EndsAreInterfaces ==
    ASSUME run \in Runs, NEW l \in NetLinks, NEW e \in Ends(l)
    PROVE  /\ e = <<e[1], e[2]>> /\ e[1] \in {l[1], l[2]} /\ e[1] \in Node
           /\ e[2] = addPort(run.k, e[1], l) /\ e[2] \in Nat
           /\ e[1] \in NetSwitches => e[2] >= 1
<1>1. /\ Ends(l) = {<<l[1], addPort(run.k, l[1], l)>>, <<l[2], addPort(run.k, l[2], l)>>}
      /\ l[1] \in Node /\ l[2] \in Node
  BY EndsOfLink DEF Node
<1>2. run.k \in DegreesTried /\ l \in LinksOf(run.k) /\ NetSwitches = SwitchesOf(run.k)
  BY NetIsTopology
<1>3. \A n : /\ addPort(run.k, n, l) \in Nat
             /\ n \in NetSwitches => addPort(run.k, n, l) >= 1
  BY <1>2, AddPortCounts
<1>4. CASE e = <<l[1], addPort(run.k, l[1], l)>>
  BY <1>1, <1>3, <1>4
<1>5. CASE e = <<l[2], addPort(run.k, l[2], l)>>
  BY <1>1, <1>3, <1>5
<1>. QED BY <1>1, <1>4, <1>5

LEMMA VethStep ==
    ASSUME ControlOK, LeftInv, NetOK, [Next]_vars
    PROVE  VethOK'
<1>0. run' = run /\ run \in Runs
  BY RunIsKept DEF vars, ControlOK
<1>1. NetLinks' = NetLinks /\ NetHosts' = NetHosts /\ NetSwitches' = NetSwitches
      /\ \A l : Ends(l)' = Ends(l)
  BY <1>0, NetIsKept
<1>2. CASE pc' \notin {"links"} \union Middle
  BY <1>2 DEF VethOK, Middle
<1>3. CASE AddNode
  <2>1. /\ todo # {} /\ pc = "nodes"
        /\ \/ NextOf(First(todo), "nodes", NetSwitches)
           \/ NextOf(First(todo), "links", NetLinks)
    BY <1>3 DEF AddNode, ControlOK
  <2>2. pc' = "nodes" \/ (pc' = "links" /\ todo' = NetLinks)
    BY <2>1, NextOfCases
  <2>3. CASE pc' = "links" /\ todo' = NetLinks
    <3>1. (NetLinks \ todo)' = {}
      BY <1>1, <2>3
    <3>. QED BY <2>3, <3>1 DEF VethOK, PairsUp, Middle
  <2>. QED BY <1>2, <2>2, <2>3 DEF Middle
<1>4. CASE AddLink
  <2>. DEFINE l == FirstLink(todo)
              done == NetLinks \ (todo \ {l})
  <2>1. l \in todo /\ l \in NetLinks /\ todo # {} /\ todo \subseteq NetLinks /\ pc = "links"
    BY <1>4, FirstsAreThere DEF AddLink, ControlOK
  <2>2. CASE pc' = "off"
    BY <1>2, <2>2 DEF Middle
  <2>3. CASE pc' # "off"
    <3>1. /\ NextOf(l, "hosts", NetHosts) /\ UNCHANGED gen
          /\ veth' = (veth \ Taken(l)) \union {moveIntf(l, 0)}
      BY <1>4, <2>3 DEF AddLink, Die, GoTo
    <3>2. moveIntf(l, 0) = PairOf(l)
      BY DEF moveIntf, PairOf, Retries
    <3>3. PairOf(l) \in veth' /\ \A p \in veth' : p.ends = Ends(l) => p = PairOf(l)
      <4>1. \A p \in veth : p.ends = Ends(l) => p \in Taken(l)
        BY <1>0, <2>1, EndsOfLink DEF Taken
      <4>. QED BY <3>1, <3>2, <4>1
    <3>4. ASSUME NEW m \in done, m # l
          PROVE  PairOf(m) \in veth' /\ \A p \in veth' : p.ends = Ends(m) => p = PairOf(m)
      <4>1. m \in NetLinks \ todo
        BY <3>4
      <4>2. PairOf(m) \in veth /\ \A p \in veth : p.ends = Ends(m) => p = PairOf(m)
        BY <2>1, <4>1 DEF NetOK, VethOK, PairsUp
      <4>3. Ends(m) \intersect Ends(l) = {} /\ Ends(l) # {} /\ PairOf(m).ends = Ends(m)
            /\ PairOf(l).ends = Ends(l)
        BY <1>0, <2>1, <3>4, <4>1, EndsAreApart, EndsOfLink DEF PairOf
      <4>4. PairOf(m) \notin Taken(l)
        BY <4>3 DEF Taken
      <4>. QED BY <3>1, <3>2, <4>2, <4>3, <4>4
    <3>5. \A m \in done : PairOf(m)' \in veth' /\ \A p \in veth' : p.ends = Ends(m)' => p = PairOf(m)'
      BY <1>0, <1>1, <3>1, <3>3, <3>4, NetIsKept
    <3>6. \/ todo = {l} /\ pc' = "hosts"
          \/ todo' = todo \ {l} /\ pc' = "links"
      BY <2>1, <3>1, NextOfCases
    <3>7. CASE todo = {l} /\ pc' = "hosts"
      <4>1. done = NetLinks
        BY <3>7
      <4>. QED BY <1>1, <3>5, <3>7, <4>1 DEF VethOK, PairsUp
    <3>8. CASE todo' = todo \ {l} /\ pc' = "links"
      BY <1>1, <3>5, <3>8 DEF VethOK, PairsUp, Middle
    <3>. QED BY <3>6, <3>7, <3>8
  <2>. QED BY <2>2, <2>3
<1>5. CASE OVSStart
  <2>1. pc = "switches" /\ todo # {} /\ NextOf(First(todo), "batch", {C0}) /\ UNCHANGED <<gen, veth>>
    BY <1>5 DEF OVSStart, ControlOK
  <2>2. pc' \in {"switches", "batch"}
    BY <2>1, NextOfCases
  <2>. QED BY <1>0, <1>1, <2>1, <2>2, NetIsKept DEF NetOK, VethOK, PairsUp, Middle
<1>6. CASE OrphanShellsExit
  <2>1. /\ UNCHANGED <<gen, pc, todo>> /\ veth' = Present(veth, shells', procs)
        /\ shells' = {s \in shells : s.gen = gen /\ Running}
    BY <1>6 DEF OrphanShellsExit
  <2>2. ASSUME pc \in {"links"} \union Middle, NEW l \in NetLinks, PairOf(l) \in veth
        PROVE  PairOf(l) \in veth'
    <3>1. \A e \in Ends(l) : e[1] \in NetHosts \union NetSwitches
      BY <1>0, EndsAreInterfaces DEF Node
    <3>2. \A h \in NetHosts : HasShell(h)
      BY <2>2 DEF NetOK, HostsUp
    <3>3. Running
      BY <2>2 DEF Running, CleaningUp, Middle
    <3>4. \A h \in NetHosts : [node |-> h, gen |-> gen] \in shells'
      BY <2>1, <3>2, <3>3 DEF HasShell
    <3>5. PairOf(l).ends = Ends(l) /\ PairOf(l).gen = gen
      BY DEF PairOf
    <3>. QED BY <2>1, <2>2, <3>1, <3>4, <3>5 DEF Present, Alive
  <2>3. veth' \subseteq veth
    BY <2>1, PresentIsLess
  <2>. QED BY <1>0, <1>1, <2>1, <2>2, <2>3, NetIsKept DEF NetOK, VethOK, PairsUp
<1>7. CASE Onward
  BY <1>0, <1>1, <1>7, NetIsKept DEF Onward, NetOK, VethOK, PairsUp
<1>. QED BY <1>2, <1>3, <1>4, <1>5, <1>6, <1>7, StageSteps DEF Middle

LEMMA HostsUpStep ==
    ASSUME ControlOK, NetOK, [Next]_vars
    PROVE  HostsUp'
<1>0. run' = run /\ run \in Runs /\ HostsUp
  BY RunIsKept DEF vars, ControlOK, NetOK
<1>1. NetHosts' = NetHosts /\ NetHosts \intersect NetSwitches = {}
  BY <1>0, NetIsKept, NetIsTopology, TopologyNodes DEF NodesOK
<1>2. CASE pc' \notin {"nodes", "links"} \union Middle
  BY <1>2 DEF HostsUp, Middle
<1>3. CASE pc' = "nodes" /\ todo' = NetHosts
  BY <1>1, <1>3 DEF HostsUp, Middle
<1>4. CASE AddNode
  <2>. DEFINE n == First(todo)
  <2>1. /\ todo # {} /\ pc = "nodes" /\ (todo \subseteq NetHosts \/ todo \subseteq NetSwitches)
        /\ n \in todo /\ gen' = gen /\ shells' = shells \union {[node |-> n, gen |-> gen]}
        /\ IF n \in NetHosts THEN NextOf(n, "nodes", NetSwitches) ELSE NextOf(n, "links", NetLinks)
    BY <1>4, FirstsAreThere DEF AddNode, StartShell, ControlOK
  <2>. HIDE DEF n
  <2>2. \A h \in NetHosts : h \notin todo \/ h = n => HasShell(h)'
    BY <1>0, <2>1 DEF HostsUp, HasShell
  <2>3. CASE todo \subseteq NetHosts
    <3>1. NextOf(n, "nodes", NetSwitches)
      BY <2>1, <2>3
    <3>2. pc' = "nodes" /\ (todo = {n} \/ todo' = todo \ {n})
      BY <2>1, <3>1, NextOfCases
    <3>. QED BY <1>1, <2>2, <3>2 DEF HostsUp, Middle
  <2>4. CASE todo \subseteq NetSwitches
    <3>1. \A h \in NetHosts : HasShell(h)'
      BY <1>1, <2>2, <2>4
    <3>2. NextOf(n, "links", NetLinks)
      BY <1>1, <2>1, <2>4
    <3>3. pc' \in {"nodes", "links"}
      BY <2>1, <3>2, NextOfCases
    <3>. QED BY <1>1, <3>1, <3>3 DEF HostsUp, Middle
  <2>. QED BY <2>1, <2>3, <2>4
<1>5. CASE AddLink
  <2>1. /\ todo # {} /\ pc = "links" /\ UNCHANGED <<gen, shells>>
        /\ Die("exists") \/ Die("move") \/ NextOf(FirstLink(todo), "hosts", NetHosts)
    BY <1>5 DEF AddLink, ControlOK
  <2>2. pc' \in {"off", "links", "hosts"}
    BY <2>1, NextOfCases DEF Die, GoTo
  <2>. QED BY <1>0, <1>1, <2>1, <2>2 DEF HostsUp, HasShell, Middle
<1>6. CASE OVSStart
  <2>1. pc = "switches" /\ todo # {} /\ NextOf(First(todo), "batch", {C0}) /\ UNCHANGED <<gen, shells>>
    BY <1>6 DEF OVSStart, ControlOK
  <2>2. pc' \in {"switches", "batch"}
    BY <2>1, NextOfCases
  <2>. QED BY <1>0, <1>1, <2>1, <2>2 DEF HostsUp, HasShell, Middle
<1>7. CASE OrphanShellsExit
  <2>1. /\ UNCHANGED <<gen, pc, todo>>
        /\ shells' = {s \in shells : s.gen = gen /\ Running}
    BY <1>7 DEF OrphanShellsExit
  <2>2. pc \in {"nodes", "links"} \union Middle => Running
    BY DEF Running, CleaningUp, Middle
  <2>. QED BY <1>0, <1>1, <2>1, <2>2 DEF HostsUp, HasShell, Middle
<1>8. CASE Onward
  BY <1>0, <1>1, <1>8 DEF Onward, HostsUp, HasShell, Middle
<1>. QED BY <1>2, <1>3, <1>4, <1>5, <1>6, <1>7, <1>8, StageSteps

LEMMA InterfacesStay ==
    ASSUME run' = run, intfs' = intfs, NEW n, NEW S
    PROVE  Interfaces(n, S)' = Interfaces(n, S)
BY NetIsKept DEF Interfaces

LEMMA PortsGrow ==
    ASSUME NEW n, NEW S, NEW l
    PROVE  PortsOf(n, S \union {l}) = PortsOf(n, S) \union {e[2] : e \in {d \in Ends(l) : d[1] = n}}
<1>1. \A e : e \in UNION {Ends(m) : m \in S \union {l}} <=>
                e \in UNION {Ends(m) : m \in S} \/ e \in Ends(l)
  <2>. DEFINE E(m) == Ends(m)
  <2>. HIDE DEF E
  <2>1. \A e : e \in UNION {E(m) : m \in S \union {l}} <=> e \in UNION {E(m) : m \in S} \/ e \in E(l)
    OBVIOUS
  <2>. QED BY <2>1 DEF E
<1>. QED BY <1>1 DEF PortsOf

LEMMA IntfsStep ==
    ASSUME ControlOK, NetOK, [Next]_vars
    PROVE  IntfsOK'
<1>0. run' = run /\ run \in Runs /\ IntfsOK
  BY RunIsKept DEF vars, ControlOK, NetOK
<1>1. /\ NetHosts' = NetHosts /\ NetSwitches' = NetSwitches /\ Node' = Node /\ NetLinks' = NetLinks
      /\ NetHosts \intersect NetSwitches = {} /\ NetHosts # {} /\ NetSwitches # {}
      /\ Node = NetHosts \union NetSwitches
  BY <1>0, NetIsKept, NetIsTopology, TopologyNodes DEF NodesOK, Node
<1>k. /\ \A n : controlIntf(n)' = controlIntf(n)
      /\ \A n, S : PortsOf(n, S)' = PortsOf(n, S)
  BY <1>0, NetIsKept
<1>2. CASE pc' \notin {"nodes", "links"} \union Middle
  BY <1>2 DEF IntfsOK, Middle
<1>3. CASE pc' = "nodes" /\ todo' = NetHosts
  <2>1. Added' = {}
    BY <1>1, <1>3 DEF Added
  <2>. QED BY <1>3, <2>1 DEF IntfsOK, Middle
<1>4. CASE AddNode
  <2>. DEFINE n == First(todo)
  <2>1. /\ todo # {} /\ pc = "nodes" /\ (todo \subseteq NetHosts \/ todo \subseteq NetSwitches)
        /\ n \in todo /\ intfs' = With(intfs, n, controlIntf(n))
        /\ IF n \in NetHosts THEN NextOf(n, "nodes", NetSwitches) ELSE NextOf(n, "links", NetLinks)
    BY <1>4, FirstsAreThere DEF AddNode, ControlOK
  <2>. HIDE DEF n
  <2>2. PortsOf(n, {}) = {}
    BY DEF PortsOf
  <2>3. \A x \in Added \union {n} : x \in DOMAIN intfs' /\ intfs'[x] = controlIntf(x) \union PortsOf(x, {})
    <3>1. \A x \in Added : x \in DOMAIN intfs /\ intfs[x] = controlIntf(x) \union PortsOf(x, {})
      BY <1>0, <2>1 DEF IntfsOK, Interfaces
    <3>2. n \in DOMAIN intfs' /\ intfs'[n] = controlIntf(n)
      BY <2>1 DEF With, WithAll
    <3>3. \A x \in DOMAIN intfs \ {n} : x \in DOMAIN intfs' /\ intfs'[x] = intfs[x]
      BY <2>1 DEF With, WithAll
    <3>. QED BY <2>2, <3>1, <3>2, <3>3
  <2>4. \A x \in Added \union {n} : Interfaces(x, {})'
    BY <1>k, <2>3 DEF Interfaces
  <2>5. CASE todo \subseteq NetHosts
    <3>1. NextOf(n, "nodes", NetSwitches)
      BY <2>1, <2>5
    <3>2. \/ todo = {n} /\ pc' = "nodes" /\ todo' = NetSwitches
          \/ todo' # {} /\ todo' = todo \ {n} /\ pc' = "nodes"
      BY <2>1, <3>1, NextOfCases
    <3>3. Added' \subseteq Added \union {n}
      BY <1>1, <2>5, <3>2 DEF Added
    <3>. QED BY <2>4, <3>2, <3>3 DEF IntfsOK, Middle
  <2>6. CASE todo \subseteq NetSwitches
    <3>1. NextOf(n, "links", NetLinks)
      BY <1>1, <2>1, <2>6
    <3>2. \/ todo = {n} /\ pc' = "links" /\ todo' = NetLinks
          \/ todo' # {} /\ todo' = todo \ {n} /\ pc' = "nodes"
      BY <2>1, <3>1, NextOfCases
    <3>3. Added = Node \ todo
      BY <1>1, <2>1, <2>6 DEF Added
    <3>4. CASE todo = {n} /\ pc' = "links" /\ todo' = NetLinks
      <4>1. (NetLinks \ todo)' = {} /\ \A x \in Node : x \in Added \union {n}
        BY <1>1, <3>3, <3>4
      <4>2. \A x \in Node : Interfaces(x, {})'
        BY <2>4, <4>1
      <4>3. \A x \in Node : Interfaces(x, NetLinks \ todo)'
        BY <1>k, <4>1, <4>2 DEF Interfaces
      <4>. QED BY <1>1, <3>4, <4>3 DEF IntfsOK, Middle
    <3>5. CASE todo' # {} /\ todo' = todo \ {n} /\ pc' = "nodes"
      <4>1. Added' \subseteq Added \union {n}
        BY <1>1, <2>6, <3>3, <3>5 DEF Added
      <4>. QED BY <2>4, <3>5, <4>1 DEF IntfsOK, Middle
    <3>. QED BY <3>2, <3>4, <3>5
  <2>. QED BY <2>1, <2>5, <2>6
<1>5. CASE AddLink
  <2>. DEFINE l == FirstLink(todo)
              done == NetLinks \ (todo \ {l})
  <2>1. l \in todo /\ l \in NetLinks /\ todo # {} /\ todo \subseteq NetLinks /\ pc = "links"
    BY <1>5, FirstsAreThere DEF AddLink, ControlOK
  <2>2. CASE pc' = "off"
    BY <1>2, <2>2 DEF Middle
  <2>3. CASE pc' # "off"
    <3>1. NextOf(l, "hosts", NetHosts) /\ intfs' = addIntf(l)
      BY <1>5, <2>3 DEF AddLink, Die, GoTo
    <3>2. ASSUME NEW n \in Node
          PROVE  n \in DOMAIN intfs' /\ intfs'[n] = controlIntf(n) \union PortsOf(n, done)
      <4>. DEFINE new == {e[2] : e \in {d \in Ends(l) : d[1] = n}}
      <4>1. n \in DOMAIN intfs /\ intfs[n] = controlIntf(n) \union PortsOf(n, NetLinks \ todo)
        BY <1>0, <2>1 DEF IntfsOK, Interfaces
      <4>2. n \in DOMAIN intfs' /\ intfs'[n] = intfs[n] \union new
        BY <3>1, <4>1 DEF addIntf
      <4>3. PortsOf(n, done) = PortsOf(n, NetLinks \ todo) \union new
        <5>1. done = (NetLinks \ todo) \union {l}
          BY <2>1
        <5>. HIDE DEF done, l
        <5>. QED BY <5>1, PortsGrow
      <4>. QED BY <4>1, <4>2, <4>3
    <3>3. \A n \in Node : n \in DOMAIN intfs' /\ intfs'[n] = controlIntf(n)' \union PortsOf(n, done)
      BY <1>k, <3>2
    <3>4. \/ todo = {l} /\ pc' = "hosts"
          \/ todo' = todo \ {l} /\ pc' = "links"
      BY <2>1, <3>1, NextOfCases
    <3>5. CASE todo = {l} /\ pc' = "hosts"
      <4>1. done = NetLinks
        BY <3>5
      <4>2. \A n \in Node : Interfaces(n, NetLinks)'
        BY <1>1, <1>k, <3>3, <4>1 DEF Interfaces
      <4>. QED BY <1>1, <3>5, <4>2 DEF IntfsOK, Middle
    <3>6. CASE todo' = todo \ {l} /\ pc' = "links"
      <4>1. done = (NetLinks \ todo)'
        BY <1>1, <3>6
      <4>2. \A n \in Node : Interfaces(n, NetLinks \ todo)'
        BY <1>k, <3>3, <4>1 DEF Interfaces
      <4>. QED BY <1>1, <3>6, <4>2 DEF IntfsOK, Middle
    <3>. QED BY <3>4, <3>5, <3>6
  <2>. QED BY <2>2, <2>3
<1>6. CASE OVSStart
  <2>1. pc = "switches" /\ todo # {} /\ NextOf(First(todo), "batch", {C0}) /\ UNCHANGED intfs
    BY <1>6 DEF OVSStart, ControlOK
  <2>2. pc' \in {"switches", "batch"}
    BY <2>1, NextOfCases
  <2>3. \A n, S : Interfaces(n, S)' = Interfaces(n, S)
    BY <1>0, <2>1, InterfacesStay
  <2>4. \A n \in Node : Interfaces(n, NetLinks)'
    BY <1>0, <1>1, <2>1, <2>3 DEF IntfsOK, Middle
  <2>. QED BY <1>1, <2>2, <2>4 DEF IntfsOK, Middle
<1>7. CASE Onward \/ OrphanShellsExit
  <2>1. UNCHANGED intfs /\ (UNCHANGED <<pc, todo>> \/ (pc \in Middle /\ pc' \in Middle))
    BY <1>7 DEF Onward, OrphanShellsExit
  <2>2. \A n, S : Interfaces(n, S)' = Interfaces(n, S)
    BY <1>0, <2>1, InterfacesStay
  <2>3. CASE UNCHANGED <<pc, todo>>
    <3>1. Added' = Added
      BY <1>1, <2>3 DEF Added
    <3>. QED BY <1>0, <1>1, <2>2, <2>3, <3>1 DEF IntfsOK
  <2>4. CASE pc \in Middle /\ pc' \in Middle
    BY <1>0, <1>1, <2>2, <2>4 DEF IntfsOK, Middle
  <2>. QED BY <2>1, <2>3, <2>4
<1>. QED BY <1>2, <1>3, <1>4, <1>5, <1>6, <1>7, StageSteps

LEMMA PortsOfSwitch ==
    ASSUME run \in Runs, NEW s \in NetSwitches
    PROVE  /\ PortsOf(s, NetLinks) = {addPort(run.k, s, l) : l \in LinksAt(run.k, s)}
           /\ \A p \in PortsOf(s, NetLinks) : p \in Nat /\ p # 0
           /\ \A p : p \in PortsOf(s, NetLinks) <=> <<s, p>> \in SwitchEnds
           /\ \A e \in SwitchEnds : e = <<e[1], e[2]>>
<1>1. /\ NetLinks = LinksOf(run.k)
      /\ SwitchEnds = {e \in UNION {Ends(l) : l \in NetLinks} : e[1] \in NetSwitches}
  BY NetIsTopology, SwitchEndsAre
<1>2. ASSUME NEW l \in LinksAt(run.k, s)
      PROVE  l \in NetLinks /\ <<s, addPort(run.k, s, l)>> \in Ends(l)
  BY <1>1, EndsOfLink DEF LinksAt
<1>3. ASSUME NEW l \in NetLinks, NEW e \in Ends(l), e[1] = s
      PROVE  /\ l \in LinksAt(run.k, s) /\ e = <<s, addPort(run.k, s, l)>>
             /\ e[2] = addPort(run.k, s, l) /\ e[2] \in Nat /\ e[2] # 0
  BY <1>1, <1>3, EndsAreInterfaces DEF LinksAt
<1>4. \A p : p \in PortsOf(s, NetLinks) <=> \E l \in NetLinks : \E e \in Ends(l) : e[1] = s /\ p = e[2]
  BY DEF PortsOf
<1>5. ASSUME NEW p
      PROVE  p \in PortsOf(s, NetLinks) <=> \E l \in LinksAt(run.k, s) : p = addPort(run.k, s, l)
  <2>1. ASSUME p \in PortsOf(s, NetLinks)
        PROVE  \E l \in LinksAt(run.k, s) : p = addPort(run.k, s, l)
    BY <1>3, <1>4, <2>1
  <2>2. ASSUME NEW l \in LinksAt(run.k, s), p = addPort(run.k, s, l)
        PROVE  p \in PortsOf(s, NetLinks)
    <3>. DEFINE e == <<s, addPort(run.k, s, l)>>
    <3>1. l \in NetLinks /\ e \in Ends(l) /\ e[1] = s /\ p = e[2]
      BY <1>2, <2>2
    <3>. HIDE DEF e
    <3>. QED BY <1>4, <3>1
  <2>. QED BY <2>1, <2>2
<1>6. \A p \in PortsOf(s, NetLinks) : p \in Nat /\ p # 0
  BY <1>3, <1>4
<1>7. ASSUME NEW p
      PROVE  p \in PortsOf(s, NetLinks) <=> <<s, p>> \in SwitchEnds
  <2>1. ASSUME p \in PortsOf(s, NetLinks) PROVE <<s, p>> \in SwitchEnds
    <3>1. PICK l \in NetLinks : \E e \in Ends(l) : e[1] = s /\ p = e[2]
      BY <1>4, <2>1
    <3>2. PICK e \in Ends(l) : e[1] = s /\ p = e[2]
      BY <3>1
    <3>3. e = <<s, p>> /\ <<s, p>>[1] = s
      BY <1>3, <3>1, <3>2
    <3>. QED BY <1>1, <3>1, <3>2, <3>3
  <2>2. ASSUME <<s, p>> \in SwitchEnds PROVE p \in PortsOf(s, NetLinks)
    <3>1. PICK l \in NetLinks : <<s, p>> \in Ends(l)
      BY <1>1, <2>2
    <3>2. <<s, p>>[1] = s /\ <<s, p>>[2] = p
      OBVIOUS
    <3>. QED BY <1>4, <3>1, <3>2
  <2>. QED BY <2>1, <2>2
<1>8. \A e \in SwitchEnds : e = <<e[1], e[2]>>
  BY <1>1, EndsAreInterfaces
<1>. QED BY <1>5, <1>6, <1>7, <1>8

LEMMA BridgesStep ==
    ASSUME ControlOK, NetOK, [Next]_vars
    PROVE  BridgesOK'
<1>0. run' = run /\ run \in Runs /\ BridgesOK /\ IntfsOK
  BY RunIsKept DEF vars, ControlOK, NetOK
<1>1. NetSwitches' = NetSwitches /\ \A s : BridgeOf(s)' = BridgeOf(s)
  BY <1>0, NetIsKept
<1>2. CASE pc' \notin Middle
  BY <1>2 DEF BridgesOK, SwitchesUp, Middle
<1>3. CASE AddNode
  <2>1. /\ todo # {} /\ pc = "nodes"
        /\ \/ NextOf(First(todo), "nodes", NetSwitches)
           \/ NextOf(First(todo), "links", NetLinks)
    BY <1>3 DEF AddNode, ControlOK
  <2>2. pc' \in {"nodes", "links"}
    BY <2>1, NextOfCases
  <2>. QED BY <1>2, <2>2 DEF Middle
<1>4. CASE AddLink
  <2>1. /\ todo # {} /\ pc = "links"
        /\ Die("exists") \/ Die("move") \/ NextOf(FirstLink(todo), "hosts", NetHosts)
    BY <1>4 DEF AddLink, ControlOK
  <2>2. pc' \in {"off", "links", "hosts"}
    BY <2>1, NextOfCases DEF Die, GoTo
  <2>. QED BY <2>2 DEF BridgesOK, SwitchesUp
<1>5. CASE OVSStart
  <2>. DEFINE s == First(todo)
  <2>1. /\ pc = "switches" /\ todo # {} /\ todo \subseteq NetSwitches /\ NextOf(s, "batch", {C0})
        /\ bridges' = With(bridges, s, bridgeOpts(s))
    BY <1>5 DEF OVSStart, ControlOK
  <2>2. s \in todo /\ s \in NetSwitches
    BY <2>1, FirstsAreThere
  <2>. HIDE DEF s
  <2>3. DataPorts(s) = PortsOf(s, NetLinks)
    <3>1. intfs[s] = {0} \union PortsOf(s, NetLinks)
      BY <1>0, <2>1, <2>2 DEF IntfsOK, Interfaces, controlIntf, Middle, Node
    <3>. QED BY <1>0, <2>2, <3>1, PortsOfSwitch DEF DataPorts
  <2>4. bridgeOpts(s) = BridgeOf(s)
    BY <2>3 DEF bridgeOpts, BridgeOf, intfOpts
  <2>5. s \in DOMAIN bridges' /\ bridges'[s] = BridgeOf(s)
    BY <2>1, <2>4 DEF With, WithAll
  <2>6. \A t \in DOMAIN bridges \ {s} : t \in DOMAIN bridges' /\ bridges'[t] = bridges[t]
    BY <2>1 DEF With, WithAll
  <2>7. \A t \in NetSwitches \ (todo \ {s}) : HasBridge(t)'
    BY <1>0, <1>1, <2>1, <2>5, <2>6 DEF BridgesOK, HasBridge
  <2>8. \/ todo = {s} /\ pc' = "batch"
        \/ todo' = todo \ {s} /\ pc' = "switches"
    BY <2>1, NextOfCases
  <2>9. CASE todo = {s} /\ pc' = "batch"
    BY <1>1, <2>7, <2>9 DEF BridgesOK
  <2>10. CASE todo' = todo \ {s} /\ pc' = "switches"
    BY <1>1, <2>7, <2>10 DEF BridgesOK, SwitchesUp
  <2>. QED BY <2>8, <2>9, <2>10
<1>6. CASE OrphanShellsExit
  <2>1. UNCHANGED <<pc, todo, bridges>>
    BY <1>6 DEF OrphanShellsExit
  <2>. QED BY <1>0, <1>1, <2>1 DEF BridgesOK, HasBridge, SwitchesUp
<1>7. CASE Onward
  <2>1. UNCHANGED bridges /\ \A s : HasBridge(s)' = HasBridge(s)
    BY <1>1, <1>7 DEF Onward, HasBridge
  <2>2. CASE pc' = pc /\ todo' = todo
    BY <1>0, <1>1, <2>1, <2>2 DEF BridgesOK, SwitchesUp
  <2>3. CASE ~(pc' = pc /\ todo' = todo)
    <3>1. (pc' = "switches" => todo' = NetSwitches) /\ (SwitchesUp' => SwitchesUp)
      BY <1>7, <2>3 DEF Onward
    <3>2. (NetSwitches \ todo)' = NetSwitches \ todo'
      BY <1>1
    <3>. QED BY <1>0, <1>1, <2>1, <3>1, <3>2 DEF BridgesOK
  <2>. QED BY <2>2, <2>3
<1>. QED BY <1>2, <1>3, <1>4, <1>5, <1>6, <1>7, StageSteps DEF Middle

LEMMA SwitchesDiffer ==
    ASSUME run \in Runs, \A k \in PodCounts : k <= 255,
           NEW s \in NetSwitches, NEW t \in NetSwitches, s # t
    PROVE  defaultDpid(s) # defaultDpid(t)
<1>. DEFINE k == run.k
<1>0. k \in DegreesTried /\ NetSwitches = SwitchesOf(k)
  BY NetIsTopology
<1>1. CASE IsFatTree
  <2>1. k \in 0 .. 255 /\ k # 0
    BY <1>1, NetIsTopology
  <2>2. s \in Nodes(k) /\ t \in Nodes(k)
    BY <1>0, <2>1, TopologyOfDegree DEF Switches
  <2>3. idOfDpid(dpid(s)) = s /\ idOfDpid(dpid(t)) = t
    BY <2>1, <2>2, DpidRoundTrip
  <2>4. dpid(s) # dpid(t)
    BY <2>3
  <2>5. defaultDpid(s) = dpid(s) /\ defaultDpid(t) = dpid(t)
    BY <1>1 DEF defaultDpid, def_nopts
  <2>. QED BY <2>4, <2>5
<1>2. CASE ~IsFatTree
  <2>1. k = 0
    BY <1>2, NetIsTopology
  <2>2. NetSwitches = {S1}
    BY <1>0, <2>1, TopologyOfDegree
  <2>. QED BY <2>2
<1>. QED BY <1>1, <1>2

LEMMA PortsAreMany ==
    ASSUME run \in Runs, NEW s \in NetSwitches
    PROVE  Cardinality(PortsOf(s, NetLinks)) = Cardinality({l \in NetLinks : s \in {l[1], l[2]}})
<1>. DEFINE L == LinksAt(run.k, s)
            f == [l \in L |-> addPort(run.k, s, l)]
<1>1. run.k \in DegreesTried /\ L = {l \in NetLinks : s \in {l[1], l[2]}}
  BY NetIsTopology DEF LinksAt
<1>2. IsFiniteSet(L)
  BY <1>1, TopologyIsFinite, FS_Subset DEF LinksAt
<1>3. \A l \in L, m \in L : addPort(run.k, s, l) = addPort(run.k, s, m) => l = m
  BY <1>1, AddPortIsUnique
<1>4. PortsOf(s, NetLinks) = {addPort(run.k, s, l) : l \in L}
  BY PortsOfSwitch
<1>5. Names(f, L, PortsOf(s, NetLinks))
  <2>1. \A l \in L : f[l] = addPort(run.k, s, l)
    OBVIOUS
  <2>. HIDE DEF f, L
  <2>. QED BY <1>3, <1>4, <2>1 DEF Names
<1>. HIDE DEF f, L
<1>. QED BY <1>1, <1>2, <1>5, AsMany

NetInv == ControlOK /\ LeftInv /\ NetOK

LEMMA NetInvInit == Init => NetInv
<1>1. Init => run \in Runs /\ gen = 0 /\ pc = "off"
  BY Zenon DEF Init
<1>2. Init => shells = {} /\ procs = {} /\ veth = {} /\ bridges = <<>>
  BY Zenon DEF Init
<1>3. DOMAIN <<>> = {}
  OBVIOUS
<1>4. Init => ControlOK
  BY <1>1 DEF ControlOK, Stages, Running, CleaningUp
<1>5. Init => LeftInv
  BY <1>1, <1>2, <1>3 DEF LeftInv, ShellsOK, ProcsOK, PairsOK, ShellsLeft, ProcsLeft, PairsLeft,
     BridgesLeft, Stopped
<1>6. Init => NetOK
  BY <1>1 DEF NetOK, VethOK, HostsUp, IntfsOK, BridgesOK, SwitchesUp, Middle
<1>. QED BY <1>4, <1>5, <1>6 DEF NetInv

LEMMA NetInvStep == NetInv /\ [Next]_vars => NetInv'
BY ControlStep, LeftStep, VethStep, HostsUpStep, IntfsStep, BridgesStep DEF NetInv, NetOK

(* Once the switches are started, every link is one pair of interfaces of   *)
(* this run, whatever earlier programs left, its ends are ports of the      *)
(* bridges with the numbers the topology gives them, the bridges have no    *)
(* other port, and no two have the same dpid, which holds the numbers of a  *)
(* node in eight bits each (OVSSwitch.start, intfOpts, makeIntfPair, dpid). *)
THEOREM BridgesAlwaysMirrorTheTopology ==
    ASSUME \A k \in PodCounts : k <= 255
    PROVE  Spec => []BridgesMirrorTheTopology
<1>1. NetInv => BridgesMirrorTheTopology
  <2>. SUFFICES ASSUME NetInv, SwitchesUp PROVE BridgesMirrorTheTopology
    BY DEF BridgesMirrorTheTopology
  <2>0. run \in Runs /\ pc \in Middle
    BY DEF NetInv, ControlOK, SwitchesUp, Middle
  <2>1. /\ PairsUp(NetLinks) /\ PairsOK
        /\ \A s \in NetSwitches : HasBridge(s)
    BY <2>0 DEF NetInv, NetOK, VethOK, BridgesOK, LeftInv
  <2>2. ASSUME NEW l \in NetLinks
        PROVE  PairOf(l) \in veth /\ Taken(l) = {PairOf(l)}
    <3>1. PairOf(l) \in veth /\ \A p \in veth : p.ends = Ends(l) => p = PairOf(l)
      BY <2>1 DEF PairsUp
    <3>2. PairOf(l).ends = Ends(l) /\ Ends(l) \intersect SwitchEnds # {}
      BY <2>0, EndsOfLink DEF PairOf
    <3>3. \A m \in NetLinks : m # l => Ends(m) \intersect Ends(l) = {}
      BY <2>0, EndsAreApart
    <3>4. \A p \in veth : \E m \in NetLinks : p.ends = Ends(m)
      BY <2>1 DEF PairsOK
    <3>. QED BY <3>1, <3>2, <3>3, <3>4 DEF Taken
  <2>3. ASSUME NEW s \in NetSwitches
        PROVE  /\ s \in DOMAIN bridges
               /\ bridges[s].dpid = defaultDpid(s)
               /\ DOMAIN bridges[s].ports = PortsOf(s, NetLinks)
               /\ \A p \in PortsOf(s, NetLinks) : bridges[s].ports[p] = p
    <3>1. s \in DOMAIN bridges /\ bridges[s] = BridgeOf(s)
      BY <2>1 DEF HasBridge
    <3>. DEFINE ports == [p \in PortsOf(s, NetLinks) |-> p]
    <3>2. BridgeOf(s).dpid = defaultDpid(s) /\ BridgeOf(s).ports = ports
      BY DEF BridgeOf
    <3>3. DOMAIN ports = PortsOf(s, NetLinks) /\ \A p \in PortsOf(s, NetLinks) : ports[p] = p
      OBVIOUS
    <3>. HIDE DEF ports
    <3>. QED BY <3>1, <3>2, <3>3
  <2>4. ASSUME NEW s \in NetSwitches
        PROVE  {<<s, p>> : p \in PortsOf(s, NetLinks)} = {e \in SwitchEnds : e[1] = s}
    <3>1. /\ \A p : p \in PortsOf(s, NetLinks) <=> <<s, p>> \in SwitchEnds
          /\ \A e \in SwitchEnds : e = <<e[1], e[2]>>
      BY <2>0, PortsOfSwitch
    <3>2. \A p : <<s, p>>[1] = s /\ <<s, p>>[2] = p
      OBVIOUS
    <3>3. ASSUME NEW e, e \in SwitchEnds, e[1] = s
          PROVE  \E p \in PortsOf(s, NetLinks) : e = <<s, p>>
      BY <3>1, <3>3
    <3>4. \A p \in PortsOf(s, NetLinks) : <<s, p>> \in {e \in SwitchEnds : e[1] = s}
      BY <3>1, <3>2
    <3>. QED BY <3>3, <3>4
  <2>5. ASSUME NEW s \in NetSwitches
        PROVE  Cardinality(PortsOf(s, NetLinks)) = Cardinality({l \in NetLinks : s \in {l[1], l[2]}})
    BY <2>0, PortsAreMany
  <2>6. ASSUME NEW s \in NetSwitches, NEW t \in NetSwitches \ {s}
        PROVE  bridges[t].dpid # bridges[s].dpid
    <3>1. defaultDpid(s) # defaultDpid(t)
      BY <2>0, SwitchesDiffer
    <3>. QED BY <2>3, <3>1
  <2>7. ASSUME NEW s \in NetSwitches
        PROVE  LET ports == bridges[s].ports
               IN  /\ \A p \in DOMAIN ports : ports[p] = p
                   /\ {<<s, p>> : p \in DOMAIN ports} = {e \in SwitchEnds : e[1] = s}
                   /\ Cardinality(DOMAIN ports) = Cardinality({l \in NetLinks : s \in {l[1], l[2]}})
    BY <2>3, <2>4, <2>5
  <2>. QED BY <2>2, <2>3, <2>6, <2>7 DEF BridgesMirrorTheTopology
<1>. QED BY <1>1, NetInvInit, NetInvStep, PTL DEF Spec

(* What is started from an even --pod is a fat tree. *)
THEOREM TheTopologyIsAlwaysAFatTree == Spec => []TheTopologyIsAFatTree
<1>1. ControlOK => TheTopologyIsAFatTree
  <2>. SUFFICES ASSUME ControlOK, IsFatTree, run.k % 2 = 0 PROVE IsFatTreeOf(run.k)
    BY DEF TheTopologyIsAFatTree
  <2>1. run.k \in Nat /\ run.k >= 2
    BY NetIsTopology DEF ControlOK
  <2>. QED BY <2>1, EvenDegreesMakeFatTrees
<1>. QED BY <1>1, ControlIsOK, PTL

-----------------------------------------------------------------------------
(* The types: what every program and every clean-up adds to the tables are   *)
(* nodes and interfaces of its topology, and a node has no more ports than   *)
(* there are other nodes.                                                    *)

TablesOK ==
    /\ DOMAIN intfs \subseteq Node
    /\ \A n \in DOMAIN intfs : intfs[n] \subseteq {0} \union PortsOf(n, NetLinks)
    /\ DOMAIN addr \subseteq NetHosts
    /\ DOMAIN tc \subseteq SwitchEnds

GenOK  == gen \in 0 .. MaxRuns
DiedOK == died \in {"", "crashed", "exists", "listening", "move"}

LEMMA DiedStep ==
    ASSUME DiedOK, [Next]_vars
    PROVE  DiedOK'
<1>1. \/ died' = died \/ StartProgram
      \/ Die("exists") \/ Die("listening") \/ Die("move") \/ Die("crashed")
  BY DEF vars, Next, Program, BuildNetwork, StartNetwork, Share, StopNetwork, Crash,
         OrphanShellsExit, Cleanup, AddController, AddRemoteController, AddNode, AddLink, config,
         StartController, StartRemoteController, OVSStart, batchStartup, setupSwitchQueues,
         setupSwitchQueuesOfTest, SetQueues, startBWShare, startBWShareOfTest, StartAgent,
         StopController, StopRemoteController, StopLink, batchShutdown, TerminateHost,
         CleanupProcesses, CleanupBridges, CleanupInterfaces,
         killprocs, pkill, KilledShellDies, pgrep
<1>. QED BY <1>1, Zenon DEF DiedOK, StartProgram, Die

LEMMA GenStep ==
    ASSUME GenOK, [Next]_vars
    PROVE  GenOK'
<1>1. CASE StartProgram
  <2>1. gen < MaxRuns /\ gen' = gen + 1
    BY <1>1, Zenon DEF StartProgram
  <2>. QED BY <2>1, MaxRunsAssumption DEF GenOK
<1>2. CASE ~StartProgram
  <2>1. gen' = gen
    BY <1>2 DEF vars, Next, Program, BuildNetwork, StartNetwork, Share, StopNetwork, Crash,
       OrphanShellsExit, Cleanup, AddController, AddRemoteController, AddNode, AddLink, config,
       StartController, StartRemoteController, OVSStart, batchStartup, setupSwitchQueues,
       setupSwitchQueuesOfTest, SetQueues, startBWShare, startBWShareOfTest, StartAgent,
       StopController, StopRemoteController, StopLink, batchShutdown, TerminateHost,
       CleanupProcesses, CleanupBridges, CleanupInterfaces,
       killprocs, pkill, KilledShellDies, pgrep, osVars
  <2>. QED BY <2>1 DEF GenOK
<1>. QED BY <1>1, <1>2

(* How many nodes a link can go to bounds the ports. *)
LEMMA FewPorts ==
    ASSUME run \in Runs, NEW n, NEW p \in PortsOf(n, NetLinks)
    PROVE  p \in 0 .. Cardinality(Node)
<1>. DEFINE k == run.k
            L == LinksAt(k, n)
            other == [l \in L |-> IF l[1] = n THEN l[2] ELSE l[1]]
<1>0. /\ k \in DegreesTried /\ NetLinks = LinksOf(k) /\ NetSwitches = SwitchesOf(k)
      /\ L = {l \in NetLinks : n \in {l[1], l[2]}}
      /\ IsFiniteSet(NetHosts) /\ IsFiniteSet(NetSwitches)
  BY NetIsTopology, TopologyIsFinite DEF LinksAt
<1>1. PICK l \in NetLinks : \E e \in Ends(l) : e[1] = n /\ p = e[2]
  BY DEF PortsOf
<1>2. l \in L /\ p = addPort(k, n, l)
  BY <1>0, <1>1, EndsAreInterfaces
<1>3. /\ IsFiniteSet(L) /\ Before(k, n, l) \subseteq L /\ l \notin Before(k, n, l)
      /\ Cardinality(Before(k, n, l)) \in Nat /\ p \in Nat
      /\ p <= Cardinality(Before(k, n, l)) + 1
  <2>1. Place(k, l) \in Nat
    BY <1>0, <1>1, PlacesAreUnique
  <2>2. Before(k, n, l) \subseteq L /\ l \notin Before(k, n, l)
    BY <2>1 DEF Before
  <2>3. /\ addPort(k, n, l) = Cardinality(Before(k, n, l)) + (IF n \in SwitchesOf(k) THEN 1 ELSE 0)
        /\ IsFiniteSet(L) /\ Cardinality(Before(k, n, l)) \in Nat
    BY <1>0, <1>1, AddPortCounts
  <2>. HIDE DEF L
  <2>. QED BY <1>2, <2>2, <2>3
<1>4. Cardinality(Before(k, n, l)) + 1 <= Cardinality(L)
  <2>1. Cardinality(Before(k, n, l)) <= Cardinality(L) /\ Cardinality(Before(k, n, l)) # Cardinality(L)
    <3>. HIDE DEF L
    <3>. QED BY <1>2, <1>3, FS_Subset
  <2>2. Cardinality(L) \in Nat
    BY <1>3, FS_CardinalityType
  <2>. HIDE DEF L
  <2>. QED BY <1>3, <2>1, <2>2
<1>5. IsFiniteSet(Node) /\ Cardinality(Node) \in Nat
  BY <1>0, FS_Union, FS_CardinalityType DEF Node
<1>6. \A m \in NetLinks : /\ m = <<m[1], m[2]>> /\ m[1] \in Node /\ m[2] \in Node
                         /\ m[1] # m[2] /\ <<m[2], m[1]>> \notin NetLinks
  BY <1>0, NetIsTopology, TopologyLinks DEF LinksOK, Node
<1>7. other \in Injection(L, Node)
  <2>1. \A m \in L : m \in NetLinks /\ n \in {m[1], m[2]}
    BY <1>0
  <2>2. \A m \in L : other[m] = IF m[1] = n THEN m[2] ELSE m[1]
    OBVIOUS
  <2>3. other \in [L -> Node]
    <3>. HIDE DEF L
    <3>. QED BY <1>6, <2>1
  <2>4. ASSUME NEW m1 \in L, NEW m2 \in L, other[m1] = other[m2]
        PROVE  m1 = m2
    <3>. HIDE DEF other, L
    <3>1. /\ m1 = <<m1[1], m1[2]>> /\ m2 = <<m2[1], m2[2]>>
          /\ m1 \in NetLinks /\ <<m1[2], m1[1]>> \notin NetLinks
          /\ m2 \in NetLinks /\ n \in {m1[1], m1[2]} /\ n \in {m2[1], m2[2]}
      BY <1>6, <2>1
    <3>2. (IF m1[1] = n THEN m1[2] ELSE m1[1]) = (IF m2[1] = n THEN m2[2] ELSE m2[1])
      BY <2>2, <2>4
    <3>3. <<m2[1], m2[2]>> # <<m1[2], m1[1]>>
      BY <3>1
    <3>4. m1[1] = m2[1] /\ m1[2] = m2[2]
      BY <3>1, <3>2, <3>3
    <3>. QED BY <3>1, <3>4
  <2>. HIDE DEF other, L
  <2>. QED BY <2>3, <2>4 DEF Injection, IsInjective
<1>8. Cardinality(L) <= Cardinality(Node)
  <2>. HIDE DEF other, L
  <2>. QED BY <1>5, <1>7, FS_Injection
<1>9. Cardinality(L) \in Nat
  BY <1>3, FS_CardinalityType
<1>. HIDE DEF L
<1>. QED BY <1>3, <1>4, <1>5, <1>8, <1>9

LEMMA SameTables ==
    ASSUME TablesOK, run' = run, UNCHANGED <<intfs, addr>>, DOMAIN tc' \subseteq DOMAIN tc
    PROVE  TablesOK'
<1>1. /\ Node' = Node /\ NetLinks' = NetLinks /\ NetHosts' = NetHosts /\ SwitchEnds' = SwitchEnds
      /\ \A n, S : PortsOf(n, S)' = PortsOf(n, S)
  BY NetIsKept, TopologyIsFixed
<1>. QED BY <1>1 DEF TablesOK

LEMMA TablesStep ==
    ASSUME ControlOK, NetOK, TablesOK, [Next]_vars
    PROVE  TablesOK'
<1>0. run' = run /\ run \in Runs
  BY RunIsKept DEF vars, ControlOK
<1>1. /\ Node' = Node /\ NetLinks' = NetLinks /\ NetHosts' = NetHosts /\ SwitchEnds' = SwitchEnds
      /\ \A n, S : PortsOf(n, S)' = PortsOf(n, S)
  BY <1>0, NetIsKept, TopologyIsFixed
<1>2. CASE StartProgram
  <2>1. intfs' = <<>> /\ addr' = <<>> /\ tc' = tc
    BY <1>2 DEF StartProgram, osVars
  <2>2. DOMAIN intfs' = {} /\ DOMAIN addr' = {}
    BY <2>1
  <2>. QED BY <1>1, <2>1, <2>2 DEF TablesOK
<1>3. CASE AddNode
  <2>. DEFINE n == First(todo)
  <2>1. /\ pc = "nodes" /\ todo # {} /\ UNCHANGED <<addr, tc>>
        /\ intfs' = With(intfs, n, controlIntf(n))
    BY <1>3 DEF AddNode, ControlOK
  <2>2. n \in Node
    BY <2>1, FirstsAreThere DEF ControlOK, Node
  <2>3. controlIntf(n) \subseteq {0}
    BY DEF controlIntf
  <2>. HIDE DEF n
  <2>4. /\ DOMAIN intfs' = DOMAIN intfs \union {n}
        /\ intfs'[n] = controlIntf(n)
        /\ \A m \in DOMAIN intfs \ {n} : intfs'[m] = intfs[m]
    BY <2>1 DEF With, WithAll
  <2>. QED BY <1>1, <2>1, <2>2, <2>3, <2>4 DEF TablesOK
<1>4. CASE AddLink
  <2>. DEFINE l == FirstLink(todo)
  <2>1. /\ pc = "links" /\ UNCHANGED addr
        /\ \/ UNCHANGED <<intfs, tc>>
           \/ /\ intfs' = addIntf(l)
              /\ \/ UNCHANGED tc
                 \/ tc' = WithAll(tc, [e \in Ends(l) \intersect SwitchEnds |-> TCReapply(NoQdisc)])
    BY <1>4 DEF AddLink
  <2>2. l \in NetLinks
    BY <2>1, FirstsAreThere
  <2>. HIDE DEF l
  <2>3. CASE UNCHANGED <<intfs, tc>>
    BY <1>0, <2>1, <2>3, SameTables
  <2>4. CASE intfs' = addIntf(l)
    <3>1. DOMAIN intfs' = DOMAIN intfs
      BY <2>4 DEF addIntf
    <3>2. \A n \in DOMAIN intfs : \A p \in intfs'[n] :
              p \in intfs[n] \/ \E e \in Ends(l) : e[1] = n /\ p = e[2]
      BY <2>4 DEF addIntf
    <3>3. \A n, p : (\E e \in Ends(l) : e[1] = n /\ p = e[2]) => p \in PortsOf(n, NetLinks)
      BY <2>2 DEF PortsOf
    <3>4. DOMAIN tc' \subseteq DOMAIN tc \union SwitchEnds
      BY <2>1, <2>4 DEF WithAll
    <3>5. \A n \in DOMAIN intfs' : intfs'[n] \subseteq {0} \union PortsOf(n, NetLinks)
      BY <3>1, <3>2, <3>3 DEF TablesOK
    <3>. QED BY <1>1, <2>1, <3>1, <3>4, <3>5 DEF TablesOK
  <2>. QED BY <2>1, <2>3, <2>4
<1>5. CASE config
  <2>. DEFINE h == First(todo)
  <2>1. pc = "hosts" /\ addr' = With(addr, h, HostParams(h)) /\ UNCHANGED <<intfs, tc>>
    BY <1>5 DEF config, osVars
  <2>2. h \in NetHosts
    BY <2>1, FirstsAreThere
  <2>. HIDE DEF h
  <2>3. DOMAIN addr' = DOMAIN addr \union {h}
    BY <2>1 DEF With, WithAll
  <2>. QED BY <1>1, <2>1, <2>2, <2>3 DEF TablesOK
<1>6. CASE OVSStart
  <2>. DEFINE s == First(todo)
              ends == {<<s, p>> : p \in DataPorts(s)}
  <2>1. /\ pc = "switches" /\ UNCHANGED <<intfs, addr>>
        /\ tc' = WithAll(tc, [e \in ends |-> IF batch THEN NoQdisc ELSE TCReapply(NoQdisc)])
    BY <1>6 DEF OVSStart
  <2>2. s \in NetSwitches
    BY <2>1, FirstsAreThere
  <2>3. DOMAIN tc' = DOMAIN tc \union ends
    <3>. HIDE DEF ends
    <3>. QED BY <2>1 DEF WithAll
  <2>4. ends \subseteq SwitchEnds
    <3>. HIDE DEF s
    <3>1. intfs[s] = controlIntf(s) \union PortsOf(s, NetLinks)
      BY <2>1, <2>2 DEF NetOK, IntfsOK, Interfaces, Middle, Node
    <3>2. DataPorts(s) \subseteq PortsOf(s, NetLinks)
      BY <3>1 DEF DataPorts, controlIntf
    <3>3. \A p \in PortsOf(s, NetLinks) : <<s, p>> \in SwitchEnds
      BY <1>0, <2>2, PortsOfSwitch
    <3>. QED BY <3>2, <3>3
  <2>. HIDE DEF s, ends
  <2>. QED BY <1>1, <2>1, <2>3, <2>4 DEF TablesOK
<1>7. CASE CleanupInterfaces
  <2>1. tc' = <<>> /\ UNCHANGED <<intfs, addr>>
    BY <1>7 DEF CleanupInterfaces
  <2>2. DOMAIN tc' = {}
    BY <2>1
  <2>. QED BY <1>0, <2>1, <2>2, SameTables
<1>8. CASE StopLink
  <2>1. tc' = [e \in DOMAIN tc \ Ends(FirstLink(todo)) |-> tc[e]] /\ UNCHANGED <<intfs, addr>>
    BY <1>8 DEF StopLink
  <2>. QED BY <1>0, <2>1, SameTables
<1>9. CASE batchStartup
  <2>1. UNCHANGED <<intfs, addr>> /\ DOMAIN tc' = DOMAIN tc
    BY <1>9 DEF batchStartup
  <2>. QED BY <1>0, <2>1, SameTables
<1>10. CASE setupSwitchQueues \/ setupSwitchQueuesOfTest
  <2>1. UNCHANGED <<intfs, addr>> /\ DOMAIN tc' = DOMAIN tc
    BY <1>10 DEF setupSwitchQueues, setupSwitchQueuesOfTest, SetQueues
  <2>. QED BY <1>0, <2>1, SameTables
<1>11. CASE \/ UNCHANGED vars \/ Crash \/ OrphanShellsExit \/ AddController \/ AddRemoteController
            \/ StartController \/ StartRemoteController \/ startBWShare \/ startBWShareOfTest
            \/ StopController \/ StopRemoteController \/ batchShutdown \/ TerminateHost
            \/ CleanupProcesses \/ CleanupBridges \/ killprocs
  <2>1. UNCHANGED <<intfs, addr, tc>>
    BY <1>11 DEF vars, Crash, OrphanShellsExit, AddController, AddRemoteController, StartController,
       StartRemoteController, startBWShare, startBWShareOfTest, StartAgent, StopController,
       StopRemoteController, batchShutdown, TerminateHost, CleanupProcesses, CleanupBridges,
       killprocs, pkill, KilledShellDies, pgrep, osVars
  <2>. QED BY <1>0, <2>1, SameTables
<1>. QED BY <1>2, <1>3, <1>4, <1>5, <1>6, <1>7, <1>8, <1>9, <1>10, <1>11
         DEF Next, Program, BuildNetwork, StartNetwork, Share, StopNetwork, Cleanup

TypeInv == NetInv /\ TablesOK /\ GenOK /\ DiedOK /\ dirty \in BOOLEAN

LEMMA TypeInvIsOK == Spec => []TypeInv
<1>1. Init => TypeInv
  <2>1. Init => gen = 0 /\ dirty \in BOOLEAN
    BY Zenon DEF Init
  <2>2. Init => intfs = <<>> /\ addr = <<>> /\ tc = <<>>
    BY Zenon DEF Init
  <2>3. DOMAIN <<>> = {}
    OBVIOUS
  <2>4. Init => TablesOK
    BY <2>2, <2>3 DEF TablesOK
  <2>5. Init => GenOK
    BY <2>1, MaxRunsAssumption DEF GenOK
  <2>6. Init => DiedOK
    BY Zenon DEF Init, DiedOK
  <2>. QED BY <2>1, <2>4, <2>5, <2>6, NetInvInit DEF TypeInv
<1>2. TypeInv /\ [Next]_vars => TypeInv'
  <2>1. TypeInv /\ [Next]_vars => TablesOK'
    BY TablesStep DEF TypeInv, NetInv
  <2>. QED BY <2>1, NetInvStep, GenStep, DiedStep, DirtyStep DEF TypeInv
<1>. QED BY <1>1, <1>2, PTL DEF Spec

LEMMA TypeInvIsTypeOK == TypeInv => TypeOK
<1>. SUFFICES ASSUME TypeInv PROVE TypeOK
  OBVIOUS
<1>1. run \in Runs /\ gen \in 0 .. MaxRuns /\ dirty \in BOOLEAN
  BY DEF TypeInv, NetInv, ControlOK, GenOK
<1>2. died \in {"", "crashed", "exists", "listening", "move"}
  BY Zenon DEF TypeInv, DiedOK
<1>3. DOMAIN intfs \subseteq Node /\ \A n \in DOMAIN intfs : intfs[n] \subseteq 0 .. Cardinality(Node)
  <2>1. 0 \in 0 .. Cardinality(Node)
    <3>1. IsFiniteSet(Node)
      BY <1>1, NetIsTopology, TopologyIsFinite, FS_Union DEF Node
    <3>. QED BY <3>1, FS_CardinalityType
  <2>2. \A n : PortsOf(n, NetLinks) \subseteq 0 .. Cardinality(Node)
    BY <1>1, FewPorts
  <2>. QED BY <2>1, <2>2 DEF TypeInv, TablesOK
<1>4. DOMAIN addr \subseteq NetHosts /\ DOMAIN tc \subseteq SwitchEnds
  BY DEF TypeInv, TablesOK
<1>5. \A s \in shells : s.node \in AnyNode /\ s.gen \in 1 .. gen
  BY DEF TypeInv, NetInv, LeftInv, ShellsOK, AnyNode, Node
<1>6. \A p \in procs : p.node \in AnyNode /\ p.gen \in 1 .. gen
  BY DEF TypeInv, NetInv, LeftInv, ProcsOK, AnyNode, Node
<1>7. ASSUME NEW p \in veth
      PROVE  Cardinality(p.ends) = 2 /\ p.gen \in 0 .. gen
  <2>1. PICK l \in NetLinks : p.ends = Ends(l)
    BY DEF TypeInv, NetInv, LeftInv, PairsOK
  <2>. DEFINE a == <<l[1], addPort(run.k, l[1], l)>>
              b == <<l[2], addPort(run.k, l[2], l)>>
  <2>2. p.ends = {a} \union {b} /\ a # b
    BY <1>1, <2>1, EndsOfLink
  <2>3. Cardinality({a} \union {b}) = 2
    <3>. HIDE DEF a, b
    <3>1. IsFiniteSet({a}) /\ Cardinality({a}) = 1 /\ b \notin {a}
      BY <2>2, FS_Singleton
    <3>2. Cardinality({a} \union {b}) = Cardinality({a}) + 1
      BY <3>1, FS_AddElement
    <3>. QED BY <3>1, <3>2
  <2>. QED BY <2>2, <2>3 DEF TypeInv, NetInv, LeftInv, PairsOK
<1>8. DOMAIN bridges \subseteq NetSwitches
  BY DEF TypeInv, NetInv, LeftInv, BridgesLeft
<1>. QED BY <1>1, <1>2, <1>3, <1>4, <1>5, <1>6, <1>7, <1>8, Zenon DEF TypeOK

(* What every program brings up is its topology: a fat tree if the degree   *)
(* is even, with a bridge per switch, a pair of interfaces per link and     *)
(* OpenFlow ports that are the topology's port numbers, for all degrees a   *)
(* dpid can hold and however many programs died before.                     *)
THEOREM NetworkIsAlwaysBuilt ==
    ASSUME \A k \in PodCounts : k <= 255
    PROVE  Spec => []NetworkIsBuilt
<1>1. Spec => []TypeOK
  BY TypeInvIsOK, TypeInvIsTypeOK, PTL
<1>. QED BY <1>1, BridgesAlwaysMirrorTheTopology, TheTopologyIsAlwaysAFatTree, PTL DEF NetworkIsBuilt

=============================================================================
