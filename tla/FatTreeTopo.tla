---------------------------- MODULE FatTreeTopo ----------------------------
(***************************************************************************)
(* The fat tree of FatTreeTopology.py: the node identifiers, the layers,   *)
(* the links and the stateless port numbering.  Everything is a function   *)
(* of k, the switch degree the program is started with, so the facts about *)
(* it are stated, checked and proved for every k (NetworkProofs).          *)
(*                                                                         *)
(* A node is its identifier; its name "10.pod.sw.host" is another notation *)
(* for the three numbers, and name_str and id_gen(name=...) convert        *)
(* between them without loss.                                              *)
(***************************************************************************)
EXTENDS Integers, FiniteSets

PORT_BASE  == 1
LAYER_CORE == 0
LAYER_AGG  == 1
LAYER_EDGE == 2
LAYER_HOST == 3
Layers     == {LAYER_CORE, LAYER_AGG, LAYER_EDGE, LAYER_HOST}

-----------------------------------------------------------------------------
(* Identifiers.  dpid packs the three numbers in eight bits each and sums  *)
(* them; idOfDpid takes a dpid apart again.  The addresses print them.     *)

FatTreeNodeID(pod, sw, host) == [pod |-> pod, sw |-> sw, host |-> host]

dpid(id) == id.pod * 65536 + id.sw * 256 + id.host

idOfDpid(d) == FatTreeNodeID((d \div 65536) % 256, (d \div 256) % 256, d % 256)

\* Faulty: the switch is left out of the address.
ip_without_sw(id) == <<10, id.pod, 0, id.host>>

ip_str(id)  == <<10, id.pod, id.sw, id.host>>

mac_str(id) == <<0, 0, 0, id.pod, id.sw, id.host>>

-----------------------------------------------------------------------------
(* The ranges of the constructor and the nodes of each layer.              *)

pods(k)     == 0 .. k - 1

\* Faulty: Python's range ends before its second argument.
core_sws_but_last(k) == 1 .. (k \div 2) - 1

core_sws(k) == 1 .. k \div 2

agg_sws(k)  == k \div 2 .. k - 1
edge_sws(k) == 0 .. (k \div 2) - 1
hosts(k)    == 2 .. (k \div 2) + 1

EdgeId(p, e)       == FatTreeNodeID(p, e, 1)
HostId(p, e, h)    == FatTreeNodeID(p, e, h)
AggId(p, a)        == FatTreeNodeID(p, a, 1)
CoreId(k, a, c)    == FatTreeNodeID(k, a - (k \div 2) + 1, c)

layer_nodes(k, l) ==
    CASE l = LAYER_CORE -> {CoreId(k, a, c) : a \in agg_sws(k), c \in core_sws(k)}
      [] l = LAYER_AGG  -> {AggId(p, a) : p \in pods(k), a \in agg_sws(k)}
      [] l = LAYER_EDGE -> {EdgeId(p, e) : p \in pods(k), e \in edge_sws(k)}
      [] l = LAYER_HOST -> {HostId(p, e, h) : p \in pods(k), e \in edge_sws(k), h \in hosts(k)}
      [] OTHER          -> {}

Nodes(k)    == UNION {layer_nodes(k, l) : l \in Layers}
Switches(k) == Nodes(k) \ layer_nodes(k, LAYER_HOST)

(* The layer a node's attributes name: those of the last add of its name.  *)
layer(k, n) == CHOOSE l \in Layers : n \in layer_nodes(k, l)

(* def_nopts: the options a node is added with. Only hosts get addresses.  *)
def_nopts(l, id) ==
    [layer |-> l, dpid |-> dpid(id),
     ip  |-> IF l = LAYER_HOST THEN ip_str(id) ELSE <<>>,
     mac |-> IF l = LAYER_HOST THEN mac_str(id) ELSE <<>>]

-----------------------------------------------------------------------------
(* The links the constructor adds: from a host to its edge switch, from an *)
(* edge switch to an aggregation switch, from a core switch to the         *)
(* aggregation switch whose position in its pod the core's sw names.       *)

HostEdgeLinks(k) == {<<HostId(p, e, h), EdgeId(p, e)>> :
                        p \in pods(k), e \in edge_sws(k), h \in hosts(k)}
EdgeAggLinks(k)  == {<<EdgeId(p, e), AggId(p, a)>> :
                        p \in pods(k), e \in edge_sws(k), a \in agg_sws(k)}
CoreAggLinks(k)  == {<<CoreId(k, a, c), AggId(p, a)>> :
                        p \in pods(k), a \in agg_sws(k), c \in core_sws(k)}
Links(k) == HostEdgeLinks(k) \union EdgeAggLinks(k) \union CoreAggLinks(k)

Linked(k, m, n) == <<m, n>> \in Links(k) \/ <<n, m>> \in Links(k)

up_nodes(k, n) ==
    {m \in layer_nodes(k, layer(k, n) - 1) : Linked(k, m, n)}
down_nodes(k, n) ==
    {m \in layer_nodes(k, layer(k, n) + 1) : Linked(k, m, n)}

up_edges(k, n)   == {<<n, m>> : m \in up_nodes(k, n)}
down_edges(k, n) == {<<n, m>> : m \in down_nodes(k, n)}

(* node_specs: the number of up links and down links of a node by layer.   *)
node_specs(k) ==
    [l \in Layers |->
        CASE l = LAYER_CORE -> [up_total |-> 0, down_total |-> k]
          [] l = LAYER_AGG  -> [up_total |-> k \div 2, down_total |-> k \div 2]
          [] l = LAYER_EDGE -> [up_total |-> k \div 2, down_total |-> k \div 2]
          [] l = LAYER_HOST -> [up_total |-> 1, down_total |-> 0]]

-----------------------------------------------------------------------------
(* port: the pair of port numbers of the link between two nodes, from the  *)
(* layers and the identifiers alone.  Every number but a host's is moved   *)
(* up by one at the end, OpenFlow ports being numbered from 1.             *)

basePorts(k, sl, src, dl, dst) ==
    CASE sl = LAYER_HOST /\ dl = LAYER_EDGE -> <<0, (src.host - 2) * 2 + 1>>
      [] sl = LAYER_EDGE /\ dl = LAYER_CORE -> <<(dst.sw - 2) * 2, src.pod>>
      [] sl = LAYER_EDGE /\ dl = LAYER_AGG  -> <<(dst.sw - k \div 2) * 2, src.sw * 2 + 1>>
      [] sl = LAYER_AGG  /\ dl = LAYER_CORE -> <<(dst.host - 1) * 2, src.pod>>
      [] sl = LAYER_CORE /\ dl = LAYER_AGG  -> <<dst.pod, (src.host - 1) * 2>>
      [] sl = LAYER_AGG  /\ dl = LAYER_EDGE -> <<dst.sw * 2 + 1, (src.sw - k \div 2) * 2>>
      [] sl = LAYER_CORE /\ dl = LAYER_EDGE -> <<dst.pod, (src.sw - 2) * 2>>
      [] sl = LAYER_EDGE /\ dl = LAYER_HOST -> <<(dst.host - 2) * 2 + 1, 0>>

\* Faulty: the ports of the switches stay counted from zero.
no_shift(l, p) == p

shift(l, p) == IF l = LAYER_HOST THEN p ELSE p + 1

portAt(k, sl, src, dl, dst) ==
    LET b == basePorts(k, sl, src, dl, dst)
    IN  <<shift(sl, b[1]), shift(dl, b[2])>>

port(k, src, dst) == portAt(k, layer(k, src), src, layer(k, dst), dst)

isPortUp(p) == p % 2 = PORT_BASE

-----------------------------------------------------------------------------
(* What the numbering promises. *)

Neighbours(k, n) == {m \in Nodes(k) : Linked(k, m, n)}

PortsIdentifyLinks(k) ==
    \A n \in Switches(k) :
        LET p == [m \in Neighbours(k, n) |-> port(k, n, m)]
        IN  \A m1, m2 \in Neighbours(k, n) :
                /\ p[m1][1] \in 1 .. k
                /\ port(k, m1, n) = <<p[m1][2], p[m1][1]>>
                /\ m1 # m2 => p[m1][1] # p[m2][1]

(* For an even degree: every node has the links its layer is specified     *)
(* with, edge and aggregation switches tell the direction of a link by its *)
(* port, and every core switch has one switch in every pod below it, so    *)
(* that any two hosts are joined through any core.                         *)
IsFatTreeOf(k) ==
    /\ \A l \in Layers : \A n \in layer_nodes(k, l) :
          /\ Cardinality(up_edges(k, n)) = node_specs(k)[l].up_total
          /\ Cardinality(down_edges(k, n)) = node_specs(k)[l].down_total
    /\ \A l \in {LAYER_AGG, LAYER_EDGE} : \A n \in layer_nodes(k, l) :
          /\ \A m \in up_nodes(k, n) : isPortUp(port(k, n, m)[1])
          /\ \A m \in down_nodes(k, n) : ~isPortUp(port(k, n, m)[1])
    /\ \A c \in layer_nodes(k, LAYER_CORE) :
          {a.pod : a \in down_nodes(k, c)} = pods(k)
    /\ \A a \in layer_nodes(k, LAYER_AGG) :
          down_nodes(k, a) = {EdgeId(a.pod, e) : e \in edge_sws(k)}
=============================================================================
