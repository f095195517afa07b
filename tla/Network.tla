------------------------------ MODULE Network ------------------------------
(***************************************************************************)
(* The emulated network of one experiment, from the start of the program   *)
(* (BandwidthShare.py, BWShareTest.py) to its end: the nodes and their     *)
(* interfaces, the bridges of Open vSwitch, the queues on every switch     *)
(* port, the agents on the hosts.  What the kernel and Open vSwitch hold   *)
(* outlives the program, so the module also has the program die at any     *)
(* step, mininet's clean-up (clean.py) and the next run.                   *)
(*                                                                         *)
(* The classes Mininet, Topo and Link are not in the repository: the order *)
(* in which they call the nodes is modelled from those calls.              *)
(***************************************************************************)
EXTENDS FatTreeTopo, Naturals, FiniteSets, Sequences, SequencesExt

CONSTANTS
    PodCounts,        \* the values of --pod that are tried
    CrashingPodCounts,\* bound: those of them with which the program may fail half-way
    LocalControllers, \* the controllers BWShareTest may find installed
    MaxRuns           \* bound on the runs of a program one after the other

(* findController takes Controller or else OVSController, whose command is *)
(* the first that is installed of three.                                   *)
findController == {"controller", "ovs-controller", "test-controller", "ovs-testcontroller"}

ASSUME PodCountsAssumption        == PodCounts \subseteq Nat \ {0, 1}
ASSUME LocalControllersAssumption == LocalControllers \subseteq findController
ASSUME MaxRunsAssumption          == MaxRuns \in Nat

VARIABLES
    run,       \* the program that was started last and its arguments
    gen,       \* how many programs were started
    pc,        \* what the program does now
    todo,      \* what is left of that: nodes, links or interfaces
    died,      \* the error the last program stopped with, "" if it did not
    intfs,     \* Node.intfs: the port numbers in use at each node
    addr,      \* the addresses configured on the hosts of this run
    shells,    \* the shells that run, of this and of earlier programs
    procs,     \* the controllers and agents that run
    veth,      \* the kernel's interface pairs
    bridges,   \* Open vSwitch: the bridges and the OpenFlow port of each port
    tc,        \* the queueing discipline of every switch interface
    dirty      \* a program died and no clean-up was run since

osVars == <<shells, procs, veth, bridges, tc>>
vars   == <<run, gen, pc, todo, died, intfs, addr, shells, procs, veth, bridges, tc, dirty>>

-----------------------------------------------------------------------------
(* The programs and their topologies.  The nodes s1 and h1..h5 of          *)
(* MySingleSwitch and the controller c0 are given identifiers no fat tree  *)
(* has.                                                                    *)

C0    == FatTreeNodeID(-2, 0, 0)
S1    == FatTreeNodeID(-1, 0, 0)
TestHost(i) == FatTreeNodeID(-1, 0, i)
MySingleSwitchHosts == 5

FatTreeRun(k, fast)  == [program |-> "BandwidthShare", k |-> k, controller |-> "remote", fast |-> fast]
SingleRun(ctl, fast) == [program |-> "BWShareTest", k |-> 0, controller |-> ctl, fast |-> fast]
Runs == {FatTreeRun(k, f) : k \in PodCounts, f \in BOOLEAN}
            \union {SingleRun(c, f) : c \in LocalControllers, f \in BOOLEAN}

IsFatTree == run.program = "BandwidthShare"

createTopo(k) ==
    [hosts |-> layer_nodes(k, LAYER_HOST), switches |-> Switches(k), links |-> Links(k)]
MySingleSwitch ==
    LET hs == {TestHost(i) : i \in 1 .. MySingleSwitchHosts}
    IN  [hosts |-> hs, switches |-> {S1}, links |-> hs \X {S1}]
Topologies == [k \in PodCounts \union {0} |-> IF k = 0 THEN MySingleSwitch ELSE createTopo(k)]

NetHosts    == Topologies[run.k].hosts
NetSwitches == Topologies[run.k].switches
NetLinks    == Topologies[run.k].links

(* The place of a link in the order in which the constructor adds them:    *)
(* pod by pod, the edge switches with their hosts and then their up links, *)
(* after them the aggregation switches with their core links.              *)
rank(k, pod, x, y) == (pod * (k + 1) + x) * (3 * k) + y
Positions ==
    [k \in DOMAIN Topologies |-> [l \in Topologies[k].links |->
        CASE k = 0                   -> l[1].host
          [] l \in HostEdgeLinks(k) -> rank(k, l[2].pod, l[2].sw, l[1].host)
          [] l \in EdgeAggLinks(k)  -> rank(k, l[1].pod, l[1].sw, 2 * k + l[2].sw)
          [] l \in CoreAggLinks(k)  -> rank(k, l[2].pod, l[2].sw, l[1].host)]]

(* Topo.addPort: a node's ports are numbered in the order of its links,    *)
(* from 1 on a switch and from 0 on a host.                                *)
\* Faulty: the ports of a switch are numbered from 0, too, as its interface lo is.
addPortFromZero(k, n, l) ==
    LET links == {m \in Topologies[k].links : n \in {m[1], m[2]}}
    IN  Cardinality({m \in links : Positions[k][m] < Positions[k][l]})

addPort(k, n, l) ==
    LET links == {m \in Topologies[k].links : n \in {m[1], m[2]}}
    IN  Cardinality({m \in links : Positions[k][m] < Positions[k][l]})
            + (IF n \in Topologies[k].switches THEN PORT_BASE ELSE 0)

(* The interfaces "name-ethPort" of a link's ends. *)
EndTable ==
    [k \in DOMAIN Topologies |-> [l \in Topologies[k].links |->
        {<<l[1], addPort(k, l[1], l)>>, <<l[2], addPort(k, l[2], l)>>}]]
SwitchEndTable ==
    [k \in DOMAIN Topologies |->
        {e \in UNION {EndTable[k][l] : l \in Topologies[k].links} : e[1] \in Topologies[k].switches}]

Ends(l)     == EndTable[run.k][l]
SwitchEnds  == SwitchEndTable[run.k]
PairOf(l)   == [ends |-> Ends(l), gen |-> gen]

First(S)     == CHOOSE n \in S : \A m \in S : dpid(n) <= dpid(m)
MaxDpid(S)   == CHOOSE n \in S : \A m \in S : dpid(n) >= dpid(m)
FirstLink(S) ==
    CHOOSE l \in S : \A m \in S : Positions[run.k][l] <= Positions[run.k][m]

(* A switch runs in the root namespace.  A host's end is in the namespace  *)
(* of its run, which is there as long as a process is in it, and the pair  *)
(* with it; a pair that was never moved (gen 0) stays.                     *)
Alive(n, g, sh, pr) == \/ [node |-> n, gen |-> g] \in sh
                       \/ \E p \in pr : p.node = n /\ p.gen = g
Present(v, sh, pr)  == {p \in v : \/ p.gen = 0
                                 \/ \A e \in p.ends : e[1] \in NetSwitches \/ Alive(e[1], p.gen, sh, pr)}

-----------------------------------------------------------------------------
(* Traffic control.  The kernel keeps a root discipline per interface with *)
(* its classes and filters; a command that does not fit what is there is   *)
(* refused, and its message is in commandReturns, which nobody reads.      *)

NoQdisc   == [handle |-> 0, default |-> 0, classes |-> {}, filters |-> {}]
LinkQdisc == [handle |-> 5, default |-> 1, classes |-> {1}, filters |-> {}]

delRoot           == [op |-> "del"]
addRoot(h, d)     == [op |-> "root", handle |-> h, default |-> d]
addClass(p, c)    == [op |-> "class", parent |-> p, id |-> c]
addFilter(pr, t, f) == [op |-> "filter", proto |-> pr, tos |-> t, flow |-> f]

Execute(q, c) ==
    CASE c.op = "del" -> NoQdisc
      [] c.op = "root" /\ q = NoQdisc ->
            [handle |-> c.handle, default |-> c.default, classes |-> {}, filters |-> {}]
      [] c.op = "class" /\ q.handle = 1 /\ c.parent \in q.classes \union {0} ->
            [q EXCEPT !.classes = @ \union {c.id}]
      [] c.op = "filter" /\ q.handle = 1 ->
            [q EXCEPT !.filters = @ \union {[proto |-> c.proto, tos |-> c.tos, flow |-> c.flow]}]
      [] OTHER -> q

(* The class a packet joins: that of a filter it matches in protocol and   *)
(* in all eight bits of the tos, else the default class.                   *)
Classify(q, proto, tos) ==
    LET hits == {f \in q.filters : f.proto = proto /\ f.tos = tos}
    IN  IF hits = {} THEN {q.default} ELSE {f.flow : f \in hits}

\* Faulty: the queues Open vSwitch and Mininet left are not removed first.
setupTCCommandOnTop ==
    <<addRoot(1, 11), addClass(0, 1), addClass(1, 11), addClass(1, 12), addFilter("tcp", 56, 12)>>

setupTCCommand ==
    <<delRoot, addRoot(1, 11), addClass(0, 1), addClass(1, 11), addClass(1, 12),
      addFilter("tcp", 0, 11),
      addFilter("tcp", 56, 12), addFilter("tcp", 57, 12),
      addFilter("tcp", 58, 12), addFilter("tcp", 59, 12),
      addFilter("udp", 0, 11)>>

(* BWShareTest.py has its own copy of the function. *)
setupTCCommandOfTest == setupTCCommand

(* TCIntf.config, which TCReapply and batchStartup call: the root is       *)
(* replaced by the rate limit of the link.                                 *)
TCReapply(q) == LinkQdisc

-----------------------------------------------------------------------------
(* A table with new entries: what TLC's @@ and :> make, of which the       *)
(* provers know nothing.                                                   *)

WithAll(f, g) == [x \in DOMAIN f \union DOMAIN g |-> IF x \in DOMAIN g THEN g[x] ELSE f[x]]
With(f, x, v) == WithAll(f, [y \in {x} |-> v])

Init ==
    /\ run \in Runs
    /\ gen = 0 /\ pc = "off" /\ todo = {} /\ died = "" /\ dirty = FALSE
    /\ intfs = <<>> /\ addr = <<>>
    /\ shells = {} /\ procs = {} /\ veth = {} /\ bridges = <<>> /\ tc = <<>>

CleaningUp == pc \in {"bridges", "interfaces", "stale", "killed"}
Running    == pc # "off" /\ ~CleaningUp

GoTo(p, S)    == pc' = p /\ todo' = S
NextOf(x, p, S) == IF todo = {x} THEN GoTo(p, S) ELSE GoTo(pc, todo \ {x})

(* Bound: only programs that can be run again fail, and only on the small  *)
(* topologies.                                                             *)
MayFail == gen < MaxRuns /\ run.k \in CrashingPodCounts \union {0}

(* The program stops with an exception that nothing catches. *)
Die(why) == GoTo("off", {}) /\ died' = why /\ dirty' = TRUE

(* The operator starts a program: everything a process has is new. *)
StartProgram ==
    /\ pc = "off" /\ gen < MaxRuns
    /\ gen' = gen + 1 /\ GoTo("controller", {}) /\ died' = ""
    /\ intfs' = <<>> /\ addr' = <<>>
    /\ UNCHANGED <<run, osVars, dirty>>

(* Controller.__init__ with checkListening: a local controller that still  *)
(* listens on the port stops the program.  A RemoteController only looks   *)
(* whether there is one (isListening) and warns.                           *)
DefaultController == run.controller # "remote"
checkListening    == \E p \in procs : p.cmd \notin {"WCEnabler", "BGAdaptor"}

StartShell(n) == shells' = shells \union {[node |-> n, gen |-> gen]}

AddController ==
    /\ pc = "controller" /\ DefaultController
    /\ StartShell(C0)
    /\ \/ checkListening /\ Die("listening")
       \/ ~checkListening /\ GoTo("nodes", NetHosts) /\ UNCHANGED <<died, dirty>>
    /\ UNCHANGED <<run, gen, intfs, addr, procs, veth, bridges, tc>>

AddRemoteController ==
    /\ pc = "controller" /\ ~DefaultController
    /\ StartShell(C0) /\ GoTo("nodes", NetHosts)
    /\ UNCHANGED <<run, gen, died, intfs, addr, procs, veth, bridges, tc, dirty>>

(* Node.__init__, for the hosts and then for the switches: a shell, and on *)
(* a switch the control interface lo at port 0.                            *)
controlIntf(n) == IF n \in NetSwitches THEN {0} ELSE {}

AddNode ==
    LET n == First(todo)
    IN  /\ pc = "nodes"
        /\ intfs' = With(intfs, n, controlIntf(n))
        /\ StartShell(n)
        /\ IF n \in NetHosts THEN NextOf(n, "nodes", NetSwitches) ELSE NextOf(n, "links", NetLinks)
        /\ UNCHANGED <<run, gen, died, addr, procs, veth, bridges, tc, dirty>>

(* makeIntfPair: the kernel refuses a name that is taken, which ends the   *)
(* program; unless Link asks for it to be deleted first.                   *)
Taken(l) == {p \in veth : p.ends \intersect Ends(l) \intersect SwitchEnds # {}}

(* Node.addIntf at both ends. *)
addIntf(l) ==
    [n \in DOMAIN intfs |-> intfs[n] \union {e[2] : e \in {d \in Ends(l) : d[1] = n}}]

(* util.retry, as moveIntf calls it: a move that fails Retries times is    *)
(* given up, even though one more was tried and its result is not looked   *)
(* at.                                                                     *)
Retries == 3
retry(fails) == fails < Retries

(* moveIntf: the pair after so many failures.  It is in the namespace of    *)
(* the host unless the last try failed as well.                            *)
moveIntf(l, fails) ==
    [PairOf(l) EXCEPT !.gen = IF l[1] \in NetHosts /\ fails > Retries THEN 0 ELSE gen]

AddLink ==
    LET l     == FirstLink(todo)
        free  == IF run.fast THEN veth ELSE veth \ Taken(l)
    IN  /\ pc = "links"
        /\ \/ /\ run.fast /\ Taken(l) # {}
              /\ Die("exists") /\ UNCHANGED <<veth, intfs, tc>>
           \/ /\ run.fast => Taken(l) = {}
              /\ veth' = free \union {moveIntf(l, 0)}
              /\ intfs' = addIntf(l)
              /\ tc' = WithAll(tc, [e \in Ends(l) \intersect SwitchEnds |-> TCReapply(NoQdisc)])
              /\ NextOf(l, "hosts", NetHosts) /\ UNCHANGED <<died, dirty>>
           \/ /\ ~run.fast /\ l[1] \in NetHosts /\ MayFail
              /\ \E fails \in Retries .. Retries + 1 :
                    /\ ~retry(fails)
                    /\ veth' = free \union {moveIntf(l, fails)}
              /\ intfs' = addIntf(l) /\ Die("move") /\ UNCHANGED tc
        /\ UNCHANGED <<run, gen, addr, shells, procs, bridges>>

(* Node.config: the MAC and IP address of the interface of a host, those   *)
(* that its parameters name.  MySingleSwitch names none: Mininet numbers   *)
(* its hosts, and the kernel chooses the MAC.                              *)
HostParams(h) ==
    IF IsFatTree THEN [ip |-> def_nopts(LAYER_HOST, h).ip, mac |-> def_nopts(LAYER_HOST, h).mac]
                 ELSE [ip |-> <<10, 0, 0, h.host>>, mac |-> <<>>]

config ==
    LET h == First(todo)
    IN  /\ pc = "hosts"
        /\ addr' = With(addr, h, HostParams(h))
        /\ NextOf(h, "start", {C0})
        /\ UNCHANGED <<run, gen, died, intfs, osVars, dirty>>

(* Controller.start; RemoteController.start does nothing. *)
StartController ==
    /\ pc = "start" /\ DefaultController /\ GoTo("switches", NetSwitches)
    /\ procs' = procs \union
            {[cmd |-> run.controller, node |-> C0, gen |-> gen, adaptor |-> <<>>, expects |-> 0]}
    /\ UNCHANGED <<run, gen, died, intfs, addr, shells, veth, bridges, tc, dirty>>

StartRemoteController ==
    /\ pc = "start" /\ ~DefaultController /\ GoTo("switches", NetSwitches)
    /\ UNCHANGED <<run, gen, died, intfs, addr, osVars, dirty>>

(* OVSSwitch.start: one transaction deletes a bridge of that name and adds *)
(* it with every port but the control interface, each asking for its own   *)
(* OpenFlow port (intfOpts).  Open vSwitch replaces the queues of the      *)
(* interfaces, and the switch puts them back unless it is started in a     *)
(* batch, which none is.                                                   *)
batch == FALSE

DataPorts(s) == {p \in intfs[s] : p # 0}

intfOpts(p) == p

(* A switch of the fat tree is given its dpid, s1 derives it from its name. *)
defaultDpid(s) == IF IsFatTree THEN def_nopts(layer(run.k, s), s).dpid ELSE 1

bridgeOpts(s) == [dpid |-> defaultDpid(s), ports |-> [p \in DataPorts(s) |-> intfOpts(p)]]

OVSStart ==
    LET s    == First(todo)
        ends == {<<s, p>> : p \in DataPorts(s)}
    IN  /\ pc = "switches"
        /\ bridges' = With(bridges, s, bridgeOpts(s))
        /\ tc' = WithAll(tc, [e \in ends |-> IF batch THEN NoQdisc ELSE TCReapply(NoQdisc)])
        /\ NextOf(s, "batch", {C0})
        /\ UNCHANGED <<run, gen, died, intfs, addr, shells, procs, veth, dirty>>

(* OVSSwitch.batchStartup, with no command saved: the queues again. *)
batchStartup ==
    /\ pc = "batch" /\ GoTo("queues", SwitchEnds)
    /\ tc' = [e \in DOMAIN tc |-> IF e[1] \in NetSwitches THEN TCReapply(tc[e]) ELSE tc[e]]
    /\ UNCHANGED <<run, gen, died, intfs, addr, shells, procs, veth, bridges, dirty>>

(* setupSwitchQueues: every interface of every switch but lo. *)
FirstEnd(S) ==
    LET s == First({e[1] : e \in S})
    IN  CHOOSE e \in S : e[1] = s /\ \A f \in S : f[1] = s => e[2] <= f[2]

SetQueues(commands) ==
    LET e == FirstEnd(todo)
    IN  /\ pc = "queues"
        /\ tc' = [tc EXCEPT ![e] = FoldLeft(Execute, @, commands)]
        /\ NextOf(e, "share", NetHosts)
        /\ UNCHANGED <<run, gen, died, intfs, addr, shells, procs, veth, bridges, dirty>>

setupSwitchQueues       == IsFatTree /\ SetQueues(setupTCCommand)
setupSwitchQueuesOfTest == ~IsFatTree /\ SetQueues(setupTCCommandOfTest)

(* startBWShare: the last host runs the adaptor, which is told how many    *)
(* hosts to wait for, the others an enabler that is told the adaptor's     *)
(* address, each as a job of the host's shell.  BWShareTest.py has a copy  *)
(* with a number of its own.                                               *)
BGHost == MaxDpid(NetHosts)

StartAgent(numberOfWCEnablerHosts) ==
    LET h == First(todo)
    IN  /\ pc = "share"
        /\ procs' = procs \union
                {[cmd |-> IF h = BGHost THEN "BGAdaptor" ELSE "WCEnabler", node |-> h, gen |-> gen,
                  adaptor |-> addr[BGHost].ip, expects |-> numberOfWCEnablerHosts]}
        /\ NextOf(h, "test", {C0})
        /\ UNCHANGED <<run, gen, died, intfs, addr, shells, veth, bridges, tc, dirty>>

startBWShare       == IsFatTree /\ StartAgent(Cardinality(NetHosts) - 1)
startBWShareOfTest == ~IsFatTree /\ StartAgent(4)

(* The test runs; Mininet.stop stops the controllers and then the links.   *)
(* RemoteController.stop does nothing; Controller.stop kills the job and   *)
(* hangs up the shell.                                                     *)
StopController ==
    /\ pc = "test" /\ DefaultController /\ GoTo("delete", NetLinks)
    /\ procs'  = {p \in procs : p.node # C0 \/ p.gen # gen}
    /\ shells' = shells \ {[node |-> C0, gen |-> gen]}
    /\ UNCHANGED <<run, gen, died, intfs, addr, veth, bridges, tc, dirty>>

StopRemoteController ==
    /\ pc = "test" /\ ~DefaultController /\ GoTo("delete", NetLinks)
    /\ UNCHANGED <<run, gen, died, intfs, addr, osVars, dirty>>

StopLink ==
    LET l == FirstLink(todo)
    IN  /\ pc = "delete"
        /\ veth' = veth \ Taken(l)
        /\ tc'   = [e \in DOMAIN tc \ Ends(l) |-> tc[e]]
        /\ NextOf(l, "shutdown", {C0})
        /\ UNCHANGED <<run, gen, died, intfs, addr, shells, procs, bridges, dirty>>

(* OVSSwitch.batchShutdown: the bridges in one command, the shells in one. *)
batchShutdown ==
    /\ pc = "shutdown" /\ GoTo("terminate", NetHosts)
    /\ bridges' = [s \in DOMAIN bridges \ NetSwitches |-> bridges[s]]
    /\ shells'  = shells \ {[node |-> s, gen |-> gen] : s \in NetSwitches}
    /\ UNCHANGED <<run, gen, died, intfs, addr, procs, veth, tc, dirty>>

(* Node.terminate hangs up the process group of the shell, which the jobs  *)
(* of a shell without job control belong to.                               *)
\* Faulty: the shell is killed and not its process group.
TerminateShellOnly ==
    LET h == First(todo)
    IN  /\ pc = "terminate"
        /\ shells' = shells \ {[node |-> h, gen |-> gen]}
        /\ veth'   = Present(veth, shells', procs)
        /\ NextOf(h, "off", {})
        /\ UNCHANGED <<run, gen, died, intfs, addr, procs, bridges, tc, dirty>>

TerminateHost ==
    LET h == First(todo)
    IN  /\ pc = "terminate"
        /\ shells' = shells \ {[node |-> h, gen |-> gen]}
        /\ procs'  = {p \in procs : p.node # h \/ p.gen # gen}
        /\ veth'   = Present(veth, shells', procs')
        /\ NextOf(h, "off", {})
        /\ UNCHANGED <<run, gen, died, intfs, addr, bridges, tc, dirty>>

-----------------------------------------------------------------------------
(* What the code has to cope with.  The program dies; the shells of a      *)
(* program that is gone read the end of their input and exit, and the jobs *)
(* they left do not.                                                       *)
Crash ==
    /\ Running /\ MayFail
    /\ Die("crashed")
    /\ UNCHANGED <<run, gen, intfs, addr, osVars>>

OrphanShellsExit ==
    /\ shells' = {s \in shells : s.gen = gen /\ Running}
    /\ shells' # shells
    /\ veth' = Present(veth, shells', procs)
    /\ UNCHANGED <<run, gen, pc, todo, died, intfs, addr, procs, bridges, tc, dirty>>

(* Cleanup.cleanup, with no program running.  Two of the names killall is  *)
(* given are each two names run together, so neither is killed.            *)
\* Faulty: the controller is not on the list.
zombiesButController == {"iperf3", "BWShareTest.py"}

zombies == {"controller", "ofprotocol", "ofdatapath", "ping", "nox_corelt-nox_core",
            "ovs-openflowd", "ovs-controllerovs-testcontroller", "udpbwtest", "mnexec",
            "ivs", "ryu-manager", "iperf3", "BWShareTest.py"}

CleanupProcesses ==
    /\ pc = "off" /\ gen > 0 /\ GoTo("bridges", {})
    /\ procs' = {p \in procs : p.cmd \notin zombies}
    /\ veth'  = Present(veth, shells, procs')
    /\ UNCHANGED <<run, gen, died, intfs, addr, shells, bridges, tc, dirty>>

CleanupBridges ==
    /\ pc = "bridges" /\ GoTo("interfaces", {})
    /\ bridges' = <<>>
    /\ UNCHANGED <<run, gen, died, intfs, addr, shells, procs, veth, tc, dirty>>

CleanupInterfaces ==
    /\ pc = "interfaces" /\ GoTo("stale", {})
    /\ veth' = {p \in veth : p.ends \intersect SwitchEnds = {} /\ p.gen # 0}
    /\ tc'   = <<>>
    /\ UNCHANGED <<run, gen, died, intfs, addr, shells, procs, bridges, dirty>>

(* killprocs kills the shells of every run, which die one after the other, *)
(* and kills again what pgrep still finds, until it finds nothing.         *)
pkill ==
    /\ pc = "stale" /\ GoTo("killed", {})
    /\ UNCHANGED <<run, gen, died, intfs, addr, osVars, dirty>>

KilledShellDies ==
    /\ pc = "killed"
    /\ \E s \in shells : shells' = shells \ {s}
    /\ veth' = Present(veth, shells', procs)
    /\ UNCHANGED <<run, gen, pc, todo, died, intfs, addr, procs, bridges, tc, dirty>>

pgrep ==
    /\ pc = "killed" /\ shells = {} /\ GoTo("off", {}) /\ dirty' = FALSE
    /\ UNCHANGED <<run, gen, died, intfs, addr, osVars>>

killprocs == pkill \/ KilledShellDies \/ pgrep

-----------------------------------------------------------------------------
BuildNetwork == AddController \/ AddRemoteController \/ AddNode \/ AddLink
StartNetwork == config \/ StartController \/ StartRemoteController \/ OVSStart \/ batchStartup
Share        == \/ setupSwitchQueues \/ setupSwitchQueuesOfTest
                \/ startBWShare \/ startBWShareOfTest
StopNetwork  == StopController \/ StopRemoteController \/ StopLink \/ batchShutdown \/ TerminateHost
Program      == BuildNetwork \/ StartNetwork \/ Share \/ StopNetwork

Cleanup == CleanupProcesses \/ CleanupBridges \/ CleanupInterfaces \/ killprocs
Next    == StartProgram \/ Program \/ Crash \/ OrphanShellsExit \/ Cleanup

Spec == Init /\ [][Next]_vars

-----------------------------------------------------------------------------
(* Properties *)

Node == NetHosts \union NetSwitches
AnyNode == Node \union {C0}

\* The type of the variables; the ports of a node are its own.
TypeOK ==
    /\ run \in Runs /\ gen \in 0 .. MaxRuns /\ dirty \in BOOLEAN
    /\ died \in {"", "crashed", "exists", "listening", "move"}
    /\ DOMAIN intfs \subseteq Node /\ \A n \in DOMAIN intfs : intfs[n] \subseteq 0 .. Cardinality(Node)
    /\ DOMAIN addr \subseteq NetHosts
    /\ \A s \in shells : s.node \in AnyNode /\ s.gen \in 1 .. gen
    /\ \A p \in procs : p.node \in AnyNode /\ p.gen \in 1 .. gen
    /\ \A p \in veth : Cardinality(p.ends) = 2 /\ p.gen \in 0 .. gen
    /\ DOMAIN bridges \subseteq NetSwitches /\ DOMAIN tc \subseteq SwitchEnds

SwitchesUp == pc \in {"batch", "queues", "share", "test"}

\* Once the switches are started, every link of the topology is a pair of interfaces of
\* this run and of no other, both ends of it are ports of the bridges with the OpenFlow
\* port the topology numbered them with, and the bridges have no other port and a dpid of
\* their own (OVSSwitch.start, intfOpts, Node.addIntf, makeIntfPair).
BridgesMirrorTheTopology ==
    SwitchesUp =>
        /\ \A l \in NetLinks : PairOf(l) \in veth /\ Taken(l) = {PairOf(l)}
        /\ \A s \in NetSwitches :
              /\ s \in DOMAIN bridges
              /\ LET ports == bridges[s].ports
                 IN  /\ \A p \in DOMAIN ports : ports[p] = p
                     /\ {<<s, p>> : p \in DOMAIN ports} = {e \in SwitchEnds : e[1] = s}
                     /\ Cardinality(DOMAIN ports) = Cardinality({l \in NetLinks : s \in {l[1], l[2]}})
              /\ \A t \in NetSwitches \ {s} : bridges[t].dpid # bridges[s].dpid

\* From the moment the agents are started every switch interface has the two queues:
\* the guaranteed traffic (TCP and UDP of tos 0) joins class 1:11 and the additional
\* subflows (TCP of tos 0x38) class 1:12, whatever the congestion bits of the tos are,
\* although Open vSwitch and Mininet replaced the queues twice before (setupTCCommand,
\* TCReapply, batchStartup).
SwitchesQueueByTos ==
    pc \in {"share", "test"} =>
        \A e \in SwitchEnds, ecn \in 0 .. 3 :
            /\ {1, 11, 12} \subseteq tc[e].classes
            /\ Classify(tc[e], "tcp", ecn) = {11} /\ Classify(tc[e], "udp", ecn) = {11}
            /\ Classify(tc[e], "tcp", 56 + ecn) = {12}

\* When the test starts, one host of this run runs the adaptor and each other host one
\* enabler, the address the enablers were given is that host's and nobody else's, and the
\* adaptor waits for as many hosts as there are enablers (startBWShare, def_nopts, ip_str).
AgentsReachTheAdaptor ==
    pc = "test" =>
        LET mine == {p \in procs : p.gen = gen /\ p.node \in NetHosts}
        IN  /\ {p.node : p \in mine} = NetHosts /\ Cardinality(mine) = Cardinality(NetHosts)
            /\ \E b \in mine :
                  /\ b.cmd = "BGAdaptor"
                  /\ \A p \in mine \ {b} : p.cmd = "WCEnabler"
                  /\ b.expects = Cardinality(mine) - 1
                  /\ \A p \in mine : p.adaptor = addr[b.node].ip
                  /\ \A h \in NetHosts \ {b.node} :
                        /\ addr[h].ip # addr[b.node].ip
                        /\ IsFatTree => addr[h].mac # addr[b.node].mac

\* A program that was stopped in order leaves no interface, no bridge, no controller, no
\* agent and no shell but that of its controller, which ends with it (Mininet.stop,
\* batchShutdown, Node.terminate).  (The iperf3 servers are ReducerManager's.)
StopLeavesNothing ==
    (pc = "off" /\ gen > 0 /\ died = "") =>
        /\ \A p \in veth : p.gen # gen
        /\ \A p \in procs : p.gen # gen
        /\ DOMAIN bridges \intersect NetSwitches = {}
        /\ \A s \in shells : s.gen = gen => s.node = C0

\* After a clean-up nothing that an earlier program left, wherever it died, stops the
\* next one, but a controller whose name the clean-up misses: of the four that
\* findController takes it kills the one, for two names are run together and the third is
\* not on the list.  No interface has the names the next program needs, no other
\* controller listens on its port, and the only shells are those of remote controllers of
\* programs that ended in order, which end as well (clean.py, makeIntfPair, checkListening).
Missed == {"ovs-controller", "test-controller", "ovs-testcontroller"}

CleanupMakesRoom ==
    /\ ~dirty /\ pc = "links" => (run.fast => \A l \in todo : Taken(l) = {})
    /\ ~dirty /\ pc = "controller" =>
          /\ DefaultController /\ checkListening => run.controller \in Missed
          /\ \A s \in shells : s.node = C0

\* port() numbers the links of every switch differently, with numbers a switch of k ports
\* has, and gives both ends of a link the same pair of numbers (FatTreeTopo.port).
PortsIdentifyTheLinks ==
    (IsFatTree /\ pc = "controller") => PortsIdentifyLinks(run.k)

\* A fat tree of an even degree has the links its layers are specified with, and any two
\* of its hosts are joined by as many paths as there are core switches (FatTreeTopo's
\* constructor, node_specs, isPortUp).
TheTopologyIsAFatTree ==
    (IsFatTree /\ run.k % 2 = 0 /\ pc = "controller") => IsFatTreeOf(run.k)

\* What is up is the network of the paper: a fat tree, link by link.
NetworkIsBuilt == TypeOK /\ BridgesMirrorTheTopology /\ TheTopologyIsAFatTree
=============================================================================
