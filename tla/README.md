# Specifications of the map-reduce test bed and its bandwidth programs

The repository holds a test bed for sharing bandwidth between the hosts of a tenant: a Python
scheduler that runs map-reduce jobs as iperf3 transfers in a Mininet network
(`MapReducerScheduler/`), a central program that divides a tenant's bandwidth between hosts
(`BGAdaptor/`), a program on every host that enforces what it is given and uses spare bandwidth by a
work conserving MPTCP subflow (`WCEnabler/`), what the two programs share (`Common/`), and the
kernel and Mininet files they change (`mptcp/`, `mininet/`).

This directory models the system in TLA+, checks the models with TLC on small instances, and proves
with TLAPS, for every value of the constants, what matters most.  Paths below are relative to
`src/`; where a file has an obvious directory it is left out.

## 1. Inventory

| Component | State it keeps | Operations | What makes it correct |
|---|---|---|---|
| Scheduler (`MapReduceScheduler.py`, `JobStatistic.py`, `HostStates.py`) | two lists of slots, Ready or Busy; the work queue; the statistics; the list of job threads; the queue of finished jobs; two running flags | admit jobs, find and take pairs of slots, start a job, give slots back, record results, reap threads, end a test, terminate | a slot has one holder and is Busy exactly while it has; started jobs have what they need; every result is in before the results are written; terminate joins everything; a job that is taken is started |
| Converter (`LinearAlgorithm.py`) | two ranges | size to bit rate | needs two sizes |
| Job (`MapReduceJob.py`) | the list of iperf3 clients, counters of passes and attempts | start clients, poll, time out, kill, retry, have the servers restarted, report | *done* means all succeeded; nothing is left running; it ends |
| Reducer manager (`ReducerManager.py`) | two server processes for each host, the kill list, a running flag | start, poll and restart servers; carry out kill requests; terminate | requests are carried out and none is lost; each port is served; nothing survives terminate, which returns |
| Files of a test (`JSONParser.py`, `IperfResultsParser.py`, `ResultsParser.py`, `FileConstants.py`) | logs of the clients, a directory for each job, pickled statistics, reports | clear, sort, parse, store, evaluate by hand | results are those of this test, of the right job and the last try; what a repeated evaluation needs is on disk |
| Topology (`FatTreeTopology.py`) | none | build the graph, number ports, name nodes | it is a fat tree; ports, addresses and dpids are unique |
| Network programs (`BandwidthShare.py`, `BWShareTest.py`, `node.py`, `util.py`, `clean.py`) | shells, controllers and agents, interface pairs, bridges, queues | build, start, share, stop, crash, clean up | the bridges are the topology; every port has the queues; nothing is left, and what a crash leaves is cleaned up |
| Shell of a node (`node.py`) | what it waits for, the last pid, what is in the terminal | start, send a command, monitor, mount, terminate | an answer is that of its command; every operation returns |
| Running programs (`util.py`, `node.py`) | two pipes and what was read of them | `errRun`, `quietRun`, `oldQuietRun`, `pexec`, `pexecNoWait` | all output, and the call returns |
| Host bandwidth handler (`HostBandwidthHandler`, `BandwidthGuaranteeHost`) | a map from addresses to demand, guarantee and delta, all atomic, with no lock | receive a demand; share equally; move bandwidth from donors to receivers; tell the hosts | shares and guarantees fit the tenant, a round makes no bandwidth, hosts know their guarantee, every host gets one |
| `ThreadHelper` | a running flag for each thread | create threads | a thread sees its flag raised |
| Communicator (`BandwidthCommunicator`) and `TCControl` | the last guarantee; the kernel's queues | receive and enforce the guarantee, send the rate | what is stored is enforced |
| Calculator (`BandwidthCalculator`, `SimpleRate*`) | two counters, three rates | read `tc`, sniff ECN | rates are those of the queues |
| Flow handler (`WorkConservationFlowHandler`, `ExponentialSmoothing*`, `BandwidthValues`) | the state of the flow, two averages; shared rates, guarantee and ECN flag | update and switch multipath | multipath follows the state; congestion keeps it off; no flow is left undecided |
| MPTCP path manager (`mptcp/`) | kernel structures | add subflows | - |
| Loggers, argument parsers, `PermissionChanger` | - | I/O | - |

How they interact:

* `BandwidthShare.py` builds the network, starts the bandwidth programs on the hosts and calls
  `runTest`, then `terminate`, then stops the network.  `runTest` is the *main thread* below.  It
  shares the slot lists, without a lock, with the thread of `handleJobQueue`, and the list of job
  threads with `handleJobThreads`.
* A job thread puts its `JobStatistic` in a queue; `handleJobQueue` takes it out and gives the job's
  slots back.  It appends to the kill list of the `ReducerManager`, another thread that walks this
  list and deletes from it.
* The iperf3 clients of jobs talk to the iperf3 servers of the reducer manager.  Slot index 0 is the
  server on port 5001, index 1 that on 5002.  Clients leave logs in `/tmp/<host>/`, which outlive
  the program; `runTest` sorts them into the output directory and reads the rates.
* Every host's `BandwidthCommunicator` sends its rate over UDP to the `HostBandwidthHandler` four
  times a second; the handler sends guarantees back.  A guarantee goes to `tc` and to the flow
  handler, through `BandwidthValues`, where the `BandwidthCalculator` puts rates and the ECN flag.
* A node of the network is a bash behind a terminal in a namespace of its own.  What the kernel and
  Open vSwitch hold (interfaces, bridges, queues, processes) outlives a program that dies.

The hard behaviours are the threads over unlocked lists, lists that shrink under their iterator, the
order in which threads are stopped, retries and time-outs, pairs of atomic fields that are not
updated together, unsigned arithmetic and fields that are not initialised, a terminal that cuts its
output anywhere, pipes that fill, datagrams that are lost, and what programs that died leave on disk
and in the kernel.  `PROJECT.json` lists each under "hazards", at its line, with the properties that
would catch it.

## 2. Modules

| Module | Models | Abstracts |
|---|---|---|
| `SlotPool` | what the scheduler promises about slots | the threads |
| `Scheduler` | `MapReduceScheduler.py`: main thread, queue thread, reaper, job threads as seen from outside | byte counts, file contents |
| `MapReduceJob` | `MapReduceJob.py`: one job thread and its clients | iperf3's output, clocks |
| `ReducerManager` | `ReducerManager.py`, `terminate` included | iperf3 |
| `TestRun` | what `runTest`, the parsers and `ResultsParser.py` do with files | how jobs are placed, numbers |
| `FatTreeTopo` | `FatTreeTopology.py`, as operators | - |
| `Network` | the life of a network and of the programs on it, `clean.py` | packets; Mininet's classes that are not in the repository |
| `ErrRun` | running other programs | what is written |
| `NodeShell` | the shell of a node; `ErrRun` beside it | text |
| `HostBandwidthHandler` | both threads of `HostBandwidthHandler.cpp`, its constructor, `ThreadHelper::startDetachedThread` | the network |
| `WCEnabler` | `BandwidthCommunicator`, `TCControl`, the rates of `BandwidthCalculator` | packets, `tc` output |
| `BandwidthSharing` | `HostBandwidthHandler` and the `WCEnabler`s of its hosts over a lossy network | what hosts demand |
| `WorkConservationFlowHandler` | the flow handler and how the other threads set what it reads | packets |

`MC...` modules give the constants of a run their values.  `...Proofs` modules hold the theorems of
the module they are named after; those of `FatTreeTopo` are in `NetworkProofs`, those of
`BandwidthSharing` in `HostBandwidthHandlerProofs`, and those of `MapReduceJob`, `ErrRun` and
`NodeShell` in `ProcessProofs`.  `Network` extends `FatTreeTopo`, `NodeShell` extends `ErrRun`, and
`BandwidthSharing` extends `HostBandwidthHandler` and takes `WCEnabler` as an instance with the
hosts of the adaptor.

`PROJECT.json` "map" gives, for every definition, the lines it stands for.  Definitions whose
comment begins with "Faulty:" are not part of a model: each is a plausible bug that replaces a
definition below it in a mutated model, in which the named property must fail.

### Scheduler

An action is what a thread does between two moments at which another thread could see or change
something it uses.  The main thread looks at one slot per step, in the order of
`findContributingPair`: mappers from host 0 on, reducers from the last host down to 1 (`xrange( n -
1, 0, -1 )` never reaches host 0).  `TakePair` is one step although the code marks two slots: only
the main thread marks slots, and the two scans have ended.  Statistics are objects: `statistic`
holds them in the order of creation and `jobStats` says which of them is at each place of the list,
as `RecordStatistic` replaces places by name.  The queue thread frees one slot per step.  A work
file is a sequence of lines of a job, its bytes and the bytes to reduce; `Admitted` is the test of
`__processJobs`.  A job thread runs, puts its statistics and dies (`JobPut`, `JobExit`).

`reducerManager.terminate()` is taken to return here; `ReducerManager` shows when it does not. When
`runTest` itself terminates, the second call of `terminate` (`BandwidthShare.py:342`) ends in an
error or does nothing: `TerminateManager` allows both.

`SlotPool` says that slots have one owner, jobs are served in the order of the queue, each in pairs
on different hosts, and only a job that is over loses slots.  `Scheduler` implements it: the owner
of a slot is the job whose list still holds it (`MapperOwner`), a job is over once it has put its
statistics.

### MapReduceJob

`mappers` is the Python list, `place` the iterator's position, which stays the same as `count`: a
client that has exited is deleted and the next one skipped in this pass.  `EndPass` is everything
after the `for`.  `sameCounter` is reset by no pass, as in the code: it is counted over an attempt.
`passes`, a history, is counted as far as `PassesCounted`, one more than it can reach.
`ToKill` and the crash in `TerminateMapper` stand for `Popen.kill` on a process that was waited for.
The 100000 passes of the code are `MaxSamePasses`; nothing depends on their number but that it is
positive.  `killReducers` appends one request for each server to the list of the manager, which
carries it out later (`ManagerRestarts`): what the job can rely on is when it has asked, not when
servers are restarted, and `ReducersAreAskedInTime` speaks of both counts together.  External: a
client runs, succeeds, fails or hangs.

### ReducerManager

Each server has a process (`none`, `starting`, `listening`, `exited`, `reaped`) and the port it was
started with.  External: a server listens if its port is free on its host, and exits otherwise; the
servers in `ExitingServers` may also exit by themselves.  `terminate` is split where the code looks
the process up in the list again (lines 20 and 21), because the manager's thread may have replaced
it.  Jobs append any of `KillTargets` to `killList` at most `MaxKillRequests` times, also both
servers of one host, and start after the servers are up (`BandwidthShare.py` pings all pairs twice
before). `killed` and `exited` are histories: `MaySwap` holds of a server that was killed when the
other one of its host was killed, too, or had exited, for then the swap of ports may stay (section
3).

### TestRun

A log is a file in `/tmp/<host>/`, named after its job, host and port; what counts of its contents
is which programs wrote to it and whether its first and its last client ended in a rate, because
clients append. The parser looks for the rate in the fourth line from the end (`HasRate`).  Jobs are
named "job" and digits, and a name is the sequence of its digits, so that `job1` is the beginning of
`job12`: `IsLogOf` is the search with `find` and the comparison of the digits.  `TryJob` is one try
of a job by all its clients; a job is placed on any of the sets `Clients`, once for the whole test,
and is tried `Threshold` times.  After the jobs the stages follow one another as in `runTest`
(`NextStage`).

The directory is named in one of three ways: with a slash at its end, with a slash in the middle
(the report, whose name holds it, cannot be opened: `IOError`), or without a slash (the job's
directories are made beside it, where the clearing of the next test does not reach).  `Die` is an
exception or a kill at any step; `Raise` says which exceptions the program catches. `ResultsParser`
is the evaluation by hand of an old directory.

`clearTestFolder` prints an error of `rmtree` and goes on.  `rmtree` stops at the first thing that
it cannot remove, so that any directories of jobs may be left, of which one has lost some of its
files (`RemovedInPart`; `MaxLeft` bounds how many logs are left, for TLC only); `cleared` remembers
whether it removed all.  If it did not, the parser may find the directory of a job that this test
does not have, for which `findJob` returns None, and dies of an `AttributeError`; or it counts logs
of an earlier test.  What holds all the same is said by the properties, which use `cleared` where
they need it.

### FatTreeTopo

A node is the triple of `FatTreeNodeID`; a name, an address and a dpid are numbers made from it.
Layers are sets of nodes, and the links are those the constructor adds, odd degrees included (`//`
is `\div`). `port` gives the two ports of a link, `IsFatTreeOf` is the reference: the numbers of
links and neighbours of each layer, what the parity of a port tells, and that any two hosts are
joined through any core switch.  No operator is recursive.

### Network

`pc` is what the program does now and `todo` the nodes, links or interfaces that are left of it;
`First` takes them in the order of the loops.  `run` holds the program (`BandwidthShare` with a
degree, or `BWShareTest` with `MySingleSwitch` and one of the local controllers) and whether the
links are made by Mininet's fast function.  The rest of the state is the kernel's: `shells`,
`procs`, `veth` (interface pairs with the run that made them; a pair that never was moved has run
0), `bridges` and `tc`.  `PodCounts` are the degrees.  The steps are, in their order, the
controller, nodes, links, addresses, start of the controller, of the switches, `batchStartup`,
queues, agents; the test; stopping the controller, deleting links, `batchShutdown`, terminating
hosts.

A program dies by itself if its controller's port is taken, an interface's name is, or the third try
to move an interface fails; and by `Crash` at any step.  `OrphanShellsExit`: bash reads the end of
its input.  An agent that a crashed program started goes on, which keeps the namespace of its host
and the pair in it.  The clean-up is processes by name (`zombies`, the names as the literals in
`clean.py` really are), bridges, interfaces, and then the shells: `killprocs` kills them (`pkill`),
they die one after the other (`KilledShellDies`), and it ends when `pgrep` finds none.  The local
controller is one of the four that `findController` looks for.

External, as they are not in the repository: `Mininet`, `Topo`, `Link` and `TCIntf`, of which the
model has the order in which they call the nodes and links; Open vSwitch, which replaces the queues
of a port, and `tc`, which refuses what does not fit (`Execute`).

### ErrRun and NodeShell

`ErrRun` has one parent and one child.  The child writes to two pipes (or one, if the function
merges them) in any order and waits for one that is full.  The parent polls, takes each event, reads
until it has `ReadSize` or the end, and waits for the child; `oldQuietRun` and `pexec` have their
own loops. What was written is counted.  A child may write more than its pipes hold to both of them
(`Scripts`); `errRun` and such a child may wait for each other for ever (`util.py:133`), a state
that `EachWaits` describes.

In `NodeShell` the node, bash and programs in the background share a terminal of `PtySize` tokens.
A token is a piece of text, the job line, the two parts of the marker `^A<pid>` or the sentinel.
`Chunk` is what one `read` returns, cut anywhere.  `monitor` keeps a marker that is not whole
(`data`) and takes marker and sentinel out.  `startShell`, `mountPrivateDirs` and `terminate` are
sequences of commands (`rest`) between `sendCmd` and `waitOutput`.  A directory given as a tuple
needs a mount point and a directory of the host machine (`MountsOf`).  Between calls of `cmd` the
thread may call what `ErrRun` has.

### HostBandwidthHandler

Every load and every store of an atomic field is a step, as in `setDemand` and `setGuarantee`, which
store and then compute the delta from loaded values; `operator[]`, which puts a host into the map,
and `setAddress` are two.  Integers are unsigned of `Word` values, a report may be any of them, and
the deltas and their sum (`contribution`, an `int` of the code) are signed, as after the code's
cast, and wrap around.  The hosts are numbered in the order of the map.  What a thread loaded is set
back to 0 after its last use, to keep states few; nothing reads it.  A demand may be lost: any host
may be the next that is heard.  What the adaptor sends arrives; a lost guarantee is left to the
composition with the hosts.  `MaxRounds` bounds the rounds that are looked at: with the bound
reached the send thread stops.  The destructor is not modelled: the program leaves right after it.

### WCEnabler and BandwidthSharing

`parts` is what there is of the queues of a host, `ceil` the rate of class 1:11, `sent` the
counters. `Clear` and `Add` are the commands of `clearTCCommands` and `setEgressBandwidth` one by
one (`After`), each seen by the thread that reads the counters; `TcAdds` is what `tc` accepts.
`Receive` stores the guarantee and leaves an equal one alone.  The counters start again with their
class, and a rate is a difference modulo `Word`; that the rate goes through a float is kept only
where it matters (`Rates`).  A pass takes 1 or 2 seconds of the code's clock.  `Start`: a thread may
end at once.

`BandwidthSharing` joins the adaptor to one `WCEnabler` for each host.  `Hear` is a report that
arrives: any number may be lost before it, and it may come at any time after it was sent.  `Tell`
puts a guarantee on its way or loses it, and `Deliver` is its arrival.  Allocation is static, so
that each host is told once, and hosts are idle, so that what they report is 0.

### WorkConservationFlowHandler

`SetState` is `setState` with the way `NewWCFlow` leads on at once; the switch that `system()` makes
is a step of its own, since the ECN flag may be raised before it.  The uninitialised `_currentState`
may hold any value at the start: `switched` tells whether the handler has switched multipath yet,
which the constructor does only if the memory happened to hold another state than the first.  `beta`
and the safety factor are both 0.05, so products are taken with `InverseFactor` = 20 on the other
side.  An alpha of 1 (the code's constructor argument) makes `ExponentialSmoothing` the plain
quotient that `Smoothed` is; a pass takes a time of 1 or 2 seconds, the code's clock being in
seconds and a difference of 0 being taken as 1.  External: the shell has run the `ip` command when
`system()` returns, and multipath is on until it is switched off.

## 3. Runs

Passing runs:

| Run | Instance | States (depth) | Shows |
|---|---|---|---|
| `scheduler` | 3 hosts, 6 work files: three jobs of 1, 3 and 1 hosts among lines that admit none and one behind the limit; a job of 2 hosts and one of all 3; two jobs of one name; two of one size (the converter divides by zero); one job; none | 107,472 (73) | `SlotsAreSound` (type, one holder, Busy exactly while held), `JobsArePlaced`, `RunIsComplete` (results are final, terminate joins all), refinement of `SlotPool`, `TakenJobStarts` and `RunEnds` (but for the search that cannot end, `SearchesForEver`) |
| `job` | 3 mappers, 4 attempts, time-out after 3 passes | 33,132 (72) | `DoneMeansAllSucceeded`, `ClientsAreReaped` (no client is left, none is signalled twice), `ReducersAreAskedInTime`, `AttemptsAreBounded`, `JobEnds` |
| `manager` | 2 hosts, 3 requests to kill any of the two servers of one, of which one may also exit by itself | 225,402 (69) | `ServersAreSound` (jobs find a server on the port they use), `PortsComeBack`, `ManagerStops`, `DropsOnlyWhatItKilled`, `RequestsAreCarriedOut` |
| `bga_static` | the adaptor and 2 hosts over a lossy network, 5 units of bandwidth, static | 59,902 (58) | `LimitsNeedEveryHost`, `StartsOnceAllReport`, `ToldHostsEnforce` |
| `bga_dynamic` | 3 hosts, demands of which one wraps the delta and two of those the sum, one round | 7,663,022 (109) | `RoundsMoveBandwidth`, `AllocationIsKnown` |
| `wc_queues` | 1 host, guarantees 0, 1 and 2 in any order, 4-bit integers | 666,564 (76) | `QueuesEnforceTheGuarantee`, `SpikesPass` |
| `wc_flow` | 3 rates, 2 guarantees, any first state | 92,679 (21) | `FlowIsSound`, `CongestionKeepsItOff`, `NewFlowsAreDecided` |
| `network` | fat trees of degree 2, 3 and 4 and the single switch, both ways to make links; degree 2 and the single switch with up to two programs and crashes; a controller that the clean-up kills and one that it does not | 682,297 (579) | `NetworkIsBuilt`, `SwitchesQueueByTos`, `AgentsReachTheAdaptor`, `StopLeavesNothing`, `CleanupMakesRoom`, `PortsIdentifyTheLinks` |
| `shell` | 2 private directories, 2 commands, a terminal of 3 tokens read by 2; pipes of 2, children that write 4 | 304,083 (89) | `NodeIsReady`, `AnswersAreTheCommands`, `OutputIsComplete`, `EveryOperationReturns` |
| `test_run` | 2 hosts, jobs on one or both; two tests in `plain/`, one in each of the other directories; an `rmtree` that leaves at most one log | 2,500,601 (37) | `LogsAreSound`, `ResultsAreOfThisTest`, `DoneJobsAreMeasured`, `EvaluationCanBeRepeated` |

Why the bounds are enough.  Three hosts have six mapper slots and four usable reducer slots, so that
the third job must wait; they are the least odd number for which a job of all hosts can be placed or
not, and a mapper and a reducer on one host are found and turned down.  Three mappers are the least
number with a client that is skipped and another behind it.  Three requests are enough for one to be
skipped, one to be appended behind it and one to be deleted out of turn, and for both servers of a
host to be killed and one of them again.  Three hosts are the least number with more donors than
receivers and more receivers than donors.  One round suffices for `RoundsMoveBandwidth` in the run:
the reports before and during it may have set demands and deltas to anything; the theorem is about
all rounds.  With a share of 3 modulo 64, the demand 51 makes a host a donor of 16 or 13, so that
two of them add up to 32, which is -32, or to 29.  In `bga_static` 5 does not divide by 2, one host
can be lost while the other is not, and what the send thread waits for is a number of hosts, not
which.  One host suffices for `wc_queues`, since hosts share nothing; three guarantees are a value,
the next value, and 0, and `Word` = 16 lets a difference wrap.  Degree 4 is the first fat tree with
more than one path, 3 has ports that are left over, 2 is small enough to crash it at every step; two
programs are one that leaves something and one that meets it.  Output of 2, chunks of 2 and a
terminal of 3 cut every marker and sentinel at every place and let bash wait for room; a child that
writes 4 can fill both of its pipes of 2 and must wait if it has one. `job1` and `job12` are the
names of which one begins the other, in both orders; two tries are a failure and what follows it;
one log that `rmtree` leaves is of a job that the next test has or does not have, and is overwritten
or not.

Runs in which a statement of the repository is refuted:

| Run | Property | What happens |
|---|---|---|
| `bga_wrap` | `GuaranteesFitTheTenant` | a donor with less than the average donation has it taken from an unsigned guarantee, which wraps |
| `wc_busy` | `BusyHostsAreNotSufficient` | what is smoothed is the difference of rates, so a constant rate has an average of 0 |

More disagreements.  The models contain these, or their constants are chosen to leave them out, and
no run is spent on them.

In the scheduler and its servers:

* A job that needs all of an odd number of hosts is admitted (`MapReduceScheduler.py:202`); its last
pair may be on one host, and the main thread then searches for ever (`:246`).  The run `scheduler`
has such a job, and `TakenJobStarts` and `RunEnds` name the state in which it is stuck
(`SearchesForEver`) and show that there is no other.
* Jobs of one size make the converter divide by zero (`LinearAlgorithm.py:13`), which is no
  `LookupError`: the main thread ends without `terminate` and without `net.stop()`
  (`BandwidthShare.py:339`), and the other threads run on.
* `len( self.workQueue ) == True` (`MapReduceScheduler.py:303`) refuses a queue of one job as empty
  (`QueueLengthIsTrue`), after the old results are gone.
* The results of two jobs of one name go to one place (`MapReduceScheduler.py:120`,
  `RecordStatistic`).
* A killed server is started with the other's port (`ReducerManager.py:66`).  If the other one
  listens there the new one exits and is started with its own; but if both are killed, or one is
  while the other is down, one server may take the other's port for good, and the two may want one
  port, of which only one gets it.  The run `manager` has these cases, and `MaySwap` says when ports
  may be swapped: no server is on the wrong port for any other reason, and one port of a host comes
  back even then (`PortsComeBack`); nothing is claimed of the other one, which may never be served
  again.
* `terminate` waits for a server it has not killed when the manager replaces it in between
  (`ReducerManager.py:21`), and a server that is started behind its back survives (`:17`,
  `TerminateJoin`).  `ManagerStops` is about the manager.
* A request is carried out up to a quarter of a second per entry later (`ReducerManager.py:62`); the
  slot may belong to another job by then.  The iperf3 servers write to a pipe that nobody reads
  (`:27`).
* Two clients of one job with one reducer index write to one log (`MapReduceJob.py:78`).

In the bandwidth programs:

* A host is put into the map before its address is stored (`HostBandwidthHandler.cpp:114`); with
  static allocation its only guarantee (`:188`) may go to an address of zeros, so not every host is
  told.
* A thread that looks at its flag before the constructor has raised it exits
  (`ThreadHelper.cpp:65`).
* `_currentState` is compared before it is set (`WorkConservationFlowHandler.cpp:114`): if its
memory happens to hold the first state, multipath is not switched off.  `FlowIsSound` says what
holds then: multipath is on until a new flow is decided.  The comment at line 204 and the condition
below it are reversed.
* The guarantee is 0, not the *large value* of the comment at `BandwidthValues.h:21`, until the
  adaptor sends one, and the flow handler conserves work at once.
* A host that is told 0 has no class 1:11, since `tc` refuses a rate of 0: it is not limited, and
  its counters are not parsed any more, so its last rate stays.
* Rates are bytes per pass of 250 ms, since the time is taken in seconds and a difference of 0
  counts as 1, though `BandwidthCalculator.h:107` says bytes per second; guarantees are kbit.  A
  rate of 2^32 - 1 is rounded up to 2^32 by the float, which no unsigned integer holds.  A counter
  of ten digits or more overruns the buffer it is parsed into (`BandwidthCalculator.cpp:191`).
* Destructors never run because `main` leaves by `exit`, so the queues of a host stay.

In the network and the files:

* `errRun` waits for ever if its child fills one pipe while the other is read (`util.py:133`);
  `EveryOperationReturns` allows for this state (`EachWaits`) and for no other.
* `retry` gives up after the third failure though it tries once more, and does not look at how that
  went (`util.py:240`).
* Two names in `clean.py:54` are two literals run together, so that `ovs-controller` and
  `ovs-testcontroller` survive; `WCEnabler`, `BGAdaptor` and `BandwidthShare.py` are not named at
  all.  `CleanupMakesRoom` allows for these controllers (`Missed`) and shows that no other one, and
  nothing else, stops the next program.
* A RemoteController's shell is stopped by nobody and ends with the program (`StopLeavesNothing`).
* Nobody looks at what the commands of the queues returned.  `batchStartup` reads `commands`, while
  `start` saves them in `cmds` (`node.py:1234`), which no program here reaches.
* `port` numbers links differently from the ports switches really have, and nobody calls it;
  `isPortUp` is wrong for core switches; an odd degree leaves ports unused; from degree 12 interface
  names exceed 15 characters.
* `setupHostMachine` is given 1 and compares with `'1'` (`BandwidthShare.py:199`).
* Without a slash at its end the output directory has the jobs' directories beside it; with one in
  the middle the report cannot be opened; a job without logs divides by zero
  (`IperfResultsParser.py:77`).  Such an exception skips `terminate` and `net.stop()`.  The loops
  that would wait and try again use `time`, which is not imported (`FileConstants.py:22`,
  `JSONParser.py:220`).  An error of `rmtree` is only printed (`MapReduceScheduler.py:270`): logs of
  an earlier test may then be counted, or its jobs end the parser with an `AttributeError`.  A log
  without a rate is counted in the average (`IperfResultsParser.py:49`).

Deadlock.  `Scheduler` and `MapReduceJob` are checked for it: their last states stutter explicitly
(`Finished`, `Over`).  `Network` is, too: it never waits, and after the last program the clean-up
can always be run. The others have `CHECK_DEADLOCK FALSE` because the system may really stop: the
manager and its main thread are over or have crashed; the adaptor waits in `recvfrom`, its threads
may have exited for good and its rounds are bounded; a host's threads may have exited; the shell has
been terminated and the bound on commands is reached; the last test has ended.  `wc_flow` is checked
for deadlock.

## 4. Fairness

* `Scheduler`: weak fairness of each thread, which the operating system schedules, and of each job,
  which ends because of `JobEnds` in `MapReduceJob`.
* `MapReduceJob`: weak fairness of the job thread only.  Clients may hang.
* `ReducerManager`: weak fairness of the manager and of the main thread's `terminate`, and of a
  started server that comes to listen or exit.  No job need ask, no server need exit, and the test
  need not end.
* `HostBandwidthHandler` in `BandwidthSharing`: weak fairness of the constructor, both threads, the
  threads of the hosts and the arrival of a datagram that is not lost; strong fairness of hearing
  each host, which sends its rate four times a second, so that not all are lost.  Of guarantees any
  may be lost. `StartsOnceAllReport` and `ToldHostsEnforce` assume that no thread lost the race at
  its start.
* `WCEnabler`: weak fairness of each thread.  Guarantees may come or not, and traffic too;
  `SpikesPass` speaks of guarantees that settle.
* `WorkConservationFlowHandler`: weak fairness of the update thread.
* `Network` has no fairness and no liveness property: its program does not wait for anything that
  is modelled, and that a clean-up ends is up to the kernel, whose killed shells must die.
* `NodeShell`: weak fairness of the thread, of bash and of a child.  A program in the background
  need not print.

## 5. Proofs

Every safety invariant and every action property the passing runs check, and the refinement of
`SlotPool`, is a theorem of the specification for every value of the constants; what a theorem
assumes beyond the named assumptions of its module is said below.  The invariants named here are
inductive; each `...Proofs` module has a lemma that the initial states have it and one that every
step keeps it, action by action.

`SchedulerProofs`, for every number of hosts, size of a host's part, limit of jobs and every work
file (`SchedulerAssumption`):

* `TypeCorrect`.  `TypeOK` is not inductive alone.  That `mapperSlot` is Ready when it is taken, and
  that there is a job in hand while slots are looked for, is `SearchOK`; `TypeInv` is both.
* `JobsAreAlwaysPlaced`, from `JobInv`: a job is in the queue or in the hands of the queue thread
  once (`QueueOK`), only the job being assembled is new (`AssemblyOK`), what is at a place of
  `jobStats` has the name of the job that was put there (`NamesOK`) and mappers and reducers come in
  pairs (`PairsOK`).  `NamesOK` is why the queue thread cannot overwrite the place being assembled:
  it only writes statistics over the first of their name, and if that place were the last one, there
  would be no earlier place of that name, the job's own included.
* `SlotsAreAlwaysSound`, from `JobInv` and `OwnInv` = `BusyIffHeld /\ OneHolder`. Neither is
  inductive without the other: taking a Ready slot keeps `OneHolder` because no one holds a Ready
  slot, and freeing a slot keeps `BusyIffHeld` because no other holds it.
* `RunsAreComplete`: when results are written no job can add to them, and terminate joins every
  thread.  A thread has exited only with its flag down and its list empty (`StopOK`); what the main
  thread has behind it was joined or is known to run still (`JoinOK`); and a job that is not over
  has its thread in the list that the reaper empties (`ThreadsOK`).
* `SchedulerImplementsSlotPool`: every step is one of `SlotPool` or leaves it alone.  The owner of a
  slot is read off the jobs' lists by `CHOOSE`; `OneHolder` makes it the one job that has the slot
  (`OwnersKnown`), so that an append or a deletion changes the owner of one slot and of no other.
  The queue of `SlotPool` is bounded because a file admits no more jobs than the limit
  (`JobsAreFew`).

`ProcessProofs`, of what the test bed does with other processes.  Of `MapReduceJob`, for every
number of mappers, attempts and passes (`JobAssumption`):

* `JobTypeCorrect`, from `CountInv`: the counters are bounded by where the thread is.
* `ReducersAreAlwaysAskedInTime`, from `AskedOK`: what is in the manager's list and what it has
  carried out add up to what is due at this point (`Due`), whichever of the two moves.
* `AttemptsAreAlwaysBounded`, from `PassesOK`: every pass is one that was the same or one in which
  the list got shorter, and it can get shorter only once for each client.
* `DoneJobsHaveSucceeded`, `ClientsAreAlwaysReaped`, from `ClientInv`: the list holds each client
  that was not waited for exactly once, and a client not in it was waited for and, while there is no
  error, succeeded.  The list lemmas `WithoutElements` and `WithoutInjective` carry the deletion
  under the iterator.

Of `ErrRun` and `NodeShell`, for all sizes of pipes, reads and the terminal and whatever programs
print (`PipeAssumption`, `ShellAssumption`):

* `OutputIsAlwaysComplete`, from `ErrInv`: what the child wrote is in the pipe, in the read that is
  under way or with the parent (`CountOK`), and the parent takes a pipe for done only when it is
  empty and closed (`EndOK`).
* `NodeIsAlwaysReady` and `AnswersAreAlwaysTheCommands`, from `ShellInv`.  The invariant speaks of
  the *stream*: what `monitor` holds of an unfinished marker, what is in the terminal, and what bash
  has not printed yet.  Behind a sentinel there is only noise, and markers are in one piece
  (`StreamOK`), wherever a read cut them; what was returned, followed by the text of the stream, is
  what the command prints (`AnswerOK`); the pid was taken or is in the stream (`PidOK`); and the
  commands that are left make what they mount on before they mount it (`MountsOK`).  The lemmas say
  what `Dropping` takes out of a stream and what `FlattenSeq` makes of the private directories.

`ReducerManagerProofs`, for every number of hosts, requests and servers that exit
(`ManagerAssumption`):

* `ManagerTypeCorrect`: the places of the walks lie in lists that shrink under them (`AtOK`).
* `OnlyWhatWasKilledIsDropped`: a step that shortens the kill list took out the request that was
  just carried out.  The number of requests for a server is compared by an injection between their
  places before and after.
* `ServersAreAlwaysSound`, for any requests, also of both servers of a host.  `PortsInv` is
  inductive: while jobs run, a server that was neither killed nor has exited (`Steady`) listens on
  its own port (`JobsOK`), so that the successor of the other one of its host, started with that
  port, cannot listen and exits; and a server that was waited for is restarted with its own
  (`RestartOK`).  What is left is `MaySwap`, which the property names.

`HostBandwidthHandlerProofs`, for any hosts, demands and width of a word (`HandlerAssumption`):

* `AllocationIsAlwaysKnown`: both threads are type correct, unsigned values, signed deltas and their
  sum stay in their ranges, whatever hosts report up to the last number of a word, and between
  rounds every host that was told anything knows its present guarantee.  A round is begun only with
  a positive sum (`RoundOK`), so that what is divided is not negative; `KnownOK` says which hosts
  have a guarantee they were not told yet.
* `RoundsAlwaysMoveBandwidth`, of every round: the hosts that are not donors get what the donors
  were found to have, and where the donors are as many as the receivers they lose it, but for what
  the two divisions drop, modulo a word.  In the round the guarantee of every host is what it was
  told last but for what has been taken from it or given to it (`MovedOK`), and since every step is
  exact modulo a word nothing is lost when a value wraps around.  Sums over sets of hosts are folds,
  of which the lemmas say what one host adds.  Of donors that are fewer than the receivers the code
  sets the guarantee to their demand of that moment, while what is given comes from the deltas of
  before: nothing is claimed of what they lose.
* `LimitsAlwaysNeedEveryHost`, of `BandwidthSharing`, assuming static allocation: `SharingInv` adds
  that there is no round (`StaticOK`) and that what is under way to a host, stored and enforced
  there is what it was told (`AgentsOK`).

`WCEnablerProofs`, for any hosts, guarantees and word (`AgentAssumption`):

* `WCTypeCorrect`, and `GuaranteeIsEnforced`: the invariant `Ladder` says which parts of the queues
  there are at each command, and that a class added since the guarantee was stored has its rate.

`WorkConservationFlowHandlerProofs`, for any rates and guarantees (`FlowAssumption`):

* `FlowIsAlwaysSound`, for any value of the uninitialised state.  `AgreementOK` says at which steps
  the switch and the state may differ, and what the state may be before the first switch.

`NetworkProofs`, for any degrees, installed controllers and number of programs
(`PodCountsAssumption`, `MaxRunsAssumption`).  Of the topology alone:

* `LayersAreDisjoint`, `DpidRoundTrip` (degrees up to 255, since a dpid gives a byte to each part),
  `PortsAreDistinct`, and `EvenDegreesMakeFatTrees`: for every even degree the links make the
  reference, `IsFatTreeOf`; the links of a node are counted by bijections.
* `PortsAlwaysIdentify` and `TheTopologyIsAlwaysAFatTree`, the same for every network a program
  builds.

Of the life of a network, from `ControlOK`, which says what `todo` may hold at each stage:

* `StopAlwaysLeavesNothing`, from `LeftInv`: what there is of the present run belongs to nodes and
  links that the stop has not come to yet.
* `CleanupAlwaysMakesRoom`, from `RoomInv`, for any of the four controllers: pairs
  (`PairsWhere`), shells (`ShellsWhere`) and controllers (`ControllersWhere`) are only where the
  clean-up has not been, except for controllers of a name in `Missed`.
* `SwitchesAlwaysQueueByTos`, from `TcOK`: the interfaces behind the loop have the two queues.
* `AgentsAlwaysReachTheAdaptor`, from `AddressesOK`, for which addresses are those of the nodes
  that are behind the loop, and `AgentsOK`.
* `BridgesAlwaysMirrorTheTopology` and `NetworkIsAlwaysBuilt`, for degrees up to 255, from `NetInv`:
  the links behind the loop have one pair of this run and no other, whatever earlier programs left
  (`VethOK`), interfaces and bridges are those of the links made (`IntfsOK`, `BridgesOK`), and hosts
  keep their shells (`HostsUp`).

`TestRunProofs`, for any hosts, clients, work files, tries and tests that died
(`TestRunAssumption`), all from `TestInv`:

* `LogsAreAlwaysSound`: what is in the directories inside the one of the test is a copy of a log, or
  was left there by an `rmtree` that failed (`MirrorOK`), and each log is copied or still to be
  (`FoldersOK`).
* `ResultsAreAlwaysOfThisTest`: only clients of this test have written to what is a log (`LogsOK`),
  because an earlier one's were removed before the first job; and nothing that was left in a
  directory was written by this program, since no file is of a program that is still to come
  (`AgesOK`).
* `DoneJobsAreAlwaysMeasured`: a job that is done has a rate at the end of each log (`LogsOK`), and
  its row has all of them, and no other if `rmtree` did not fail (`ResultsOK`, `CopiesOfAJob`).
* `EvaluationsCanAlwaysBeRepeated`: `StatisticsOK`, what is stored is what was measured.

Induction over sequences, sets and numbers is written out where it was needed, since the library's
induction theorems take an operator and cannot be used: a least counterexample among the natural
numbers (`LeastNumber`, `MinimumExists`, `LeastExists`).

Only model-checked is every liveness property, since temporal reasoning under fairness and ENABLED
are out of TLAPS's reach: `RunEnds`, `TakenJobStarts`, `JobEnds`, `PortsComeBack`,
`RequestsAreCarriedOut`, `ManagerStops`, `StartsOnceAllReport`, `ToldHostsEnforce`, `SpikesPass`,
`NewFlowsAreDecided`, `CongestionKeepsItOff`, `EveryOperationReturns`.

## 6. Not modelled

`PROJECT.json` lists every component with its status.

* The MPTCP sources are kernel files with a small local change; the locks and sockets they run under
  are not in the repository, so their interleavings cannot be modelled from here.
* Pure I/O: loggers, argument parsing, `PermissionChanger`, the commands `BWShareTest.py` sends once
  its network is up, which measure and assert nothing.
* Code that no program here runs: `setupHostQueues`, `DataRateCalculator`, the functions of the
  parsers named in `PROJECT.json`, and of `node.py` the user and kernel switches, NAT, CPU limits
  and the batch start.  `sendInt` is left out of `NodeShell`.
* The destructors of the adaptor's and the enabler's objects, which never run.
* The formula of the converter: how many hosts a job needs is a constant of `Scheduler`.

## 7. Plan

What is left, in this order:

1. `MapReduceSystem`: `Scheduler`, jobs and `ReducerManager` composed.  A request that is carried
   out late kills a server whose slot belongs to another job by then (`ReducerManager.py:62`).
2. Proofs: a condition on demands under which no guarantee wraps around, and that the dynamic
   allocation then gives no host more than the tenant has; the invariants of `MapReduceSystem`.
3. `BandwidthSharing` with dynamic allocation and datagrams that are reordered: a host that keeps an
   older guarantee than the last.
