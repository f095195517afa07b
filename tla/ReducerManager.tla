--------------------------- MODULE ReducerManager ---------------------------
(***************************************************************************)
(* The thread of src/MapReducerScheduler/ReducerManager.py, which runs two  *)
(* iperf3 servers on every host: it restarts the servers that have exited   *)
(* and those that jobs ask it to kill, until the main thread terminates it. *)
(* What an iperf3 server does is external: it listens, or exits if another  *)
(* server of its host has its port.                                         *)
(***************************************************************************)
EXTENDS Integers, Sequences, FiniteSets, SequencesExt

CONSTANTS
    NumberOfHosts,     \* those with reducers: len( hostList ) - 1
    KillTargets,       \* the reducers that jobs ask to kill
    MaxKillRequests,   \* how often they do, in all
    ExitingServers     \* the reducers whose server may exit by itself

Hosts == 0 .. NumberOfHosts - 1
Servers == Hosts \X {0, 1}

ASSUME ManagerAssumption ==
    /\ NumberOfHosts \in Nat \ {0}
    /\ KillTargets \subseteq Servers /\ ExitingServers \subseteq Servers
    /\ MaxKillRequests \in Nat

VARIABLES
    process,    \* reducerList: what has become of the process of each server
    port,       \* the port it was started with
    killed,     \* history, up to terminate(): the servers that were killed on request,
    exited,     \* and those that exited by themselves
    killList,
    requests,   \* how many requests have been appended to it
    running,    \* handleReducersThreadRunning
    pc,         \* where the thread of the manager is
    at,         \* the server it is at
    place,      \* its place in killList
    mainPc,     \* what the main thread does about the manager
    mainAt      \* the server at which its terminate() is

historyVars == <<killed, exited>>
serverVars == <<process, port, historyVars>>
listVars == <<killList, requests>>
managerVars == <<pc, at, place>>
mainVars == <<mainPc, mainAt, running>>
vars == <<serverVars, listVars, managerVars, mainVars>>

Ports == {5001, 5002}

\* The port that a job tells its mappers to use for the reducer.
PortOf(server) == IF server[2] % 2 = 0 THEN 5001 ELSE 5002

First == <<0, 0>>
After(server) == IF server[2] = 0 THEN <<server[1], 1>> ELSE <<server[1] + 1, 0>>
Other(server) == <<server[1], 1 - server[2]>>

Init ==
    /\ process = [s \in Servers |-> "none"]
    /\ port = [s \in Servers |-> PortOf(s)]
    /\ killed = {} /\ exited = {}
    /\ killList = <<>> /\ requests = 0
    /\ running = TRUE
    /\ pc = "start" /\ at = First /\ place = 1
    /\ mainPc = "setup" /\ mainAt = First

Alive(server) == process[server] \in {"starting", "listening"}

\* Faulty: only a process that has been waited for counts as ended.
EndedWhenReaped(server) == process[server] = "reaped"

\* A process that has ended stays a zombie, which can be signalled, until it is waited for.
Ended(server) == process[server] \in {"exited", "reaped"}

Noted(history, server) == IF running THEN history \cup {server} ELSE {}

-----------------------------------------------------------------------------
(* The thread of the manager.                                               *)

\* startAllReducers, one host at a time.
StartReducers ==
    /\ pc = "start"
    /\ process' = [process EXCEPT ![at] = "starting", ![After(at)] = "starting"]
    /\ IF at[1] + 1 \in Hosts THEN at' = <<at[1] + 1, 0>> /\ pc' = "start"
                              ELSE at' = at /\ pc' = "check"
    /\ UNCHANGED <<port, historyVars, place, listVars, mainVars>>

\* Faulty: the loop has no end.
LoopsForever == TRUE

Continues == running

CheckRunning ==
    /\ pc = "check"
    /\ pc' = IF Continues THEN "poll" ELSE "exited"
    /\ at' = First
    /\ UNCHANGED <<place, serverVars, listVars, mainVars>>

\* poll() waits for a process that has ended.
Poll ==
    /\ pc = "poll"
    /\ at \in Servers
    /\ IF Ended(at) THEN /\ process' = [process EXCEPT ![at] = "reaped"]
                         /\ pc' = "restart" /\ at' = at
                    ELSE /\ at' = After(at)
                         /\ UNCHANGED <<process, pc>>
    /\ UNCHANGED <<port, historyVars, place, listVars, mainVars>>

\* A new process takes the place of one that has ended; whoever waits for that is done.
Start(server, p) ==
    /\ process' = [process EXCEPT ![server] = "starting"]
    /\ port' = [port EXCEPT ![server] = p]
    /\ mainPc' = IF mainPc = "waiting" /\ mainAt = server THEN "waited" ELSE mainPc
    /\ UNCHANGED <<mainAt, running, historyVars>>

\* Faulty: the supervision of the servers swaps the ports as the kill requests do.
SwappedRestartPort(server) == IF server[2] % 2 = 0 THEN 5002 ELSE 5001

RestartPort(server) == IF server[2] = 0 THEN 5001 ELSE 5002

Restart ==
    /\ pc = "restart" /\ pc' = "poll"
    /\ Start(at, RestartPort(at))
    /\ at' = After(at)
    /\ UNCHANGED <<place, listVars>>

PollsDone ==
    /\ pc = "poll" /\ pc' = "kill"
    /\ at \notin Servers
    /\ place' = 1
    /\ UNCHANGED <<at, serverVars, listVars, mainVars>>

\* kill() and wait().  Signalling a process that has been waited for raises an OSError,
\* which ends the thread.
Kill ==
    /\ pc = "kill"
    /\ place <= Len(killList)
    /\ at' = killList[place]
    /\ IF process[at'] = "reaped" THEN pc' = "crashed" /\ UNCHANGED process
                                  ELSE /\ pc' = "restartKilled"
                                       /\ process' = [process EXCEPT ![at'] = "reaped"]
    /\ killed' = Noted(killed, at')
    /\ UNCHANGED <<port, exited, place, listVars, mainVars>>

\* The reducer with index 0 gets port 5002, the one with index 1 port 5001.
RestartKilledPort(server) == IF server[2] % 2 = 0 THEN 5002 ELSE 5001

RestartKilled ==
    /\ pc = "restartKilled" /\ pc' = "delete"
    /\ Start(at, RestartKilledPort(at))
    /\ UNCHANGED <<at, place, listVars>>

\* Faulty: the first request of the list is deleted, whichever was carried out.
FirstPlace == 1

DeletedPlace == place

\* The list shrinks under its iterator: the request after a deleted one has to wait for
\* the next pass.
DeleteRequest ==
    /\ pc = "delete" /\ pc' = "kill"
    /\ killList' = RemoveAt(killList, DeletedPlace)
    /\ place' = place + 1
    /\ UNCHANGED <<at, requests, serverVars, mainVars>>

KillsDone ==
    /\ pc = "kill" /\ pc' = "check"
    /\ place > Len(killList)
    /\ UNCHANGED <<at, place, serverVars, listVars, mainVars>>

Manager ==
    \/ StartReducers \/ CheckRunning \/ Poll \/ Restart \/ PollsDone
    \/ Kill \/ RestartKilled \/ DeleteRequest \/ KillsDone

-----------------------------------------------------------------------------
(* The servers.                                                             *)

Served(host, p) ==
    \E i \in {0, 1} : process[<<host, i>>] = "listening" /\ port[<<host, i>>] = p

Listen(server) ==
    /\ process[server] = "starting"
    /\ process' = [process EXCEPT ![server] =
                      IF Served(server[1], port[server]) THEN "exited" ELSE "listening"]
    /\ UNCHANGED <<port, historyVars, listVars, managerVars, mainVars>>

Exit(server) ==
    /\ server \in ExitingServers
    /\ process[server] = "listening"
    /\ process' = [process EXCEPT ![server] = "exited"]
    /\ exited' = Noted(exited, server)
    /\ UNCHANGED <<port, killed, listVars, managerVars, mainVars>>

-----------------------------------------------------------------------------
(* The jobs and the main thread.                                            *)

\* Jobs run after two rounds of pings between all hosts: the servers are up by then.
JobsStart ==
    /\ mainPc = "setup" /\ mainPc' = "jobs"
    /\ \A s \in Servers : process[s] = "listening"
    /\ UNCHANGED <<mainAt, running, serverVars, listVars, managerVars>>

KillAndRestartReducer(server) ==
    /\ mainPc = "jobs"
    /\ server \in KillTargets /\ requests < MaxKillRequests
    /\ killList' = Append(killList, server)
    /\ requests' = requests + 1
    /\ UNCHANGED <<serverVars, managerVars, mainVars>>

\* terminate(), after the last job or without any.
Terminate ==
    /\ mainPc \in {"setup", "jobs"} /\ mainPc' = "kill"
    /\ running' = FALSE
    /\ mainAt' = First
    /\ killed' = {} /\ exited' = {}
    /\ UNCHANGED <<process, port, listVars, managerVars>>

TerminateKill ==
    /\ mainPc = "kill"
    /\ mainAt \in Servers /\ process[mainAt] # "none"
    /\ IF process[mainAt] = "reaped" THEN mainPc' = "crashed" /\ UNCHANGED process
                                     ELSE /\ mainPc' = "wait"
                                          /\ process' = [process EXCEPT ![mainAt] = "exited"]
    /\ UNCHANGED <<mainAt, running, port, historyVars, listVars, managerVars>>

\* The process it waits for is the one that is in the list by now.
TerminateWait ==
    /\ mainPc = "wait" /\ mainPc' = "waiting"
    /\ UNCHANGED <<mainAt, running, serverVars, listVars, managerVars>>

TerminateWaited ==
    /\ \/ mainPc = "waiting" /\ Ended(mainAt) /\ process' = [process EXCEPT ![mainAt] = "reaped"]
       \/ mainPc = "waited" /\ UNCHANGED process
    /\ mainPc' = "kill"
    /\ mainAt' = After(mainAt)
    /\ UNCHANGED <<running, port, historyVars, listVars, managerVars>>

\* The loop over reducerList ends where the list ends at that moment.
TerminateJoin ==
    /\ mainPc = "kill" /\ mainPc' = "join"
    /\ mainAt \in Servers => process[mainAt] = "none"
    /\ UNCHANGED <<mainAt, running, serverVars, listVars, managerVars>>

Join ==
    /\ mainPc = "join" /\ mainPc' = "joined"
    /\ pc \in {"exited", "crashed"}
    /\ UNCHANGED <<mainAt, running, serverVars, listVars, managerVars>>

Main == TerminateKill \/ TerminateWait \/ TerminateWaited \/ TerminateJoin \/ Join

Next ==
    \/ Manager
    \/ \E s \in Servers : Listen(s) \/ Exit(s) \/ KillAndRestartReducer(s)
    \/ JobsStart \/ Terminate \/ Main

Spec == Init /\ [][Next]_vars

\* The threads are scheduled and a server that is started comes to listen or to exit; no
\* server has to exit, no job to fail, and the test may go on for ever.
FairSpec ==
    /\ Spec
    /\ WF_vars(Manager) /\ WF_vars(Main)
    /\ \A s \in Servers : WF_vars(Listen(s))

-----------------------------------------------------------------------------
(* Properties.                                                              *)

TypeOK ==
    /\ process \in [Servers -> {"none", "starting", "listening", "exited", "reaped"}]
    /\ port \in [Servers -> Ports]
    /\ killed \subseteq KillTargets /\ exited \subseteq ExitingServers
    /\ killList \in Seq(KillTargets) /\ requests \in 0 .. MaxKillRequests
    /\ Len(killList) <= requests
    /\ running \in BOOLEAN
    /\ pc \in {"start", "check", "poll", "restart", "kill", "restartKilled", "delete",
               "exited", "crashed"}
    /\ at \in (0 .. NumberOfHosts) \X {0, 1} /\ place \in 1 .. MaxKillRequests + 1
    /\ mainPc \in {"setup", "jobs", "kill", "wait", "waiting", "waited", "join", "joined",
                   "crashed"}
    /\ mainAt \in (0 .. NumberOfHosts) \X {0, 1}

Pending(server) == Cardinality({i \in DOMAIN killList : killList[i] = server})

\* A request is dropped only when its server has just been killed and started again, though
\* jobs append to the list and the manager deletes from it while it walks it by position.
DropsOnlyWhatItKilled ==
    [][\A s \in Servers : Pending(s)' < Pending(s) => pc = "delete" /\ at = s]_vars

\* Every request is carried out, although the walk skips every other one.
RequestsAreCarriedOut ==
    \A s \in Servers : Pending(s) > 0 ~> (pc = "delete" /\ at = s) \/ ~running

\* The kill of a server may leave it with the port of the other one of its host only if that
\* one was killed, too, or has exited.
MaySwap(server) == server \in killed /\ Other(server) \in killed \cup exited

\* While jobs run a listening server listens on the port that they use for it: the swap of
\* the ports after a kill takes no effect unless the other server of the host has been down.
ListensOnItsPort ==
    mainPc \in {"setup", "jobs"} =>
        \A s \in Servers : process[s] = "listening" => port[s] = PortOf(s) \/ MaySwap(s)

\* The servers and the list of requests are well formed, and each server is on its port.
ServersAreSound == TypeOK /\ ListensOnItsPort

\* Whatever exits and whichever one server of a host is killed, both ports of the host are
\* served again and again.  If the other one was down, too, the two may want one port for
\* ever, but a port of the host comes back even then.
PortsComeBack ==
    \A h \in Hosts :
        /\ \A p \in Ports :
              []<>\/ mainPc \notin {"setup", "jobs"}
                  \/ Served(h, p)
                  \/ MaySwap(<<h, 0>>) \/ MaySwap(<<h, 1>>)
        /\ []<>(mainPc \notin {"setup", "jobs"} \/ \E p \in Ports : Served(h, p))

\* The thread ends once it is told to.
ManagerStops == ~running ~> pc \in {"exited", "crashed"}

=============================================================================
