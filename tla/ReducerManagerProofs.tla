------------------------ MODULE ReducerManagerProofs ------------------------
(***************************************************************************)
(* Proofs about ReducerManager, for every number of hosts, of requests and  *)
(* every way the threads meet: while jobs run a server listens on the port  *)
(* that they use for it, although every kill starts its successor with the  *)
(* other port, unless the other server of the host has been down, too.      *)
(***************************************************************************)
EXTENDS ReducerManager, FiniteSetTheorems, SequenceTheorems, TLAPS

\* Those that nothing has taken down.
Steady == Servers \ (killed \cup exited)

Testing == mainPc \in {"setup", "jobs"}

USE DEF historyVars

-----------------------------------------------------------------------------
(* Servers, their ports and the list of requests.                           *)

LEMMA ServerParts ==
    ASSUME NEW s \in Servers
    PROVE  /\ s[1] \in Hosts /\ s[2] \in {0, 1} /\ s = <<s[1], s[2]>>
           /\ s \in (0 .. NumberOfHosts) \X {0, 1}
           /\ Other(s) \in Servers /\ Other(s)[1] = s[1] /\ Other(s)[2] = 1 - s[2]
<1>1. NumberOfHosts \in Nat \ {0} /\ s[1] \in Hosts /\ s[2] \in {0, 1} /\ s = <<s[1], s[2]>>
  BY ManagerAssumption DEF ManagerAssumption, Servers
<1>2. 1 - s[2] \in {0, 1} /\ s[1] \in 0 .. NumberOfHosts
  BY <1>1 DEF Hosts
<1>3. <<s[1], 1 - s[2]>> \in Servers
  BY <1>1, <1>2 DEF Servers
<1>. QED
  BY <1>1, <1>2, <1>3 DEF Other

LEMMA AfterServer ==
    ASSUME NEW s \in Servers
    PROVE  /\ After(s) \in (0 .. NumberOfHosts) \X {0, 1}
           /\ s[2] = 0 => After(s) \in Servers
<1>1. NumberOfHosts \in Nat \ {0} /\ s[1] \in 0 .. NumberOfHosts - 1 /\ s[2] \in {0, 1}
  BY ManagerAssumption, ServerParts DEF ManagerAssumption, Hosts
<1>2. s[1] + 1 \in 0 .. NumberOfHosts /\ s[1] \in 0 .. NumberOfHosts
  BY <1>1
<1>3. CASE s[2] = 0
  BY <1>1, <1>2, <1>3 DEF After, Servers, Hosts
<1>4. CASE s[2] = 1
  BY <1>1, <1>2, <1>4 DEF After
<1>. QED
  BY <1>1, <1>3, <1>4

\* The two servers of a host have the two ports, and only a kill swaps them.
LEMMA PortsOfServers ==
    ASSUME NEW s \in Servers
    PROVE  /\ PortOf(s) \in Ports /\ RestartKilledPort(s) \in Ports
           /\ RestartPort(s) = PortOf(s)
           /\ \A p \in Ports : p # PortOf(s) => p = PortOf(Other(s))
<1>1. s[2] \in {0, 1} /\ Other(s)[2] = 1 - s[2]
  BY ServerParts
<1>2. CASE s[2] = 0
  BY <1>1, <1>2 DEF PortOf, RestartKilledPort, RestartPort, Ports
<1>3. CASE s[2] = 1
  BY <1>1, <1>3 DEF PortOf, RestartKilledPort, RestartPort, Ports
<1>. QED
  BY <1>1, <1>2, <1>3

LEMMA RemoveAtElements ==
    ASSUME NEW S, NEW s \in Seq(S), NEW i \in 1 .. Len(s)
    PROVE  /\ RemoveAt(s, i) \in Seq(S) /\ Len(RemoveAt(s, i)) = Len(s) - 1
           /\ \A j \in 1 .. Len(s) - 1 : RemoveAt(s, i)[j] = s[IF j < i THEN j ELSE j + 1]
<1>. DEFINE before == SubSeq(s, 1, i - 1)
            behind == SubSeq(s, i + 1, Len(s))
<1>1. Len(s) \in Nat /\ i - 1 \in Nat /\ i \in Nat /\ i <= Len(s)
  OBVIOUS
<1>2. /\ before \in Seq(S) /\ Len(before) = i - 1
      /\ \A j \in 1 .. i - 1 : before[j] = s[j]
  BY <1>1
<1>3. /\ behind \in Seq(S) /\ Len(behind) = Len(s) - i
      /\ \A j \in 1 .. Len(s) - i : behind[j] = s[i + j]
  BY <1>1
<1>. HIDE DEF before, behind
<1>4. /\ before \o behind \in Seq(S)
      /\ Len(before \o behind) = Len(before) + Len(behind)
      /\ \A j \in 1 .. Len(before) + Len(behind) : (before \o behind)[j] =
             IF j <= Len(before) THEN before[j] ELSE behind[j - Len(before)]
  BY <1>2, <1>3, ConcatProperties
<1>5. Len(before) + Len(behind) = Len(s) - 1
  BY <1>1, <1>2, <1>3
<1>6. ASSUME NEW j \in 1 .. Len(s) - 1
      PROVE  (before \o behind)[j] = s[IF j < i THEN j ELSE j + 1]
  <2>1. (before \o behind)[j] = IF j <= i - 1 THEN before[j] ELSE behind[j - (i - 1)]
    BY <1>2, <1>4, <1>5
  <2>2. CASE j < i
    BY <1>1, <1>2, <2>1, <2>2
  <2>3. CASE j >= i
    <3>1. j - (i - 1) \in 1 .. Len(s) - i /\ i + (j - (i - 1)) = j + 1 /\ ~(j <= i - 1)
      BY <1>1, <2>3
    <3>2. behind[j - (i - 1)] = s[i + (j - (i - 1))]
      BY <1>3, <3>1
    <3>. QED
      BY <2>1, <2>3, <3>1, <3>2
  <2>4. j < i \/ j >= i
    BY <1>1
  <2>. QED
    BY <2>2, <2>3, <2>4
<1>. QED
  BY <1>4, <1>5, <1>6 DEF RemoveAt, before, behind

-----------------------------------------------------------------------------
(* Type correctness, with where the two threads may be.                     *)

AtOK ==
    /\ pc = "start" => at \in Servers /\ at[2] = 0
    /\ pc = "restart" => at \in Servers
    /\ pc \in {"restartKilled", "delete"} =>
           at \in KillTargets /\ place <= Len(killList) /\ killList[place] = at
    /\ place <= requests + 1
    /\ mainPc \in {"wait", "waiting", "waited"} => mainAt \in Servers

TypeInv == TypeOK /\ AtOK

LEMMA InitTypeInv == Init => TypeInv
<1>. SUFFICES ASSUME Init PROVE TypeInv
  OBVIOUS
<1>1. First \in Servers /\ First[2] = 0
  BY ManagerAssumption DEF ManagerAssumption, First, Servers, Hosts
<1>2. First \in (0 .. NumberOfHosts) \X {0, 1}
  BY <1>1, ServerParts
<1>3. port \in [Servers -> Ports]
  BY PortsOfServers DEF Init
<1>. QED
  BY <1>1, <1>2, <1>3, ManagerAssumption DEF ManagerAssumption, Init, TypeInv, TypeOK, AtOK

LEMMA StartTypeInv ==
    ASSUME TypeInv, NEW s \in Servers, NEW p \in Ports, Start(s, p)
    PROVE  /\ process' \in [Servers -> {"none", "starting", "listening", "exited", "reaped"}]
           /\ port' \in [Servers -> Ports]
           /\ mainPc' \in {"setup", "jobs", "kill", "wait", "waiting", "waited", "join",
                           "joined", "crashed"}
           /\ mainPc' \in {"wait", "waiting", "waited"} => mainAt \in Servers
           /\ mainAt' = mainAt /\ running' = running
           /\ killed' = killed /\ exited' = exited
BY DEF TypeInv, TypeOK, AtOK, Start

LEMMA ManagerTypeInv ==
    ASSUME TypeInv, Manager
    PROVE  TypeInv'
<1>0. TypeOK /\ AtOK /\ MaxKillRequests \in Nat /\ NumberOfHosts \in Nat \ {0}
      /\ KillTargets \subseteq Servers /\ requests \in Nat /\ requests <= MaxKillRequests
      /\ Len(killList) \in Nat
  BY ManagerAssumption DEF ManagerAssumption, TypeInv, TypeOK
<1>1. CASE StartReducers
  <2>1. at \in Servers /\ at[2] = 0 /\ After(at) \in Servers
    BY <1>0, <1>1, AfterServer DEF StartReducers, AtOK
  <2>2. process' \in [Servers -> {"none", "starting", "listening", "exited", "reaped"}]
    BY <1>0, <1>1, <2>1 DEF StartReducers, TypeOK
  <2>3. at' \in Servers /\ at'[2] = 0
    <3>1. at[1] + 1 \in Hosts => <<at[1] + 1, 0>> \in Servers
      BY DEF Servers
    <3>. QED
      BY <1>1, <2>1, <3>1 DEF StartReducers
  <2>4. at' \in (0 .. NumberOfHosts) \X {0, 1}
    BY <2>3, ServerParts
  <2>. QED
    BY <1>0, <1>1, <2>2, <2>3, <2>4
       DEF StartReducers, listVars, mainVars, TypeInv, TypeOK, AtOK
<1>2. CASE CheckRunning
  <2>1. First \in (0 .. NumberOfHosts) \X {0, 1}
    BY <1>0 DEF First
  <2>. QED
    BY <1>0, <1>2, <2>1 DEF CheckRunning, serverVars, listVars, mainVars, TypeInv, TypeOK, AtOK
<1>3. CASE Poll
  <2>1. at \in Servers /\ After(at) \in (0 .. NumberOfHosts) \X {0, 1}
    BY <1>3, AfterServer DEF Poll
  <2>2. CASE Ended(at)
    BY <1>0, <1>3, <2>1, <2>2 DEF Poll, listVars, mainVars, TypeInv, TypeOK, AtOK
  <2>3. CASE ~Ended(at)
    BY <1>0, <1>3, <2>1, <2>3 DEF Poll, listVars, mainVars, TypeInv, TypeOK, AtOK
  <2>. QED
    BY <2>2, <2>3
<1>4. CASE Restart
  <2>1. at \in Servers /\ After(at) \in (0 .. NumberOfHosts) \X {0, 1} /\ RestartPort(at) \in Ports
    BY <1>0, <1>4, AfterServer, PortsOfServers DEF Restart, AtOK
  <2>. QED
    BY <1>0, <1>4, <2>1, StartTypeInv DEF Restart, listVars, TypeInv, TypeOK, AtOK
<1>5. CASE PollsDone
  BY <1>0, <1>5 DEF PollsDone, serverVars, listVars, mainVars, TypeInv, TypeOK, AtOK
<1>6. CASE Kill
  <2>1. place \in 1 .. Len(killList) /\ killList \in Seq(KillTargets)
    BY <1>0, <1>6 DEF Kill, TypeOK
  <2>2. at' \in KillTargets
    BY <1>6, <2>1 DEF Kill
  <2>3. at' \in Servers /\ at' \in (0 .. NumberOfHosts) \X {0, 1}
    BY <1>0, <2>2, ServerParts
  <2>. QED
    BY <1>0, <1>6, <2>1, <2>2, <2>3 DEF Kill, Noted, listVars, mainVars, TypeInv, TypeOK, AtOK
<1>7. CASE RestartKilled
  <2>1. at \in Servers /\ RestartKilledPort(at) \in Ports
    BY <1>0, <1>7, PortsOfServers DEF RestartKilled, AtOK
  <2>. QED
    BY <1>0, <1>7, <2>1, StartTypeInv DEF RestartKilled, listVars, TypeInv, TypeOK, AtOK
<1>8. CASE DeleteRequest
  <2>1. place \in 1 .. Len(killList) /\ killList \in Seq(KillTargets) /\ Len(killList) <= requests
    BY <1>0, <1>8 DEF DeleteRequest, TypeOK, AtOK
  <2>2. killList' \in Seq(KillTargets) /\ Len(killList') = Len(killList) - 1
    BY <1>8, <2>1, RemoveAtElements DEF DeleteRequest, DeletedPlace
  <2>3. place' \in 1 .. MaxKillRequests + 1 /\ place' <= requests + 1 /\ Len(killList') <= requests
    BY <1>0, <1>8, <2>1, <2>2 DEF DeleteRequest
  <2>. QED
    BY <1>0, <1>8, <2>2, <2>3 DEF DeleteRequest, serverVars, mainVars, TypeInv, TypeOK, AtOK
<1>9. CASE KillsDone
  BY <1>0, <1>9 DEF KillsDone, serverVars, listVars, mainVars, TypeInv, TypeOK, AtOK
<1>. QED
  BY <1>1, <1>2, <1>3, <1>4, <1>5, <1>6, <1>7, <1>8, <1>9 DEF Manager

LEMMA MainTypeInv ==
    ASSUME TypeInv, JobsStart \/ Terminate \/ Main
    PROVE  TypeInv'
<1>0. TypeOK /\ AtOK /\ NumberOfHosts \in Nat \ {0}
  BY ManagerAssumption DEF ManagerAssumption, TypeInv
<1>1. CASE JobsStart
  BY <1>0, <1>1 DEF JobsStart, serverVars, listVars, managerVars, TypeInv, TypeOK, AtOK
<1>2. CASE Terminate
  <2>1. First \in (0 .. NumberOfHosts) \X {0, 1}
    BY <1>0 DEF First
  <2>. QED
    BY <1>0, <1>2, <2>1 DEF Terminate, serverVars, listVars, managerVars, TypeInv, TypeOK, AtOK
<1>3. CASE TerminateKill
  BY <1>0, <1>3 DEF TerminateKill, listVars, managerVars, TypeInv, TypeOK, AtOK
<1>4. CASE TerminateWait
  BY <1>0, <1>4 DEF TerminateWait, serverVars, listVars, managerVars, TypeInv, TypeOK, AtOK
<1>5. CASE TerminateWaited
  <2>1. After(mainAt) \in (0 .. NumberOfHosts) \X {0, 1}
    BY <1>0, <1>5, AfterServer DEF TerminateWaited, AtOK
  <2>. QED
    BY <1>0, <1>5, <2>1 DEF TerminateWaited, listVars, managerVars, TypeInv, TypeOK, AtOK
<1>6. CASE TerminateJoin \/ Join
  BY <1>0, <1>6
     DEF TerminateJoin, Join, serverVars, listVars, managerVars, TypeInv, TypeOK, AtOK
<1>. QED
  BY <1>1, <1>2, <1>3, <1>4, <1>5, <1>6 DEF Main

LEMMA OthersTypeInv ==
    ASSUME TypeInv, NEW s \in Servers, Listen(s) \/ Exit(s) \/ KillAndRestartReducer(s)
    PROVE  TypeInv'
<1>0. TypeOK /\ AtOK /\ MaxKillRequests \in Nat
  BY ManagerAssumption DEF ManagerAssumption, TypeInv
<1>1. CASE Listen(s)
  BY <1>0, <1>1 DEF Listen, listVars, managerVars, mainVars, TypeInv, TypeOK, AtOK
<1>2. CASE Exit(s)
  BY <1>0, <1>2 DEF Exit, Noted, listVars, managerVars, mainVars, TypeInv, TypeOK, AtOK
<1>3. CASE KillAndRestartReducer(s)
  <2>1. killList' \in Seq(KillTargets) /\ Len(killList') = Len(killList) + 1
        /\ Len(killList) \in Nat
    BY <1>0, <1>3 DEF KillAndRestartReducer, TypeOK
  <2>2. requests \in Nat /\ requests' = requests + 1 /\ requests' \in 0 .. MaxKillRequests
    BY <1>0, <1>3 DEF KillAndRestartReducer, TypeOK
  <2>3. place \in Nat /\ place <= requests' + 1 /\ Len(killList') <= requests'
    BY <1>0, <2>1, <2>2 DEF TypeOK, AtOK
  <2>. QED
    BY <1>0, <1>3, <2>1, <2>2, <2>3
       DEF KillAndRestartReducer, serverVars, managerVars, mainVars, TypeInv, TypeOK, AtOK
<1>. QED
  BY <1>1, <1>2, <1>3

LEMMA StepTypeInv ==
    ASSUME TypeInv, [Next]_vars
    PROVE  TypeInv'
<1>1. CASE UNCHANGED vars
  BY <1>1 DEF vars, serverVars, listVars, managerVars, mainVars, TypeInv, TypeOK, AtOK
<1>. QED
  BY <1>1, ManagerTypeInv, MainTypeInv, OthersTypeInv DEF Next

-----------------------------------------------------------------------------
(* While jobs run: the steady servers listen, and no other is on their port. *)

StartsBlank ==
    pc = "start" /\ Testing =>
        \A h \in Hosts : h >= at[1] => process[<<h, 0>>] = "none"

SetupOK ==
    mainPc = "setup" =>
        /\ killList = <<>> /\ pc \notin {"restartKilled", "delete"}
        /\ \A s \in Servers : port[s] = PortOf(s)

JobsOK ==
    mainPc = "jobs" =>
        /\ pc # "start"
        /\ \A s \in Servers \ killed : port[s] = PortOf(s)
        /\ \A s \in Steady : process[s] = "listening"

\* A request is carried out on a server that was noted as killed, while jobs run.
RestartOK ==
    /\ Testing => running
    /\ pc = "restart" /\ Testing => process[at] = "reaped"
    /\ pc = "restartKilled" /\ Testing => at \in killed

PortsInv == StartsBlank /\ SetupOK /\ JobsOK /\ RestartOK /\ ListensOnItsPort

LEMMA InitPortsInv == Init => PortsInv
<1>. SUFFICES ASSUME Init PROVE PortsInv
  OBVIOUS
<1>1. \A h \in Hosts : <<h, 0>> \in Servers
  BY DEF Servers
<1>. QED
  BY <1>1 DEF Init, PortsInv, StartsBlank, SetupOK, JobsOK, RestartOK, ListensOnItsPort

\* The steps of the manager that change no server.
LEMMA WalkPortsInv ==
    ASSUME TypeInv, PortsInv, CheckRunning \/ PollsDone \/ KillsDone \/ DeleteRequest
    PROVE  PortsInv'
<1>1. UNCHANGED <<process, port, killed, exited, mainPc, running>>
      /\ pc' \in {"poll", "exited", "kill", "check"}
      /\ (mainPc = "setup" => killList' = <<>>)
  BY DEF CheckRunning, PollsDone, KillsDone, DeleteRequest, serverVars, listVars, mainVars,
     PortsInv, SetupOK
<1>. QED
  BY <1>1 DEF PortsInv, StartsBlank, SetupOK, JobsOK, RestartOK, ListensOnItsPort, MaySwap,
     Testing, Steady

LEMMA PollPortsInv ==
    ASSUME TypeInv, PortsInv, Poll
    PROVE  PortsInv'
<1>1. at \in Servers /\ UNCHANGED <<port, killed, exited, mainPc, running, killList>> /\ pc = "poll"
  BY DEF Poll, listVars, mainVars
<1>2. CASE Ended(at)
  <2>1. pc' = "restart" /\ at' = at /\ process' = [process EXCEPT ![at] = "reaped"]
    BY <1>2 DEF Poll
  <2>2. process \in [Servers -> {"none", "starting", "listening", "exited", "reaped"}]
    BY DEF TypeInv, TypeOK
  <2>3. process'[at] = "reaped" /\ process[at] # "listening"
        /\ \A s \in Servers : s # at => process'[s] = process[s]
    BY <1>1, <1>2, <2>1, <2>2 DEF Ended
  <2>. QED
    BY <1>1, <2>1, <2>3
       DEF PortsInv, StartsBlank, SetupOK, JobsOK, RestartOK, ListensOnItsPort, MaySwap, Testing,
           Steady
<1>3. CASE ~Ended(at)
  BY <1>1, <1>3 DEF Poll, PortsInv, StartsBlank, SetupOK, JobsOK, RestartOK, ListensOnItsPort,
     MaySwap, Testing, Steady
<1>. QED
  BY <1>2, <1>3

\* A server that is started does not listen yet.
LEMMA StartPorts ==
    ASSUME TypeInv, NEW s \in Servers, NEW p, Start(s, p)
    PROVE  /\ process'[s] = "starting" /\ port'[s] = p
           /\ \A t \in Servers : t # s => process'[t] = process[t] /\ port'[t] = port[t]
           /\ Testing' = Testing /\ (Testing => mainPc' = mainPc)
           /\ UNCHANGED <<killed, exited, running>>
           /\ mainPc' \in {"setup", "jobs"} => mainPc' = mainPc
BY DEF TypeInv, TypeOK, Start, Testing

LEMMA RestartPortsInv ==
    ASSUME TypeInv, PortsInv, Restart
    PROVE  PortsInv'
<1>1. pc = "restart" /\ pc' = "poll" /\ at \in Servers /\ Start(at, PortOf(at))
      /\ killList' = killList
  BY PortsOfServers DEF Restart, TypeInv, AtOK, listVars
<1>2. mainPc = "jobs" => at \notin Steady
  BY <1>1 DEF PortsInv, JobsOK, RestartOK, Testing
<1>. QED
  BY <1>1, <1>2, StartPorts
     DEF PortsInv, StartsBlank, SetupOK, JobsOK, RestartOK, ListensOnItsPort, MaySwap, Testing,
         Steady

LEMMA KillPortsInv ==
    ASSUME TypeInv, PortsInv, Kill
    PROVE  PortsInv'
<1>1. killList \in Seq(KillTargets) /\ place \in 1 .. Len(killList)
      /\ process \in [Servers -> {"none", "starting", "listening", "exited", "reaped"}]
      /\ KillTargets \subseteq Servers
  BY ManagerAssumption DEF ManagerAssumption, Kill, TypeInv, TypeOK
<1>2. at' \in KillTargets /\ at' \in Servers
  BY <1>1 DEF Kill
<1>3. mainPc # "setup"
  BY <1>1 DEF PortsInv, SetupOK
<1>4. /\ UNCHANGED <<port, mainPc, running, exited>> /\ pc' \in {"crashed", "restartKilled"}
      /\ \A s \in Servers : process'[s] = process[s] \/ (process'[s] = "reaped" /\ s = at')
      /\ running => killed' = killed \cup {at'}
  BY <1>1, <1>2 DEF Kill, Noted, mainVars
<1>. QED
  BY <1>2, <1>3, <1>4
     DEF PortsInv, StartsBlank, SetupOK, JobsOK, RestartOK, ListensOnItsPort, MaySwap, Testing,
         Steady

LEMMA RestartKilledPortsInv ==
    ASSUME TypeInv, PortsInv, RestartKilled
    PROVE  PortsInv'
<1>1. pc = "restartKilled" /\ pc' = "delete" /\ at \in KillTargets /\ at \in Servers
      /\ Start(at, RestartKilledPort(at)) /\ killList' = killList
  BY ManagerAssumption DEF ManagerAssumption, RestartKilled, TypeInv, AtOK, listVars
<1>2. mainPc # "setup"
  BY <1>1 DEF PortsInv, SetupOK
<1>. QED
  BY <1>1, <1>2, StartPorts
     DEF PortsInv, StartsBlank, SetupOK, JobsOK, RestartOK, ListensOnItsPort, MaySwap, Testing,
         Steady

LEMMA StartReducersPortsInv ==
    ASSUME TypeInv, PortsInv, StartReducers
    PROVE  PortsInv'
<1>1. at \in Servers /\ at[2] = 0 /\ at = <<at[1], 0>> /\ After(at) = <<at[1], 1>>
      /\ After(at) \in Servers /\ at[1] \in Hosts /\ Hosts \subseteq Int
  BY ServerParts, AfterServer DEF StartReducers, TypeInv, AtOK, After, Hosts
<1>2. pc = "start" /\ UNCHANGED <<port, killed, exited, mainPc, running, killList>>
      /\ pc' \in {"start", "check"}
  BY DEF StartReducers, listVars, mainVars
<1>3. \A s \in Servers : process'[s] = IF s \in {at, After(at)} THEN "starting" ELSE process[s]
  BY <1>1 DEF StartReducers, TypeInv, TypeOK
<1>4. pc' = "start" => at'[1] = at[1] + 1
  BY DEF StartReducers
<1>5. StartsBlank'
  <2>. SUFFICES ASSUME pc' = "start", Testing', NEW h \in Hosts, h >= at'[1]
                PROVE  process'[<<h, 0>>] = "none"
    BY DEF StartsBlank, Hosts
  <2>1. h # at[1] /\ h >= at[1] /\ <<h, 0>> \in Servers
    <3>1. at'[1] = at[1] + 1 /\ at[1] \in Int /\ h \in Int
      BY <1>1, <1>4
    <3>2. <<h, 0>> \in Servers
      BY DEF Servers
    <3>. QED
      BY <3>1, <3>2
  <2>2. process[<<h, 0>>] = "none"
    BY <1>2, <2>1 DEF PortsInv, StartsBlank, Testing
  <2>3. <<h, 0>> # at /\ <<h, 0>> # After(at)
    BY <1>1, <2>1
  <2>. QED
    BY <1>3, <2>1, <2>2, <2>3
<1>6. mainPc # "jobs"
  BY <1>2 DEF PortsInv, JobsOK
<1>7. ListensOnItsPort'
  BY <1>2, <1>3 DEF PortsInv, ListensOnItsPort, MaySwap
<1>. QED
  BY <1>2, <1>5, <1>6, <1>7 DEF PortsInv, SetupOK, JobsOK, RestartOK, Testing

\* A killed server is started with the port of its neighbour, which listens: it exits.
LEMMA ListenPortsInv ==
    ASSUME TypeInv, PortsInv, NEW s \in Servers, Listen(s)
    PROVE  PortsInv'
<1>1. /\ process[s] = "starting"
      /\ UNCHANGED <<port, killed, exited, killList, pc, at, mainPc, running>>
      /\ process' \in [Servers -> {"none", "starting", "listening", "exited", "reaped"}]
      /\ \A t \in Servers : t # s => process'[t] = process[t]
      /\ (\E i \in {0, 1} : process[<<s[1], i>>] = "listening" /\ port[<<s[1], i>>] = port[s])
             => process'[s] = "exited"
  BY DEF Listen, Served, listVars, managerVars, mainVars, TypeInv, TypeOK
<1>2. Testing /\ port[s] # PortOf(s) => process'[s] = "exited" \/ MaySwap(s)
  <2>. SUFFICES ASSUME Testing, port[s] # PortOf(s), ~MaySwap(s) PROVE process'[s] = "exited"
    OBVIOUS
  <2>1. mainPc = "jobs" /\ s \in killed
    BY DEF Testing, PortsInv, SetupOK, JobsOK
  <2>2. Other(s) \in Steady /\ Other(s) \notin killed /\ Other(s) \in Servers
    BY <2>1, ServerParts DEF MaySwap, Steady
  <2>3. process[Other(s)] = "listening" /\ port[Other(s)] = PortOf(Other(s))
    BY <2>1, <2>2 DEF PortsInv, JobsOK
  <2>4. port[s] = PortOf(Other(s))
    BY PortsOfServers DEF TypeInv, TypeOK
  <2>5. Other(s) = <<s[1], 1 - s[2]>> /\ 1 - s[2] \in {0, 1}
    BY ServerParts DEF Other
  <2>6. \E i \in {0, 1} : process[<<s[1], i>>] = "listening" /\ port[<<s[1], i>>] = port[s]
    BY <2>3, <2>4, <2>5
  <2>. QED
    BY <1>1, <2>6
<1>3. ListensOnItsPort'
  BY <1>1, <1>2 DEF PortsInv, ListensOnItsPort, MaySwap, Testing, Steady
<1>4. JobsOK' /\ RestartOK'
  BY <1>1 DEF PortsInv, JobsOK, RestartOK, Testing, Steady, TypeInv, AtOK
<1>5. StartsBlank'
  <2>1. \A h \in Hosts : <<h, 0>> \in Servers
    BY DEF Servers
  <2>. QED
    BY <1>1, <2>1 DEF PortsInv, StartsBlank, Testing
<1>. QED
  BY <1>1, <1>3, <1>4, <1>5 DEF PortsInv, SetupOK

LEMMA ExitPortsInv ==
    ASSUME TypeInv, PortsInv, NEW s \in Servers, Exit(s)
    PROVE  PortsInv'
<1>1. process[s] = "listening" /\ UNCHANGED <<port, killed, killList, pc, at, mainPc, running>>
      /\ process'[s] = "exited" /\ (running => exited' = exited \cup {s})
      /\ \A t \in Servers : t # s => process'[t] = process[t]
  BY DEF Exit, Noted, listVars, managerVars, mainVars, TypeInv, TypeOK
<1>2. \A h \in Hosts : <<h, 0>> \in Servers
  BY DEF Servers
<1>. QED
  BY <1>1, <1>2 DEF PortsInv, StartsBlank, SetupOK, JobsOK, RestartOK, ListensOnItsPort, MaySwap,
     Testing, Steady, TypeInv, AtOK

LEMMA MainPortsInv ==
    ASSUME TypeInv, PortsInv,
           JobsStart \/ Terminate \/ Main \/ (\E s \in Servers : KillAndRestartReducer(s))
    PROVE  PortsInv'
<1>1. CASE JobsStart
  <2>1. mainPc = "setup" /\ mainPc' = "jobs"
        /\ UNCHANGED <<process, port, killed, exited, running, killList, pc, at>>
        /\ \A s \in Servers : process[s] = "listening"
    BY <1>1 DEF JobsStart, serverVars, listVars, managerVars
  <2>2. pc # "start"
    <3>. SUFFICES ASSUME pc = "start" PROVE FALSE
      OBVIOUS
    <3>1. at \in Servers /\ at = <<at[1], 0>> /\ at[1] \in Hosts /\ at[1] >= at[1]
      BY ServerParts DEF TypeInv, AtOK, Hosts
    <3>. QED
      BY <2>1, <3>1 DEF PortsInv, StartsBlank, Testing
  <2>. QED
    BY <2>1, <2>2 DEF PortsInv, StartsBlank, SetupOK, JobsOK, RestartOK, ListensOnItsPort,
       Testing, Steady
<1>2. CASE Terminate \/ Main
  <2>1. ~Testing'
    BY <1>2 DEF Terminate, Main, TerminateKill, TerminateWait, TerminateWaited, TerminateJoin,
       Join, Testing
  <2>. QED
    BY <2>1 DEF PortsInv, StartsBlank, SetupOK, JobsOK, RestartOK, ListensOnItsPort, MaySwap,
       Testing, Steady
<1>3. ASSUME NEW s \in Servers, KillAndRestartReducer(s) PROVE PortsInv'
  BY <1>3 DEF KillAndRestartReducer, serverVars, managerVars, mainVars, PortsInv, StartsBlank,
     SetupOK, JobsOK, RestartOK, ListensOnItsPort, MaySwap, Testing, Steady
<1>. QED
  BY <1>1, <1>2, <1>3

LEMMA StepPortsInv ==
    ASSUME TypeInv, PortsInv, [Next]_vars
    PROVE  PortsInv'
<1>1. CASE UNCHANGED vars
  BY <1>1 DEF vars, serverVars, listVars, managerVars, mainVars, PortsInv, StartsBlank, SetupOK,
     JobsOK, RestartOK, ListensOnItsPort, MaySwap, Testing, Steady
<1>2. CASE Manager
  BY <1>2, WalkPortsInv, PollPortsInv, RestartPortsInv, KillPortsInv, RestartKilledPortsInv,
     StartReducersPortsInv DEF Manager
<1>. QED
  BY <1>1, <1>2, ListenPortsInv, ExitPortsInv, MainPortsInv DEF Next

-----------------------------------------------------------------------------
(* The list of requests shrinks only by the one that was carried out.        *)

PlacesOf(list, s) == {i \in DOMAIN list : list[i] = s}

LEMMA PlacesAreFinite ==
    ASSUME NEW list \in Seq(KillTargets), NEW s
    PROVE  IsFiniteSet(PlacesOf(list, s)) /\ Cardinality(PlacesOf(list, s)) \in Nat
<1>1. Len(list) \in Int /\ DOMAIN list = 1 .. Len(list)
  OBVIOUS
<1>2. IsFiniteSet(1 .. Len(list))
  BY <1>1, FS_Interval
<1>3. PlacesOf(list, s) \in SUBSET (1 .. Len(list))
  BY <1>1 DEF PlacesOf
<1>. QED
  BY <1>2, <1>3, FS_Subset, FS_CardinalityType

LEMMA PlacesAfterAppend ==
    ASSUME NEW list \in Seq(KillTargets), NEW e \in KillTargets, NEW s
    PROVE  Cardinality(PlacesOf(list, s)) <= Cardinality(PlacesOf(Append(list, e), s))
<1>1. Append(list, e) \in Seq(KillTargets)
  OBVIOUS
<1>2. PlacesOf(list, s) \in SUBSET PlacesOf(Append(list, e), s)
  BY DEF PlacesOf
<1>. QED
  BY <1>1, <1>2, PlacesAreFinite, FS_Subset

\* Each request but the removed one keeps a place of its own.
LEMMA PlacesAfterRemoval ==
    ASSUME NEW list \in Seq(KillTargets), NEW p \in 1 .. Len(list), NEW s, list[p] # s
    PROVE  Cardinality(PlacesOf(list, s)) <= Cardinality(PlacesOf(RemoveAt(list, p), s))
<1>. DEFINE rest == RemoveAt(list, p)
            moved(i) == IF i < p THEN i ELSE i - 1
            move == [i \in PlacesOf(list, s) |-> moved(i)]
<1>1. /\ rest \in Seq(KillTargets) /\ Len(rest) = Len(list) - 1
      /\ Len(list) \in Nat /\ p \in Nat /\ p >= 1 /\ p <= Len(list)
      /\ DOMAIN list = 1 .. Len(list) /\ DOMAIN rest = 1 .. Len(list) - 1
      /\ \A j \in 1 .. Len(list) - 1 : rest[j] = list[IF j < p THEN j ELSE j + 1]
  <2>1. /\ rest \in Seq(KillTargets) /\ Len(rest) = Len(list) - 1
        /\ \A j \in 1 .. Len(list) - 1 : rest[j] = list[IF j < p THEN j ELSE j + 1]
    BY RemoveAtElements
  <2>. HIDE DEF rest
  <2>2. Len(list) \in Nat /\ DOMAIN list = 1 .. Len(list)
    OBVIOUS
  <2>3. p \in Nat /\ p >= 1 /\ p <= Len(list)
    BY <2>2
  <2>4. DOMAIN rest = 1 .. Len(list) - 1
    BY <2>1
  <2>. QED
    BY <2>1, <2>2, <2>3, <2>4
<1>2. \A i \in PlacesOf(list, s) : i \in 1 .. Len(list) /\ i # p /\ list[i] = s
  BY <1>1 DEF PlacesOf
<1>. HIDE DEF rest
<1>3. ASSUME NEW i \in 1 .. Len(list), i # p
      PROVE  moved(i) \in 1 .. Len(list) - 1 /\ rest[moved(i)] = list[i]
  <2>1. CASE i < p
    BY <1>1, <2>1
  <2>2. CASE i > p
    <3>1. /\ moved(i) = i - 1 /\ i - 1 \in 1 .. Len(list) - 1
          /\ ~(i - 1 < p) /\ (i - 1) + 1 = i
      BY <1>1, <2>2
    <3>. QED
      BY <1>1, <3>1
  <2>. QED
    BY <1>1, <1>3, <2>1, <2>2
<1>4. \A i \in PlacesOf(list, s) : moved(i) \in PlacesOf(rest, s)
  BY <1>1, <1>2, <1>3 DEF PlacesOf
<1>5. \A i, j \in PlacesOf(list, s) : moved(i) = moved(j) => i = j
  BY <1>1, <1>2
<1>6. move \in Injection(PlacesOf(list, s), PlacesOf(rest, s))
  BY <1>4, <1>5 DEF Injection, IsInjective
<1>7. IsFiniteSet(PlacesOf(rest, s))
  BY <1>1, PlacesAreFinite
<1>. QED
  BY <1>6, <1>7, FS_Injection DEF rest

LEMMA StepDropsOnlyWhatItKilled ==
    ASSUME TypeInv, [Next]_vars, NEW s \in Servers, ~(pc = "delete" /\ at = s)
    PROVE  ~(Pending(s)' < Pending(s))
<1>0. killList \in Seq(KillTargets) /\ killList' \in Seq(KillTargets)
  BY StepTypeInv DEF TypeInv, TypeOK
<1>1. /\ Pending(s) = Cardinality(PlacesOf(killList, s))
      /\ Pending(s)' = Cardinality(PlacesOf(killList', s))
      /\ Pending(s) \in Nat /\ Pending(s)' \in Nat
  BY <1>0, PlacesAreFinite DEF Pending, PlacesOf
<1>2. CASE killList' = killList
  BY <1>1, <1>2
<1>3. ASSUME NEW t \in Servers, KillAndRestartReducer(t) PROVE Pending(s) <= Pending(s)'
  <2>1. t \in KillTargets /\ killList' = Append(killList, t)
    BY <1>3 DEF KillAndRestartReducer
  <2>. QED
    BY <1>0, <1>1, <2>1, PlacesAfterAppend
<1>4. CASE DeleteRequest
  <2>1. pc = "delete" /\ killList' = RemoveAt(killList, place) /\ place \in 1 .. Len(killList)
        /\ killList[place] = at
    BY <1>4 DEF DeleteRequest, DeletedPlace, TypeInv, TypeOK, AtOK
  <2>. QED
    BY <1>0, <1>1, <2>1, PlacesAfterRemoval
<1>5. CASE ~DeleteRequest /\ ~(\E t \in Servers : KillAndRestartReducer(t))
  BY <1>2, <1>5
     DEF Next, Manager, Main, StartReducers, CheckRunning, Poll, Restart, PollsDone, Kill,
         RestartKilled, KillsDone, Listen, Exit, JobsStart, Terminate, TerminateKill,
         TerminateWait, TerminateWaited, TerminateJoin, Join, vars, listVars
<1>. QED
  BY <1>1, <1>3, <1>4, <1>5

-----------------------------------------------------------------------------

\* The manager is type correct, for every number of hosts and of requests and whichever
\* servers exit: its walks stay within the lists of servers and of requests, though the
\* latter shrinks under its iterator (ReducerManager.py:62).
THEOREM ManagerTypeCorrect == Spec => []TypeOK
<1>1. TypeInv => TypeOK
  BY DEF TypeInv
<1>. QED
  BY <1>1, InitTypeInv, StepTypeInv, PTL DEF Spec

\* A listening server is on the port that jobs use for it while jobs run, unless it was killed
\* on request and the other server of its host killed, too, or exited: the swap of the ports
\* (ReducerManager.py:66) otherwise makes the successor of a killed server exit, and it is
\* then restarted with the right port.
THEOREM ServersAreAlwaysSound == Spec => []ServersAreSound
<1>1. Init => TypeInv /\ PortsInv
  BY InitTypeInv, InitPortsInv
<1>2. TypeInv /\ PortsInv /\ [Next]_vars => TypeInv' /\ PortsInv'
  BY StepTypeInv, StepPortsInv
<1>3. TypeInv /\ PortsInv => ServersAreSound
  BY DEF TypeInv, PortsInv, ServersAreSound
<1>. QED
  BY <1>1, <1>2, <1>3, PTL DEF Spec

\* No request is lost, whatever jobs append while the manager walks the list by position and
\* deletes from it (ReducerManager.py:62-70): one disappears only when its server was killed.
THEOREM OnlyWhatWasKilledIsDropped == Spec => DropsOnlyWhatItKilled
<1>1. TypeInv /\ [Next]_vars =>
          [\A s \in Servers : Pending(s)' < Pending(s) => pc = "delete" /\ at = s]_vars
  BY StepDropsOnlyWhatItKilled
<1>. QED
  BY <1>1, InitTypeInv, StepTypeInv, PTL DEF Spec, DropsOnlyWhatItKilled

=============================================================================
