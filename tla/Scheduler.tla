----------------------------- MODULE Scheduler -----------------------------
(***************************************************************************)
(* The scheduler of src/MapReducerScheduler/MapReduceScheduler.py.          *)
(* The main thread reads a work file, admits its jobs and hands each pairs  *)
(* of mapper and reducer slots; handleJobQueue gives the slots of finished  *)
(* jobs back; handleJobThreads reaps dead job threads.  A job thread is     *)
(* reduced to what the scheduler sees: it runs, puts its statistics, dies   *)
(* (MapReduceJob models what it does in between).                           *)
(***************************************************************************)
EXTENDS Integers, Sequences, FiniteSets

CONSTANTS
    NumberOfHosts,       \* len( hostList ) - 1: the last host runs the adaptor
    BytesPerHost,        \* the bytes that one host of a job is given
    MaximumJobsPerTest,
    DynamicBWG,          \* a converter from job sizes to bit rates is built
    JobNames,
    EmptyLine,           \* a line of a work file that only holds "\n"
    WorkFiles            \* the work files a test may be run on

WorkLine == [job : JobNames, inputBytes : Nat, reduceBytes : Nat]

ASSUME SchedulerAssumption ==
    /\ NumberOfHosts \in Nat \ {0}
    /\ BytesPerHost \in Nat \ {0}
    /\ MaximumJobsPerTest \in Nat \ {0}
    /\ DynamicBWG \in BOOLEAN
    /\ EmptyLine \notin WorkLine
    /\ WorkFiles \subseteq Seq(WorkLine \cup {EmptyLine})

\* Two mappers and two reducers per host; a JobHost is a host and an index.
Slots == (0 .. NumberOfHosts - 1) \X {0, 1}

NoJob == 0

VARIABLES
    mainPc,               \* where the main thread is
    workFile, lineNo,     \* the work file and the next line of it to process
    workQueue,            \* the admitted jobs
    counter,              \* how many jobs of it have been taken
    cursor,               \* the slot findContributingPair looks at next
    mapperSlot,           \* the mapper it has found
    availableMapperList, availableReducerList,
    statistic,            \* the JobStatistic objects, in the order of their creation
    jobStats,             \* which of them is at each place of the list jobStats
    jobState,             \* the state of the thread of each job
    jobThreads,           \* the threads that handleJobThreads watches
    finishJobQueue,       \* the jobs whose statistics are in the queue
    queueRunning,         \* handleJobQueueThreadRunning
    reaperRunning,        \* handleJobThreadsThreadRunning
    queuePc, queueJob, queueIndex,   \* handleJobQueue: the job in hand, the place in its list
    reaperPc, reaperIndex,           \* handleJobThreads: the place in jobThreads
    unwinding,            \* terminate() was called by runTest, which will raise
    managerDown           \* reducerManager.terminate() has killed the servers

fileVars == <<workFile, lineNo, workQueue>>
searchVars == <<cursor, mapperSlot>>
slotVars == <<availableMapperList, availableReducerList>>
jobVars == <<statistic, jobStats, jobState, jobThreads, finishJobQueue>>
endVars == <<queueRunning, reaperRunning, unwinding, managerDown>>
queueVars == <<queuePc, queueJob, queueIndex>>
reaperVars == <<reaperPc, reaperIndex>>
mainVars == <<mainPc, fileVars, counter, searchVars, endVars>>
vars == <<mainVars, slotVars, jobVars, queueVars, reaperVars>>

Init ==
    /\ mainPc = "open"
    /\ workFile \in WorkFiles
    /\ lineNo = 1
    /\ workQueue = <<>>
    /\ counter = 0
    /\ cursor = <<0, 0>>
    /\ mapperSlot = <<0, 0>>
    /\ availableMapperList = [s \in Slots |-> "Ready"]
    /\ availableReducerList = [s \in Slots |-> "Ready"]
    /\ statistic = <<>> /\ jobStats = <<>> /\ jobState = <<>>
    /\ jobThreads = <<>> /\ finishJobQueue = <<>>
    /\ queueRunning = TRUE /\ reaperRunning = TRUE
    /\ queuePc = "get" /\ queueJob = NoJob /\ queueIndex = 1
    /\ reaperPc = "pass" /\ reaperIndex = 1
    /\ unwinding = FALSE /\ managerDown = FALSE

-----------------------------------------------------------------------------
(* runTest, up to the scheduling loop.                                      *)

\* The input is divided in parts of BytesPerHost bytes, one for each host.
HostsNeeded(inputBytes) ==
    LET whole == inputBytes \div BytesPerHost
    IN  IF inputBytes % BytesPerHost # 0 \/ whole = 0 THEN whole + 1 ELSE whole

\* A line is skipped if it is empty, has nothing to reduce, or needs too many hosts.
Admitted(line) ==
    /\ line # EmptyLine
    /\ line.reduceBytes # 0
    /\ HostsNeeded(line.inputBytes) <= NumberOfHosts

JobOf(line) ==
    [hosts |-> HostsNeeded(line.inputBytes), bytes |-> line.reduceBytes, job |-> line.job]

\* The control of the main thread moves; no job is touched.
Goto(from, to) ==
    /\ mainPc = from /\ mainPc' = to
    /\ UNCHANGED <<counter, searchVars, slotVars, jobVars, queueVars, reaperVars>>

\* When the file cannot be read runTest raises a LookupError; the program catches it
\* and calls terminate().
ReadWorkFile ==
    /\ Goto("open", "processJobs") \/ Goto("open", "terminate")
    /\ UNCHANGED <<fileVars, endVars>>

ProcessLine ==
    /\ Goto("processJobs", "processJobs")
    /\ lineNo <= Len(workFile) /\ Len(workQueue) < MaximumJobsPerTest
    /\ lineNo' = lineNo + 1
    /\ workQueue' = IF Admitted(workFile[lineNo])
                    THEN Append(workQueue, JobOf(workFile[lineNo]))
                    ELSE workQueue
    /\ UNCHANGED <<workFile, endVars>>

\* "len( self.workQueue ) == True" holds of a queue of one job.
QueueLengthIsTrue == Len(workQueue) = 1

\* The sizes of the jobs span no range: LinearAlgorithm divides by zero.  (With no job
\* at all the range is 0 - sys.maxint.)
DegenerateRange == Cardinality({workQueue[i].bytes : i \in DOMAIN workQueue}) = 1

\* Nothing catches the ZeroDivisionError: the main thread is gone, the others stay.
CheckQueue ==
    /\ lineNo > Len(workFile) \/ Len(workQueue) >= MaximumJobsPerTest
    /\ Goto("processJobs", IF QueueLengthIsTrue THEN "terminate"
                           ELSE IF DynamicBWG /\ DegenerateRange THEN "crashed"
                           ELSE "nextJob")
    /\ unwinding' = QueueLengthIsTrue
    /\ UNCHANGED <<fileVars, queueRunning, reaperRunning, managerDown>>

-----------------------------------------------------------------------------
(* The scheduling loop of runTest, with findContributingPair.               *)

\* Both slots of host 0, of host 1, ...
NextMapper(slot) == IF slot[2] = 0 THEN <<slot[1], 1>> ELSE <<slot[1] + 1, 0>>

\* Both slots of the last host, of the one before it, ...; host 0 is never looked at.
NextReducer(slot) == IF slot[2] = 0 THEN <<slot[1], 1>> ELSE <<slot[1] - 1, 0>>

\* Faulty: only slots in the state Error are passed over.
IsNotInError(list, slot) == list[slot] # "Error"

IsReady(list, slot) == list[slot] = "Ready"

\* Faulty: a pair on one host is as good as any.
AnyPairIsUsable(mapper, reducer) == TRUE

PairIsUsable(mapper, reducer) == mapper[1] # reducer[1]

\* Faulty: the loop runs while >= 0 hosts are required.
RequiredHostsAndOne == workQueue[counter].hosts - Len(statistic[counter].mapHostList) + 1

\* Faulty: the loop runs while > 1 hosts are required.
RequiredHostsButOne == workQueue[counter].hosts - Len(statistic[counter].mapHostList) - 1

\* requiredMapperHosts and requiredReducerHosts: a pair is taken whole or not at all.
RequiredHosts == workQueue[counter].hosts - Len(statistic[counter].mapHostList)

\* The next job of the queue gets a JobStatistic.
NextJob ==
    /\ mainPc = "nextJob" /\ mainPc' = "findMapper"
    /\ counter < Len(workQueue)
    /\ counter' = counter + 1
    /\ statistic' = Append(statistic, [job            |-> workQueue[counter'].job,
                                       mapHostList    |-> <<>>,
                                       reduceHostList |-> <<>>])
    /\ jobStats' = Append(jobStats, counter')
    /\ jobState' = Append(jobState, "new")
    /\ cursor' = <<0, 0>>
    /\ UNCHANGED <<fileVars, mapperSlot, endVars, slotVars, jobThreads, finishJobQueue,
                   queueVars, reaperVars>>

\* findContributingPair moves on to another slot, or from one scan to another.
Scan(from, to) ==
    /\ mainPc = from /\ mainPc' = to
    /\ UNCHANGED <<fileVars, counter, endVars, slotVars, jobVars, queueVars, reaperVars>>

FindMapper ==
    /\ mainPc = "findMapper"
    /\ RequiredHosts > 0
    /\ \/ /\ Scan("findMapper", "findMapper")
          /\ cursor \in Slots /\ ~IsReady(availableMapperList, cursor)
          /\ cursor' = NextMapper(cursor)
          /\ UNCHANGED mapperSlot
       \/ /\ Scan("findMapper", "findReducer")
          /\ cursor \in Slots /\ IsReady(availableMapperList, cursor)
          /\ mapperSlot' = cursor
          /\ cursor' = <<NumberOfHosts - 1, 0>>
       \/ /\ Scan("findMapper", "findMapper")
          /\ cursor \notin Slots
          /\ cursor' = <<0, 0>>
          /\ UNCHANGED mapperSlot

\* The first reducer found is given up when it is on the host of the mapper: no other is
\* tried, and the search begins again.
FindReducer ==
    \/ /\ Scan("findReducer", "findReducer")
       /\ cursor[1] > 0 /\ ~IsReady(availableReducerList, cursor)
       /\ cursor' = NextReducer(cursor)
       /\ UNCHANGED mapperSlot
    \/ /\ Scan("findReducer", "findMapper")
       /\ cursor[1] <= 0 \/ ( /\ IsReady(availableReducerList, cursor)
                              /\ ~PairIsUsable(mapperSlot, cursor) )
       /\ cursor' = <<0, 0>>
       /\ UNCHANGED mapperSlot

\* A usable pair goes to the statistics at place counter of jobStats, whatever object is
\* there, and is marked (only the main thread marks slots: one step).
TakePair ==
    /\ mainPc = "findReducer" /\ mainPc' = "findMapper"
    /\ cursor[1] > 0 /\ IsReady(availableReducerList, cursor)
    /\ PairIsUsable(mapperSlot, cursor)
    /\ statistic' = [statistic EXCEPT
           ![jobStats[counter]].mapHostList = Append(@, mapperSlot),
           ![jobStats[counter]].reduceHostList = Append(@, cursor)]
    /\ availableMapperList' = [availableMapperList EXCEPT ![mapperSlot] = "Busy"]
    /\ availableReducerList' = [availableReducerList EXCEPT ![cursor] = "Busy"]
    /\ cursor' = <<0, 0>>
    /\ UNCHANGED <<fileVars, counter, mapperSlot, endVars, jobStats, jobState, jobThreads,
                   finishJobQueue, queueVars, reaperVars>>

\* job.start(), then jobThreads.append: nobody can tell them apart.
StartJob ==
    /\ mainPc = "findMapper" /\ mainPc' = "nextJob"
    /\ RequiredHosts <= 0
    /\ jobState' = [jobState EXCEPT ![jobStats[counter]] = "running"]
    /\ jobThreads' = Append(jobThreads, jobStats[counter])
    /\ UNCHANGED <<fileVars, counter, searchVars, endVars, slotVars, statistic, jobStats,
                   finishJobQueue, queueVars, reaperVars>>

-----------------------------------------------------------------------------
(* The end of runTest, and terminate().                                     *)

SchedulingDone ==
    /\ Goto("nextJob", "joinReaper")
    /\ counter = Len(workQueue)
    /\ reaperRunning' = FALSE
    /\ UNCHANGED <<fileVars, queueRunning, unwinding, managerDown>>

JoinReaper ==
    /\ Goto("joinReaper", "joinQueue")
    /\ reaperPc = "exited"
    /\ queueRunning' = FALSE
    /\ UNCHANGED <<fileVars, reaperRunning, unwinding, managerDown>>

\* Once the queue thread is joined too the results are written.
JoinQueue ==
    /\ Goto("joinQueue", "writeResults")
    /\ queuePc = "exited"
    /\ UNCHANGED <<fileVars, endVars>>

WriteResults == Goto("writeResults", "terminate") /\ UNCHANGED <<fileVars, endVars>>

\* Faulty: the flag is cleared and nobody waits for the thread.
JoinNever(running, join, next) == next

\* A thread is told to stop and joined only if its flag says that it runs.
JoinIf(running, join, next) == IF running THEN join ELSE next

TerminateQueue ==
    /\ Goto("terminate", JoinIf(queueRunning, "terminateJoinQueue", "terminateReaper"))
    /\ queueRunning' = FALSE
    /\ UNCHANGED <<fileVars, reaperRunning, unwinding, managerDown>>

TerminateReaper ==
    /\ \/ Goto("terminateJoinQueue", JoinIf(reaperRunning, "terminateJoinReaper", "terminateManager"))
          /\ queuePc = "exited"
       \/ Goto("terminateReaper", JoinIf(reaperRunning, "terminateJoinReaper", "terminateManager"))
    /\ reaperRunning' = FALSE
    /\ UNCHANGED <<fileVars, queueRunning, unwinding, managerDown>>

TerminateJoinReaper ==
    /\ Goto("terminateJoinReaper", "terminateManager")
    /\ reaperPc = "exited"
    /\ UNCHANGED <<fileVars, endVars>>

\* The servers are killed.  If runTest called terminate(), it raises its LookupError now,
\* and the program calls terminate() again: the servers are dead and reaped by then, and
\* os.kill raises an OSError (or hits a process that has got the pid since).
TerminateManager ==
    /\ \/ ~managerDown /\ Goto("terminateManager", IF unwinding THEN "terminate" ELSE "netStop")
       \/ managerDown /\ (Goto("terminateManager", "crashed") \/ Goto("terminateManager", "netStop"))
    /\ managerDown' = TRUE
    /\ unwinding' = FALSE
    /\ UNCHANGED <<fileVars, queueRunning, reaperRunning>>

-----------------------------------------------------------------------------
(* The threads of the jobs.                                                 *)

\* The job is over, with success or after its last retry: its statistics are put.
JobPut(k) ==
    /\ jobState[k] = "running"
    /\ jobState' = [jobState EXCEPT ![k] = "put"]
    /\ finishJobQueue' = Append(finishJobQueue, k)
    /\ UNCHANGED <<mainVars, slotVars, statistic, jobStats, jobThreads, queueVars, reaperVars>>

JobExit(k) ==
    /\ jobState[k] = "put"
    /\ jobState' = [jobState EXCEPT ![k] = "dead"]
    /\ UNCHANGED <<mainVars, slotVars, statistic, jobStats, jobThreads, finishJobQueue,
                   queueVars, reaperVars>>

-----------------------------------------------------------------------------
(* handleJobQueue.  A get that times out changes nothing.                   *)

QueueUnchanged == UNCHANGED <<mainVars, statistic, jobState, jobThreads, reaperVars>>

QueueGet ==
    /\ queuePc = "get" /\ queuePc' = "freeMappers"
    /\ finishJobQueue # <<>>
    /\ queueJob' = Head(finishJobQueue)
    /\ finishJobQueue' = Tail(finishJobQueue)
    /\ queueIndex' = 1
    /\ UNCHANGED <<slotVars, jobStats>> /\ QueueUnchanged

FreeMapper ==
    /\ queuePc = "freeMappers"
    /\ queueIndex <= Len(statistic[queueJob].mapHostList)
    /\ availableMapperList' =
           [availableMapperList EXCEPT ![statistic[queueJob].mapHostList[queueIndex]] = "Ready"]
    /\ queueIndex' = queueIndex + 1
    /\ UNCHANGED <<queuePc, queueJob, availableReducerList, jobStats, finishJobQueue>>
    /\ QueueUnchanged

\* Faulty: the reducers are walked from the place where the walk of the mappers ended.
FirstReducerPlaceAfterMappers == queueIndex

FirstReducerPlace == 1

MappersFreed ==
    /\ queuePc = "freeMappers" /\ queuePc' = "freeReducers"
    /\ queueIndex > Len(statistic[queueJob].mapHostList)
    /\ queueIndex' = FirstReducerPlace
    /\ UNCHANGED <<queueJob, slotVars, jobStats, finishJobQueue>> /\ QueueUnchanged

FreeReducer ==
    /\ queuePc = "freeReducers"
    /\ queueIndex <= Len(statistic[queueJob].reduceHostList)
    /\ availableReducerList' =
           [availableReducerList EXCEPT ![statistic[queueJob].reduceHostList[queueIndex]] = "Ready"]
    /\ queueIndex' = queueIndex + 1
    /\ UNCHANGED <<queuePc, queueJob, availableMapperList, jobStats, finishJobQueue>>
    /\ QueueUnchanged

\* Faulty: every place that holds statistics of a job of this name.
IsOfName(i, job) == statistic[jobStats[i]].job = job

\* The first place of jobStats that holds statistics of a job of this name.
IsFirstOfName(i, job) ==
    /\ statistic[jobStats[i]].job = job
    /\ \A j \in 1 .. i - 1 : statistic[jobStats[j]].job # job

\* The statistics that were put replace those at that place.
RecordStatistic ==
    /\ queuePc = "freeReducers" /\ queuePc' = "get"
    /\ queueIndex > Len(statistic[queueJob].reduceHostList)
    /\ jobStats' = [i \in DOMAIN jobStats |->
                       IF IsFirstOfName(i, statistic[queueJob].job)
                       THEN queueJob ELSE jobStats[i]]
    /\ queueJob' = NoJob
    /\ UNCHANGED <<queueIndex, slotVars, finishJobQueue>> /\ QueueUnchanged

\* Faulty: the thread stops as soon as it is told to, whatever is in the queue.
QueueStopsAtOnce == queueRunning

QueueContinues == queueRunning \/ Len(finishJobQueue) > 0

QueueExit ==
    /\ queuePc = "get" /\ queuePc' = "exited"
    /\ ~QueueContinues
    /\ UNCHANGED <<queueJob, queueIndex, slotVars, jobStats, finishJobQueue>>
    /\ QueueUnchanged

-----------------------------------------------------------------------------
(* handleJobThreads: passes over the list of the job threads.               *)

ReaperUnchanged ==
    UNCHANGED <<mainVars, slotVars, statistic, jobStats, jobState, finishJobQueue, queueVars>>

\* A dead thread is removed.  The list shrinks under its iterator: the thread after a
\* removed one is not visited in this pass.
ReaperVisit ==
    /\ reaperPc = "pass"
    /\ reaperIndex <= Len(jobThreads)
    /\ jobThreads' = IF jobState[jobThreads[reaperIndex]] # "dead" THEN jobThreads
                     ELSE [i \in 1 .. Len(jobThreads) - 1 |->
                              jobThreads[IF i < reaperIndex THEN i ELSE i + 1]]
    /\ reaperIndex' = reaperIndex + 1
    /\ UNCHANGED reaperPc /\ ReaperUnchanged

\* Faulty: an empty list keeps the thread running.
ReaperNeverStops == reaperRunning \/ Len(jobThreads) >= 0

ReaperContinues == reaperRunning \/ Len(jobThreads) > 0

ReaperPassDone ==
    /\ reaperPc = "pass"
    /\ reaperIndex > Len(jobThreads)
    /\ reaperPc' = IF ReaperContinues THEN "pass" ELSE "exited"
    /\ reaperIndex' = 1
    /\ UNCHANGED jobThreads /\ ReaperUnchanged

-----------------------------------------------------------------------------
Main ==
    \/ ReadWorkFile \/ ProcessLine \/ CheckQueue
    \/ NextJob \/ FindMapper \/ FindReducer \/ TakePair \/ StartJob
    \/ SchedulingDone \/ JoinReaper \/ JoinQueue \/ WriteResults
    \/ TerminateQueue \/ TerminateReaper \/ TerminateJoinReaper \/ TerminateManager

Job(k) == JobPut(k) \/ JobExit(k)

HandleJobQueue ==
    QueueGet \/ FreeMapper \/ MappersFreed \/ FreeReducer \/ RecordStatistic \/ QueueExit

HandleJobThreads == ReaperVisit \/ ReaperPassDone

\* Every thread of the program has come to its end.
Finished ==
    /\ mainPc \in {"netStop", "crashed"} /\ queuePc = "exited" /\ reaperPc = "exited"
    /\ UNCHANGED vars

Next ==
    \/ Main
    \/ \E k \in DOMAIN jobState : Job(k)
    \/ HandleJobQueue
    \/ HandleJobThreads
    \/ Finished

Spec == Init /\ [][Next]_vars

\* The operating system schedules every thread; a job ends, with success or when its
\* attempts are used up.
FairSpec ==
    /\ Spec
    /\ WF_vars(Main) /\ WF_vars(HandleJobQueue) /\ WF_vars(HandleJobThreads)
    /\ \A k \in 1 .. MaximumJobsPerTest : WF_vars(k \in DOMAIN jobState /\ Job(k))

-----------------------------------------------------------------------------
(* Properties.                                                              *)

MainPcs == {"open", "processJobs", "nextJob", "findMapper", "findReducer", "joinReaper",
            "joinQueue", "writeResults", "terminate", "terminateJoinQueue", "terminateReaper",
            "terminateJoinReaper", "terminateManager", "netStop", "crashed"}

MainTypeOK ==
    /\ mainPc \in MainPcs
    /\ workFile \in WorkFiles
    /\ lineNo \in Nat \ {0}
    /\ workQueue \in Seq([hosts : 1 .. NumberOfHosts, bytes : Nat \ {0}, job : JobNames])
    /\ counter \in 0 .. Len(workQueue)

SlotTypeOK ==
    /\ cursor \in (0 .. NumberOfHosts) \X {0, 1}
    /\ mapperSlot \in Slots
    /\ availableMapperList \in [Slots -> {"Ready", "Busy"}]
    /\ availableReducerList \in [Slots -> {"Ready", "Busy"}]

JobTypeOK ==
    /\ statistic \in Seq([job : JobNames, mapHostList : Seq(Slots), reduceHostList : Seq(Slots)])
    /\ jobStats \in Seq(1 .. counter)
    /\ jobState \in Seq({"new", "running", "put", "dead"})
    /\ Len(statistic) = counter /\ Len(jobStats) = counter /\ Len(jobState) = counter
    /\ jobThreads \in Seq(1 .. counter)
    /\ finishJobQueue \in Seq(1 .. counter)

FlagTypeOK ==
    /\ queueRunning \in BOOLEAN
    /\ reaperRunning \in BOOLEAN
    /\ unwinding \in BOOLEAN
    /\ managerDown \in BOOLEAN

ThreadTypeOK ==
    /\ queuePc \in {"get", "freeMappers", "freeReducers", "exited"}
    /\ queueJob \in 0 .. counter
    /\ queuePc \in {"freeMappers", "freeReducers"} <=> queueJob # NoJob
    /\ queueIndex \in Nat \ {0}
    /\ reaperPc \in {"pass", "exited"}
    /\ reaperIndex \in Nat \ {0}

\* Every variable keeps its type: places, slots and jobs are those of the lists they index.
TypeOK == MainTypeOK /\ SlotTypeOK /\ JobTypeOK /\ FlagTypeOK /\ ThreadTypeOK

\* The main thread looks for slots only for a job it has taken, and it looks for a reducer
\* only among the slots there are, with a mapper in hand that is still free.
SearchOK ==
    /\ mainPc \in {"findMapper", "findReducer"} => counter > 0
    /\ mainPc = "findReducer" => cursor \in Slots /\ availableMapperList[mapperSlot] = "Ready"

\* The statistics of job k wait in the queue.
Queued(k) == \E i \in DOMAIN finishJobQueue : finishJobQueue[i] = k

\* The queue thread is done with job k: it has given all its slots back.
Released(k) ==
    /\ jobState[k] \in {"put", "dead"}
    /\ ~Queued(k)
    /\ k # queueJob

\* The places of its list of mappers (reducers) whose slots job k still holds.
HeldMappers(k) ==
    IF Released(k) \/ (k = queueJob /\ queuePc = "freeReducers") THEN {}
    ELSE {i \in DOMAIN statistic[k].mapHostList : k = queueJob => i >= queueIndex}

HeldReducers(k) ==
    IF Released(k) THEN {}
    ELSE {i \in DOMAIN statistic[k].reduceHostList :
             k = queueJob /\ queuePc = "freeReducers" => i >= queueIndex}

\* A slot is Busy exactly when a job holds it.  The main thread marks slots, the queue
\* thread clears them one by one from a list of its own: neither may miss one, or free
\* one that another job has got since.
BusyIffHeld ==
    \A s \in Slots :
        /\ availableMapperList[s] = "Busy" <=>
               \E k \in DOMAIN statistic :
                   \E i \in HeldMappers(k) : statistic[k].mapHostList[i] = s
        /\ availableReducerList[s] = "Busy" <=>
               \E k \in DOMAIN statistic :
                   \E i \in HeldReducers(k) : statistic[k].reduceHostList[i] = s

\* No slot is held twice, by two jobs or by one: two iperf clients would share it, and
\* the first job to end would free it under the other.
OneHolder ==
    \A k, l \in DOMAIN statistic :
        /\ \A i \in HeldMappers(k), j \in HeldMappers(l) :
               statistic[k].mapHostList[i] = statistic[l].mapHostList[j] => k = l /\ i = j
        /\ \A i \in HeldReducers(k), j \in HeldReducers(l) :
               statistic[k].reduceHostList[i] = statistic[l].reduceHostList[j] => k = l /\ i = j

\* The slots are always accounted for: what a job holds is marked, what is marked some job
\* holds, and nothing is held twice, at every step of the two threads that write the lists.
SlotsAreSound == TypeOK /\ BusyIffHeld /\ OneHolder

\* Job k has as many reducers as mappers, and no more than it needs; the two of a pair are
\* on different hosts, and no reducer is on the first host.
IsPaired(k) ==
    /\ Len(statistic[k].mapHostList) = Len(statistic[k].reduceHostList)
    /\ Len(statistic[k].mapHostList) <= workQueue[k].hosts
    /\ \A i \in DOMAIN statistic[k].mapHostList :
           /\ statistic[k].mapHostList[i][1] # statistic[k].reduceHostList[i][1]
           /\ statistic[k].reduceHostList[i][1] # 0

HasAllItsHosts(k) == Len(statistic[k].mapHostList) = workQueue[k].hosts

\* A job that was started has a mapper and a reducer on different hosts for each of the
\* hosts it needs: the pairs come one at a time, from slots that others give back.
StartedJobIsPlaced ==
    \A k \in DOMAIN jobState : jobState[k] # "new" => IsPaired(k) /\ HasAllItsHosts(k)

\* While the main thread assembles a job, and until it has appended its thread, the
\* place of jobStats it works on holds the statistics it has made for that job: the
\* queue thread, which overwrites places of the same list, never puts others there.
AssemblesItsOwn ==
    mainPc \in {"findMapper", "findReducer"} => jobStats[counter] = counter

\* A job is assembled undisturbed and started with all its pairs.
JobsArePlaced == StartedJobIsPlaced /\ AssemblesItsOwn

\* What makes the properties of the slots inductive: a job is in the queue or in the hands
\* of the queue thread once, and only after it has put its statistics; ...
QueueOK ==
    /\ \A i, j \in DOMAIN finishJobQueue : finishJobQueue[i] = finishJobQueue[j] => i = j
    /\ \A i \in DOMAIN finishJobQueue :
           jobState[finishJobQueue[i]] \in {"put", "dead"} /\ finishJobQueue[i] # queueJob
    /\ queueJob # NoJob => jobState[queueJob] \in {"put", "dead"}

\* ... only the last job can be new, and is while the main thread looks for its slots; ...
AssemblyOK ==
    \A k \in DOMAIN jobState :
        jobState[k] = "new" <=> k = counter /\ mainPc \in {"findMapper", "findReducer"}

\* ... the statistics at a place of jobStats have the name of the job that was put there;
NamesOK == \A i \in DOMAIN jobStats : statistic[jobStats[i]].job = statistic[i].job

\* ... and no job has more pairs than hosts it needs.
PairsOK ==
    /\ \A k \in DOMAIN statistic : IsPaired(k)
    /\ mainPc = "findReducer" => RequiredHosts > 0

\* When the results are written every admitted job has run to its end and is recorded,
\* its thread is reaped, and every slot is free again.
ResultsAreFinal ==
    mainPc = "writeResults" =>
        /\ Len(jobStats) = Len(workQueue)
        /\ jobThreads = <<>>
        /\ \A k \in DOMAIN jobState : jobState[k] = "dead" /\ Released(k)
        /\ \A s \in Slots : availableMapperList[s] = "Ready" /\ availableReducerList[s] = "Ready"

\* terminate() returns with both threads joined and the servers killed, whichever way
\* runTest came to its end.
TerminateJoinsAll ==
    mainPc = "netStop" => queuePc = "exited" /\ reaperPc = "exited" /\ managerDown

\* A test is over only when it is: nothing of it is left to do when its results are written,
\* and no thread of it runs when its network is stopped.
RunIsComplete == ResultsAreFinal /\ TerminateJoinsAll

\* What makes it inductive: a thread that has ended was told to, and has left nothing; none
\* is told while jobs are placed, nor the queue thread while jobs may still run; ...
StopOK ==
    /\ queuePc = "exited" => ~queueRunning /\ finishJobQueue = <<>>
    /\ reaperPc = "exited" => ~reaperRunning /\ jobThreads = <<>>
    /\ mainPc \in {"open", "processJobs", "nextJob", "findMapper", "findReducer"} =>
           queueRunning /\ reaperRunning
    /\ mainPc = "joinReaper" => queueRunning

\* ... what the main thread has behind it has been joined, or is known to run still; ...
JoinOK ==
    /\ mainPc \in {"terminateReaper", "terminateJoinReaper", "writeResults",
                   "terminateManager", "netStop"} => queuePc = "exited"
    /\ mainPc \in {"joinQueue", "writeResults", "terminateManager", "netStop"} =>
           reaperPc = "exited"
    /\ mainPc = "terminate" => queueRunning \/ queuePc = "exited"
    /\ mainPc \in {"terminate", "terminateJoinQueue", "terminateReaper"} =>
           reaperRunning \/ reaperPc = "exited"
    /\ mainPc = "netStop" => managerDown

\* ... and a job that is not over has its thread in the list that the reaper empties.
ThreadsOK ==
    /\ \A k \in DOMAIN jobState :
           jobState[k] \in {"running", "put"} => \E i \in DOMAIN jobThreads : jobThreads[i] = k
    /\ mainPc \notin {"nextJob", "findMapper", "findReducer", "joinReaper"} =>
           \A k \in DOMAIN jobState : jobState[k] = "dead"
    /\ mainPc \in {"open", "processJobs"} => counter = 0
    /\ mainPc \in {"joinReaper", "joinQueue", "writeResults"} => counter = Len(workQueue)

\* The search of the main thread can find no pair any more.  Every other job has given its
\* slots back, and of its own the job holds the mappers of every host before the middle one
\* and the reducers of every host behind it: the first mapper and the first reducer that are
\* free are both on the middle host.  It takes an odd number of hosts, and a job that needs
\* all of them.
SearchesForEver ==
    /\ mainPc \in {"findMapper", "findReducer"}
    /\ NumberOfHosts % 2 = 1 /\ workQueue[counter].hosts = NumberOfHosts
    /\ \A k \in 1 .. counter - 1 : Released(k)
    /\ \A s \in Slots :
           /\ availableMapperList[s] = "Busy" <=> s[1] < NumberOfHosts \div 2
           /\ availableReducerList[s] = "Busy" <=> s[1] > NumberOfHosts \div 2

\* Every job that the main thread takes from the work queue is started in the end, whatever
\* slots it has to wait for, unless it is the last that is ever taken: one that needs every
\* host of an odd number and has got its pairs in the order that leaves none.
TakenJobStarts ==
    \A k \in 1 .. MaximumJobsPerTest :
        counter = k ~> \/ k \in DOMAIN jobState /\ jobState[k] # "new"
                       \/ counter = k /\ SearchesForEver

\* The main thread comes to its end, however the scan for slots and the threads that
\* give slots back and reap jobs are interleaved with it, or it searches for ever for that
\* one reason; nothing else keeps it.
RunEnds == <>(mainPc \in {"netStop", "crashed"} \/ SearchesForEver)

-----------------------------------------------------------------------------
(* Refinement: the owner of a slot is the job that holds it.                *)

MapperOwner(s) ==
    IF \E k \in DOMAIN statistic : \E i \in HeldMappers(k) : statistic[k].mapHostList[i] = s
    THEN CHOOSE k \in DOMAIN statistic :
             \E i \in HeldMappers(k) : statistic[k].mapHostList[i] = s
    ELSE NoJob

ReducerOwner(s) ==
    IF \E k \in DOMAIN statistic : \E i \in HeldReducers(k) : statistic[k].reduceHostList[i] = s
    THEN CHOOSE k \in DOMAIN statistic :
             \E i \in HeldReducers(k) : statistic[k].reduceHostList[i] = s
    ELSE NoJob

Phase(k) ==
    CASE k \notin DOMAIN jobState -> "waiting"
      [] k \in DOMAIN jobState ->
             CASE jobState[k] = "new" -> "waiting"
               [] jobState[k] = "running" -> "running"
               [] jobState[k] \in {"put", "dead"} -> "over"

Pool == INSTANCE SlotPool WITH
    Jobs <- 1 .. MaximumJobsPerTest,
    NoOwner <- NoJob,
    mapperOwner <- [s \in Slots |-> MapperOwner(s)],
    reducerOwner <- [s \in Slots |-> ReducerOwner(s)],
    phase <- [k \in 1 .. MaximumJobsPerTest |-> Phase(k)]

\* The scheduler hands out and takes back slots as SlotPool says.
ImplementsSlotPool == Pool!PoolSpec

=============================================================================
