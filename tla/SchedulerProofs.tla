-------------------------- MODULE SchedulerProofs --------------------------
(***************************************************************************)
(* Proofs about Scheduler, for every number of hosts and every work file.   *)
(***************************************************************************)
EXTENDS Scheduler, TLAPS

(* Sequences.                                                               *)

LEMMA SeqMonotone ==
    ASSUME NEW S, NEW T, S \subseteq T, NEW s \in Seq(S)
    PROVE  s \in Seq(T)
<1>1. \A i \in 1 .. Len(s) : s[i] \in T
  OBVIOUS
<1>2. s = [i \in 1 .. Len(s) |-> s[i]] /\ Len(s) \in Nat
  OBVIOUS
<1> QED
  BY <1>1, <1>2

LEMMA AppendType ==
    ASSUME NEW S, NEW s \in Seq(S), NEW e \in S
    PROVE  Append(s, e) \in Seq(S) /\ Len(Append(s, e)) = Len(s) + 1
  OBVIOUS

LEMMA AppendElements ==
    ASSUME NEW S, NEW s \in Seq(S), NEW e \in S
    PROVE  /\ DOMAIN Append(s, e) = 1 .. Len(s) + 1
           /\ Append(s, e)[Len(s) + 1] = e
           /\ \A i \in 1 .. Len(s) : Append(s, e)[i] = s[i]
  OBVIOUS

LEMMA ElementType ==
    ASSUME NEW S, NEW s \in Seq(S), NEW i \in 1 .. Len(s)
    PROVE  s[i] \in S
  OBVIOUS

LEMMA UpdateType ==
    ASSUME NEW S, NEW s \in Seq(S), NEW i \in 1 .. Len(s), NEW e \in S
    PROVE  [s EXCEPT ![i] = e] \in Seq(S) /\ Len([s EXCEPT ![i] = e]) = Len(s)
  OBVIOUS

LEMMA HeadTailType ==
    ASSUME NEW S, NEW s \in Seq(S), s # <<>>
    PROVE  /\ Head(s) \in S /\ Head(s) = s[1]
           /\ Tail(s) \in Seq(S) /\ Len(s) \in Nat \ {0} /\ Len(Tail(s)) = Len(s) - 1
           /\ \A i \in 1 .. Len(s) - 1 : Tail(s)[i] = s[i + 1]
  OBVIOUS

(* What the parts of a division are, and what a job is made of.             *)

LEMMA DivisionType ==
    ASSUME NEW a \in Nat, NEW b \in Nat \ {0}
    PROVE  a \div b \in Nat /\ a % b \in Nat
  BY Z3

\* A job needs at least one host.
LEMMA HostsNeededType ==
    ASSUME NEW bytes \in Nat
    PROVE  HostsNeeded(bytes) \in Nat \ {0}
<1>1. bytes \div BytesPerHost \in Nat
  BY DivisionType, SchedulerAssumption
<1> QED
  BY <1>1, SMT DEF HostsNeeded

-----------------------------------------------------------------------------
(* Type correctness.                                                        *)

\* TypeOK is not inductive as it stands: the places that findContributingPair looks at
\* must be slots while it looks for a reducer.
TypeInv == TypeOK /\ SearchOK

JobType == [hosts : 1 .. NumberOfHosts, bytes : Nat \ {0}, job : JobNames]

LEMMA JobOfType ==
    ASSUME NEW line \in WorkLine \cup {EmptyLine}, Admitted(line)
    PROVE  JobOf(line) \in JobType
<1>1. line \in WorkLine
  BY DEF Admitted
<1>2. HostsNeeded(line.inputBytes) \in Nat \ {0}
  BY <1>1, HostsNeededType DEF WorkLine
<1>3. HostsNeeded(line.inputBytes) \in 1 .. NumberOfHosts
  BY <1>2, SchedulerAssumption DEF Admitted
<1> QED
  BY <1>1, <1>3 DEF JobOf, JobType, WorkLine, Admitted

LEMMA InitTypeInv == Init => TypeInv
<1> SUFFICES ASSUME Init PROVE TypeInv
  OBVIOUS
<1> USE DEF Init
<1>1. <<0, 0>> \in Slots /\ <<0, 0>> \in (0 .. NumberOfHosts) \X {0, 1}
  BY SchedulerAssumption DEF Slots
<1>2. MainTypeOK
  BY DEF MainTypeOK, MainPcs
<1>3. SlotTypeOK
  BY <1>1 DEF SlotTypeOK
<1>4. JobTypeOK
  BY DEF JobTypeOK
<1>5. FlagTypeOK
  BY DEF FlagTypeOK
<1>6. ThreadTypeOK
  BY DEF ThreadTypeOK, NoJob
<1>7. SearchOK
  BY DEF SearchOK
<1> QED
  BY <1>2, <1>3, <1>4, <1>5, <1>6, <1>7 DEF TypeInv, TypeOK

\* What a step leaves alone keeps its type.
LEMMA UnchangedTypes ==
    ASSUME TypeInv
    PROVE  /\ UNCHANGED <<mainPc, fileVars, counter>> => MainTypeOK'
           /\ UNCHANGED <<searchVars, slotVars>> => SlotTypeOK'
           /\ UNCHANGED <<counter, jobVars>> => JobTypeOK'
           /\ UNCHANGED endVars => FlagTypeOK'
           /\ UNCHANGED <<counter, queueVars, reaperVars>> => ThreadTypeOK'
           /\ UNCHANGED <<mainPc, counter, searchVars, availableMapperList>> => SearchOK'
<1> USE DEF TypeInv, TypeOK
<1>1. UNCHANGED <<mainPc, fileVars, counter>> => MainTypeOK'
  BY DEF MainTypeOK, fileVars
<1>2. UNCHANGED <<searchVars, slotVars>> => SlotTypeOK'
  BY DEF SlotTypeOK, searchVars, slotVars
<1>3. UNCHANGED <<counter, jobVars>> => JobTypeOK'
  BY DEF JobTypeOK, jobVars
<1>4. UNCHANGED endVars => FlagTypeOK'
  BY DEF FlagTypeOK, endVars
<1>5. UNCHANGED <<counter, queueVars, reaperVars>> => ThreadTypeOK'
  BY DEF ThreadTypeOK, queueVars, reaperVars
<1>6. UNCHANGED <<mainPc, counter, searchVars, availableMapperList>> => SearchOK'
  BY DEF SearchOK, searchVars
<1> QED
  BY <1>1, <1>2, <1>3, <1>4, <1>5, <1>6

\* A step that only moves the control of the main thread.
LEMMA GotoTypes ==
    ASSUME TypeInv, NEW from, NEW to \in MainPcs \ {"findMapper", "findReducer"},
           Goto(from, to), UNCHANGED fileVars, FlagTypeOK'
    PROVE  TypeInv'
<1>1. MainTypeOK'
  BY DEF Goto, TypeInv, TypeOK, MainTypeOK, fileVars
<1>2. SearchOK'
  BY DEF Goto, SearchOK
<1> QED
  BY <1>1, <1>2, UnchangedTypes DEF Goto, TypeInv, TypeOK

LEMMA StepTypeInv == TypeInv /\ [Next]_vars => TypeInv'
<1> SUFFICES ASSUME TypeInv, [Next]_vars PROVE TypeInv'
  OBVIOUS
<1> USE UnchangedTypes
<1>0. MainTypeOK /\ SlotTypeOK /\ JobTypeOK /\ FlagTypeOK /\ ThreadTypeOK /\ SearchOK
  BY DEF TypeInv, TypeOK
<1>1. CASE ReadWorkFile
  <2>1. FlagTypeOK'
    BY <1>1 DEF ReadWorkFile
  <2> QED
    BY <1>1, <2>1, GotoTypes DEF ReadWorkFile, MainPcs
<1>2. CASE ProcessLine
  <2>1. workFile \in Seq(WorkLine \cup {EmptyLine})
    BY <1>0, SchedulerAssumption DEF MainTypeOK
  <2>2. workFile[lineNo] \in WorkLine \cup {EmptyLine}
    BY <1>0, <1>2, <2>1 DEF ProcessLine, MainTypeOK
  <2>3. workQueue \in Seq(JobType)
    BY <1>0 DEF MainTypeOK, JobType
  <2>4. workQueue' \in Seq(JobType) /\ Len(workQueue') >= Len(workQueue)
    BY <1>2, <2>2, <2>3, JobOfType, AppendType DEF ProcessLine
  <2>5. MainTypeOK'
    BY <1>0, <1>2, <2>4 DEF ProcessLine, Goto, MainTypeOK, JobType
  <2> QED
    BY <1>2, <2>5 DEF ProcessLine, Goto, TypeInv, TypeOK, SearchOK
<1>3. CASE CheckQueue
  <2>1. FlagTypeOK'
    BY <1>0, <1>3 DEF CheckQueue, FlagTypeOK, QueueLengthIsTrue
  <2> QED
    BY <1>3, <2>1, GotoTypes DEF CheckQueue, MainPcs
<1>4. CASE SchedulingDone \/ JoinReaper \/ JoinQueue \/ WriteResults
  <2>1. FlagTypeOK'
    BY <1>0, <1>4 DEF SchedulingDone, JoinReaper, JoinQueue, WriteResults, FlagTypeOK, endVars
  <2> QED
    BY <1>4, <2>1, GotoTypes DEF SchedulingDone, JoinReaper, JoinQueue, WriteResults, MainPcs
<1>5. CASE TerminateQueue \/ TerminateReaper \/ TerminateJoinReaper
  <2>1. FlagTypeOK'
    BY <1>0, <1>5 DEF TerminateQueue, TerminateReaper, TerminateJoinReaper, FlagTypeOK, endVars
  <2> QED
    BY <1>5, <2>1, GotoTypes DEF TerminateQueue, TerminateReaper, TerminateJoinReaper, JoinIf,
       MainPcs
<1>6. CASE TerminateManager
  <2>1. FlagTypeOK'
    BY <1>0, <1>6 DEF TerminateManager, FlagTypeOK
  <2> QED
    BY <1>6, <2>1, GotoTypes DEF TerminateManager, MainPcs
<1>7. CASE NextJob
  <2>1. counter' \in 1 .. Len(workQueue) /\ counter' = counter + 1 /\ counter \in Nat
    BY <1>0, <1>7 DEF NextJob, MainTypeOK
  <2>2. MainTypeOK'
    BY <1>0, <1>7, <2>1 DEF NextJob, MainTypeOK, MainPcs, fileVars
  <2>3. workQueue[counter'].job \in JobNames
    <3>1. workQueue \in Seq(JobType)
      BY <1>0 DEF MainTypeOK, JobType
    <3>2. workQueue[counter'] \in JobType
      BY <2>1, <3>1, ElementType
    <3> QED
      BY <3>2 DEF JobType
  <2>4. JobTypeOK'
    <3>1. 1 .. counter \subseteq 1 .. counter' /\ counter' \in 1 .. counter'
      BY <2>1
    <3>2. /\ jobStats \in Seq(1 .. counter') /\ jobThreads \in Seq(1 .. counter')
          /\ finishJobQueue \in Seq(1 .. counter')
      BY <1>0, <3>1, SeqMonotone DEF JobTypeOK
    <3>3. [job |-> workQueue[counter'].job, mapHostList |-> <<>>, reduceHostList |-> <<>>]
              \in [job : JobNames, mapHostList : Seq(Slots), reduceHostList : Seq(Slots)]
      BY <2>3
    <3>4. /\ statistic' \in Seq([job : JobNames, mapHostList : Seq(Slots),
                                 reduceHostList : Seq(Slots)])
          /\ Len(statistic') = counter'
      BY <1>0, <1>7, <2>1, <3>3, AppendType DEF NextJob, JobTypeOK
    <3>5. jobStats' \in Seq(1 .. counter') /\ Len(jobStats') = counter'
      BY <1>0, <1>7, <2>1, <3>1, <3>2, AppendType DEF NextJob, JobTypeOK
    <3>6. jobState' \in Seq({"new", "running", "put", "dead"}) /\ Len(jobState') = counter'
      BY <1>0, <1>7, <2>1, AppendType DEF NextJob, JobTypeOK
    <3> QED
      BY <1>7, <3>2, <3>4, <3>5, <3>6 DEF NextJob, JobTypeOK
  <2>5. SlotTypeOK'
    BY <1>0, <1>7, SchedulerAssumption DEF NextJob, SlotTypeOK, slotVars
  <2>6. ThreadTypeOK'
    BY <1>0, <1>7, <2>1 DEF NextJob, ThreadTypeOK, queueVars, reaperVars
  <2>7. SearchOK'
    BY <1>7, <2>1 DEF NextJob, SearchOK
  <2> QED
    BY <1>7, <2>2, <2>4, <2>5, <2>6, <2>7 DEF NextJob, TypeInv, TypeOK
<1>8. CASE FindMapper
  <2>1. cursor \in Slots => NextMapper(cursor) \in (0 .. NumberOfHosts) \X {0, 1}
    BY SchedulerAssumption DEF Slots, NextMapper
  <2>2. <<0, 0>> \in Slots /\ <<NumberOfHosts - 1, 0>> \in Slots
    BY SchedulerAssumption DEF Slots
  <2>3. \A s \in Slots : s \in (0 .. NumberOfHosts) \X {0, 1}
    BY SchedulerAssumption DEF Slots
  <2>4. MainTypeOK'
    BY <1>0, <1>8 DEF FindMapper, Scan, MainTypeOK, MainPcs, fileVars
  <2>5. SlotTypeOK'
    BY <1>0, <1>8, <2>1, <2>2, <2>3 DEF FindMapper, Scan, SlotTypeOK, slotVars
  <2>6. SearchOK'
    BY <1>0, <1>8, <2>2 DEF FindMapper, Scan, SearchOK, slotVars, IsReady
  <2> QED
    BY <1>8, <2>4, <2>5, <2>6 DEF FindMapper, Scan, TypeInv, TypeOK
<1>9. CASE FindReducer
  <2>1. cursor \in Slots /\ cursor[1] > 0 => NextReducer(cursor) \in Slots
    BY SchedulerAssumption DEF Slots, NextReducer
  <2>2. <<0, 0>> \in Slots /\ \A s \in Slots : s \in (0 .. NumberOfHosts) \X {0, 1}
    BY SchedulerAssumption DEF Slots
  <2>3. cursor' \in Slots /\ mapperSlot' = mapperSlot
    BY <1>0, <1>9, <2>1, <2>2 DEF FindReducer, Scan, SearchOK
  <2>4. MainTypeOK'
    BY <1>0, <1>9 DEF FindReducer, Scan, MainTypeOK, MainPcs, fileVars
  <2>5. SlotTypeOK'
    BY <1>0, <1>9, <2>2, <2>3 DEF FindReducer, Scan, SlotTypeOK, slotVars
  <2>6. SearchOK'
    BY <1>0, <1>9, <2>3 DEF FindReducer, Scan, SearchOK, slotVars
  <2> QED
    BY <1>9, <2>4, <2>5, <2>6 DEF FindReducer, Scan, TypeInv, TypeOK
<1>10. CASE TakePair
  <2>1. counter \in 1 .. counter /\ mapperSlot \in Slots /\ cursor \in Slots
    BY <1>0, <1>10 DEF TakePair, MainTypeOK, SlotTypeOK, SearchOK
  <2> DEFINE k == jobStats[counter]
             S == [job : JobNames, mapHostList : Seq(Slots), reduceHostList : Seq(Slots)]
             new == [statistic[k] EXCEPT !.mapHostList = Append(@, mapperSlot),
                                         !.reduceHostList = Append(@, cursor)]
  <2>9. jobStats \in Seq(1 .. counter) /\ Len(jobStats) = counter
    BY <1>0 DEF JobTypeOK
  <2>2. k \in 1 .. counter
    BY <2>1, <2>9, ElementType
  <2> HIDE DEF k
  <2>10. statistic \in Seq(S) /\ Len(statistic) = counter
    BY <1>0 DEF JobTypeOK
  <2>3. statistic[k] \in S
    BY <2>2, <2>10, ElementType
  <2>4. new \in S
    BY <2>1, <2>3, AppendType
  <2> HIDE DEF S, new
  <2>5. statistic' = [statistic EXCEPT ![k] = new]
    BY <1>10 DEF TakePair, k, new
  <2>11. statistic' \in Seq(S) /\ Len(statistic') = counter
    BY <2>2, <2>4, <2>5, <2>10, UpdateType
  <2>6. JobTypeOK'
    BY <1>0, <1>10, <2>11 DEF TakePair, JobTypeOK, S
  <2>7. SlotTypeOK'
    BY <1>0, <1>10, <2>1, SchedulerAssumption DEF TakePair, SlotTypeOK
  <2>8. MainTypeOK' /\ SearchOK'
    BY <1>0, <1>10 DEF TakePair, MainTypeOK, SearchOK, MainPcs, fileVars
  <2> QED
    BY <1>10, <2>6, <2>7, <2>8 DEF TakePair, TypeInv, TypeOK
<1>11. CASE StartJob
  <2>1. counter \in 1 .. counter
    BY <1>0, <1>11 DEF StartJob, MainTypeOK, SearchOK
  <2>5. jobStats \in Seq(1 .. counter) /\ Len(jobStats) = counter
    BY <1>0 DEF JobTypeOK
  <2>2. jobStats[counter] \in 1 .. counter
    BY <2>1, <2>5, ElementType
  <2>3. JobTypeOK'
    BY <1>0, <1>11, <2>2, AppendType DEF StartJob, JobTypeOK
  <2>4. MainTypeOK' /\ SearchOK'
    BY <1>0, <1>11 DEF StartJob, MainTypeOK, SearchOK, MainPcs, fileVars
  <2> QED
    BY <1>11, <2>3, <2>4 DEF StartJob, TypeInv, TypeOK
<1>12. ASSUME NEW k \in DOMAIN jobState, Job(k) PROVE TypeInv'
  <2>1. k \in 1 .. Len(jobState) /\ Len(jobState) = counter
    BY <1>0 DEF JobTypeOK
  <2> DEFINE States == {"new", "running", "put", "dead"}
  <2>6. jobState \in Seq(States)
    BY <1>0 DEF JobTypeOK
  <2>7. PICK s \in States : jobState' = [jobState EXCEPT ![k] = s]
    BY <1>12 DEF Job, JobPut, JobExit
  <2>2. jobState' \in Seq(States) /\ Len(jobState') = counter
    <3> HIDE DEF States
    <3> QED
      BY <2>1, <2>6, <2>7, UpdateType
  <2>3. finishJobQueue' \in Seq(1 .. counter)
    <3>1. finishJobQueue \in Seq(1 .. counter) /\ k \in 1 .. counter
      BY <1>0, <2>1 DEF JobTypeOK
    <3>2. finishJobQueue' = finishJobQueue \/ finishJobQueue' = Append(finishJobQueue, k)
      BY <1>12 DEF Job, JobPut, JobExit
    <3> QED
      BY <3>1, <3>2, AppendType
  <2>4. UNCHANGED <<mainVars, slotVars, statistic, jobStats, jobThreads, queueVars, reaperVars>>
    BY <1>12 DEF Job, JobPut, JobExit
  <2>5. JobTypeOK'
    BY <1>0, <2>2, <2>3, <2>4 DEF JobTypeOK, mainVars
  <2> QED
    BY <2>4, <2>5 DEF mainVars, slotVars, TypeInv, TypeOK
<1>13. CASE QueueGet
  <2>1. finishJobQueue \in Seq(1 .. counter) /\ finishJobQueue # <<>>
    BY <1>0, <1>13 DEF QueueGet, JobTypeOK
  <2>2. queueJob' \in 1 .. counter /\ finishJobQueue' \in Seq(1 .. counter)
    BY <1>13, <2>1, HeadTailType DEF QueueGet
  <2>3. JobTypeOK'
    BY <1>0, <1>13, <2>2 DEF QueueGet, QueueUnchanged, JobTypeOK, mainVars
  <2>4. ThreadTypeOK'
    BY <1>0, <1>13, <2>2 DEF QueueGet, QueueUnchanged, ThreadTypeOK, NoJob, mainVars, reaperVars
  <2> QED
    BY <1>13, <2>3, <2>4 DEF QueueGet, QueueUnchanged, TypeInv, TypeOK, mainVars, slotVars
<1>14. CASE FreeMapper \/ FreeReducer
  <2>1. SlotTypeOK' /\ SearchOK'
    BY <1>0, <1>14 DEF FreeMapper, FreeReducer, QueueUnchanged, SlotTypeOK, SearchOK, mainVars,
       searchVars
  <2>2. ThreadTypeOK'
    BY <1>0, <1>14 DEF FreeMapper, FreeReducer, QueueUnchanged, ThreadTypeOK, mainVars, reaperVars
  <2> QED
    BY <1>14, <2>1, <2>2 DEF FreeMapper, FreeReducer, QueueUnchanged, TypeInv, TypeOK, mainVars,
       jobVars
<1>15. CASE MappersFreed \/ QueueExit
  <2>1. ThreadTypeOK'
    BY <1>0, <1>15 DEF MappersFreed, QueueExit, FirstReducerPlace, QueueUnchanged, ThreadTypeOK,
       mainVars, reaperVars
  <2> QED
    BY <1>15, <2>1 DEF MappersFreed, QueueExit, QueueUnchanged, TypeInv, TypeOK, mainVars,
       slotVars, jobVars
<1>16. CASE RecordStatistic
  <2>1. queueJob \in 1 .. counter
    BY <1>0, <1>16 DEF RecordStatistic, NoJob, ThreadTypeOK
  <2>2. jobStats' \in Seq(1 .. counter) /\ Len(jobStats') = counter
    <3>1. jobStats \in Seq(1 .. counter) /\ Len(jobStats) = counter /\ counter \in Nat
      BY <1>0 DEF JobTypeOK, MainTypeOK
    <3>2. jobStats' = [i \in 1 .. counter |-> jobStats'[i]]
      BY <1>16, <3>1 DEF RecordStatistic
    <3>3. \A i \in 1 .. counter : jobStats'[i] \in 1 .. counter
      BY <1>16, <2>1, <3>1 DEF RecordStatistic
    <3> QED
      BY <3>1, <3>2, <3>3
  <2>3. JobTypeOK'
    BY <1>0, <1>16, <2>2 DEF RecordStatistic, QueueUnchanged, JobTypeOK, mainVars
  <2>4. ThreadTypeOK'
    <3>1. queueJob' = 0 /\ queuePc' = "get" /\ UNCHANGED <<queueIndex, counter, reaperVars>>
      BY <1>16 DEF RecordStatistic, QueueUnchanged, NoJob, mainVars
    <3> QED
      BY <1>0, <2>1, <3>1 DEF ThreadTypeOK, MainTypeOK, NoJob, reaperVars
  <2> QED
    BY <1>16, <2>3, <2>4 DEF RecordStatistic, QueueUnchanged, TypeInv, TypeOK, mainVars, slotVars
<1>17. CASE ReaperVisit
  <2>1. jobThreads \in Seq(1 .. counter) /\ reaperIndex \in Nat \ {0}
    BY <1>0 DEF JobTypeOK, ThreadTypeOK
  <2>2. jobThreads' \in Seq(1 .. counter)
    <3>1. CASE jobThreads' = jobThreads
      BY <2>1, <3>1
    <3>2. CASE jobThreads' = [i \in 1 .. Len(jobThreads) - 1 |->
                                 jobThreads[IF i < reaperIndex THEN i ELSE i + 1]]
      <4>1. Len(jobThreads) - 1 \in Nat
        BY <1>17, <2>1 DEF ReaperVisit
      <4>2. \A i \in 1 .. Len(jobThreads) - 1 :
                jobThreads[IF i < reaperIndex THEN i ELSE i + 1] \in 1 .. counter
        <5> TAKE i \in 1 .. Len(jobThreads) - 1
        <5>1. (IF i < reaperIndex THEN i ELSE i + 1) \in 1 .. Len(jobThreads)
          BY <2>1
        <5> QED
          BY <2>1, <5>1, ElementType
      <4> QED
        BY <3>2, <4>1, <4>2
    <3> QED
      BY <1>17, <3>1, <3>2 DEF ReaperVisit
  <2>3. JobTypeOK'
    BY <1>0, <1>17, <2>2 DEF ReaperVisit, ReaperUnchanged, JobTypeOK, mainVars
  <2>4. ThreadTypeOK'
    BY <1>0, <1>17 DEF ReaperVisit, ReaperUnchanged, ThreadTypeOK, mainVars, queueVars
  <2> QED
    BY <1>17, <2>3, <2>4 DEF ReaperVisit, ReaperUnchanged, TypeInv, TypeOK, mainVars, slotVars
<1>18. CASE ReaperPassDone
  <2>1. ThreadTypeOK'
    BY <1>0, <1>18 DEF ReaperPassDone, ReaperUnchanged, ThreadTypeOK, mainVars, queueVars
  <2> QED
    BY <1>18, <2>1 DEF ReaperPassDone, ReaperUnchanged, TypeInv, TypeOK, mainVars, slotVars, jobVars
<1>19. CASE UNCHANGED vars
  BY <1>19 DEF vars, mainVars, TypeInv, TypeOK, slotVars
<1> QED
  BY <1>1, <1>2, <1>3, <1>4, <1>5, <1>6, <1>7, <1>8, <1>9, <1>10, <1>11, <1>12, <1>13, <1>14,
     <1>15, <1>16, <1>17, <1>18, <1>19
     DEF Next, Main, HandleJobQueue, HandleJobThreads, Finished

\* Whatever the threads do, every variable keeps its type: no place, slot or job that
\* MapReduceScheduler uses as an index is out of its range.
THEOREM TypeCorrect == Spec => []TypeOK
<1>1. Spec => []TypeInv
  BY InitTypeInv, StepTypeInv, PTL DEF Spec
<1>2. TypeInv => TypeOK
  BY DEF TypeInv
<1> QED
  BY <1>1, <1>2, PTL

-----------------------------------------------------------------------------
(* The jobs, their statistics and the queue.                                *)

Searching == mainPc \in {"findMapper", "findReducer"}

\* A step that leaves jobs, statistics and slots alone.
Idle ==
    /\ UNCHANGED <<counter, statistic, jobStats, jobState, finishJobQueue, slotVars, queueJob,
                   queueIndex>>
    /\ queuePc' = queuePc \/ queueJob = NoJob
    /\ Searching' <=> Searching
    /\ mainPc' = "findReducer" => mainPc = "findReducer" \/ RequiredHosts > 0
    /\ \A k \in 1 .. counter : workQueue'[k] = workQueue[k]

\* Every step is one that touches a job, or idle.
LEMMA StepCases ==
    ASSUME TypeInv, [Next]_vars
    PROVE  \/ NextJob \/ TakePair \/ StartJob
           \/ \E k \in DOMAIN jobState : Job(k)
           \/ QueueGet \/ FreeMapper \/ MappersFreed \/ FreeReducer \/ RecordStatistic
           \/ Idle
<1>1. CASE ReadWorkFile \/ CheckQueue \/ SchedulingDone \/ JoinReaper \/ JoinQueue
           \/ WriteResults \/ TerminateQueue \/ TerminateReaper \/ TerminateJoinReaper
           \/ TerminateManager
  <2>1. PICK from \in MainPcs \ {"findMapper", "findReducer"},
             to \in MainPcs \ {"findMapper", "findReducer"} : Goto(from, to)
    BY <1>1 DEF ReadWorkFile, CheckQueue, SchedulingDone, JoinReaper, JoinQueue, WriteResults,
       TerminateQueue, TerminateReaper, TerminateJoinReaper, TerminateManager, JoinIf, MainPcs
  <2>2. UNCHANGED workQueue
    BY <1>1 DEF ReadWorkFile, CheckQueue, SchedulingDone, JoinReaper, JoinQueue, WriteResults,
       TerminateQueue, TerminateReaper, TerminateJoinReaper, TerminateManager, fileVars
  <2> QED
    BY <2>1, <2>2 DEF Goto, Idle, Searching, jobVars, queueVars, slotVars
<1>2. CASE ProcessLine
  <2>1. \A k \in 1 .. counter : workQueue'[k] = workQueue[k]
    BY <1>2 DEF ProcessLine, TypeInv, TypeOK, MainTypeOK
  <2> QED
    BY <1>2, <2>1 DEF ProcessLine, Goto, Idle, Searching, jobVars, queueVars, slotVars
<1>3. CASE FindMapper \/ FindReducer
  <2>1. PICK from \in {"findMapper", "findReducer"}, to \in {"findMapper", "findReducer"} :
            Scan(from, to)
    BY <1>3 DEF FindMapper, FindReducer
  <2>2. mainPc = "findReducer" \/ RequiredHosts > 0
    BY <1>3 DEF FindMapper, FindReducer, Scan
  <2> QED
    BY <2>1, <2>2 DEF Scan, Idle, Searching, jobVars, queueVars, slotVars, fileVars
<1>4. CASE QueueExit
  BY <1>4 DEF QueueExit, QueueUnchanged, Idle, Searching, mainVars, fileVars, TypeInv, TypeOK,
     ThreadTypeOK, slotVars
<1>5. CASE HandleJobThreads
  BY <1>5 DEF HandleJobThreads, ReaperVisit, ReaperPassDone, ReaperUnchanged, Idle, Searching,
     mainVars, fileVars, queueVars, slotVars
<1>6. CASE UNCHANGED vars
  BY <1>6 DEF vars, Idle, Searching, mainVars, fileVars, queueVars, slotVars, jobVars
<1> QED
  BY <1>1, <1>2, <1>3, <1>4, <1>5, <1>6 DEF Next, Main, HandleJobQueue, Finished

JobInv == QueueOK /\ AssemblyOK /\ NamesOK /\ AssemblesItsOwn /\ PairsOK /\ StartedJobIsPlaced

LEMMA InitJobInv == Init => JobInv
  BY DEF Init, JobInv, QueueOK, AssemblyOK, NamesOK, AssemblesItsOwn, PairsOK, StartedJobIsPlaced,
     NoJob

\* The pairs of a job only depend on its statistics and on the hosts it needs.
LEMMA SamePairs ==
    ASSUME NEW k, statistic'[k] = statistic[k], workQueue'[k] = workQueue[k]
    PROVE  IsPaired(k)' = IsPaired(k) /\ HasAllItsHosts(k)' = HasAllItsHosts(k)
  BY DEF IsPaired, HasAllItsHosts

LEMMA IdleJobInv == TypeInv /\ JobInv /\ Idle => JobInv'
<1> SUFFICES ASSUME TypeInv, JobInv, Idle PROVE JobInv'
  OBVIOUS
<1>1. DOMAIN statistic = 1 .. counter /\ DOMAIN jobState = 1 .. counter
  BY DEF TypeInv, TypeOK, JobTypeOK
<1>2. counter = 0 \/ counter \in 1 .. counter
  BY DEF TypeInv, TypeOK, MainTypeOK
<1>3. Searching => counter > 0
  BY DEF TypeInv, SearchOK, Searching
<1>4. QueueOK' /\ NamesOK'
  BY DEF Idle, JobInv, QueueOK, NamesOK
<1>5. AssemblyOK' /\ AssemblesItsOwn'
  BY DEF Idle, JobInv, AssemblyOK, AssemblesItsOwn, Searching
<1>6. StartedJobIsPlaced'
  BY <1>1, SamePairs DEF Idle, JobInv, StartedJobIsPlaced
<1>7. PairsOK'
  <2>1. Searching => RequiredHosts' = RequiredHosts
    BY <1>2, <1>3 DEF Idle, RequiredHosts
  <2>2. mainPc' = "findReducer" => RequiredHosts' > 0
    BY <2>1 DEF Idle, JobInv, PairsOK, Searching
  <2> QED
    BY <1>1, <2>2, SamePairs DEF Idle, JobInv, PairsOK
<1> QED
  BY <1>4, <1>5, <1>6, <1>7 DEF JobInv

\* What a job looks like after it has got another pair.
StatisticWith(k, mapper, reducer) ==
    [statistic[k] EXCEPT !.mapHostList = Append(@, mapper), !.reduceHostList = Append(@, reducer)]

StatisticType == [job : JobNames, mapHostList : Seq(Slots), reduceHostList : Seq(Slots)]

LEMMA JobDomains ==
    ASSUME TypeInv
    PROVE  /\ counter \in Nat
           /\ DOMAIN statistic = 1 .. counter /\ DOMAIN jobStats = 1 .. counter
           /\ DOMAIN jobState = 1 .. counter
           /\ \A k \in 1 .. counter : /\ statistic[k] \in StatisticType
                                      /\ jobStats[k] \in 1 .. counter
                                      /\ jobState[k] \in {"new", "running", "put", "dead"}
<1>1. counter \in Nat
  BY DEF TypeInv, TypeOK, MainTypeOK
<1>2. /\ statistic \in Seq(StatisticType) /\ jobStats \in Seq(1 .. counter)
      /\ jobState \in Seq({"new", "running", "put", "dead"})
      /\ Len(statistic) = counter /\ Len(jobStats) = counter /\ Len(jobState) = counter
  BY DEF TypeInv, TypeOK, JobTypeOK, StatisticType
<1>3. ASSUME NEW k \in 1 .. counter
      PROVE  /\ statistic[k] \in StatisticType /\ jobStats[k] \in 1 .. counter
             /\ jobState[k] \in {"new", "running", "put", "dead"}
  BY <1>2, ElementType
<1> QED
  BY <1>1, <1>2, <1>3

LEMMA QueueElements ==
    ASSUME TypeInv
    PROVE  /\ \A i \in DOMAIN finishJobQueue : finishJobQueue[i] \in 1 .. counter
           /\ queueJob # NoJob => queueJob \in 1 .. counter
           /\ NoJob \notin 1 .. counter
<1>1. finishJobQueue \in Seq(1 .. counter)
  BY DEF TypeInv, TypeOK, JobTypeOK
<1>2. ASSUME NEW i \in DOMAIN finishJobQueue PROVE finishJobQueue[i] \in 1 .. counter
  <2>1. i \in 1 .. Len(finishJobQueue)
    BY <1>1
  <2> QED
    BY <1>1, <2>1, ElementType
<1> QED
  BY <1>2 DEF TypeInv, TypeOK, ThreadTypeOK, NoJob

LEMMA NextJobEffect ==
    ASSUME TypeInv, NextJob
    PROVE  /\ counter' = counter + 1
           /\ DOMAIN statistic' = 1 .. counter + 1 /\ DOMAIN jobStats' = 1 .. counter + 1
           /\ DOMAIN jobState' = 1 .. counter + 1
           /\ \A k \in 1 .. counter : /\ statistic'[k] = statistic[k]
                                      /\ jobStats'[k] = jobStats[k]
                                      /\ jobState'[k] = jobState[k]
           /\ statistic'[counter + 1] = [job |-> workQueue[counter + 1].job,
                                         mapHostList |-> <<>>, reduceHostList |-> <<>>]
           /\ jobStats'[counter + 1] = counter + 1
           /\ jobState'[counter + 1] = "new"
           /\ workQueue[counter + 1].hosts \in Nat \ {0}
<1>1. counter \in Nat /\ counter' = counter + 1 /\ counter + 1 \in 1 .. Len(workQueue)
  BY DEF NextJob, TypeInv, TypeOK, MainTypeOK
<1>2. workQueue \in Seq(JobType)
  BY DEF TypeInv, TypeOK, MainTypeOK, JobType
<1>3. workQueue[counter + 1] \in JobType
  BY <1>1, <1>2, ElementType
<1>4. workQueue[counter + 1].hosts \in Nat \ {0}
  BY <1>3, SchedulerAssumption DEF JobType
<1>5. Len(statistic) = counter /\ Len(jobStats) = counter /\ Len(jobState) = counter
  BY DEF TypeInv, TypeOK, JobTypeOK
<1> QED
  BY <1>1, <1>4, <1>5 DEF NextJob, TypeInv, TypeOK, JobTypeOK

LEMMA TakePairEffect ==
    ASSUME TypeInv, AssemblesItsOwn, TakePair
    PROVE  /\ counter \in 1 .. counter /\ counter' = counter
           /\ mapperSlot \in Slots /\ cursor \in Slots
           /\ statistic[counter] \in StatisticType
           /\ DOMAIN statistic' = 1 .. counter
           /\ \A k \in 1 .. counter : k # counter => statistic'[k] = statistic[k]
           /\ statistic'[counter] = StatisticWith(counter, mapperSlot, cursor)
           /\ UNCHANGED <<workQueue, jobStats, jobState, finishJobQueue, queueVars>>
<1>1. counter \in 1 .. counter /\ counter' = counter /\ mapperSlot \in Slots /\ cursor \in Slots
  BY DEF TakePair, TypeInv, TypeOK, MainTypeOK, SlotTypeOK, SearchOK
<1>2. jobStats[counter] = counter
  BY DEF TakePair, AssemblesItsOwn
<1> DEFINE new == StatisticWith(counter, mapperSlot, cursor)
<1>3. statistic' = [statistic EXCEPT ![counter] = new]
  BY <1>2 DEF TakePair, StatisticWith
<1>4. DOMAIN statistic = 1 .. counter /\ statistic[counter] \in StatisticType
  BY <1>1, JobDomains
<1> HIDE DEF new
<1>5. DOMAIN statistic' = 1 .. counter /\ statistic'[counter] = new
      /\ \A k \in 1 .. counter : k # counter => statistic'[k] = statistic[k]
  BY <1>1, <1>3, <1>4
<1> QED
  BY <1>1, <1>4, <1>5 DEF TakePair, fileVars, new

LEMMA JobInvNextJob == TypeInv /\ JobInv /\ NextJob => JobInv'
<1> SUFFICES ASSUME TypeInv, JobInv, NextJob PROVE JobInv'
  OBVIOUS
<1> USE NextJobEffect, JobDomains
<1>1. mainPc = "nextJob" /\ mainPc' = "findMapper"
      /\ UNCHANGED <<workQueue, finishJobQueue, queueJob>>
  BY DEF NextJob, fileVars, queueVars
<1>2. QueueOK'
  <2>1. \A i \in DOMAIN finishJobQueue : finishJobQueue[i] \in 1 .. counter
    BY QueueElements
  <2>2. queueJob # NoJob => queueJob \in 1 .. counter
    BY DEF TypeInv, TypeOK, ThreadTypeOK, NoJob
  <2> QED
    BY <1>1, <2>1, <2>2 DEF JobInv, QueueOK
<1>3. AssemblyOK'
  BY <1>1 DEF JobInv, AssemblyOK
<1>4. NamesOK'
  BY DEF JobInv, NamesOK
<1>5. AssemblesItsOwn'
  BY DEF AssemblesItsOwn
<1>6. PairsOK'
  <2>1. ASSUME NEW k, k = counter + 1 PROVE IsPaired(k)'
    <3> DEFINE new == statistic'[k]
    <3>1. new.mapHostList = <<>> /\ new.reduceHostList = <<>> /\ workQueue'[k].hosts \in Nat
      BY <1>1, <2>1
    <3> HIDE DEF new
    <3>2. Len(new.mapHostList) = Len(new.reduceHostList)
          /\ Len(new.mapHostList) <= workQueue'[k].hosts
          /\ DOMAIN new.mapHostList = {}
      BY <3>1
    <3> QED
      BY <3>2 DEF IsPaired, new
  <2>2. \A k \in 1 .. counter : IsPaired(k)'
    BY <1>1, SamePairs DEF JobInv, PairsOK
  <2>3. \A k \in 1 .. counter + 1 : k \in 1 .. counter \/ k = counter + 1
    OBVIOUS
  <2> QED
    BY <1>1, <2>1, <2>2, <2>3 DEF PairsOK
<1>7. StartedJobIsPlaced'
  BY <1>1, SamePairs DEF JobInv, StartedJobIsPlaced
<1> QED
  BY <1>2, <1>3, <1>4, <1>5, <1>6, <1>7 DEF JobInv

LEMMA JobInvTakePair == TypeInv /\ JobInv /\ TakePair => JobInv'
<1> SUFFICES ASSUME TypeInv, JobInv, TakePair PROVE JobInv'
  OBVIOUS
<1> USE JobDomains
<1>0. AssemblesItsOwn /\ mainPc = "findReducer" /\ mainPc' = "findMapper"
  BY DEF JobInv, TakePair
<1> USE TakePairEffect, <1>0
<1>1. \A k \in 1 .. counter : statistic'[k].job = statistic[k].job
  BY DEF StatisticWith, StatisticType
<1>2. QueueOK' /\ AssemblyOK' /\ AssemblesItsOwn'
  BY DEF JobInv, QueueOK, AssemblyOK, AssemblesItsOwn, queueVars
<1>3. NamesOK'
  BY <1>1 DEF JobInv, NamesOK
<1>4. jobState[counter] = "new"
  BY DEF JobInv, AssemblyOK
<1>5. StartedJobIsPlaced'
  BY <1>4, SamePairs DEF JobInv, StartedJobIsPlaced
<1>6. IsPaired(counter)'
  <2>1. PairIsUsable(mapperSlot, cursor) /\ cursor[1] > 0
    BY DEF TakePair
  <2> DEFINE old == statistic[counter]
             new == statistic'[counter]
  <2>2. old.mapHostList \in Seq(Slots) /\ old.reduceHostList \in Seq(Slots)
    BY DEF StatisticType
  <2>3. new.mapHostList = Append(old.mapHostList, mapperSlot)
        /\ new.reduceHostList = Append(old.reduceHostList, cursor)
    BY DEF StatisticWith, StatisticType
  <2>4. IsPaired(counter) /\ RequiredHosts > 0
    BY DEF JobInv, PairsOK
  <2>5. workQueue[counter].hosts \in Nat
    <3>1. counter \in 1 .. Len(workQueue) /\ workQueue \in Seq(JobType)
      BY DEF TypeInv, TypeOK, MainTypeOK, JobType
    <3>2. workQueue[counter] \in JobType
      BY <3>1, ElementType
    <3> QED
      BY <3>2, SchedulerAssumption DEF JobType
  <2>10. Len(old.mapHostList) = Len(old.reduceHostList)
         /\ workQueue[counter].hosts - Len(old.mapHostList) > 0
    BY <2>4 DEF IsPaired, RequiredHosts
  <2>11. mapperSlot \in Slots /\ cursor \in Slots
    OBVIOUS
  <2>12. \A i \in DOMAIN old.mapHostList :
            old.mapHostList[i][1] # old.reduceHostList[i][1] /\ old.reduceHostList[i][1] # 0
    BY <2>4 DEF IsPaired
  <2>13. workQueue' = workQueue /\ counter' = counter
    OBVIOUS
  <2> HIDE JobDomains, TakePairEffect DEF old, new
  <2>6. Len(old.mapHostList) = Len(old.reduceHostList) /\ Len(old.mapHostList) \in Nat
        /\ Len(old.mapHostList) + 1 <= workQueue[counter].hosts
    BY <2>2, <2>5, <2>10
  <2>7. /\ Len(new.mapHostList) = Len(old.mapHostList) + 1
        /\ Len(new.reduceHostList) = Len(old.mapHostList) + 1
        /\ DOMAIN new.mapHostList = 1 .. Len(old.mapHostList) + 1
    BY <2>2, <2>3, <2>6, <2>11, AppendType, AppendElements
  <2>8. ASSUME NEW i \in DOMAIN new.mapHostList
        PROVE  new.mapHostList[i][1] # new.reduceHostList[i][1] /\ new.reduceHostList[i][1] # 0
    <3>1. CASE i = Len(old.mapHostList) + 1
      <4>1. new.mapHostList[i] = mapperSlot /\ new.reduceHostList[i] = cursor
        BY <2>2, <2>3, <2>6, <2>11, <3>1, AppendElements
      <4> QED
        BY <2>1, <2>11, <4>1 DEF PairIsUsable, Slots
    <3>2. CASE i # Len(old.mapHostList) + 1
      <4>1. i \in 1 .. Len(old.mapHostList)
        BY <2>6, <2>7, <3>2
      <4>2. new.mapHostList[i] = old.mapHostList[i] /\ new.reduceHostList[i] = old.reduceHostList[i]
        BY <2>2, <2>3, <2>6, <2>11, <4>1, AppendElements
      <4>3. i \in DOMAIN old.mapHostList
        BY <2>2, <4>1
      <4> QED
        BY <2>12, <4>2, <4>3
    <3> QED
      BY <3>1, <3>2
  <2>9. Len(new.mapHostList) = Len(new.reduceHostList) /\ Len(new.mapHostList) <= workQueue'[counter].hosts
    BY <2>6, <2>7, <2>13
  <2> QED
    BY <2>8, <2>9, <2>13 DEF IsPaired, new
<1>7. PairsOK'
  BY <1>6, SamePairs DEF JobInv, PairsOK
<1> QED
  BY <1>2, <1>3, <1>5, <1>7 DEF JobInv

LEMMA JobInvStartJob == TypeInv /\ JobInv /\ StartJob => JobInv'
<1> SUFFICES ASSUME TypeInv, JobInv, StartJob PROVE JobInv'
  OBVIOUS
<1> USE JobDomains
<1>1. counter \in 1 .. counter
  BY DEF StartJob, TypeInv, SearchOK
<1>2. jobStats[counter] = counter /\ jobState[counter] = "new"
  BY <1>1 DEF StartJob, JobInv, AssemblesItsOwn, AssemblyOK
<1>3. /\ DOMAIN jobState' = 1 .. counter /\ jobState'[counter] = "running"
      /\ \A k \in 1 .. counter : k # counter => jobState'[k] = jobState[k]
      /\ mainPc = "findMapper" /\ mainPc' = "nextJob"
      /\ UNCHANGED <<counter, workQueue, statistic, jobStats, finishJobQueue, queueJob>>
  BY <1>1, <1>2 DEF StartJob, fileVars, queueVars
<1>4. QueueOK'
  <2>1. \A i \in DOMAIN finishJobQueue : finishJobQueue[i] \in 1 .. counter
    BY QueueElements
  <2>2. queueJob # NoJob => queueJob \in 1 .. counter
    BY DEF TypeInv, TypeOK, ThreadTypeOK, NoJob
  <2> QED
    BY <1>2, <1>3, <2>1, <2>2 DEF JobInv, QueueOK
<1>5. AssemblyOK' /\ AssemblesItsOwn'
  BY <1>3 DEF JobInv, AssemblyOK, AssemblesItsOwn
<1>6. NamesOK' /\ PairsOK'
  BY <1>3, SamePairs DEF JobInv, NamesOK, PairsOK
<1>7. HasAllItsHosts(counter) /\ IsPaired(counter)
  <2>1. IsPaired(counter)
    BY <1>1 DEF JobInv, PairsOK
  <2>2. counter \in 1 .. Len(workQueue) /\ workQueue \in Seq(JobType)
    BY <1>1 DEF TypeInv, TypeOK, MainTypeOK, JobType
  <2>3. workQueue[counter].hosts \in Nat
    <3>1. workQueue[counter] \in JobType
      BY <2>2, ElementType
    <3> QED
      BY <3>1, SchedulerAssumption DEF JobType
  <2>4. Len(statistic[counter].mapHostList) \in Nat
    BY <1>1 DEF StatisticType
  <2>5. /\ Len(statistic[counter].mapHostList) <= workQueue[counter].hosts
        /\ workQueue[counter].hosts - Len(statistic[counter].mapHostList) <= 0
    BY <2>1 DEF StartJob, RequiredHosts, IsPaired
  <2>6. Len(statistic[counter].mapHostList) = workQueue[counter].hosts
    <3> HIDE JobDomains
    <3> QED
      BY <2>3, <2>4, <2>5
  <2> QED
    BY <2>1, <2>6 DEF HasAllItsHosts
<1>8. StartedJobIsPlaced'
  BY <1>3, <1>7, SamePairs DEF JobInv, StartedJobIsPlaced
<1> QED
  BY <1>4, <1>5, <1>6, <1>8 DEF JobInv

\* A step of a job or of the queue thread that touches neither statistics nor jobStats.
LEMMA JobInvFrame ==
    ASSUME TypeInv, JobInv,
           UNCHANGED <<mainPc, workQueue, counter, statistic, jobStats>>,
           DOMAIN jobState' = DOMAIN jobState,
           \A k \in DOMAIN jobState : jobState'[k] = "new" <=> jobState[k] = "new",
           QueueOK'
    PROVE  JobInv'
<1> USE JobDomains
<1>1. AssemblyOK' /\ AssemblesItsOwn'
  BY DEF JobInv, AssemblyOK, AssemblesItsOwn
<1>2. NamesOK'
  BY DEF JobInv, NamesOK
<1>3. PairsOK'
  BY SamePairs DEF JobInv, PairsOK, RequiredHosts
<1>4. StartedJobIsPlaced'
  BY SamePairs DEF JobInv, StartedJobIsPlaced
<1> QED
  BY <1>1, <1>2, <1>3, <1>4 DEF JobInv

LEMMA JobInvJob == ASSUME TypeInv, JobInv, NEW k \in DOMAIN jobState, Job(k) PROVE JobInv'
<1> USE JobDomains
<1>1. /\ UNCHANGED <<mainPc, workQueue, counter, statistic, jobStats, queueJob>>
      /\ DOMAIN jobState' = DOMAIN jobState
      /\ \A j \in DOMAIN jobState : j # k => jobState'[j] = jobState[j]
  BY DEF Job, JobPut, JobExit, mainVars, fileVars, queueVars
<1>2. CASE JobExit(k)
  <2>1. jobState[k] = "put" /\ jobState'[k] = "dead" /\ finishJobQueue' = finishJobQueue
    BY <1>2 DEF JobExit
  <2>2. QueueOK'
    BY <1>1, <2>1, QueueElements DEF JobInv, QueueOK
  <2> QED
    BY <1>1, <2>1, <2>2, JobInvFrame
<1>3. CASE JobPut(k)
  <2>1. jobState[k] = "running" /\ jobState'[k] = "put"
        /\ finishJobQueue' = Append(finishJobQueue, k)
    BY <1>3 DEF JobPut
  <2>2. finishJobQueue \in Seq(1 .. counter) /\ k \in 1 .. counter
    BY DEF TypeInv, TypeOK, JobTypeOK
  <2>3. \A i \in DOMAIN finishJobQueue : finishJobQueue[i] # k
    BY <2>1 DEF JobInv, QueueOK
  <2>4. k # queueJob
    BY <2>1, <2>2 DEF JobInv, QueueOK, NoJob
  <2>5. /\ DOMAIN finishJobQueue = 1 .. Len(finishJobQueue) /\ Len(finishJobQueue) \in Nat
        /\ DOMAIN finishJobQueue' = 1 .. Len(finishJobQueue) + 1
        /\ finishJobQueue'[Len(finishJobQueue) + 1] = k
        /\ \A i \in 1 .. Len(finishJobQueue) : finishJobQueue'[i] = finishJobQueue[i]
    BY <2>1, <2>2, AppendElements
  <2>6. \A i, j \in DOMAIN finishJobQueue' : finishJobQueue'[i] = finishJobQueue'[j] => i = j
    BY <2>3, <2>5 DEF JobInv, QueueOK
  <2>7. \A i \in DOMAIN finishJobQueue' :
            jobState'[finishJobQueue'[i]] \in {"put", "dead"} /\ finishJobQueue'[i] # queueJob
    <3>1. ASSUME NEW i \in DOMAIN finishJobQueue'
          PROVE  jobState'[finishJobQueue'[i]] \in {"put", "dead"} /\ finishJobQueue'[i] # queueJob
      <4>1. CASE i = Len(finishJobQueue) + 1
        BY <2>1, <2>4, <2>5, <4>1
      <4>2. CASE i # Len(finishJobQueue) + 1
        <5>1. i \in DOMAIN finishJobQueue /\ finishJobQueue'[i] = finishJobQueue[i]
          BY <2>5, <4>2
        <5>2. finishJobQueue[i] \in DOMAIN jobState /\ finishJobQueue[i] # k
          BY <2>3, <5>1, QueueElements
        <5> QED
          BY <1>1, <5>1, <5>2 DEF JobInv, QueueOK
      <4> QED
        BY <4>1, <4>2
    <3> QED
      BY <3>1
  <2>8. queueJob # NoJob => jobState'[queueJob] \in {"put", "dead"}
    <3>1. queueJob # NoJob => queueJob \in 1 .. counter
      BY DEF TypeInv, TypeOK, ThreadTypeOK, NoJob
    <3> QED
      BY <1>1, <2>4, <3>1 DEF JobInv, QueueOK
  <2>9. QueueOK'
    BY <1>1, <2>6, <2>7, <2>8 DEF QueueOK
  <2> QED
    BY <1>1, <2>1, <2>9, JobInvFrame
<1> QED
  BY <1>2, <1>3 DEF Job

LEMMA JobInvQueueGet == TypeInv /\ JobInv /\ QueueGet => JobInv'
<1> SUFFICES ASSUME TypeInv, JobInv, QueueGet PROVE JobInv'
  OBVIOUS
<1>1. finishJobQueue \in Seq(1 .. counter) /\ finishJobQueue # <<>>
  BY DEF QueueGet, TypeInv, TypeOK, JobTypeOK
<1>2. /\ UNCHANGED <<mainPc, workQueue, counter, statistic, jobStats, jobState>>
      /\ queueJob' = finishJobQueue[1]
      /\ finishJobQueue' = Tail(finishJobQueue)
  BY <1>1, HeadTailType DEF QueueGet, QueueUnchanged, mainVars, fileVars
<1>3. /\ 1 \in DOMAIN finishJobQueue
      /\ \A i \in DOMAIN finishJobQueue' :
             /\ i + 1 \in DOMAIN finishJobQueue /\ i + 1 # 1
             /\ finishJobQueue'[i] = finishJobQueue[i + 1]
      /\ \A i, j \in DOMAIN finishJobQueue' : i + 1 = j + 1 => i = j
  BY <1>1, <1>2, HeadTailType
<1>4. QueueOK'
  BY <1>2, <1>3 DEF JobInv, QueueOK
<1> QED
  BY <1>2, <1>4, JobInvFrame

LEMMA JobInvFree == TypeInv /\ JobInv /\ (FreeMapper \/ MappersFreed \/ FreeReducer) => JobInv'
<1> SUFFICES ASSUME TypeInv, JobInv, FreeMapper \/ MappersFreed \/ FreeReducer PROVE JobInv'
  OBVIOUS
<1>1. UNCHANGED <<mainPc, workQueue, counter, statistic, jobStats, jobState, finishJobQueue, queueJob>>
  BY DEF FreeMapper, MappersFreed, FreeReducer, QueueUnchanged, mainVars, fileVars
<1>2. QueueOK'
  BY <1>1 DEF JobInv, QueueOK
<1> QED
  BY <1>1, <1>2, JobInvFrame

\* The first place with the name of a job is not after the place of that job, which is
\* not after the last one: the job that is being assembled is not overwritten.
LEMMA JobInvRecordStatistic == TypeInv /\ JobInv /\ RecordStatistic => JobInv'
<1> SUFFICES ASSUME TypeInv, JobInv, RecordStatistic PROVE JobInv'
  OBVIOUS
<1> USE JobDomains
<1>1. queueJob \in 1 .. counter
  BY DEF RecordStatistic, TypeInv, TypeOK, ThreadTypeOK, NoJob
<1>2. /\ UNCHANGED <<mainPc, workQueue, counter, statistic, jobState, finishJobQueue>>
      /\ queueJob' = NoJob
      /\ jobStats' = [i \in 1 .. counter |-> IF IsFirstOfName(i, statistic[queueJob].job)
                                             THEN queueJob ELSE jobStats[i]]
  BY DEF RecordStatistic, QueueUnchanged, mainVars, fileVars
<1>3. statistic[jobStats[queueJob]].job = statistic[queueJob].job
  BY <1>1 DEF JobInv, NamesOK
<1>4. Searching => ~IsFirstOfName(counter, statistic[queueJob].job)
  <2> SUFFICES ASSUME Searching PROVE ~IsFirstOfName(counter, statistic[queueJob].job)
    OBVIOUS
  <2>1. jobState[counter] = "new"
    <3>1. counter \in 1 .. counter
      BY DEF TypeInv, SearchOK, Searching
    <3> QED
      BY <3>1 DEF JobInv, AssemblyOK, Searching
  <2>2. queueJob # counter
    BY <1>1, <2>1 DEF JobInv, QueueOK, NoJob
  <2>3. queueJob \in 1 .. counter - 1
    BY <1>1, <2>2
  <2> QED
    BY <1>3, <2>3 DEF IsFirstOfName
<1>5. AssemblesItsOwn'
  <2>1. Searching => counter \in 1 .. counter
    BY DEF TypeInv, SearchOK, Searching
  <2> QED
    BY <1>2, <1>4, <2>1 DEF JobInv, AssemblesItsOwn, Searching
<1>6. NamesOK'
  <2>1. ASSUME NEW i \in 1 .. counter PROVE statistic[jobStats'[i]].job = statistic[i].job
    <3>1. CASE IsFirstOfName(i, statistic[queueJob].job)
      <4>1. jobStats'[i] = queueJob
        BY <1>2, <3>1
      <4>2. statistic[jobStats[i]].job = statistic[queueJob].job
        BY <3>1 DEF IsFirstOfName
      <4> QED
        BY <4>1, <4>2 DEF JobInv, NamesOK
    <3>2. CASE ~IsFirstOfName(i, statistic[queueJob].job)
      BY <1>2, <3>2 DEF JobInv, NamesOK
    <3> QED
      BY <3>1, <3>2
  <2> QED
    BY <1>2, <2>1 DEF NamesOK
<1>7. QueueOK' /\ AssemblyOK'
  BY <1>2, QueueElements DEF JobInv, QueueOK, AssemblyOK
<1>8. PairsOK' /\ StartedJobIsPlaced'
  BY <1>2, SamePairs DEF JobInv, PairsOK, StartedJobIsPlaced, RequiredHosts
<1> QED
  BY <1>5, <1>6, <1>7, <1>8 DEF JobInv

LEMMA StepJobInv == TypeInv /\ JobInv /\ [Next]_vars => JobInv'
  BY StepCases, IdleJobInv, JobInvNextJob, JobInvTakePair, JobInvStartJob, JobInvJob,
     JobInvQueueGet, JobInvFree, JobInvRecordStatistic

\* A job is only started with all the pairs of slots it needs, on different hosts.
THEOREM StartedJobsArePlaced == Spec => []StartedJobIsPlaced
<1>1. Spec => [](TypeInv /\ JobInv)
  BY InitTypeInv, StepTypeInv, InitJobInv, StepJobInv, PTL DEF Spec
<1>2. JobInv => StartedJobIsPlaced
  BY DEF JobInv
<1> QED
  BY <1>1, <1>2, PTL

\* The statistics that the main thread fills are those of the job it is about to start,
\* even when jobs of the same name end meanwhile and overwrite places of jobStats.
THEOREM AssemblyIsUndisturbed == Spec => []AssemblesItsOwn
<1>1. Spec => [](TypeInv /\ JobInv)
  BY InitTypeInv, StepTypeInv, InitJobInv, StepJobInv, PTL DEF Spec
<1>2. JobInv => AssemblesItsOwn
  BY DEF JobInv
<1> QED
  BY <1>1, <1>2, PTL

-----------------------------------------------------------------------------
(* The slots and their holders.                                             *)

OwnInv == BusyIffHeld /\ OneHolder

\* No job holds other places of its lists than before.
SameHeld ==
    \A k \in DOMAIN statistic : /\ HeldMappers(k)' = HeldMappers(k)
                                /\ HeldReducers(k)' = HeldReducers(k)

LEMMA InitOwnInv == Init => OwnInv
  BY DEF Init, OwnInv, BusyIffHeld, OneHolder

LEMMA SameHeldOwnInv ==
    ASSUME OwnInv, UNCHANGED <<statistic, slotVars>>, SameHeld
    PROVE  OwnInv'
<1>1. BusyIffHeld'
  BY DEF OwnInv, BusyIffHeld, SameHeld, slotVars
<1>2. OneHolder'
  BY DEF OwnInv, OneHolder, SameHeld
<1> QED
  BY <1>1, <1>2 DEF OwnInv

LEMMA HeldPlaces ==
    ASSUME TypeInv, NEW k \in DOMAIN statistic
    PROVE  /\ HeldMappers(k) \subseteq 1 .. Len(statistic[k].mapHostList)
           /\ HeldReducers(k) \subseteq 1 .. Len(statistic[k].reduceHostList)
           /\ Len(statistic[k].mapHostList) \in Nat
           /\ Len(statistic[k].reduceHostList) \in Nat
           /\ statistic[k].mapHostList \in Seq(Slots)
           /\ statistic[k].reduceHostList \in Seq(Slots)
<1>1. statistic[k] \in StatisticType
  BY JobDomains
<1> QED
  BY <1>1 DEF HeldMappers, HeldReducers, StatisticType

LEMMA IdleSameHeld == ASSUME TypeInv, Idle PROVE SameHeld
<1>1. \A k \in DOMAIN statistic : k # NoJob
  BY JobDomains DEF NoJob
<1>2. \A k : Released(k)' = Released(k)
  BY DEF Idle, Released, Queued
<1> QED
  BY <1>1, <1>2 DEF Idle, SameHeld, HeldMappers, HeldReducers

LEMMA StartJobSameHeld == ASSUME TypeInv, JobInv, StartJob PROVE SameHeld
<1> USE JobDomains
<1>1. counter \in 1 .. counter
  BY DEF StartJob, TypeInv, SearchOK
<1>2. jobStats[counter] = counter /\ jobState[counter] = "new"
  BY <1>1 DEF StartJob, JobInv, AssemblesItsOwn, AssemblyOK
<1>3. \A k \in 1 .. counter : Released(k)' = Released(k)
  BY <1>1, <1>2 DEF StartJob, Released, Queued, queueVars
<1> QED
  BY <1>3 DEF StartJob, SameHeld, HeldMappers, HeldReducers, queueVars

LEMMA JobSameHeld ==
    ASSUME TypeInv, JobInv, NEW k \in DOMAIN jobState, Job(k)
    PROVE  SameHeld
<1> USE JobDomains
<1>1. UNCHANGED <<statistic, slotVars, queueVars>>
      /\ \A j \in 1 .. counter : j # k => jobState'[j] = jobState[j]
  BY DEF Job, JobPut, JobExit
<1>2. ASSUME NEW j \in 1 .. counter PROVE Released(j)' = Released(j)
  <2>1. CASE JobExit(k)
    BY <1>1, <2>1 DEF JobExit, Released, Queued, queueVars
  <2>2. CASE JobPut(k)
    <3>1. finishJobQueue \in Seq(1 .. counter) /\ k \in 1 .. counter
          /\ finishJobQueue' = Append(finishJobQueue, k)
      BY <2>2 DEF JobPut, TypeInv, TypeOK, JobTypeOK
    <3>2. /\ DOMAIN finishJobQueue = 1 .. Len(finishJobQueue) /\ Len(finishJobQueue) \in Nat
          /\ DOMAIN finishJobQueue' = 1 .. Len(finishJobQueue) + 1
          /\ finishJobQueue'[Len(finishJobQueue) + 1] = k
          /\ \A i \in 1 .. Len(finishJobQueue) : finishJobQueue'[i] = finishJobQueue[i]
      BY <3>1, AppendElements
    <3>3. Queued(k)'
      <4>1. Len(finishJobQueue) + 1 \in DOMAIN finishJobQueue'
        BY <3>2
      <4> QED
        BY <3>2, <4>1 DEF Queued
    <3>4. CASE j = k
      BY <2>2, <3>3, <3>4 DEF JobPut, Released
    <3>5. CASE j # k
      <4>1. Queued(j) => Queued(j)'
        BY <3>2 DEF Queued
      <4>2. Queued(j)' => Queued(j)
        <5> SUFFICES ASSUME Queued(j)' PROVE Queued(j)
          OBVIOUS
        <5>1. PICK i \in DOMAIN finishJobQueue' : finishJobQueue'[i] = j
          BY DEF Queued
        <5>2. i \in 1 .. Len(finishJobQueue)
          BY <3>2, <3>5, <5>1
        <5> QED
          BY <3>2, <5>1, <5>2 DEF Queued
      <4> QED
        BY <1>1, <3>5, <4>1, <4>2 DEF Released, queueVars
    <3> QED
      BY <3>4, <3>5
  <2> QED
    BY <2>1, <2>2 DEF Job
<1> QED
  BY <1>1, <1>2 DEF SameHeld, HeldMappers, HeldReducers, queueVars

LEMMA QueueGetSameHeld == ASSUME TypeInv, JobInv, QueueGet PROVE SameHeld
<1> USE JobDomains
<1>1. finishJobQueue \in Seq(1 .. counter) /\ finishJobQueue # <<>>
  BY DEF QueueGet, TypeInv, TypeOK, JobTypeOK
<1>2. /\ UNCHANGED <<statistic, slotVars, jobState, counter>>
      /\ queueJob = NoJob /\ queueJob' = finishJobQueue[1]
      /\ queuePc = "get" /\ queuePc' = "freeMappers" /\ queueIndex' = 1
      /\ finishJobQueue' = Tail(finishJobQueue)
  BY <1>1, HeadTailType DEF QueueGet, QueueUnchanged, mainVars, TypeInv, TypeOK, ThreadTypeOK
<1>3. /\ 1 \in DOMAIN finishJobQueue /\ Len(finishJobQueue) \in Nat
      /\ DOMAIN finishJobQueue = 1 .. Len(finishJobQueue)
      /\ DOMAIN finishJobQueue' = 1 .. Len(finishJobQueue) - 1
      /\ \A i \in 1 .. Len(finishJobQueue) - 1 : finishJobQueue'[i] = finishJobQueue[i + 1]
  BY <1>1, <1>2, HeadTailType
<1>4. ASSUME NEW j \in 1 .. counter PROVE Released(j)' = Released(j)
  <2>1. CASE j = queueJob'
    <3>1. Queued(j)
      BY <1>2, <1>3, <2>1 DEF Queued
    <3> QED
      BY <2>1, <3>1 DEF Released
  <2>2. CASE j # queueJob'
    <3>1. Queued(j) => Queued(j)'
      <4> SUFFICES ASSUME Queued(j) PROVE Queued(j)'
        OBVIOUS
      <4>1. PICK i \in DOMAIN finishJobQueue : finishJobQueue[i] = j
        BY DEF Queued
      <4>2. i # 1
        BY <1>2, <2>2, <4>1
      <4>3. i - 1 \in 1 .. Len(finishJobQueue) - 1 /\ (i - 1) + 1 = i
        BY <1>3, <4>1, <4>2
      <4> QED
        BY <1>3, <4>1, <4>3 DEF Queued
    <3>2. Queued(j)' => Queued(j)
      <4> SUFFICES ASSUME Queued(j)' PROVE Queued(j)
        OBVIOUS
      <4>1. PICK i \in DOMAIN finishJobQueue' : finishJobQueue'[i] = j
        BY DEF Queued
      <4>2. i + 1 \in DOMAIN finishJobQueue /\ finishJobQueue[i + 1] = j
        BY <1>3, <4>1
      <4> QED
        BY <4>2 DEF Queued
    <3>3. j # queueJob
      BY <1>2 DEF NoJob
    <3> QED
      BY <1>2, <2>2, <3>1, <3>2, <3>3 DEF Released
  <2> QED
    BY <2>1, <2>2
<1> SUFFICES ASSUME NEW k \in 1 .. counter
             PROVE  HeldMappers(k)' = HeldMappers(k) /\ HeldReducers(k)' = HeldReducers(k)
  BY DEF SameHeld
<1>5. \A i \in DOMAIN statistic[k].mapHostList : i >= 1
  <2>1. statistic[k].mapHostList \in Seq(Slots)
    BY HeldPlaces
  <2> QED
    BY <2>1
<1>6. k # queueJob
  BY <1>2 DEF NoJob
<1> QED
  BY <1>2, <1>4, <1>5, <1>6 DEF HeldMappers, HeldReducers

LEMMA MappersFreedSameHeld == ASSUME TypeInv, MappersFreed PROVE SameHeld
<1> USE JobDomains
<1>1. /\ UNCHANGED <<statistic, slotVars, jobState, finishJobQueue, queueJob>>
      /\ queuePc = "freeMappers" /\ queuePc' = "freeReducers" /\ queueIndex' = 1
      /\ queueIndex > Len(statistic[queueJob].mapHostList) /\ queueIndex \in Nat
  BY DEF MappersFreed, FirstReducerPlace, QueueUnchanged, TypeInv, TypeOK, ThreadTypeOK
<1>2. \A k : Released(k)' = Released(k)
  BY <1>1 DEF Released, Queued
<1> SUFFICES ASSUME NEW k \in 1 .. counter
             PROVE  HeldMappers(k)' = HeldMappers(k) /\ HeldReducers(k)' = HeldReducers(k)
  BY DEF SameHeld
<1>3. /\ DOMAIN statistic[k].mapHostList = 1 .. Len(statistic[k].mapHostList)
      /\ DOMAIN statistic[k].reduceHostList = 1 .. Len(statistic[k].reduceHostList)
      /\ Len(statistic[k].mapHostList) \in Nat /\ Len(statistic[k].reduceHostList) \in Nat
  BY HeldPlaces
<1>4. CASE k # queueJob
  BY <1>1, <1>2, <1>4 DEF HeldMappers, HeldReducers
<1>5. CASE k = queueJob
  <2>1. \A i \in DOMAIN statistic[k].mapHostList : ~ (i >= queueIndex)
    BY <1>1, <1>3, <1>5
  <2>2. HeldMappers(k) = {} /\ HeldMappers(k)' = {}
    BY <1>1, <1>5, <2>1 DEF HeldMappers
  <2>3. \A i \in DOMAIN statistic[k].reduceHostList : i >= 1
    BY <1>3
  <2>4. HeldReducers(k)' = HeldReducers(k)
    BY <1>1, <1>2, <1>5, <2>3 DEF HeldReducers
  <2> QED
    BY <2>2, <2>4
<1> QED
  BY <1>4, <1>5

LEMMA RecordStatisticSameHeld == ASSUME TypeInv, JobInv, RecordStatistic PROVE SameHeld
<1> USE JobDomains
<1>1. /\ UNCHANGED <<statistic, slotVars, jobState, finishJobQueue>>
      /\ queuePc = "freeReducers" /\ queuePc' = "get" /\ queueJob' = NoJob
      /\ queueIndex > Len(statistic[queueJob].reduceHostList) /\ queueIndex \in Nat
      /\ queueJob \in 1 .. counter
  BY DEF RecordStatistic, QueueUnchanged, TypeInv, TypeOK, ThreadTypeOK, NoJob
<1>2. ASSUME NEW k \in 1 .. counter, k # queueJob PROVE Released(k)' = Released(k)
  BY <1>1, <1>2 DEF Released, Queued, NoJob
<1>3. Released(queueJob) = FALSE
  BY DEF Released
<1>4. ASSUME NEW k, k = queueJob PROVE Released(k)'
  BY <1>1, <1>4 DEF JobInv, QueueOK, Released, Queued, NoJob
<1> SUFFICES ASSUME NEW k \in 1 .. counter
             PROVE  HeldMappers(k)' = HeldMappers(k) /\ HeldReducers(k)' = HeldReducers(k)
  BY DEF SameHeld
<1>5. DOMAIN statistic[k].reduceHostList = 1 .. Len(statistic[k].reduceHostList)
      /\ Len(statistic[k].reduceHostList) \in Nat
  BY HeldPlaces
<1>6. CASE k = queueJob
  <2>1. \A i \in DOMAIN statistic[k].reduceHostList : ~ (i >= queueIndex)
    BY <1>1, <1>5, <1>6
  <2>2. HeldMappers(k) = {} /\ HeldReducers(k) = {}
    BY <1>1, <1>6, <2>1 DEF HeldMappers, HeldReducers
  <2> QED
    BY <1>4, <1>6, <2>2 DEF HeldMappers, HeldReducers
<1>7. CASE k # queueJob
  <2>1. k # queueJob'
    BY <1>1 DEF NoJob
  <2> QED
    BY <1>1, <1>2, <1>7, <2>1 DEF HeldMappers, HeldReducers
<1> QED
  BY <1>6, <1>7

\* These are the steps that neither take nor give back a slot.
SlotsUntouched ==
    \/ Idle \/ StartJob \/ QueueGet \/ MappersFreed \/ RecordStatistic
    \/ \E k \in DOMAIN jobState : Job(k)

LEMMA UntouchedSameHeld ==
    ASSUME TypeInv, JobInv, SlotsUntouched
    PROVE  SameHeld /\ UNCHANGED <<counter, statistic, slotVars>>
<1>1. SameHeld
  BY IdleSameHeld, StartJobSameHeld, QueueGetSameHeld, MappersFreedSameHeld,
     RecordStatisticSameHeld, JobSameHeld DEF SlotsUntouched
<1>2. UNCHANGED <<counter, statistic, slotVars>>
  BY DEF SlotsUntouched, Idle, StartJob, QueueGet, MappersFreed, RecordStatistic, QueueUnchanged,
     Job, JobPut, JobExit, mainVars
<1> QED
  BY <1>1, <1>2

LEMMA UntouchedOwnInv == TypeInv /\ JobInv /\ OwnInv /\ SlotsUntouched => OwnInv'
  BY UntouchedSameHeld, SameHeldOwnInv

\* The two halves of BusyIffHeld, one slot at a time.
LEMMA BusyIffHeldAt ==
    ASSUME BusyIffHeld, NEW s \in Slots
    PROVE  /\ availableMapperList[s] = "Busy" <=>
                  \E k \in DOMAIN statistic : \E i \in HeldMappers(k) : statistic[k].mapHostList[i] = s
           /\ availableReducerList[s] = "Busy" <=>
                  \E k \in DOMAIN statistic : \E i \in HeldReducers(k) : statistic[k].reduceHostList[i] = s
  BY Zenon DEF BusyIffHeld

\* The queue thread gives back the place it is at.
LEMMA FreeMapperHeld ==
    ASSUME TypeInv, JobInv, FreeMapper, NEW j, j = queueJob, NEW p, p = queueIndex
    PROVE  /\ UNCHANGED <<counter, statistic, jobState>>
           /\ j \in DOMAIN statistic /\ p \in HeldMappers(j)
           /\ HeldMappers(j)' = HeldMappers(j) \ {p}
           /\ \A k \in DOMAIN statistic : k # j => HeldMappers(k)' = HeldMappers(k)
           /\ \A k \in DOMAIN statistic : HeldReducers(k)' = HeldReducers(k)
<1>0. DOMAIN statistic = 1 .. counter /\ 0 \notin 1 .. counter
  BY JobDomains
<1>1. /\ UNCHANGED <<counter, statistic, jobState, finishJobQueue, queueJob>>
      /\ queuePc = "freeMappers" /\ queuePc' = "freeMappers"
      /\ queueIndex' = queueIndex + 1 /\ queueIndex \in Nat \ {0}
      /\ queueIndex <= Len(statistic[queueJob].mapHostList)
      /\ queueJob \in DOMAIN statistic /\ queueJob # NoJob
  BY <1>0 DEF FreeMapper, QueueUnchanged, mainVars, TypeInv, TypeOK, ThreadTypeOK, NoJob
<1>2. DOMAIN statistic[j].mapHostList = 1 .. Len(statistic[j].mapHostList)
      /\ Len(statistic[j].mapHostList) \in Nat
  BY HeldPlaces
<1>3. \A k : Released(k)' = Released(k)
  BY <1>1 DEF Released, Queued
<1>4. ~Released(j)
  BY DEF Released
<1>5. p \in HeldMappers(j)
  BY <1>1, <1>2, <1>4 DEF HeldMappers
<1>6. HeldMappers(j)' = HeldMappers(j) \ {p}
  <2>1. \A i \in DOMAIN statistic[j].mapHostList : i >= p + 1 <=> i >= p /\ i # p
    BY <1>1, <1>2
  <2>2. HeldMappers(j) = {i \in DOMAIN statistic[j].mapHostList : i >= p}
    BY <1>1, <1>4 DEF HeldMappers
  <2>3. HeldMappers(j)' = {i \in DOMAIN statistic[j].mapHostList : i >= p + 1}
    BY <1>1, <1>3, <1>4 DEF HeldMappers
  <2> QED
    BY <2>1, <2>2, <2>3
<1>7. \A k \in DOMAIN statistic : k # j => HeldMappers(k)' = HeldMappers(k)
  BY <1>1, <1>3 DEF HeldMappers
<1>8. \A k \in DOMAIN statistic : HeldReducers(k)' = HeldReducers(k)
  BY <1>1, <1>3 DEF HeldReducers
<1> QED
  BY <1>1, <1>5, <1>6, <1>7, <1>8

LEMMA FreeMapperOwnInv == TypeInv /\ JobInv /\ OwnInv /\ FreeMapper => OwnInv'
<1> SUFFICES ASSUME TypeInv, JobInv, OwnInv, FreeMapper PROVE OwnInv'
  OBVIOUS
<1>1. PICK j : j = queueJob
  OBVIOUS
<1>2. PICK p : p = queueIndex
  OBVIOUS
<1>3. UNCHANGED <<statistic, availableReducerList>> /\ j \in DOMAIN statistic
  BY <1>1, <1>2, FreeMapperHeld DEF FreeMapper
<1>4. p \in HeldMappers(j)
  BY <1>1, <1>2, FreeMapperHeld
<1>5. HeldMappers(j)' = HeldMappers(j) \ {p}
  BY <1>1, <1>2, FreeMapperHeld
<1>6. \A k \in DOMAIN statistic : k # j => HeldMappers(k)' = HeldMappers(k)
  BY <1>1, <1>2, FreeMapperHeld
<1>7. \A k \in DOMAIN statistic : HeldReducers(k)' = HeldReducers(k)
  BY <1>1, <1>2, FreeMapperHeld
<1>8. availableMapperList' = [availableMapperList EXCEPT ![statistic[j].mapHostList[p]] = "Ready"]
       /\ DOMAIN availableMapperList = Slots
  BY <1>1, <1>2 DEF FreeMapper, TypeInv, TypeOK, SlotTypeOK
<1>9. OneHolder'
  <2>1. \A k \in DOMAIN statistic : HeldMappers(k)' \subseteq HeldMappers(k)
    BY <1>5, <1>6
  <2>2. statistic' = statistic
    BY <1>3
  <2> SUFFICES ASSUME NEW k \in DOMAIN statistic, NEW l \in DOMAIN statistic
               PROVE  /\ \A i \in HeldMappers(k)', m \in HeldMappers(l)' :
                             statistic[k].mapHostList[i] = statistic[l].mapHostList[m]
                             => k = l /\ i = m
                      /\ \A i \in HeldReducers(k)', m \in HeldReducers(l)' :
                             statistic[k].reduceHostList[i] = statistic[l].reduceHostList[m]
                             => k = l /\ i = m
    BY <2>2 DEF OneHolder
  <2>3. /\ \A i \in HeldMappers(k), m \in HeldMappers(l) :
               statistic[k].mapHostList[i] = statistic[l].mapHostList[m] => k = l /\ i = m
        /\ \A i \in HeldReducers(k), m \in HeldReducers(l) :
               statistic[k].reduceHostList[i] = statistic[l].reduceHostList[m] => k = l /\ i = m
    BY <2>2 DEF OwnInv, OneHolder
  <2> QED
    BY <1>7, <2>1, <2>3
<1>10. ASSUME NEW s \in Slots
       PROVE  availableMapperList'[s] = "Busy" <=>
                  \E k \in DOMAIN statistic :
                      \E i \in HeldMappers(k)' : statistic[k].mapHostList[i] = s
  <2>1. CASE s = statistic[j].mapHostList[p]
    <3>1. availableMapperList'[s] # "Busy"
      BY <1>8, <2>1
    <3>2. ASSUME NEW k \in DOMAIN statistic, NEW i \in HeldMappers(k)'
          PROVE  statistic[k].mapHostList[i] # s
      <4>1. i \in HeldMappers(k) /\ ~ (k = j /\ i = p)
        BY <1>5, <1>6, <3>2
      <4> QED
        BY <1>3, <1>4, <2>1, <4>1 DEF OwnInv, OneHolder
    <3> QED
      BY <3>1, <3>2
  <2>2. CASE s # statistic[j].mapHostList[p]
    <3>1. availableMapperList'[s] = availableMapperList[s]
      BY <1>8, <2>2
    <3>2. ASSUME NEW k \in DOMAIN statistic, NEW i, statistic[k].mapHostList[i] = s
          PROVE  i \in HeldMappers(k)' <=> i \in HeldMappers(k)
      BY <1>5, <1>6, <2>2, <3>2
    <3>3. availableMapperList[s] = "Busy" <=>
              \E k \in DOMAIN statistic : \E i \in HeldMappers(k) : statistic[k].mapHostList[i] = s
      BY BusyIffHeldAt DEF OwnInv
    <3> QED
      BY <3>1, <3>2, <3>3
  <2> QED
    BY <2>1, <2>2
<1>11. BusyIffHeld'
  <2>1. statistic' = statistic
    BY <1>3
  <2>2. ASSUME NEW s \in Slots
        PROVE  availableReducerList'[s] = "Busy" <=>
                   \E k \in DOMAIN statistic :
                       \E i \in HeldReducers(k)' : statistic[k].reduceHostList[i] = s
    <3>1. availableReducerList' = availableReducerList
      BY <1>3
    <3>2. availableReducerList[s] = "Busy" <=>
              \E k \in DOMAIN statistic : \E i \in HeldReducers(k) : statistic[k].reduceHostList[i] = s
      BY BusyIffHeldAt DEF OwnInv
    <3> QED
      BY <1>7, <3>1, <3>2
  <2> SUFFICES ASSUME NEW s \in Slots
               PROVE  /\ availableMapperList'[s] = "Busy" <=>
                             \E k \in DOMAIN statistic :
                                 \E i \in HeldMappers(k)' : statistic[k].mapHostList[i] = s
                      /\ availableReducerList'[s] = "Busy" <=>
                             \E k \in DOMAIN statistic :
                                 \E i \in HeldReducers(k)' : statistic[k].reduceHostList[i] = s
    BY <2>1 DEF BusyIffHeld
  <2> QED
    BY <1>10, <2>2
<1> QED
  BY <1>9, <1>11 DEF OwnInv

LEMMA FreeReducerHeld ==
    ASSUME TypeInv, JobInv, FreeReducer, NEW j, j = queueJob, NEW p, p = queueIndex
    PROVE  /\ UNCHANGED <<counter, statistic, jobState>>
           /\ j \in DOMAIN statistic /\ p \in HeldReducers(j)
           /\ HeldReducers(j)' = HeldReducers(j) \ {p}
           /\ \A k \in DOMAIN statistic : k # j => HeldReducers(k)' = HeldReducers(k)
           /\ \A k \in DOMAIN statistic : HeldMappers(k)' = HeldMappers(k)
<1>0. DOMAIN statistic = 1 .. counter /\ 0 \notin 1 .. counter
  BY JobDomains
<1>1. /\ UNCHANGED <<counter, statistic, jobState, finishJobQueue, queueJob>>
      /\ queuePc = "freeReducers" /\ queuePc' = "freeReducers"
      /\ queueIndex' = queueIndex + 1 /\ queueIndex \in Nat \ {0}
      /\ queueIndex <= Len(statistic[queueJob].reduceHostList)
      /\ queueJob \in DOMAIN statistic /\ queueJob # NoJob
  BY <1>0 DEF FreeReducer, QueueUnchanged, mainVars, TypeInv, TypeOK, ThreadTypeOK, NoJob
<1>2. DOMAIN statistic[j].reduceHostList = 1 .. Len(statistic[j].reduceHostList)
      /\ Len(statistic[j].reduceHostList) \in Nat
  BY HeldPlaces
<1>3. \A k : Released(k)' = Released(k)
  BY <1>1 DEF Released, Queued
<1>4. ~Released(j)
  BY DEF Released
<1>5. p \in HeldReducers(j)
  BY <1>1, <1>2, <1>4 DEF HeldReducers
<1>6. HeldReducers(j)' = HeldReducers(j) \ {p}
  <2>1. \A i \in DOMAIN statistic[j].reduceHostList : i >= p + 1 <=> i >= p /\ i # p
    BY <1>1, <1>2
  <2>2. HeldReducers(j) = {i \in DOMAIN statistic[j].reduceHostList : i >= p}
    BY <1>1, <1>4 DEF HeldReducers
  <2>3. HeldReducers(j)' = {i \in DOMAIN statistic[j].reduceHostList : i >= p + 1}
    BY <1>1, <1>3, <1>4 DEF HeldReducers
  <2> QED
    BY <2>1, <2>2, <2>3
<1>7. \A k \in DOMAIN statistic : k # j => HeldReducers(k)' = HeldReducers(k)
  BY <1>1, <1>3 DEF HeldReducers
<1>8. \A k \in DOMAIN statistic : HeldMappers(k)' = HeldMappers(k)
  BY <1>1, <1>3 DEF HeldMappers
<1> QED
  BY <1>1, <1>5, <1>6, <1>7, <1>8

LEMMA FreeReducerOwnInv == TypeInv /\ JobInv /\ OwnInv /\ FreeReducer => OwnInv'
<1> SUFFICES ASSUME TypeInv, JobInv, OwnInv, FreeReducer PROVE OwnInv'
  OBVIOUS
<1>1. PICK j : j = queueJob
  OBVIOUS
<1>2. PICK p : p = queueIndex
  OBVIOUS
<1>3. UNCHANGED <<statistic, availableMapperList>> /\ j \in DOMAIN statistic
  BY <1>1, <1>2, FreeReducerHeld DEF FreeReducer
<1>4. p \in HeldReducers(j)
  BY <1>1, <1>2, FreeReducerHeld
<1>5. HeldReducers(j)' = HeldReducers(j) \ {p}
  BY <1>1, <1>2, FreeReducerHeld
<1>6. \A k \in DOMAIN statistic : k # j => HeldReducers(k)' = HeldReducers(k)
  BY <1>1, <1>2, FreeReducerHeld
<1>7. \A k \in DOMAIN statistic : HeldMappers(k)' = HeldMappers(k)
  BY <1>1, <1>2, FreeReducerHeld
<1>8. availableReducerList' =
           [availableReducerList EXCEPT ![statistic[j].reduceHostList[p]] = "Ready"]
       /\ DOMAIN availableReducerList = Slots
  BY <1>1, <1>2 DEF FreeReducer, TypeInv, TypeOK, SlotTypeOK
<1>9. OneHolder'
  <2>1. \A k \in DOMAIN statistic : HeldReducers(k)' \subseteq HeldReducers(k)
    BY <1>5, <1>6
  <2>2. statistic' = statistic
    BY <1>3
  <2> SUFFICES ASSUME NEW k \in DOMAIN statistic, NEW l \in DOMAIN statistic
               PROVE  /\ \A i \in HeldMappers(k)', m \in HeldMappers(l)' :
                             statistic[k].mapHostList[i] = statistic[l].mapHostList[m]
                             => k = l /\ i = m
                      /\ \A i \in HeldReducers(k)', m \in HeldReducers(l)' :
                             statistic[k].reduceHostList[i] = statistic[l].reduceHostList[m]
                             => k = l /\ i = m
    BY <2>2 DEF OneHolder
  <2>3. /\ \A i \in HeldMappers(k), m \in HeldMappers(l) :
               statistic[k].mapHostList[i] = statistic[l].mapHostList[m] => k = l /\ i = m
        /\ \A i \in HeldReducers(k), m \in HeldReducers(l) :
               statistic[k].reduceHostList[i] = statistic[l].reduceHostList[m] => k = l /\ i = m
    BY <2>2 DEF OwnInv, OneHolder
  <2> QED
    BY <1>7, <2>1, <2>3
<1>10. ASSUME NEW s \in Slots
       PROVE  availableReducerList'[s] = "Busy" <=>
                  \E k \in DOMAIN statistic :
                      \E i \in HeldReducers(k)' : statistic[k].reduceHostList[i] = s
  <2>1. CASE s = statistic[j].reduceHostList[p]
    <3>1. availableReducerList'[s] # "Busy"
      BY <1>8, <2>1
    <3>2. ASSUME NEW k \in DOMAIN statistic, NEW i \in HeldReducers(k)'
          PROVE  statistic[k].reduceHostList[i] # s
      <4>1. i \in HeldReducers(k) /\ ~ (k = j /\ i = p)
        BY <1>5, <1>6, <3>2
      <4> QED
        BY <1>3, <1>4, <2>1, <4>1 DEF OwnInv, OneHolder
    <3> QED
      BY <3>1, <3>2
  <2>2. CASE s # statistic[j].reduceHostList[p]
    <3>1. availableReducerList'[s] = availableReducerList[s]
      BY <1>8, <2>2
    <3>2. ASSUME NEW k \in DOMAIN statistic, NEW i, statistic[k].reduceHostList[i] = s
          PROVE  i \in HeldReducers(k)' <=> i \in HeldReducers(k)
      BY <1>5, <1>6, <2>2, <3>2
    <3>3. availableReducerList[s] = "Busy" <=>
              \E k \in DOMAIN statistic :
                  \E i \in HeldReducers(k) : statistic[k].reduceHostList[i] = s
      BY BusyIffHeldAt DEF OwnInv
    <3> QED
      BY <3>1, <3>2, <3>3
  <2> QED
    BY <2>1, <2>2
<1>11. BusyIffHeld'
  <2>1. statistic' = statistic
    BY <1>3
  <2>2. ASSUME NEW s \in Slots
        PROVE  availableMapperList'[s] = "Busy" <=>
                   \E k \in DOMAIN statistic :
                       \E i \in HeldMappers(k)' : statistic[k].mapHostList[i] = s
    <3>1. availableMapperList' = availableMapperList
      BY <1>3
    <3>2. availableMapperList[s] = "Busy" <=>
              \E k \in DOMAIN statistic : \E i \in HeldMappers(k) : statistic[k].mapHostList[i] = s
      BY BusyIffHeldAt DEF OwnInv
    <3> QED
      BY <1>7, <3>1, <3>2
  <2> SUFFICES ASSUME NEW s \in Slots
               PROVE  /\ availableMapperList'[s] = "Busy" <=>
                             \E k \in DOMAIN statistic :
                                 \E i \in HeldMappers(k)' : statistic[k].mapHostList[i] = s
                      /\ availableReducerList'[s] = "Busy" <=>
                             \E k \in DOMAIN statistic :
                                 \E i \in HeldReducers(k)' : statistic[k].reduceHostList[i] = s
    BY <2>1 DEF BusyIffHeld
  <2> QED
    BY <1>10, <2>2
<1> QED
  BY <1>9, <1>11 DEF OwnInv

\* A job that is taken from the queue holds nothing yet.
LEMMA NextJobHeld ==
    ASSUME TypeInv, NextJob, NEW n, n = counter + 1
    PROVE  /\ UNCHANGED slotVars
           /\ DOMAIN statistic' = DOMAIN statistic \cup {n} /\ n \notin DOMAIN statistic
           /\ \A k \in DOMAIN statistic : /\ statistic'[k] = statistic[k]
                                         /\ HeldMappers(k)' = HeldMappers(k)
                                         /\ HeldReducers(k)' = HeldReducers(k)
           /\ HeldMappers(n)' = {} /\ HeldReducers(n)' = {}
<1>0. DOMAIN statistic = 1 .. counter /\ counter \in Nat
  BY JobDomains
<1>1. /\ UNCHANGED <<finishJobQueue, queueJob, queuePc, queueIndex, slotVars>>
      /\ DOMAIN statistic' = DOMAIN statistic \cup {n} /\ n \notin DOMAIN statistic
      /\ \A k \in DOMAIN statistic : statistic'[k] = statistic[k] /\ jobState'[k] = jobState[k]
      /\ statistic'[n].mapHostList = <<>> /\ statistic'[n].reduceHostList = <<>>
  BY <1>0, NextJobEffect DEF NextJob, queueVars
<1>2. \A k \in DOMAIN statistic : Released(k)' = Released(k)
  BY <1>1 DEF Released, Queued
<1>3. ASSUME NEW k \in DOMAIN statistic
      PROVE  HeldMappers(k)' = HeldMappers(k) /\ HeldReducers(k)' = HeldReducers(k)
  <2>1. Released(k)' = Released(k) /\ statistic'[k] = statistic[k]
    BY <1>1, <1>2
  <2>2. HeldMappers(k)' = HeldMappers(k)
    BY <1>1, <2>1 DEF HeldMappers
  <2>3. HeldReducers(k)' = HeldReducers(k)
    BY <1>1, <2>1 DEF HeldReducers
  <2> QED
    BY <2>2, <2>3
<1>4. HeldMappers(n)' = {} /\ HeldReducers(n)' = {}
  BY <1>1 DEF HeldMappers, HeldReducers
<1> QED
  BY <1>1, <1>3, <1>4

LEMMA NextJobOwnInv == TypeInv /\ JobInv /\ OwnInv /\ NextJob => OwnInv'
<1> SUFFICES ASSUME TypeInv, JobInv, OwnInv, NextJob PROVE OwnInv'
  OBVIOUS
<1>1. PICK n : n = counter + 1
  OBVIOUS
<1>2. /\ UNCHANGED slotVars
      /\ DOMAIN statistic' = DOMAIN statistic \cup {n} /\ n \notin DOMAIN statistic
      /\ \A k \in DOMAIN statistic : statistic'[k] = statistic[k]
  BY <1>1, NextJobHeld
<1>3. ASSUME NEW k \in DOMAIN statistic
      PROVE  HeldMappers(k)' = HeldMappers(k) /\ HeldReducers(k)' = HeldReducers(k)
  BY <1>1, NextJobHeld
<1>4. HeldMappers(n)' = {} /\ HeldReducers(n)' = {}
  BY <1>1, NextJobHeld
<1>5. BusyIffHeld'
  <2>1. ASSUME NEW s \in Slots
        PROVE  /\ availableMapperList[s] = "Busy" <=>
                      \E k \in DOMAIN statistic :
                          \E i \in HeldMappers(k) : statistic[k].mapHostList[i] = s
               /\ availableReducerList[s] = "Busy" <=>
                      \E k \in DOMAIN statistic :
                          \E i \in HeldReducers(k) : statistic[k].reduceHostList[i] = s
    BY BusyIffHeldAt DEF OwnInv
  <2> SUFFICES ASSUME NEW s \in Slots
               PROVE  /\ availableMapperList'[s] = "Busy" <=>
                             \E k \in DOMAIN statistic' :
                                 \E i \in HeldMappers(k)' : statistic'[k].mapHostList[i] = s
                      /\ availableReducerList'[s] = "Busy" <=>
                             \E k \in DOMAIN statistic' :
                                 \E i \in HeldReducers(k)' : statistic'[k].reduceHostList[i] = s
    BY DEF BusyIffHeld
  <2> QED
    BY <1>2, <1>3, <1>4, <2>1 DEF slotVars
<1>6. OneHolder'
  <2> SUFFICES ASSUME NEW k \in DOMAIN statistic', NEW l \in DOMAIN statistic'
               PROVE  /\ \A i \in HeldMappers(k)', m \in HeldMappers(l)' :
                             statistic'[k].mapHostList[i] = statistic'[l].mapHostList[m]
                             => k = l /\ i = m
                      /\ \A i \in HeldReducers(k)', m \in HeldReducers(l)' :
                             statistic'[k].reduceHostList[i] = statistic'[l].reduceHostList[m]
                             => k = l /\ i = m
    BY DEF OneHolder
  <2>1. CASE k = n \/ l = n
    BY <1>4, <2>1
  <2>2. CASE k # n /\ l # n
    <3>1. k \in DOMAIN statistic /\ l \in DOMAIN statistic
      BY <1>2, <2>2
    <3>2. /\ \A i \in HeldMappers(k), m \in HeldMappers(l) :
                 statistic[k].mapHostList[i] = statistic[l].mapHostList[m] => k = l /\ i = m
          /\ \A i \in HeldReducers(k), m \in HeldReducers(l) :
                 statistic[k].reduceHostList[i] = statistic[l].reduceHostList[m] => k = l /\ i = m
      BY <3>1 DEF OwnInv, OneHolder
    <3> QED
      BY <1>2, <1>3, <3>1, <3>2
  <2> QED
    BY <2>1, <2>2
<1> QED
  BY <1>5, <1>6 DEF OwnInv

\* The job that the main thread works on gets a pair of slots at new places of its lists.
LEMMA TakePairHeld ==
    ASSUME TypeInv, JobInv, TakePair, NEW n, n = counter
    PROVE  /\ n \in DOMAIN statistic /\ counter' = counter
           /\ mapperSlot \in Slots /\ cursor \in Slots
           /\ DOMAIN statistic' = DOMAIN statistic
           /\ \A k \in DOMAIN statistic :
                  k # n => /\ statistic'[k] = statistic[k]
                           /\ HeldMappers(k)' = HeldMappers(k)
                           /\ HeldReducers(k)' = HeldReducers(k)
           /\ \E p : /\ p \notin HeldMappers(n) /\ HeldMappers(n)' = HeldMappers(n) \cup {p}
                     /\ statistic'[n].mapHostList[p] = mapperSlot
                     /\ \A i \in HeldMappers(n) :
                            statistic'[n].mapHostList[i] = statistic[n].mapHostList[i]
           /\ \E q : /\ q \notin HeldReducers(n) /\ HeldReducers(n)' = HeldReducers(n) \cup {q}
                     /\ statistic'[n].reduceHostList[q] = cursor
                     /\ \A i \in HeldReducers(n) :
                            statistic'[n].reduceHostList[i] = statistic[n].reduceHostList[i]
<1> DEFINE maps == statistic[n].mapHostList
           reds == statistic[n].reduceHostList
           p == Len(maps) + 1
           q == Len(reds) + 1
<1>1. /\ n \in DOMAIN statistic /\ counter' = counter
      /\ mapperSlot \in Slots /\ cursor \in Slots
      /\ DOMAIN statistic' = DOMAIN statistic
      /\ \A k \in DOMAIN statistic : k # n => statistic'[k] = statistic[k]
      /\ statistic'[n] = StatisticWith(n, mapperSlot, cursor)
      /\ UNCHANGED <<jobState, finishJobQueue, queuePc, queueJob, queueIndex>>
  BY TakePairEffect, JobDomains DEF queueVars, JobInv
<1>2. /\ maps \in Seq(Slots) /\ reds \in Seq(Slots)
      /\ Len(maps) \in Nat /\ Len(reds) \in Nat
      /\ DOMAIN maps = 1 .. Len(maps) /\ DOMAIN reds = 1 .. Len(reds)
  BY <1>1, HeldPlaces
<1>3. /\ statistic'[n].mapHostList = Append(maps, mapperSlot)
      /\ statistic'[n].reduceHostList = Append(reds, cursor)
  <2>1. statistic[n] \in StatisticType
    BY <1>1, JobDomains
  <2> QED
    BY <1>1, <2>1 DEF StatisticWith, StatisticType
<1>4. /\ DOMAIN statistic'[n].mapHostList = DOMAIN maps \cup {p} /\ p \notin DOMAIN maps
      /\ statistic'[n].mapHostList[p] = mapperSlot
      /\ \A i \in DOMAIN maps : statistic'[n].mapHostList[i] = maps[i]
  <2>1. DOMAIN maps \cup {p} = 1 .. Len(maps) + 1 /\ p \notin DOMAIN maps
    BY <1>2
  <2> QED
    BY <1>1, <1>2, <1>3, <2>1, AppendElements
<1>5. /\ DOMAIN statistic'[n].reduceHostList = DOMAIN reds \cup {q} /\ q \notin DOMAIN reds
      /\ statistic'[n].reduceHostList[q] = cursor
      /\ \A i \in DOMAIN reds : statistic'[n].reduceHostList[i] = reds[i]
  <2>1. DOMAIN reds \cup {q} = 1 .. Len(reds) + 1 /\ q \notin DOMAIN reds
    BY <1>2
  <2> QED
    BY <1>1, <1>2, <1>3, <2>1, AppendElements
<1>6. jobState[n] = "new" /\ n # queueJob
  <2>1. jobState[n] = "new"
    BY <1>1, JobDomains DEF TakePair, JobInv, AssemblyOK
  <2>2. n # NoJob
    BY <1>1, JobDomains DEF NoJob
  <2> QED
    BY <2>1, <2>2 DEF JobInv, QueueOK
<1>7. \A k : Released(k)' = Released(k)
  BY <1>1 DEF Released, Queued
<1>8. ~Released(n)
  BY <1>6 DEF Released
<1>9. /\ HeldMappers(n) = DOMAIN maps /\ HeldMappers(n)' = DOMAIN maps \cup {p}
      /\ HeldReducers(n) = DOMAIN reds /\ HeldReducers(n)' = DOMAIN reds \cup {q}
  BY <1>1, <1>4, <1>5, <1>6, <1>7, <1>8 DEF HeldMappers, HeldReducers
<1>10. ASSUME NEW k \in DOMAIN statistic, k # n
       PROVE  HeldMappers(k)' = HeldMappers(k) /\ HeldReducers(k)' = HeldReducers(k)
  <2>1. Released(k)' = Released(k) /\ statistic'[k] = statistic[k]
    BY <1>1, <1>7, <1>10
  <2>2. HeldMappers(k)' = HeldMappers(k)
    BY <1>1, <2>1 DEF HeldMappers
  <2>3. HeldReducers(k)' = HeldReducers(k)
    BY <1>1, <2>1 DEF HeldReducers
  <2> QED
    BY <2>2, <2>3
<1> HIDE DEF p, q
<1> QED
  BY <1>1, <1>4, <1>5, <1>9, <1>10

\* Nobody held the pair.
LEMMA TakePairOwnInv == TypeInv /\ JobInv /\ OwnInv /\ TakePair => OwnInv'
<1> SUFFICES ASSUME TypeInv, JobInv, OwnInv, TakePair PROVE OwnInv'
  OBVIOUS
<1>1. PICK n : n = counter
  OBVIOUS
<1>2. /\ availableMapperList' = [availableMapperList EXCEPT ![mapperSlot] = "Busy"]
      /\ availableReducerList' = [availableReducerList EXCEPT ![cursor] = "Busy"]
      /\ DOMAIN availableMapperList = Slots /\ DOMAIN availableReducerList = Slots
      /\ availableMapperList[mapperSlot] # "Busy" /\ availableReducerList[cursor] # "Busy"
  BY DEF TakePair, IsReady, TypeInv, SearchOK, TypeOK, SlotTypeOK
<1>3. /\ n \in DOMAIN statistic /\ mapperSlot \in Slots /\ cursor \in Slots
      /\ DOMAIN statistic' = DOMAIN statistic
      /\ \A k \in DOMAIN statistic : k # n => statistic'[k] = statistic[k]
  BY <1>1, TakePairHeld
<1>4. ASSUME NEW k \in DOMAIN statistic, k # n
       PROVE  HeldMappers(k)' = HeldMappers(k) /\ HeldReducers(k)' = HeldReducers(k)
  BY <1>1, <1>4, TakePairHeld
<1>5. PICK p : /\ p \notin HeldMappers(n) /\ HeldMappers(n)' = HeldMappers(n) \cup {p}
               /\ statistic'[n].mapHostList[p] = mapperSlot
               /\ \A i \in HeldMappers(n) :
                      statistic'[n].mapHostList[i] = statistic[n].mapHostList[i]
  BY <1>1, TakePairHeld
<1>6. PICK q : /\ q \notin HeldReducers(n) /\ HeldReducers(n)' = HeldReducers(n) \cup {q}
               /\ statistic'[n].reduceHostList[q] = cursor
               /\ \A i \in HeldReducers(n) :
                      statistic'[n].reduceHostList[i] = statistic[n].reduceHostList[i]
  BY <1>1, TakePairHeld
<1>7. ASSUME NEW k \in DOMAIN statistic
       PROVE  /\ \A i \in HeldMappers(k) : statistic[k].mapHostList[i] # mapperSlot
              /\ \A i \in HeldReducers(k) : statistic[k].reduceHostList[i] # cursor
  BY <1>2, <1>3, BusyIffHeldAt DEF OwnInv
<1>8. BusyIffHeld'
  <2>1. ASSUME NEW s \in Slots
        PROVE  /\ availableMapperList[s] = "Busy" <=>
                      \E k \in DOMAIN statistic :
                          \E i \in HeldMappers(k) : statistic[k].mapHostList[i] = s
               /\ availableReducerList[s] = "Busy" <=>
                      \E k \in DOMAIN statistic :
                          \E i \in HeldReducers(k) : statistic[k].reduceHostList[i] = s
    BY BusyIffHeldAt DEF OwnInv
  <2> SUFFICES ASSUME NEW s \in Slots
               PROVE  /\ availableMapperList'[s] = "Busy" <=>
                             \E k \in DOMAIN statistic' :
                                 \E i \in HeldMappers(k)' : statistic'[k].mapHostList[i] = s
                      /\ availableReducerList'[s] = "Busy" <=>
                             \E k \in DOMAIN statistic' :
                                 \E i \in HeldReducers(k)' : statistic'[k].reduceHostList[i] = s
    BY DEF BusyIffHeld
  <2>2. (\E k \in DOMAIN statistic' :
             \E i \in HeldMappers(k)' : statistic'[k].mapHostList[i] = s)
        <=> \/ \E k \in DOMAIN statistic :
                   \E i \in HeldMappers(k) : statistic[k].mapHostList[i] = s
            \/ s = mapperSlot
    BY <1>3, <1>5, <1>4
  <2>3. (\E k \in DOMAIN statistic' :
             \E i \in HeldReducers(k)' : statistic'[k].reduceHostList[i] = s)
        <=> \/ \E k \in DOMAIN statistic :
                   \E i \in HeldReducers(k) : statistic[k].reduceHostList[i] = s
            \/ s = cursor
    BY <1>3, <1>6, <1>4
  <2>4. availableMapperList'[s] = "Busy" <=> availableMapperList[s] = "Busy" \/ s = mapperSlot
    BY <1>2
  <2>5. availableReducerList'[s] = "Busy" <=> availableReducerList[s] = "Busy" \/ s = cursor
    BY <1>2
  <2> QED
    BY <2>1, <2>2, <2>3, <2>4, <2>5
<1>9. OneHolder'
  <2> SUFFICES ASSUME NEW k \in DOMAIN statistic, NEW l \in DOMAIN statistic
               PROVE  /\ \A i \in HeldMappers(k)', m \in HeldMappers(l)' :
                             statistic'[k].mapHostList[i] = statistic'[l].mapHostList[m]
                             => k = l /\ i = m
                      /\ \A i \in HeldReducers(k)', m \in HeldReducers(l)' :
                             statistic'[k].reduceHostList[i] = statistic'[l].reduceHostList[m]
                             => k = l /\ i = m
    BY <1>3 DEF OneHolder
  <2>1. /\ \A i \in HeldMappers(k), m \in HeldMappers(l) :
               statistic[k].mapHostList[i] = statistic[l].mapHostList[m] => k = l /\ i = m
        /\ \A i \in HeldReducers(k), m \in HeldReducers(l) :
               statistic[k].reduceHostList[i] = statistic[l].reduceHostList[m] => k = l /\ i = m
    BY DEF OwnInv, OneHolder
  <2>2. ASSUME NEW i \in HeldMappers(k)', NEW m \in HeldMappers(l)',
               statistic'[k].mapHostList[i] = statistic'[l].mapHostList[m]
        PROVE  k = l /\ i = m
    <3>1. k # n \/ i # p => /\ i \in HeldMappers(k)
                            /\ statistic'[k].mapHostList[i] = statistic[k].mapHostList[i]
      BY <1>3, <1>5, <1>4
    <3>2. l # n \/ m # p => /\ m \in HeldMappers(l)
                            /\ statistic'[l].mapHostList[m] = statistic[l].mapHostList[m]
      BY <1>3, <1>5, <1>4
    <3> QED
      BY <1>5, <1>7, <2>1, <2>2, <3>1, <3>2
  <2>3. ASSUME NEW i \in HeldReducers(k)', NEW m \in HeldReducers(l)',
               statistic'[k].reduceHostList[i] = statistic'[l].reduceHostList[m]
        PROVE  k = l /\ i = m
    <3>1. k # n \/ i # q => /\ i \in HeldReducers(k)
                            /\ statistic'[k].reduceHostList[i] = statistic[k].reduceHostList[i]
      BY <1>3, <1>6, <1>4
    <3>2. l # n \/ m # q => /\ m \in HeldReducers(l)
                            /\ statistic'[l].reduceHostList[m] = statistic[l].reduceHostList[m]
      BY <1>3, <1>6, <1>4
    <3> QED
      BY <1>6, <1>7, <2>1, <2>3, <3>1, <3>2
  <2> QED
    BY <2>2, <2>3
<1> QED
  BY <1>8, <1>9 DEF OwnInv

LEMMA StepOwnInv == TypeInv /\ JobInv /\ OwnInv /\ [Next]_vars => OwnInv'
  BY StepCases, UntouchedOwnInv, NextJobOwnInv, TakePairOwnInv, FreeMapperOwnInv,
     FreeReducerOwnInv DEF SlotsUntouched

LEMMA OwnInvAlways == Spec => [](TypeInv /\ JobInv /\ OwnInv)
  BY InitTypeInv, StepTypeInv, InitJobInv, StepJobInv, InitOwnInv, StepOwnInv, PTL DEF Spec

\* A slot is Busy exactly when some job holds it, at every step of the main thread that
\* marks slots and of the queue thread that clears them.
THEOREM BusySlotsAreHeld == Spec => []BusyIffHeld
<1>1. OwnInv => BusyIffHeld
  BY DEF OwnInv
<1> QED
  BY <1>1, OwnInvAlways, PTL

\* No slot is held twice, by two jobs or at two places of one.
THEOREM NoSlotIsShared == Spec => []OneHolder
<1>1. OwnInv => OneHolder
  BY DEF OwnInv
<1> QED
  BY <1>1, OwnInvAlways, PTL

\* The slots are accounted for, with any number of hosts and any work file: the parts of
\* SlotsAreSound together, as the run of the scheduler checks them.
THEOREM SlotsAreAlwaysSound == Spec => []SlotsAreSound
  BY TypeCorrect, BusySlotsAreHeld, NoSlotIsShared, PTL DEF SlotsAreSound

\* Every job is assembled undisturbed by the queue thread and started with all its pairs.
THEOREM JobsAreAlwaysPlaced == Spec => []JobsArePlaced
  BY StartedJobsArePlaced, AssemblyIsUndisturbed, PTL DEF JobsArePlaced

-----------------------------------------------------------------------------
(* The scheduler implements SlotPool.                                       *)

HoldsMapper(k, s) == \E i \in HeldMappers(k) : statistic[k].mapHostList[i] = s
HoldsReducer(k, s) == \E i \in HeldReducers(k) : statistic[k].reduceHostList[i] = s

\* The owner of a slot is the one job that holds it.
OwnersKnown ==
    /\ NoJob \notin DOMAIN statistic
    /\ \A s \in Slots :
           /\ MapperOwner(s) \in {NoJob} \cup DOMAIN statistic
           /\ \A k \in DOMAIN statistic : MapperOwner(s) = k <=> HoldsMapper(k, s)
           /\ ReducerOwner(s) \in {NoJob} \cup DOMAIN statistic
           /\ \A k \in DOMAIN statistic : ReducerOwner(s) = k <=> HoldsReducer(k, s)

LEMMA OwnersAreKnown == TypeInv /\ OwnInv => OwnersKnown
<1> SUFFICES ASSUME TypeInv, OwnInv, NEW s \in Slots
             PROVE  /\ MapperOwner(s) \in {NoJob} \cup DOMAIN statistic
                    /\ \A k \in DOMAIN statistic : MapperOwner(s) = k <=> HoldsMapper(k, s)
                    /\ ReducerOwner(s) \in {NoJob} \cup DOMAIN statistic
                    /\ \A k \in DOMAIN statistic : ReducerOwner(s) = k <=> HoldsReducer(k, s)
  BY JobDomains DEF OwnersKnown, NoJob
<1>1. NoJob \notin DOMAIN statistic
  BY JobDomains DEF NoJob
<1>2. MapperOwner(s) = IF \E k \in DOMAIN statistic : HoldsMapper(k, s)
                       THEN CHOOSE k \in DOMAIN statistic : HoldsMapper(k, s) ELSE NoJob
  BY Zenon DEF MapperOwner, HoldsMapper
<1>3. ReducerOwner(s) = IF \E k \in DOMAIN statistic : HoldsReducer(k, s)
                        THEN CHOOSE k \in DOMAIN statistic : HoldsReducer(k, s) ELSE NoJob
  BY Zenon DEF ReducerOwner, HoldsReducer
<1>4. \A k, l \in DOMAIN statistic :
          /\ HoldsMapper(k, s) /\ HoldsMapper(l, s) => k = l
          /\ HoldsReducer(k, s) /\ HoldsReducer(l, s) => k = l
  BY DEF OwnInv, OneHolder, HoldsMapper, HoldsReducer
<1> QED
  BY <1>1, <1>2, <1>3, <1>4

\* A slot keeps its owner if the same jobs hold it, ...
LEMMA OwnersStay ==
    ASSUME OwnersKnown, OwnersKnown', NEW s \in Slots,
           DOMAIN statistic \subseteq DOMAIN statistic'
    PROVE  /\ (\A k \in DOMAIN statistic' :
                  HoldsMapper(k, s)' <=> k \in DOMAIN statistic /\ HoldsMapper(k, s))
              => MapperOwner(s)' = MapperOwner(s)
           /\ (\A k \in DOMAIN statistic' :
                  HoldsReducer(k, s)' <=> k \in DOMAIN statistic /\ HoldsReducer(k, s))
              => ReducerOwner(s)' = ReducerOwner(s)
  BY DEF OwnersKnown

\* ... changes it to the job that comes to hold it, and has none when that gives it back.
LEMMA UntouchedOwners ==
    ASSUME TypeInv, JobInv, OwnersKnown, OwnersKnown', SlotsUntouched \/ NextJob,
           NEW s \in Slots
    PROVE  MapperOwner(s)' = MapperOwner(s) /\ ReducerOwner(s)' = ReducerOwner(s)
<1>1. CASE SlotsUntouched
  <2>1. /\ statistic' = statistic
        /\ \A k \in DOMAIN statistic : /\ HeldMappers(k)' = HeldMappers(k)
                                       /\ HeldReducers(k)' = HeldReducers(k)
    BY <1>1, UntouchedSameHeld DEF SameHeld
  <2>2. \A k \in DOMAIN statistic : /\ HoldsMapper(k, s)' <=> HoldsMapper(k, s)
                                    /\ HoldsReducer(k, s)' <=> HoldsReducer(k, s)
    BY <2>1 DEF HoldsMapper, HoldsReducer
  <2> QED
    BY <2>1, <2>2, OwnersStay
<1>2. CASE NextJob
  <2>1. PICK n : n = counter + 1
    OBVIOUS
  <2>2. /\ DOMAIN statistic' = DOMAIN statistic \cup {n} /\ n \notin DOMAIN statistic
        /\ \A k \in DOMAIN statistic : /\ statistic'[k] = statistic[k]
                                       /\ HeldMappers(k)' = HeldMappers(k)
                                       /\ HeldReducers(k)' = HeldReducers(k)
        /\ HeldMappers(n)' = {} /\ HeldReducers(n)' = {}
    BY <1>2, <2>1, NextJobHeld
  <2>3. \A k \in DOMAIN statistic : /\ HoldsMapper(k, s)' <=> HoldsMapper(k, s)
                                    /\ HoldsReducer(k, s)' <=> HoldsReducer(k, s)
    BY <2>2 DEF HoldsMapper, HoldsReducer
  <2>4. ~HoldsMapper(n, s)' /\ ~HoldsReducer(n, s)'
    BY <2>2 DEF HoldsMapper, HoldsReducer
  <2> QED
    BY <2>2, <2>3, <2>4, OwnersStay
<1> QED
  BY <1>1, <1>2

LEMMA TakePairOwners ==
    ASSUME TypeInv, JobInv, OwnersKnown, OwnersKnown', TakePair, NEW s \in Slots
    PROVE  /\ MapperOwner(s)' = IF s = mapperSlot THEN counter ELSE MapperOwner(s)
           /\ ReducerOwner(s)' = IF s = cursor THEN counter ELSE ReducerOwner(s)
<1>1. PICK n : n = counter
  OBVIOUS
<1>2. /\ n \in DOMAIN statistic /\ DOMAIN statistic' = DOMAIN statistic
      /\ \A k \in DOMAIN statistic : k # n => /\ statistic'[k] = statistic[k]
                                              /\ HeldMappers(k)' = HeldMappers(k)
                                              /\ HeldReducers(k)' = HeldReducers(k)
  BY <1>1, TakePairHeld
<1>3. /\ HoldsMapper(n, s)' <=> HoldsMapper(n, s) \/ s = mapperSlot
      /\ HoldsReducer(n, s)' <=> HoldsReducer(n, s) \/ s = cursor
  BY <1>1, TakePairHeld DEF HoldsMapper, HoldsReducer
<1>4. \A k \in DOMAIN statistic : k # n => /\ HoldsMapper(k, s)' <=> HoldsMapper(k, s)
                                           /\ HoldsReducer(k, s)' <=> HoldsReducer(k, s)
  BY <1>2 DEF HoldsMapper, HoldsReducer
<1>5. CASE s = mapperSlot
  <2>1. MapperOwner(s)' = n
    BY <1>2, <1>3, <1>5 DEF OwnersKnown
  <2> QED
    BY <1>1, <1>2, <1>3, <1>4, <1>5, <2>1, OwnersStay DEF OwnersKnown
<1>6. CASE s # mapperSlot
  BY <1>1, <1>2, <1>3, <1>4, <1>6, OwnersStay DEF OwnersKnown
<1> QED
  BY <1>5, <1>6

\* The queue thread takes the slot it gives back from its job.
LEMMA FreeMapperOwners ==
    ASSUME TypeInv, JobInv, OwnInv, OwnersKnown, OwnersKnown', FreeMapper,
           NEW slot, slot = statistic[queueJob].mapHostList[queueIndex]
    PROVE  /\ slot \in Slots /\ MapperOwner(slot) = queueJob
           /\ \A s \in Slots :
                  /\ MapperOwner(s)' = IF s = slot THEN NoJob ELSE MapperOwner(s)
                  /\ ReducerOwner(s)' = ReducerOwner(s)
<1>1. PICK j : j = queueJob
  OBVIOUS
<1>2. PICK p : p = queueIndex
  OBVIOUS
<1>3. slot = statistic[j].mapHostList[p]
  BY <1>1, <1>2
<1>4. /\ statistic' = statistic /\ j \in DOMAIN statistic /\ p \in HeldMappers(j)
      /\ HeldMappers(j)' = HeldMappers(j) \ {p}
      /\ \A k \in DOMAIN statistic : k # j => HeldMappers(k)' = HeldMappers(k)
      /\ \A k \in DOMAIN statistic : HeldReducers(k)' = HeldReducers(k)
  BY <1>1, <1>2, FreeMapperHeld
<1>5. slot \in Slots
  <2>1. p \in 1 .. Len(statistic[j].mapHostList) /\ statistic[j].mapHostList \in Seq(Slots)
    BY <1>4, HeldPlaces
  <2> QED
    BY <1>3, <2>1, ElementType
<1>6. HoldsMapper(j, slot) /\ MapperOwner(slot) = j
  BY <1>3, <1>4, <1>5 DEF HoldsMapper, OwnersKnown
<1>7. ASSUME NEW s \in Slots, NEW k \in DOMAIN statistic
      PROVE  /\ s # slot => (HoldsMapper(k, s)' <=> HoldsMapper(k, s))
             /\ HoldsReducer(k, s)' <=> HoldsReducer(k, s)
  BY <1>3, <1>4 DEF HoldsMapper, HoldsReducer
<1>8. ASSUME NEW k \in DOMAIN statistic PROVE ~HoldsMapper(k, slot)'
  <2>1. \A i \in HeldMappers(k) : statistic[k].mapHostList[i] = slot => k = j /\ i = p
    BY <1>3, <1>4 DEF OwnInv, OneHolder
  <2> QED
    BY <1>4, <2>1 DEF HoldsMapper
<1>9. MapperOwner(slot)' = NoJob
  BY <1>4, <1>5, <1>8 DEF OwnersKnown
<1>10. ASSUME NEW s \in Slots
       PROVE  /\ MapperOwner(s)' = IF s = slot THEN NoJob ELSE MapperOwner(s)
              /\ ReducerOwner(s)' = ReducerOwner(s)
  BY <1>4, <1>7, <1>9, OwnersStay
<1> QED
  BY <1>1, <1>2, <1>3, <1>5, <1>6, <1>10

LEMMA FreeReducerOwners ==
    ASSUME TypeInv, JobInv, OwnInv, OwnersKnown, OwnersKnown', FreeReducer,
           NEW slot, slot = statistic[queueJob].reduceHostList[queueIndex]
    PROVE  /\ slot \in Slots /\ ReducerOwner(slot) = queueJob
           /\ \A s \in Slots :
                  /\ ReducerOwner(s)' = IF s = slot THEN NoJob ELSE ReducerOwner(s)
                  /\ MapperOwner(s)' = MapperOwner(s)
<1>1. PICK j : j = queueJob
  OBVIOUS
<1>2. PICK p : p = queueIndex
  OBVIOUS
<1>3. slot = statistic[j].reduceHostList[p]
  BY <1>1, <1>2
<1>4. /\ statistic' = statistic /\ j \in DOMAIN statistic /\ p \in HeldReducers(j)
      /\ HeldReducers(j)' = HeldReducers(j) \ {p}
      /\ \A k \in DOMAIN statistic : k # j => HeldReducers(k)' = HeldReducers(k)
      /\ \A k \in DOMAIN statistic : HeldMappers(k)' = HeldMappers(k)
  BY <1>1, <1>2, FreeReducerHeld
<1>5. slot \in Slots
  <2>1. p \in 1 .. Len(statistic[j].reduceHostList) /\ statistic[j].reduceHostList \in Seq(Slots)
    BY <1>4, HeldPlaces
  <2> QED
    BY <1>3, <2>1, ElementType
<1>6. HoldsReducer(j, slot) /\ ReducerOwner(slot) = j
  BY <1>3, <1>4, <1>5 DEF HoldsReducer, OwnersKnown
<1>7. ASSUME NEW s \in Slots, NEW k \in DOMAIN statistic
      PROVE  /\ s # slot => (HoldsReducer(k, s)' <=> HoldsReducer(k, s))
             /\ HoldsMapper(k, s)' <=> HoldsMapper(k, s)
  BY <1>3, <1>4 DEF HoldsReducer, HoldsMapper
<1>8. ASSUME NEW k \in DOMAIN statistic PROVE ~HoldsReducer(k, slot)'
  <2>1. \A i \in HeldReducers(k) : statistic[k].reduceHostList[i] = slot => k = j /\ i = p
    BY <1>3, <1>4 DEF OwnInv, OneHolder
  <2> QED
    BY <1>4, <2>1 DEF HoldsReducer
<1>9. ReducerOwner(slot)' = NoJob
  BY <1>4, <1>5, <1>8 DEF OwnersKnown
<1>10. ASSUME NEW s \in Slots
       PROVE  /\ ReducerOwner(s)' = IF s = slot THEN NoJob ELSE ReducerOwner(s)
              /\ MapperOwner(s)' = MapperOwner(s)
  BY <1>4, <1>7, <1>9, OwnersStay
<1> QED
  BY <1>1, <1>2, <1>3, <1>5, <1>6, <1>10

-----------------------------------------------------------------------------

\* No test has more jobs than it may have.
JobsAreFew == Len(workQueue) <= MaximumJobsPerTest

LEMMA InitJobsAreFew == Init => JobsAreFew
  BY SchedulerAssumption DEF Init, JobsAreFew

LEMMA StepJobsAreFew == TypeInv /\ JobsAreFew /\ [Next]_vars => JobsAreFew'
<1> SUFFICES ASSUME TypeInv, JobsAreFew, [Next]_vars PROVE JobsAreFew'
  OBVIOUS
<1>1. CASE ProcessLine
  <2>1. workQueue \in Seq(JobType) /\ workFile \in Seq(WorkLine \cup {EmptyLine})
        /\ lineNo \in 1 .. Len(workFile)
    BY <1>1, SchedulerAssumption DEF ProcessLine, TypeInv, TypeOK, MainTypeOK, JobType
  <2>2. Admitted(workFile[lineNo]) => JobOf(workFile[lineNo]) \in JobType
    BY <2>1, JobOfType, ElementType
  <2>3. Len(workQueue') <= Len(workQueue) + 1 /\ Len(workQueue) < MaximumJobsPerTest
        /\ Len(workQueue) \in Nat
    BY <1>1, <2>1, <2>2, AppendType DEF ProcessLine
  <2> QED
    BY <2>1, <2>3, SchedulerAssumption DEF JobsAreFew, TypeInv, TypeOK, MainTypeOK
<1>2. CASE ~ProcessLine
  <2>1. workQueue' = workQueue
    BY <1>2 DEF Next, Main, HandleJobQueue, HandleJobThreads, Finished, vars, mainVars, fileVars,
       ReadWorkFile, CheckQueue, SchedulingDone, JoinReaper, JoinQueue, WriteResults,
       TerminateQueue, TerminateReaper, TerminateJoinReaper, TerminateManager, NextJob,
       FindMapper, FindReducer, Scan, TakePair, StartJob, Job, JobPut, JobExit, QueueGet,
       FreeMapper, MappersFreed, FreeReducer, RecordStatistic, QueueExit, QueueUnchanged,
       ReaperVisit, ReaperPassDone, ReaperUnchanged
  <2> QED
    BY <2>1 DEF JobsAreFew
<1> QED
  BY <1>1, <1>2

\* The phases of the jobs: those that are not taken yet wait.
LEMMA PhaseOf ==
    ASSUME TypeInv, NEW k \in Nat
    PROVE  Phase(k) = IF k \in 1 .. counter
                      THEN CASE jobState[k] = "new"     -> "waiting"
                             [] jobState[k] = "running" -> "running"
                             [] OTHER                   -> "over"
                      ELSE "waiting"
<1>1. DOMAIN jobState = 1 .. counter
      /\ (k \in 1 .. counter => jobState[k] \in {"new", "running", "put", "dead"})
  BY JobDomains
<1> QED
  BY <1>1 DEF Phase

LEMMA SamePhases ==
    ASSUME TypeInv, TypeInv', UNCHANGED jobState
    PROVE  \A k \in Nat : Phase(k)' = Phase(k)
  BY DEF Phase

\* The job that the main thread works on: all before it have got their slots.
LEMMA TurnOfCounter ==
    ASSUME TypeInv, JobInv, JobsAreFew, Searching
    PROVE  /\ counter \in 1 .. MaximumJobsPerTest /\ jobState[counter] = "new"
           /\ Pool!Turn(counter)
<1>1. counter \in 1 .. MaximumJobsPerTest /\ counter \in 1 .. counter
      /\ MaximumJobsPerTest \in Nat
  <2>1. counter \in 1 .. Len(workQueue) /\ Len(workQueue) \in Nat
    BY DEF Searching, TypeInv, TypeOK, MainTypeOK, SearchOK
  <2> QED
    BY <2>1, SchedulerAssumption DEF JobsAreFew
<1>2. jobState[counter] = "new" /\ \A j \in 1 .. counter : jobState[j] = "new" => j = counter
  BY <1>1, JobDomains DEF JobInv, AssemblyOK, Searching
<1>3. Phase(counter) = "waiting"
  BY <1>1, <1>2, PhaseOf
<1>4. ASSUME NEW j \in 1 .. MaximumJobsPerTest, j < counter PROVE Phase(j) # "waiting"
  <2>1. j \in 1 .. counter /\ j # counter /\ jobState[j] # "new"
    BY <1>1, <1>2, <1>4
  <2> QED
    BY <2>1, PhaseOf
<1> QED
  BY <1>1, <1>2, <1>3, <1>4 DEF Pool!Turn

-----------------------------------------------------------------------------
(* Each step is one of SlotPool, or changes nothing that SlotPool sees.     *)

\* What SlotPool sees.
SameOwners ==
    \A s \in Slots : MapperOwner(s)' = MapperOwner(s) /\ ReducerOwner(s)' = ReducerOwner(s)

SameJobPhases == \A k \in 1 .. MaximumJobsPerTest : Phase(k)' = Phase(k)

LEMMA PoolStutters ==
    ASSUME SameOwners, SameJobPhases
    PROVE  UNCHANGED Pool!poolVars
  BY DEF SameOwners, SameJobPhases, Pool!poolVars

LEMMA TakePairPool ==
    ASSUME TypeInv, JobInv, JobsAreFew, OwnersKnown, OwnersKnown', OwnInv, TakePair, TypeInv'
    PROVE  Pool!Acquire(counter, mapperSlot, cursor)
<1>1. mapperSlot \in Slots /\ cursor \in Slots /\ mapperSlot[1] # cursor[1]
      /\ UNCHANGED jobState
  BY DEF TakePair, PairIsUsable, TypeInv, TypeOK, SlotTypeOK, SearchOK
<1>2. Pool!Turn(counter) /\ counter \in 1 .. MaximumJobsPerTest
  BY TurnOfCounter DEF TakePair, Searching
<1>3. MapperOwner(mapperSlot) = NoJob /\ ReducerOwner(cursor) = NoJob
  <2>1. availableMapperList[mapperSlot] # "Busy" /\ availableReducerList[cursor] # "Busy"
    BY DEF TakePair, IsReady, TypeInv, SearchOK
  <2>2. \A k \in DOMAIN statistic : ~HoldsMapper(k, mapperSlot) /\ ~HoldsReducer(k, cursor)
    BY <1>1, <2>1, BusyIffHeldAt DEF OwnInv, HoldsMapper, HoldsReducer
  <2> QED
    BY <1>1, <2>2 DEF OwnersKnown
<1>4. \A s \in Slots : /\ MapperOwner(s)' = IF s = mapperSlot THEN counter ELSE MapperOwner(s)
                       /\ ReducerOwner(s)' = IF s = cursor THEN counter ELSE ReducerOwner(s)
  BY TakePairOwners
<1>5. SameJobPhases
  BY <1>1, SamePhases DEF SameJobPhases
<1> QED
  BY <1>1, <1>2, <1>3, <1>4, <1>5 DEF Pool!Acquire, SameJobPhases

\* A job that gets another state, in a step that touches no slot.
LEMMA NewJobState ==
    ASSUME TypeInv, NEW k \in 1 .. counter, NEW v \in {"running", "put", "dead"},
           jobState' = [jobState EXCEPT ![k] = v]
    PROVE  /\ Phase(k)' = IF v = "running" THEN "running" ELSE "over"
           /\ \A j \in Nat : j # k => Phase(j)' = Phase(j)
<1>1. DOMAIN jobState = 1 .. counter /\ DOMAIN jobState' = 1 .. counter
      /\ jobState'[k] = v /\ \A j \in 1 .. counter : j # k => jobState'[j] = jobState[j]
  BY JobDomains
<1>2. Phase(k)' = IF v = "running" THEN "running" ELSE "over"
  BY <1>1 DEF Phase
<1>3. ASSUME NEW j \in Nat, j # k PROVE Phase(j)' = Phase(j)
  BY <1>1, <1>3 DEF Phase
<1> QED
  BY <1>2, <1>3

LEMMA StartJobPool ==
    ASSUME TypeInv, JobInv, JobsAreFew, OwnersKnown, SameOwners, StartJob
    PROVE  Pool!Begin(counter)
<1>1. /\ Pool!Turn(counter) /\ counter \in 1 .. MaximumJobsPerTest
      /\ jobState[counter] = "new" /\ counter \in 1 .. counter
  BY TurnOfCounter DEF StartJob, Searching
<1>2. jobStats[counter] = counter /\ jobState' = [jobState EXCEPT ![counter] = "running"]
  BY DEF StartJob, JobInv, AssemblesItsOwn
<1>3. PICK k \in 1 .. counter : k = counter
  BY <1>1
<1>4. \E m \in Slots : MapperOwner(m) = counter
  <2>1. 1 \in HeldMappers(counter)
    <3>1. Len(statistic[counter].mapHostList) >= workQueue[counter].hosts
          /\ workQueue[counter].hosts \in Nat \ {0}
      <4>1. workQueue \in Seq(JobType) /\ counter \in 1 .. Len(workQueue)
        BY <1>1 DEF TypeInv, TypeOK, MainTypeOK, JobType
      <4>2. workQueue[counter] \in JobType
        BY <4>1, ElementType
      <4>3. workQueue[counter].hosts \in Nat \ {0}
        BY <4>2, SchedulerAssumption DEF JobType
      <4>4. Len(statistic[counter].mapHostList) \in Nat
        BY <1>1, JobDomains, HeldPlaces
      <4> QED
        BY <4>3, <4>4 DEF StartJob, RequiredHosts
    <3>2. 1 \in DOMAIN statistic[counter].mapHostList
      BY <1>1, <3>1, JobDomains, HeldPlaces
    <3>3. counter # queueJob
      BY <1>1, QueueElements DEF JobInv, QueueOK, NoJob
    <3> QED
      BY <1>1, <3>2, <3>3 DEF HeldMappers, Released
  <2>2. statistic[counter].mapHostList[1] \in Slots
    <3>1. statistic[counter].mapHostList \in Seq(Slots)
          /\ 1 \in 1 .. Len(statistic[counter].mapHostList)
      BY <1>1, <2>1, JobDomains, HeldPlaces
    <3> QED
      BY <3>1, ElementType
  <2>3. HoldsMapper(counter, statistic[counter].mapHostList[1])
    BY <2>1 DEF HoldsMapper
  <2> QED
    BY <1>1, <2>2, <2>3, JobDomains DEF OwnersKnown
<1>5. [j \in 1 .. MaximumJobsPerTest |-> Phase(j)]' =
          [[j \in 1 .. MaximumJobsPerTest |-> Phase(j)] EXCEPT ![counter] = "running"]
  <2>1. Phase(k)' = "running" /\ \A j \in Nat : j # k => Phase(j)' = Phase(j)
    BY <1>2, <1>3, NewJobState
  <2>2. \A j \in 1 .. MaximumJobsPerTest : Phase(j)' = IF j = k THEN "running" ELSE Phase(j)
    BY <1>1, <1>3, <2>1, SchedulerAssumption
  <2> QED
    BY <1>1, <1>3, <2>2
<1>6. UNCHANGED <<[s \in Slots |-> MapperOwner(s)], [s \in Slots |-> ReducerOwner(s)]>>
  BY DEF SameOwners
<1>7. \E m \in Slots : [s \in Slots |-> MapperOwner(s)][m] = counter
  BY <1>4
<1> QED
  BY <1>1, <1>5, <1>6, <1>7, Zenon DEF Pool!Begin

LEMMA JobPool ==
    ASSUME TypeInv, JobInv, JobsAreFew, SameOwners, NEW k \in DOMAIN jobState, Job(k)
    PROVE  k \in 1 .. MaximumJobsPerTest /\ (Pool!End(k) \/ UNCHANGED Pool!poolVars)
<1>1. k \in 1 .. counter /\ k \in 1 .. MaximumJobsPerTest /\ k \in Nat
  <2>1. k \in 1 .. counter /\ counter \in Nat
    BY JobDomains
  <2>2. counter <= Len(workQueue) /\ Len(workQueue) \in Nat
    BY DEF TypeInv, TypeOK, MainTypeOK
  <2> QED
    BY <2>1, <2>2, SchedulerAssumption DEF JobsAreFew
<1>2. CASE JobPut(k)
  <2>1. Phase(k) = "running"
    BY <1>1, <1>2, PhaseOf DEF JobPut
  <2>2. Phase(k)' = "over" /\ \A j \in Nat : j # k => Phase(j)' = Phase(j)
    BY <1>1, <1>2, NewJobState DEF JobPut
  <2>3. [j \in 1 .. MaximumJobsPerTest |-> Phase(j)]' =
            [[j \in 1 .. MaximumJobsPerTest |-> Phase(j)] EXCEPT ![k] = "over"]
    <3>1. \A j \in 1 .. MaximumJobsPerTest : Phase(j)' = IF j = k THEN "over" ELSE Phase(j)
      BY <1>1, <2>2, SchedulerAssumption
    <3> QED
      BY <1>1, <3>1
  <2>4. UNCHANGED <<[s \in Slots |-> MapperOwner(s)], [s \in Slots |-> ReducerOwner(s)]>>
    BY DEF SameOwners
  <2>5. [j \in 1 .. MaximumJobsPerTest |-> Phase(j)][k] = "running"
    BY <1>1, <2>1
  <2> QED
    BY <1>1, <2>3, <2>4, <2>5, Zenon DEF Pool!End
<1>3. CASE JobExit(k)
  <2>1. Phase(k) = "over"
    BY <1>1, <1>3, PhaseOf DEF JobExit
  <2>2. Phase(k)' = "over" /\ \A j \in Nat : j # k => Phase(j)' = Phase(j)
    BY <1>1, <1>3, NewJobState DEF JobExit
  <2>3. SameJobPhases
    BY <2>1, <2>2 DEF SameJobPhases
  <2> QED
    BY <1>1, <2>3, PoolStutters
<1> QED
  BY <1>1, <1>2, <1>3 DEF Job

\* The job whose slots the queue thread gives back is over.
LEMMA QueueJobIsOver ==
    ASSUME TypeInv, JobInv, JobsAreFew, queueJob # NoJob
    PROVE  queueJob \in 1 .. MaximumJobsPerTest /\ Phase(queueJob) = "over"
<1>1. queueJob \in 1 .. counter /\ counter <= Len(workQueue) /\ counter \in Nat
      /\ Len(workQueue) \in Nat
  BY QueueElements DEF TypeInv, TypeOK, MainTypeOK
<1>2. jobState[queueJob] \in {"put", "dead"}
  BY DEF JobInv, QueueOK
<1> QED
  BY <1>1, <1>2, PhaseOf, SchedulerAssumption DEF JobsAreFew

LEMMA FreePool ==
    ASSUME TypeInv, JobInv, JobsAreFew, OwnInv, OwnersKnown, OwnersKnown', TypeInv',
           FreeMapper \/ FreeReducer
    PROVE  \E s \in Slots : Pool!ReleaseMapper(s) \/ Pool!ReleaseReducer(s)
<1>1. queueJob \in 1 .. MaximumJobsPerTest /\ Phase(queueJob) = "over" /\ UNCHANGED jobState
  BY QueueJobIsOver DEF FreeMapper, FreeReducer, QueueUnchanged, TypeInv, TypeOK, ThreadTypeOK
<1>2. SameJobPhases
  BY <1>1, SamePhases DEF SameJobPhases
<1>3. CASE FreeMapper
  <2>1. PICK slot : slot = statistic[queueJob].mapHostList[queueIndex]
    OBVIOUS
  <2>2. /\ slot \in Slots /\ MapperOwner(slot) = queueJob
        /\ \A s \in Slots : /\ MapperOwner(s)' = IF s = slot THEN NoJob ELSE MapperOwner(s)
                            /\ ReducerOwner(s)' = ReducerOwner(s)
    BY <1>3, <2>1, FreeMapperOwners
  <2>3. Pool!ReleaseMapper(slot)
    BY <1>1, <1>2, <2>2 DEF Pool!ReleaseMapper, SameJobPhases
  <2> QED
    BY <2>2, <2>3
<1>4. CASE FreeReducer
  <2>1. PICK slot : slot = statistic[queueJob].reduceHostList[queueIndex]
    OBVIOUS
  <2>2. /\ slot \in Slots /\ ReducerOwner(slot) = queueJob
        /\ \A s \in Slots : /\ ReducerOwner(s)' = IF s = slot THEN NoJob ELSE ReducerOwner(s)
                            /\ MapperOwner(s)' = MapperOwner(s)
    BY <1>4, <2>1, FreeReducerOwners
  <2>3. Pool!ReleaseReducer(slot)
    BY <1>1, <1>2, <2>2 DEF Pool!ReleaseReducer, SameJobPhases
  <2> QED
    BY <2>2, <2>3
<1> QED
  BY <1>3, <1>4

\* A job that is taken from the queue waits, as it did before.
LEMMA NextJobPhases == ASSUME TypeInv, NextJob PROVE SameJobPhases
<1> SUFFICES ASSUME NEW k \in 1 .. MaximumJobsPerTest PROVE Phase(k)' = Phase(k)
  BY DEF SameJobPhases
<1>1. /\ DOMAIN jobState = 1 .. counter /\ DOMAIN jobState' = 1 .. counter + 1
      /\ counter \in Nat /\ jobState'[counter + 1] = "new"
      /\ \A j \in 1 .. counter : jobState'[j] = jobState[j]
  BY JobDomains, NextJobEffect
<1>2. CASE k \in 1 .. counter
  <2>1. k \in DOMAIN jobState /\ k \in DOMAIN jobState' /\ jobState'[k] = jobState[k]
    BY <1>1, <1>2
  <2> QED
    BY <2>1 DEF Phase
<1>3. CASE k \notin 1 .. counter
  BY <1>1, <1>3 DEF Phase
<1> QED
  BY <1>2, <1>3

LEMMA StepPool ==
    TypeInv /\ JobInv /\ OwnInv /\ OwnersKnown /\ JobsAreFew /\ TypeInv' /\ OwnersKnown'
        /\ [Next]_vars => [Pool!PoolNext]_(Pool!poolVars)
<1> SUFFICES ASSUME TypeInv, JobInv, OwnInv, OwnersKnown, JobsAreFew, TypeInv', OwnersKnown',
                    [Next]_vars
             PROVE  Pool!PoolNext \/ UNCHANGED Pool!poolVars
  OBVIOUS
<1>1. CASE Idle \/ QueueGet \/ MappersFreed \/ RecordStatistic
  <2>1. UNCHANGED jobState
    BY <1>1 DEF Idle, QueueGet, MappersFreed, RecordStatistic, QueueUnchanged
  <2>2. SameJobPhases
    BY <2>1, SamePhases DEF SameJobPhases
  <2>3. SameOwners
    BY <1>1, UntouchedOwners DEF SameOwners, SlotsUntouched
  <2> QED
    BY <2>2, <2>3, PoolStutters
<1>2. CASE NextJob
  <2>1. SameOwners
    BY <1>2, UntouchedOwners DEF SameOwners
  <2> QED
    BY <1>2, <2>1, NextJobPhases, PoolStutters
<1>3. CASE TakePair
  <2>1. counter \in 1 .. MaximumJobsPerTest /\ mapperSlot \in Slots /\ cursor \in Slots
    BY <1>3, TurnOfCounter DEF TakePair, Searching, TypeInv, TypeOK, SlotTypeOK, SearchOK
  <2> QED
    BY <1>3, <2>1, TakePairPool DEF Pool!PoolNext
<1>4. CASE StartJob
  <2>1. SameOwners
    BY <1>4, UntouchedOwners DEF SameOwners, SlotsUntouched
  <2>2. counter \in 1 .. MaximumJobsPerTest
    BY <1>4, TurnOfCounter DEF StartJob, Searching
  <2> QED
    BY <1>4, <2>1, <2>2, StartJobPool DEF Pool!PoolNext
<1>5. ASSUME NEW k \in DOMAIN jobState, Job(k)
      PROVE  Pool!PoolNext \/ UNCHANGED Pool!poolVars
  <2>1. SameOwners
    BY <1>5, UntouchedOwners DEF SameOwners, SlotsUntouched
  <2> QED
    BY <1>5, <2>1, JobPool DEF Pool!PoolNext
<1>6. CASE FreeMapper \/ FreeReducer
  BY <1>6, FreePool DEF Pool!PoolNext
<1> QED
  BY <1>1, <1>2, <1>3, <1>4, <1>5, <1>6, StepCases

LEMMA InitPool == Init => Pool!PoolInit
<1> SUFFICES ASSUME Init PROVE Pool!PoolInit
  OBVIOUS
<1>1. \A s \in Slots : MapperOwner(s) = NoJob /\ ReducerOwner(s) = NoJob
  BY DEF Init, MapperOwner, ReducerOwner
<1>2. \A k \in 1 .. MaximumJobsPerTest : Phase(k) = "waiting"
  BY DEF Init, Phase
<1> QED
  BY <1>1, <1>2 DEF Pool!PoolInit

\* Whatever the threads do, what the scheduler does with slots is what SlotPool allows: the
\* jobs are served in the order of the work queue, a pair of slots of different hosts at a
\* time, and only the slots of a job that is over are given back.
THEOREM SchedulerImplementsSlotPool == Spec => ImplementsSlotPool
<1>1. Spec => [](TypeInv /\ JobInv /\ OwnInv)
  BY OwnInvAlways
<1>2. Spec => []JobsAreFew
  BY InitTypeInv, StepTypeInv, InitJobsAreFew, StepJobsAreFew, PTL DEF Spec
<1> QED
  BY <1>1, <1>2, OwnersAreKnown, StepPool, InitPool, PTL DEF Spec, ImplementsSlotPool, Pool!PoolSpec

-----------------------------------------------------------------------------
(* The end of a test: its results are final when they are written, and      *)
(* terminate leaves no thread behind.                                       *)

EndInv == StopOK /\ JoinOK /\ ThreadsOK

LEMMA InitEndInv == Init => EndInv
BY DEF Init, EndInv, StopOK, JoinOK, ThreadsOK

-----------------------------------------------------------------------------
(* The main thread.                                                         *)

\* Its steps between jobs touch neither jobs nor the other threads.
LEMMA GotoEndInv ==
    ASSUME TypeInv, JobInv, EndInv,
           ReadWorkFile \/ ProcessLine \/ CheckQueue \/ SchedulingDone \/ JoinReaper \/ JoinQueue
    PROVE  EndInv'
<1>1. /\ UNCHANGED <<counter, jobState, jobThreads, finishJobQueue, queuePc, reaperPc>>
      /\ DOMAIN jobState = 1 .. counter /\ counter \in Nat
  BY JobDomains DEF ReadWorkFile, ProcessLine, CheckQueue, SchedulingDone, JoinReaper, JoinQueue,
     Goto, jobVars, queueVars, reaperVars
<1>2. CASE ReadWorkFile
  BY <1>1, <1>2 DEF ReadWorkFile, Goto, fileVars, endVars, EndInv, StopOK, JoinOK, ThreadsOK
<1>3. CASE ProcessLine
  BY <1>1, <1>3 DEF ProcessLine, Goto, endVars, EndInv, StopOK, JoinOK, ThreadsOK
<1>4. CASE CheckQueue
  BY <1>1, <1>4 DEF CheckQueue, Goto, fileVars, EndInv, StopOK, JoinOK, ThreadsOK
<1>5. CASE SchedulingDone
  BY <1>1, <1>5 DEF SchedulingDone, Goto, fileVars, EndInv, StopOK, JoinOK, ThreadsOK
<1>6. CASE JoinReaper
  <2>1. mainPc = "joinReaper" /\ jobThreads = <<>>
    BY <1>6 DEF JoinReaper, Goto, EndInv, StopOK
  <2>2. \A k \in 1 .. counter : jobState[k] = "dead"
    BY <1>1, <2>1, JobDomains DEF JobInv, AssemblyOK, EndInv, ThreadsOK
  <2> QED
    BY <1>1, <1>6, <2>2 DEF JoinReaper, Goto, fileVars, EndInv, StopOK, JoinOK, ThreadsOK
<1>7. CASE JoinQueue
  BY <1>1, <1>7 DEF JoinQueue, Goto, fileVars, endVars, EndInv, StopOK, JoinOK, ThreadsOK
<1> QED
  BY <1>2, <1>3, <1>4, <1>5, <1>6, <1>7

\* By terminate() every job is over.
LEMMA TerminateEndInv ==
    ASSUME TypeInv, EndInv,
           \/ WriteResults \/ TerminateQueue \/ TerminateReaper \/ TerminateJoinReaper
           \/ TerminateManager
    PROVE  EndInv'
<1>1. /\ UNCHANGED <<counter, jobState, jobThreads, finishJobQueue, queuePc, reaperPc>>
      /\ UNCHANGED workQueue
  BY DEF WriteResults, TerminateQueue, TerminateReaper, TerminateJoinReaper, TerminateManager,
     Goto, jobVars, queueVars, reaperVars, fileVars
<1>2. /\ mainPc \in {"writeResults", "terminate", "terminateJoinQueue", "terminateReaper",
                     "terminateJoinReaper", "terminateManager"}
      /\ mainPc' \in {"terminate", "terminateJoinQueue", "terminateReaper",
                      "terminateJoinReaper", "terminateManager", "netStop", "crashed"}
  BY DEF WriteResults, TerminateQueue, TerminateReaper, TerminateJoinReaper, TerminateManager,
     Goto, JoinIf
<1>3. ThreadsOK'
  BY <1>1, <1>2 DEF EndInv, ThreadsOK
<1>4. /\ queueRunning' = FALSE \/ queueRunning' = queueRunning
      /\ reaperRunning' = FALSE \/ reaperRunning' = reaperRunning
  BY DEF WriteResults, TerminateQueue, TerminateReaper, TerminateJoinReaper, TerminateManager,
     endVars
<1>5. StopOK'
  BY <1>1, <1>2, <1>4 DEF EndInv, StopOK
<1>6. JoinOK'
  <2>1. CASE WriteResults
    BY <1>1, <2>1 DEF WriteResults, Goto, endVars, EndInv, JoinOK
  <2>2. CASE TerminateQueue
    BY <1>1, <2>2 DEF TerminateQueue, Goto, JoinIf, EndInv, JoinOK
  <2>3. CASE TerminateReaper
    BY <1>1, <2>3 DEF TerminateReaper, Goto, JoinIf, EndInv, JoinOK
  <2>4. CASE TerminateJoinReaper
    BY <1>1, <2>4 DEF TerminateJoinReaper, Goto, endVars, EndInv, JoinOK
  <2>5. CASE TerminateManager
    BY <1>1, <2>5 DEF TerminateManager, Goto, EndInv, JoinOK
  <2> QED
    BY <2>1, <2>2, <2>3, <2>4, <2>5
<1> QED
  BY <1>3, <1>5, <1>6 DEF EndInv

\* The search for slots neither starts nor ends a job.
LEMMA SearchEndInv ==
    ASSUME EndInv, FindMapper \/ FindReducer \/ TakePair PROVE EndInv'
<1>1. /\ UNCHANGED <<endVars, jobState, jobThreads, finishJobQueue, queuePc, reaperPc>>
      /\ mainPc \in {"findMapper", "findReducer"} /\ mainPc' \in {"findMapper", "findReducer"}
  BY DEF FindMapper, FindReducer, TakePair, Scan, jobVars, queueVars, reaperVars
<1> QED
  BY <1>1 DEF EndInv, StopOK, JoinOK, ThreadsOK, endVars

LEMMA NextJobEndInv == ASSUME TypeInv, EndInv, NextJob PROVE EndInv'
<1>1. /\ UNCHANGED <<endVars, jobThreads, finishJobQueue, queuePc, reaperPc>>
      /\ mainPc = "nextJob" /\ mainPc' = "findMapper"
  BY DEF NextJob, queueVars, reaperVars
<1>2. ASSUME NEW k \in DOMAIN jobState', jobState'[k] \in {"running", "put"}
      PROVE  k \in DOMAIN jobState /\ jobState'[k] = jobState[k]
  <2>1. jobState \in Seq({"new", "running", "put", "dead"}) /\ jobState' = Append(jobState, "new")
    BY DEF NextJob, TypeInv, TypeOK, JobTypeOK
  <2> QED
    BY <1>2, <2>1, AppendElements
<1>3. ThreadsOK'
  BY <1>1, <1>2 DEF EndInv, ThreadsOK
<1> QED
  BY <1>1, <1>3 DEF EndInv, StopOK, JoinOK, endVars

\* A job that is started has its thread in the list.
LEMMA StartJobEndInv == ASSUME TypeInv, JobInv, EndInv, StartJob PROVE EndInv'
<1>1. /\ UNCHANGED <<endVars, finishJobQueue, queuePc, reaperPc>>
      /\ mainPc = "findMapper" /\ mainPc' = "nextJob"
  BY DEF StartJob, queueVars, reaperVars
<1>2. reaperPc # "exited"
  BY <1>1 DEF EndInv, StopOK
<1>3. jobStats[counter] = counter /\ counter \in 1 .. counter
  BY <1>1, JobDomains DEF JobInv, AssemblesItsOwn, TypeInv, SearchOK
<1>4. jobState' = [jobState EXCEPT ![counter] = "running"] /\ jobThreads' = Append(jobThreads, counter)
  BY <1>3 DEF StartJob
<1>5. /\ jobThreads \in Seq(1 .. counter)
      /\ DOMAIN jobThreads = 1 .. Len(jobThreads) /\ Len(jobThreads) \in Nat
  BY DEF TypeInv, TypeOK, JobTypeOK
<1>6. /\ DOMAIN jobThreads' = 1 .. Len(jobThreads) + 1 /\ jobThreads'[Len(jobThreads) + 1] = counter
      /\ \A i \in 1 .. Len(jobThreads) : jobThreads'[i] = jobThreads[i]
  BY <1>3, <1>4, <1>5, AppendElements
<1>7. ASSUME NEW k \in DOMAIN jobState', jobState'[k] \in {"running", "put"}
      PROVE  \E i \in DOMAIN jobThreads' : jobThreads'[i] = k
  <2>1. CASE k = counter
    BY <1>5, <1>6, <2>1
  <2>2. CASE k # counter
    <3>1. PICK i \in DOMAIN jobThreads : jobThreads[i] = k
      BY <1>4, <1>7, <2>2, JobDomains DEF EndInv, ThreadsOK
    <3> QED
      BY <1>5, <1>6, <3>1
  <2> QED
    BY <2>1, <2>2
<1>8. ThreadsOK'
  BY <1>1, <1>7 DEF ThreadsOK
<1> QED
  BY <1>1, <1>2, <1>8 DEF EndInv, StopOK, JoinOK, endVars

-----------------------------------------------------------------------------
(* The other threads.                                                       *)

\* A job that is not over keeps the queue thread from ending: it has not been told to.
LEMMA JobEndInv ==
    ASSUME TypeInv, EndInv, NEW j \in DOMAIN jobState, Job(j) PROVE EndInv'
<1>1. /\ UNCHANGED <<mainPc, counter, workQueue, endVars, jobThreads, queuePc, reaperPc>>
      /\ jobState[j] \in {"running", "put"} /\ DOMAIN jobState' = DOMAIN jobState
      /\ \A k \in DOMAIN jobState : k # j => jobState'[k] = jobState[k]
  BY DEF Job, JobPut, JobExit, mainVars, fileVars, queueVars, reaperVars
<1>2. mainPc \in {"nextJob", "findMapper", "findReducer", "joinReaper"}
  BY <1>1 DEF EndInv, ThreadsOK
<1>3. queuePc # "exited"
  BY <1>2 DEF EndInv, StopOK
<1>4. ThreadsOK'
  BY <1>1, <1>2 DEF EndInv, ThreadsOK
<1> QED
  BY <1>1, <1>3, <1>4 DEF EndInv, StopOK, JoinOK, endVars

LEMMA QueueEndInv == ASSUME TypeInv, EndInv, HandleJobQueue PROVE EndInv'
<1>1. /\ UNCHANGED <<mainPc, counter, workQueue, endVars, jobState, jobThreads, reaperPc>>
      /\ queuePc # "exited"
  BY DEF HandleJobQueue, QueueGet, FreeMapper, MappersFreed, FreeReducer, RecordStatistic,
     QueueExit, QueueUnchanged, mainVars, fileVars, reaperVars
<1>2. queuePc' = "exited" => ~queueRunning /\ finishJobQueue' = <<>>
  <2>1. CASE QueueExit
    <3>1. finishJobQueue \in Seq(1 .. counter)
      BY DEF TypeInv, TypeOK, JobTypeOK
    <3> QED
      BY <2>1, <3>1 DEF QueueExit, QueueContinues
  <2>2. CASE ~QueueExit
    BY <1>1, <2>2 DEF HandleJobQueue, QueueGet, FreeMapper, MappersFreed, FreeReducer, RecordStatistic
  <2> QED
    BY <2>1, <2>2
<1>3. ThreadsOK'
  BY <1>1 DEF EndInv, ThreadsOK
<1> QED
  BY <1>1, <1>2, <1>3 DEF EndInv, StopOK, JoinOK, endVars

\* Only the thread of a dead job is deleted, and only an empty list ends the reaper.
LEMMA ReaperEndInv == ASSUME TypeInv, EndInv, HandleJobThreads PROVE EndInv'
<1>1. /\ UNCHANGED <<mainPc, counter, workQueue, endVars, jobState, finishJobQueue, queuePc>>
      /\ reaperPc = "pass"
  BY DEF HandleJobThreads, ReaperVisit, ReaperPassDone, ReaperUnchanged, mainVars, fileVars, queueVars
<1>2. /\ jobThreads \in Seq(1 .. counter) /\ Len(jobThreads) \in Nat
      /\ DOMAIN jobThreads = 1 .. Len(jobThreads) /\ reaperIndex \in Nat \ {0}
  BY DEF TypeInv, TypeOK, JobTypeOK, ThreadTypeOK
<1>3. reaperPc' = "exited" => ~reaperRunning /\ jobThreads' = <<>>
  BY <1>1, <1>2 DEF HandleJobThreads, ReaperVisit, ReaperPassDone, ReaperContinues
<1>4. ASSUME NEW k \in DOMAIN jobState', jobState'[k] \in {"running", "put"}
      PROVE  \E i \in DOMAIN jobThreads' : jobThreads'[i] = k
  <2>1. PICK i \in 1 .. Len(jobThreads) : jobThreads[i] = k
    BY <1>1, <1>2, <1>4 DEF EndInv, ThreadsOK
  <2>2. CASE jobThreads' = jobThreads
    BY <1>2, <2>1, <2>2
  <2>3. CASE jobThreads' # jobThreads
    <3>1. /\ jobState[jobThreads[reaperIndex]] = "dead"
          /\ jobThreads' = [n \in 1 .. Len(jobThreads) - 1 |->
                               jobThreads[IF n < reaperIndex THEN n ELSE n + 1]]
      BY <2>3 DEF HandleJobThreads, ReaperVisit, ReaperPassDone
    <3>2. i # reaperIndex
      BY <1>1, <1>4, <2>1, <3>1
    <3>3. CASE i < reaperIndex
      <4>1. i \in 1 .. Len(jobThreads) - 1
        BY <1>2, <2>1, <2>3, <3>3 DEF HandleJobThreads, ReaperVisit, ReaperPassDone
      <4> QED
        BY <2>1, <3>1, <3>3, <4>1
    <3>4. CASE i > reaperIndex
      <4>1. i - 1 \in 1 .. Len(jobThreads) - 1 /\ ~(i - 1 < reaperIndex) /\ (i - 1) + 1 = i
        BY <1>2, <2>1, <3>4
      <4> QED
        BY <2>1, <3>1, <4>1
    <3> QED
      BY <1>2, <2>1, <3>2, <3>3, <3>4
  <2> QED
    BY <2>2, <2>3
<1>5. ThreadsOK'
  BY <1>1, <1>4 DEF EndInv, ThreadsOK
<1> QED
  BY <1>1, <1>3, <1>5 DEF EndInv, StopOK, JoinOK, endVars

LEMMA StepEndInv == TypeInv /\ JobInv /\ EndInv /\ [Next]_vars => EndInv'
<1> SUFFICES ASSUME TypeInv, JobInv, EndInv, [Next]_vars PROVE EndInv'
  OBVIOUS
<1>1. CASE UNCHANGED vars
  BY <1>1 DEF vars, mainVars, fileVars, jobVars, queueVars, reaperVars, endVars, EndInv, StopOK,
     JoinOK, ThreadsOK
<1>2. CASE Next
  BY <1>1, <1>2, GotoEndInv, TerminateEndInv, SearchEndInv, NextJobEndInv, StartJobEndInv,
     JobEndInv, QueueEndInv, ReaperEndInv DEF Next, Main, Finished
<1> QED
  BY <1>1, <1>2

-----------------------------------------------------------------------------

\* When the results are written every job is dead and recorded and holds no slot.
LEMMA EndInvFinal == TypeInv /\ OwnInv /\ EndInv => ResultsAreFinal
<1> SUFFICES ASSUME TypeInv, OwnInv, EndInv, mainPc = "writeResults"
     PROVE  /\ Len(jobStats) = Len(workQueue)
            /\ jobThreads = <<>>
            /\ \A k \in DOMAIN jobState : jobState[k] = "dead" /\ Released(k)
            /\ \A s \in Slots :
                  availableMapperList[s] = "Ready" /\ availableReducerList[s] = "Ready"
  BY DEF ResultsAreFinal
<1>1. /\ Len(jobStats) = Len(workQueue) /\ jobThreads = <<>>
      /\ queuePc = "exited" /\ finishJobQueue = <<>>
  BY DEF TypeInv, TypeOK, JobTypeOK, EndInv, StopOK, JoinOK, ThreadsOK
<1>2. queueJob = NoJob /\ \A k \in 1 .. counter : k # NoJob
  BY <1>1 DEF TypeInv, TypeOK, ThreadTypeOK, NoJob
<1>3. \A k \in DOMAIN jobState : jobState[k] = "dead" /\ Released(k)
  BY <1>1, <1>2, JobDomains DEF EndInv, ThreadsOK, Released, Queued
<1>4. \A k \in DOMAIN statistic : HeldMappers(k) = {} /\ HeldReducers(k) = {}
  BY <1>3, JobDomains DEF HeldMappers, HeldReducers
<1>5. \A s \in Slots : availableMapperList[s] # "Busy" /\ availableReducerList[s] # "Busy"
  BY <1>4 DEF OwnInv, BusyIffHeld
<1>6. \A s \in Slots : availableMapperList[s] = "Ready" /\ availableReducerList[s] = "Ready"
  BY <1>5 DEF TypeInv, TypeOK, SlotTypeOK
<1> QED
  BY <1>1, <1>3, <1>6

\* A test is over only when it is: at its results every job has run to its end, is recorded
\* and has given its slots back, and terminate() returns with both threads joined and the
\* servers killed, whichever way runTest ended and however the threads interleave.
THEOREM RunsAreComplete == Spec => []RunIsComplete
<1>1. Spec => []EndInv
  BY InitTypeInv, StepTypeInv, InitJobInv, StepJobInv, InitEndInv, StepEndInv, PTL DEF Spec
<1>2. EndInv => TerminateJoinsAll
  BY DEF EndInv, JoinOK, TerminateJoinsAll
<1> QED
  BY <1>1, <1>2, OwnInvAlways, EndInvFinal, PTL DEF RunIsComplete

=============================================================================
