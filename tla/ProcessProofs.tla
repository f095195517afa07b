---------------------------- MODULE ProcessProofs ----------------------------
(***************************************************************************)
(* Proofs about what a program runs and waits for: the clients of a job    *)
(* (MapReduceJob), for every number of mappers and of attempts; programs   *)
(* and what they print (ErrRun), for every size of a pipe and of a read;   *)
(* and the shell of a node (NodeShell), for all private directories.       *)
(***************************************************************************)
EXTENDS MapReduceJob, NodeShell, SequenceTheorems, WellFoundedInduction, TLAPS

(***************************************************************************)
(* The clients of a job (MapReduceJob).                                    *)
(***************************************************************************)

LEMMA AppendOne ==
    ASSUME NEW S, NEW s \in Seq(S), NEW e \in S
    PROVE  /\ Append(s, e) \in Seq(S) /\ Len(s) \in Nat /\ Len(Append(s, e)) = Len(s) + 1
           /\ DOMAIN s = 1 .. Len(s) /\ DOMAIN Append(s, e) = 1 .. Len(s) + 1
           /\ Append(s, e)[Len(s) + 1] = e
           /\ \A i \in 1 .. Len(s) : Append(s, e)[i] = s[i]
  OBVIOUS

\* What is left of a list without one of its places.
LEMMA WithoutElements ==
    ASSUME NEW S, NEW s \in Seq(S), NEW p \in 1 .. Len(s)
    PROVE  /\ Without(s, p) \in Seq(S) /\ Len(s) \in Nat \ {0}
           /\ Len(Without(s, p)) = Len(s) - 1
           /\ DOMAIN s = 1 .. Len(s) /\ DOMAIN Without(s, p) = 1 .. Len(s) - 1
           /\ \A i \in 1 .. Len(s) - 1 : Without(s, p)[i] = s[IF i < p THEN i ELSE i + 1]
<1>1. Len(s) \in Nat /\ DOMAIN s = 1 .. Len(s)
  OBVIOUS
<1>2. Len(s) - 1 \in Nat
  BY <1>1
<1>3. \A i \in 1 .. Len(s) - 1 : s[IF i < p THEN i ELSE i + 1] \in S
  BY <1>1
<1>4. Without(s, p) \in Seq(S)
  BY <1>2, <1>3 DEF Without
<1> QED
  BY <1>1, <1>2, <1>4 DEF Without

\* No value twice in a list.
Injective(list) == \A i, j \in DOMAIN list : list[i] = list[j] => i = j

LEMMA WithoutInjective ==
    ASSUME NEW S, NEW s \in Seq(S), NEW p \in 1 .. Len(s), Injective(s)
    PROVE  /\ Injective(Without(s, p))
           /\ \A m \in S : (\E i \in DOMAIN Without(s, p) : Without(s, p)[i] = m)
                           <=> m # s[p] /\ \E i \in DOMAIN s : s[i] = m
<1> DEFINE shorter == Without(s, p)
<1>0. /\ Len(s) \in Nat /\ DOMAIN s = 1 .. Len(s) /\ DOMAIN shorter = 1 .. Len(s) - 1
      /\ \A i \in 1 .. Len(s) - 1 : shorter[i] = s[IF i < p THEN i ELSE i + 1]
  BY WithoutElements
<1> HIDE DEF shorter
<1>1. Injective(shorter)
  <2> SUFFICES ASSUME NEW i \in 1 .. Len(s) - 1, NEW j \in 1 .. Len(s) - 1,
                      shorter[i] = shorter[j]
               PROVE  i = j
    BY <1>0 DEF Injective
  <2>1. PICK k \in 1 .. Len(s), l \in 1 .. Len(s) :
            k = (IF i < p THEN i ELSE i + 1) /\ l = (IF j < p THEN j ELSE j + 1)
    BY <1>0
  <2>2. shorter[i] = s[k] /\ shorter[j] = s[l]
    BY <1>0, <2>1
  <2>3. k = l
    BY <1>0, <2>1, <2>2 DEF Injective
  <2> QED
    BY <2>1, <2>3
<1>2. ASSUME NEW m \in S, NEW i \in DOMAIN shorter, shorter[i] = m
      PROVE  m # s[p] /\ \E j \in DOMAIN s : s[j] = m
  <2>1. (IF i < p THEN i ELSE i + 1) \in DOMAIN s /\ (IF i < p THEN i ELSE i + 1) # p
    BY <1>0
  <2>2. shorter[i] = s[IF i < p THEN i ELSE i + 1]
    BY <1>0
  <2> QED
    BY <1>0, <1>2, <2>1, <2>2 DEF Injective
<1>3. ASSUME NEW m \in S, NEW j \in DOMAIN s, s[j] = m, m # s[p]
      PROVE  \E i \in DOMAIN shorter : shorter[i] = m
  <2>1. CASE j < p
    <3>1. j \in DOMAIN shorter /\ shorter[j] = s[j]
      BY <1>0, <2>1
    <3> QED
      BY <1>3, <3>1
  <2>2. CASE j > p
    <3>1. j - 1 \in DOMAIN shorter /\ ~ (j - 1 < p) /\ (j - 1) + 1 = j
      BY <1>0, <2>2
    <3>2. shorter[j - 1] = s[j]
      BY <1>0, <3>1
    <3> QED
      BY <1>3, <3>1, <3>2
  <2> QED
    BY <1>3, <2>1, <2>2
<1> QED
  BY <1>1, <1>2, <1>3 DEF shorter

-----------------------------------------------------------------------------
(* The counters.                                                            *)

\* How far the counters have come at each point of the thread.
CountersOK ==
    /\ pc \in {"start", "pass"} => sameCounter < MaxSamePasses
    /\ Len(mappers) <= NumberOfMappers
    /\ pc \in {"attempt", "start", "pass", "succeed"} => retryCount < RetryThreshold
    /\ pc = "giveUp" => retryCount = RetryThreshold
    /\ result = "none" <=> pc # "over"
    /\ result = "gaveUp" => retryCount = RetryThreshold

CountInv == ThreadTypeOK /\ CountersOK

LEMMA InitCountInv == Init => CountInv
  BY JobAssumption DEF Init, CountInv, ThreadTypeOK, CountersOK, Mappers

LEMMA StepCountInv == CountInv /\ [Next]_vars => CountInv'
<1> SUFFICES ASSUME CountInv, [Next]_vars PROVE CountInv'
  OBVIOUS
<1> USE JobAssumption DEF CountInv, ThreadTypeOK, CountersOK, clientVars, passVars, Goto
<1>0. mappers \in Seq(Mappers) /\ Len(mappers) \in Nat /\ DOMAIN mappers = 1 .. Len(mappers)
  OBVIOUS
<1>1. CASE BeginAttempt
  BY <1>1 DEF BeginAttempt
<1>2. CASE StartMapper
  <2>1. Len(mappers) + 1 \in Mappers
    BY <1>0, <1>2 DEF StartMapper, Mappers
  <2>2. mappers' \in Seq(Mappers) /\ Len(mappers') = Len(mappers) + 1
    BY <1>2, <2>1, AppendOne DEF StartMapper
  <2> QED
    BY <1>0, <1>2, <2>2 DEF StartMapper
<1>3. CASE MappersStarted
  BY <1>0, <1>3 DEF MappersStarted
<1>4. CASE PollMapper
  <2>1. mappers[place] \in Mappers /\ place \in 1 .. Len(mappers)
    BY <1>0, <1>4 DEF PollMapper
  <2>2. mappers' \in Seq(Mappers) /\ Len(mappers') <= Len(mappers)
    BY <1>0, <1>4, <2>1, WithoutElements DEF PollMapper, DeletedPlace
  <2>3. reaped' \subseteq Mappers /\ hasNoError' \in BOOLEAN
    BY <1>4, <2>1 DEF PollMapper, NoErrorWith
  <2>4. place' \in 1 .. NumberOfMappers + 1
    BY <1>0, <1>4, <2>1 DEF PollMapper
  <2> QED
    BY <1>0, <1>4, <2>2, <2>3, <2>4 DEF PollMapper
<1>5. CASE EndPass
  <2>1. pc = "pass" /\ UNCHANGED <<process, reaped, mappers, result>>
        /\ mappersLength' \in 0 .. NumberOfMappers /\ place' = 1 /\ passes' \in Nat
    BY <1>0, <1>5 DEF EndPass
  <2>2. sameCounter' \in 0 .. MaxSamePasses
    BY <1>5, <2>1 DEF EndPass, SamePasses, PassIsTheSame
  <2>3. CASE UNCHANGED <<hasNoError, retryCount>> /\ pc' \in {"pass", "succeed"}
             /\ (pc' = "pass" => sameCounter' < MaxSamePasses)
    BY <2>1, <2>2, <2>3
  <2>4. CASE hasNoError' = FALSE /\ retryCount' = retryCount + 1 /\ pc' = "terminateMappers"
    <3>2. ThreadTypeOK'
      <4>1. retryCount' \in 0 .. RetryThreshold
        BY <2>1, <2>4
      <4>2. place' \in 1 .. NumberOfMappers + 1
        BY <2>1
      <4>4. hasNoError' \in BOOLEAN
        BY <2>4, Zenon
      <4>3. /\ process' = process /\ reaped' = reaped /\ mappers' = mappers
            /\ result' = result
        BY <2>1
      <4> QED
        BY <2>1, <2>2, <2>4, <4>1, <4>2, <4>3, <4>4
    <3>3. CountersOK'
      BY <2>1, <2>4
    <3> QED
      BY <3>2, <3>3
  <2>5. CASE pc' = "succeed" /\ UNCHANGED <<hasNoError, retryCount>>
    BY <2>3, <2>5
  <2>6. CASE ~TooSlow(sameCounter') /\ UNCHANGED <<pc, hasNoError, retryCount>>
    <3>1. sameCounter' < MaxSamePasses
      BY <2>2, <2>6 DEF TooSlow
    <3> QED
      BY <2>1, <2>3, <2>6, <3>1
  <2> QED
    BY <1>5, <2>4, <2>5, <2>6 DEF EndPass
<1>6. CASE TerminateMapper
  <2>1. ToKill \subseteq Mappers
    BY <1>0, <1>6 DEF TerminateMapper, ToKill
  <2>2. process' \in [Mappers -> {"none", "running", "succeeded", "failed", "killed"}]
    BY <1>6 DEF TerminateMapper
  <2>3. reaped' \subseteq Mappers /\ place' \in 1 .. NumberOfMappers + 1
    BY <1>0, <1>6, <2>1 DEF TerminateMapper
  <2> QED
    BY <1>6, <2>2, <2>3 DEF TerminateMapper
<1>7. CASE MappersTerminated
  BY <1>7 DEF MappersTerminated
<1>8. CASE Retry
  BY <1>8 DEF Retry
<1>9. CASE GiveUp
  BY <1>9 DEF GiveUp
<1>10. CASE Succeed
  BY <1>10 DEF Succeed
<1>11. CASE \E m \in Mappers : ClientExits(m) \/ ManagerRestarts(m)
  BY <1>11 DEF ClientExits, ManagerRestarts
<1>12. CASE UNCHANGED vars
  BY <1>12 DEF vars
<1> QED
  BY <1>1, <1>2, <1>3, <1>4, <1>5, <1>6, <1>7, <1>8, <1>9, <1>10, <1>11, <1>12
  DEF Next, Run, Over

\* The passes of an attempt are those that were the same and at most one for each client
\* that has left the list; a list only gets shorter.
PassesOK ==
    /\ passes <= sameCounter + (NumberOfMappers - mappersLength)
    /\ pc = "start" => passes = 0 /\ sameCounter = 0
    /\ pc = "pass" => Len(mappers) <= mappersLength

LEMMA InitPassesOK == Init => PassesOK
  BY JobAssumption DEF Init, PassesOK

LEMMA StepPassesOK == CountInv /\ PassesOK /\ [Next]_vars => PassesOK'
<1> SUFFICES ASSUME CountInv, PassesOK, [Next]_vars PROVE PassesOK'
  OBVIOUS
<1>0. /\ mappers \in Seq(Mappers) /\ Len(mappers) \in Nat /\ Len(mappers) <= NumberOfMappers
      /\ DOMAIN mappers = 1 .. Len(mappers) /\ place \in Nat \ {0}
      /\ mappersLength \in 0 .. NumberOfMappers /\ sameCounter \in Nat /\ passes \in Nat
      /\ NumberOfMappers \in Nat
  BY JobAssumption DEF CountInv, ThreadTypeOK, CountersOK
<1>1. CASE BeginAttempt
  BY <1>0, <1>1 DEF BeginAttempt, Goto, PassesOK
<1>2. CASE MappersStarted
  BY <1>0, <1>2 DEF MappersStarted, Goto, PassesOK
<1>3. CASE PollMapper
  <2>1. Len(mappers') <= Len(mappers)
    BY <1>0, <1>3, WithoutElements DEF PollMapper, DeletedPlace
  <2>2. mappers' = mappers \/ mappers' = Without(mappers, place)
    BY <1>3 DEF PollMapper, DeletedPlace
  <2>3. Len(mappers') \in Nat
    BY <1>0, <1>3, <2>2, WithoutElements DEF PollMapper
  <2> QED
    BY <1>0, <1>3, <2>1, <2>3 DEF PollMapper, PassesOK
<1>4. CASE EndPass
  <2>1. /\ passes' \in {passes, passes + 1} /\ mappersLength' = Len(mappers)
        /\ mappers' = mappers /\ pc = "pass"
        /\ sameCounter' = (IF mappersLength = Len(mappers) THEN sameCounter + 1 ELSE sameCounter)
        /\ pc' # "start"
    BY <1>4 DEF EndPass, SamePasses, PassIsTheSame
  <2> DEFINE length == Len(mappers)
  <2>2. length \in Nat /\ length <= NumberOfMappers /\ length <= mappersLength
        /\ passes <= sameCounter + (NumberOfMappers - mappersLength)
    BY <1>0, <2>1 DEF PassesOK
  <2>3. passes' \in {passes, passes + 1} /\ mappersLength' = length /\ Len(mappers') = length
        /\ sameCounter' = (IF mappersLength = length THEN sameCounter + 1 ELSE sameCounter)
    BY <2>1
  <2>4. mappersLength \in Nat /\ sameCounter \in Nat /\ passes \in Nat /\ NumberOfMappers \in Nat
    BY <1>0
  <2> HIDE DEF length
  <2>5. passes' <= sameCounter' + (NumberOfMappers - mappersLength')
        /\ Len(mappers') <= mappersLength'
    BY <2>2, <2>3, <2>4
  <2> QED
    BY <2>1, <2>5 DEF PassesOK
<1>5. CASE StartMapper \/ TerminateMapper \/ MappersTerminated \/ Retry \/ GiveUp \/ Succeed
  <2>1. UNCHANGED <<passes, sameCounter, mappersLength>>
        /\ pc' # "pass" /\ (pc' = "start" => pc = "start")
    BY <1>5 DEF StartMapper, TerminateMapper, MappersTerminated, Retry, GiveUp, Succeed, Goto, passVars
  <2> QED
    BY <2>1 DEF PassesOK
<1>6. CASE UNCHANGED <<pc, passVars>>
  BY <1>6 DEF passVars, PassesOK
<1> QED
  BY <1>1, <1>2, <1>3, <1>4, <1>5, <1>6
  DEF Next, Run, Over, ClientExits, ManagerRestarts, vars

\* What the manager should have been asked for each reducer: nothing up to the last attempt,
\* once for it, and once more when the job has given up.
Due ==
    IF retryCount < RetryThreshold - 1 THEN 0
    ELSE IF retryCount = RetryThreshold - 1
         THEN IF pc \in {"terminateMappers", "retry", "crashed"} \/ RetryThreshold = 1 THEN 0 ELSE 1
         ELSE (IF RetryThreshold > 1 THEN 1 ELSE 0) + (IF result = "gaveUp" THEN 1 ELSE 0)

AskedOK ==
    /\ killList \in [Mappers -> Nat] /\ restarts \in [Mappers -> Nat]
    /\ \A m \in Mappers : Asked(m) = Due

LEMMA InitAskedOK == Init => AskedOK
  BY JobAssumption DEF Init, AskedOK, Asked, Due

LEMMA StepAskedOK == CountInv /\ AskedOK /\ [Next]_vars => AskedOK'
<1> SUFFICES ASSUME CountInv, AskedOK, [Next]_vars PROVE AskedOK'
  OBVIOUS
<1>0. /\ retryCount \in 0 .. RetryThreshold /\ RetryThreshold \in Nat \ {0}
      /\ pc \in {"attempt", "start", "pass", "succeed"} => retryCount < RetryThreshold
      /\ pc = "giveUp" => retryCount = RetryThreshold
      /\ result = "none" <=> pc # "over"
      /\ result = "gaveUp" => retryCount = RetryThreshold
  BY JobAssumption DEF CountInv, ThreadTypeOK, CountersOK
<1>1. ASSUME Due' = Due, UNCHANGED managerVars
      PROVE  AskedOK'
  BY <1>1 DEF AskedOK, Asked, managerVars
<1>2. ASSUME Due' = Due + 1, KillReducers, UNCHANGED restarts
      PROVE  AskedOK'
  <2>1. killList' \in [Mappers -> Nat] /\ \A m \in Mappers : killList'[m] = killList[m] + 1
    BY <1>2 DEF KillReducers, AskedOK
  <2>2. ASSUME NEW m \in Mappers PROVE Asked(m)' = Due'
    <3>1. killList[m] \in Nat /\ restarts[m] \in Nat /\ killList[m] + restarts[m] = Due
      BY DEF AskedOK, Asked
    <3> HIDE DEF Due
    <3> QED
      BY <1>2, <2>1, <3>1 DEF Asked
  <2> QED
    BY <1>2, <2>1, <2>2 DEF AskedOK
<1>3. CASE BeginAttempt \/ StartMapper \/ MappersStarted \/ PollMapper \/ TerminateMapper
           \/ MappersTerminated \/ Succeed
  <2>1. UNCHANGED managerVars /\ retryCount' = retryCount
        /\ (result' = "gaveUp" <=> result = "gaveUp")
    BY <1>0, <1>3 DEF BeginAttempt, StartMapper, MappersStarted, PollMapper, TerminateMapper,
       MappersTerminated, Succeed, Goto
  <2>2. pc' \in {"terminateMappers", "retry", "crashed"} <=> pc \in {"terminateMappers", "retry"}
    BY <1>3 DEF BeginAttempt, StartMapper, MappersStarted, PollMapper, TerminateMapper,
       MappersTerminated, Succeed, Goto
  <2>3. pc # "crashed"
    BY <1>3 DEF BeginAttempt, StartMapper, MappersStarted, PollMapper, TerminateMapper,
       MappersTerminated, Succeed, Goto
  <2> QED
    BY <1>1, <2>1, <2>2, <2>3 DEF Due
<1>4. CASE EndPass
  <2>1. /\ UNCHANGED managerVars /\ result' = result /\ pc = "pass"
        /\ \/ pc' \in {"pass", "succeed"} /\ retryCount' = retryCount
           \/ pc' = "terminateMappers" /\ retryCount' = retryCount + 1
    BY <1>4 DEF EndPass
  <2>2. Due' = Due
    BY <1>0, <2>1 DEF Due
  <2> QED
    BY <1>1, <2>1, <2>2
<1>5. CASE Retry
  <2>1. /\ pc = "retry" /\ pc' = (IF retryCount >= RetryThreshold THEN "giveUp" ELSE "attempt")
        /\ UNCHANGED <<retryCount, restarts, result>>
    BY <1>5 DEF Retry, Goto
  <2>2. CASE RestartsReducers
    <3>1. Due' = Due + 1 /\ KillReducers
      BY <1>0, <1>5, <2>1, <2>2 DEF Due, Retry, RestartsReducers
    <3> QED
      BY <1>2, <2>1, <3>1
  <2>3. CASE ~RestartsReducers
    <3>1. Due' = Due /\ UNCHANGED managerVars
      BY <1>0, <1>5, <2>1, <2>3 DEF Due, Retry, RestartsReducers, managerVars
    <3> QED
      BY <1>1, <3>1
  <2> QED
    BY <2>2, <2>3
<1>6. CASE GiveUp
  <2>1. Due' = Due + 1 /\ KillReducers /\ UNCHANGED restarts
    BY <1>0, <1>6 DEF Due, GiveUp, Goto
  <2> QED
    BY <1>2, <2>1
<1>7. CASE \E m \in Mappers : ManagerRestarts(m)
  <2>1. PICK m \in Mappers : ManagerRestarts(m)
    BY <1>7
  <2>2. /\ Due' = Due /\ killList[m] > 0
        /\ killList' = [killList EXCEPT ![m] = @ - 1] /\ restarts' = [restarts EXCEPT ![m] = @ + 1]
    BY <2>1 DEF ManagerRestarts, Due
  <2>3. killList' \in [Mappers -> Nat] /\ restarts' \in [Mappers -> Nat]
    BY <2>2 DEF AskedOK
  <2>4. ASSUME NEW k \in Mappers PROVE Asked(k)' = Asked(k)
    <3>1. killList[k] \in Nat /\ restarts[k] \in Nat
      BY DEF AskedOK
    <3> QED
      BY <2>2, <3>1 DEF Asked, AskedOK
  <2> QED
    BY <2>2, <2>3, <2>4 DEF AskedOK
<1>8. CASE \E m \in Mappers : ClientExits(m)
  BY <1>1, <1>8 DEF ClientExits, Due
<1>9. CASE UNCHANGED vars
  BY <1>1, <1>9 DEF vars, Due
<1> QED
  BY <1>3, <1>4, <1>5, <1>6, <1>7, <1>8, <1>9 DEF Next, Run, Over

LEMMA CountInvAlways == Spec => [](CountInv /\ PassesOK /\ AskedOK)
  BY InitCountInv, StepCountInv, InitPassesOK, StepPassesOK, InitAskedOK, StepAskedOK, PTL
  DEF Spec

\* Every variable keeps its type: places and attempts stay within their bounds, and no server
\* is asked for more than twice.
THEOREM JobTypeCorrect == Spec => []TypeOK
<1>1. CountInv /\ AskedOK => TypeOK
  <2> SUFFICES ASSUME CountInv, AskedOK
               PROVE  killList \in [Mappers -> 0 .. 2] /\ restarts \in [Mappers -> 0 .. 2]
    BY DEF CountInv, TypeOK
  <2>1. Due \in 0 .. 2
    BY DEF Due
  <2>2. ASSUME NEW m \in Mappers PROVE killList[m] \in 0 .. 2 /\ restarts[m] \in 0 .. 2
    <3>1. killList[m] \in Nat /\ restarts[m] \in Nat /\ killList[m] + restarts[m] = Due
      BY DEF AskedOK, Asked
    <3> QED
      BY <2>1, <3>1
  <2> QED
    BY <2>2 DEF AskedOK
<1> QED
  BY <1>1, CountInvAlways, PTL

\* No restart that the job asks for can hit an attempt before the last one; for the last one
\* every server has been asked for once, and twice when the job has given up (killReducers),
\* whenever the manager gets to its list.
THEOREM ReducersAreAlwaysAskedInTime == Spec => []ReducersAreAskedInTime
<1>1. CountInv /\ AskedOK => ReducersAreAskedInTime
  BY JobAssumption DEF CountInv, CountersOK, ThreadTypeOK, AskedOK, Due, ReducersAreAskedInTime
<1> QED
  BY <1>1, CountInvAlways, PTL

\* An attempt has at most one pass for each client beside those that count towards the time
\* out, for every limit and every number of clients: the count survives the exits.
THEOREM AttemptsAreAlwaysBounded == Spec => []AttemptsAreBounded
<1>1. CountInv /\ PassesOK => AttemptsAreBounded
  BY JobAssumption DEF CountInv, ThreadTypeOK, PassesOK, AttemptsAreBounded
<1> QED
  BY <1>1, CountInvAlways, PTL

-----------------------------------------------------------------------------
(* The clients.                                                             *)

Listed(m) == \E i \in DOMAIN mappers : mappers[i] = m

\* While they are polled, the list holds the clients that were started and not yet waited
\* for, each once, and the error flag tells whether one of the others has failed.
PollingOK ==
    pc \in {"start", "pass"} =>
        /\ Injective(mappers)
        /\ \A m \in Mappers : Listed(m) <=> process[m] # "none" /\ m \notin reaped
        /\ hasNoError => \A m \in reaped : process[m] = "succeeded"

\* The clients are started in order, and none is waited for before all are started.
StartingOK ==
    pc = "start" => /\ reaped = {}
                    /\ \A m \in Mappers : process[m] = "none" <=> m > Len(mappers)

\* While the rest is terminated, the places behind the current one hold the clients that
\* were waited for meanwhile.
TerminatingOK ==
    pc = "terminateMappers" =>
        /\ Injective(mappers)
        /\ \A m \in Mappers : m \in reaped \/ Listed(m)
        /\ \A i \in DOMAIN mappers : mappers[i] \in reaped <=> i < place

\* What holds at every point: all clients are started after "start"; one that was waited
\* for has ended; and between attempts all that were started have been waited for.
ClientsOK ==
    /\ pc \notin {"attempt", "start"} => \A m \in Mappers : process[m] # "none"
    /\ \A m \in reaped : process[m] \notin {"none", "running"}
    /\ pc \in {"attempt", "succeed", "retry", "giveUp", "over"} =>
           \A m \in Mappers : process[m] # "none" => m \in reaped
    /\ pc = "succeed" \/ result = "done" => \A m \in Mappers : process[m] = "succeeded"

ClientInv == PollingOK /\ StartingOK /\ TerminatingOK /\ ClientsOK /\ NeverCrashes

LEMMA InitClientInv == Init => ClientInv
  BY DEF Init, ClientInv, PollingOK, StartingOK, TerminatingOK, ClientsOK, NeverCrashes, Mappers

LEMMA ListFacts ==
    ASSUME CountInv
    PROVE  /\ mappers \in Seq(Mappers) /\ Len(mappers) \in Nat
           /\ DOMAIN mappers = 1 .. Len(mappers)
           /\ \A i \in 1 .. Len(mappers) : mappers[i] \in Mappers
           /\ reaped \subseteq Mappers /\ place \in Nat \ {0}
           /\ \A m \in Mappers : process[m] \in {"none", "running", "succeeded", "failed", "killed"}
           /\ DOMAIN process = Mappers
           /\ result = "none" <=> pc # "over"
  BY DEF CountInv, ThreadTypeOK, CountersOK

LEMMA StartMapperClientInv == CountInv /\ ClientInv /\ StartMapper => ClientInv'
<1> SUFFICES ASSUME CountInv, ClientInv, StartMapper PROVE ClientInv'
  OBVIOUS
<1> DEFINE n == Len(mappers) + 1
<1>1. /\ pc = "start" /\ pc' = "start" /\ reaped' = reaped /\ hasNoError' = hasNoError
      /\ result' = result
      /\ mappers' = Append(mappers, n) /\ process' = [process EXCEPT ![n] = "running"]
  BY DEF StartMapper
<1>2. n \in Mappers
  BY ListFacts, JobAssumption DEF StartMapper, Mappers
<1>3. /\ DOMAIN mappers' = 1 .. n /\ mappers'[n] = n /\ Len(mappers') = n
      /\ \A i \in 1 .. Len(mappers) : mappers'[i] = mappers[i]
  BY <1>1, <1>2, ListFacts, AppendOne
<1>4. process'[n] = "running" /\ \A m \in Mappers : m # n => process'[m] = process[m]
  BY <1>1, <1>2, ListFacts
<1>5. reaped = {} /\ \A m \in Mappers : process[m] = "none" <=> m > Len(mappers)
  BY <1>1 DEF ClientInv, StartingOK
<1>6. Injective(mappers) /\ \A m \in Mappers : Listed(m) <=> process[m] # "none" /\ m \notin reaped
  BY <1>1 DEF ClientInv, PollingOK
<1>7. ~Listed(n)
  BY <1>2, <1>5, <1>6, ListFacts
<1>8. Injective(mappers')
  BY <1>3, <1>6, <1>7, ListFacts DEF Injective, Listed
<1>9. ASSUME NEW m \in Mappers PROVE Listed(m)' <=> m = n \/ Listed(m)
  BY <1>3, ListFacts DEF Listed
<1>10. PollingOK'
  BY <1>1, <1>4, <1>5, <1>6, <1>8, <1>9 DEF PollingOK
<1>11. StartingOK'
  BY <1>1, <1>2, <1>3, <1>4, <1>5, ListFacts DEF StartingOK, Mappers
<1>12. ClientsOK' /\ TerminatingOK' /\ NeverCrashes'
  BY <1>1, <1>5, ListFacts DEF ClientsOK, TerminatingOK, NeverCrashes
<1> QED
  BY <1>10, <1>11, <1>12 DEF ClientInv

LEMMA PollMapperClientInv == CountInv /\ ClientInv /\ PollMapper => ClientInv'
<1> SUFFICES ASSUME CountInv, ClientInv, PollMapper PROVE ClientInv'
  OBVIOUS
<1>1. /\ pc = "pass" /\ pc' = "pass" /\ process' = process /\ result' = result
      /\ place \in 1 .. Len(mappers)
  BY ListFacts DEF PollMapper
<1>2. PICK m \in Mappers : m = mappers[place]
  BY <1>1, ListFacts
<1>3. /\ Injective(mappers)
      /\ \A k \in Mappers : Listed(k) <=> process[k] # "none" /\ k \notin reaped
      /\ hasNoError => \A k \in reaped : process[k] = "succeeded"
  BY <1>1 DEF ClientInv, PollingOK
<1>4. CASE process[m] = "running"
  BY <1>1, <1>2, <1>4 DEF PollMapper, ClientInv, PollingOK, StartingOK, TerminatingOK, ClientsOK,
     NeverCrashes, Listed, Injective
<1>5. CASE process[m] # "running"
  <2>1. /\ reaped' = reaped \cup {m} /\ mappers' = Without(mappers, place)
        /\ hasNoError' => hasNoError /\ process[m] = "succeeded"
    BY <1>2, <1>5 DEF PollMapper, DeletedPlace, NoErrorWith
  <2>2. Injective(mappers')
        /\ \A k \in Mappers : (\E i \in DOMAIN mappers' : mappers'[i] = k) <=> k # m /\ Listed(k)
    BY <1>1, <1>2, <1>3, <2>1, ListFacts, WithoutInjective DEF Listed
  <2>3. \A k \in Mappers : Listed(k)' <=> k # m /\ Listed(k)
    BY <2>2 DEF Listed
  <2>4. PollingOK'
    BY <1>1, <1>3, <2>1, <2>2, <2>3 DEF PollingOK
  <2>5. ClientsOK'
    BY <1>1, <1>5, <2>1 DEF ClientInv, ClientsOK
  <2> QED
    BY <1>1, <2>4, <2>5 DEF ClientInv, StartingOK, TerminatingOK, NeverCrashes
<1> QED
  BY <1>4, <1>5

LEMMA EndPassClientInv == CountInv /\ ClientInv /\ EndPass => ClientInv'
<1> SUFFICES ASSUME CountInv, ClientInv, EndPass PROVE ClientInv'
  OBVIOUS
<1>1. /\ pc = "pass" /\ UNCHANGED <<process, reaped, mappers, result>> /\ place' = 1
  BY DEF EndPass, clientVars
<1>2. /\ Injective(mappers)
      /\ \A k \in Mappers : Listed(k) <=> process[k] # "none" /\ k \notin reaped
      /\ hasNoError => \A k \in reaped : process[k] = "succeeded"
      /\ \A k \in Mappers : process[k] # "none"
  BY <1>1 DEF ClientInv, PollingOK, ClientsOK
<1>3. result = "none" /\ \A m \in reaped : process[m] \notin {"none", "running"}
  BY <1>1, ListFacts DEF ClientInv, ClientsOK
<1>4. CASE mappers = <<>> /\ hasNoError /\ pc' = "succeed"
  <2>1. \A k \in Mappers : ~Listed(k)
    BY <1>4 DEF Listed
  <2>2. \A k \in Mappers : k \in reaped /\ process[k] = "succeeded"
    BY <1>2, <1>4, <2>1
  <2> QED
    BY <1>1, <1>3, <1>4, <2>2 DEF ClientInv, PollingOK, StartingOK, TerminatingOK, ClientsOK,
       NeverCrashes
<1>5. CASE pc' = "terminateMappers"
  <2>1. \A i \in DOMAIN mappers : mappers[i] \notin reaped /\ ~ (i < 1)
    BY <1>2, ListFacts DEF Listed
  <2>2. TerminatingOK'
    BY <1>1, <1>2, <2>1 DEF TerminatingOK, Listed
  <2> QED
    BY <1>1, <1>2, <1>3, <1>5, <2>2 DEF ClientInv, PollingOK, StartingOK, ClientsOK, NeverCrashes
<1>6. CASE UNCHANGED <<pc, hasNoError>>
  BY <1>1, <1>6 DEF ClientInv, PollingOK, StartingOK, TerminatingOK, ClientsOK, NeverCrashes,
     Listed, Injective
<1> QED
  BY <1>4, <1>5, <1>6 DEF EndPass

LEMMA TerminateMapperClientInv == CountInv /\ ClientInv /\ TerminateMapper => ClientInv'
<1> SUFFICES ASSUME CountInv, ClientInv, TerminateMapper PROVE ClientInv'
  OBVIOUS
<1>1. pc = "terminateMappers" /\ place \in 1 .. Len(mappers)
      /\ UNCHANGED <<mappers, result>> /\ place' = place + 1
  BY ListFacts DEF TerminateMapper
<1>2. PICK m \in Mappers : m = mappers[place]
  BY <1>1, ListFacts
<1>3. /\ Injective(mappers)
      /\ \A k \in Mappers : k \in reaped \/ Listed(k)
      /\ \A i \in DOMAIN mappers : mappers[i] \in reaped <=> i < place
      /\ \A k \in Mappers : process[k] # "none"
      /\ \A k \in reaped : process[k] \notin {"none", "running"}
  BY <1>1 DEF ClientInv, TerminatingOK, ClientsOK
<1>4. m \notin reaped
  BY <1>1, <1>2, <1>3, ListFacts
<1>5. pc' = "terminateMappers" /\ reaped' = reaped \cup {m}
      /\ process' = [k \in Mappers |->
                        IF k = m /\ process[k] = "running" THEN "killed" ELSE process[k]]
  BY <1>1, <1>2, <1>4 DEF TerminateMapper, ToKill
<1>6. \A i \in DOMAIN mappers : mappers[i] \in reaped' <=> i < place + 1
  BY <1>1, <1>2, <1>3, <1>5, ListFacts DEF Injective
<1>7. TerminatingOK'
  BY <1>1, <1>3, <1>5, <1>6 DEF TerminatingOK, Listed
<1>8. \A k \in Mappers : process'[k] # "none" /\ (k \in reaped' => process'[k] # "running")
  BY <1>3, <1>5
<1>9. result = "none" /\ reaped' \subseteq Mappers
  BY <1>1, <1>5, ListFacts
<1> QED
  BY <1>1, <1>5, <1>7, <1>8, <1>9 DEF ClientInv, PollingOK, StartingOK, ClientsOK, NeverCrashes

LEMMA StepClientInv == CountInv /\ ClientInv /\ [Next]_vars => ClientInv'
<1> SUFFICES ASSUME CountInv, ClientInv, [Next]_vars PROVE ClientInv'
  OBVIOUS
<1>1. CASE BeginAttempt
  BY <1>1, ListFacts DEF BeginAttempt, Goto, ClientInv, PollingOK, StartingOK, TerminatingOK,
     ClientsOK, NeverCrashes, Listed, Injective, Mappers
<1>2. CASE MappersStarted
  <2>1. pc = "start" /\ pc' = "pass" /\ UNCHANGED <<process, reaped, mappers, hasNoError, result>>
    BY <1>2 DEF MappersStarted, Goto, clientVars
  <2>2. \A m \in Mappers : process[m] # "none"
    BY <1>2, <2>1, ListFacts, JobAssumption DEF MappersStarted, ClientInv, StartingOK, Mappers
  <2> QED
    BY <2>1, <2>2, ListFacts DEF ClientInv, PollingOK, StartingOK, TerminatingOK, ClientsOK,
       NeverCrashes, Listed, Injective
<1>3. CASE \E m \in Mappers : ClientExits(m)
  <2>1. PICK m \in Mappers, status \in {"succeeded", "failed"} :
            /\ process[m] = "running" /\ process' = [process EXCEPT ![m] = status]
            /\ UNCHANGED <<pc, reaped, mappers, place, hasNoError, result>>
    BY <1>3 DEF ClientExits, passVars
  <2>2. m \notin reaped
    BY <2>1 DEF ClientInv, ClientsOK
  <2>3. pc \notin {"attempt", "succeed", "retry", "giveUp", "over"}
    BY <2>1, <2>2 DEF ClientInv, ClientsOK
  <2>4. process'[m] = status /\ \A k \in Mappers : k # m => process'[k] = process[k]
    BY <2>1, ListFacts
  <2>5. \A k \in Mappers : process'[k] = "none" <=> process[k] = "none"
    BY <2>1, <2>4
  <2>6. \A k \in reaped : process'[k] = process[k]
    BY <2>2, <2>4, ListFacts
  <2>7. PollingOK' /\ StartingOK'
    BY <2>1, <2>5, <2>6 DEF ClientInv, PollingOK, StartingOK, Listed, Injective
  <2>8. TerminatingOK' /\ NeverCrashes'
    BY <2>1 DEF ClientInv, TerminatingOK, NeverCrashes, Listed, Injective
  <2>9. ClientsOK'
    BY <2>1, <2>3, <2>5, <2>6, ListFacts DEF ClientInv, ClientsOK
  <2> QED
    BY <2>7, <2>8, <2>9 DEF ClientInv
<1>4. CASE MappersTerminated
  <2>1. pc = "terminateMappers" /\ pc' = "retry" /\ UNCHANGED <<process, reaped, mappers, result>>
        /\ place > Len(mappers)
    BY <1>4 DEF MappersTerminated, Goto, clientVars, passVars
  <2>2. \A i \in DOMAIN mappers : mappers[i] \in reaped
    BY <2>1, ListFacts DEF ClientInv, TerminatingOK
  <2>3. \A m \in Mappers : m \in reaped
    BY <2>1, <2>2 DEF ClientInv, TerminatingOK, Listed
  <2> QED
    BY <2>1, <2>3, ListFacts DEF ClientInv, PollingOK, StartingOK, TerminatingOK, ClientsOK,
       NeverCrashes
<1>5. CASE Retry \/ GiveUp \/ Succeed
  <2>1. /\ UNCHANGED <<process, reaped, mappers>>
        /\ pc \in {"retry", "giveUp", "succeed"} /\ pc' \in {"attempt", "giveUp", "over"}
        /\ result' = "done" => pc = "succeed" \/ result = "done"
    BY <1>5 DEF Retry, GiveUp, Succeed, Goto, clientVars, passVars
  <2> QED
    BY <2>1, ListFacts DEF ClientInv, PollingOK, StartingOK, TerminatingOK, ClientsOK, NeverCrashes
<1>6. CASE UNCHANGED <<pc, clientVars, passVars, hasNoError, result>>
  BY <1>6 DEF clientVars, passVars, ClientInv, PollingOK, StartingOK, TerminatingOK,
     ClientsOK, NeverCrashes, Listed, Injective
<1> QED
  BY <1>1, <1>2, <1>3, <1>4, <1>5, <1>6, StartMapperClientInv, PollMapperClientInv,
     EndPassClientInv, TerminateMapperClientInv DEF Next, Run, Over, ManagerRestarts, vars

LEMMA ClientInvAlways == Spec => [](CountInv /\ ClientInv)
  BY InitCountInv, StepCountInv, InitClientInv, StepClientInv, PTL DEF Spec

\* A job that reports success has sent all its data: the clients of its last attempt all
\* exited with status 0, in whatever order they did and were polled.
THEOREM DoneJobsHaveSucceeded == Spec => []DoneMeansAllSucceeded
<1>1. ClientInv => DoneMeansAllSucceeded
  BY DEF ClientInv, ClientsOK, DoneMeansAllSucceeded
<1> QED
  BY <1>1, ClientInvAlways, PTL

\* When a new attempt begins, and when the statistics are put so that the slots of the job
\* can be given to another, none of its clients is left.
THEOREM AttemptsLeaveNoClient == Spec => []NoClientIsLeft
<1>1. CountInv /\ ClientInv => NoClientIsLeft
  BY ListFacts DEF ClientInv, ClientsOK, NoClientIsLeft
<1> QED
  BY <1>1, ClientInvAlways, PTL

\* The thread never dies of signalling a client that it has waited for.
THEOREM JobNeverCrashes == Spec => []NeverCrashes
<1>1. ClientInv => NeverCrashes
  BY DEF ClientInv
<1> QED
  BY <1>1, ClientInvAlways, PTL

\* Every client is waited for exactly once, for any number of mappers: none is left behind
\* and none is signalled afterwards.
THEOREM ClientsAreAlwaysReaped == Spec => []ClientsAreReaped
  BY JobTypeCorrect, AttemptsLeaveNoClient, JobNeverCrashes, PTL DEF ClientsAreReaped


(***************************************************************************)
(* Running a program (ErrRun).                                             *)
(***************************************************************************)

LEMMA PipesAre == /\ \A f : PipesOf(f) \subseteq Fds /\ PipesOf(f) # {}
                  /\ PipesOf("oldQuietRun") = {"stdout"}
BY DEF PipesOf, Merged, Fds

(* The child. *)
Counted == wrote["stdout"] + wrote["stderr"] + Len(script)

ChildOK ==
    /\ child \in {"none", "running", "exited", "reaped"} /\ script \in Seq(Fds)
    /\ wrote \in [Fds -> Nat] /\ got \in [Fds -> Nat] /\ pipe \in [Fds -> 0 .. PipeSize]
    /\ Counted <= MaxWrites

(* Where the parent is. *)
Polls == {"errRun", "quietRun"}

CallOK ==
    /\ call \in {"none", "errRun", "quietRun", "oldQuietRun", "pexec"}
    /\ where \in {"none", "poll", "handle", "read", "communicate", "wait"}
    /\ call = "none" <=> where = "none"
    /\ call # "none" => child \in {"running", "exited"}
    /\ where = "communicate" => call = "pexec"
    /\ where \in {"poll", "read"} => call \in Polls \union {"oldQuietRun"}
    /\ where = "handle" => call \in Polls /\ ready # {}
    /\ ready \subseteq Fds \X {"in", "hup"} /\ done \subseteq Fds /\ polled \subseteq Fds

ReadOK ==
    /\ have \in 0 .. ReadSize /\ reading \in Fds \union {"none"}
    /\ where = "read" <=> reading \in Fds
    /\ where # "read" => have = 0
    /\ where = "read" /\ call = "oldQuietRun" => reading = "stdout"

(* A pipe at its end has been read to the end, for nobody writes to it any more. *)
Ended(fd) == pipe[fd] = 0 /\ child = "exited"

EndOK ==
    /\ call # "none" => \A fd \in Fds \ PipesOf(call) :
                           pipe[fd] = 0 /\ fd \notin {script[i] : i \in DOMAIN script}
    /\ call \in Polls => /\ \A fd \in done : fd \notin PipesOf(call) \/ Ended(fd)
                         /\ \A fd \in Fds : <<fd, "hup">> \in ready => Ended(fd)
    /\ where = "wait" => \A fd \in Fds : Ended(fd)

(* What the child wrote is in the pipes, in the read under way or with the parent. *)
InHand(fd) == IF reading = fd THEN have ELSE 0

CountOK ==
    /\ call # "none" => \A fd \in Fds : wrote[fd] = got[fd] + pipe[fd] + InHand(fd)
    /\ OutputIsComplete

ErrInv == ChildOK /\ CallOK /\ ReadOK /\ EndOK /\ CountOK

LEMMA InitErrInv == ErrInit => ErrInv
BY PipeAssumption DEF ErrInit, ErrInv, ChildOK, CallOK, ReadOK, EndOK, CountOK, Counted, Empty, Fds,
   Polls, OutputIsComplete

LEMMA ScriptsAre ==
    ASSUME NEW f, NEW s \in Scripts(f)
    PROVE  /\ s \in Seq(Fds) /\ Len(s) <= MaxWrites
           /\ \A i \in DOMAIN s : s[i] \in PipesOf(f)
<1>1. PICK n \in 0 .. MaxWrites : s \in [1 .. n -> PipesOf(f)]
  BY DEF Scripts
<1>2. n \in Nat /\ s \in Seq(PipesOf(f)) /\ Len(s) = n /\ DOMAIN s = 1 .. n
  BY <1>1, PipeAssumption
<1>. QED BY <1>1, <1>2, PipesAre

LEMMA HeadOf ==
    ASSUME NEW S, NEW s \in Seq(S), s # <<>>
    PROVE  /\ Head(s) \in S /\ 1 \in DOMAIN s /\ Head(s) = s[1]
           /\ Tail(s) \in Seq(S) /\ Len(Tail(s)) = Len(s) - 1 /\ Len(s) \in Nat
           /\ \A i \in DOMAIN Tail(s) : i + 1 \in DOMAIN s /\ Tail(s)[i] = s[i + 1]
<1>1. /\ Head(s) \in S /\ Head(s) = s[1] /\ Tail(s) \in Seq(S) /\ Len(s) \in Nat \ {0}
      /\ Len(Tail(s)) = Len(s) - 1 /\ \A i \in 1 .. Len(s) - 1 : Tail(s)[i] = s[i + 1]
  OBVIOUS
<1>2. DOMAIN s = 1 .. Len(s) /\ DOMAIN Tail(s) = 1 .. Len(s) - 1
  BY <1>1
<1>. QED BY <1>1, <1>2

LEMMA ChildErrInv ==
    ASSUME ErrInv, Child
    PROVE  ErrInv'
<1>1. CASE ChildWrite
  <2>. DEFINE fd == Head(script)
  <2>1. /\ child = "running" /\ script # <<>> /\ pipe[fd] < PipeSize
        /\ pipe' = [pipe EXCEPT ![fd] = @ + 1] /\ wrote' = [wrote EXCEPT ![fd] = @ + 1]
        /\ script' = Tail(script) /\ child' = child
        /\ UNCHANGED <<call, where, ready, done, polled, got, reading, have>>
    BY <1>1 DEF ChildWrite, parentVars
  <2>2. /\ fd \in Fds /\ script' \in Seq(Fds) /\ Len(script') = Len(script) - 1
        /\ Len(script) \in Nat
        /\ 1 \in DOMAIN script /\ fd = script[1]
        /\ \A i \in DOMAIN script' : i + 1 \in DOMAIN script /\ script'[i] = script[i + 1]
    BY <2>1, HeadOf DEF ErrInv, ChildOK
  <2>. HIDE DEF fd
  <2>3. wrote \in [Fds -> Nat] /\ pipe \in [Fds -> 0 .. PipeSize] /\ got \in [Fds -> Nat]
    BY DEF ErrInv, ChildOK
  <2>4. /\ wrote' \in [Fds -> Nat] /\ pipe' \in [Fds -> 0 .. PipeSize]
        /\ wrote'[fd] = wrote[fd] + 1 /\ pipe'[fd] = pipe[fd] + 1
        /\ \A e \in Fds \ {fd} : wrote'[e] = wrote[e] /\ pipe'[e] = pipe[e]
    BY <2>1, <2>2, <2>3, PipeAssumption
  <2>5. Counted' = Counted
    <3>1. fd \in {"stdout", "stderr"} /\ {"stdout", "stderr"} \subseteq Fds
      BY <2>2 DEF Fds
    <3>2. wrote["stdout"] \in Nat /\ wrote["stderr"] \in Nat
      BY <2>3, <3>1
    <3>3. CASE fd = "stdout"
      <4>1. wrote'["stdout"] = wrote["stdout"] + 1 /\ wrote'["stderr"] = wrote["stderr"]
        BY <2>4, <3>1, <3>3
      <4>. QED BY <2>2, <3>2, <4>1 DEF Counted
    <3>4. CASE fd = "stderr"
      <4>1. wrote'["stderr"] = wrote["stderr"] + 1 /\ wrote'["stdout"] = wrote["stdout"]
        BY <2>4, <3>1, <3>4
      <4>. QED BY <2>2, <3>2, <4>1 DEF Counted
    <3>. QED BY <3>1, <3>3, <3>4
  <2>6. ChildOK'
    BY <2>1, <2>2, <2>4, <2>5 DEF ErrInv, ChildOK
  <2>7. CallOK' /\ ReadOK'
    BY <2>1 DEF ErrInv, CallOK, ReadOK
  <2>8. EndOK'
    BY <2>1, <2>2, <2>4 DEF ErrInv, EndOK, Ended
  <2>9. CountOK'
    <3>1. ASSUME NEW e \in Fds, call # "none"
          PROVE  wrote'[e] = got[e] + pipe'[e] + InHand(e)
      <4>1. wrote[e] = got[e] + pipe[e] + InHand(e)
        BY <3>1 DEF ErrInv, CountOK
      <4>2. InHand(e) \in Nat /\ wrote[e] \in Nat /\ pipe[e] \in Nat /\ got[e] \in Nat
        <5>1. have \in Nat
          BY PipeAssumption DEF ErrInv, ReadOK
        <5>2. InHand(e) \in Nat
          BY <5>1 DEF InHand
        <5>. QED BY <2>3, <5>2, PipeAssumption
      <4>3. wrote'[e] - wrote[e] = pipe'[e] - pipe[e] /\ wrote'[e] \in Nat /\ pipe'[e] \in Nat
        <5>1. \/ wrote'[e] = wrote[e] + 1 /\ pipe'[e] = pipe[e] + 1
              \/ wrote'[e] = wrote[e] /\ pipe'[e] = pipe[e]
          BY <2>4
        <5>. QED BY <4>2, <5>1
      <4>. HIDE DEF InHand
      <4>. QED BY <4>1, <4>2, <4>3
    <3>2. \A e : InHand(e)' = InHand(e)
      BY <2>1 DEF InHand
    <3>. QED BY <2>1, <3>1, <3>2 DEF CountOK, OutputIsComplete
  <2>. QED BY <2>6, <2>7, <2>8, <2>9 DEF ErrInv
<1>2. CASE ChildExit
  <2>1. child = "running" /\ child' = "exited" /\ UNCHANGED <<parentVars, script, wrote, pipe>>
    BY <1>2 DEF ChildExit
  <2>. QED BY <2>1 DEF parentVars, ErrInv, ChildOK, Counted, CallOK, ReadOK, EndOK, Ended, CountOK,
          InHand, OutputIsComplete
<1>. QED BY <1>1, <1>2 DEF Child

LEMMA StartErrInv ==
    ASSUME ErrInv, StartCall
    PROVE  ErrInv'
<1>1. ASSUME NEW f \in {"errRun", "quietRun", "oldQuietRun", "pexec", "pexecNoWait"},
             call = "none", \E s \in Scripts(f) : script' = s,
             child' = "running", wrote' = Empty, pipe' = Empty, got' = Empty,
             UNCHANGED <<reading, have>>
      PROVE  /\ ChildOK' /\ ReadOK /\ reading \notin Fds
             /\ \A i \in DOMAIN script' : script'[i] \in PipesOf(f)
             /\ \A fd \in Fds : wrote'[fd] = 0 /\ pipe'[fd] = 0 /\ got'[fd] = 0
  <2>1. /\ script' \in Seq(Fds) /\ Len(script') <= MaxWrites /\ Len(script') \in Nat
        /\ \A i \in DOMAIN script' : script'[i] \in PipesOf(f)
    BY <1>1, ScriptsAre
  <2>2. \A fd \in Fds : wrote'[fd] = 0 /\ pipe'[fd] = 0 /\ got'[fd] = 0
    BY <1>1 DEF Empty
  <2>3. wrote' \in [Fds -> Nat] /\ got' \in [Fds -> Nat] /\ pipe' \in [Fds -> 0 .. PipeSize]
    BY <1>1, PipeAssumption DEF Empty
  <2>4. Counted' <= MaxWrites
    BY <2>1, <2>2, PipeAssumption DEF Counted, Fds
  <2>. QED BY <1>1, <2>1, <2>2, <2>3, <2>4 DEF ErrInv, ChildOK, ReadOK, CallOK
<1>2. ASSUME NEW f \in {"errRun", "quietRun", "oldQuietRun", "pexec"}, NEW first, Start(f, first),
             first = IF f = "pexec" THEN "communicate" ELSE "poll"
      PROVE  ErrInv'
  <2>1. /\ call = "none" /\ call' = f /\ where' = first /\ child' = "running"
        /\ done' = Fds \ PipesOf(f) /\ polled' = PipesOf(f) /\ ready' = {}
        /\ UNCHANGED <<reading, have>>
        /\ \E s \in Scripts(f) : script' = s
        /\ wrote' = Empty /\ pipe' = Empty /\ got' = Empty
    BY <1>2 DEF Start
  <2>2. /\ ChildOK' /\ ReadOK /\ reading \notin Fds
        /\ \A i \in DOMAIN script' : script'[i] \in PipesOf(f)
        /\ \A fd \in Fds : wrote'[fd] = 0 /\ pipe'[fd] = 0 /\ got'[fd] = 0
    BY <1>1, <2>1
  <2>3. where = "none"
    BY <2>1 DEF ErrInv, CallOK
  <2>4. CallOK'
    BY <1>2, <2>1, PipesAre DEF CallOK, Polls
  <2>5. ReadOK'
    BY <1>2, <2>1, <2>2, <2>3 DEF ReadOK
  <2>6. EndOK'
    BY <1>2, <2>1, <2>2 DEF EndOK
  <2>7. CountOK'
    BY <2>1, <2>2 DEF CountOK, InHand, OutputIsComplete, ReadOK
  <2>. QED BY <2>2, <2>4, <2>5, <2>6, <2>7 DEF ErrInv
<1>3. CASE errRun \/ quietRun \/ oldQuietRun \/ pexec
  BY <1>2, <1>3 DEF errRun, quietRun, oldQuietRun, pexec
<1>4. CASE pexecNoWait
  <2>1. /\ call = "none" /\ child' = "running"
        /\ UNCHANGED <<call, where, ready, done, polled, reading, have>>
        /\ \E s \in Scripts("pexecNoWait") : script' = s
        /\ wrote' = Empty /\ pipe' = Empty /\ got' = Empty
    BY <1>4 DEF pexecNoWait
  <2>2. ChildOK' /\ ReadOK
    BY <1>1, <2>1
  <2>3. CallOK' /\ ReadOK' /\ EndOK' /\ CountOK'
    BY <2>1, <2>2 DEF ErrInv, CallOK, ReadOK, EndOK, CountOK, OutputIsComplete, Polls
  <2>. QED BY <2>2, <2>3 DEF ErrInv
<1>. QED BY <1>3, <1>4 DEF StartCall

(* What a poll says of a pipe, and how a read ends. *)
LEMMA EventsAre ==
    ASSUME NEW S
    PROVE  /\ Events(S) \subseteq S \X {"in", "hup"}
           /\ \A fd : <<fd, "hup">> \in Events(S) => Ended(fd)
BY DEF Events, Ended

LEMMA ReadEndsIs ==
    ASSUME ReadEnds, have # ReadSize
    PROVE  Ended(reading)
<1>1. <<reading, "hup">> \in Events({reading})
  BY DEF ReadEnds
<1>. QED BY <1>1, EventsAre

LEMMA PollErrInv ==
    ASSUME ErrInv, Poll \/ BeginRead \/ HangUp \/ OldPoll
    PROVE  ErrInv'
<1>1. CASE Poll
  <2>1. /\ call \in Polls /\ where = "poll" /\ where' = "handle" /\ ready' = Events(polled)
        /\ ready' # {}
        /\ UNCHANGED <<call, done, polled, got, reading, have, script, wrote, pipe, child>>
    BY <1>1 DEF Poll, Polls, childVars
  <2>2. /\ ready' \subseteq Fds \X {"in", "hup"}
        /\ \A fd \in Fds : <<fd, "hup">> \in ready' => Ended(fd)
    BY <2>1, EventsAre DEF ErrInv, CallOK
  <2>3. ChildOK' /\ CountOK'
    BY <2>1 DEF ErrInv, ChildOK, Counted, CountOK, InHand, OutputIsComplete
  <2>4. CallOK' /\ ReadOK'
    BY <2>1, <2>2 DEF ErrInv, CallOK, ReadOK
  <2>5. EndOK'
    BY <2>1, <2>2 DEF ErrInv, EndOK, Ended
  <2>. QED BY <2>3, <2>4, <2>5 DEF ErrInv
<1>2. CASE BeginRead
  <2>1. PICK fd \in Fds : <<fd, "in">> \in ready /\ reading' = fd /\ ready' = ready \ {<<fd, "in">>}
    BY <1>2 DEF BeginRead
  <2>2. /\ call \in Polls /\ where = "handle" /\ where' = "read"
        /\ UNCHANGED <<call, done, polled, got, have, script, wrote, pipe, child>>
    BY <1>2 DEF BeginRead, Polls, childVars
  <2>3. have = 0 /\ call # "oldQuietRun" /\ reading \notin Fds
    BY <2>2 DEF ErrInv, ReadOK, Polls
  <2>4. ChildOK' /\ CountOK'
    BY <2>1, <2>2, <2>3 DEF ErrInv, ChildOK, Counted, CountOK, InHand, OutputIsComplete
  <2>5. CallOK' /\ ReadOK'
    BY <2>1, <2>2, <2>3 DEF ErrInv, CallOK, ReadOK
  <2>6. EndOK'
    BY <2>1, <2>2 DEF ErrInv, EndOK, Ended
  <2>. QED BY <2>4, <2>5, <2>6 DEF ErrInv
<1>3. CASE HangUp
  <2>1. PICK fd \in Fds : /\ <<fd, "hup">> \in ready /\ done' = done \union {fd}
                          /\ polled' = polled \ {fd} /\ ready' = ready \ {<<fd, "hup">>}
    BY <1>3 DEF HangUp
  <2>2. /\ call \in Polls /\ where = "handle" /\ Handled(ready', done')
        /\ UNCHANGED <<call, got, reading, have, script, wrote, pipe, child>>
    BY <1>3 DEF HangUp, Polls, childVars
  <2>3. Ended(fd) /\ ready' \subseteq ready /\ call # "none"
    BY <2>1, <2>2 DEF ErrInv, EndOK, Polls
  <2>4. \A e \in done' : e \notin PipesOf(call) \/ Ended(e)
    BY <2>1, <2>2, <2>3 DEF ErrInv, EndOK
  <2>5. where' = "wait" => \A e \in Fds : Ended(e)
    <3>1. where' = "wait" => done' = Fds
      BY <2>2 DEF Handled, AllDone
    <3>. QED BY <2>3, <2>4, <3>1 DEF ErrInv, EndOK, Ended
  <2>6. where' \in {"handle", "wait", "poll"} /\ (where' = "handle" => ready' # {})
    BY <2>2 DEF Handled
  <2>7. ChildOK' /\ CountOK'
    BY <2>2 DEF ErrInv, ChildOK, Counted, CountOK, InHand, OutputIsComplete
  <2>8. CallOK' /\ ReadOK'
    BY <2>1, <2>2, <2>3, <2>6 DEF ErrInv, CallOK, ReadOK
  <2>9. EndOK'
    BY <2>2, <2>3, <2>4, <2>5 DEF ErrInv, EndOK, Ended
  <2>. QED BY <2>7, <2>8, <2>9 DEF ErrInv
<1>4. CASE OldPoll
  <2>1. /\ call = "oldQuietRun" /\ where = "poll" /\ where' = "read" /\ reading' = "stdout"
        /\ UNCHANGED <<call, ready, done, polled, got, have, script, wrote, pipe, child>>
    BY <1>4 DEF OldPoll, childVars
  <2>2. have = 0 /\ reading \notin Fds
    BY <2>1 DEF ErrInv, ReadOK
  <2>. QED BY <2>1, <2>2 DEF ErrInv, ChildOK, Counted, CallOK, ReadOK, EndOK, Ended, CountOK,
              InHand,
          OutputIsComplete, Polls, Fds
<1>. QED BY <1>1, <1>2, <1>3, <1>4

LEMMA ReadErrInv ==
    ASSUME ErrInv, ReadSome \/ ReadReturns \/ OldReadReturns
    PROVE  ErrInv'
<1>0. /\ wrote \in [Fds -> Nat] /\ got \in [Fds -> Nat] /\ pipe \in [Fds -> 0 .. PipeSize]
      /\ have \in 0 .. ReadSize /\ PipeSize \in Nat \ {0} /\ ReadSize \in Nat \ {0}
  BY PipeAssumption DEF ErrInv, ChildOK, ReadOK
<1>f. where = "read" => /\ reading \in Fds /\ call # "none" /\ child \in {"running", "exited"}
                        /\ \A fd \in Fds : wrote[fd] = got[fd] + pipe[fd] + InHand(fd)
  BY DEF ErrInv, CallOK, ReadOK, CountOK
<1>1. CASE ReadSome
  <2>. DEFINE n == IF pipe[reading] < ReadSize - have THEN pipe[reading] ELSE ReadSize - have
  <2>1. /\ where = "read" /\ n > 0 /\ pipe' = [pipe EXCEPT ![reading] = @ - n] /\ have' = have + n
        /\ UNCHANGED <<call, where, ready, done, polled, got, reading, script, wrote, child>>
    BY <1>1 DEF ReadSome
  <2>2. reading \in Fds
    BY <1>f, <2>1
  <2>3. n \in Nat /\ n <= pipe[reading] /\ have + n <= ReadSize
    BY <1>0, <2>1, <2>2
  <2>. HIDE DEF n
  <2>4. /\ pipe' \in [Fds -> 0 .. PipeSize] /\ pipe'[reading] = pipe[reading] - n
        /\ \A fd \in Fds \ {reading} : pipe'[fd] = pipe[fd]
        /\ have' \in 0 .. ReadSize
    BY <1>0, <2>1, <2>2, <2>3
  <2>5. \A fd \in Fds : pipe[fd] = 0 => pipe'[fd] = 0
    BY <1>0, <2>1, <2>2, <2>3, <2>4
  <2>6. \A fd \in Fds : wrote[fd] = got[fd] + pipe'[fd] + (IF reading = fd THEN have' ELSE 0)
    BY <1>0, <1>f, <2>1, <2>2, <2>3, <2>4 DEF InHand
  <2>7. ChildOK'
    BY <2>1, <2>4 DEF ErrInv, ChildOK, Counted
  <2>8. CallOK' /\ ReadOK'
    BY <2>1, <2>4 DEF ErrInv, CallOK, ReadOK
  <2>9. EndOK'
    BY <2>1, <2>5, PipesAre DEF ErrInv, EndOK, Ended, CallOK
  <2>10. CountOK'
    BY <1>f, <2>1, <2>6 DEF CountOK, InHand, OutputIsComplete
  <2>. QED BY <2>7, <2>8, <2>9, <2>10 DEF ErrInv
<1>2. CASE ReadReturns \/ OldReadReturns
  <2>1. /\ where = "read" /\ ReadEnds /\ got' = [got EXCEPT ![reading] = @ + have]
        /\ have' = 0 /\ reading' = "none"
        /\ UNCHANGED <<call, ready, polled, script, wrote, pipe, child>>
    BY <1>2, <1>f DEF ReadReturns, OldReadReturns, ReadEnds, childVars, ErrInv, ReadOK
  <2>2. /\ got' \in [Fds -> Nat] /\ got'[reading] = got[reading] + have
        /\ \A fd \in Fds \ {reading} : got'[fd] = got[fd]
    BY <1>0, <1>f, <2>1
  <2>3. \A fd \in Fds : wrote[fd] = got'[fd] + pipe[fd] + 0
    BY <1>0, <1>f, <2>1, <2>2 DEF InHand
  <2>4. "none" \notin Fds
    BY DEF Fds
  <2>5. ChildOK' /\ CountOK'
    BY <1>f, <2>1, <2>2, <2>3, <2>4 DEF ErrInv, ChildOK, Counted, CountOK, InHand, OutputIsComplete
  <2>6. have = 0 => Ended(reading)
    BY <1>0, <2>1, ReadEndsIs
  <2>7. CASE ReadReturns
    <3>1. /\ call \in Polls /\ done' = (IF have = 0 THEN done \union {reading} ELSE done)
          /\ Handled(ready, done')
      BY <2>7 DEF ReadReturns, Polls
    <3>2. \A e \in done' : e \notin PipesOf(call) \/ Ended(e)
      BY <2>6, <3>1 DEF ErrInv, EndOK
    <3>3. where' = "wait" => \A e \in Fds : Ended(e)
      <4>1. where' = "wait" => done' = Fds
        BY <3>1 DEF Handled, AllDone
      <4>2. \E e \in PipesOf(call) : e \in Fds
        BY PipesAre
      <4>. QED BY <1>f, <2>1, <3>2, <4>1, <4>2 DEF ErrInv, EndOK, Ended
    <3>4. where' \in {"handle", "wait", "poll"} /\ (where' = "handle" => ready # {})
      BY <3>1 DEF Handled
    <3>5. done' \subseteq Fds
      BY <1>f, <2>1, <3>1 DEF ErrInv, CallOK
    <3>6. CallOK' /\ ReadOK'
      BY <1>0, <1>f, <2>1, <2>4, <3>1, <3>4, <3>5 DEF ErrInv, CallOK, ReadOK
    <3>7. EndOK'
      BY <2>1, <3>1, <3>2, <3>3 DEF ErrInv, EndOK, Ended
    <3>. QED BY <2>5, <3>6, <3>7 DEF ErrInv
  <2>8. CASE OldReadReturns
    <3>1. /\ call = "oldQuietRun" /\ where' = (IF Returned THEN "wait" ELSE "poll") /\ done' = done
      BY <2>8 DEF OldReadReturns
    <3>2. reading = "stdout"
      BY <2>1, <3>1 DEF ErrInv, ReadOK
    <3>3. where' = "wait" => \A e \in Fds : Ended(e)
      BY <1>f, <2>1, <2>6, <3>1, <3>2, PipesAre DEF Returned, ErrInv, EndOK, Ended
    <3>4. CallOK' /\ ReadOK'
      BY <1>0, <2>1, <2>4, <3>1 DEF ErrInv, CallOK, ReadOK
    <3>5. EndOK'
      BY <2>1, <3>1, <3>3 DEF ErrInv, EndOK, Ended, Polls
    <3>. QED BY <2>5, <3>4, <3>5 DEF ErrInv
  <2>. QED BY <1>2, <2>7, <2>8
<1>. QED BY <1>1, <1>2

LEMMA EndErrInv ==
    ASSUME ErrInv, Communicate \/ Wait
    PROVE  ErrInv'
<1>0. /\ wrote \in [Fds -> Nat] /\ got \in [Fds -> Nat] /\ pipe \in [Fds -> 0 .. PipeSize]
  BY DEF ErrInv, ChildOK
<1>1. CASE Communicate
  <2>1. /\ where = "communicate"
        /\ UNCHANGED <<call, ready, done, polled, reading, have, script, wrote, child>>
    BY <1>1 DEF Communicate
  <2>2. call = "pexec" /\ reading \notin Fds /\ child \in {"running", "exited"} /\ have = 0
    BY <2>1 DEF ErrInv, CallOK, ReadOK
  <2>3. CASE \E fd \in Fds : /\ got' = [got EXCEPT ![fd] = @ + pipe[fd]]
                             /\ pipe' = [pipe EXCEPT ![fd] = 0]
                             /\ where' = where
    <3>1. PICK fd \in Fds : /\ got' = [got EXCEPT ![fd] = @ + pipe[fd]]
                            /\ pipe' = [pipe EXCEPT ![fd] = 0] /\ where' = where
      BY <2>3
    <3>2. /\ got' \in [Fds -> Nat] /\ pipe' \in [Fds -> 0 .. PipeSize]
          /\ got'[fd] = got[fd] + pipe[fd] /\ pipe'[fd] = 0
          /\ \A e \in Fds \ {fd} : got'[e] = got[e] /\ pipe'[e] = pipe[e]
      BY <1>0, <3>1, PipeAssumption
    <3>3. \A e \in Fds : wrote[e] = got[e] + pipe[e] + InHand(e)
      BY <2>2 DEF ErrInv, CountOK
    <3>4. \A e \in Fds : wrote[e] = got'[e] + pipe'[e] + InHand(e)
      BY <1>0, <2>2, <3>2, <3>3 DEF InHand
    <3>5. ChildOK' /\ CountOK'
      BY <2>1, <2>2, <3>2, <3>4 DEF ErrInv, ChildOK, Counted, CountOK, InHand, OutputIsComplete
    <3>6. CallOK' /\ ReadOK' /\ EndOK'
      BY <2>1, <2>2, <3>1, <3>2 DEF ErrInv, CallOK, ReadOK, EndOK, Ended, Polls
    <3>. QED BY <3>5, <3>6 DEF ErrInv
  <2>4. CASE child = "exited" /\ pipe = Empty /\ where' = "wait" /\ UNCHANGED <<got, pipe>>
    <3>1. \A fd \in Fds : Ended(fd)
      BY <2>4 DEF Ended, Empty
    <3>. QED BY <2>1, <2>2, <2>4, <3>1 DEF ErrInv, ChildOK, Counted, CallOK, ReadOK, EndOK,
            Ended, CountOK,
            InHand, OutputIsComplete, Polls
  <2>. QED BY <1>1, <2>3, <2>4 DEF Communicate
<1>2. CASE Wait
  <2>1. /\ where = "wait" /\ child' = "reaped" /\ call' = "none" /\ where' = "none"
        /\ ready' = {} /\ done' = {} /\ polled' = {}
        /\ UNCHANGED <<got, reading, have, script, wrote, pipe>>
    BY <1>2 DEF Wait
  <2>2. call # "none" /\ reading \notin Fds /\ have = 0 /\ \A fd \in Fds : pipe[fd] = 0
    BY <2>1 DEF ErrInv, CallOK, ReadOK, EndOK, Ended
  <2>3. \A fd \in Fds : wrote[fd] = got[fd]
    BY <1>0, <2>2 DEF ErrInv, CountOK, InHand
  <2>4. got = wrote /\ pipe = Empty
    <3>1. /\ got = [fd \in Fds |-> got[fd]]
          /\ wrote = [fd \in Fds |-> wrote[fd]]
          /\ pipe = [fd \in Fds |-> pipe[fd]]
      BY <1>0
    <3>2. [fd \in Fds |-> got[fd]] = [fd \in Fds |-> wrote[fd]]
      BY <2>3
    <3>3. [fd \in Fds |-> pipe[fd]] = [fd \in Fds |-> 0]
      BY <2>2
    <3>. QED BY <3>1, <3>2, <3>3 DEF Empty
  <2>5. ChildOK' /\ CountOK'
    BY <2>1, <2>4 DEF ErrInv, ChildOK, Counted, CountOK, OutputIsComplete, Empty
  <2>6. CallOK' /\ ReadOK' /\ EndOK'
    BY <2>1, <2>2 DEF ErrInv, CallOK, ReadOK, EndOK, Polls
  <2>. QED BY <2>5, <2>6 DEF ErrInv
<1>. QED BY <1>1, <1>2

LEMMA StepErrInv ==
    ASSUME ErrInv, StartCall \/ Parent \/ Child \/ UNCHANGED errVars
    PROVE  ErrInv'
<1>1. CASE UNCHANGED errVars
  BY <1>1 DEF errVars, parentVars, childVars, ErrInv, ChildOK, Counted, CallOK, ReadOK, EndOK,
     Ended, CountOK,
     InHand, OutputIsComplete
<1>. QED BY <1>1, ChildErrInv, StartErrInv, PollErrInv, ReadErrInv, EndErrInv DEF Parent

LEMMA ErrInvTypes == ErrInv => ErrTypeOK
<1>. SUFFICES ASSUME ErrInv PROVE ErrTypeOK
  OBVIOUS
<1>1. \A fd \in Fds : wrote[fd] \in 0 .. MaxWrites
  <2>1. /\ wrote["stdout"] \in Nat /\ wrote["stderr"] \in Nat /\ Len(script) \in Nat
    BY DEF ErrInv, ChildOK, Fds
  <2>. QED BY <2>1, PipeAssumption DEF ErrInv, ChildOK, Counted, Fds
<1>. QED BY <1>1 DEF ErrInv, ChildOK, CallOK, ReadOK, ErrTypeOK

(* What NodeShell's steps are to ErrRun. *)
LEMMA ShellNextErr == [ShellNext]_allVars => StartCall \/ Parent \/ Child \/ UNCHANGED errVars
BY DEF ShellNext, CallShell, CallProgram, Thread, allVars

LEMMA ErrInvAlways == ShellSpec => []ErrInv
<1>1. ShellInit => ErrInv
  BY InitErrInv DEF ShellInit
<1>2. ErrInv /\ [ShellNext]_allVars => ErrInv'
  BY ShellNextErr, StepErrInv
<1>. QED BY <1>1, <1>2, PTL DEF ShellSpec

\* A call that has returned has waited for its child and returns all the child wrote, for
\* every size of the pipes and of a read, whatever a child may write (errRun, quietRun,
\* oldQuietRun, pexec).
THEOREM OutputIsAlwaysComplete == ShellSpec => []OutputIsComplete
<1>1. ErrInv => OutputIsComplete
  BY DEF ErrInv, CountOK
<1>. QED BY <1>1, ErrInvAlways, PTL

(* Sequences. *)
LEMMA ConcatElements ==
    ASSUME NEW T, NEW c \in Seq(T), NEW d \in Seq(T)
    PROVE  /\ c \o d \in Seq(T) /\ Len(c) \in Nat /\ Len(d) \in Nat /\ Len(c \o d) = Len(c) + Len(d)
           /\ DOMAIN c = 1 .. Len(c) /\ DOMAIN d = 1 .. Len(d)
           /\ DOMAIN (c \o d) = 1 .. Len(c) + Len(d)
           /\ \A i \in 1 .. Len(c) : (c \o d)[i] = c[i]
           /\ \A i \in 1 .. Len(d) : (c \o d)[Len(c) + i] = d[i]
           /\ \A i \in 1 .. Len(c) + Len(d) :
                 \/ i \in 1 .. Len(c)
                 \/ i - Len(c) \in 1 .. Len(d) /\ (c \o d)[i] = d[i - Len(c)]
<1>1. /\ c \o d \in Seq(T) /\ Len(c) \in Nat /\ Len(d) \in Nat /\ Len(c \o d) = Len(c) + Len(d)
      /\ DOMAIN c = 1 .. Len(c) /\ DOMAIN d = 1 .. Len(d)
      /\ \A i \in 1 .. Len(c) + Len(d) : (c \o d)[i] = IF i <= Len(c) THEN c[i] ELSE d[i - Len(c)]
  OBVIOUS
<1>2. DOMAIN (c \o d) = 1 .. Len(c) + Len(d)
  BY <1>1
<1>. QED BY <1>1, <1>2

LEMMA LeastNumber ==
    ASSUME NEW S \in SUBSET Nat, S # {}
    PROVE  \E n \in S : \A m \in S : n <= m
<1>1. PICK n \in S : \A m \in S : <<m, n>> \notin OpToRel(<, Nat)
  BY WFMin, NatLessThanWellFounded
<1>2. \A m \in S : m < n => <<m, n>> \in OpToRel(<, Nat)
  BY DEF OpToRel
<1>3. \A m \in S : ~(m < n)
  <2>. HIDE DEF OpToRel
  <2>. QED BY <1>1, <1>2
<1>. QED BY <1>3

LEMMA SequencesGrow ==
    ASSUME NEW T, NEW G \in SUBSET Seq(T), <<>> \in G,
           \A d \in G : \A e \in T : Append(d, e) \in G
    PROVE  G = Seq(T)
<1>. DEFINE Bad == {Len(d) : d \in Seq(T) \ G}
<1>. SUFFICES ASSUME Bad # {} PROVE FALSE
  OBVIOUS
<1>1. PICK n \in Bad : \A m \in Bad : n <= m
  <2>1. Bad \in SUBSET Nat
    OBVIOUS
  <2>. HIDE DEF Bad
  <2>. QED BY <2>1, LeastNumber
<1>2. PICK d \in Seq(T) \ G : Len(d) = n
  OBVIOUS
<1>3. d # <<>>
  OBVIOUS
<1>4. PICK f \in Seq(T), e \in T : d = Append(f, e)
  BY <1>3, SequenceEmptyOrAppend
<1>5. f \notin G /\ Len(f) \in Nat /\ Len(d) = Len(f) + 1
  <2>1. Len(f) \in Nat /\ Len(d) = Len(f) + 1
    BY <1>4, AppendProperties, LenProperties
  <2>2. f \notin G
    BY <1>2, <1>4
  <2>. QED BY <2>1, <2>2
<1>6. Len(f) \in Bad
  BY <1>5
<1>. HIDE DEF Bad
<1>. QED BY <1>1, <1>2, <1>5, <1>6

-----------------------------------------------------------------------------
(* Dropping, which is defined by recursion over the places of a sequence:   *)
(* its value is known once there is a function that satisfies the equation. *)

Kept(g, d, S, i) == IF d[i][1] \in S THEN g[i - 1] ELSE Append(g[i - 1], d[i])
Keeps(g, d, S, n) == g = [i \in 0 .. n |-> IF i = 0 THEN <<>> ELSE Kept(g, d, S, i)]

LEMMA DroppingUnfolds ==
    ASSUME NEW d, NEW S
    PROVE  Dropping(d, S) = (CHOOSE g : Keeps(g, d, S, Len(d)))[Len(d)]
BY Zenon DEF Dropping, Keeps, Kept

LEMMA KeptExists ==
    ASSUME NEW d, NEW S, NEW n \in Nat
    PROVE  \E g : Keeps(g, d, S, n)
<1>. DEFINE Bad == {m \in Nat : ~\E g : Keeps(g, d, S, m)}
<1>. SUFFICES ASSUME Bad # {} PROVE FALSE
  OBVIOUS
<1>1. PICK m \in Bad : \A k \in Bad : m <= k
  <2>1. Bad \in SUBSET Nat
    OBVIOUS
  <2>. HIDE DEF Bad
  <2>. QED BY <2>1, LeastNumber
<1>2. CASE m = 0
  <2>1. Keeps([i \in 0 .. 0 |-> <<>>], d, S, 0)
    BY DEF Keeps
  <2>. QED BY <1>2, <2>1
<1>3. CASE m # 0
  <2>1. m \in Nat /\ m - 1 \in Nat /\ m - 1 \notin Bad
    BY <1>1, <1>3
  <2>2. PICK g : Keeps(g, d, S, m - 1)
    BY <2>1
  <2>. DEFINE e == [i \in 0 .. m |-> IF i = 0 THEN <<>> ELSE Kept(g, d, S, i)]
  <2>3. ASSUME NEW i \in 0 .. m, i # 0
        PROVE  e[i - 1] = g[i - 1]
    <3>1. i - 1 \in 0 .. m /\ i - 1 \in 0 .. m - 1
      BY <2>1, <2>3
    <3>2. e[i - 1] = IF i - 1 = 0 THEN <<>> ELSE Kept(g, d, S, i - 1)
      BY <3>1, Zenon
    <3>3. g[i - 1] = IF i - 1 = 0 THEN <<>> ELSE Kept(g, d, S, i - 1)
      BY <2>2, <3>1, Zenon DEF Keeps
    <3>. QED BY <3>2, <3>3, Zenon
  <2>4. \A i \in 0 .. m : i # 0 => Kept(g, d, S, i) = Kept(e, d, S, i)
    <3>. HIDE DEF e
    <3>. QED BY <2>3, Zenon DEF Kept
  <2>5. e = [i \in 0 .. m |-> IF i = 0 THEN <<>> ELSE Kept(e, d, S, i)]
    <3>. DEFINE f == [i \in 0 .. m |-> IF i = 0 THEN <<>> ELSE Kept(e, d, S, i)]
    <3>. HIDE DEF e
    <3>1. [i \in 0 .. m |-> IF i = 0 THEN <<>> ELSE Kept(g, d, S, i)] = f
      BY <2>4, Zenon
    <3>. QED BY <3>1, Zenon DEF e
  <2>6. Keeps(e, d, S, m)
    <3>. HIDE DEF e
    <3>. QED BY <2>5, Zenon DEF Keeps
  <2>. QED BY <1>1, <2>6
<1>. QED BY <1>2, <1>3

LEMMA KeptAgree ==
    ASSUME NEW d, NEW f, NEW S, NEW n \in Nat, NEW m \in Nat, n <= m, \A i \in 1 .. n : f[i] = d[i],
           NEW g, Keeps(g, d, S, n), NEW h, Keeps(h, f, S, m)
    PROVE  g[n] = h[n]
<1>. DEFINE Bad == {i \in 0 .. n : g[i] # h[i]}
<1>. SUFFICES ASSUME Bad # {} PROVE FALSE
  OBVIOUS
<1>1. PICK i \in Bad : \A k \in Bad : i <= k
  <2>1. Bad \in SUBSET Nat
    OBVIOUS
  <2>. HIDE DEF Bad
  <2>. QED BY <2>1, LeastNumber
<1>2. i \in 0 .. n /\ i \in 0 .. m /\ g[i] # h[i]
  BY <1>1
<1>3. /\ g[i] = IF i = 0 THEN <<>> ELSE Kept(g, d, S, i)
      /\ h[i] = IF i = 0 THEN <<>> ELSE Kept(h, f, S, i)
  BY <1>2, Zenon DEF Keeps
<1>4. i # 0
  BY <1>2, <1>3, Zenon
<1>5. i - 1 \in 0 .. n /\ i \in 1 .. n /\ ~(i <= i - 1)
  BY <1>2, <1>4
<1>6. g[i - 1] = h[i - 1] /\ f[i] = d[i]
  BY <1>1, <1>5
<1>. HIDE DEF Bad
<1>. QED BY <1>2, <1>3, <1>4, <1>6, Zenon DEF Kept

LEMMA DroppingSteps ==
    ASSUME NEW S, NEW T
    PROVE  /\ Dropping(<<>>, S) = <<>>
           /\ \A d \in Seq(T) : \A e \in T :
                 Dropping(Append(d, e), S) =
                    IF e[1] \in S THEN Dropping(d, S) ELSE Append(Dropping(d, S), e)
<1>1. Dropping(<<>>, S) = <<>>
  <2>. DEFINE g == CHOOSE h : Keeps(h, <<>>, S, 0)
  <2>1. Keeps(g, <<>>, S, 0)
    BY KeptExists, 0 \in Nat, Zenon
  <2>2. Len(<<>>) = 0
    OBVIOUS
  <2>3. Dropping(<<>>, S) = g[0]
    BY <2>2, DroppingUnfolds, Zenon
  <2>4. 0 \in 0 .. 0
    OBVIOUS
  <2>. HIDE DEF g
  <2>. QED BY <2>1, <2>3, <2>4, Zenon DEF Keeps
<1>2. ASSUME NEW d \in Seq(T), NEW e \in T
      PROVE  Dropping(Append(d, e), S) =
                IF e[1] \in S THEN Dropping(d, S) ELSE Append(Dropping(d, S), e)
  <2>. DEFINE f == Append(d, e)
              n == Len(d)
              g == CHOOSE h : Keeps(h, d, S, n)
              k == CHOOSE h : Keeps(h, f, S, n + 1)
  <2>1. /\ n \in Nat /\ n + 1 \in Nat /\ Len(f) = n + 1 /\ f[n + 1] = e
        /\ \A i \in 1 .. n : f[i] = d[i]
    BY AppendProperties, LenProperties
  <2>. HIDE DEF f
  <2>2. Dropping(d, S) = g[n] /\ Dropping(f, S) = k[n + 1]
    BY <2>1, DroppingUnfolds, Zenon
  <2>3. Keeps(g, d, S, n) /\ Keeps(k, f, S, n + 1)
    BY <2>1, KeptExists, Zenon
  <2>. HIDE DEF g, k, n
  <2>4. g[n] = k[n]
    BY <2>1, <2>3, KeptAgree
  <2>5. n + 1 \in 0 .. n + 1 /\ n + 1 # 0 /\ (n + 1) - 1 = n
    BY <2>1
  <2>6. k[n + 1] = Kept(k, f, S, n + 1)
    BY <2>3, <2>5, Zenon DEF Keeps
  <2>7. Kept(k, f, S, n + 1) = IF e[1] \in S THEN k[n] ELSE Append(k[n], e)
    BY <2>1, <2>5, Zenon DEF Kept
  <2>. QED BY <2>2, <2>4, <2>6, <2>7, Zenon DEF f
<1>. QED BY <1>1, <1>2

LEMMA DroppingAppend ==
    ASSUME NEW S, NEW T, NEW d \in Seq(T), NEW e \in T
    PROVE  Dropping(Append(d, e), S) =
                     IF e[1] \in S THEN Dropping(d, S) ELSE Append(Dropping(d, S), e)
<1>1. \A x \in Seq(T) : \A y \in T :
          Dropping(Append(x, y), S) =
                    IF y[1] \in S THEN Dropping(x, S) ELSE Append(Dropping(x, S), y)
  BY DroppingSteps
<1>. QED BY <1>1, Zenon

LEMMA DroppingKind ==
    ASSUME NEW T, NEW S, NEW d \in Seq(T)
    PROVE  Dropping(d, S) \in Seq({t \in T : t[1] \notin S})
<1>. DEFINE R == {t \in T : t[1] \notin S}
            G == {c \in Seq(T) : Dropping(c, S) \in Seq(R)}
<1>1. <<>> \in G
  BY DroppingSteps, EmptySeq
<1>2. ASSUME NEW c \in G, NEW e \in T PROVE Append(c, e) \in G
  <2>0. c \in Seq(T)
    OBVIOUS
  <2>1. Append(c, e) \in Seq(T)
    BY AppendProperties
  <2>2. Dropping(Append(c, e), S) = IF e[1] \in S THEN Dropping(c, S) ELSE Append(Dropping(c, S), e)
    <3>. HIDE DEF G
    <3>. QED BY <2>0, DroppingAppend
  <2>3. e[1] \notin S => Append(Dropping(c, S), e) \in Seq(R)
    <3>1. e[1] \notin S => e \in R
      OBVIOUS
    <3>2. Dropping(c, S) \in Seq(R)
      OBVIOUS
    <3>. HIDE DEF R
    <3>. QED BY <3>1, <3>2, AppendProperties
  <2>. QED BY <2>1, <2>2, <2>3
<1>3. G = Seq(T)
  <2>1. G \in SUBSET Seq(T)
    OBVIOUS
  <2>. HIDE DEF G
  <2>. QED BY <1>1, <1>2, <2>1, SequencesGrow
<1>. QED BY <1>3

LEMMA DroppingConcat ==
    ASSUME NEW T, NEW S, NEW c \in Seq(T), NEW d \in Seq(T)
    PROVE  Dropping(c \o d, S) = Dropping(c, S) \o Dropping(d, S)
<1>. DEFINE G == {f \in Seq(T) : Dropping(c \o f, S) = Dropping(c, S) \o Dropping(f, S)}
<1>0. ASSUME NEW f \in Seq(T) PROVE Dropping(f, S) \in Seq(T)
  <2>1. Dropping(f, S) \in Seq({t \in T : t[1] \notin S})
    BY DroppingKind
  <2>. QED BY <2>1, SeqMonotonic
<1>1. <<>> \in G
  BY <1>0, DroppingSteps, EmptySeq, ConcatEmptySeq
<1>2. ASSUME NEW f \in G, NEW e \in T PROVE Append(f, e) \in G
  <2>0. f \in Seq(T)
    OBVIOUS
  <2>1. Append(f, e) \in Seq(T) /\ c \o f \in Seq(T)
    BY AppendProperties, ConcatProperties
  <2>2. c \o Append(f, e) = Append(c \o f, e)
    <3>1. <<e>> \in Seq(T)
      OBVIOUS
    <3>2. Append(f, e) = f \o <<e>> /\ Append(c \o f, e) = (c \o f) \o <<e>>
      BY <2>1, AppendIsConcat
    <3>. QED BY <3>1, <3>2, ConcatAssociative
  <2>3. /\ Dropping(Append(f, e), S) =
                     IF e[1] \in S THEN Dropping(f, S) ELSE Append(Dropping(f, S), e)
        /\ Dropping(Append(c \o f, e), S) =
              IF e[1] \in S THEN Dropping(c \o f, S) ELSE Append(Dropping(c \o f, S), e)
    <3>. DEFINE x == c \o f
    <3>. HIDE DEF G, x
    <3>1. Dropping(Append(f, e), S) =
                    IF e[1] \in S THEN Dropping(f, S) ELSE Append(Dropping(f, S), e)
      BY <2>0, DroppingAppend
    <3>2. x \in Seq(T)
      BY <2>1 DEF x
    <3>3. Dropping(Append(x, e), S) =
                    IF e[1] \in S THEN Dropping(x, S) ELSE Append(Dropping(x, S), e)
      BY <3>2, DroppingAppend
    <3>. QED BY <3>1, <3>3 DEF x
  <2>4. Dropping(c, S) \o Append(Dropping(f, S), e) = Append(Dropping(c, S) \o Dropping(f, S), e)
    <3>. DEFINE x == Dropping(c, S)
                y == Dropping(f, S)
    <3>1. <<e>> \in Seq(T) /\ x \in Seq(T) /\ y \in Seq(T)
      BY <1>0
    <3>. HIDE DEF x, y
    <3>2. x \o y \in Seq(T)
      BY <3>1, ConcatProperties
    <3>3. Append(y, e) = y \o <<e>> /\ Append(x \o y, e) = (x \o y) \o <<e>>
      BY <3>1, <3>2, AppendIsConcat
    <3>4. x \o Append(y, e) = Append(x \o y, e)
      BY <3>1, <3>3, ConcatAssociative
    <3>. QED BY <3>4 DEF x, y
  <2>5. Dropping(c \o f, S) = Dropping(c, S) \o Dropping(f, S)
    OBVIOUS
  <2>. QED BY <2>1, <2>2, <2>3, <2>4, <2>5, Zenon
<1>3. G = Seq(T)
  <2>1. G \in SUBSET Seq(T)
    OBVIOUS
  <2>. HIDE DEF G
  <2>. QED BY <1>1, <1>2, <2>1, SequencesGrow
<1>. QED BY <1>3

\* What is dropped at last may as well be dropped at first.
LEMMA DroppingMore ==
    ASSUME NEW T, NEW S, NEW R, S \subseteq R, NEW d \in Seq(T)
    PROVE  Dropping(Dropping(d, S), R) = Dropping(d, R)
<1>. DEFINE G == {f \in Seq(T) : Dropping(Dropping(f, S), R) = Dropping(f, R)}
<1>0. ASSUME NEW f \in Seq(T) PROVE Dropping(f, S) \in Seq(T)
  <2>1. Dropping(f, S) \in Seq({t \in T : t[1] \notin S})
    BY DroppingKind
  <2>. QED BY <2>1, SeqMonotonic
<1>1. <<>> \in G
  BY DroppingSteps, EmptySeq
<1>2. ASSUME NEW f \in G, NEW e \in T PROVE Append(f, e) \in G
  <2>0. f \in Seq(T)
    OBVIOUS
  <2>1. Append(f, e) \in Seq(T) /\ Dropping(f, S) \in Seq(T)
    BY <1>0, AppendProperties
  <2>2. /\ Dropping(Append(f, e), S) =
                     IF e[1] \in S THEN Dropping(f, S) ELSE Append(Dropping(f, S), e)
        /\ Dropping(Append(f, e), R) =
                     IF e[1] \in R THEN Dropping(f, R) ELSE Append(Dropping(f, R), e)
        /\ Dropping(Append(Dropping(f, S), e), R) =
               IF e[1] \in R THEN Dropping(Dropping(f, S), R)
               ELSE Append(Dropping(Dropping(f, S), R), e)
    <3>. HIDE DEF G
    <3>. QED BY <2>0, <2>1, DroppingAppend
  <2>3. Dropping(Dropping(f, S), R) = Dropping(f, R)
    OBVIOUS
  <2>. QED BY <2>1, <2>2, <2>3, Zenon
<1>3. G = Seq(T)
  <2>1. G \in SUBSET Seq(T)
    OBVIOUS
  <2>. HIDE DEF G
  <2>. QED BY <1>1, <1>2, <2>1, SequencesGrow
<1>. QED BY <1>3

\* Nothing is dropped, or everything.
LEMMA DroppingNothing ==
    ASSUME NEW T, NEW S, \A t \in T : t[1] \notin S, NEW d \in Seq(T)
    PROVE  Dropping(d, S) = d
<1>. DEFINE G == {f \in Seq(T) : Dropping(f, S) = f}
<1>1. <<>> \in G
  BY DroppingSteps, EmptySeq
<1>2. ASSUME NEW f \in G, NEW e \in T PROVE Append(f, e) \in G
  <2>0. f \in Seq(T)
    OBVIOUS
  <2>1. Append(f, e) \in Seq(T)
    BY AppendProperties
  <2>2. Dropping(Append(f, e), S) = IF e[1] \in S THEN Dropping(f, S) ELSE Append(Dropping(f, S), e)
    <3>. HIDE DEF G
    <3>. QED BY <2>0, DroppingAppend
  <2>. QED BY <2>1, <2>2
<1>3. G = Seq(T)
  <2>1. G \in SUBSET Seq(T)
    OBVIOUS
  <2>. HIDE DEF G
  <2>. QED BY <1>1, <1>2, <2>1, SequencesGrow
<1>. QED BY <1>3

LEMMA DroppingEverything ==
    ASSUME NEW T, NEW S, NEW d \in Seq(T)
    PROVE  Dropping(d, S) = <<>> <=> \A i \in DOMAIN d : d[i][1] \in S
<1>. DEFINE All(f) == \A i \in DOMAIN f : f[i][1] \in S
            G == {f \in Seq(T) : Dropping(f, S) = <<>> <=> All(f)}
<1>1. <<>> \in G
  BY DroppingSteps, EmptySeq
<1>2. ASSUME NEW f \in G, NEW e \in T PROVE Append(f, e) \in G
  <2>0. f \in Seq(T)
    OBVIOUS
  <2>1. /\ Append(f, e) \in Seq(T) /\ DOMAIN f = 1 .. Len(f)
        /\ DOMAIN Append(f, e) = 1 .. Len(f) + 1
        /\ Append(f, e)[Len(f) + 1] = e /\ Len(f) \in Nat
        /\ \A i \in 1 .. Len(f) : Append(f, e)[i] = f[i]
    BY AppendProperties, LenProperties
  <2>2. Dropping(Append(f, e), S) = IF e[1] \in S THEN Dropping(f, S) ELSE Append(Dropping(f, S), e)
    <3>. HIDE DEF G
    <3>. QED BY <2>0, DroppingAppend
  <2>3. All(Append(f, e)) <=> All(f) /\ e[1] \in S
    <3>1. \A i \in 1 .. Len(f) + 1 : i \in 1 .. Len(f) \/ i = Len(f) + 1
      BY <2>1
    <3>2. Len(f) + 1 \in 1 .. Len(f) + 1 /\ \A i \in 1 .. Len(f) : i \in 1 .. Len(f) + 1
      BY <2>1
    <3>. QED BY <2>1, <3>1, <3>2, Zenon
  <2>4. e[1] \notin S => Append(Dropping(f, S), e) # <<>>
    <3>1. Dropping(f, S) \in Seq(T)
      <4>1. Dropping(f, S) \in Seq({t \in T : t[1] \notin S})
        BY DroppingKind
      <4>. QED BY <4>1, SeqMonotonic
    <3>. QED BY <3>1, AppendProperties
  <2>5. Dropping(f, S) = <<>> <=> All(f)
    OBVIOUS
  <2>. HIDE DEF All
  <2>. QED BY <2>1, <2>2, <2>3, <2>4, <2>5
<1>3. G = Seq(T)
  <2>1. G \in SUBSET Seq(T)
    OBVIOUS
  <2>. HIDE DEF G
  <2>. QED BY <1>1, <1>2, <2>1, SequencesGrow
<1>. HIDE DEF All
<1>4. Dropping(d, S) = <<>> <=> All(d)
  BY <1>3
<1>. QED BY <1>4 DEF All

-----------------------------------------------------------------------------
(* The commands of mountPrivateDirs: what a directory is mounted on is made *)
(* before, and each directory is mounted.                                   *)

DirsOf == {<<>>} \union ({"point", "machine"} \X Range(PrivateDirs))
Orders == [does : {"setup", "mkdir", "mount", "umount", "work"}, dir : DirsOf, bg : BOOLEAN]

Before(s, k, d) == \E i \in DOMAIN s : i < k /\ s[i] = Command("mkdir", d)

Mounting(s, D) ==
    /\ s \in Seq(Orders)
    /\ \A k \in DOMAIN s :
          /\ s[k].does \in {"mkdir", "mount"}
          /\ s[k].does = "mount" => \E x \in D :
                /\ s[k].dir = Point(x) /\ Before(s, k, Point(x))
                /\ x \in Bound => Before(s, k, Source(x))
    /\ \A x \in D : \E k \in DOMAIN s : s[k] = Command("mount", Point(x))

LEMMA CommandsAreOrders ==
    /\ Setup \in Orders
    /\ \A x \in Range(PrivateDirs) : /\ Point(x) \in DirsOf /\ Source(x) \in DirsOf
                                     /\ Point(x)[2] = x
    /\ \A bg \in BOOLEAN : Work(bg) \in Orders
    /\ \A d \in DirsOf : \A does \in {"mkdir", "mount", "umount"} : Command(does, d) \in Orders
BY DEF Setup, Command, Work, Orders, DirsOf, Point, Source

LEMMA MountingOne ==
    ASSUME NEW x \in Range(PrivateDirs)
    PROVE  Mounting(MountsOf(x), {x})
<1>. DEFINE p == Command("mkdir", Point(x))
            q == Command("mkdir", Source(x))
            m == Command("mount", Point(x))
<1>1. /\ p \in Orders /\ q \in Orders /\ m \in Orders
      /\ p.does = "mkdir" /\ q.does = "mkdir" /\ m.does = "mount" /\ m.dir = Point(x)
  BY CommandsAreOrders DEF Command
<1>2. CASE x \in Bound
  <2>. DEFINE s == <<q, p, m>>
  <2>1. MountsOf(x) = s
    BY <1>2 DEF MountsOf
  <2>. HIDE DEF p, q, m
  <2>2. s \in Seq(Orders) /\ DOMAIN s = 1 .. 3 /\ s[1] = q /\ s[2] = p /\ s[3] = m
    BY <1>1
  <2>. HIDE DEF s
  <2>3. Before(s, 3, Point(x)) /\ Before(s, 3, Source(x))
    BY <2>2 DEF Before, p, q
  <2>4. \A k \in DOMAIN s : k = 1 \/ k = 2 \/ k = 3
    BY <2>2
  <2>5. Mounting(s, {x})
    BY <1>1, <2>2, <2>3, <2>4 DEF Mounting, m
  <2>. QED BY <2>1, <2>5
<1>3. CASE x \notin Bound
  <2>. DEFINE s == <<p, m>>
  <2>1. MountsOf(x) = s
    BY <1>3 DEF MountsOf
  <2>. HIDE DEF p, q, m
  <2>2. s \in Seq(Orders) /\ DOMAIN s = 1 .. 2 /\ s[1] = p /\ s[2] = m
    BY <1>1
  <2>. HIDE DEF s
  <2>3. Before(s, 2, Point(x))
    BY <2>2 DEF Before, p
  <2>4. \A k \in DOMAIN s : k = 1 \/ k = 2
    BY <2>2
  <2>5. Mounting(s, {x})
    BY <1>1, <1>3, <2>2, <2>3, <2>4 DEF Mounting, m
  <2>. QED BY <2>1, <2>5
<1>. QED BY <1>2, <1>3

LEMMA MountingConcat ==
    ASSUME NEW C, NEW D, NEW c, NEW d, Mounting(c, C), Mounting(d, D)
    PROVE  Mounting(c \o d, C \union D)
<1>. DEFINE s == c \o d
<1>1. c \in Seq(Orders) /\ d \in Seq(Orders)
  BY DEF Mounting
<1>2. /\ s \in Seq(Orders) /\ Len(c) \in Nat /\ Len(d) \in Nat
      /\ DOMAIN c = 1 .. Len(c) /\ DOMAIN d = 1 .. Len(d) /\ DOMAIN s = 1 .. Len(c) + Len(d)
      /\ \A i \in 1 .. Len(c) : s[i] = c[i]
      /\ \A i \in 1 .. Len(d) : s[Len(c) + i] = d[i]
      /\ \A i \in 1 .. Len(c) + Len(d) :
            i \in 1 .. Len(c) \/ (i - Len(c) \in 1 .. Len(d) /\ s[i] = d[i - Len(c)])
  BY <1>1, ConcatElements
<1>. HIDE DEF s
<1>3. /\ \A i \in DOMAIN c : i \in DOMAIN s
      /\ \A i \in DOMAIN d : Len(c) + i \in DOMAIN s
  BY <1>2
<1>4. ASSUME NEW x, NEW k \in DOMAIN c, Before(c, k, x)
      PROVE  Before(s, k, x)
  BY <1>2, <1>3, <1>4 DEF Before
<1>5. ASSUME NEW x, NEW k \in DOMAIN s, k - Len(c) \in DOMAIN d, Before(d, k - Len(c), x)
      PROVE  Before(s, k, x)
  <2>1. PICK i \in DOMAIN d : i < k - Len(c) /\ d[i] = Command("mkdir", x)
    BY <1>5 DEF Before
  <2>2. Len(c) + i \in DOMAIN s /\ Len(c) + i < k /\ s[Len(c) + i] = d[i]
    BY <1>2, <1>3, <1>5, <2>1
  <2>. QED BY <2>1, <2>2 DEF Before
<1>6. ASSUME NEW k \in DOMAIN s
      PROVE  /\ s[k].does \in {"mkdir", "mount"}
             /\ s[k].does = "mount" => \E x \in C \union D :
                   /\ s[k].dir = Point(x) /\ Before(s, k, Point(x))
                   /\ x \in Bound => Before(s, k, Source(x))
  <2>1. CASE k \in DOMAIN c
    <3>1. s[k] = c[k]
      BY <1>2, <2>1
    <3>. QED BY <1>4, <2>1, <3>1 DEF Mounting
  <2>2. CASE k \notin DOMAIN c
    <3>1. k - Len(c) \in DOMAIN d /\ s[k] = d[k - Len(c)]
      BY <1>2, <2>2
    <3>. QED BY <1>5, <3>1 DEF Mounting
  <2>. QED BY <2>1, <2>2
<1>7. ASSUME NEW x \in C \union D
      PROVE  \E k \in DOMAIN s : s[k] = Command("mount", Point(x))
  <2>1. CASE x \in C
    <3>1. PICK k \in DOMAIN c : c[k] = Command("mount", Point(x))
      BY <2>1 DEF Mounting
    <3>. QED BY <1>2, <1>3, <3>1
  <2>2. CASE x \in D
    <3>1. PICK k \in DOMAIN d : d[k] = Command("mount", Point(x))
      BY <2>2 DEF Mounting
    <3>. QED BY <1>2, <1>3, <3>1
  <2>. QED BY <2>1, <2>2
<1>8. Mounting(s, C \union D)
  BY <1>2, <1>6, <1>7 DEF Mounting
<1>. QED BY <1>8 DEF s

Flattens(g, s, n) == g = [i \in 1 .. n |-> IF i = 1 THEN s[i] ELSE g[i - 1] \o s[i]]

LEMMA FlattenUnfolds ==
    ASSUME NEW s, Len(s) # 0
    PROVE  FlattenSeq(s) = (CHOOSE g : Flattens(g, s, Len(s)))[Len(s)]
BY Zenon DEF FlattenSeq, Flattens

LEMMA FlattensExists ==
    ASSUME NEW s, NEW n \in Nat
    PROVE  \E g : Flattens(g, s, n)
<1>. DEFINE Bad == {m \in Nat : ~\E g : Flattens(g, s, m)}
<1>. SUFFICES ASSUME Bad # {} PROVE FALSE
  OBVIOUS
<1>1. PICK m \in Bad : \A k \in Bad : m <= k
  <2>1. Bad \in SUBSET Nat
    OBVIOUS
  <2>. HIDE DEF Bad
  <2>. QED BY <2>1, LeastNumber
<1>2. CASE m = 0
  <2>. DEFINE g == [i \in 1 .. 0 |-> <<>>]
  <2>1. \A i : i \notin 1 .. 0
    OBVIOUS
  <2>2. [i \in 1 .. 0 |-> IF i = 1 THEN s[i] ELSE g[i - 1] \o s[i]] = g
    BY <2>1, Zenon
  <2>3. Flattens(g, s, 0)
    BY <2>2, Zenon DEF Flattens
  <2>. QED BY <1>2, <2>3
<1>3. CASE m # 0
  <2>1. m \in Nat /\ m - 1 \in Nat /\ m - 1 \notin Bad
    BY <1>1, <1>3
  <2>2. PICK g : Flattens(g, s, m - 1)
    BY <2>1
  <2>. DEFINE e == [i \in 1 .. m |-> IF i = 1 THEN s[i] ELSE g[i - 1] \o s[i]]
  <2>3. ASSUME NEW i \in 1 .. m, i # 1
        PROVE  e[i - 1] = g[i - 1]
    <3>1. i - 1 \in 1 .. m /\ i - 1 \in 1 .. m - 1
      BY <2>1, <2>3
    <3>2. e[i - 1] = IF i - 1 = 1 THEN s[i - 1] ELSE g[(i - 1) - 1] \o s[i - 1]
      BY <3>1, Zenon
    <3>3. g[i - 1] = IF i - 1 = 1 THEN s[i - 1] ELSE g[(i - 1) - 1] \o s[i - 1]
      BY <2>2, <3>1, Zenon DEF Flattens
    <3>. QED BY <3>2, <3>3, Zenon
  <2>4. e = [i \in 1 .. m |-> IF i = 1 THEN s[i] ELSE e[i - 1] \o s[i]]
    <3>. DEFINE f == [i \in 1 .. m |-> IF i = 1 THEN s[i] ELSE e[i - 1] \o s[i]]
    <3>. HIDE DEF e
    <3>1. [i \in 1 .. m |-> IF i = 1 THEN s[i] ELSE g[i - 1] \o s[i]] = f
      BY <2>3, Zenon
    <3>. QED BY <3>1, Zenon DEF e
  <2>5. Flattens(e, s, m)
    <3>. HIDE DEF e
    <3>. QED BY <2>4, Zenon DEF Flattens
  <2>. QED BY <1>1, <2>5
<1>. QED BY <1>2, <1>3

LEMMA MountsAreMounting == Mounting(mountPrivateDirs, Range(PrivateDirs))
<1>. DEFINE n == Len(PrivateDirs)
            s == [i \in DOMAIN PrivateDirs |-> MountsOf(PrivateDirs[i])]
            First(m) == {PrivateDirs[i] : i \in 1 .. m}
<1>1. /\ n \in Nat /\ DOMAIN PrivateDirs = 1 .. n /\ Len(s) = n
      /\ \A i \in 1 .. n : PrivateDirs[i] \in Range(PrivateDirs)
      /\ First(n) = Range(PrivateDirs)
  <2>1. n \in Nat /\ DOMAIN PrivateDirs = 1 .. n
    BY ShellAssumption, LenProperties
  <2>2. DOMAIN s = 1 .. n
    BY <2>1
  <2>3. Len(s) = n
    <3>. HIDE DEF n
    <3>. QED BY <2>1
  <2>. QED BY <2>1, <2>3 DEF Range
<1>2. \A i \in 1 .. n : Mounting(s[i], {PrivateDirs[i]})
  BY <1>1, MountingOne
<1>. HIDE DEF s, n
<1>3. mountPrivateDirs = FlattenSeq(s)
  BY DEF mountPrivateDirs, s
<1>4. CASE n = 0
  <2>1. mountPrivateDirs = <<>>
    <3>1. FlattenSeq(s) = s
      BY <1>1, <1>4 DEF FlattenSeq
    <3>2. s = <<>>
      BY <1>1, <1>4 DEF s
    <3>. QED BY <1>3, <3>1, <3>2
  <2>2. Range(PrivateDirs) = {}
    BY <1>1, <1>4
  <2>. QED BY <2>1, <2>2 DEF Mounting
<1>5. CASE n # 0
  <2>. DEFINE g == CHOOSE h : Flattens(h, s, n)
              Bad == {m \in 1 .. n : ~Mounting(g[m], First(m))}
  <2>1. Flattens(g, s, n)
    BY <1>1, FlattensExists, Zenon
  <2>2. mountPrivateDirs = g[n]
    BY <1>1, <1>3, <1>5, FlattenUnfolds, Zenon
  <2>. HIDE DEF g
  <2>3. ASSUME Bad # {} PROVE FALSE
    <3>1. PICK m \in Bad : \A k \in Bad : m <= k
      <4>1. Bad \in SUBSET Nat
        BY <1>1
      <4>. HIDE DEF Bad
      <4>. QED BY <2>3, <4>1, LeastNumber
    <3>2. m \in 1 .. n /\ ~Mounting(g[m], First(m))
      BY <3>1
    <3>3. g[m] = IF m = 1 THEN s[m] ELSE g[m - 1] \o s[m]
      BY <2>1, <3>2, Zenon DEF Flattens
    <3>4. CASE m = 1
      <4>1. First(1) = {PrivateDirs[1]}
        OBVIOUS
      <4>. QED BY <1>2, <3>2, <3>3, <3>4, <4>1
    <3>5. CASE m # 1
      <4>1. m - 1 \in 1 .. n /\ ~(m <= m - 1)
        BY <1>1, <3>2, <3>5
      <4>2. Mounting(g[m - 1], First(m - 1))
        BY <3>1, <4>1
      <4>3. First(m) = First(m - 1) \union {PrivateDirs[m]}
        <5>1. \A i : i \in 1 .. m <=> i \in 1 .. m - 1 \/ i = m
          BY <1>1, <3>2, <4>1
        <5>. QED BY <5>1
      <4>. HIDE DEF First, Bad
      <4>4. Mounting(s[m], {PrivateDirs[m]})
        BY <1>2, <3>2
      <4>5. Mounting(g[m - 1] \o s[m], First(m - 1) \union {PrivateDirs[m]})
        BY <4>2, <4>4, MountingConcat
      <4>. QED BY <3>2, <3>3, <3>5, <4>3, <4>5
    <3>. QED BY <3>4, <3>5
  <2>4. n \in 1 .. n
    BY <1>1, <1>5
  <2>. QED BY <1>1, <2>2, <2>3, <2>4
<1>. QED BY <1>4, <1>5

-----------------------------------------------------------------------------
(* The shell of a node (NodeShell).                                         *)

(* The tokens of a sequence. *)
Only(s, K) == \A i \in DOMAIN s : s[i][1] \in K
No(s, K)   == \A i \in DOMAIN s : s[i][1] \notin K
TextsOf(s) == Dropping(s, Kinds \ {"text"})

(* What bash and the command print, from what monitor has of a marker to what is not  *)
(* printed yet.  After a sentinel there is only noise, and a marker is in one piece.  *)
Stream == data \o (pty \o printing)

SentinelLast(s) == \A i, j \in DOMAIN s : s[i][1] = Sentinel /\ i < j => s[j][1] = "noise"

Marked(s) ==
    /\ \A i \in DOMAIN s : s[i][1] = Ctrl_A => i + 1 \in DOMAIN s /\ s[i + 1][1] = "pid"
    /\ \A i \in DOMAIN s : s[i][1] = "pid" => i - 1 \in DOMAIN s /\ s[i - 1][1] = Ctrl_A
    /\ \A i, j \in DOMAIN s : s[i][1] = Ctrl_A /\ s[j][1] = "pid" => j = i + 1

LEMMA ConcatHas ==
    ASSUME NEW T, NEW c \in Seq(T), NEW d \in Seq(T)
    PROVE  /\ \A t : Has(c \o d, t) <=> Has(c, t) \/ Has(d, t)
           /\ \A K : Only(c \o d, K) <=> Only(c, K) /\ Only(d, K)
           /\ \A K : No(c \o d, K) <=> No(c, K) /\ No(d, K)
<1>. DEFINE s == c \o d
<1>1. /\ s \in Seq(T) /\ Len(c) \in Nat /\ Len(d) \in Nat
      /\ DOMAIN c = 1 .. Len(c) /\ DOMAIN d = 1 .. Len(d) /\ DOMAIN s = 1 .. Len(c) + Len(d)
      /\ \A i \in 1 .. Len(c) : s[i] = c[i]
      /\ \A i \in 1 .. Len(d) : s[Len(c) + i] = d[i]
      /\ \A i \in 1 .. Len(c) + Len(d) :
            i \in 1 .. Len(c) \/ (i - Len(c) \in 1 .. Len(d) /\ s[i] = d[i - Len(c)])
  BY ConcatElements
<1>. HIDE DEF s
<1>2. /\ \A i \in DOMAIN c : i \in DOMAIN s /\ s[i] = c[i]
      /\ \A i \in DOMAIN d : Len(c) + i \in DOMAIN s /\ s[Len(c) + i] = d[i]
      /\ \A i \in DOMAIN s : \/ i \in DOMAIN c
                             \/ i - Len(c) \in DOMAIN d /\ s[i] = d[i - Len(c)]
  BY <1>1
<1>3. \A t : Has(s, t) <=> Has(c, t) \/ Has(d, t)
  BY <1>2 DEF Has
<1>4. \A K : Only(s, K) <=> Only(c, K) /\ Only(d, K)
  BY <1>2 DEF Only
<1>5. \A K : No(s, K) <=> No(c, K) /\ No(d, K)
  BY <1>2 DEF No
<1>. QED BY <1>3, <1>4, <1>5 DEF s

(* What is left of a stream when its beginning is read. *)
LEMMA StreamCut ==
    ASSUME NEW T, NEW d \in Seq(T), NEW s \in Seq(T), SentinelLast(d \o s), Marked(d \o s)
    PROVE  /\ SentinelLast(s)
           /\ Has(d, Sentinel) => Only(s, {"noise"})
           /\ Has(d, "pid") => Has(d, Ctrl_A)
           /\ MarkerIsWhole(d) => Marked(s)
           /\ ~MarkerIsWhole(d) => ~Has(d, Sentinel)
<1>. DEFINE e == d \o s
            n == Len(d)
<1>1. /\ n \in Nat /\ Len(s) \in Nat
      /\ DOMAIN d = 1 .. n /\ DOMAIN s = 1 .. Len(s) /\ DOMAIN e = 1 .. n + Len(s)
      /\ \A i \in 1 .. n : e[i] = d[i]
      /\ \A i \in 1 .. Len(s) : e[n + i] = s[i]
  BY ConcatElements
<1>2. SentinelLast(e) /\ Marked(e)
  OBVIOUS
<1>. HIDE DEF e, n
<1>3. /\ \A i \in DOMAIN d : i \in DOMAIN e /\ e[i] = d[i] /\ i \in 1 .. n
      /\ \A i \in DOMAIN s : n + i \in DOMAIN e /\ e[n + i] = s[i] /\ i \in 1 .. Len(s)
      /\ \A i \in DOMAIN d, j \in DOMAIN s : i < n + j
      /\ \A i, j \in DOMAIN s : i < j => n + i < n + j
  BY <1>1
<1>4. SentinelLast(s) /\ (Has(d, Sentinel) => Only(s, {"noise"}))
  BY <1>2, <1>3 DEF SentinelLast, Has, Only
<1>5. ASSUME NEW j \in DOMAIN d, d[j][1] = "pid"
      PROVE  j - 1 \in DOMAIN d /\ d[j - 1][1] = Ctrl_A
  <2>1. j - 1 \in DOMAIN e /\ e[j - 1][1] = Ctrl_A
    BY <1>2, <1>3, <1>5 DEF Marked
  <2>2. j - 1 \in DOMAIN d
    BY <1>1, <2>1
  <2>. QED BY <1>3, <2>1, <2>2
<1>6. Has(d, "pid") => Has(d, Ctrl_A)
  BY <1>5 DEF Has
<1>7. ASSUME MarkerIsWhole(d)
      PROVE  Marked(s)
  <2>1. ASSUME NEW j \in DOMAIN s, s[j][1] = "pid"
        PROVE  j - 1 \in DOMAIN s /\ s[j - 1][1] = Ctrl_A
    <3>1. (n + j) - 1 \in DOMAIN e /\ e[(n + j) - 1][1] = Ctrl_A
      BY <1>2, <1>3, <2>1 DEF Marked
    <3>2. CASE j = 1
      <4>1. n \in DOMAIN d /\ d[n][1] = Ctrl_A
        BY <1>1, <3>1, <3>2
      <4>2. PICK i \in DOMAIN d : d[i][1] = "pid"
        BY <1>7, <4>1 DEF MarkerIsWhole, Has
      <4>3. i = n + 1
        BY <1>2, <1>3, <4>1, <4>2 DEF Marked
      <4>. QED BY <1>1, <4>2, <4>3
    <3>3. CASE j # 1
      <4>1. j - 1 \in DOMAIN s /\ (n + j) - 1 = n + (j - 1)
        BY <1>1, <3>3
      <4>. QED BY <1>3, <3>1, <4>1
    <3>. QED BY <3>2, <3>3
  <2>2. ASSUME NEW i \in DOMAIN s, s[i][1] = Ctrl_A
        PROVE  i + 1 \in DOMAIN s /\ s[i + 1][1] = "pid"
    <3>1. (n + i) + 1 \in DOMAIN e /\ e[(n + i) + 1][1] = "pid"
      BY <1>2, <1>3, <2>2 DEF Marked
    <3>2. i + 1 \in DOMAIN s /\ (n + i) + 1 = n + (i + 1)
      BY <1>1, <3>1
    <3>. QED BY <1>3, <3>1, <3>2
  <2>3. ASSUME NEW i \in DOMAIN s, NEW j \in DOMAIN s, s[i][1] = Ctrl_A, s[j][1] = "pid"
        PROVE  j = i + 1
    <3>1. n + j = (n + i) + 1
      BY <1>2, <1>3, <2>3 DEF Marked
    <3>. QED BY <1>1, <3>1
  <2>. QED BY <2>1, <2>2, <2>3 DEF Marked
<1>8. ASSUME ~MarkerIsWhole(d), Has(d, Sentinel)
      PROVE  FALSE
  <2>1. PICK i \in DOMAIN d : d[i][1] = Ctrl_A
    BY <1>8 DEF MarkerIsWhole, Has
  <2>2. i + 1 \in DOMAIN e /\ e[i + 1][1] = "pid"
    BY <1>2, <1>3, <2>1 DEF Marked
  <2>3. PICK k \in DOMAIN d : d[k][1] = Sentinel
    BY <1>8 DEF Has
  <2>4. i + 1 \notin DOMAIN d
    BY <1>3, <1>8, <2>2 DEF MarkerIsWhole, Has
  <2>5. k < i + 1
    BY <1>1, <2>1, <2>4
  <2>6. e[i + 1][1] = "noise"
    BY <1>2, <1>3, <2>2, <2>3, <2>5 DEF SentinelLast
  <2>. QED BY <2>2, <2>6
<1>. QED BY <1>4, <1>6, <1>7, <1>8

(* A program in the background prints at the end of the terminal. *)
LEMMA StreamInsert ==
    ASSUME NEW T, NEW c \in Seq(T), NEW d \in Seq(T), NEW e \in T,
           SentinelLast(c \o d), Marked(c \o d),
           e[1] = "noise", No(d, {"noise"}), d = <<>> \/ d[1][1] # "pid"
    PROVE  SentinelLast(Append(c, e) \o d) /\ Marked(Append(c, e) \o d)
<1>. DEFINE s == c \o d
            t == Append(c, e) \o d
            n == Len(c)
            N == n + 1
            m == Len(d)
<1>1. /\ n \in Nat /\ m \in Nat /\ DOMAIN d = 1 .. m /\ DOMAIN s = 1 .. n + m
      /\ \A i \in 1 .. n : s[i] = c[i]
      /\ \A i \in 1 .. m : s[n + i] = d[i]
  BY ConcatElements
<1>2. /\ Append(c, e) \in Seq(T) /\ Len(Append(c, e)) = N
      /\ Append(c, e)[N] = e /\ \A i \in 1 .. n : Append(c, e)[i] = c[i]
  BY AppendProperties
<1>3. /\ DOMAIN t = 1 .. N + m
      /\ \A i \in 1 .. N : t[i] = Append(c, e)[i]
      /\ \A i \in 1 .. m : t[N + i] = d[i]
  <2>. DEFINE a == Append(c, e)
  <2>1. a \in Seq(T) /\ Len(a) = N
    BY <1>2
  <2>. HIDE DEF a, s, t, n, N, m
  <2>2. /\ DOMAIN (a \o d) = 1 .. Len(a) + Len(d)
        /\ \A i \in 1 .. Len(a) : (a \o d)[i] = a[i]
        /\ \A i \in 1 .. Len(d) : (a \o d)[Len(a) + i] = d[i]
    <3>1. a \in Seq(T) /\ d \in Seq(T)
      BY <2>1
    <3>. QED BY <3>1, ConcatElements
  <2>3. /\ DOMAIN (a \o d) = 1 .. N + m
        /\ \A i \in 1 .. N : (a \o d)[i] = a[i]
        /\ \A i \in 1 .. m : (a \o d)[N + i] = d[i]
    BY <2>1, <2>2, Zenon DEF m
  <2>. QED BY <2>3, Zenon DEF a, t
<1>4. SentinelLast(s) /\ Marked(s)
  OBVIOUS
<1>. HIDE DEF s, t, n, m
<1>5. /\ \A i \in 1 .. n : i \in DOMAIN t /\ i \in DOMAIN s /\ t[i] = s[i]
      /\ \A i \in (n + 2) .. (n + m + 1) : /\ i \in DOMAIN t /\ i - 1 \in DOMAIN s /\ t[i] = s[i - 1]
                                           /\ i - (n + 1) \in DOMAIN d /\ t[i] = d[i - (n + 1)]
      /\ n + 1 \in DOMAIN t /\ t[n + 1][1] = "noise"
      /\ \A i \in DOMAIN t : i \in 1 .. n \/ i = n + 1 \/ i \in (n + 2) .. (n + m + 1)
  <2>1. ASSUME NEW i \in 1 .. n
        PROVE  i \in DOMAIN t /\ i \in DOMAIN s /\ t[i] = s[i]
    BY <1>1, <1>2, <1>3
  <2>2. ASSUME NEW i \in (n + 2) .. (n + m + 1)
        PROVE  /\ i \in DOMAIN t /\ i - 1 \in DOMAIN s /\ t[i] = s[i - 1]
               /\ i - (n + 1) \in DOMAIN d /\ t[i] = d[i - (n + 1)]
    <3>1. /\ i - (n + 1) \in 1 .. m /\ i = N + (i - (n + 1)) /\ i - 1 = n + (i - (n + 1))
          /\ i \in 1 .. N + m /\ i - 1 \in 1 .. n + m
      <4>1. n \in Nat /\ m \in Nat /\ i \in (n + 2) .. (n + m + 1)
        BY <1>1
      <4>. QED BY <4>1
    <3>. HIDE DEF N
    <3>. QED BY <1>1, <1>3, <3>1
  <2>3. n + 1 \in DOMAIN t /\ t[n + 1][1] = "noise"
    BY <1>1, <1>2, <1>3
  <2>4. \A i \in DOMAIN t : i \in 1 .. n \/ i = n + 1 \/ i \in (n + 2) .. (n + m + 1)
    BY <1>1, <1>3
  <2>. QED BY <2>1, <2>2, <2>3, <2>4
<1>6. "noise" # Ctrl_A /\ "noise" # "pid" /\ "noise" # Sentinel
  BY DEF Ctrl_A, Sentinel
<1>7. ASSUME NEW i \in DOMAIN t, NEW j \in DOMAIN t, t[i][1] = Sentinel, i < j
      PROVE  t[j][1] = "noise"
  <2>1. CASE j \in 1 .. n
    <3>1. i \in 1 .. n
      BY <1>1, <1>7, <1>5, <2>1
    <3>. QED BY <1>4, <1>5, <1>7, <2>1, <3>1 DEF SentinelLast
  <2>2. CASE j = n + 1
    BY <1>5, <2>2
  <2>3. CASE j \in (n + 2) .. (n + m + 1)
    <3>1. i \in 1 .. n \/ i \in (n + 2) .. (n + m + 1)
      BY <1>5, <1>6, <1>7
    <3>2. j - 1 \in DOMAIN s /\ t[j] = s[j - 1]
      BY <1>5, <2>3
    <3>3. CASE i \in 1 .. n
      <4>1. i \in DOMAIN s /\ s[i][1] = Sentinel /\ i < j - 1
        BY <1>1, <1>5, <1>7, <2>3, <3>3
      <4>. QED BY <1>4, <3>2, <4>1 DEF SentinelLast
    <3>4. CASE i \in (n + 2) .. (n + m + 1)
      <4>1. i - 1 \in DOMAIN s /\ s[i - 1][1] = Sentinel /\ i - 1 < j - 1
        BY <1>1, <1>5, <1>7, <2>3, <3>4
      <4>. QED BY <1>4, <3>2, <4>1 DEF SentinelLast
    <3>. QED BY <3>1, <3>3, <3>4
  <2>. QED BY <1>5, <2>1, <2>2, <2>3
<1>8. ASSUME NEW i \in DOMAIN t, t[i][1] = Ctrl_A
      PROVE  i + 1 \in DOMAIN t /\ t[i + 1][1] = "pid"
  <2>1. CASE i \in 1 .. n
    <3>1. i + 1 \in DOMAIN s /\ s[i + 1][1] = "pid"
      BY <1>4, <1>5, <1>8, <2>1 DEF Marked
    <3>2. i # n
      <4>1. CASE i = n
        <5>1. 1 \in DOMAIN d /\ d[1][1] = "pid"
          BY <1>1, <3>1, <4>1
        <5>. QED BY <5>1
      <4>. QED BY <4>1
    <3>3. i + 1 \in 1 .. n
      BY <1>1, <2>1, <3>2
    <3>. QED BY <1>5, <3>1, <3>3
  <2>2. CASE i \in (n + 2) .. (n + m + 1)
    <3>1. i - 1 \in DOMAIN s /\ s[i - 1][1] = Ctrl_A
      BY <1>5, <1>8, <2>2
    <3>2. (i - 1) + 1 \in DOMAIN s /\ s[(i - 1) + 1][1] = "pid"
      BY <1>4, <3>1 DEF Marked
    <3>3. i + 1 \in (n + 2) .. (n + m + 1) /\ (i + 1) - 1 = (i - 1) + 1
      BY <1>1, <2>2, <3>2
    <3>. QED BY <1>5, <3>2, <3>3
  <2>. QED BY <1>5, <1>6, <1>8, <2>1, <2>2
<1>9. ASSUME NEW j \in DOMAIN t, t[j][1] = "pid"
      PROVE  j - 1 \in DOMAIN t /\ t[j - 1][1] = Ctrl_A
  <2>1. CASE j \in 1 .. n
    <3>1. j - 1 \in DOMAIN s /\ s[j - 1][1] = Ctrl_A
      BY <1>4, <1>5, <1>9, <2>1 DEF Marked
    <3>2. j - 1 \in 1 .. n
      BY <1>1, <2>1, <3>1
    <3>. QED BY <1>5, <3>1, <3>2
  <2>2. CASE j \in (n + 2) .. (n + m + 1)
    <3>1. j - 1 \in DOMAIN s /\ s[j - 1][1] = "pid"
      BY <1>5, <1>9, <2>2
    <3>2. (j - 1) - 1 \in DOMAIN s /\ s[(j - 1) - 1][1] = Ctrl_A
      BY <1>4, <3>1 DEF Marked
    <3>3. j # n + 2
      <4>1. CASE j = n + 2
        <5>1. j - (n + 1) = 1 /\ 1 \in DOMAIN d /\ d[1][1] = "pid"
          BY <1>1, <1>5, <1>9, <2>2, <4>1
        <5>. QED BY <5>1
      <4>. QED BY <4>1
    <3>4. j - 1 \in (n + 2) .. (n + m + 1)
      BY <1>1, <2>2, <3>3
    <3>. QED BY <1>5, <3>2, <3>4
  <2>. QED BY <1>5, <1>6, <1>9, <2>1, <2>2
<1>10. ASSUME NEW i \in DOMAIN t, NEW j \in DOMAIN t, t[i][1] = Ctrl_A, t[j][1] = "pid"
       PROVE  j = i + 1
  <2>1. i + 1 \in DOMAIN t /\ t[i + 1][1] = "pid"
    BY <1>8, <1>10
  <2>. DEFINE back(k) == IF k <= n THEN k ELSE k - 1
  <2>2. \A k \in DOMAIN t : t[k][1] # "noise" =>
            back(k) \in DOMAIN s /\ t[k] = s[back(k)]
    BY <1>1, <1>5
  <2>3. t[i][1] # "noise" /\ t[j][1] # "noise" /\ t[i + 1][1] # "noise"
    BY <1>6, <1>10, <2>1
  <2>4. back(j) = back(i) + 1 /\ back(i + 1) = back(i) + 1
    BY <1>4, <1>10, <2>1, <2>2, <2>3 DEF Marked
  <2>5. i # n + 1 /\ j # n + 1 /\ i + 1 # n + 1
    BY <1>5, <2>3
  <2>6. i \in Nat /\ j \in Nat
    BY <1>1, <1>3
  <2>. QED BY <1>1, <2>4, <2>5, <2>6
<1>11. SentinelLast(t) /\ Marked(t)
  BY <1>7, <1>8, <1>9, <1>10 DEF SentinelLast, Marked
<1>. QED BY <1>11 DEF t

(* A command begins to print. *)
LEMMA StreamBegin ==
    ASSUME NEW T, NEW c \in Seq(T), NEW d \in Seq(T), Only(c, {"noise"}), SentinelLast(d), Marked(d)
    PROVE  SentinelLast(c \o d) /\ Marked(c \o d)
<1>. DEFINE s == c \o d
            n == Len(c)
<1>1. /\ n \in Nat /\ Len(d) \in Nat
      /\ DOMAIN c = 1 .. n /\ DOMAIN d = 1 .. Len(d) /\ DOMAIN s = 1 .. n + Len(d)
      /\ \A i \in 1 .. n : s[i] = c[i]
      /\ \A i \in 1 .. Len(d) : s[n + i] = d[i]
  BY ConcatElements
<1>. HIDE DEF s, n
<1>2. /\ \A i \in DOMAIN s : s[i][1] # "noise" => i - n \in DOMAIN d /\ s[i] = d[i - n]
      /\ \A i \in DOMAIN d : n + i \in DOMAIN s /\ s[n + i] = d[i]
  <2>1. ASSUME NEW i \in DOMAIN s, s[i][1] # "noise"
        PROVE  i - n \in DOMAIN d /\ s[i] = d[i - n]
    <3>1. i \notin 1 .. n
      BY <1>1, <2>1 DEF Only
    <3>2. i - n \in 1 .. Len(d) /\ i = n + (i - n)
      BY <1>1, <3>1
    <3>. QED BY <1>1, <3>2
  <2>. QED BY <1>1, <2>1
<1>3. "noise" # Ctrl_A /\ "noise" # "pid" /\ "noise" # Sentinel
  BY DEF Ctrl_A, Sentinel
<1>4. \A i \in DOMAIN s : i \in Nat
  BY <1>1
<1>5. SentinelLast(s)
  <2>1. ASSUME NEW i \in DOMAIN s, NEW j \in DOMAIN s, s[i][1] = Sentinel, i < j, s[j][1] # "noise"
        PROVE  FALSE
    <3>1. /\ i - n \in DOMAIN d /\ s[i] = d[i - n] /\ j - n \in DOMAIN d /\ s[j] = d[j - n]
          /\ i - n < j - n
      BY <1>1, <1>2, <1>3, <1>4, <2>1
    <3>. QED BY <2>1, <3>1 DEF SentinelLast
  <2>. QED BY <2>1 DEF SentinelLast
<1>6. Marked(s)
  <2>1. ASSUME NEW i \in DOMAIN s, s[i][1] = Ctrl_A
        PROVE  i + 1 \in DOMAIN s /\ s[i + 1][1] = "pid"
    <3>1. i - n \in DOMAIN d /\ s[i] = d[i - n]
      BY <1>2, <1>3, <2>1
    <3>2. (i - n) + 1 \in DOMAIN d /\ d[(i - n) + 1][1] = "pid"
      BY <2>1, <3>1 DEF Marked
    <3>3. n + ((i - n) + 1) = i + 1
      BY <1>1, <1>4
    <3>. QED BY <1>2, <3>2, <3>3
  <2>2. ASSUME NEW i \in DOMAIN s, s[i][1] = "pid"
        PROVE  i - 1 \in DOMAIN s /\ s[i - 1][1] = Ctrl_A
    <3>1. i - n \in DOMAIN d /\ s[i] = d[i - n]
      BY <1>2, <1>3, <2>2
    <3>2. (i - n) - 1 \in DOMAIN d /\ d[(i - n) - 1][1] = Ctrl_A
      BY <2>2, <3>1 DEF Marked
    <3>3. n + ((i - n) - 1) = i - 1
      BY <1>1, <1>4
    <3>. QED BY <1>2, <3>2, <3>3
  <2>3. ASSUME NEW i \in DOMAIN s, NEW j \in DOMAIN s, s[i][1] = Ctrl_A, s[j][1] = "pid"
        PROVE  j = i + 1
    <3>1. j - n = (i - n) + 1
      BY <1>2, <1>3, <2>3 DEF Marked
    <3>. QED BY <1>1, <1>4, <3>1
  <2>. QED BY <2>1, <2>2, <2>3 DEF Marked
<1>. QED BY <1>5, <1>6 DEF s

(* Types. *)
Token(n) == Kinds \X (0 .. n)

NodeOK ==
    /\ at \in {"new", "prompt", "send", "monitor", "marker", "idle"}
    /\ op \in {"start", "cmd", "terminate"} /\ shell \in BOOLEAN /\ waiting \in BOOLEAN
    /\ bash \in {"off", "boot", "prompt", "run"}
    /\ sent \in Nat /\ said \in Nat /\ noise \in 0 .. MaxNoise /\ jobs \subseteq Nat
    /\ rest \in Seq(Orders) /\ typed \in Seq(Orders) /\ lastCmd \in Orders

TokensOK ==
    /\ pty \in Seq(Token(sent)) /\ printing \in Seq(Token(sent))
    /\ output \in Seq(Token(sent)) /\ data \in Seq(Token(sent))
    /\ Len(pty) <= PtySize /\ No(printing, {"noise"})

(* Before the first prompt nothing is asked, nor when the shell is gone. *)
NewOK ==
    /\ at = "new" => ~shell /\ op = "start"
    /\ at = "prompt" => /\ shell /\ op = "start" /\ ~waiting
                        /\ Only(Stream, {"text", Sentinel}) /\ Has(Stream, Sentinel)
                        /\ bash = IF printing = <<>> THEN "prompt" ELSE "boot"
    /\ at \in {"new", "prompt"} => /\ typed = <<>> /\ rest = <<>> /\ jobs = {} /\ sent = 0
                                   /\ output = <<>> /\ lastPid = 0 /\ said = 0 /\ ~lastCmd.bg
    /\ ~shell => /\ ~waiting /\ bash = "off" /\ typed = <<>> /\ jobs = {}
                 /\ pty = <<>> /\ printing = <<>>
                 /\ at \in {"new", "send", "idle"} /\ (at = "send" => op = "cmd")

(* bash has no command, it has one that it has not read, or its output is under way. *)
InUse  == shell /\ at # "prompt"
Unread == typed # <<>> /\ bash = "prompt"

BashOK ==
    InUse =>
        /\ bash \in {"prompt", "run"}
        /\ printing = <<>> <=> bash = "prompt"
        /\ bash = "run" => typed # <<>>
        /\ typed = <<>> \/ (typed = <<lastCmd>> /\ waiting)
        /\ waiting => at \in {"monitor", "marker"}
        /\ ~waiting => at \in {"monitor", "send", "idle"}
        /\ IF ~waiting \/ Unread THEN Only(Stream, {"noise"}) ELSE Has(Stream, Sentinel)

StreamOK ==
    /\ SentinelLast(Stream) /\ Marked(Stream)
    /\ IF at = "marker" THEN Has(data, Ctrl_A) /\ ~Has(data, "pid") ELSE data = <<>>

(* Every pid is that of the command; who waits for one will get it. *)
Marks == {Ctrl_A, "pid", "job"}

PidOK ==
    InUse =>
        /\ lastPid \in jobs \union {0}
        /\ \A i \in DOMAIN Stream : Stream[i][1] = "pid" => Stream[i][2] = sent
        /\ ~lastCmd.bg \/ Unread => lastPid = 0 /\ No(Stream, Marks)
        /\ lastCmd.bg /\ ~Unread => sent \in jobs /\ (lastPid = sent \/ Has(Stream, "pid"))

(* What the command prints is in the answer or under way. *)
AnswerOK ==
    InUse =>
        /\ Only(output, {"text", "job", "noise"})
        /\ IF Unread THEN TextsOf(output) = <<>>
           ELSE TextsOf(output) \o TextsOf(Stream) = Repeat("text", said)

(* What is still to be done to the directories. *)
Pending == typed \o rest

Makes(s, k, d) == d \in made \/ Before(s, k, d)

Fits(s) ==
    \A k \in DOMAIN s :
        /\ s[k].does \in {"setup", "mkdir", "mount"}
        /\ s[k].does = "mount" => \E x \in Range(PrivateDirs) :
              /\ s[k].dir = Point(x) /\ Makes(s, k, Point(x))
              /\ x \in Bound => Makes(s, k, Source(x))

ToMount ==
    {x \in Range(PrivateDirs) : \E k \in DOMAIN Pending : Pending[k] = Command("mount", Point(x))}
ToUnmount ==
    {x \in Range(PrivateDirs) : \E k \in DOMAIN Pending : Pending[k] = Command("umount", Point(x))}

MountsOK ==
    /\ mounted \subseteq Range(PrivateDirs)
    /\ ~InUse => mounted = {}
    /\ InUse /\ op = "start" => Fits(Pending) /\ Range(PrivateDirs) \subseteq mounted \union ToMount
    /\ InUse /\ op = "cmd" => /\ mounted = Range(PrivateDirs)
                              /\ \A k \in DOMAIN Pending : Pending[k].does = "work"
    /\ InUse /\ op = "terminate" => /\ mounted \subseteq ToUnmount
                                    /\ \A k \in DOMAIN Pending : Pending[k].does = "umount"
    /\ at = "idle" => rest = <<>>
    /\ at = "idle" /\ op = "terminate" => ~shell

ShellInv == NodeOK /\ TokensOK /\ NewOK /\ BashOK /\ StreamOK /\ PidOK /\ AnswerOK /\ MountsOK

LEMMA EmptyConcat ==
    ASSUME NEW T, NEW s \in Seq(T)
    PROVE  s \o <<>> = s /\ <<>> \o s = s
BY ConcatEmptySeq

LEMMA NoTexts ==
    ASSUME NEW T, NEW s \in Seq(T), NEW K, Only(s, K), K \subseteq Kinds, "text" \notin K
    PROVE  TextsOf(s) = <<>>
<1>1. \A i \in DOMAIN s : s[i][1] \in Kinds \ {"text"}
  BY DEF Only
<1>. QED BY <1>1, DroppingEverything DEF TextsOf

LEMMA TextsTypes ==
    ASSUME NEW T, NEW c \in Seq(T), NEW d \in Seq(T)
    PROVE  TextsOf(c) \in Seq(T) /\ TextsOf(c \o d) = TextsOf(c) \o TextsOf(d)
<1>1. TextsOf(c) \in Seq({t \in T : t[1] \notin Kinds \ {"text"}})
  BY DroppingKind DEF TextsOf
<1>2. TextsOf(c) \in Seq(T)
  BY <1>1, SeqMonotonic
<1>. QED BY <1>2, DroppingConcat DEF TextsOf

(* What a command prints. *)
LEMMA OutputIs ==
    ASSUME sent \in Nat, NEW n \in Nat, NEW y, y = Repeat("text", n) \o <<<<Sentinel, sent>>>>
    PROVE  /\ y \in Seq(Token(sent)) /\ y # <<>> /\ SentinelLast(y) /\ Marked(y)
           /\ Only(y, {"text", Sentinel}) /\ Has(y, Sentinel) /\ TextsOf(y) = Repeat("text", n)
<1>. DEFINE T == Token(sent)
            r == Repeat("text", n)
            e == <<<<Sentinel, sent>>>>
<1>1. <<"text", sent>> \in T /\ <<Sentinel, sent>> \in T
  BY DEF Token, Kinds
<1>2. /\ r \in Seq({<<"text", sent>>}) /\ Len(r) = n /\ DOMAIN r = 1 .. n
      /\ \A i \in 1 .. n : r[i] = <<"text", sent>>
  BY DEF Repeat
<1>3. r \in Seq(T) /\ e \in Seq(T)
  <2>1. r \in Seq(T)
    <3>1. {<<"text", sent>>} \subseteq T
      BY <1>1
    <3>. HIDE DEF r, T
    <3>. QED BY <1>2, <3>1, SeqMonotonic
  <2>. QED BY <1>1, <2>1
<1>4. Len(e) = 1 /\ DOMAIN e = 1 .. 1 /\ e[1] = <<Sentinel, sent>>
  OBVIOUS
<1>. HIDE DEF T, r, e
<1>5. y = r \o e
  BY DEF r, e
<1>6. /\ y \in Seq(T) /\ DOMAIN y = 1 .. n + 1 /\ \A i \in 1 .. n : y[i] = <<"text", sent>>
      /\ y[n + 1] = <<Sentinel, sent>>
  <2>1. /\ r \o e \in Seq(T) /\ DOMAIN (r \o e) = 1 .. Len(r) + Len(e)
        /\ \A i \in 1 .. Len(r) : (r \o e)[i] = r[i]
        /\ \A i \in 1 .. Len(e) : (r \o e)[Len(r) + i] = e[i]
    BY <1>3, ConcatElements
  <2>2. y \in Seq(T) /\ DOMAIN y = 1 .. n + 1 /\ \A i \in 1 .. n : y[i] = r[i]
    BY <1>2, <1>4, <1>5, <2>1
  <2>3. 1 \in 1 .. Len(e) /\ y[n + 1] = e[1]
    <3>1. 1 \in 1 .. Len(e)
      BY <1>4
    <3>2. (r \o e)[Len(r) + 1] = e[1]
      BY <2>1, <3>1
    <3>. QED BY <1>2, <1>5, <3>1, <3>2
  <2>. QED BY <1>2, <1>4, <2>2, <2>3
<1>7. /\ "text" # Sentinel /\ "text" # Ctrl_A /\ Sentinel # Ctrl_A /\ Sentinel # "pid"
      /\ "text" # "pid"
  BY DEF Sentinel, Ctrl_A
<1>8. \A i \in DOMAIN y : /\ y[i][1] \in {"text", Sentinel}
                          /\ y[i][1] = Sentinel => i = n + 1
                          /\ i <= n + 1
  BY <1>6, <1>7
<1>9. SentinelLast(y)
  BY <1>6, <1>8 DEF SentinelLast
<1>10. Marked(y)
  BY <1>7, <1>8 DEF Marked
<1>11. Only(y, {"text", Sentinel})
  BY <1>8 DEF Only
<1>12. Has(y, Sentinel) /\ y # <<>>
  <2>1. n + 1 \in 1 .. n + 1
    OBVIOUS
  <2>2. n + 1 \in DOMAIN y /\ y[n + 1][1] = Sentinel
    BY <1>6, <2>1
  <2>. QED BY <2>2 DEF Has
<1>13. TextsOf(y) = r
  <2>1. TextsOf(r) = r
    <3>1. \A t \in {<<"text", sent>>} : t[1] \notin Kinds \ {"text"}
      OBVIOUS
    <3>. QED BY <1>2, <3>1, DroppingNothing DEF TextsOf
  <2>2. TextsOf(e) = <<>>
    <3>1. Only(e, {Sentinel})
      BY <1>4 DEF Only
    <3>2. {Sentinel} \subseteq Kinds /\ "text" \notin {Sentinel}
      BY <1>7 DEF Kinds
    <3>. QED BY <1>3, <3>1, <3>2, NoTexts
  <2>3. TextsOf(r \o e) = TextsOf(r) \o TextsOf(e)
    BY <1>3, TextsTypes
  <2>. QED BY <1>3, <1>5, <2>1, <2>2, <2>3, EmptyConcat
<1>. QED BY <1>6, <1>9, <1>10, <1>11, <1>12, <1>13 DEF T, r

LEMMA MarkerIs ==
    ASSUME sent \in Nat, NEW y,
           y = <<<<"job", sent>>, <<Ctrl_A, sent>>, <<"pid", sent>>>> \o <<<<Sentinel, sent>>>>
    PROVE  /\ y \in Seq(Token(sent)) /\ y # <<>> /\ SentinelLast(y) /\ Marked(y)
           /\ Only(y, {"job", Ctrl_A, "pid", Sentinel}) /\ Has(y, Sentinel) /\ Has(y, "pid")
           /\ \A i \in DOMAIN y : y[i][2] = sent
           /\ TextsOf(y) = <<>>
<1>. DEFINE z == <<<<"job", sent>>, <<Ctrl_A, sent>>, <<"pid", sent>>, <<Sentinel, sent>>>>
<1>1. y = z
  <2>. DEFINE S == {<<"job", sent>>, <<Ctrl_A, sent>>, <<"pid", sent>>, <<Sentinel, sent>>}
              c == <<<<"job", sent>>, <<Ctrl_A, sent>>, <<"pid", sent>>>>
              d == <<<<Sentinel, sent>>>>
  <2>1. /\ c \in Seq(S) /\ d \in Seq(S) /\ z \in Seq(S) /\ Len(c) = 3 /\ Len(d) = 1 /\ Len(z) = 4
        /\ z[1] = c[1] /\ z[2] = c[2] /\ z[3] = c[3] /\ z[4] = d[1]
    OBVIOUS
  <2>2. y = c \o d
    OBVIOUS
  <2>. HIDE DEF S, c, d, z
  <2>0. c \in Seq(S) /\ d \in Seq(S)
    BY <2>1
  <2>3. /\ c \o d \in Seq(S) /\ Len(c \o d) = Len(c) + Len(d)
        /\ \A i \in 1 .. Len(c) : (c \o d)[i] = c[i]
        /\ \A i \in 1 .. Len(d) : (c \o d)[Len(c) + i] = d[i]
    BY <2>0, ConcatElements
  <2>4. /\ Len(c \o d) = 4 /\ (c \o d)[1] = z[1] /\ (c \o d)[2] = z[2] /\ (c \o d)[3] = z[3]
        /\ (c \o d)[4] = z[4]
    <3>1. 1 \in 1 .. 3 /\ 2 \in 1 .. 3 /\ 3 \in 1 .. 3 /\ 1 \in 1 .. 1 /\ 3 + 1 = 4
      OBVIOUS
    <3>. QED BY <2>1, <2>3, <3>1
  <2>5. c \o d = z
    <3>1. \A i \in 1 .. 4 : (c \o d)[i] = z[i]
      <4>1. \A i \in 1 .. 4 : i = 1 \/ i = 2 \/ i = 3 \/ i = 4
        OBVIOUS
      <4>. QED BY <2>4, <4>1
    <3>2. Len(c \o d) = Len(z) /\ \A i \in 1 .. Len(c \o d) : (c \o d)[i] = z[i]
      BY <2>1, <2>4, <3>1, Zenon
    <3>. QED BY <2>1, <2>3, <3>2, SeqEqual
  <2>. QED BY <2>2, <2>5
<1>2. /\ <<"job", sent>> \in Token(sent) /\ <<Ctrl_A, sent>> \in Token(sent)
      /\ <<"pid", sent>> \in Token(sent) /\ <<Sentinel, sent>> \in Token(sent)
  BY DEF Token, Kinds
<1>3. /\ z \in Seq(Token(sent)) /\ DOMAIN z = 1 .. 4
      /\ z[1] = <<"job", sent>> /\ z[2] = <<Ctrl_A, sent>> /\ z[3] = <<"pid", sent>>
      /\ z[4] = <<Sentinel, sent>>
  BY <1>2
<1>. HIDE DEF z
<1>4. \A i : i \in DOMAIN z <=> i = 1 \/ i = 2 \/ i = 3 \/ i = 4
  BY <1>3
<1>5. "job" # Sentinel /\ "job" # Ctrl_A /\ Sentinel # Ctrl_A /\ Sentinel # "pid" /\ "job" # "pid"
      /\ "pid" # Ctrl_A /\ Sentinel # "text" /\ Ctrl_A # "text"
      /\ "noise" \notin {"job", Ctrl_A, "pid", Sentinel}
  BY DEF Sentinel, Ctrl_A
<1>6. SentinelLast(z)
  BY <1>3, <1>4, <1>5 DEF SentinelLast
<1>7. Marked(z)
  BY <1>3, <1>4, <1>5 DEF Marked
<1>8. Only(z, {"job", Ctrl_A, "pid", Sentinel})
  BY <1>3, <1>4 DEF Only
<1>9. /\ Has(z, Sentinel) /\ Has(z, "pid") /\ z # <<>>
      /\ \A i \in DOMAIN z : z[i][2] = sent
  BY <1>3, <1>4 DEF Has
<1>10. TextsOf(z) = <<>>
  <2>1. /\ {"job", Ctrl_A, "pid", Sentinel} \subseteq Kinds
        /\ "text" \notin {"job", Ctrl_A, "pid", Sentinel}
    BY <1>5 DEF Kinds
  <2>. QED BY <1>3, <1>8, <2>1, NoTexts
<1>. QED BY <1>1, <1>3, <1>6, <1>7, <1>8, <1>9, <1>10

(* A read. *)
LEMMA ChunkIs ==
    ASSUME NEW T, pty \in Seq(T), Read
    PROVE  /\ Chunk \in Seq(T) /\ Chunk # <<>> /\ pty' \in Seq(T)
           /\ pty = Chunk \o pty' /\ Len(pty') \in Nat /\ Len(pty') <= Len(pty)
<1>1. /\ pty # <<>> /\ pty' = SubSeq(pty, Len(Chunk) + 1, Len(pty)) /\ Len(pty) \in Nat \ {0}
      /\ MaxBytes \in Nat \ {0}
  BY ShellAssumption, EmptySeq DEF Read
<1>2. CASE Len(pty) <= MaxBytes
  <2>1. Chunk = pty
    BY <1>2 DEF Chunk
  <2>2. pty' = <<>>
    BY <1>1, <2>1, SubSeqEmpty
  <2>. QED BY <1>1, <2>1, <2>2, EmptyConcat
<1>3. CASE ~(Len(pty) <= MaxBytes)
  <2>1. Chunk = SubSeq(pty, 1, MaxBytes)
    BY <1>3 DEF Chunk
  <2>2. /\ \A i \in 1 .. Len(pty) : pty[i] \in T
        /\ MaxBytes \in 0 .. Len(pty) /\ 1 \in 1 .. Len(pty) + 1
    BY <1>1, <1>3
  <2>3. Chunk \in Seq(T) /\ Len(Chunk) = MaxBytes /\ Chunk # <<>>
    <3>1. \A i \in 1 .. MaxBytes : pty[i] \in T
      BY <1>1, <1>3, <2>2
    <3>2. SubSeq(pty, 1, MaxBytes) \in Seq(T) /\ Len(SubSeq(pty, 1, MaxBytes)) = MaxBytes
      BY <1>1, <3>1, SubSeqProperties
    <3>. QED BY <1>1, <2>1, <3>2, EmptySeq
  <2>4. pty' \in Seq(T) /\ Len(pty') = Len(pty) - MaxBytes
    <3>1. \A i \in MaxBytes + 1 .. Len(pty) : pty[i] \in T
      BY <1>1, <2>2
    <3>2. /\ SubSeq(pty, MaxBytes + 1, Len(pty)) \in Seq(T)
          /\ Len(SubSeq(pty, MaxBytes + 1, Len(pty))) = Len(pty) - MaxBytes
      <4>1. /\ SubSeq(pty, MaxBytes + 1, Len(pty)) \in Seq(T)
            /\ Len(SubSeq(pty, MaxBytes + 1, Len(pty))) =
                  IF MaxBytes + 1 <= Len(pty) THEN Len(pty) - (MaxBytes + 1) + 1 ELSE 0
        BY <1>1, <3>1, SubSeqProperties
      <4>. QED BY <1>1, <1>3, <4>1
    <3>. QED BY <1>1, <2>3, <3>2
  <2>5. pty = Chunk \o pty'
    <3>1. SubSeq(pty, 1, MaxBytes) \o SubSeq(pty, MaxBytes + 1, Len(pty)) = SubSeq(pty, 1, Len(pty))
      <4>1. Len(pty) \in MaxBytes .. Len(pty) /\ MaxBytes \in 1 - 1 .. Len(pty)
        BY <1>1, <1>3
      <4>. QED BY <2>2, <4>1, ConcatAdjacentSubSeq
    <3>2. SubSeq(pty, 1, Len(pty)) = pty
      BY SubSeqFull
    <3>. QED BY <1>1, <2>1, <2>3, <3>1, <3>2
  <2>6. Len(pty') \in Nat /\ Len(pty') <= Len(pty)
    BY <1>1, <1>3, <2>4
  <2>. QED BY <2>3, <2>4, <2>5, <2>6
<1>. QED BY <1>2, <1>3

LEMMA ConcatTurns ==
    ASSUME NEW T, NEW a \in Seq(T), NEW b \in Seq(T), NEW c \in Seq(T)
    PROVE  a \o (b \o c) = (a \o b) \o c
BY ConcatAssociative

(* The whole stream: what is read comes off its beginning. *)
LEMMA StreamTypes ==
    ASSUME TokensOK
    PROVE  Stream \in Seq(Token(sent)) /\ pty \o printing \in Seq(Token(sent))
BY ConcatProperties DEF TokensOK, Stream

LEMMA StreamRead ==
    ASSUME TokensOK, Read, UNCHANGED printing
    PROVE  /\ data \o Chunk \in Seq(Token(sent)) /\ pty' \in Seq(Token(sent))
           /\ pty' \o printing \in Seq(Token(sent)) /\ Len(pty') <= PtySize
           /\ Stream = (data \o Chunk) \o (pty' \o printing)
<1>. DEFINE T == Token(sent)
<1>1. /\ Chunk \in Seq(T) /\ pty' \in Seq(T) /\ pty = Chunk \o pty' /\ Len(pty') \in Nat
      /\ Len(pty') <= Len(pty)
      /\ data \in Seq(T) /\ printing \in Seq(T) /\ Len(pty) <= PtySize /\ Len(pty) \in Nat
  BY ChunkIs, LenProperties DEF TokensOK
<1>. HIDE DEF T
<1>2. data \o Chunk \in Seq(T) /\ pty' \o printing \in Seq(T)
  BY <1>1, ConcatProperties
<1>3. data \o ((Chunk \o pty') \o printing) = (data \o Chunk) \o (pty' \o printing)
  <2>1. data \in Seq(T) /\ Chunk \in Seq(T) /\ pty' \in Seq(T) /\ printing \in Seq(T)
    BY <1>1
  <2>2. pty' \o printing \in Seq(T)
    BY <2>1, ConcatProperties
  <2>3. (Chunk \o pty') \o printing = Chunk \o (pty' \o printing)
    BY <2>1, ConcatAssociative
  <2>4. data \o (Chunk \o (pty' \o printing)) = (data \o Chunk) \o (pty' \o printing)
    <3>. DEFINE x == pty' \o printing
    <3>. HIDE DEF x
    <3>1. x \in Seq(T)
      BY <2>2 DEF x
    <3>2. data \o (Chunk \o x) = (data \o Chunk) \o x
      <4>. DEFINE c == Chunk
      <4>1. data \in Seq(T) /\ c \in Seq(T) /\ x \in Seq(T)
        BY <2>1, <3>1
      <4>. HIDE DEF c
      <4>2. data \o (c \o x) = (data \o c) \o x
        BY <4>1, ConcatTurns
      <4>. QED BY <4>2 DEF c
    <3>. QED BY <3>2 DEF x
  <2>. QED BY <2>3, <2>4
<1>5. Stream = (data \o Chunk) \o (pty' \o printing)
  BY <1>1, <1>3 DEF Stream
<1>6. Len(pty') <= PtySize
  BY <1>1, ShellAssumption
<1>. QED BY <1>1, <1>2, <1>5, <1>6 DEF T

-----------------------------------------------------------------------------
(* The invariant, part by part, over what a step leaves alone.              *)

LEMMA SameStream ==
    ASSUME UNCHANGED <<data, pty, printing>>
    PROVE  Stream' = Stream
BY DEF Stream

LEMMA SamePending ==
    ASSUME UNCHANGED <<typed, rest>>
    PROVE  Pending' = Pending /\ ToMount' = ToMount /\ ToUnmount' = ToUnmount
BY DEF Pending, ToMount, ToUnmount

LEMMA SameFits ==
    ASSUME UNCHANGED <<typed, rest, made>>
    PROVE  Fits(Pending)' = Fits(Pending)
BY DEF Pending, Fits, Makes

LEMMA SameTokens ==
    ASSUME TokensOK, UNCHANGED <<pty, printing, output, data, sent>>
    PROVE  TokensOK'
BY DEF TokensOK

LEMMA SameStreamOK ==
    ASSUME StreamOK, Stream' = Stream, UNCHANGED data, (at' = "marker") <=> (at = "marker")
    PROVE  StreamOK'
BY DEF StreamOK

LEMMA SamePidOK ==
    ASSUME PidOK, InUse' => InUse, Stream' = Stream, Unread' <=> Unread,
           UNCHANGED <<lastPid, jobs, sent, lastCmd>>
    PROVE  PidOK'
BY DEF PidOK

LEMMA SameAnswerOK ==
    ASSUME AnswerOK, InUse' => InUse, Stream' = Stream, Unread' <=> Unread,
           UNCHANGED <<output, sent, said>>
    PROVE  AnswerOK'
<1>1. Repeat("text", said)' = Repeat("text", said)
  BY DEF Repeat
<1>. QED BY <1>1 DEF AnswerOK

LEMMA SameMountsOK ==
    ASSUME MountsOK, InUse' <=> InUse, UNCHANGED <<typed, rest, made, mounted, op, shell>>,
           at' # "idle" \/ at = "idle"
    PROVE  MountsOK'
<1>1. Pending' = Pending /\ ToMount' = ToMount /\ ToUnmount' = ToUnmount
  BY SamePending
<1>2. Fits(Pending)' = Fits(Pending)
  BY SameFits
<1>. QED BY <1>1, <1>2 DEF MountsOK

LEMMA StutterShell ==
    ASSUME ShellInv, UNCHANGED shellVars
    PROVE  ShellInv'
<1>1. UNCHANGED <<at, op, rest, shell, waiting, lastPid, lastCmd, data, output, sent, bash, typed,
                  printing, said, jobs, noise, made, mounted, pty>>
  BY DEF shellVars, nodeVars, bashVars
<1>2. Stream' = Stream /\ (InUse' <=> InUse) /\ (Unread' <=> Unread)
  BY <1>1, SameStream DEF InUse, Unread
<1>3. NodeOK' /\ TokensOK' /\ StreamOK'
  BY <1>1, <1>2, SameTokens, SameStreamOK DEF ShellInv, NodeOK
<1>4. NewOK' /\ BashOK'
  BY <1>1, <1>2 DEF ShellInv, NewOK, BashOK
<1>5. PidOK' /\ AnswerOK' /\ MountsOK'
  BY <1>1, <1>2, SamePidOK, SameAnswerOK, SameMountsOK DEF ShellInv
<1>. QED BY <1>3, <1>4, <1>5 DEF ShellInv

-----------------------------------------------------------------------------
(* The steps between commands.                                              *)

LEMMA EmptyStream ==
    ASSUME NEW s, s = <<>>
    PROVE  /\ SentinelLast(s) /\ Marked(s) /\ \A K : Only(s, K) /\ No(s, K)
           /\ \A t : ~Has(s, t)
<1>1. DOMAIN s = {}
  BY EmptySeq
<1>. QED BY <1>1 DEF SentinelLast, Marked, Only, No, Has

LEMMA InitShellInv ==
    ASSUME ShellInit
    PROVE  ShellInv
<1>1. Stream = <<>>
  BY EmptySeq, EmptyConcat DEF ShellInit, Stream
<1>2. NodeOK
  <2>1. <<>> \in Seq(Orders) /\ Setup \in Orders
    BY CommandsAreOrders
  <2>2. MaxNoise \in 0 .. MaxNoise
    BY ShellAssumption
  <2>. QED BY <2>1, <2>2 DEF ShellInit, NodeOK
<1>3. TokensOK
  <2>1. <<>> \in Seq(Token(sent)) /\ Len(<<>>) = 0 /\ 0 <= PtySize
    BY EmptySeq, ShellAssumption
  <2>2. No(<<>>, {"noise"})
    BY EmptyStream
  <2>. QED BY <2>1, <2>2 DEF ShellInit, TokensOK
<1>4. NewOK
  BY DEF ShellInit, NewOK, Setup, Command
<1>5. StreamOK
  BY <1>1, EmptyStream DEF ShellInit, StreamOK
<1>6. ~InUse
  BY DEF ShellInit, InUse
<1>7. BashOK /\ PidOK /\ AnswerOK /\ MountsOK
  BY <1>6 DEF BashOK, PidOK, AnswerOK, MountsOK, ShellInit
<1>. QED BY <1>2, <1>3, <1>4, <1>5, <1>7 DEF ShellInv

(* Between commands bash waits for the next one and the terminal holds only noise. *)
LEMMA BetweenCommands ==
    ASSUME ShellInv, InUse, at \in {"send", "idle"}
    PROVE  /\ ~waiting /\ typed = <<>> /\ bash = "prompt" /\ printing = <<>> /\ data = <<>>
           /\ Only(Stream, {"noise"}) /\ Pending = rest /\ ~Unread /\ Stream = pty
           /\ rest \in Seq(Orders)
<1>1. ~waiting /\ typed = <<>> /\ bash = "prompt" /\ printing = <<>> /\ Only(Stream, {"noise"})
  BY DEF ShellInv, BashOK
<1>2. data = <<>> /\ rest \in Seq(Orders) /\ pty \in Seq(Token(sent))
  BY DEF ShellInv, StreamOK, NodeOK, TokensOK
<1>3. Pending = rest
  BY <1>1, <1>2, EmptyConcat DEF Pending
<1>4. Stream = pty
  BY <1>1, <1>2, EmptyConcat DEF Stream
<1>. QED BY <1>1, <1>2, <1>3, <1>4 DEF Unread

LEMMA StartShellInv ==
    ASSUME ShellInv, StartShell
    PROVE  ShellInv'
<1>1. /\ at = "new" /\ shell' = TRUE /\ bash' = "boot" /\ at' = "prompt"
      /\ UNCHANGED <<op, rest, waiting, lastPid, lastCmd, data, output, sent>>
      /\ UNCHANGED <<typed, said, jobs, noise, made, mounted, pty>>
  BY DEF StartShell
<1>2. PICK n \in 0 .. 1 : printing' = Repeat("text", n) \o <<<<Sentinel, 0>>>>
  BY DEF StartShell
<1>3. /\ sent = 0 /\ typed = <<>> /\ rest = <<>> /\ jobs = {} /\ pty = <<>> /\ ~shell
      /\ op = "start"
      /\ output = <<>> /\ lastPid = 0 /\ said = 0 /\ ~lastCmd.bg /\ ~waiting
  BY <1>1 DEF ShellInv, NewOK
<1>4. data = <<>>
  BY <1>1 DEF ShellInv, StreamOK
<1>5. /\ printing' \in Seq(Token(sent)) /\ printing' # <<>> /\ SentinelLast(printing')
      /\ Marked(printing') /\ Only(printing', {"text", Sentinel}) /\ Has(printing', Sentinel)
  <2>1. n \in Nat /\ sent \in Nat /\ printing' = Repeat("text", n) \o <<<<Sentinel, sent>>>>
    BY <1>2, <1>3
  <2>. QED BY <2>1, OutputIs
<1>6. Stream' = printing'
  <2>1. Stream' = <<>> \o (<<>> \o printing')
    BY <1>1, <1>3, <1>4 DEF Stream
  <2>. QED BY <1>5, <2>1, EmptyConcat
<1>7. NodeOK'
  BY <1>1 DEF ShellInv, NodeOK
<1>8. TokensOK'
  <2>1. No(printing', {"noise"})
    BY <1>5 DEF Only, No, Sentinel
  <2>2. Token(sent)' = Token(sent)
    BY <1>1 DEF Token
  <2>. QED BY <1>1, <1>5, <2>1, <2>2 DEF ShellInv, TokensOK
<1>9. NewOK'
  BY <1>1, <1>3, <1>5, <1>6 DEF NewOK
<1>10. ~InUse'
  BY <1>1 DEF InUse
<1>11. BashOK' /\ PidOK' /\ AnswerOK'
  BY <1>10 DEF BashOK, PidOK, AnswerOK
<1>12. StreamOK'
  BY <1>1, <1>4, <1>5, <1>6 DEF StreamOK
<1>13. MountsOK'
  <2>1. ~InUse
    BY <1>3 DEF InUse
  <2>. QED BY <1>1, <1>10, <2>1 DEF ShellInv, MountsOK
<1>. QED BY <1>7, <1>8, <1>9, <1>11, <1>12, <1>13 DEF ShellInv

LEMMA WaitOutputInv ==
    ASSUME ShellInv, waitOutput
    PROVE  ShellInv'
<1>1. /\ at = "monitor" /\ ~waiting /\ at' = "send"
      /\ UNCHANGED <<op, rest, shell, waiting, lastPid, lastCmd, data, output, sent, pty, bash,
                     typed,
                     printing, said, jobs, noise, made, mounted>>
  BY DEF waitOutput, bashVars
<1>2. Stream' = Stream /\ (InUse' <=> InUse) /\ (Unread' <=> Unread)
  BY <1>1, SameStream DEF InUse, Unread
<1>3. NodeOK' /\ TokensOK' /\ StreamOK' /\ PidOK' /\ AnswerOK' /\ MountsOK'
  BY <1>1, <1>2, SameTokens, SameStreamOK, SamePidOK, SameAnswerOK, SameMountsOK DEF ShellInv,
     NodeOK
<1>4. NewOK' /\ BashOK'
  BY <1>1, <1>2 DEF ShellInv, NewOK, BashOK
<1>. QED BY <1>3, <1>4 DEF ShellInv

LEMMA ReturnInv ==
    ASSUME ShellInv, Return
    PROVE  ShellInv'
<1>1. /\ at = "send" /\ rest = <<>> /\ op \in {"start", "cmd"} /\ at' = "idle"
      /\ UNCHANGED <<op, rest, shell, waiting, lastPid, lastCmd, data, output, sent, pty, bash,
                     typed,
                     printing, said, jobs, noise, made, mounted>>
  BY DEF Return, bashVars
<1>2. Stream' = Stream /\ (InUse' <=> InUse) /\ (Unread' <=> Unread)
  BY <1>1, SameStream DEF InUse, Unread
<1>3. NodeOK' /\ TokensOK' /\ StreamOK' /\ PidOK' /\ AnswerOK'
  BY <1>1, <1>2, SameTokens, SameStreamOK, SamePidOK, SameAnswerOK DEF ShellInv, NodeOK
<1>4. NewOK' /\ BashOK'
  BY <1>1, <1>2 DEF ShellInv, NewOK, BashOK
<1>5. MountsOK'
  <2>1. /\ Pending' = Pending /\ ToMount' = ToMount /\ ToUnmount' = ToUnmount
        /\ Fits(Pending)' = Fits(Pending)
    BY <1>1, SamePending, SameFits
  <2>. QED BY <1>1, <1>2, <2>1 DEF ShellInv, MountsOK
<1>. QED BY <1>3, <1>4, <1>5 DEF ShellInv

LEMMA IgnoreCmdInv ==
    ASSUME ShellInv, IgnoreCmd
    PROVE  ShellInv'
<1>1. /\ at = "send" /\ rest # <<>> /\ ~shell /\ rest' = Tail(rest) /\ sent' = sent + 1
      /\ UNCHANGED <<at, op, shell, waiting, lastPid, lastCmd, data, output, pty, bash, typed,
                     printing, said, jobs, noise, made, mounted>>
  BY DEF IgnoreCmd, bashVars
<1>2. rest \in Seq(Orders) /\ rest' \in Seq(Orders) /\ sent \in Nat /\ sent' \in Nat
  BY <1>1 DEF ShellInv, NodeOK
<1>3. NodeOK'
  BY <1>1, <1>2 DEF ShellInv, NodeOK
<1>4. TokensOK'
  <2>1. Token(sent) \subseteq Token(sent')
    BY <1>1, <1>2 DEF Token
  <2>2. /\ pty \in Seq(Token(sent')) /\ printing \in Seq(Token(sent'))
        /\ output \in Seq(Token(sent')) /\ data \in Seq(Token(sent'))
    BY <2>1, SeqMonotonic DEF ShellInv, TokensOK
  <2>. QED BY <1>1, <2>2 DEF ShellInv, TokensOK
<1>5. ~InUse /\ ~InUse'
  BY <1>1 DEF InUse
<1>6. NewOK' /\ StreamOK'
  BY <1>1, SameStream, SameStreamOK DEF ShellInv, NewOK
<1>7. BashOK' /\ PidOK' /\ AnswerOK'
  BY <1>5 DEF BashOK, PidOK, AnswerOK
<1>8. MountsOK'
  BY <1>1, <1>5 DEF ShellInv, MountsOK
<1>. QED BY <1>3, <1>4, <1>6, <1>7, <1>8 DEF ShellInv

(* What the caller asks for: its commands are of one kind. *)
LEMMA CallInv ==
    ASSUME ShellInv, at = "idle", at' = "send", rest' \in Seq(Orders), op' \in {"cmd", "terminate"},
           ~shell => op' = "cmd",
           UNCHANGED <<shell, waiting, lastPid, lastCmd, data, output, sent, pty, bash, typed,
                       printing, said, jobs, noise, made, mounted>>,
           op' = "cmd" => \A k \in DOMAIN rest' : rest'[k].does = "work",
           op' = "terminate" =>
              /\ \A k \in DOMAIN rest' : rest'[k].does = "umount"
              /\ \A x \in Range(PrivateDirs) :
                    \E k \in DOMAIN rest' : rest'[k] = Command("umount", Point(x))
    PROVE  ShellInv'
<1>1. Stream' = Stream /\ (InUse' <=> InUse) /\ (Unread' <=> Unread)
  BY SameStream DEF InUse, Unread
<1>2. NodeOK' /\ TokensOK' /\ StreamOK' /\ PidOK' /\ AnswerOK'
  BY <1>1, SameTokens, SameStreamOK, SamePidOK, SameAnswerOK DEF ShellInv, NodeOK
<1>3. NewOK' /\ BashOK'
  BY <1>1 DEF ShellInv, NewOK, BashOK
<1>4. MountsOK'
  <2>1. CASE ~InUse
    BY <1>1, <2>1 DEF ShellInv, MountsOK
  <2>2. CASE InUse
    <3>1. Pending = rest /\ rest = <<>> /\ typed = <<>> /\ DOMAIN Pending = {}
      BY <2>2, BetweenCommands, EmptySeq DEF ShellInv, MountsOK
    <3>2. Pending' = rest'
      BY <3>1, EmptyConcat DEF Pending
    <3>3. ToMount = {}
      BY <3>1 DEF ToMount
    <3>4. mounted = Range(PrivateDirs)
      BY <2>2, <3>3 DEF ShellInv, MountsOK, InUse, NodeOK
    <3>5. op' = "terminate" => ToUnmount' = Range(PrivateDirs)
      BY <3>2 DEF ToUnmount
    <3>. QED BY <1>1, <2>2, <3>2, <3>4, <3>5 DEF MountsOK
  <2>. QED BY <2>1, <2>2
<1>. QED BY <1>2, <1>3, <1>4 DEF ShellInv

LEMMA CmdInv ==
    ASSUME ShellInv, cmd
    PROVE  ShellInv'
<1>1. PICK bg \in BOOLEAN : rest' = <<Work(bg)>>
  BY DEF cmd
<1>2. Work(bg) \in Orders /\ Work(bg).does = "work"
  BY CommandsAreOrders DEF Work
<1>3. rest' \in Seq(Orders) /\ \A k \in DOMAIN rest' : rest'[k].does = "work"
  <2>. HIDE DEF Work
  <2>1. rest' \in Seq(Orders) /\ DOMAIN rest' = 1 .. 1 /\ rest'[1] = Work(bg)
    BY <1>1, <1>2
  <2>. QED BY <1>2, <2>1
<1>. QED BY <1>3, CallInv DEF cmd, bashVars

LEMMA TerminateInv ==
    ASSUME ShellInv, terminate
    PROVE  ShellInv'
<1>1. rest' = [i \in DOMAIN PrivateDirs |-> Command("umount", Point(PrivateDirs[i]))]
  BY DEF terminate, unmountPrivateDirs
<1>2. /\ PrivateDirs \in Seq(Range(PrivateDirs)) /\ DOMAIN PrivateDirs = 1 .. Len(PrivateDirs)
      /\ Len(PrivateDirs) \in Nat
      /\ Range(PrivateDirs) = {PrivateDirs[i] : i \in DOMAIN PrivateDirs}
  BY ShellAssumption DEF Range
<1>3. \A i \in DOMAIN PrivateDirs : Command("umount", Point(PrivateDirs[i])) \in Orders
  BY <1>2, CommandsAreOrders
<1>4. rest' \in Seq(Orders)
  BY <1>1, <1>2, <1>3
<1>5. \A k \in DOMAIN rest' : rest'[k].does = "umount"
  BY <1>1 DEF Command
<1>6. \A x \in Range(PrivateDirs) : \E k \in DOMAIN rest' : rest'[k] = Command("umount", Point(x))
  BY <1>1, <1>2
<1>. QED BY <1>4, <1>5, <1>6, CallInv DEF terminate, bashVars

LEMMA KillInv ==
    ASSUME ShellInv, Kill
    PROVE  ShellInv'
<1>1. /\ at = "send" /\ rest = <<>> /\ op = "terminate" /\ shell' = FALSE /\ at' = "idle"
      /\ bash' = "off" /\ typed' = <<>> /\ printing' = <<>> /\ jobs' = {} /\ pty' = <<>>
      /\ UNCHANGED <<op, rest, waiting, lastPid, lastCmd, data, output, sent, said, noise, made,
                     mounted>>
  BY DEF Kill
<1>2. InUse /\ ~InUse'
  BY <1>1 DEF ShellInv, NewOK, NodeOK, InUse
<1>3. ~waiting /\ typed = <<>> /\ data = <<>> /\ Pending = <<>>
  BY <1>1, <1>2, BetweenCommands
<1>4. Stream' = <<>>
  BY <1>1, <1>3, EmptyConcat, EmptySeq DEF Stream
<1>5. mounted = {}
  <2>1. DOMAIN Pending = {}
    BY <1>3, EmptySeq
  <2>2. ToUnmount = {}
    BY <2>1 DEF ToUnmount
  <2>. QED BY <1>1, <1>2, <2>2 DEF ShellInv, MountsOK
<1>6. NodeOK'
  BY <1>1 DEF ShellInv, NodeOK
<1>7. TokensOK'
  <2>1. Token(sent)' = Token(sent)
    BY <1>1 DEF Token
  <2>2. <<>> \in Seq(Token(sent)) /\ Len(<<>>) = 0 /\ 0 <= PtySize /\ No(<<>>, {"noise"})
    BY EmptySeq, EmptyStream, ShellAssumption
  <2>. QED BY <1>1, <2>1, <2>2 DEF ShellInv, TokensOK
<1>8. NewOK' /\ StreamOK'
  BY <1>1, <1>3, <1>4, EmptyStream DEF NewOK, StreamOK
<1>9. BashOK' /\ PidOK' /\ AnswerOK' /\ MountsOK'
  BY <1>1, <1>2, <1>5 DEF BashOK, PidOK, AnswerOK, MountsOK
<1>. QED BY <1>6, <1>7, <1>8, <1>9 DEF ShellInv

-----------------------------------------------------------------------------
(* The steps that start a command.                                          *)

LEMMA PrependElements ==
    ASSUME NEW T, NEW e \in T, NEW s \in Seq(T)
    PROVE  /\ <<e>> \o s \in Seq(T) /\ Len(s) \in Nat /\ DOMAIN s = 1 .. Len(s)
           /\ DOMAIN (<<e>> \o s) = 1 .. Len(s) + 1
           /\ (<<e>> \o s)[1] = e /\ \A i \in 1 .. Len(s) : (<<e>> \o s)[i + 1] = s[i]
<1>1. <<e>> \in Seq(T) /\ Len(<<e>>) = 1 /\ <<e>>[1] = e /\ 1 \in 1 .. 1
  OBVIOUS
<1>. DEFINE c == <<e>>
<1>2. c \in Seq(T) /\ Len(c) = 1 /\ c[1] = e /\ 1 \in 1 .. 1
  BY <1>1
<1>. HIDE DEF c
<1>3. c \in Seq(T)
  BY <1>2
<1>4. /\ c \o s \in Seq(T) /\ Len(c) \in Nat /\ Len(s) \in Nat
      /\ DOMAIN s = 1 .. Len(s) /\ DOMAIN (c \o s) = 1 .. Len(c) + Len(s)
      /\ \A i \in 1 .. Len(c) : (c \o s)[i] = c[i]
      /\ \A i \in 1 .. Len(s) : (c \o s)[Len(c) + i] = s[i]
  BY <1>3, ConcatElements
<1>5. /\ c \o s \in Seq(T) /\ Len(s) \in Nat /\ DOMAIN s = 1 .. Len(s)
      /\ DOMAIN (c \o s) = 1 .. Len(s) + 1
      /\ (c \o s)[1] = e /\ \A i \in 1 .. Len(s) : (c \o s)[i + 1] = s[i]
  BY <1>2, <1>4
<1>. QED BY <1>5 DEF c

LEMMA FirstOff ==
    ASSUME NEW T, NEW s \in Seq(T), s # <<>>
    PROVE  /\ Head(s) \in T /\ Tail(s) \in Seq(T) /\ s = <<Head(s)>> \o Tail(s)
           /\ <<>> \o s = s /\ <<>> \o Tail(s) = Tail(s)
           /\ Append(<<>>, Head(s)) = <<Head(s)>> /\ Head(s) = s[1] /\ 1 \in DOMAIN s
<1>1. /\ Head(s) \in T /\ Tail(s) \in Seq(T) /\ Head(s) = s[1] /\ Len(s) \in Nat /\ Len(s) > 0
      /\ DOMAIN s = 1 .. Len(s)
  BY HeadTailProperties, EmptySeq
<1>2. s = <<Head(s)>> \o Tail(s)
  BY HeadTailProperties
<1>. QED BY <1>1, <1>2, EmptyConcat

(* What the first commands need is made before it is used. *)
LEMMA MountsFit ==
    ASSUME NEW s, s = <<Setup>> \o mountPrivateDirs
    PROVE  /\ s \in Seq(Orders) /\ Fits(s)
           /\ \A x \in Range(PrivateDirs) : \E k \in DOMAIN s : s[k] = Command("mount", Point(x))
<1>. DEFINE m == mountPrivateDirs
<1>1. Mounting(m, Range(PrivateDirs)) /\ Setup \in Orders /\ Setup.does = "setup"
  BY MountsAreMounting, CommandsAreOrders DEF Setup, Command
<1>. HIDE DEF m
<1>2. m \in Seq(Orders) /\ s = <<Setup>> \o m
  BY <1>1 DEF Mounting, m
<1>3. /\ s \in Seq(Orders) /\ Len(m) \in Nat /\ DOMAIN m = 1 .. Len(m) /\ DOMAIN s = 1 .. Len(m) + 1
      /\ s[1] = Setup /\ \A i \in 1 .. Len(m) : s[i + 1] = m[i]
  <2>1. m \in Seq(Orders) /\ Setup \in Orders
    BY <1>1, <1>2
  <2>2. /\ <<Setup>> \o m \in Seq(Orders) /\ Len(m) \in Nat /\ DOMAIN m = 1 .. Len(m)
        /\ DOMAIN (<<Setup>> \o m) = 1 .. Len(m) + 1
        /\ (<<Setup>> \o m)[1] = Setup /\ \A i \in 1 .. Len(m) : (<<Setup>> \o m)[i + 1] = m[i]
    BY <2>1, PrependElements
  <2>. QED BY <1>2, <2>2
<1>4. \A k \in DOMAIN s : k = 1 \/ (k - 1 \in DOMAIN m /\ s[k] = m[k - 1])
  BY <1>3
<1>5. ASSUME NEW k \in DOMAIN m, NEW d, Before(m, k, d)
      PROVE  Before(s, k + 1, d)
  <2>1. PICK i \in DOMAIN m : i < k /\ m[i] = Command("mkdir", d)
    BY <1>5 DEF Before
  <2>2. i + 1 \in DOMAIN s /\ i + 1 < k + 1 /\ s[i + 1] = Command("mkdir", d)
    BY <1>3, <2>1
  <2>. QED BY <2>2 DEF Before
<1>6. Fits(s)
  <2>. SUFFICES ASSUME NEW k \in DOMAIN s
                PROVE  /\ s[k].does \in {"setup", "mkdir", "mount"}
                       /\ s[k].does = "mount" => \E x \in Range(PrivateDirs) :
                             /\ s[k].dir = Point(x) /\ Makes(s, k, Point(x))
                             /\ x \in Bound => Makes(s, k, Source(x))
    BY DEF Fits
  <2>1. CASE k = 1
    BY <1>1, <1>3, <2>1
  <2>2. CASE k - 1 \in DOMAIN m /\ s[k] = m[k - 1]
    <3>1. m[k - 1].does \in {"mkdir", "mount"}
      BY <1>1, <2>2 DEF Mounting
    <3>2. CASE s[k].does = "mount"
      <4>1. PICK x \in Range(PrivateDirs) :
               /\ m[k - 1].dir = Point(x) /\ Before(m, k - 1, Point(x))
               /\ x \in Bound => Before(m, k - 1, Source(x))
        BY <1>1, <2>2, <3>2 DEF Mounting
      <4>2. (k - 1) + 1 = k
        BY <1>3
      <4>3. Before(s, k, Point(x)) /\ (x \in Bound => Before(s, k, Source(x)))
        BY <1>5, <2>2, <4>1, <4>2
      <4>. QED BY <2>2, <3>1, <4>1, <4>3 DEF Makes
    <3>. QED BY <2>2, <3>1, <3>2
  <2>. QED BY <1>4, <2>1, <2>2
<1>7. ASSUME NEW x \in Range(PrivateDirs)
      PROVE  \E k \in DOMAIN s : s[k] = Command("mount", Point(x))
  <2>1. PICK k \in DOMAIN m : m[k] = Command("mount", Point(x))
    BY <1>1 DEF Mounting
  <2>2. k + 1 \in DOMAIN s /\ s[k + 1] = m[k]
    BY <1>3
  <2>. QED BY <2>1, <2>2
<1>. QED BY <1>3, <1>6, <1>7

LEMMA SendCmdInv ==
    ASSUME ShellInv, sendCmd
    PROVE  ShellInv'
<1>1. /\ at = "send" /\ rest # <<>> /\ shell /\ ~waiting
      /\ typed' = Append(typed, Head(rest)) /\ lastCmd' = Head(rest) /\ lastPid' = 0
      /\ waiting' = TRUE
      /\ output' = <<>> /\ sent' = sent + 1 /\ rest' = Tail(rest) /\ at' = "monitor"
      /\ UNCHANGED <<op, shell, data, bash, printing, said, jobs, noise, made, mounted, pty>>
  BY DEF sendCmd
<1>2. InUse /\ InUse'
  BY <1>1 DEF InUse
<1>3. /\ typed = <<>> /\ bash = "prompt" /\ printing = <<>> /\ data = <<>>
      /\ Only(Stream, {"noise"}) /\ Pending = rest /\ rest \in Seq(Orders)
  BY <1>1, <1>2, BetweenCommands
<1>4. /\ Head(rest) \in Orders /\ Tail(rest) \in Seq(Orders) /\ rest = <<Head(rest)>> \o Tail(rest)
      /\ typed' = <<Head(rest)>>
  BY <1>1, <1>3, FirstOff
<1>5. Stream' = Stream
  BY <1>1, SameStream
<1>6. NodeOK'
  <2>1. sent' \in Nat
    BY <1>1 DEF ShellInv, NodeOK
  <2>2. typed' \in Seq(Orders)
    BY <1>4
  <2>. QED BY <1>1, <1>4, <2>1, <2>2 DEF ShellInv, NodeOK
<1>7. TokensOK'
  <2>1. sent \in Nat
    BY DEF ShellInv, NodeOK
  <2>2. Token(sent) \subseteq Token(sent')
    BY <1>1, <2>1 DEF Token
  <2>3. /\ pty \in Seq(Token(sent')) /\ printing \in Seq(Token(sent')) /\ data \in Seq(Token(sent'))
        /\ <<>> \in Seq(Token(sent'))
    BY <2>2, SeqMonotonic, EmptySeq DEF ShellInv, TokensOK
  <2>. QED BY <1>1, <2>3 DEF ShellInv, TokensOK
<1>8. NewOK'
  BY <1>1 DEF NewOK
<1>9. Unread' /\ typed' # <<>> /\ typed' = <<lastCmd'>>
  BY <1>1, <1>3, <1>4 DEF Unread
<1>10. BashOK'
  BY <1>1, <1>3, <1>5, <1>9 DEF BashOK
<1>11. StreamOK'
  BY <1>1, <1>5, SameStreamOK DEF ShellInv
<1>12. PidOK'
  <2>1. No(Stream, Marks) /\ \A i \in DOMAIN Stream : Stream[i][1] # "pid"
    BY <1>3 DEF Only, No, Marks, Ctrl_A
  <2>. QED BY <1>1, <1>5, <1>9, <2>1 DEF PidOK
<1>13. AnswerOK'
  <2>1. TextsOf(<<>>) = <<>> /\ Only(<<>>, {"text", "job", "noise"})
    BY DroppingSteps, EmptyStream DEF TextsOf
  <2>. QED BY <1>1, <1>9, <2>1 DEF AnswerOK
<1>14. MountsOK'
  <2>1. Pending' = Pending
    <3>1. Pending' = <<Head(rest)>> \o Tail(rest)
      BY <1>1, <1>4 DEF Pending
    <3>. QED BY <1>3, <1>4, <3>1
  <2>2. ToMount' = ToMount /\ ToUnmount' = ToUnmount
    BY <2>1 DEF ToMount, ToUnmount
  <2>3. Fits(Pending)' = Fits(Pending)
    BY <1>1, <2>1 DEF Fits, Makes
  <2>. QED BY <1>1, <1>2, <2>1, <2>2, <2>3 DEF ShellInv, MountsOK
<1>. QED BY <1>6, <1>7, <1>8, <1>10, <1>11, <1>12, <1>13, <1>14 DEF ShellInv

LEMMA WaitForPromptInv ==
    ASSUME ShellInv, WaitForPrompt
    PROVE  ShellInv'
<1>. DEFINE T == Token(sent)
            s == pty' \o printing
<1>1. /\ at = "prompt" /\ Read
      /\ UNCHANGED <<op, shell, waiting, lastPid, lastCmd, data, output, sent, bash, typed,
                     printing, said, jobs, noise, made, mounted>>
  BY DEF WaitForPrompt, bashVars
<1>2. /\ shell /\ op = "start" /\ ~waiting /\ Only(Stream, {"text", Sentinel})
      /\ Has(Stream, Sentinel)
      /\ typed = <<>> /\ rest = <<>> /\ jobs = {} /\ output = <<>> /\ lastPid = 0 /\ said = 0
      /\ ~lastCmd.bg
      /\ bash = IF printing = <<>> THEN "prompt" ELSE "boot"
  BY <1>1 DEF ShellInv, NewOK
<1>3. data = <<>> /\ SentinelLast(Stream) /\ Marked(Stream)
  BY <1>1 DEF ShellInv, StreamOK
<1>4. /\ pty' \in Seq(T) /\ s \in Seq(T) /\ Len(pty') <= PtySize /\ Stream = (data \o Chunk) \o s
  BY <1>1, StreamRead DEF ShellInv
<1>5. Chunk \in Seq(T) /\ Chunk # <<>>
  BY <1>1, ChunkIs DEF ShellInv, TokensOK
<1>6. Stream = Chunk \o s /\ Stream' = s
  <2>1. <<>> \o Chunk = Chunk /\ <<>> \o s = s
    BY <1>4, <1>5, EmptyConcat
  <2>2. Stream' = <<>> \o s
    BY <1>1, <1>3 DEF Stream
  <2>. QED BY <1>3, <1>4, <2>1, <2>2
<1>. HIDE DEF T, s
<1>7. /\ Only(Chunk, {"text", Sentinel}) /\ Only(s, {"text", Sentinel})
      /\ Has(Chunk, Sentinel) \/ Has(s, Sentinel)
  BY <1>2, <1>4, <1>5, <1>6, ConcatHas
<1>8. /\ SentinelLast(s) /\ (Has(Chunk, Sentinel) => Only(s, {"noise"}))
      /\ (MarkerIsWhole(Chunk) => Marked(s))
  BY <1>3, <1>4, <1>5, <1>6, StreamCut
<1>9. Marked(s)
  <2>1. ~Has(Chunk, Ctrl_A)
    BY <1>7 DEF Only, Has, Ctrl_A, Sentinel
  <2>. QED BY <1>8, <2>1 DEF MarkerIsWhole
<1>10. TokensOK'
  <2>1. Token(sent)' = Token(sent)
    BY <1>1 DEF Token
  <2>. QED BY <1>1, <1>4, <2>1 DEF ShellInv, TokensOK, T
<1>11. CASE ~IsPrompt(Chunk)
  <2>1. UNCHANGED <<at, rest>>
    BY <1>11 DEF WaitForPrompt
  <2>2. Has(s, Sentinel)
    <3>. SUFFICES ASSUME Has(Chunk, Sentinel) PROVE FALSE
      BY <1>7
    <3>1. PICK i \in DOMAIN Chunk : Chunk[i][1] = Sentinel
      BY DEF Has
    <3>2. /\ Len(Chunk) \in Nat /\ Len(Chunk) # 0 /\ DOMAIN Chunk = 1 .. Len(Chunk)
          /\ Last(Chunk) = Chunk[Len(Chunk)]
      BY <1>5, EmptySeq, LenProperties DEF Last
    <3>3. i < Len(Chunk) /\ Len(Chunk) \in DOMAIN Chunk
      BY <1>11, <3>1, <3>2 DEF IsPrompt
    <3>4. /\ \A j \in 1 .. Len(Chunk) : Stream[j] = Chunk[j] /\ j \in DOMAIN Stream
      <4>1. /\ DOMAIN (Chunk \o s) = 1 .. Len(Chunk) + Len(s) /\ Len(s) \in Nat
            /\ \A j \in 1 .. Len(Chunk) : (Chunk \o s)[j] = Chunk[j]
        BY <1>4, <1>5, ConcatElements
      <4>. QED BY <1>6, <3>2, <4>1
    <3>5. Chunk[Len(Chunk)][1] = "noise"
      BY <1>3, <3>1, <3>2, <3>3, <3>4 DEF SentinelLast
    <3>. QED BY <1>7, <3>3, <3>5 DEF Only, Sentinel
  <2>3. NodeOK' /\ NewOK'
    BY <1>1, <1>2, <1>6, <1>7, <2>1, <2>2 DEF ShellInv, NodeOK, NewOK
  <2>4. ~InUse' /\ ~InUse
    BY <1>1, <2>1 DEF InUse
  <2>5. BashOK' /\ PidOK' /\ AnswerOK'
    BY <2>4 DEF BashOK, PidOK, AnswerOK
  <2>6. StreamOK'
    BY <1>1, <1>3, <1>6, <1>8, <1>9, <2>1 DEF StreamOK
  <2>7. MountsOK'
    BY <1>1, <2>1, <2>4, SameMountsOK DEF ShellInv
  <2>. QED BY <1>10, <2>3, <2>5, <2>6, <2>7 DEF ShellInv
<1>12. CASE IsPrompt(Chunk)
  <2>1. at' = "send" /\ rest' = <<Setup>> \o mountPrivateDirs
    BY <1>12 DEF WaitForPrompt
  <2>2. Only(s, {"noise"})
    <3>1. /\ Len(Chunk) \in DOMAIN Chunk /\ Last(Chunk) = Chunk[Len(Chunk)]
      BY <1>5, EmptySeq, LenProperties DEF Last
    <3>. QED BY <1>8, <1>12, <3>1 DEF IsPrompt, Has
  <2>3. s = <<>>
    <3>1. DOMAIN s = {}
      BY <1>7, <2>2 DEF Only, Sentinel
    <3>. QED BY <1>4, <3>1, EmptySeq, LenProperties
  <2>4. pty' = <<>> /\ printing = <<>> /\ bash = "prompt"
    <3>1. printing \in Seq(T)
      BY DEF ShellInv, TokensOK, T
    <3>2. /\ Len(s) = Len(pty') + Len(printing) /\ Len(pty') \in Nat /\ Len(printing) \in Nat
          /\ Len(s) = 0
      BY <1>4, <2>3, <3>1, ConcatProperties, EmptySeq, LenProperties DEF s
    <3>3. Len(pty') = 0 /\ Len(printing) = 0 /\ pty' \in Seq(T)
      BY <1>4, <3>2
    <3>4. pty' = <<>> /\ printing = <<>>
      BY <3>1, <3>3, EmptySeq
    <3>. QED BY <1>2, <3>4
  <2>5. /\ rest' \in Seq(Orders) /\ Fits(rest')
        /\ \A x \in Range(PrivateDirs) : \E k \in DOMAIN rest' : rest'[k] = Command("mount", Point(x))
    BY <2>1, MountsFit
  <2>6. NodeOK' /\ NewOK'
    BY <1>1, <1>2, <2>1, <2>5 DEF ShellInv, NodeOK, NewOK
  <2>7. BashOK'
    BY <1>1, <1>2, <1>6, <2>1, <2>2, <2>4 DEF BashOK
  <2>8. StreamOK'
    BY <1>1, <1>3, <1>6, <1>8, <1>9, <2>1 DEF StreamOK
  <2>9. PidOK'
    <3>1. No(s, Marks) /\ DOMAIN s = {}
      BY <2>3, EmptyStream, EmptySeq
    <3>. QED BY <1>1, <1>2, <1>6, <3>1 DEF PidOK
  <2>10. AnswerOK'
    <3>1. TextsOf(<<>>) = <<>> /\ Only(<<>>, {"text", "job", "noise"}) /\ <<>> \o <<>> = <<>>
      BY DroppingSteps, EmptyStream, EmptyConcat, EmptySeq DEF TextsOf
    <3>2. Repeat("text", said)' = <<>>
      <4>1. 1 .. 0 = {}
        OBVIOUS
      <4>2. Repeat("text", said)' = [i \in 1 .. 0 |-> <<"text", sent>>]
        BY <1>1, <1>2 DEF Repeat
      <4>. QED BY <4>1, <4>2
    <3>3. ~Unread'
      BY <1>1, <1>2 DEF Unread
    <3>. QED BY <1>1, <1>2, <1>6, <2>3, <3>1, <3>2, <3>3 DEF AnswerOK
  <2>11. MountsOK'
    <3>1. Pending' = rest'
      BY <1>1, <1>2, <2>5, EmptyConcat DEF Pending
    <3>2. Fits(Pending)'
      BY <1>1, <2>5, <3>1 DEF Fits, Makes
    <3>3. Range(PrivateDirs) \subseteq ToMount'
      BY <2>5, <3>1 DEF ToMount
    <3>. QED BY <1>1, <1>2, <2>1, <3>2, <3>3 DEF ShellInv, MountsOK, InUse
  <2>. QED BY <1>10, <2>6, <2>7, <2>8, <2>9, <2>10, <2>11 DEF ShellInv
<1>. QED BY <1>11, <1>12

-----------------------------------------------------------------------------
(* bash and the programs in the background.                                 *)

Pids(s, n) == \A i \in DOMAIN s : s[i][1] = "pid" => s[i][2] = n

LEMMA ConcatPids ==
    ASSUME NEW T, NEW c \in Seq(T), NEW d \in Seq(T), NEW n
    PROVE  Pids(c \o d, n) <=> Pids(c, n) /\ Pids(d, n)
<1>. DEFINE s == c \o d
<1>1. /\ Len(c) \in Nat /\ Len(d) \in Nat
      /\ DOMAIN c = 1 .. Len(c) /\ DOMAIN d = 1 .. Len(d) /\ DOMAIN s = 1 .. Len(c) + Len(d)
      /\ \A i \in 1 .. Len(c) : s[i] = c[i]
      /\ \A i \in 1 .. Len(d) : s[Len(c) + i] = d[i]
      /\ \A i \in 1 .. Len(c) + Len(d) :
            i \in 1 .. Len(c) \/ (i - Len(c) \in 1 .. Len(d) /\ s[i] = d[i - Len(c)])
  BY ConcatElements
<1>. HIDE DEF s
<1>2. Pids(s, n) => Pids(c, n)
  BY <1>1 DEF Pids
<1>3. Pids(s, n) => Pids(d, n)
  <2>. SUFFICES ASSUME Pids(s, n), NEW i \in DOMAIN d, d[i][1] = "pid" PROVE d[i][2] = n
    BY DEF Pids
  <2>1. Len(c) + i \in DOMAIN s /\ s[Len(c) + i] = d[i]
    BY <1>1
  <2>. QED BY <2>1 DEF Pids
<1>4. Pids(c, n) /\ Pids(d, n) => Pids(s, n)
  BY <1>1 DEF Pids
<1>. QED BY <1>2, <1>3, <1>4 DEF s

LEMMA BashReadsInv ==
    ASSUME ShellInv, BashReads
    PROVE  ShellInv'
<1>. DEFINE T == Token(sent)
            y == printing'
<1>1. /\ bash = "prompt" /\ typed # <<>> /\ bash' = "run"
      /\ UNCHANGED <<at, op, rest, shell, waiting, lastPid, lastCmd, data, output, sent, typed,
                     noise,
                     made, mounted, pty>>
  BY DEF BashReads, nodeVars
<1>2. InUse /\ InUse' /\ Unread /\ ~Unread'
  BY <1>1 DEF ShellInv, NewOK, NodeOK, InUse, Unread
<1>3. /\ typed = <<lastCmd>> /\ waiting /\ printing = <<>> /\ Only(Stream, {"noise"}) /\ lastPid = 0
      /\ TextsOf(output) = <<>> /\ Only(output, {"text", "job", "noise"}) /\ sent \in Nat
      /\ at \in {"monitor", "marker"}
  BY <1>1, <1>2 DEF ShellInv, BashOK, PidOK, AnswerOK, NodeOK
<1>4. Head(typed) = lastCmd
  <2>1. lastCmd \in Orders
    BY DEF ShellInv, NodeOK
  <2>. QED BY <1>3, <2>1
<1>5. /\ y \in Seq(T) /\ y # <<>> /\ SentinelLast(y) /\ Marked(y) /\ Has(y, Sentinel)
      /\ Pids(y, sent)
      /\ No(y, {"noise"}) /\ said' \in Nat /\ TextsOf(y) = Repeat("text", said')
      /\ ~lastCmd.bg => No(y, Marks) /\ jobs' = jobs
      /\ lastCmd.bg => Has(y, "pid") /\ jobs' = jobs \union {sent}
  <2>1. CASE lastCmd.bg
    <3>1. /\ y = <<<<"job", sent>>, <<Ctrl_A, sent>>, <<"pid", sent>>>> \o <<<<Sentinel, sent>>>>
          /\ said' = 0 /\ jobs' = jobs \union {sent}
      BY <1>4, <2>1 DEF BashReads
    <3>2. /\ y \in Seq(T) /\ y # <<>> /\ SentinelLast(y) /\ Marked(y)
          /\ Only(y, {"job", Ctrl_A, "pid", Sentinel}) /\ Has(y, Sentinel) /\ Has(y, "pid")
          /\ \A i \in DOMAIN y : y[i][2] = sent
          /\ TextsOf(y) = <<>>
      BY <1>3, <3>1, MarkerIs
    <3>3. No(y, {"noise"}) /\ Pids(y, sent)
      BY <3>2 DEF Only, No, Pids, Ctrl_A, Sentinel
    <3>4. Repeat("text", 0) = <<>>
      <4>1. 1 .. 0 = {}
        OBVIOUS
      <4>. QED BY <4>1 DEF Repeat
    <3>. QED BY <2>1, <3>1, <3>2, <3>3, <3>4
  <2>2. CASE ~lastCmd.bg
    <3>1. PICK n \in 0 .. MaxOutput : /\ y = Repeat("text", n) \o <<<<Sentinel, sent>>>>
                                      /\ said' = n /\ jobs' = jobs
      BY <1>4, <2>2 DEF BashReads
    <3>2. n \in Nat
      BY <3>1, ShellAssumption
    <3>3. /\ y \in Seq(T) /\ y # <<>> /\ SentinelLast(y) /\ Marked(y)
          /\ Only(y, {"text", Sentinel}) /\ Has(y, Sentinel) /\ TextsOf(y) = Repeat("text", n)
      BY <1>3, <3>1, <3>2, OutputIs
    <3>4. No(y, {"noise"}) /\ Pids(y, sent) /\ No(y, Marks)
      BY <3>3 DEF Only, No, Pids, Ctrl_A, Sentinel, Marks
    <3>. QED BY <2>2, <3>1, <3>2, <3>3, <3>4
  <2>. QED BY <2>1, <2>2
<1>6. Stream \in Seq(T) /\ Stream' = Stream \o y
  <2>1. data \in Seq(T) /\ pty \in Seq(T)
    BY DEF ShellInv, TokensOK
  <2>2. Stream = data \o pty
    BY <1>3, <2>1, EmptyConcat DEF Stream
  <2>3. Stream' = data \o (pty \o y)
    BY <1>1 DEF Stream
  <2>. HIDE DEF T, y
  <2>4. data \o (pty \o y) = (data \o pty) \o y
    <3>1. y \in Seq(T)
      BY <1>5
    <3>. QED BY <2>1, <3>1, ConcatTurns
  <2>5. data \o pty \in Seq(T)
    BY <2>1, ConcatProperties
  <2>. QED BY <2>2, <2>3, <2>4, <2>5
<1>. HIDE DEF T, y
<1>7. SentinelLast(Stream') /\ Marked(Stream')
  BY <1>3, <1>5, <1>6, StreamBegin
<1>8. /\ \A t : Has(Stream', t) <=> Has(Stream, t) \/ Has(y, t)
      /\ \A K : No(Stream', K) <=> No(Stream, K) /\ No(y, K)
  BY <1>5, <1>6, ConcatHas
<1>9. Pids(Stream', sent)
  <2>1. Pids(Stream, sent)
    BY <1>3 DEF Only, Pids
  <2>. QED BY <1>5, <1>6, <2>1, ConcatPids
<1>10. TextsOf(Stream') = Repeat("text", said')
  <2>1. TextsOf(Stream) = <<>>
    <3>1. {"noise"} \subseteq Kinds /\ "text" \notin {"noise"}
      BY DEF Kinds
    <3>. QED BY <1>3, <1>6, <3>1, NoTexts
  <2>2. TextsOf(y) \in Seq(T) /\ TextsOf(Stream \o y) = TextsOf(Stream) \o TextsOf(y)
    BY <1>5, <1>6, TextsTypes
  <2>. QED BY <1>5, <1>6, <2>1, <2>2, EmptyConcat
<1>11. NodeOK'
  <2>1. jobs' \subseteq Nat
    BY <1>3, <1>5 DEF ShellInv, NodeOK
  <2>. QED BY <1>1, <1>5, <2>1 DEF ShellInv, NodeOK
<1>12. TokensOK'
  <2>1. Token(sent)' = T
    BY <1>1 DEF Token, T
  <2>. QED BY <1>1, <1>5, <2>1 DEF ShellInv, TokensOK, y, T
<1>13. NewOK'
  BY <1>1, <1>2, <1>3 DEF NewOK, InUse
<1>14. BashOK'
  <2>1. printing' # <<>> /\ Has(Stream', Sentinel)
    BY <1>5, <1>8 DEF y
  <2>. QED BY <1>1, <1>2, <1>3, <2>1 DEF BashOK
<1>15. StreamOK'
  BY <1>1, <1>7 DEF ShellInv, StreamOK
<1>16. PidOK'
  <2>1. ~lastCmd.bg => No(Stream', Marks)
    <3>1. No(Stream, Marks)
      BY <1>3 DEF Only, No, Marks, Ctrl_A
    <3>. QED BY <1>5, <1>8, <3>1
  <2>2. lastCmd.bg => sent \in jobs' /\ Has(Stream', "pid")
    BY <1>5, <1>8
  <2>. QED BY <1>1, <1>2, <1>3, <1>9, <2>1, <2>2 DEF PidOK, Pids
<1>17. AnswerOK'
  <2>1. Repeat("text", said)' = Repeat("text", said')
    BY <1>1 DEF Repeat
  <2>2. Repeat("text", said') \in Seq({<<"text", sent>>})
    BY <1>5 DEF Repeat
  <2>3. <<>> \o Repeat("text", said') = Repeat("text", said')
    BY <2>2, EmptyConcat
  <2>. QED BY <1>1, <1>2, <1>3, <1>10, <2>1, <2>3 DEF AnswerOK
<1>18. MountsOK'
  BY <1>1, <1>2, SameMountsOK DEF ShellInv
<1>. QED BY <1>11, <1>12, <1>13, <1>14, <1>15, <1>16, <1>17, <1>18 DEF ShellInv

(* A command of the pending ones has done its work. *)
LEMMA DoneMounts ==
    ASSUME ShellInv, InUse, typed = <<lastCmd>>, Done(lastCmd), typed' = <<>>, InUse',
           UNCHANGED <<rest, op, at, shell>>
    PROVE  MountsOK'
<1>1. rest \in Seq(Orders) /\ lastCmd \in Orders /\ op \in {"start", "cmd", "terminate"}
  BY DEF ShellInv, NodeOK
<1>2. Pending = <<lastCmd>> \o rest /\ Pending' = rest
  <2>1. Pending' = <<>> \o rest
    BY DEF Pending
  <2>. QED BY <1>1, <2>1, EmptyConcat DEF Pending
<1>3. /\ Len(rest) \in Nat /\ DOMAIN rest = 1 .. Len(rest) /\ DOMAIN Pending = 1 .. Len(rest) + 1
      /\ Pending[1] = lastCmd /\ \A i \in 1 .. Len(rest) : Pending[i + 1] = rest[i]
  <2>1. /\ Len(rest) \in Nat /\ DOMAIN rest = 1 .. Len(rest)
        /\ DOMAIN (<<lastCmd>> \o rest) = 1 .. Len(rest) + 1
        /\ (<<lastCmd>> \o rest)[1] = lastCmd
        /\ \A i \in 1 .. Len(rest) : (<<lastCmd>> \o rest)[i + 1] = rest[i]
    BY <1>1, PrependElements
  <2>. QED BY <1>2, <2>1
<1>4. /\ 1 \in DOMAIN Pending
      /\ \A k \in DOMAIN Pending : k = 1 \/ (k - 1 \in DOMAIN rest /\ Pending[k] = rest[k - 1])
      /\ \A k \in DOMAIN rest : k + 1 \in DOMAIN Pending /\ Pending[k + 1] = rest[k]
  BY <1>3
<1>5. /\ mounted \subseteq Range(PrivateDirs)
      /\ at = "idle" => rest = <<>>
      /\ at = "idle" /\ op = "terminate" => ~shell
  BY DEF ShellInv, MountsOK
<1>6. made' = IF lastCmd.does = "mkdir" THEN made \union {lastCmd.dir} ELSE made
  BY DEF Done
<1>7. CASE op = "start"
  <2>1. Fits(Pending) /\ Range(PrivateDirs) \subseteq mounted \union ToMount
    BY <1>7 DEF ShellInv, MountsOK
  <2>2. lastCmd.does \in {"setup", "mkdir", "mount"}
    BY <1>3, <1>4, <2>1 DEF Fits
  <2>3. ASSUME lastCmd.does # "mount"
        PROVE  /\ mounted' \subseteq Range(PrivateDirs)
               /\ Range(PrivateDirs) \subseteq mounted' \union ToMount'
    <3>1. mounted' = mounted
      BY <2>2, <2>3 DEF Done
    <3>2. Range(PrivateDirs) \subseteq mounted \union ToMount'
      <4>. SUFFICES ASSUME NEW x \in ToMount PROVE x \in ToMount'
        BY <2>1
      <4>1. PICK k \in DOMAIN Pending :
               Pending[k] = Command("mount", Point(x)) /\ x \in Range(PrivateDirs)
        BY DEF ToMount
      <4>2. k # 1
        BY <1>3, <2>3, <4>1 DEF Command
      <4>3. k - 1 \in DOMAIN rest /\ rest[k - 1] = Command("mount", Point(x))
        BY <1>4, <4>1, <4>2
      <4>. QED BY <1>2, <4>1, <4>3 DEF ToMount
    <3>. QED BY <1>5, <3>1, <3>2
  <2>4. ASSUME lastCmd.does = "mount"
        PROVE  /\ mounted' \subseteq Range(PrivateDirs)
               /\ Range(PrivateDirs) \subseteq mounted' \union ToMount'
    <3>1. PICK x \in Range(PrivateDirs) :
             /\ lastCmd.dir = Point(x) /\ Makes(Pending, 1, Point(x))
             /\ x \in Bound => Makes(Pending, 1, Source(x))
      BY <1>3, <1>4, <2>1, <2>4 DEF Fits
    <3>2. \A d : ~Before(Pending, 1, d)
      BY <1>3 DEF Before
    <3>3. Point(x) \in made /\ (x \in Bound => Source(x) \in made) /\ lastCmd.dir[2] = x
      BY <3>1, <3>2, CommandsAreOrders DEF Makes
    <3>4. mounted' = mounted \union {x}
      BY <2>4, <3>1, <3>3 DEF Done
    <3>5. Range(PrivateDirs) \subseteq mounted' \union ToMount'
      <4>. SUFFICES ASSUME NEW z \in ToMount, z # x PROVE z \in ToMount'
        BY <2>1, <3>4
      <4>1. PICK k \in DOMAIN Pending :
               Pending[k] = Command("mount", Point(z)) /\ z \in Range(PrivateDirs)
        BY DEF ToMount
      <4>2. k # 1
        <5>1. Point(z)[2] = z
          BY <4>1, CommandsAreOrders
        <5>. QED BY <1>3, <3>3, <4>1, <5>1 DEF Command
      <4>3. k - 1 \in DOMAIN rest /\ rest[k - 1] = Command("mount", Point(z))
        BY <1>4, <4>1, <4>2
      <4>. QED BY <1>2, <4>1, <4>3 DEF ToMount
    <3>. QED BY <1>5, <3>4, <3>5
  <2>5. /\ mounted' \subseteq Range(PrivateDirs)
        /\ Range(PrivateDirs) \subseteq mounted' \union ToMount'
    BY <2>3, <2>4
  <2>6. ASSUME NEW k \in DOMAIN rest, NEW d, Makes(Pending, k + 1, d)
        PROVE  Makes(rest, k, d)'
    <3>1. CASE d \in made
      BY <1>6, <3>1 DEF Makes
    <3>2. CASE Before(Pending, k + 1, d)
      <4>1. PICK i \in DOMAIN Pending : i < k + 1 /\ Pending[i] = Command("mkdir", d)
        BY <3>2 DEF Before
      <4>2. CASE i = 1
        <5>1. d \in made'
          BY <1>3, <1>6, <4>1, <4>2 DEF Command
        <5>. QED BY <5>1 DEF Makes
      <4>3. CASE i # 1
        <5>1. i - 1 \in DOMAIN rest /\ i - 1 < k /\ rest[i - 1] = Command("mkdir", d)
          BY <1>3, <1>4, <4>1, <4>3
        <5>2. Before(rest, k, d)'
          BY <5>1 DEF Before
        <5>. QED BY <5>2 DEF Makes
      <4>. QED BY <4>2, <4>3
    <3>. QED BY <2>6, <3>1, <3>2 DEF Makes
  <2>7. Fits(Pending)'
    <3>1. ASSUME NEW k \in DOMAIN rest
          PROVE  /\ rest[k].does \in {"setup", "mkdir", "mount"}
                 /\ rest[k].does = "mount" => \E x \in Range(PrivateDirs) :
                       /\ rest[k].dir = Point(x) /\ Makes(rest, k, Point(x))'
                       /\ x \in Bound => Makes(rest, k, Source(x))'
      <4>1. k + 1 \in DOMAIN Pending /\ Pending[k + 1] = rest[k]
        BY <1>4
      <4>2. rest[k].does \in {"setup", "mkdir", "mount"}
        BY <2>1, <4>1 DEF Fits
      <4>3. CASE rest[k].does = "mount"
        <5>1. PICK x \in Range(PrivateDirs) :
                 /\ rest[k].dir = Point(x) /\ Makes(Pending, k + 1, Point(x))
                 /\ x \in Bound => Makes(Pending, k + 1, Source(x))
          BY <2>1, <4>1, <4>3 DEF Fits
        <5>2. Makes(rest, k, Point(x))' /\ (x \in Bound => Makes(rest, k, Source(x))')
          BY <2>6, <5>1
        <5>. QED BY <4>2, <5>1, <5>2
      <4>. QED BY <4>2, <4>3
    <3>2. UNCHANGED rest /\ Pending' = rest'
      BY <1>2
    <3>. QED BY <3>1, <3>2 DEF Fits, Makes, Before
  <2>. QED BY <1>5, <1>7, <2>5, <2>7 DEF MountsOK
<1>8. CASE op = "cmd"
  <2>1. mounted = Range(PrivateDirs) /\ \A k \in DOMAIN Pending : Pending[k].does = "work"
    BY <1>8 DEF ShellInv, MountsOK
  <2>2. lastCmd.does = "work" /\ \A k \in DOMAIN rest : rest[k].does = "work"
    BY <1>3, <1>4, <2>1
  <2>3. mounted' = mounted
    BY <2>2 DEF Done
  <2>. QED BY <1>2, <1>5, <1>8, <2>1, <2>2, <2>3 DEF MountsOK
<1>9. CASE op = "terminate"
  <2>1. mounted \subseteq ToUnmount /\ \A k \in DOMAIN Pending : Pending[k].does = "umount"
    BY <1>9 DEF ShellInv, MountsOK
  <2>2. lastCmd.does = "umount" /\ \A k \in DOMAIN rest : rest[k].does = "umount"
    BY <1>3, <1>4, <2>1
  <2>3. mounted' = mounted \ {lastCmd.dir[2]}
    BY <2>2 DEF Done
  <2>4. mounted' \subseteq ToUnmount'
    <3>. SUFFICES ASSUME NEW z \in mounted, z # lastCmd.dir[2] PROVE z \in ToUnmount'
      BY <2>3
    <3>1. PICK k \in DOMAIN Pending :
             Pending[k] = Command("umount", Point(z)) /\ z \in Range(PrivateDirs)
      BY <2>1 DEF ToUnmount
    <3>2. k # 1
      <4>1. Point(z)[2] = z
        BY <3>1, CommandsAreOrders
      <4>. QED BY <1>3, <3>1, <4>1 DEF Command
    <3>3. k - 1 \in DOMAIN rest /\ rest[k - 1] = Command("umount", Point(z))
      BY <1>4, <3>1, <3>2
    <3>. QED BY <1>2, <3>1, <3>3 DEF ToUnmount
  <2>. QED BY <1>2, <1>5, <1>9, <2>2, <2>3, <2>4 DEF MountsOK
<1>. QED BY <1>1, <1>7, <1>8, <1>9

LEMMA BashPrintsInv ==
    ASSUME ShellInv, BashPrints
    PROVE  ShellInv'
<1>. DEFINE T == Token(sent)
<1>1. /\ printing # <<>> /\ Len(pty) < PtySize
      /\ pty' = Append(pty, Head(printing)) /\ printing' = Tail(printing)
      /\ UNCHANGED <<at, op, rest, shell, waiting, lastPid, lastCmd, data, output, sent, said,
                     jobs, noise>>
  BY DEF BashPrints, nodeVars
<1>2. /\ data \in Seq(T) /\ pty \in Seq(T) /\ printing \in Seq(T) /\ No(printing, {"noise"})
      /\ output \in Seq(T) /\ Len(pty) \in Nat
  BY LenProperties DEF ShellInv, TokensOK
<1>. HIDE DEF T
<1>3. /\ data \o (pty' \o printing') = data \o (pty \o printing)
      /\ pty' \in Seq(T) /\ printing' \in Seq(T) /\ Len(pty') = Len(pty) + 1
  <2>. DEFINE h == <<Head(printing)>>
  <2>1. /\ Head(printing) \in T /\ Tail(printing) \in Seq(T) /\ printing = h \o Tail(printing)
        /\ h \in Seq(T)
    BY <1>1, <1>2, FirstOff
  <2>2. /\ Append(pty, Head(printing)) = pty \o h /\ Append(pty, Head(printing)) \in Seq(T)
        /\ Len(Append(pty, Head(printing))) = Len(pty) + 1
    BY <1>2, <2>1, AppendIsConcat, AppendProperties
  <2>. HIDE DEF h
  <2>3. /\ printing = h \o printing' /\ pty' = pty \o h /\ h \in Seq(T)
        /\ pty' \in Seq(T) /\ printing' \in Seq(T) /\ Len(pty') = Len(pty) + 1
    BY <1>1, <2>1, <2>2
  <2>4. pty \in Seq(T) /\ h \in Seq(T) /\ printing' \in Seq(T)
    BY <1>2, <2>3
  <2>5. pty \o (h \o printing') = (pty \o h) \o printing'
    BY <2>4, ConcatTurns
  <2>. QED BY <2>3, <2>5
<1>4. Stream' = Stream
  BY <1>1, <1>3 DEF Stream
<1>5. TokensOK'
  <2>1. Token(sent)' = T
    BY <1>1 DEF Token, T
  <2>2. No(printing', {"noise"})
    <3>. DEFINE h == <<Head(printing)>>
                t == Tail(printing)
    <3>1. printing = h \o t /\ Head(printing) \in T /\ t \in Seq(T) /\ h \in Seq(T)
      BY <1>1, <1>2, FirstOff
    <3>. HIDE DEF h, t
    <3>2. h \in Seq(T) /\ t \in Seq(T)
      BY <3>1
    <3>3. \A K : No(h \o t, K) <=> No(h, K) /\ No(t, K)
      BY <3>2, ConcatHas
    <3>. QED BY <1>1, <1>2, <3>1, <3>3 DEF t
  <2>3. Len(pty') <= PtySize
    BY <1>1, <1>2, <1>3, ShellAssumption
  <2>. QED BY <1>1, <1>2, <1>3, <2>1, <2>2, <2>3 DEF TokensOK
<1>6. StreamOK' /\ (InUse' <=> InUse) /\ shell /\ at # "new"
  BY <1>1, <1>4, SameStreamOK DEF ShellInv, InUse, NewOK
<1>7. CASE printing' # <<>>
  <2>1. UNCHANGED <<bash, typed, made, mounted>>
    BY <1>1, <1>7 DEF BashPrints
  <2>2. Unread' <=> Unread
    BY <2>1 DEF Unread
  <2>3. NodeOK' /\ PidOK' /\ AnswerOK' /\ MountsOK'
    BY <1>1, <1>4, <1>6, <2>1, <2>2, SamePidOK, SameAnswerOK, SameMountsOK DEF ShellInv, NodeOK
  <2>4. NewOK' /\ BashOK'
    BY <1>1, <1>4, <1>6, <1>7, <2>1, <2>2 DEF ShellInv, NewOK, BashOK
  <2>. QED BY <1>5, <1>6, <2>3, <2>4 DEF ShellInv
<1>8. CASE printing' = <<>> /\ typed = <<>>
  <2>1. bash' = "prompt" /\ UNCHANGED <<typed, made, mounted>>
    BY <1>1, <1>8 DEF BashPrints
  <2>2. at = "prompt"
    <3>. SUFFICES ASSUME InUse PROVE FALSE
      BY <1>6 DEF InUse
    <3>. QED BY <1>1, <1>8 DEF ShellInv, BashOK
  <2>3. ~InUse /\ ~InUse'
    BY <1>6, <2>2 DEF InUse
  <2>4. NodeOK' /\ PidOK' /\ AnswerOK' /\ BashOK'
    BY <1>1, <2>1, <2>3 DEF ShellInv, NodeOK, PidOK, AnswerOK, BashOK
  <2>5. MountsOK'
    BY <1>1, <2>1, <2>2, <2>3, SameMountsOK DEF ShellInv
  <2>6. NewOK'
    BY <1>1, <1>4, <1>6, <1>8, <2>1, <2>2 DEF ShellInv, NewOK
  <2>. QED BY <1>5, <1>6, <2>4, <2>5, <2>6 DEF ShellInv
<1>9. CASE printing' = <<>> /\ typed # <<>>
  <2>1. bash' = "prompt" /\ Done(Head(typed)) /\ typed' = Tail(typed)
    BY <1>1, <1>9 DEF BashPrints
  <2>2. InUse /\ InUse'
    BY <1>6, <1>9 DEF ShellInv, NewOK, InUse
  <2>3. bash = "run" /\ typed = <<lastCmd>> /\ waiting /\ lastCmd \in Orders
    BY <1>1, <1>9, <2>2 DEF ShellInv, BashOK, NodeOK
  <2>4. Head(typed) = lastCmd /\ typed' = <<>>
    BY <2>1, <2>3
  <2>5. ~Unread /\ ~Unread'
    BY <2>3, <2>4 DEF Unread
  <2>6. NodeOK'
    <3>1. <<>> \in Seq(Orders)
      OBVIOUS
    <3>. QED BY <1>1, <2>1, <2>4, <3>1 DEF ShellInv, NodeOK
  <2>7. PidOK' /\ AnswerOK'
    BY <1>1, <1>4, <1>6, <2>5, SamePidOK, SameAnswerOK DEF ShellInv
  <2>8. NewOK'
    BY <1>1, <2>2 DEF InUse, NewOK, ShellInv
  <2>9. BashOK'
    BY <1>1, <1>4, <1>9, <2>1, <2>2, <2>3, <2>4, <2>5 DEF ShellInv, BashOK
  <2>10. MountsOK'
    BY <1>1, <2>1, <2>2, <2>3, <2>4, DoneMounts
  <2>. QED BY <1>5, <1>6, <2>6, <2>7, <2>8, <2>9, <2>10 DEF ShellInv
<1>. QED BY <1>7, <1>8, <1>9

LEMMA JobPrintsInv ==
    ASSUME ShellInv, JobPrints
    PROVE  ShellInv'
<1>. DEFINE T == Token(sent)
            e == <<"noise", 0>>
            c == data \o pty
<1>1. /\ jobs # {} /\ noise > 0 /\ Len(pty) < PtySize
      /\ ~(printing # <<>> /\ Head(printing)[1] = "pid")
      /\ pty' = Append(pty, e) /\ noise' = noise - 1
      /\ UNCHANGED <<at, op, rest, shell, waiting, lastPid, lastCmd, data, output, sent, bash,
                     typed,
                     printing, said, jobs, made, mounted>>
  BY DEF JobPrints, nodeVars
<1>2. InUse /\ InUse' /\ (Unread' <=> Unread)
  BY <1>1 DEF ShellInv, NewOK, NodeOK, InUse, Unread
<1>3. /\ data \in Seq(T) /\ pty \in Seq(T) /\ printing \in Seq(T) /\ No(printing, {"noise"})
      /\ output \in Seq(T) /\ Len(pty) \in Nat
  BY LenProperties DEF ShellInv, TokensOK
<1>4. e \in T /\ e[1] = "noise"
  BY DEF ShellInv, NodeOK, Token, Kinds
<1>. HIDE DEF T, e
<1>5. /\ Append(pty, e) \in Seq(T) /\ Len(Append(pty, e)) = Len(pty) + 1
      /\ Append(pty, e) = pty \o <<e>> /\ <<e>> \in Seq(T)
  BY <1>3, <1>4, AppendProperties, AppendIsConcat
<1>6. /\ c \in Seq(T) /\ Append(c, e) = data \o Append(pty, e) /\ Append(c, e) \in Seq(T)
      /\ Append(c, e) = c \o <<e>>
  <2>1. c \in Seq(T)
    BY <1>3, ConcatProperties
  <2>2. data \o (pty \o <<e>>) = (data \o pty) \o <<e>>
    <3>. DEFINE z == <<e>>
    <3>1. z \in Seq(T)
      BY <1>5
    <3>. HIDE DEF z
    <3>2. data \o (pty \o z) = (data \o pty) \o z
      BY <1>3, <3>1, ConcatTurns
    <3>. QED BY <3>2 DEF z
  <2>3. Append(c, e) = c \o <<e>> /\ Append(c, e) \in Seq(T)
    <3>. HIDE DEF c
    <3>. QED BY <1>4, <2>1, AppendIsConcat, AppendProperties
  <2>. QED BY <1>5, <2>1, <2>2, <2>3
<1>7. Stream = c \o printing /\ Stream' = Append(c, e) \o printing
  <2>1. data \o (pty \o printing) = (data \o pty) \o printing
    BY <1>3, ConcatTurns
  <2>2. data \o (Append(pty, e) \o printing) = (data \o Append(pty, e)) \o printing
    <3>. DEFINE z == Append(pty, e)
    <3>1. z \in Seq(T)
      BY <1>5
    <3>. HIDE DEF z
    <3>2. data \o (z \o printing) = (data \o z) \o printing
      BY <1>3, <3>1, ConcatTurns
    <3>. QED BY <3>2 DEF z
  <2>. QED BY <1>1, <1>6, <2>1, <2>2 DEF Stream
<1>. HIDE DEF c
<1>8. SentinelLast(Stream') /\ Marked(Stream')
  <2>1. SentinelLast(c \o printing) /\ Marked(c \o printing)
    BY <1>7 DEF ShellInv, StreamOK
  <2>2. printing = <<>> \/ printing[1][1] # "pid"
    <3>1. printing # <<>> => Head(printing) = printing[1]
      BY <1>3, FirstOff
    <3>. QED BY <1>1, <3>1
  <2>3. SentinelLast(Append(c, e) \o printing) /\ Marked(Append(c, e) \o printing)
    BY <1>3, <1>4, <1>6, <2>1, <2>2, StreamInsert
  <2>. QED BY <1>7, <2>3
<1>9. Only(<<e>>, {"noise"}) /\ No(<<e>>, Marks) /\ Pids(<<e>>, sent) /\ TextsOf(<<e>>) = <<>>
  <2>1. DOMAIN <<e>> = 1 .. 1 /\ <<e>>[1] = e
    OBVIOUS
  <2>2. {"noise"} \subseteq Kinds /\ "text" \notin {"noise"} /\ "noise" \notin Marks
    BY DEF Kinds, Marks, Ctrl_A
  <2>3. Only(<<e>>, {"noise"}) /\ No(<<e>>, Marks) /\ Pids(<<e>>, sent)
    BY <1>4, <2>1, <2>2 DEF Only, No, Pids
  <2>4. TextsOf(<<e>>) = <<>>
    BY <1>5, <2>2, <2>3, NoTexts
  <2>. QED BY <2>3, <2>4
<1>10. /\ \A t : Has(Stream, t) => Has(Stream', t)
       /\ Only(Stream, {"noise"}) => Only(Stream', {"noise"})
       /\ No(Stream, Marks) => No(Stream', Marks)
  <2>. DEFINE f == Append(c, e)
              z == <<e>>
  <2>1. f \in Seq(T) /\ z \in Seq(T) /\ f = c \o z /\ Only(z, {"noise"}) /\ No(z, Marks)
    BY <1>5, <1>6, <1>9
  <2>. HIDE DEF f, z
  <2>2. /\ \A t : Has(c \o z, t) <=> Has(c, t) \/ Has(z, t)
        /\ \A K : Only(c \o z, K) <=> Only(c, K) /\ Only(z, K)
        /\ \A K : No(c \o z, K) <=> No(c, K) /\ No(z, K)
    BY ONLY <1>6, <2>1, ConcatHas
  <2>3. /\ \A t : Has(f \o printing, t) <=> Has(f, t) \/ Has(printing, t)
        /\ \A K : Only(f \o printing, K) <=> Only(f, K) /\ Only(printing, K)
        /\ \A K : No(f \o printing, K) <=> No(f, K) /\ No(printing, K)
    <3>1. f \in Seq(T) /\ printing \in Seq(T)
      BY ONLY <1>3, <2>1
    <3>. QED BY ONLY <3>1, ConcatHas
  <2>4. /\ \A t : Has(c \o printing, t) <=> Has(c, t) \/ Has(printing, t)
        /\ \A K : Only(c \o printing, K) <=> Only(c, K) /\ Only(printing, K)
        /\ \A K : No(c \o printing, K) <=> No(c, K) /\ No(printing, K)
    BY ONLY <1>3, <1>6, ConcatHas
  <2>5. Stream = c \o printing /\ Stream' = f \o printing
    BY <1>7 DEF f
  <2>. QED BY <2>1, <2>2, <2>3, <2>4, <2>5
<1>11. Pids(Stream, sent) => Pids(Stream', sent)
  <2>. DEFINE f == Append(c, e)
              z == <<e>>
  <2>1. f \in Seq(T) /\ z \in Seq(T) /\ f = c \o z /\ Pids(z, sent)
    BY <1>5, <1>6, <1>9
  <2>. HIDE DEF f, z
  <2>2. Pids(c \o z, sent) <=> Pids(c, sent) /\ Pids(z, sent)
    BY ONLY <1>6, <2>1, ConcatPids
  <2>3. Pids(f \o printing, sent) <=> Pids(f, sent) /\ Pids(printing, sent)
    BY ONLY <1>3, <2>1, ConcatPids
  <2>4. Pids(c \o printing, sent) <=> Pids(c, sent) /\ Pids(printing, sent)
    BY ONLY <1>3, <1>6, ConcatPids
  <2>5. Stream = c \o printing /\ Stream' = f \o printing
    BY <1>7 DEF f
  <2>. QED BY <2>1, <2>2, <2>3, <2>4, <2>5
<1>12. TextsOf(Stream') = TextsOf(Stream)
  <2>. DEFINE f == Append(c, e)
              z == <<e>>
  <2>1. f \in Seq(T) /\ z \in Seq(T) /\ f = c \o z /\ TextsOf(z) = <<>>
    BY <1>5, <1>6, <1>9
  <2>. HIDE DEF f, z
  <2>2. TextsOf(c) \in Seq(T) /\ TextsOf(c \o z) = TextsOf(c) \o TextsOf(z)
    BY <1>6, <2>1, TextsTypes
  <2>3. TextsOf(f) = TextsOf(c)
    BY <2>1, <2>2, EmptyConcat
  <2>4. TextsOf(f \o printing) = TextsOf(f) \o TextsOf(printing)
    BY <1>3, <2>1, TextsTypes
  <2>5. TextsOf(c \o printing) = TextsOf(c) \o TextsOf(printing)
    BY <1>3, <1>6, TextsTypes
  <2>6. Stream = c \o printing /\ Stream' = f \o printing
    BY <1>7 DEF f
  <2>. QED BY <2>3, <2>4, <2>5, <2>6
<1>13. NodeOK'
  <2>1. noise' \in 0 .. MaxNoise
    BY <1>1, ShellAssumption DEF ShellInv, NodeOK
  <2>. QED BY <1>1, <2>1 DEF ShellInv, NodeOK
<1>14. TokensOK'
  <2>1. Token(sent)' = T
    BY <1>1 DEF Token, T
  <2>2. Len(pty') <= PtySize
    BY <1>1, <1>3, <1>5, ShellAssumption
  <2>. QED BY <1>1, <1>3, <1>5, <2>1, <2>2 DEF TokensOK
<1>15. NewOK'
  BY <1>1, <1>2 DEF ShellInv, NewOK, InUse
<1>16. BashOK'
  BY <1>1, <1>2, <1>10 DEF ShellInv, BashOK
<1>17. StreamOK'
  BY <1>1, <1>8 DEF ShellInv, StreamOK
<1>18. PidOK'
  <2>1. Pids(Stream', sent)
    BY <1>2, <1>11 DEF ShellInv, PidOK, Pids
  <2>. QED BY <1>1, <1>2, <1>10, <2>1 DEF ShellInv, PidOK, Pids
<1>19. AnswerOK'
  <2>1. Repeat("text", said)' = Repeat("text", said)
    BY <1>1 DEF Repeat
  <2>. QED BY <1>1, <1>2, <1>12, <2>1 DEF ShellInv, AnswerOK
<1>20. MountsOK'
  BY <1>1, <1>2, SameMountsOK DEF ShellInv
<1>. QED BY <1>13, <1>14, <1>15, <1>16, <1>17, <1>18, <1>19, <1>20 DEF ShellInv

-----------------------------------------------------------------------------
(* A read by monitor.                                                       *)

(* What the answer keeps of what was read. *)
LEMMA StripIs ==
    ASSUME NEW T, NEW d \in Seq(T), \A t \in T : t[1] \in Kinds, Has(d, "pid") => Has(d, Ctrl_A)
    PROVE  /\ Strip(d) \in Seq(T) /\ Only(Strip(d), {"text", "job", "noise"})
           /\ TextsOf(Strip(d)) = TextsOf(d)
<1>. DEFINE R == {Sentinel} \union (IF Has(d, Ctrl_A) THEN {Ctrl_A, "pid", "job"} ELSE {})
            P == {t \in T : Has(d, Ctrl_A) \/ t[1] \notin {Ctrl_A, "pid"}}
            Q == {t \in P : t[1] \notin R}
<1>1. Strip(d) = Dropping(d, R)
  BY DEF Strip
<1>2. R \subseteq Kinds \ {"text"}
  BY DEF Kinds, Ctrl_A, Sentinel
<1>3. Q \subseteq T /\ \A t \in Q : t[1] \in {"text", "job", "noise"}
  BY DEF Kinds, Ctrl_A, Sentinel
<1>4. d \in Seq(P)
  <2>1. DOMAIN d = 1 .. Len(d) /\ Len(d) \in Nat /\ \A i \in 1 .. Len(d) : d[i] \in T
    BY ConcatElements, LenProperties
  <2>2. \A i \in 1 .. Len(d) : d[i] \in P
    BY <2>1 DEF Has
  <2>3. d = [i \in 1 .. Len(d) |-> d[i]]
    BY <2>1
  <2>. HIDE DEF P
  <2>. QED BY <2>1, <2>2, <2>3
<1>. HIDE DEF P, R
<1>5. Dropping(d, R) \in Seq(Q)
  BY <1>4, DroppingKind
<1>. HIDE DEF Q
<1>6. Strip(d) \in Seq(T)
  BY <1>1, <1>3, <1>5, SeqMonotonic
<1>7. Only(Strip(d), {"text", "job", "noise"})
  BY <1>1, <1>3, <1>5 DEF Only
<1>8. TextsOf(Strip(d)) = TextsOf(d)
  BY <1>1, <1>2, DroppingMore DEF TextsOf
<1>. QED BY <1>6, <1>7, <1>8

(* The first pid of what was read. *)
LEMMA FirstPid ==
    ASSUME NEW T, NEW d \in Seq(T), \A t \in T : t[1] \in Kinds, NEW n, Pids(d, n), Has(d, "pid")
    PROVE  Dropping(d, Kinds \ {"pid"})[1][2] = n
<1>. DEFINE R == Kinds \ {"pid"}
            P == {t \in T : t[1] = "pid" => t[2] = n}
            Q == {t \in P : t[1] \notin R}
<1>1. \A t \in Q : t[2] = n
  OBVIOUS
<1>2. d \in Seq(P)
  <2>1. DOMAIN d = 1 .. Len(d) /\ Len(d) \in Nat /\ \A i \in 1 .. Len(d) : d[i] \in T
    BY ConcatElements, LenProperties
  <2>2. \A i \in 1 .. Len(d) : d[i] \in P
    BY <2>1 DEF Pids
  <2>3. d = [i \in 1 .. Len(d) |-> d[i]]
    BY <2>1
  <2>. HIDE DEF P
  <2>. QED BY <2>1, <2>2, <2>3
<1>3. "pid" \notin R
  OBVIOUS
<1>. HIDE DEF P, R
<1>4. Dropping(d, R) \in Seq(Q)
  BY <1>2, DroppingKind
<1>5. Dropping(d, R) # <<>>
  <2>1. Dropping(d, R) = <<>> <=> \A i \in DOMAIN d : d[i][1] \in R
    BY DroppingEverything
  <2>. QED BY <1>3, <2>1 DEF Has
<1>. HIDE DEF Q
<1>6. Dropping(d, R)[1] \in Q
  <2>. DEFINE s == Dropping(d, R)
  <2>. HIDE DEF s
  <2>1. s \in Seq(Q) /\ s # <<>>
    BY <1>4, <1>5 DEF s
  <2>2. s[1] \in Q
    BY <2>1
  <2>. QED BY <2>2 DEF s
<1>. QED BY <1>1, <1>6 DEF R

LEMMA MonitorInv ==
    ASSUME ShellInv, monitor
    PROVE  ShellInv'
<1>. DEFINE T == Token(sent)
            d == data \o Chunk
            s == pty' \o printing
<1>1. /\ at \in {"monitor", "marker"} /\ waiting /\ Read
      /\ UNCHANGED <<op, rest, shell, lastCmd, sent, bash, typed, printing, said, jobs, noise,
                     made, mounted>>
  BY DEF monitor, bashVars
<1>2. InUse /\ shell
  BY <1>1 DEF ShellInv, NewOK, NodeOK, InUse
<1>3. /\ d \in Seq(T) /\ s \in Seq(T) /\ pty' \in Seq(T) /\ Len(pty') <= PtySize /\ Stream = d \o s
      /\ output \in Seq(T) /\ printing \in Seq(T) /\ No(printing, {"noise"})
      /\ \A t \in T : t[1] \in Kinds
  <2>1. \A t \in T : t[1] \in Kinds
    BY DEF Token
  <2>. HIDE DEF T
  <2>2. /\ d \in Seq(T) /\ s \in Seq(T) /\ pty' \in Seq(T) /\ Len(pty') <= PtySize
        /\ Stream = d \o s
    BY <1>1, StreamRead DEF ShellInv, T
  <2>3. output \in Seq(T) /\ printing \in Seq(T) /\ No(printing, {"noise"})
    BY DEF ShellInv, TokensOK, T
  <2>. QED BY <2>1, <2>2, <2>3
<1>4. Token(sent)' = T /\ (Unread' <=> Unread)
  BY <1>1 DEF Token, Unread, T
<1>5. SentinelLast(d \o s) /\ Marked(d \o s)
  BY <1>3 DEF ShellInv, StreamOK
<1>6. CASE ~MarkerIsWhole(d)
  <2>1. at' = "marker" /\ data' = d /\ UNCHANGED <<lastPid, waiting, output>>
    BY <1>6 DEF monitor
  <2>. HIDE DEF d, T
  <2>2. Stream' = Stream /\ InUse'
    <3>1. Stream' = d \o s
      BY <1>1, <2>1 DEF Stream, s
    <3>. QED BY <1>1, <1>2, <1>3, <2>1, <3>1 DEF InUse
  <2>3. NodeOK' /\ NewOK' /\ BashOK'
    BY <1>1, <1>2, <1>4, <2>1, <2>2 DEF ShellInv, NodeOK, NewOK, BashOK
  <2>4. TokensOK'
    BY <1>1, <1>3, <1>4, <2>1 DEF TokensOK
  <2>5. StreamOK'
    BY <1>6, <2>1, <2>2 DEF ShellInv, StreamOK, MarkerIsWhole
  <2>6. PidOK' /\ AnswerOK' /\ MountsOK'
    BY <1>1, <1>2, <1>4, <2>1, <2>2, SamePidOK, SameAnswerOK, SameMountsOK DEF ShellInv
  <2>. QED BY <2>3, <2>4, <2>5, <2>6 DEF ShellInv
<1>7. CASE MarkerIsWhole(d)
  <2>1. /\ at' = "monitor" /\ data' = <<>> /\ output' = output \o Strip(d)
        /\ waiting' = ~Has(d, Sentinel)
        /\ lastPid' = IF Has(d, Ctrl_A) /\ Has(d, "pid")
                     THEN Dropping(d, Kinds \ {"pid"})[1][2] ELSE lastPid
    BY <1>7 DEF monitor, HasSentinel
  <2>. HIDE DEF d, T
  <2>2. Stream' = s /\ InUse'
    <3>1. Stream' = <<>> \o s
      BY <1>1, <2>1 DEF Stream, s
    <3>. QED BY <1>1, <1>2, <1>3, <2>1, <3>1, EmptyConcat DEF InUse
  <2>. HIDE DEF s
  <2>3. /\ SentinelLast(s) /\ Marked(s) /\ (Has(d, Sentinel) => Only(s, {"noise"}))
        /\ Has(d, "pid") => Has(d, Ctrl_A)
    BY <1>3, <1>5, <1>7, StreamCut
  <2>4. /\ \A t : Has(Stream, t) <=> Has(d, t) \/ Has(s, t)
        /\ \A K : Only(Stream, K) <=> Only(d, K) /\ Only(s, K)
        /\ \A K : No(Stream, K) <=> No(d, K) /\ No(s, K)
    BY <1>3, ConcatHas
  <2>5. Pids(Stream, sent) <=> Pids(d, sent) /\ Pids(s, sent)
    BY <1>3, ConcatPids
  <2>6. /\ Strip(d) \in Seq(T) /\ Only(Strip(d), {"text", "job", "noise"})
        /\ TextsOf(Strip(d)) = TextsOf(d)
    BY <1>3, <2>3, StripIs
  <2>7. output' \in Seq(T) /\ Only(output', {"text", "job", "noise"})
    <3>1. Only(output, {"text", "job", "noise"})
      BY <1>2 DEF ShellInv, AnswerOK
    <3>2. output \o Strip(d) \in Seq(T)
      BY <1>3, <2>6, ConcatProperties
    <3>3. Only(output \o Strip(d), {"text", "job", "noise"})
      BY <1>3, <2>6, <3>1, ConcatHas
    <3>. QED BY <2>1, <3>2, <3>3
  <2>8. TokensOK'
    <3>1. <<>> \in Seq(T)
      BY EmptySeq
    <3>. QED BY <1>1, <1>3, <1>4, <2>1, <2>7, <3>1 DEF TokensOK
  <2>9. NewOK' /\ NodeOK'
    BY <1>1, <1>2, <2>1 DEF ShellInv, NodeOK, NewOK
  <2>10. Has(d, Sentinel) => typed = <<>>
    <3>. SUFFICES ASSUME Has(d, Sentinel), typed # <<>> PROVE FALSE
      OBVIOUS
    <3>1. Only(printing, {"noise"})
      <4>1. Only(pty' \o printing, {"noise"})
        BY <2>3 DEF s
      <4>. QED BY <1>3, <4>1, ConcatHas
    <3>2. printing = <<>>
      <4>1. DOMAIN printing = {}
        BY <1>3, <3>1 DEF Only, No
      <4>. QED BY <1>3, <4>1, EmptySeq, LenProperties
    <3>3. Unread
      BY <1>2, <3>2 DEF ShellInv, BashOK, Unread
    <3>4. Only(Stream, {"noise"}) /\ Has(Stream, Sentinel)
      BY <1>2, <2>4, <3>3 DEF ShellInv, BashOK
    <3>. QED BY <3>4 DEF Only, Has, Sentinel
  <2>11. BashOK'
    <3>1. IF ~waiting' \/ Unread' THEN Only(Stream', {"noise"}) ELSE Has(Stream', Sentinel)
      BY <1>1, <1>2, <1>4, <2>1, <2>2, <2>3, <2>4 DEF ShellInv, BashOK
    <3>2. typed' = <<>> \/ (typed' = <<lastCmd'>> /\ waiting')
      BY <1>1, <1>2, <2>1, <2>10 DEF ShellInv, BashOK
    <3>. QED BY <1>1, <1>2, <2>1, <3>1, <3>2 DEF ShellInv, BashOK
  <2>12. StreamOK'
    BY <2>1, <2>2, <2>3 DEF StreamOK
  <2>13. Pids(Stream, sent)
    BY <1>2 DEF ShellInv, PidOK, Pids
  <2>14. Has(d, "pid") => lastPid' = sent /\ lastCmd.bg /\ ~Unread
    <3>. SUFFICES ASSUME Has(d, "pid") PROVE lastPid' = sent /\ lastCmd.bg /\ ~Unread
      OBVIOUS
    <3>1. Dropping(d, Kinds \ {"pid"})[1][2] = sent
      BY <1>3, <2>5, <2>13, FirstPid
    <3>2. ~No(d, Marks)
      BY DEF Has, No, Marks
    <3>3. lastCmd.bg /\ ~Unread
      BY <1>2, <2>4, <3>2 DEF ShellInv, PidOK
    <3>. QED BY <2>1, <2>3, <3>1, <3>3
  <2>15. PidOK'
    <3>1. ~Has(d, "pid") => lastPid' = lastPid
      BY <2>1
    <3>2. lastPid' \in jobs' \union {0}
      BY <1>1, <1>2, <2>14, <3>1 DEF ShellInv, PidOK
    <3>3. \A i \in DOMAIN Stream' : Stream'[i][1] = "pid" => Stream'[i][2] = sent'
      BY <1>1, <2>2, <2>5, <2>13 DEF Pids
    <3>4. ~lastCmd'.bg \/ Unread' => lastPid' = 0 /\ No(Stream', Marks)
      BY <1>1, <1>2, <1>4, <2>2, <2>4, <2>14, <3>1 DEF ShellInv, PidOK
    <3>5. lastCmd'.bg /\ ~Unread' => sent' \in jobs' /\ (lastPid' = sent' \/ Has(Stream', "pid"))
      BY <1>1, <1>2, <1>4, <2>2, <2>4, <2>14, <3>1 DEF ShellInv, PidOK
    <3>. QED BY <3>2, <3>3, <3>4, <3>5 DEF PidOK
  <2>16. /\ TextsOf(output) \in Seq(T) /\ TextsOf(d) \in Seq(T) /\ TextsOf(s) \in Seq(T)
         /\ TextsOf(output') = TextsOf(output) \o TextsOf(d)
         /\ TextsOf(Stream) = TextsOf(d) \o TextsOf(s)
    <3>1. /\ TextsOf(output) \in Seq(T)
          /\ TextsOf(output \o Strip(d)) = TextsOf(output) \o TextsOf(Strip(d))
      BY <1>3, <2>6, TextsTypes
    <3>2. TextsOf(d) \in Seq(T) /\ TextsOf(d \o s) = TextsOf(d) \o TextsOf(s)
      BY <1>3, TextsTypes
    <3>3. TextsOf(s) \in Seq(T)
      BY <1>3, TextsTypes
    <3>. QED BY <1>3, <2>1, <2>6, <3>1, <3>2, <3>3
  <2>17. AnswerOK'
    <3>1. CASE Unread
      <4>1. TextsOf(output) = <<>>
        BY <1>2, <3>1 DEF ShellInv, AnswerOK
      <4>2. Only(d, {"noise"})
        BY <1>2, <2>4, <3>1 DEF ShellInv, BashOK
      <4>3. TextsOf(d) = <<>>
        <5>1. {"noise"} \subseteq Kinds /\ "text" \notin {"noise"}
          BY DEF Kinds
        <5>. QED BY <1>3, <4>2, <5>1, NoTexts
      <4>4. TextsOf(output') = <<>>
        BY <2>16, <4>1, <4>3, EmptyConcat
      <4>. QED BY <1>4, <2>7, <3>1, <4>4 DEF AnswerOK
    <3>2. CASE ~Unread
      <4>1. TextsOf(output) \o TextsOf(Stream) = Repeat("text", said)
        BY <1>2, <3>2 DEF ShellInv, AnswerOK
      <4>2. TextsOf(output) \o (TextsOf(d) \o TextsOf(s)) =
               (TextsOf(output) \o TextsOf(d)) \o TextsOf(s)
        <5>. DEFINE x == TextsOf(output)
                    y == TextsOf(d)
                    z == TextsOf(s)
        <5>1. x \in Seq(T) /\ y \in Seq(T) /\ z \in Seq(T)
          BY <2>16
        <5>. HIDE DEF x, y, z
        <5>2. x \o (y \o z) = (x \o y) \o z
          BY <5>1, ConcatTurns
        <5>. QED BY <5>2 DEF x, y, z
      <4>3. Repeat("text", said)' = Repeat("text", said)
        BY <1>1 DEF Repeat
      <4>4. TextsOf(output') \o TextsOf(Stream') = Repeat("text", said)
        BY <2>2, <2>16, <4>1, <4>2
      <4>. QED BY <1>4, <2>7, <3>2, <4>3, <4>4 DEF AnswerOK
    <3>. QED BY <3>1, <3>2
  <2>18. MountsOK'
    BY <1>1, <1>2, <2>1, <2>2, SameMountsOK DEF ShellInv
  <2>. QED BY <2>8, <2>9, <2>11, <2>12, <2>15, <2>17, <2>18 DEF ShellInv
<1>. QED BY <1>6, <1>7

-----------------------------------------------------------------------------
(* The shell of a node answers its own commands.                            *)

LEMMA StepShellInv ==
    ASSUME ShellInv, [ShellNext]_allVars
    PROVE  ShellInv'
<1>1. CASE CallShell
  BY <1>1, CmdInv, TerminateInv DEF CallShell
<1>2. CASE NodeStep
  BY <1>2, StartShellInv, WaitForPromptInv, SendCmdInv, IgnoreCmdInv, MonitorInv, WaitOutputInv,
     ReturnInv, KillInv DEF NodeStep
<1>3. CASE Bash \/ JobPrints
  BY <1>3, BashReadsInv, BashPrintsInv, JobPrintsInv DEF Bash
<1>4. CASE UNCHANGED shellVars
  BY <1>4, StutterShell
<1>. QED BY <1>1, <1>2, <1>3, <1>4 DEF ShellNext, CallProgram, Thread, allVars

LEMMA ShellInvAlways == ShellSpec => []ShellInv
BY InitShellInv, StepShellInv, PTL DEF ShellSpec

LEMMA ShellInvTypes == ShellInv => ShellTypeOK
<1>. SUFFICES ASSUME ShellInv PROVE ShellTypeOK
  OBVIOUS
<1>. DEFINE T == Token(sent)
<1>1. /\ pty \in Seq(T) /\ printing \in Seq(T) /\ output \in Seq(T) /\ data \in Seq(T)
      /\ Len(pty) <= PtySize /\ Tokens = T
  BY DEF ShellInv, TokensOK, Tokens, Token
<1>. HIDE DEF T
<1>2. Range(pty) \union Range(printing) \union Range(output) \union Range(data) \subseteq Tokens
  BY <1>1 DEF Range
<1>3. Len(typed) <= 1 /\ (lastPid \in jobs \union {0} \/ ~shell)
  <2>1. Len(<<>>) = 0 /\ Len(<<lastCmd>>) = 1
    BY EmptySeq
  <2>2. CASE ~shell \/ at = "prompt"
    BY <2>1, <2>2 DEF ShellInv, NewOK
  <2>3. CASE InUse
    <3>1. typed = <<>> \/ typed = <<lastCmd>>
      BY <2>3 DEF ShellInv, BashOK
    <3>2. lastPid \in jobs \union {0}
      BY <2>3 DEF ShellInv, PidOK
    <3>3. Len(typed) = 0 \/ Len(typed) = 1
      BY <2>1, <3>1
    <3>4. \A n : n = 0 \/ n = 1 => n <= 1
      OBVIOUS
    <3>5. Len(typed) <= 1
      BY <3>3, <3>4, Zenon
    <3>. QED BY <3>2, <3>5
  <2>. QED BY <2>2, <2>3 DEF InUse
<1>. QED BY <1>1, <1>2, <1>3 DEF ShellInv, NodeOK, MountsOK, ShellTypeOK

\* A node that can be used is ready for a command, whatever its chunks, its terminal's size, its
\* private directories and what its programs print: bash waits, nothing of the last answer is left
\* to be read, and its private directories are mounted (startShell, sendCmd, monitor, terminate).
THEOREM NodeIsAlwaysReady == ShellSpec => []NodeIsReady
<1>1. ShellInv /\ ErrInv => NodeIsReady
  <2>. SUFFICES ASSUME ShellInv, ErrInv PROVE NodeIsReady
    OBVIOUS
  <2>1. ShellTypeOK /\ ErrTypeOK
    BY ShellInvTypes, ErrInvTypes
  <2>2. NodeAndBashInStep
    <3>. SUFFICES ASSUME at \in {"send", "idle"}, shell
                  PROVE  /\ ~waiting /\ bash = "prompt" /\ typed = <<>> /\ printing = <<>>
                         /\ \A t \in Range(pty) : t[1] = "noise"
      BY DEF NodeAndBashInStep
    <3>1. InUse
      BY DEF InUse
    <3>2. /\ ~waiting /\ bash = "prompt" /\ typed = <<>> /\ printing = <<>>
          /\ Only(pty, {"noise"})
      BY <3>1, BetweenCommands
    <3>. QED BY <3>2 DEF Only, Range
  <2>3. PrivateDirsAreMounted
    <3>. SUFFICES ASSUME at = "idle"
                  PROVE  mounted = IF shell THEN Range(PrivateDirs) ELSE {}
      BY DEF PrivateDirsAreMounted
    <3>1. CASE ~shell
      BY <3>1 DEF ShellInv, MountsOK, InUse
    <3>2. CASE shell
      <4>1. InUse /\ op \in {"start", "cmd"} /\ rest = <<>>
        BY <3>2 DEF ShellInv, MountsOK, NodeOK, InUse
      <4>2. Pending = <<>>
        BY <4>1, BetweenCommands
      <4>3. ToMount = {}
        <5>1. DOMAIN Pending = {}
          BY <4>2, EmptySeq
        <5>. QED BY <5>1 DEF ToMount
      <4>. QED BY <3>2, <4>1, <4>3 DEF ShellInv, MountsOK
    <3>. QED BY <3>1, <3>2
  <2>. QED BY <2>1, <2>2, <2>3 DEF NodeIsReady
<1>. QED BY <1>1, ShellInvAlways, ErrInvAlways, PTL

\* What cmd returns is what that very command printed, all of it and nothing else but what
\* programs in the background print, and lastPid is the command's program or None, however the
\* chunks cut the output, the marker and the sentinel (sendCmd, monitor, waitOutput).
THEOREM AnswersAreAlwaysTheCommands == ShellSpec => []AnswersAreTheCommands
<1>1. ShellInv => AnswersAreTheCommands
  <2>. SUFFICES ASSUME ShellInv, at = "idle", shell
                PROVE  /\ lastPid = (IF lastCmd.bg THEN sent ELSE 0)
                       /\ ~Has(output, Sentinel) /\ ~Has(output, Ctrl_A) /\ ~Has(output, "pid")
                       /\ Dropping(output, Kinds \ {"text"}) = Repeat("text", said)
    BY DEF AnswersAreTheCommands
  <2>. DEFINE T == Token(sent)
  <2>1. InUse
    BY DEF InUse
  <2>2. Only(Stream, {"noise"}) /\ ~Unread
    BY <2>1, BetweenCommands
  <2>3. lastPid = (IF lastCmd.bg THEN sent ELSE 0)
    <3>1. ~Has(Stream, "pid")
      BY <2>2 DEF Only, Has
    <3>. QED BY <2>1, <2>2, <3>1 DEF ShellInv, PidOK
  <2>4. /\ Only(output, {"text", "job", "noise"})
        /\ TextsOf(output) \o TextsOf(Stream) = Repeat("text", said)
    BY <2>1, <2>2 DEF ShellInv, AnswerOK
  <2>5. ~Has(output, Sentinel) /\ ~Has(output, Ctrl_A) /\ ~Has(output, "pid")
    BY <2>4 DEF Only, Has, Sentinel, Ctrl_A
  <2>6. Stream \in Seq(T) /\ output \in Seq(T)
    BY StreamTypes DEF ShellInv, TokensOK
  <2>. HIDE DEF T
  <2>7. TextsOf(Stream) = <<>>
    <3>1. {"noise"} \subseteq Kinds /\ "text" \notin {"noise"}
      BY DEF Kinds
    <3>. QED BY <2>2, <2>6, <3>1, NoTexts
  <2>8. TextsOf(output) = Repeat("text", said)
    <3>1. TextsOf(output) \in Seq(T)
      BY <2>6, TextsTypes
    <3>. QED BY <2>4, <2>7, <3>1, EmptyConcat
  <2>. QED BY <2>3, <2>5, <2>8 DEF TextsOf
<1>. QED BY <1>1, ShellInvAlways, PTL
==============================================================================
