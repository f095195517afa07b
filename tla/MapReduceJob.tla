---------------------------- MODULE MapReduceJob ----------------------------
(***************************************************************************)
(* A job thread of src/MapReducerScheduler/MapReduceJob.py: it starts one   *)
(* iperf3 client per mapper, polls the clients until all have exited, tries *)
(* again when one fails or all are too slow, asks the manager of the        *)
(* reducers to restart the servers, and in the end puts its statistics.     *)
(***************************************************************************)
EXTENDS Integers, Sequences

CONSTANTS
    NumberOfMappers,   \* len( mapHostList )
    RetryThreshold,    \* _retryThreshold
    MaxSamePasses      \* the passes without an exit after which an attempt times out

ASSUME JobAssumption ==
    /\ NumberOfMappers \in Nat \ {0}
    /\ RetryThreshold \in Nat \ {0}
    /\ MaxSamePasses \in Nat \ {0}

Mappers == 1 .. NumberOfMappers

VARIABLES
    pc,
    process,         \* what has become of the client of each mapper
    reaped,          \* the mappers whose client has been waited for
    mappers,         \* the list of the clients that are still polled
    place,           \* the place in it where the thread is
    mappersLength, sameCounter, hasNoError, retryCount,
    passes,          \* history: the passes of this attempt, counted as far as PassesCounted
    killList,        \* the job's requests in the manager's list, for the reducer of each mapper
    restarts,        \* history: how many of them the manager has carried out
    result           \* the statistics that were put: none, "done" or "gaveUp"

clientVars == <<process, reaped>>
passVars == <<mappers, place, mappersLength, sameCounter, passes>>
managerVars == <<killList, restarts>>
vars == <<pc, clientVars, passVars, hasNoError, retryCount, managerVars, result>>

Init ==
    /\ pc = "attempt"
    /\ process = [m \in Mappers |-> "none"]
    /\ reaped = {}
    /\ mappers = <<>> /\ place = 1 /\ mappersLength = 0 /\ sameCounter = 0 /\ passes = 0
    /\ hasNoError = TRUE
    /\ retryCount = 0
    /\ killList = [m \in Mappers |-> 0] /\ restarts = [m \in Mappers |-> 0]
    /\ result = "none"

Goto(from, to) == pc = from /\ pc' = to

\* The list without the place p: every later place moves up.
Without(list, p) == [i \in 1 .. Len(list) - 1 |-> list[IF i < p THEN i ELSE i + 1]]

-----------------------------------------------------------------------------
(* An attempt.                                                              *)

BeginAttempt ==
    /\ Goto("attempt", "start")
    /\ process' = [m \in Mappers |-> "none"] /\ reaped' = {}
    /\ mappers' = <<>>
    /\ sameCounter' = 0 /\ passes' = 0
    /\ hasNoError' = TRUE
    /\ UNCHANGED <<place, mappersLength, retryCount, managerVars, result>>

\* The clients are started one by one: the first may exit before the last is started.
StartMapper ==
    /\ pc = "start"
    /\ Len(mappers) < NumberOfMappers
    /\ mappers' = Append(mappers, Len(mappers) + 1)
    /\ process' = [process EXCEPT ![Len(mappers) + 1] = "running"]
    /\ UNCHANGED <<pc, reaped, place, mappersLength, sameCounter, passes, hasNoError, retryCount,
                   managerVars, result>>

MappersStarted ==
    /\ Goto("start", "pass")
    /\ Len(mappers) = NumberOfMappers
    /\ mappersLength' = Len(mappers)
    /\ place' = 1
    /\ UNCHANGED <<clientVars, mappers, sameCounter, passes, hasNoError, retryCount, managerVars,
                   result>>

\* A client exits by itself, with status 0 or another one.
ClientExits(m) ==
    /\ process[m] = "running"
    /\ \E status \in {"succeeded", "failed"} : process' = [process EXCEPT ![m] = status]
    /\ UNCHANGED <<pc, reaped, passVars, hasNoError, retryCount, managerVars, result>>

\* Faulty: the status of the client polled last is what counts.
StatusOfLast(m) == process[m] = "succeeded"

NoErrorWith(m) == hasNoError /\ process[m] = "succeeded"

\* Faulty: the first client of the list is deleted.
DeletesFirst == 1

DeletedPlace == place

\* A client that has exited leaves the list, which shrinks under its iterator: the one
\* after it is not polled in this pass.
PollMapper ==
    /\ pc = "pass"
    /\ place <= Len(mappers)
    /\ IF process[mappers[place]] = "running"
       THEN UNCHANGED <<reaped, mappers, hasNoError>>
       ELSE /\ reaped' = reaped \cup {mappers[place]}
            /\ mappers' = Without(mappers, DeletedPlace)
            /\ hasNoError' = NoErrorWith(mappers[place])
    /\ place' = place + 1
    /\ UNCHANGED <<pc, process, mappersLength, sameCounter, passes, retryCount, managerVars,
                   result>>

\* Faulty: the passes in which a client exited are counted.
PassIsNotTheSame == mappersLength # Len(mappers)

PassIsTheSame == mappersLength = Len(mappers)

\* Faulty: an exit of a client starts the count over.
StartsOver == IF PassIsTheSame THEN sameCounter + 1 ELSE 0

SamePasses == IF PassIsTheSame THEN sameCounter + 1 ELSE sameCounter

\* A bound of the history only, one more than there can be (AttemptsAreBounded).
PassesCounted == MaxSamePasses + NumberOfMappers + 1

TooSlow(same) == same >= MaxSamePasses

\* What is done at the end of a pass: nothing is left to poll, a client has failed, too
\* many passes were the same, or else another pass is made.
EndPass ==
    /\ pc = "pass"
    /\ place > Len(mappers)
    /\ sameCounter' = SamePasses
    /\ passes' = IF passes < PassesCounted THEN passes + 1 ELSE passes
    /\ mappersLength' = Len(mappers)
    /\ place' = 1
    /\ \/ /\ mappers = <<>> /\ hasNoError
          /\ pc' = "succeed"
          /\ UNCHANGED <<hasNoError, retryCount>>
       \/ /\ ~hasNoError \/ (mappers # <<>> /\ TooSlow(sameCounter'))
          /\ pc' = "terminateMappers"
          /\ hasNoError' = FALSE
          /\ retryCount' = retryCount + 1
       \/ /\ mappers # <<>> /\ hasNoError /\ ~TooSlow(sameCounter')
          /\ UNCHANGED <<pc, hasNoError, retryCount>>
    /\ UNCHANGED <<clientVars, mappers, managerVars, result>>

-----------------------------------------------------------------------------
(* The end of an attempt.                                                   *)

\* Faulty: the clients that are still running are left alone.
KillsNobody == {}

\* What terminateMappers signals.
ToKill == {mappers[place]}

\* kill() and wait(); signalling a client that has been waited for raises an OSError,
\* which ends the thread.
TerminateMapper ==
    /\ pc = "terminateMappers"
    /\ place <= Len(mappers)
    /\ pc' = IF ToKill \cap reaped # {} THEN "crashed" ELSE pc
    /\ process' = [m \in Mappers |->
                      IF m \in ToKill /\ process[m] = "running" THEN "killed" ELSE process[m]]
    /\ reaped' = reaped \cup ToKill
    /\ place' = place + 1
    /\ UNCHANGED <<mappers, mappersLength, sameCounter, passes, hasNoError, retryCount, managerVars,
                   result>>

MappersTerminated ==
    /\ Goto("terminateMappers", "retry")
    /\ place > Len(mappers)
    /\ UNCHANGED <<clientVars, passVars, hasNoError, retryCount, managerVars, result>>

\* Faulty: off by one, the reducers are to be restarted after the last attempt.
RestartsTooLate == retryCount = RetryThreshold /\ RetryThreshold > 1

RestartsReducers == retryCount = RetryThreshold - 1 /\ RetryThreshold > 1

\* killReducers: the manager of the reducers is asked to restart the job's servers, which it
\* does when it next walks its list; the thread sleeps for 2 s and does not wait for it.
KillReducers == killList' = [m \in Mappers |-> killList[m] + 1]

\* The job asks for new servers before its last attempt, ...
Retry ==
    /\ Goto("retry", IF retryCount >= RetryThreshold THEN "giveUp" ELSE "attempt")
    /\ IF RestartsReducers THEN KillReducers ELSE UNCHANGED killList
    /\ UNCHANGED <<clientVars, passVars, hasNoError, retryCount, restarts, result>>

\* ... and again when that has failed; it puts its statistics with times of 0.
GiveUp ==
    /\ Goto("giveUp", "over")
    /\ KillReducers
    /\ result' = "gaveUp"
    /\ UNCHANGED <<clientVars, passVars, hasNoError, retryCount, restarts>>

\* The manager carries out a request, at any time, the thread in whatever attempt: a client
\* that loses its server by it exits (ClientExits).
ManagerRestarts(m) ==
    /\ killList[m] > 0
    /\ killList' = [killList EXCEPT ![m] = @ - 1]
    /\ restarts' = [restarts EXCEPT ![m] = @ + 1]
    /\ UNCHANGED <<pc, clientVars, passVars, hasNoError, retryCount, result>>

Succeed ==
    /\ Goto("succeed", "over")
    /\ result' = "done"
    /\ UNCHANGED <<clientVars, passVars, hasNoError, retryCount, managerVars>>

Run ==
    \/ BeginAttempt \/ StartMapper \/ MappersStarted \/ PollMapper \/ EndPass
    \/ TerminateMapper \/ MappersTerminated \/ Retry \/ GiveUp \/ Succeed

Over == pc = "over" /\ UNCHANGED vars

Next == Run \/ Over \/ \E m \in Mappers : ClientExits(m) \/ ManagerRestarts(m)

Spec == Init /\ [][Next]_vars

\* The job thread is scheduled; a client may hang for ever, and the manager be late.
FairSpec == Spec /\ WF_vars(Run)

-----------------------------------------------------------------------------
(* Properties.                                                              *)

ThreadTypeOK ==
    /\ pc \in {"attempt", "start", "pass", "succeed", "terminateMappers", "retry", "giveUp",
               "over", "crashed"}
    /\ process \in [Mappers -> {"none", "running", "succeeded", "failed", "killed"}]
    /\ reaped \subseteq Mappers
    /\ mappers \in Seq(Mappers)
    /\ place \in 1 .. NumberOfMappers + 1
    /\ mappersLength \in 0 .. NumberOfMappers
    /\ sameCounter \in 0 .. MaxSamePasses
    /\ hasNoError \in BOOLEAN
    /\ retryCount \in 0 .. RetryThreshold
    /\ passes \in Nat
    /\ result \in {"none", "done", "gaveUp"}

TypeOK ==
    /\ ThreadTypeOK
    /\ killList \in [Mappers -> 0 .. 2] /\ restarts \in [Mappers -> 0 .. 2]

\* A job is reported as done only if every client of its last attempt exited with status 0,
\* in whatever order they exited and were polled.
DoneMeansAllSucceeded ==
    result = "done" => \A m \in Mappers : process[m] = "succeeded"

\* No client is running, nor left as a zombie, when an attempt begins, since it would hold
\* the server the new one needs, or when the statistics are put and the slots given back.
NoClientIsLeft ==
    pc \in {"attempt", "over"} =>
        \A m \in Mappers : process[m] # "none" => process[m] # "running" /\ m \in reaped

\* The thread never signals a client that it has waited for: it would die of an OSError,
\* and the scheduler would wait for its statistics for ever.
NeverCrashes == pc # "crashed"

\* Every client is waited for exactly once: none is left, and none is signalled afterwards,
\* though clients exit at any time and are deleted from the list that is being walked.
ClientsAreReaped == TypeOK /\ NoClientIsLeft /\ NeverCrashes

\* What the manager was asked to do for the reducer of m, carried out or not.
Asked(m) == killList[m] + restarts[m]

\* No attempt but the last can lose a server to a restart that the job itself asked for.
\* Before the last attempt every server of the job has been asked for once, and when the job
\* gives up once more, neither more nor less often.  Nothing waits for the manager: the last
\* attempt, and the job that gets the servers next, may begin before they are restarted.
ReducersAreAskedInTime ==
    \A m \in Mappers :
        /\ retryCount < RetryThreshold - 1 => Asked(m) = 0
        /\ pc = "start" /\ retryCount = RetryThreshold - 1 /\ RetryThreshold > 1 => Asked(m) = 1
        /\ result = "gaveUp" => Asked(m) = (IF RetryThreshold > 1 THEN 2 ELSE 1)

\* However the exits of the clients are spread over an attempt, it takes no more passes than
\* the limit and one for each client: an exit does not give the others more time, and a job
\* whose clients make progress is timed out like one whose clients hang.
AttemptsAreBounded == passes <= MaxSamePasses + NumberOfMappers

\* The job puts its statistics in the end, even if its clients hang.
JobEnds == <>(result # "none")

=============================================================================
